------------------------- MODULE IdentityDirectory -------------------------
(***************************************************************************)
(* Authentik as nas_identity_sync.py uses it: the accounts and the reserved *)
(* roles, and one mutating request at a time whose answer may be lost.  A   *)
(* request is sent once, is served or rejected, and its answer arrives or   *)
(* not: http_json never repeats a mutation (max_attempts is 1).             *)
(*                                                                          *)
(* Every mutating command holds the identity operation and the local flock, *)
(* so at most one of them runs; killing it releases both.                   *)
(***************************************************************************)
EXTENDS Integers, FiniteSets

CONSTANTS
    Accounts,       \* the user names account plans may manage
    Passwords,      \* the passwords operators submit
    MaxFaults,      \* bound: kills, rejections, lost answers and failed reads
    MaxEdits,       \* bound: changes somebody makes in Authentik or Syncthing
    MaxCommands     \* bound: mutating commands that get the lock

\* normalized_account_plan refuses the bootstrap account.
ASSUME AccountsAssumption == "akadmin" \notin Accounts

VARIABLES
    command,        \* the mutating command that holds the identity lock
    commands,       \* how many held it so far
    pc,             \* where it is
    call,           \* its outstanding request
    directory,      \* Authentik's users
    roles,          \* Authentik's reserved groups
    edits,          \* changes made outside the program
    revoked,        \* one of them took an administrator away
    faults

directoryVars == <<command, commands, pc, call, directory, roles, edits, revoked,
                   faults>>

Users == Accounts \cup {"akadmin"}
Reserved == {"admins", "disabled"}

Absent == [known |-> FALSE]
People ==
    [known : {TRUE}, active : BOOLEAN, roles : SUBSET Reserved, app : BOOLEAN,
     managed : BOOLEAN, password : Passwords \cup {"unset"}]

Person(active, groups, app, managed) ==
    [known |-> TRUE, active |-> active, roles |-> groups, app |-> app,
     managed |-> managed, password |-> "unset"]

Commands == {"none", "bootstrap", "retire-bootstrap", "apply-accounts",
             "sync-syncthing"}

NoCall == [to |-> <<"none">>, state |-> "none"]
CallTo(target) == [to |-> target, state |-> "sent"]
Unsent(target) == [to |-> target, state |-> "unsent"]

\* enabled_administrator_names.
Administrators(d) ==
    {u \in Users : d[u].known /\ d[u].active /\ "admins" \in d[u].roles}

DirectoryInit ==
    /\ command = "none" /\ commands = 0 /\ pc = "idle" /\ call = NoCall
    /\ directory = [u \in Users |->
         IF u = "akadmin"
         THEN Person(TRUE, {}, FALSE, FALSE) ELSE Absent]
    /\ roles = [r \in Reserved |-> "absent"]
    /\ edits = 0 /\ revoked = FALSE /\ faults = 0

-----------------------------------------------------------------------------
(* Commands and requests. *)

\* identity_mutation_operation and identity_command_lock: both locks are taken
\* without waiting, so a second command fails and changes nothing.
Begin(c, place) ==
    /\ command = "none"
    /\ commands < MaxCommands /\ commands' = commands + 1
    /\ command' = c /\ pc' = place

End == command' = "none" /\ pc' = "idle" /\ call' = NoCall /\ UNCHANGED commands

Goto(place) == pc' = place /\ UNCHANGED <<command, commands>>

Fault == faults < MaxFaults /\ faults' = faults + 1

\* The answer is an error that says the request was not done: a 4xx other than
\* 408, a refused connection.
Rejected ==
    /\ call.state = "sent" /\ Fault
    /\ call' = [call EXCEPT !.state = "rejected"]

\* ambiguous_mutation_failure: a timeout, a reset, a 5xx; served or not.
Lost ==
    /\ call.state \in {"sent", "served"} /\ Fault
    /\ call' = [call EXCEPT !.state = "lost"]

\* The server answers a request to make a user this person; one about a user who
\* is not there any more (404) is rejected.
Update(u, found, person) ==
    /\ call' = [call EXCEPT !.state = IF found THEN "served" ELSE "rejected"]
    /\ directory' = IF found THEN [directory EXCEPT ![u] = person] ELSE directory

\* The server does the request: it changes a reserved group or akadmin.
ServeDirectory ==
    /\ call.state = "sent"
    /\ LET akadmin == directory["akadmin"]
       IN  \/ \E r \in Reserved :
                /\ call.to = <<"role", r>>
                /\ call' = [call EXCEPT !.state = "served"]
                /\ roles' = [roles EXCEPT ![r] = "ok"] /\ UNCHANGED directory
           \/ /\ call.to = <<"member">>
              /\ Update("akadmin", akadmin.known, [akadmin EXCEPT !.roles = @ \cup {"admins"}])
              /\ UNCHANGED roles
           \/ /\ call.to = <<"retire">>
              /\ Update("akadmin", akadmin.known, Absent)
              /\ UNCHANGED roles
    /\ UNCHANGED <<command, commands, pc, edits, revoked, faults>>

Answered(target) == call.to = target /\ call.state = "served"
Failed == call.state \in {"rejected", "lost"}

-----------------------------------------------------------------------------
(* ensure_groups: create or correct the reserved groups, then make akadmin an *)
(* administrator when the group has no member at all.                         *)

WriteRole(r) ==
    /\ pc = "roles" /\ call = NoCall /\ roles[r] # "ok"
    /\ call' = CallTo(<<"role", r>>)
    /\ UNCHANGED <<command, commands, pc, directory, roles, edits, revoked, faults>>

RoleWritten(r) ==
    /\ Answered(<<"role", r>>)
    /\ call' = NoCall
    /\ UNCHANGED <<command, commands, pc, directory, roles, edits, revoked, faults>>

Members == {u \in Users : directory[u].known /\ "admins" \in directory[u].roles}

AddBootstrapAdministrator ==
    /\ pc = "roles" /\ call = NoCall
    /\ \A r \in Reserved : roles[r] = "ok"
    /\ IF Members # {}
       THEN pc' = "ensured" /\ UNCHANGED call
       ELSE /\ pc' = "member"
            /\ call' = [CallTo(<<"member">>) EXCEPT !.state =
                 IF directory["akadmin"].known /\ directory["akadmin"].active
                 THEN "sent" ELSE "rejected"]
    /\ UNCHANGED <<command, commands, directory, roles, edits, revoked, faults>>

BootstrapAdministratorAdded ==
    /\ Answered(<<"member">>)
    /\ pc' = "ensured" /\ call' = NoCall
    /\ UNCHANGED <<command, commands, directory, roles, edits, revoked, faults>>

EnsureGroups ==
    \/ \E r \in Reserved : WriteRole(r) \/ RoleWritten(r)
    \/ AddBootstrapAdministrator \/ BootstrapAdministratorAdded

-----------------------------------------------------------------------------
(* retire_bootstrap_administrator: delete akadmin once a chosen administrator  *)
(* is an enabled member of the group.                                          *)

Retirable(d, chosen) ==
    /\ chosen # "akadmin" /\ chosen \in Administrators(d)
    /\ Administrators(d) # {"akadmin"}

\* The bootstrap token belongs to akadmin and goes with it.
Retire ==
    /\ directory["akadmin"].known
    /\ Begin("retire-bootstrap", "retire")
    /\ \E chosen \in Accounts :
         /\ Retirable(directory, chosen)
         /\ call' = CallTo(<<"retire">>)
    /\ UNCHANGED <<directory, roles, edits, revoked, faults>>

Retired ==
    /\ command = "retire-bootstrap"
    /\ call.state \in {"served", "rejected", "lost"}
    /\ End
    /\ UNCHANGED <<directory, roles, edits, revoked, faults>>

-----------------------------------------------------------------------------
(* Somebody works in Authentik itself: capabilities are assigned there, and    *)
(* nothing stops an administrator from disabling or deleting a user.            *)

Edit(u) ==
    /\ edits < MaxEdits /\ edits' = edits + 1
    /\ directory[u].known /\ directory[u].active
    /\ \/ /\ directory' = [directory EXCEPT ![u].app = ~@]
          /\ UNCHANGED revoked
       \/ /\ directory' = [directory EXCEPT ![u].active = FALSE]
          /\ revoked' = TRUE
       \/ /\ directory' = [directory EXCEPT ![u] = Absent]
          /\ revoked' = TRUE
    /\ UNCHANGED <<command, commands, pc, call, roles, faults>>
=============================================================================
