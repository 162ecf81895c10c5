---------------------------- MODULE IdentitySync ----------------------------
(***************************************************************************)
(* nas-identity-sync as a whole: its commands share Authentik, the identity *)
(* lock and the faults, and run one after the other in any order - account  *)
(* plans, the bootstrap of groups and forward-auth applications, the        *)
(* retirement of akadmin, and the Syncthing reconciliation that follows     *)
(* what the plans made of the accounts.                                     *)
(***************************************************************************)
EXTENDS AccountPlan, ProxyApplication, SyncthingSync

CONSTANT FirstUsers     \* the users of appliances that are already set up

ASSUME FirstUsersAssumption == FirstUsers \subseteq Accounts

vars == <<directoryVars, planVars, proxyVars, syncVars>>

Init == DirectoryInit /\ PlanInit /\ ProxyInit /\ SyncInit

\* An appliance that commands before have set up, with a user who is the
\* administrator and has a synced device: a longer history in fewer commands.
Established(u) ==
    /\ command = "none" /\ commands = 1 /\ pc = "idle" /\ call = NoCall
    /\ directory = [v \in Users |->
         CASE v = "akadmin" -> Person(TRUE, {"admins"}, FALSE, FALSE)
           [] v = u -> Person(TRUE, {"admins"}, FALSE, TRUE)
           [] OTHER -> Absent]
    /\ roles = [r \in Reserved |-> "ok"]
    /\ edits = 0 /\ revoked = FALSE /\ faults = 0
    /\ PlanInit
    /\ objects = [provider |-> "new", application |-> "new", outpost |-> "new"]
    /\ before = objects
    /\ attempted = {} /\ committed = {} /\ broken = FALSE /\ attempt = 0
    /\ live = {"device", "folder"} \X {u} /\ made = live /\ owned = live
    /\ referenced = {} /\ sjournal = NoSyncJournal /\ run = NoRun

\* Steps of ensure_groups and of Authentik belong to whichever command is running.
Shared ==
    /\ \/ EnsureGroups \/ ServeDirectory
       \/ (Rejected \/ Lost)
          /\ UNCHANGED <<command, commands, pc, directory, roles, edits, revoked>>
       \/ Retire \/ Retired
       \/ \E u \in Users : Edit(u)
    /\ UNCHANGED <<planVars, proxyVars, syncVars>>

KillRetirement ==
    /\ command = "retire-bootstrap" /\ Fault
    /\ End
    /\ UNCHANGED <<directory, roles, edits, revoked, planVars, proxyVars, syncVars>>

Next ==
    \/ Shared \/ KillRetirement
    \/ AccountPlanNext /\ UNCHANGED <<proxyVars, syncVars>>
    \/ ProxyNext /\ UNCHANGED <<planVars, syncVars>>
    \/ SyncNext /\ UNCHANGED <<planVars, proxyVars>>

Spec == (Init \/ \E u \in FirstUsers : Established(u)) /\ [][Next]_vars

TypeOK ==
    /\ command \in Commands
    /\ directory \in [Users -> People \cup {Absent}]
    /\ roles \in [Reserved -> {"absent", "ok"}]
    /\ journal \in {NoJournal} \cup Journals({Fingerprint(p) : p \in Plans})
    /\ uncertain \subseteq PlanSteps
    /\ objects \in [Parts -> Versions]
    /\ made \subseteq live /\ live \subseteq Objects
    /\ owned \subseteq Objects
    /\ sjournal \in {NoSyncJournal} \cup Journaled
=============================================================================
