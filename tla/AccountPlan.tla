---------------------------- MODULE AccountPlan ----------------------------
(***************************************************************************)
(* apply-accounts and cancel-failed-accounts of nas_identity_sync.py: an    *)
(* account plan is written to Authentik account by account under a durable  *)
(* journal; a plan that stopped is resumed by the same plan only, or        *)
(* cancelled when nothing about it is uncertain.                            *)
(*                                                                          *)
(* A plan maps the user names it lists to what it wants of them, and may    *)
(* deactivate every managed account it does not list.                       *)
(***************************************************************************)
EXTENDS IdentityDirectory

CONSTANT Plans

VARIABLES
    plan,           \* the plan of the running command
    journal,        \* account-plan-journal.json
    seen,           \* the users as the running command read them
    todo,           \* accounts it has still to write or to deactivate
    uncertain       \* history: steps whose last request was never answered

planVars == <<plan, journal, seen, todo, uncertain>>

\* normalized_account_plan: only an enabled account can be an administrator.
AccountWants ==
    {account \in [active : BOOLEAN, admin : BOOLEAN, password : Passwords \cup {"unset"}] :
        account.admin => account.active}

\* load_account_plan; akadmin is never listed.
WellFormed(p) ==
    \E listed \in SUBSET Accounts :
        p \in [accounts : [listed -> AccountWants], deactivate : BOOLEAN]

ASSUME PlansAssumption == \A p \in Plans : WellFormed(p)

PlanSteps == {<<"reserved-groups">>}
    \cup ({"account", "password", "deactivate"} \X Accounts)

INSTANCE OperationJournal WITH Steps <- PlanSteps, NoStep <- <<"none">>

\* account_plan_fingerprint: of a password only whether there is one.
Fingerprint(p) ==
    [p EXCEPT !.accounts =
        [u \in DOMAIN p.accounts |->
            [p.accounts[u] EXCEPT !.password = (@ # "unset")]]]

RolesOf(account) ==
    IF account.admin THEN {"admins"}
    ELSE IF account.active THEN {} ELSE {"disabled"}

\* The managed accounts the plan does not list.
Missing(p, d) ==
    {u \in Accounts \ DOMAIN p.accounts :
        p.deactivate /\ d[u].known /\ d[u].managed}

\* resulting_administrators.
Resulting(p, d) ==
    LET Wanted == {u \in DOMAIN p.accounts : p.accounts[u].admin}
    IN  (Administrators(d) \ (DOMAIN p.accounts \cup Missing(p, d))) \cup Wanted

PriorityOfListing(u) == 1

\* write_priority: new administrators first, lost administrators last.
Priority(u) ==
    IF plan.accounts[u].admin THEN 0
    ELSE IF u \in Administrators(seen) THEN 2 ELSE 1

NoPlan == [accounts |-> <<>>, deactivate |-> FALSE]
NobodySeen == [u \in Users |-> Absent]

PlanInit ==
    /\ plan = NoPlan /\ journal = NoJournal
    /\ seen = NobodySeen /\ todo = {} /\ uncertain = {}

\* The command is over, and what it had in memory is gone.
EndPlan == End /\ plan' = NoPlan /\ seen' = NobodySeen /\ todo' = {}

-----------------------------------------------------------------------------
(* apply_account_plan. *)

\* The operator confirms that passwords are applied again when it is a resume.
OpenPlan(p) ==
    /\ CanOpen(journal, Fingerprint(p))
    /\ Begin("apply-accounts", "open")
    /\ plan' = p
    /\ journal' = Open(journal, Fingerprint(p))
    /\ uncertain' = IF Finished(journal) THEN {} ELSE uncertain
    /\ UNCHANGED <<call, directory, roles, edits, revoked, faults, seen, todo>>

StartGroups ==
    /\ command = "apply-accounts" /\ pc = "open"
    /\ IF StepComplete(journal, <<"reserved-groups">>)
       THEN Goto("read") /\ UNCHANGED journal
       ELSE Goto("roles") /\ journal' = StartStep(journal, <<"reserved-groups">>)
    /\ UNCHANGED <<call, directory, roles, edits, revoked, faults, plan, seen, todo, uncertain>>

GroupsEnsured ==
    /\ command = "apply-accounts" /\ pc = "ensured"
    /\ journal' = CompleteStep(journal, <<"reserved-groups">>)
    /\ uncertain' = uncertain \ {<<"reserved-groups">>}
    /\ Goto("read")
    /\ UNCHANGED <<call, directory, roles, edits, revoked, faults, plan, seen, todo>>

\* The users and groups are read once; everything after uses this reading.
ReadDirectory ==
    /\ command = "apply-accounts" /\ pc = "read"
    /\ IF Resulting(plan, directory) = {}
       THEN journal' = Fail(journal, FALSE) /\ EndPlan
       ELSE /\ Goto("accounts")
            /\ seen' = directory /\ todo' = DOMAIN plan.accounts
            /\ UNCHANGED <<journal, call, plan>>
    /\ UNCHANGED <<directory, roles, edits, revoked, faults, uncertain>>

ReadFails ==
    /\ command = "apply-accounts" /\ pc = "read" /\ Fault
    /\ journal' = Fail(journal, FALSE)
    /\ EndPlan
    /\ UNCHANGED <<directory, roles, edits, revoked, uncertain>>

\* A step begins: the journal says so before the request leaves.
Request(step, place) ==
    /\ journal' = StartStep(journal, step)
    /\ call' = CallTo(step)
    /\ Goto(place)

PasswordDueOnce(u) ==
    plan.accounts[u].password # "unset" /\ ~StepComplete(journal, <<"password", u>>)

\* A password is set whatever the journal says of it: the plan's fingerprint does
\* not tell one password from another.
PasswordDue(u) == plan.accounts[u].password # "unset"

\* The next account by priority.  A recorded account step is not made again,
\* and its account must then exist.
WriteAccount(u) ==
    /\ command = "apply-accounts" /\ pc = "accounts" /\ call = NoCall
    /\ u \in todo /\ \A v \in todo : Priority(u) <= Priority(v)
    /\ \/ /\ ~StepComplete(journal, <<"account", u>>)
          /\ Request(<<"account", u>>, "account") /\ UNCHANGED <<plan, seen, todo>>
       \/ /\ StepComplete(journal, <<"account", u>>) /\ ~seen[u].known
          /\ journal' = Fail(journal, FALSE) /\ EndPlan
       \/ /\ StepComplete(journal, <<"account", u>>) /\ seen[u].known
          /\ IF PasswordDue(u)
             THEN Request(<<"password", u>>, "password") /\ UNCHANGED todo
             ELSE todo' = todo \ {u} /\ UNCHANGED <<journal, call, command, commands, pc>>
          /\ UNCHANGED <<plan, seen>>
    /\ UNCHANGED <<directory, roles, edits, revoked, faults, uncertain>>

\* The step is recorded.  A password follows its account at once.
AccountWritten(u) ==
    /\ Answered(<<"account", u>>)
    /\ uncertain' = uncertain \ {<<"account", u>>}
    /\ journal' = CompleteStep(journal, <<"account", u>>)
    /\ IF PasswordDue(u)
       THEN Goto("password") /\ call' = Unsent(<<"password", u>>) /\ UNCHANGED todo
       ELSE Goto("accounts") /\ call' = NoCall /\ todo' = todo \ {u}
    /\ UNCHANGED <<directory, roles, edits, revoked, faults, plan, seen>>

SetPassword(u) ==
    /\ command = "apply-accounts" /\ call = Unsent(<<"password", u>>)
    /\ Request(<<"password", u>>, "password")
    /\ UNCHANGED <<directory, roles, edits, revoked, faults, plan, seen, todo, uncertain>>

PasswordSet(u) ==
    /\ Answered(<<"password", u>>)
    /\ uncertain' = uncertain \ {<<"password", u>>}
    /\ journal' = CompleteStep(journal, <<"password", u>>)
    /\ call' = NoCall /\ Goto("accounts")
    /\ todo' = todo \ {u}
    /\ UNCHANGED <<directory, roles, edits, revoked, faults, plan, seen>>

StartDeactivation ==
    /\ command = "apply-accounts" /\ pc = "accounts" /\ call = NoCall /\ todo = {}
    /\ Goto("deactivate") /\ todo' = Missing(plan, seen)
    /\ UNCHANGED <<call, directory, roles, edits, revoked, faults, plan, journal, seen, uncertain>>

Deactivate(u) ==
    /\ command = "apply-accounts" /\ pc = "deactivate" /\ call = NoCall /\ u \in todo
    /\ IF StepComplete(journal, <<"deactivate", u>>)
       THEN todo' = todo \ {u} /\ UNCHANGED <<journal, call, command, commands, pc>>
       ELSE Request(<<"deactivate", u>>, "deactivate") /\ UNCHANGED todo
    /\ UNCHANGED <<directory, roles, edits, revoked, faults, plan, seen, uncertain>>

Deactivated(u) ==
    /\ Answered(<<"deactivate", u>>)
    /\ uncertain' = uncertain \ {<<"deactivate", u>>}
    /\ journal' = CompleteStep(journal, <<"deactivate", u>>)
    /\ call' = NoCall /\ todo' = todo \ {u}
    /\ UNCHANGED <<command, commands, pc, directory, roles, edits, revoked, faults, plan, seen>>

CompletePlan ==
    /\ command = "apply-accounts" /\ pc = "deactivate" /\ call = NoCall /\ todo = {}
    /\ journal' = Complete(journal)
    /\ EndPlan
    /\ UNCHANGED <<directory, roles, edits, revoked, faults, uncertain>>

-----------------------------------------------------------------------------
(* What Authentik does with the requests of a plan. *)

Written(u) ==
    [known |-> TRUE, active |-> plan.accounts[u].active,
     roles |-> RolesOf(plan.accounts[u]),
     app |-> seen[u].known /\ seen[u].app, managed |-> TRUE,
     password |-> IF directory[u].known THEN directory[u].password ELSE "unset"]

\* An account that the command has not seen is created, any other is changed.
ServePlan ==
    /\ call.state = "sent"
    /\ \E u \in Accounts :
        \/ /\ call.to = <<"account", u>>
           /\ Update(u, directory[u].known \/ ~seen[u].known, Written(u))
        \/ /\ call.to = <<"password", u>>
           /\ Update(u, directory[u].known,
                     [directory[u] EXCEPT !.password = plan.accounts[u].password])
        \/ /\ call.to = <<"deactivate", u>>
           /\ Update(u, directory[u].known,
                     [directory[u] EXCEPT !.active = FALSE, !.roles = {"disabled"}])
    /\ UNCHANGED <<command, commands, pc, roles, edits, revoked, faults, planVars>>

-----------------------------------------------------------------------------
(* Failure, interruption, cancellation. *)

StepFailureOfAnyKind(j, step, lost) == FailStep(j, step, FALSE)

\* record_account_step_failure: an uncertain mutation also marks its step, so
\* that the plan can neither be resumed nor cancelled.
StepFailure(j, step, lost) ==
    IF lost
    THEN [FailStep(j, step, TRUE) EXCEPT !.steps[step] = "manual-recovery-required"]
    ELSE FailStep(j, step, FALSE)

RequestFails ==
    /\ command = "apply-accounts" /\ Failed
    /\ journal' = StepFailure(journal, journal.current, call.state = "lost")
    /\ uncertain' = IF call.state = "lost" THEN uncertain \cup {journal.current}
                    ELSE uncertain \ {journal.current}
    /\ EndPlan
    /\ UNCHANGED <<directory, roles, edits, revoked, faults>>

\* The command is killed, its request served or not.
KillPlan ==
    /\ command = "apply-accounts" /\ Fault
    /\ uncertain' = IF call.state \in {"none", "unsent"} THEN uncertain
                    ELSE uncertain \cup {journal.current}
    /\ EndPlan
    /\ UNCHANGED <<directory, roles, edits, revoked, journal>>

\* cancel_failed_account_plan, under the same locks, on the journal revision
\* the operator has inspected.
Cancellable(j) ==
    /\ j.status = "failed"
    /\ \A s \in PlanSteps : j.steps[s] \in {"none", "complete", "failed"}

CancelPlan ==
    /\ command = "none" /\ Cancellable(journal)
    /\ journal' = [journal EXCEPT !.status = "cancelled"]
    /\ UNCHANGED <<directoryVars, plan, seen, todo, uncertain>>

AccountPlanNext ==
    \/ \E p \in Plans : OpenPlan(p)
    \/ StartGroups \/ GroupsEnsured \/ ReadDirectory \/ ReadFails
    \/ \E u \in Accounts :
         \/ WriteAccount(u) \/ AccountWritten(u) \/ SetPassword(u) \/ PasswordSet(u)
         \/ Deactivate(u) \/ Deactivated(u)
    \/ StartDeactivation \/ CompletePlan
    \/ ServePlan \/ RequestFails \/ KillPlan \/ CancelPlan

-----------------------------------------------------------------------------
(* Properties of the account plan. *)

\* The appliance never loses its last administrator to its own tools: no order of
\* account writes, failures, kills, resumes, cancellations and retirement of
\* akadmin takes the last enabled administrator away (nas_identity_sync.py:1548,
\* 1568, 1745), as long as nobody disables an account in Authentik itself.
AdminRemains ==
    [][~revoked' /\ Administrators(directory) # {} => Administrators(directory') # {}]_directory

\* A completed plan has been carried out, with the passwords of the invocation
\* that completed it, however many attempts and other passwords came before.
DoneAsPlanned ==
    [][journal.status # "complete" /\ journal'.status = "complete" /\ ~revoked =>
        /\ \A u \in DOMAIN plan.accounts :
             /\ directory[u].known
             /\ directory[u].active = plan.accounts[u].active
             /\ directory[u].roles = RolesOf(plan.accounts[u])
             /\ plan.accounts[u].password \in {"unset", directory[u].password}
        /\ Administrators(directory) \cap Missing(plan, directory) = {}]_journal

\* Abandoning a plan never abandons a request nobody knows the outcome of
\* (cancel_failed_account_plan, nas_identity_sync.py:1432).
CancelCertain == journal.status = "cancelled" => uncertain = {}
=============================================================================
