------------------------- MODULE IdentitySyncProofs -------------------------
(***************************************************************************)
(* Proofs about IdentitySync, for any accounts, plans and passwords and any*)
(* number of commands, faults and edits.                                   *)
(*                                                                         *)
(* The invariant follows the components:                                   *)
(*  - Located, Calling: where each command can be, and what its request is *)
(*    about.                                                               *)
(*  - Synced, Tracking: what the journal of a reconciliation says of the   *)
(*    ownership state; while at most one fault has happened, everything    *)
(*    the appliance made is owned, journaled or known to the running one.  *)
(*  - Staged: the objects of a forward-auth transaction against the        *)
(*    snapshot, by what was attempted, committed and undone so far.        *)
(*  - Journaling: the plan's journal names the step of the request, and    *)
(*    the steps whose outcome is unknown are not closed.                   *)
(*  - Carried, Ordered, Remaining: what the recorded steps have made of    *)
(*    the directory, what the running plan has still to do, and who        *)
(*    remains an administrator, as long as nobody has disabled an account  *)
(*    in Authentik itself.                                                 *)
(***************************************************************************)
EXTENDS IdentitySync, TLAPS

Grouping   == {"roles", "member", "ensured"}
Writing    == {"accounts", "account", "password", "deactivate"}
SyncPlaces == {"prepare", "put", "verify", "record", "forget"}
Proxying   == Parts \cup Undoing \cup {"written", "discover", "undone"}

Outstanding == {"sent", "served", "rejected", "lost"}

Directed ==
    /\ directory \in [Users -> People \cup {Absent}]
    /\ faults \in Nat /\ revoked \in BOOLEAN

(* The place of each command.                                              *)
Located ==
    /\ command \in Commands
    /\ command = "none" => pc = "idle"
    /\ command = "bootstrap" => pc \in Grouping \cup Proxying
    /\ command = "retire-bootstrap" => pc = "retire"
    /\ command = "apply-accounts" => pc \in {"open", "read"} \cup Grouping \cup Writing
    /\ command = "sync-syncthing" => pc \in SyncPlaces

(* What a request is about, by the place of the command.                   *)
About ==
    \/ pc = "roles" /\ \E r \in Reserved : call.to = <<"role", r>>
    \/ pc = "member" /\ call.to = <<"member">>
    \/ pc = "retire" /\ call.to = <<"retire">>
    \/ pc \in {"account", "password", "deactivate"} /\ \E u \in Accounts : call.to = <<pc, u>>
    \/ pc \in Parts /\ call.to = <<pc, "new">>
    \/ pc \in Undoing /\ call.to = <<PartOf(pc), before[PartOf(pc)]>>

Calling ==
    /\ call = [to |-> call.to, state |-> call.state]
    /\ call # NoCall => About
    /\ call # NoCall => call.state \in Outstanding \cup {"unsent"}
    /\ call.state = "unsent" => pc = "password"
    /\ pc \in {"member", "retire", "account", "password"} => call # NoCall

-----------------------------------------------------------------------------
(* Syncthing.                                                              *)
Runs == [old : SUBSET Objects, desired : SUBSET Objects, delete : SUBSET Objects,
         put : SUBSET Objects, retained : SUBSET Objects]

Synced ==
    /\ made \subseteq live /\ live \subseteq Objects /\ owned \subseteq Objects
    /\ run \in Runs
    /\ sjournal \in {NoSyncJournal} \cup Journaled
    /\ Recoverable
    /\ command = "sync-syncthing" =>
        /\ pc = "put" => sjournal.phase = "prepared"
        /\ pc = "verify" => sjournal.phase = "mutated"
        /\ pc \in {"record", "forget"} => sjournal.phase = "committed"
        /\ pc # "prepare" => sjournal.desired = run.desired
        /\ pc \in {"verify", "record", "forget"} => sjournal.retained = run.retained

Tracking ==
    /\ sjournal.phase = "committed" => made \subseteq Committed(sjournal)
    /\ command # "sync-syncthing" => /\ made \subseteq owned \cup Interrupted
                                     /\ faults = 0 => sjournal.phase = "none"
    /\ command = "sync-syncthing" =>
        /\ pc = "prepare" => /\ made \subseteq run.old /\ made \subseteq owned \cup Interrupted
                             /\ run.retained = {}
                             /\ faults = 0 => sjournal.phase = "none" /\ run.old = owned
        /\ pc = "put" => /\ made \subseteq run.desired \cup run.delete \cup run.retained
                         /\ run.put \subseteq run.desired
                         /\ run.delete \cup run.retained \subseteq run.old
                         /\ faults = 0 => run.old = owned
        /\ pc \in {"verify", "record", "forget"} => made \subseteq run.desired \cup run.retained
        /\ pc \in {"verify", "record"} /\ faults = 0 => run.retained \subseteq owned
        /\ pc = "forget" => owned = run.desired \cup run.retained

-----------------------------------------------------------------------------
(* The forward-auth application.                                           *)

(* An outpost cannot have a provider that is not there.                    *)
Coherent(o) ==
    /\ o \in [Parts -> Versions]
    /\ o["outpost"] # "absent"
    /\ o["provider"] = "absent" => o["outpost"] = "old"

(* Parts that the rollback has undone by now.                              *)
Undone ==
    CASE pc = "undo-application" -> {"outpost"}
      [] pc = "undo-provider" -> {"outpost", "application"}
      [] pc = "undone" -> Parts
      [] OTHER -> {}

Staged ==
    /\ Coherent(objects) /\ Coherent(before)
    /\ attempted \subseteq Parts /\ committed \subseteq attempted /\ broken \in BOOLEAN
    /\ pc \in Proxying =>
        /\ \A p \in Parts \ attempted : objects[p] = before[p]
        /\ "outpost" \in attempted => before["outpost"] = "old"
    /\ pc \in Parts => /\ \A p \in committed : objects[p] = "new"
                       /\ pc # "provider" => "provider" \in committed
                       /\ call # NoCall => pc \in attempted
                       /\ call.state = "served" => objects[pc] = "new"
    /\ pc \in Undoing =>
        /\ ~broken => \A p \in Parts \ committed : before[p] = "absent" => objects[p] = "absent"
        /\ call # NoCall => MustUndo(PartOf(pc))
        /\ call.state = "served" => objects[PartOf(pc)] = before[PartOf(pc)]
    /\ pc \in Undoing \cup {"undone"} /\ ~broken => \A p \in Undone : objects[p] = before[p]

-----------------------------------------------------------------------------
(* The account plan.                                                       *)
Fingerprints == {Fingerprint(p) : p \in Plans}

(* The step whose request may be under way.                                *)
CurrentStep ==
    IF pc \in Grouping THEN <<"reserved-groups">> ELSE call.to

Journaling ==
    /\ journal \in {NoJournal} \cup Journals(Fingerprints)
    /\ uncertain \subseteq PlanSteps
    /\ journal.status = "absent" => uncertain = {}
    /\ \A s \in uncertain : journal.steps[s] \in {"running", "manual-recovery-required"}
    /\ journal.status = "cancelled" => uncertain = {}
    /\ command = "apply-accounts" =>
        /\ plan \in Plans /\ journal.status \in {"pending", "resuming", "running"}
        /\ journal.fingerprint = Fingerprint(plan)
        /\ pc \in Grouping \/ (call # NoCall /\ call.state # "unsent") =>
              journal.current = CurrentStep /\ journal.steps[CurrentStep] = "running"
    /\ ~Finished(journal) => \A u \in Accounts :
          u \in DOMAIN journal.fingerprint.accounts => journal.steps[<<"deactivate", u>>] = "none"

(* A user is what an account of a plan, or of its fingerprint, asks for.   *)
Conforms(u, account) ==
    /\ directory[u].known
    /\ directory[u].active = account.active
    /\ directory[u].roles = RolesOf(account)

(* What the recorded steps of an unfinished plan have done.                *)
CarriedOut(u) ==
    /\ u \in DOMAIN journal.fingerprint.accounts /\ journal.steps[<<"account", u>>] = "complete" =>
          Conforms(u, journal.fingerprint.accounts[u])
    /\ journal.steps[<<"deactivate", u>>] = "complete" => u \notin Administrators(directory)

Carried == ~revoked /\ ~Finished(journal) => \A u \in Accounts : CarriedOut(u)

Listed == DOMAIN plan.accounts

(* An account of the plan that has been written, with its password.        *)
WrittenOut(u) ==
    /\ journal.steps[<<"account", u>>] = "complete"
    /\ ~revoked => plan.accounts[u].password \in {"unset", directory[u].password}

(* What the request of the plan is about, and what it has done if served.  *)
Asked(u) ==
    /\ call.to = <<"account", u>> =>
          /\ u \in todo /\ \A v \in todo : Priority(u) <= Priority(v)
          /\ call.state = "served" /\ ~revoked => Conforms(u, plan.accounts[u])
    /\ call.to = <<"password", u>> =>
          /\ u \in todo /\ journal.steps[<<"account", u>>] = "complete"
          /\ call.state = "served" /\ ~revoked => plan.accounts[u].password = directory[u].password
    /\ call.to = <<"deactivate", u>> =>
          /\ u \in todo
          /\ call.state = "served" /\ ~revoked => u \notin Administrators(directory)

(* The accounts that the plan has still to write, and those it has.        *)
Progress ==
    IF pc = "deactivate"
    THEN /\ todo \subseteq Missing(plan, seen)
         /\ \A u \in Listed : WrittenOut(u)
         /\ \A u \in Missing(plan, seen) \ todo : journal.steps[<<"deactivate", u>>] = "complete"
    ELSE /\ todo \subseteq Listed
         /\ \A u \in Listed \ todo : WrittenOut(u)

(* The running plan.                                                       *)
Ordered ==
    command = "apply-accounts" /\ pc \in Writing =>
        /\ seen \in [Users -> People \cup {Absent}]
        /\ Progress
        /\ \A u \in Accounts : Asked(u)

(* The plan leaves an administrator, whom it makes or never touches, and   *)
(* whoever is managed now was so when it read the directory.               *)
PlanRemains ==
    /\ \/ \E v \in Listed : plan.accounts[v].admin
       \/ \E v \in Administrators(directory) : v \notin Listed \cup Missing(plan, seen)
    /\ \A u \in Users \ Listed : directory[u].known /\ directory[u].managed =>
                                    seen[u].known /\ seen[u].managed

(* Somebody who is an administrator stays one until the command is done.   *)
Remaining ==
    /\ command = "apply-accounts" /\ pc \in Writing /\ ~revoked => PlanRemains
    /\ command = "retire-bootstrap" /\ ~revoked => Administrators(directory) \cap Accounts # {}

-----------------------------------------------------------------------------
(* A request tells the place of the command that makes it.                 *)
LEMMA Targets ==
    ASSUME Calling
    PROVE  /\ \A r : call.to = <<"role", r>> => pc = "roles"
           /\ call.to = <<"member">> => pc = "member"
           /\ call.to = <<"retire">> => pc = "retire"
           /\ \A u : call.to = <<"account", u>> => pc = "account"
           /\ \A u : call.to = <<"password", u>> => pc = "password"
           /\ \A u : call.to = <<"deactivate", u>> => pc = "deactivate"
<1>1. NoCall.to[1] = "none"
  BY DEF NoCall
<1>2. call # NoCall => \/ pc = "roles" /\ call.to[1] = "role"
                       \/ pc = "member" /\ call.to[1] = "member"
                       \/ pc = "retire" /\ call.to[1] = "retire"
                       \/ pc \in {"account", "password", "deactivate"} /\ call.to[1] = pc
                       \/ call.to[1] \in Parts
  <2>1. \A p \in Undoing : PartOf(p) \in Parts
    BY DEF Undoing, PartOf, Parts
  <2> QED
    BY <2>1 DEF Calling, About
<1> QED
  BY <1>1, <1>2 DEF Parts

LEMMA PartsOfPlaces ==
    /\ PartOf("undo-provider") = "provider"
    /\ PartOf("undo-application") = "application"
    /\ PartOf("undo-outpost") = "outpost"
  BY DEF PartOf, Parts

(* The running command is told by its place.                               *)
LEMMA Whose ==
    ASSUME Located
    PROVE  /\ pc \in {"open", "read"} \cup Writing => command = "apply-accounts"
           /\ pc \in Proxying => command = "bootstrap"
           /\ pc = "retire" => command = "retire-bootstrap"
           /\ pc \in SyncPlaces => command = "sync-syncthing"
           /\ pc \in Grouping => command \in {"bootstrap", "apply-accounts"}
  BY DEF Located, Commands, Grouping, Writing, Proxying, SyncPlaces, Parts, Undoing

(* The server's answer, late or not, leaves the command where it is.       *)
Serves == ServeDirectory \/ ServePlan \/ ServeProxy
Strays == (Rejected \/ Lost) /\ UNCHANGED <<command, commands, pc, directory, roles, edits, revoked>>

LEMMA LocatedStays == Located /\ Calling /\ [Next]_vars => Located'
<1> SUFFICES ASSUME Located, Calling, [Next]_vars PROVE Located'
  OBVIOUS
<1>1. ASSUME UNCHANGED <<command, pc>> PROVE Located'
  BY <1>1 DEF Located
<1>2. ASSUME End PROVE Located'
  BY <1>2 DEF End, Located, Commands
<1>3. ASSUME command = "apply-accounts", command' = command, pc' \in {"open", "read"} \cup Grouping \cup Writing
      PROVE  Located'
  BY <1>3 DEF Located
<1>4. ASSUME command = "bootstrap", command' = command, pc' \in Grouping \cup Proxying PROVE Located'
  BY <1>4 DEF Located
<1>5. ASSUME command = "sync-syncthing", command' = command, pc' \in SyncPlaces PROVE Located'
  BY <1>5 DEF Located
<1>6. CASE Shared
  <2>1. CASE (\E r \in Reserved : WriteRole(r) \/ RoleWritten(r)) \/ ServeDirectory \/ Strays
               \/ \E u \in Users : Edit(u)
    BY <1>1, <2>1 DEF WriteRole, RoleWritten, ServeDirectory, Strays, Edit
  <2>2. CASE AddBootstrapAdministrator \/ BootstrapAdministratorAdded
    <3>1. pc \in {"roles", "member"} /\ pc' \in {"member", "ensured"} /\ command' = command
      BY <2>2, Targets DEF AddBootstrapAdministrator, BootstrapAdministratorAdded, Answered
    <3> QED
      BY <1>3, <1>4, <3>1, Whose DEF Grouping
  <2>3. CASE Retire
    BY <2>3 DEF Retire, Begin, Located, Commands
  <2>4. CASE Retired
    BY <1>2, <2>4 DEF Retired
  <2> QED
    BY <1>6, <2>1, <2>2, <2>3, <2>4, Zenon DEF Shared, EnsureGroups, Strays
<1>7. CASE KillRetirement
  BY <1>2, <1>7 DEF KillRetirement
<1>8. CASE AccountPlanNext
  <2>1. CASE \E p \in Plans : OpenPlan(p)
    BY <2>1 DEF OpenPlan, Begin, Located, Commands
  <2>2. CASE CancelPlan \/ ServePlan
    BY <1>1, <2>2 DEF CancelPlan, ServePlan, directoryVars
  <2>3. CASE StartGroups \/ GroupsEnsured \/ StartDeactivation
    BY <1>3, <2>3 DEF StartGroups, GroupsEnsured, StartDeactivation, Goto, Grouping, Writing
  <2>4. CASE ReadDirectory \/ ReadFails \/ CompletePlan \/ RequestFails \/ KillPlan
    BY <1>2, <1>3, <2>4 DEF ReadDirectory, ReadFails, CompletePlan, RequestFails, KillPlan, EndPlan, Goto, Writing
  <2>5. CASE \E u \in Accounts : WriteAccount(u) \/ SetPassword(u) \/ Deactivate(u)
    BY <1>1, <1>2, <1>3, <2>5 DEF WriteAccount, SetPassword, Deactivate, Request, EndPlan, Goto, Writing
  <2>6. CASE \E u \in Accounts : AccountWritten(u) \/ PasswordSet(u) \/ Deactivated(u)
    <3>1. pc \in Writing /\ pc' \in Writing /\ command' = command
      BY <2>6, Targets DEF AccountWritten, PasswordSet, Deactivated, Answered, Goto, Writing
    <3> QED
      BY <1>3, <3>1, Whose
  <2> QED
    BY <1>8, <2>1, <2>2, <2>3, <2>4, <2>5, <2>6, Zenon DEF AccountPlanNext
<1>9. CASE ProxyNext
  <2>1. CASE Bootstrap
    BY <2>1 DEF Bootstrap, Begin, Located, Commands, Grouping
  <2>2. CASE Finish \/ KillBootstrap
    BY <1>2, <2>2 DEF Finish, KillBootstrap, EndBootstrap
  <2>3. CASE ServeProxy \/ EditProxy \/ \E part \in Parts : WritePart(part)
    BY <1>1, <2>3 DEF ServeProxy, EditProxy, WritePart
  <2>4. CASE Stage \/ StageFails \/ StartRollback \/ Discover \/ DiscoveryFails
    BY <1>4, <2>4 DEF Stage, StageFails, StartRollback, Discover, DiscoveryFails, Goto, Proxying, Parts, Undoing
  <2>5. CASE \E part \in Parts : PartWritten(part)
    BY <1>4, <2>5 DEF PartWritten, Following, Goto, Proxying, Parts
  <2>6. CASE Undo \/ UndoAnswered
    <3>1. pc \in Undoing => NextUndo(pc) \in Proxying
      BY DEF NextUndo, Undoing, Proxying
    <3> QED
      BY <1>1, <1>4, <2>6, <3>1 DEF Undo, UndoAnswered, Goto
  <2>7. CASE Retry
    BY <1>2, <1>4, <2>7 DEF Retry, EndBootstrap, Goto, Grouping
  <2> QED
    BY <1>9, <2>1, <2>2, <2>3, <2>4, <2>5, <2>6, <2>7, Zenon DEF ProxyNext
<1>10. CASE SyncNext
  <2>1. CASE StartSync
    BY <2>1 DEF StartSync, Begin, Located, Commands, SyncPlaces
  <2>2. CASE Refuse \/ Forget \/ StopSync
    BY <1>2, <2>2 DEF Refuse, Forget, StopSync
  <2>3. CASE Prepare \/ Mutated \/ VerifyAndCommit \/ Record
    BY <1>5, <2>3 DEF Prepare, Mutated, VerifyAndCommit, Record, Goto, SyncPlaces
  <2>4. CASE EditSyncthing \/ \E o \in Objects : Put(o) \/ Delete(o)
    BY <1>1, <2>4 DEF EditSyncthing, Put, Delete
  <2> QED
    BY <1>10, <2>1, <2>2, <2>3, <2>4, Zenon DEF SyncNext
<1>11. CASE UNCHANGED vars
  BY <1>1, <1>11 DEF vars, directoryVars
<1> QED
  BY <1>6, <1>7, <1>8, <1>9, <1>10, <1>11, Zenon DEF Next

LEMMA CallingStays == Located /\ Calling /\ [Next]_vars => Calling'
<1> SUFFICES ASSUME Located, Calling, [Next]_vars PROVE Calling'
  OBVIOUS
<1>0. NoCall.state = "none" /\ NoCall = [to |-> NoCall.to, state |-> NoCall.state]
  BY DEF NoCall
<1>1. ASSUME UNCHANGED <<call, pc>>, before' = before \/ pc \notin Undoing PROVE Calling'
  BY <1>1 DEF Calling, About
<1>2. ASSUME call' = NoCall, pc' \notin {"member", "retire", "account", "password"} PROVE Calling'
  BY <1>0, <1>2 DEF Calling
<1>3. ASSUME call.state \in {"sent", "served"}, NEW s \in Outstanding, call' = [call EXCEPT !.state = s],
             UNCHANGED <<pc, before>>
      PROVE  Calling'
  <2>1. call # NoCall /\ call' = [to |-> call.to, state |-> s]
    BY <1>0, <1>3 DEF Calling
  <2> QED
    BY <1>0, <1>3, <2>1 DEF Calling, About, Outstanding
<1>4. ASSUME NEW t, NEW s \in Outstanding, call' = [to |-> t, state |-> s],
             \/ pc' = "roles" /\ \E r \in Reserved : t = <<"role", r>>
             \/ pc' = "member" /\ t = <<"member">>
             \/ pc' = "retire" /\ t = <<"retire">>
             \/ pc' \in {"account", "password", "deactivate"} /\ \E u \in Accounts : t = <<pc', u>>
             \/ pc' \in Parts /\ t = <<pc', "new">>
             \/ pc' \in Undoing /\ t = <<PartOf(pc'), before'[PartOf(pc')]>>
      PROVE  Calling'
  <2>1. /\ call' = [to |-> call'.to, state |-> call'.state] /\ call'.to = t /\ call'.state = s
        /\ About' /\ s # "unsent" /\ call' # NoCall
    BY <1>0, <1>4 DEF About, PartOf, Outstanding
  <2> QED
    BY <2>1, <1>4 DEF Calling
<1>5. CASE Shared
  <2>0. before' = before
    BY <1>5 DEF Shared, proxyVars
  <2>1. CASE \E r \in Reserved : WriteRole(r)
    BY <1>4, <2>1 DEF WriteRole, CallTo, Outstanding
  <2>2. CASE AddBootstrapAdministrator
    <3>1. CASE pc' = "ensured" /\ UNCHANGED call
      BY <1>2, <2>2, <3>1 DEF AddBootstrapAdministrator
    <3>2. CASE pc' # "ensured"
      <4>1. pc' = "member" /\ \E s \in Outstanding : call' = [to |-> <<"member">>, state |-> s]
        BY <2>2, <3>2 DEF AddBootstrapAdministrator, CallTo, Outstanding
      <4> QED
        BY <1>4, <4>1
    <3> QED
      BY <2>2, <3>1, <3>2 DEF AddBootstrapAdministrator
  <2>3. CASE (\E r \in Reserved : RoleWritten(r)) \/ BootstrapAdministratorAdded
    BY <1>2, <2>3, Targets DEF RoleWritten, BootstrapAdministratorAdded, Answered
  <2>4. CASE ServeDirectory \/ Strays
    BY <1>3, <2>0, <2>4 DEF ServeDirectory, Update, Strays, Rejected, Lost, Outstanding
  <2>5. CASE Retire
    BY <1>4, <2>5 DEF Retire, Begin, CallTo, Outstanding
  <2>6. CASE Retired
    BY <1>2, <2>6 DEF Retired, End
  <2>7. CASE \E u \in Users : Edit(u)
    BY <1>1, <2>0, <2>7 DEF Edit
  <2> QED
    BY <1>5, <2>1, <2>2, <2>3, <2>4, <2>5, <2>6, <2>7, Zenon DEF Shared, EnsureGroups, Strays
<1>6. CASE KillRetirement
  BY <1>2, <1>6 DEF KillRetirement, End
<1>7. CASE AccountPlanNext /\ UNCHANGED <<proxyVars, syncVars>>
  <2>0. before' = before
    BY <1>7 DEF proxyVars
  <2>1. CASE \E p \in Plans : OpenPlan(p)
    <3>1. command = "none" /\ call' = call /\ pc = "idle" /\ pc' = "open"
      BY <2>1 DEF OpenPlan, Begin, Located
    <3>2. call = NoCall
      BY <3>1 DEF Calling, About, Parts, Undoing
    <3> QED
      BY <1>2, <3>1, <3>2
  <2>2. CASE CancelPlan
    BY <1>1, <2>0, <2>2 DEF CancelPlan, directoryVars
  <2>3. CASE ServePlan
    BY <1>3, <2>0, <2>3 DEF ServePlan, Update, Outstanding
  <2>4. CASE StartGroups \/ GroupsEnsured
    <3>1. pc \in {"open", "ensured"} /\ call' = call /\ pc' \in {"read", "roles"}
      BY <2>4 DEF StartGroups, GroupsEnsured, Goto
    <3>2. call = NoCall
      BY <3>1 DEF Calling, About, Parts, Undoing
    <3> QED
      BY <1>2, <3>1, <3>2
  <2>5. CASE StartDeactivation
    BY <1>2, <2>5 DEF StartDeactivation, Goto
  <2>6. CASE ReadDirectory
    <3>1. CASE End
      BY <1>2, <3>1 DEF End
    <3>2. CASE ~End
      <4>1. pc = "read" /\ call' = call /\ pc' = "accounts"
        BY <2>6, <3>2 DEF ReadDirectory, EndPlan, Goto
      <4>2. call = NoCall
        BY <4>1 DEF Calling, About, Parts, Undoing
      <4> QED
        BY <1>2, <4>1, <4>2
    <3> QED
      BY <3>1, <3>2
  <2>7. CASE ReadFails \/ CompletePlan \/ RequestFails \/ KillPlan
    BY <1>2, <2>7 DEF ReadFails, CompletePlan, RequestFails, KillPlan, EndPlan, End
  <2>8. ASSUME NEW u \in Accounts, NEW k \in {"account", "password", "deactivate"}, Request(<<k, u>>, k)
        PROVE  Calling'
    BY <1>4, <2>8 DEF Request, Goto, CallTo, Outstanding
  <2>9. CASE \E u \in Accounts : WriteAccount(u)
    BY <1>1, <1>2, <2>0, <2>8, <2>9 DEF WriteAccount, EndPlan, End
  <2>10. CASE \E u \in Accounts : SetPassword(u) \/ Deactivate(u)
    BY <1>1, <2>0, <2>8, <2>10 DEF SetPassword, Deactivate
  <2>11. CASE \E u \in Accounts : AccountWritten(u)
    <3>1. PICK u \in Accounts : AccountWritten(u)
      BY <2>11
    <3>2. CASE PasswordDue(u)
      <4>1. call' = [to |-> <<"password", u>>, state |-> "unsent"] /\ pc' = "password"
        BY <3>1, <3>2 DEF AccountWritten, Unsent, Goto
      <4>2. About' /\ call' # NoCall
        BY <4>1, <1>0 DEF About
      <4> QED
        BY <4>1, <4>2 DEF Calling
    <3> QED
      BY <1>2, <3>1, <3>2 DEF AccountWritten, Goto
  <2>12. CASE \E u \in Accounts : PasswordSet(u) \/ Deactivated(u)
    BY <1>2, <2>12, Targets DEF PasswordSet, Deactivated, Answered, Goto
  <2> QED
    BY <1>7, <2>1, <2>2, <2>3, <2>4, <2>5, <2>6, <2>7, <2>9, <2>10, <2>11, <2>12, Zenon DEF AccountPlanNext
<1>8. CASE ProxyNext
  <2>1. CASE Bootstrap
    <3>1. command = "none" /\ call' = call /\ pc = "idle" /\ pc' = "roles"
      BY <2>1 DEF Bootstrap, Begin, Located
    <3>2. call = NoCall
      BY <3>1 DEF Calling, About, Parts, Undoing
    <3> QED
      BY <1>2, <3>1, <3>2
  <2>2. CASE Finish \/ KillBootstrap
    BY <1>2, <2>2 DEF Finish, KillBootstrap, EndBootstrap, End
  <2>3. CASE ServeProxy
    BY <1>3, <2>3 DEF ServeProxy, Outstanding
  <2>4. CASE EditProxy
    <3>1. pc \notin Undoing
      BY <2>4, Whose DEF EditProxy, Proxying
    <3> QED
      BY <1>1, <2>4, <3>1 DEF EditProxy
  <2>5. CASE Stage \/ StageFails \/ Discover \/ DiscoveryFails
    <3>1. pc \in {"ensured", "discover"} /\ call' = call /\ pc' \in {"provider", "undone", "undo-outpost"}
      BY <2>5 DEF Stage, StageFails, Discover, DiscoveryFails, Goto
    <3>2. call = NoCall
      BY <3>1 DEF Calling, About, Parts, Undoing
    <3> QED
      BY <1>2, <3>1, <3>2
  <2>6. CASE \E part \in Parts : WritePart(part)
    BY <1>4, <2>6 DEF WritePart, CallTo, Outstanding
  <2>7. CASE \E part \in Parts : PartWritten(part)
    BY <1>2, <2>7 DEF PartWritten, Following, Goto
  <2>8. CASE StartRollback
    BY <1>2, <2>8 DEF StartRollback, Goto
  <2>9. CASE Undo
    <3>1. before' = before /\ pc \in Undoing /\ call = NoCall
      BY <2>9 DEF Undo, proxyVars
    <3>2. CASE MustUndo(PartOf(pc))
      <4>1. call' = [to |-> <<PartOf(pc), before[PartOf(pc)]>>, state |-> "sent"] /\ pc' = pc
        BY <2>9, <3>2 DEF Undo, CallTo
      <4> QED
        BY <1>4, <3>1, <4>1 DEF Outstanding
    <3>3. CASE ~MustUndo(PartOf(pc))
      BY <1>2, <2>9, <3>1, <3>3 DEF Undo, Goto, NextUndo, Undoing
    <3> QED
      BY <3>2, <3>3
  <2>10. CASE UndoAnswered
    BY <1>2, <2>10 DEF UndoAnswered, Goto, NextUndo, Undoing
  <2>11. CASE Retry
    BY <1>2, <2>11 DEF Retry, EndBootstrap, End, Goto
  <2> QED
    BY <1>8, <2>1, <2>2, <2>3, <2>4, <2>5, <2>6, <2>7, <2>8, <2>9, <2>10, <2>11, Zenon DEF ProxyNext
<1>9. CASE SyncNext /\ UNCHANGED <<planVars, proxyVars>>
  <2>0. before' = before
    BY <1>9 DEF proxyVars
  <2>1. CASE StartSync
    <3>1. command = "none" /\ call' = call /\ pc = "idle" /\ pc' = "prepare"
      BY <2>1 DEF StartSync, Begin, Located, Elsewhere
    <3>2. call = NoCall
      BY <3>1 DEF Calling, About, Parts, Undoing
    <3> QED
      BY <1>2, <3>1, <3>2
  <2>2. CASE Refuse \/ Forget \/ StopSync
    BY <1>2, <2>2 DEF Refuse, Forget, StopSync, End
  <2>3. CASE Prepare \/ Mutated \/ VerifyAndCommit \/ Record
    <3>1. pc \in SyncPlaces /\ call' = call /\ pc' \in SyncPlaces
      BY <2>3 DEF Prepare, Mutated, VerifyAndCommit, Record, Goto, SyncPlaces, Elsewhere
    <3>2. call = NoCall
      BY <3>1 DEF Calling, About, Parts, Undoing, SyncPlaces
    <3> QED
      BY <1>2, <3>1, <3>2 DEF SyncPlaces
  <2>4. CASE EditSyncthing \/ \E o \in Objects : Put(o) \/ Delete(o)
    BY <1>1, <2>0, <2>4 DEF EditSyncthing, Put, Delete, Elsewhere
  <2> QED
    BY <1>9, <2>1, <2>2, <2>3, <2>4, Zenon DEF SyncNext
<1>10. CASE UNCHANGED vars
  BY <1>1, <1>10 DEF vars, directoryVars, proxyVars
<1> QED
  BY <1>5, <1>6, <1>7, <1>8, <1>9, <1>10, Zenon DEF Next

-----------------------------------------------------------------------------
(* Faults are only ever counted up.                                        *)
LEMMA FaultsGrow == faults \in Nat /\ [Next]_vars => faults' \in Nat /\ faults' >= faults
<1> SUFFICES ASSUME faults \in Nat, [Next]_vars PROVE faults' = faults \/ faults' = faults + 1
  OBVIOUS
<1>1. CASE Shared
  BY <1>1 DEF Shared, EnsureGroups, WriteRole, RoleWritten, AddBootstrapAdministrator,
     BootstrapAdministratorAdded, ServeDirectory, Rejected, Lost, Retire, Retired, Edit, Fault
<1>2. CASE KillRetirement
  BY <1>2 DEF KillRetirement, Fault
<1>3. CASE AccountPlanNext
  BY <1>3 DEF AccountPlanNext, OpenPlan, StartGroups, GroupsEnsured, ReadDirectory, ReadFails, WriteAccount,
     AccountWritten, SetPassword, PasswordSet, Deactivate, Deactivated, StartDeactivation, CompletePlan,
     ServePlan, RequestFails, KillPlan, CancelPlan, directoryVars, Fault
<1>4. CASE ProxyNext
  BY <1>4 DEF ProxyNext, Bootstrap, Stage, StageFails, Finish, WritePart, PartWritten, StartRollback, Discover,
     DiscoveryFails, Undo, UndoAnswered, Retry, ServeProxy, EditProxy, KillBootstrap, Fault
<1>5. CASE SyncNext
  BY <1>5 DEF SyncNext, StartSync, Prepare, Refuse, Mutated, VerifyAndCommit, Record, Forget, Put, Delete,
     StopSync, EditSyncthing, Fault
<1>6. CASE UNCHANGED vars
  BY <1>6 DEF vars, directoryVars
<1> QED
  BY <1>1, <1>2, <1>3, <1>4, <1>5, <1>6, Zenon DEF Next

(* A step of another command leaves a reconciliation of Syncthing alone.   *)
LEMMA Aside ==
    ASSUME Located, Calling, Shared \/ KillRetirement \/ AccountPlanNext \/ ProxyNext
    PROVE  UNCHANGED <<command, pc>> \/ (command # "sync-syncthing" /\ command' # "sync-syncthing")
<1>1. CASE Shared
  <2>1. CASE (\E r \in Reserved : WriteRole(r) \/ RoleWritten(r)) \/ ServeDirectory \/ Strays
               \/ \E u \in Users : Edit(u)
    BY <2>1 DEF WriteRole, RoleWritten, ServeDirectory, Strays, Edit
  <2>2. CASE AddBootstrapAdministrator \/ BootstrapAdministratorAdded
    <3>1. pc \in {"roles", "member"} /\ command' = command
      BY <2>2, Targets DEF AddBootstrapAdministrator, BootstrapAdministratorAdded, Answered
    <3> QED
      BY <3>1 DEF Located, SyncPlaces
  <2>3. CASE Retire \/ Retired
    BY <2>3 DEF Retire, Begin, Retired, End
  <2> QED
    BY <1>1, <2>1, <2>2, <2>3, Zenon DEF Shared, EnsureGroups, Strays
<1>2. CASE KillRetirement
  BY <1>2 DEF KillRetirement, End
<1>3. CASE AccountPlanNext
  <2>1. CASE (\E p \in Plans : OpenPlan(p)) \/ CancelPlan \/ ServePlan
    BY <2>1 DEF OpenPlan, Begin, CancelPlan, ServePlan, directoryVars
  <2>2. CASE StartGroups \/ GroupsEnsured \/ StartDeactivation \/ ReadDirectory \/ ReadFails
               \/ CompletePlan \/ RequestFails \/ KillPlan
    BY <2>2 DEF StartGroups, GroupsEnsured, StartDeactivation, ReadDirectory, ReadFails, CompletePlan,
       RequestFails, KillPlan, EndPlan, End, Goto
  <2>3. CASE \E u \in Accounts : WriteAccount(u) \/ SetPassword(u) \/ Deactivate(u)
    BY <2>3 DEF WriteAccount, SetPassword, Deactivate, Request, EndPlan, End, Goto
  <2>4. CASE \E u \in Accounts : AccountWritten(u) \/ PasswordSet(u) \/ Deactivated(u)
    <3>1. pc \in Writing /\ command' = command
      BY <2>4, Targets DEF AccountWritten, PasswordSet, Deactivated, Answered, Goto, Writing
    <3> QED
      BY <3>1 DEF Located, SyncPlaces, Writing
  <2> QED
    BY <1>3, <2>1, <2>2, <2>3, <2>4, Zenon DEF AccountPlanNext
<1>4. CASE ProxyNext
  <2>1. CASE ServeProxy \/ EditProxy
    BY <2>1 DEF ServeProxy, EditProxy
  <2>2. CASE Bootstrap
    BY <2>2 DEF Bootstrap, Begin
  <2>3. CASE Stage \/ StageFails \/ Finish \/ StartRollback \/ Discover \/ DiscoveryFails \/ Undo
               \/ UndoAnswered \/ Retry \/ KillBootstrap
    BY <2>3 DEF Stage, StageFails, Finish, StartRollback, Discover, DiscoveryFails, Undo, UndoAnswered, Retry,
       KillBootstrap, EndBootstrap, End, Goto
  <2>4. CASE \E part \in Parts : WritePart(part) \/ PartWritten(part)
    BY <2>4 DEF WritePart, PartWritten, Goto
  <2> QED
    BY <1>4, <2>1, <2>2, <2>3, <2>4, Zenon DEF ProxyNext
<1> QED
  BY <1>1, <1>2, <1>3, <1>4, Zenon

LEMMA SyncedStays == Located /\ Calling /\ Synced /\ [Next]_vars => Synced'
<1> SUFFICES ASSUME Located, Calling, Synced, [Next]_vars PROVE Synced'
  OBVIOUS
<1>0. NoRun \in Runs /\ NoSyncJournal.phase = "none" /\ Desired \in SUBSET Objects /\ Interrupted \in SUBSET Objects
  BY DEF NoRun, Runs, NoSyncJournal, Desired, Entitled, Objects, Interrupted, Synced, Journaled
<1>1. ASSUME UNCHANGED syncVars, UNCHANGED <<command, pc>> \/ command' # "sync-syncthing"
      PROVE  Synced'
  BY <1>1 DEF Synced, syncVars, Recoverable
<1>2. CASE (Shared \/ KillRetirement \/ AccountPlanNext \/ ProxyNext) /\ UNCHANGED syncVars
  BY <1>1, <1>2, Aside
<1>3. CASE SyncNext
  <2>1. CASE StartSync
    BY <1>0, <2>1 DEF StartSync, Begin, Repaired, Committed, Synced, Recoverable, Runs, Journaled
  <2>2. CASE Prepare
    <3>1. /\ sjournal' \in Journaled /\ sjournal'.phase = "prepared" /\ sjournal'.previous = owned
          /\ sjournal'.desired = run.desired
      BY <2>2 DEF Prepare, PreviousState, Synced, Runs, Journaled
    <3>2. run' \in Runs /\ run'.desired = run.desired
      BY <2>2 DEF Prepare, Synced, Runs
    <3> QED
      BY <2>2, <3>1, <3>2 DEF Prepare, Goto, Synced, Recoverable
  <2>3. CASE Refuse \/ StopSync
    BY <1>0, <2>3 DEF Refuse, StopSync, End, Synced, Recoverable
  <2>4. CASE Forget
    BY <1>0, <2>4 DEF Forget, End, Synced, Recoverable
  <2>5. CASE \E o \in Objects : Put(o) \/ Delete(o)
    <3>0. PICK o \in Objects : Put(o) \/ Delete(o)
      BY <2>5
    <3>1. run' \in Runs /\ run'.desired = run.desired
      <4>1. CASE Put(o)
        BY <4>1 DEF Put, Synced, Runs
      <4>2. CASE Delete(o)
        BY <4>2 DEF Delete, Synced, Runs
      <4> QED
        BY <3>0, <4>1, <4>2
    <3>2. made' \subseteq live' /\ live' \subseteq Objects
      BY <3>0 DEF Put, Delete, Synced
    <3> QED
      BY <3>0, <3>1, <3>2 DEF Put, Delete, Synced, Recoverable
  <2>6. CASE Mutated
    <3>1. /\ sjournal' \in Journaled /\ sjournal'.phase = "mutated" /\ sjournal'.previous = sjournal.previous
          /\ sjournal'.desired = sjournal.desired /\ sjournal'.retained = run.retained
      BY <2>6, <1>0 DEF Mutated, Synced, Runs, Journaled
    <3> QED
      BY <2>6, <3>1 DEF Mutated, Goto, Synced, Recoverable
  <2>7. CASE VerifyAndCommit
    <3>1. /\ sjournal' \in Journaled /\ sjournal'.phase = "committed"
          /\ sjournal'.desired = sjournal.desired /\ sjournal'.retained = sjournal.retained
      BY <2>7, <1>0 DEF VerifyAndCommit, Synced, Runs, Journaled
    <3> QED
      BY <2>7, <3>1 DEF VerifyAndCommit, Goto, Synced, Recoverable
  <2>8. CASE Record
    BY <2>8 DEF Record, Goto, Synced, Recoverable, Runs
  <2>9. CASE EditSyncthing
    BY <2>9 DEF EditSyncthing, Kind, Synced, Recoverable
  <2> QED
    BY <1>3, <2>1, <2>2, <2>3, <2>4, <2>5, <2>6, <2>7, <2>8, <2>9, Zenon DEF SyncNext
<1>4. CASE UNCHANGED vars
  BY <1>1, <1>4 DEF vars, directoryVars
<1>5. Shared \/ KillRetirement => UNCHANGED syncVars
  BY DEF Shared, KillRetirement
<1>6. UNCHANGED <<proxyVars, syncVars>> => UNCHANGED syncVars
  OBVIOUS
<1>7. UNCHANGED <<planVars, syncVars>> => UNCHANGED syncVars
  OBVIOUS
<1> QED
  BY <1>2, <1>3, <1>4, <1>5, <1>6, <1>7, Zenon DEF Next

(* One interruption: a fault never happens again once there has been one.  *)
LEMMA TrackingStays ==
    ASSUME Located, Calling, Synced, faults \in Nat, faults <= 1 => Tracking, [Next]_vars, faults' <= 1
    PROVE  Tracking'
<1>0. faults' >= faults /\ Tracking
  BY FaultsGrow
<1>1. ASSUME UNCHANGED syncVars, \/ UNCHANGED <<command, pc>>
                                 \/ command # "sync-syncthing" /\ command' # "sync-syncthing"
      PROVE  Tracking'
  BY <1>0, <1>1 DEF Tracking, syncVars, Interrupted, Committed
<1>2. CASE (Shared \/ KillRetirement \/ AccountPlanNext \/ ProxyNext) /\ UNCHANGED syncVars
  BY <1>1, <1>2, Aside
<1>3. CASE SyncNext
  <2>1. CASE StartSync
    <3>1. run'.old = owned \cup Interrupted /\ run'.retained = {}
      BY <2>1 DEF StartSync, NoRun
    <3> QED
      BY <1>0, <2>1, <3>1 DEF StartSync, Begin, Tracking, Repaired, Interrupted, Committed
  <2>2. CASE Prepare
    <3>1. /\ run' \in Runs /\ run'.desired = run.desired /\ run'.put = run.desired /\ run'.old = run.old
          /\ run'.delete = (run.old \ run.desired) \cap live /\ run'.retained = run.retained
      BY <2>2 DEF Prepare, Synced, Runs
    <3>2. made \subseteq run.old /\ made \subseteq live /\ run.retained = {} /\ (faults = 0 => run.old = owned)
      BY <1>0, <2>2 DEF Prepare, Tracking, Synced
    <3> QED
      BY <1>0, <2>2, <3>1, <3>2 DEF Prepare, Goto, Tracking
  <2>3. CASE Refuse
    BY <1>0, <2>3 DEF Refuse, End, Synced, Tracking, Interrupted, Committed
  <2>4. CASE StopSync
    <3>1. faults = 0
      BY <2>4 DEF StopSync, Fault
    <3> QED
      BY <1>0, <2>4, <3>1 DEF StopSync, Fault, End, Synced, Tracking, Interrupted, Located, SyncPlaces, Committed
  <2>5. CASE Forget
    BY <1>0, <2>5 DEF Forget, End, NoSyncJournal, Synced, Tracking, Interrupted, Committed
  <2>6. CASE \E o \in Objects : Put(o)
    <3>1. PICK o \in Objects : Put(o)
      BY <2>6
    <3>2. /\ run'.desired = run.desired /\ run'.put = run.put \ {o} /\ run'.old = run.old
          /\ run'.delete = run.delete /\ run'.retained = run.retained
      BY <3>1 DEF Put, Synced, Runs
    <3> QED
      BY <1>0, <3>1, <3>2 DEF Put, Tracking, Committed, Synced
  <2>7. CASE \E o \in Objects : Delete(o)
    <3>1. PICK o \in Objects : Delete(o)
      BY <2>7
    <3>2. /\ run'.desired = run.desired /\ run'.put = run.put /\ run'.old = run.old
          /\ run'.delete = run.delete \ {o}
          /\ run'.retained = IF o \in referenced THEN run.retained \cup {o} ELSE run.retained
      BY <3>1 DEF Delete, Synced, Runs
    <3> QED
      BY <1>0, <3>1, <3>2 DEF Delete, Tracking, Committed, Synced
  <2>8. CASE Mutated
    BY <1>0, <2>8 DEF Mutated, Goto, Tracking, Committed, Synced
  <2>9. CASE VerifyAndCommit
    <3>1. Committed(sjournal') = run.desired \cup run.retained
      BY <2>9 DEF VerifyAndCommit, Synced, Journaled, NoSyncJournal, Committed
    <3> QED
      BY <1>0, <2>9, <3>1 DEF VerifyAndCommit, Goto, Tracking
  <2>10. CASE Record
    BY <1>0, <2>10 DEF Record, Goto, Tracking, Committed, Synced
  <2>11. CASE EditSyncthing
    BY <1>0, <2>11 DEF EditSyncthing, Tracking, Interrupted, Committed, Synced
  <2> QED
    BY <1>3, <2>1, <2>2, <2>3, <2>4, <2>5, <2>6, <2>7, <2>8, <2>9, <2>10, <2>11, Zenon DEF SyncNext
<1>4. CASE UNCHANGED vars
  BY <1>1, <1>4 DEF vars, directoryVars
<1>5. Shared \/ KillRetirement => UNCHANGED syncVars
  BY DEF Shared, KillRetirement
<1>6. UNCHANGED <<proxyVars, syncVars>> => UNCHANGED syncVars
  OBVIOUS
<1>7. UNCHANGED <<planVars, syncVars>> => UNCHANGED syncVars
  OBVIOUS
<1> QED
  BY <1>2, <1>3, <1>4, <1>5, <1>6, <1>7, Zenon DEF Next

-----------------------------------------------------------------------------
(* A step of another command, or an answer that fails, leaves the          *)
(* transaction of a forward-auth application where it is.                  *)
LEMMA AsideProxy ==
    ASSUME Located, Calling, Shared \/ KillRetirement \/ AccountPlanNext \/ SyncNext, pc' \in Proxying
    PROVE  pc' = pc /\ (call' = call \/ (call # NoCall /\ call'.state # "served"))
<1>0. NoCall.state = "none"
  BY DEF NoCall
<1>1. CASE Shared
  <2>1. CASE (\E r \in Reserved : WriteRole(r) \/ RoleWritten(r)) \/ ServeDirectory
               \/ AddBootstrapAdministrator \/ BootstrapAdministratorAdded
    <3>1. pc \in {"roles", "member", "retire"} /\ pc' \in {"roles", "member", "retire", "ensured"}
      BY <2>1, Targets DEF WriteRole, RoleWritten, ServeDirectory, AddBootstrapAdministrator,
         BootstrapAdministratorAdded, Answered
    <3> QED
      BY <3>1 DEF Proxying, Parts, Undoing
  <2>2. CASE Strays
    <3>1. call = [to |-> call.to, state |-> call.state]
      BY DEF Calling
    <3> QED
      BY <1>0, <2>2, <3>1 DEF Strays, Rejected, Lost
  <2>3. CASE Retire \/ Retired
    BY <2>3 DEF Retire, Begin, Retired, End, Proxying, Parts, Undoing
  <2>4. CASE \E u \in Users : Edit(u)
    BY <2>4 DEF Edit
  <2> QED
    BY <1>1, <2>1, <2>2, <2>3, <2>4, Zenon DEF Shared, EnsureGroups, Strays
<1>2. CASE KillRetirement
  BY <1>2 DEF KillRetirement, End, Proxying, Parts, Undoing
<1>3. CASE AccountPlanNext
  <2>1. CASE (\E p \in Plans : OpenPlan(p)) \/ CancelPlan
    BY <2>1 DEF OpenPlan, Begin, CancelPlan, directoryVars, Proxying, Parts, Undoing
  <2>2. CASE ServePlan
    <3>1. pc \in Writing /\ pc' = pc
      BY <2>2, Targets DEF ServePlan, Writing
    <3> QED
      BY <3>1 DEF Writing, Proxying, Parts, Undoing
  <2>3. CASE StartGroups \/ GroupsEnsured \/ StartDeactivation \/ ReadDirectory \/ ReadFails
               \/ CompletePlan \/ RequestFails \/ KillPlan
    BY <2>3 DEF StartGroups, GroupsEnsured, StartDeactivation, ReadDirectory, ReadFails, CompletePlan,
       RequestFails, KillPlan, EndPlan, End, Goto, Proxying, Parts, Undoing
  <2>4. CASE \E u \in Accounts : WriteAccount(u) \/ SetPassword(u) \/ Deactivate(u)
    BY <2>4 DEF WriteAccount, SetPassword, Deactivate, Request, EndPlan, End, Goto, Proxying, Parts, Undoing
  <2>5. CASE \E u \in Accounts : AccountWritten(u) \/ PasswordSet(u) \/ Deactivated(u)
    <3>1. pc' \in Writing
      BY <2>5, Targets DEF AccountWritten, PasswordSet, Deactivated, Answered, Goto, Writing
    <3> QED
      BY <3>1 DEF Writing, Proxying, Parts, Undoing
  <2> QED
    BY <1>3, <2>1, <2>2, <2>3, <2>4, <2>5, Zenon DEF AccountPlanNext
<1>4. CASE SyncNext
  <2>1. CASE StartSync \/ Prepare \/ Mutated \/ VerifyAndCommit \/ Record \/ Refuse \/ Forget \/ StopSync
    BY <2>1 DEF StartSync, Begin, Prepare, Mutated, VerifyAndCommit, Record, Refuse, Forget, StopSync, End,
       Goto, Proxying, Parts, Undoing
  <2>2. CASE EditSyncthing \/ \E o \in Objects : Put(o) \/ Delete(o)
    BY <2>2 DEF EditSyncthing, Put, Delete, Elsewhere
  <2> QED
    BY <1>4, <2>1, <2>2, Zenon DEF SyncNext
<1> QED
  BY <1>1, <1>2, <1>3, <1>4, Zenon

LEMMA StagedStays == Located /\ Calling /\ Staged /\ [Next]_vars => Staged'
<1> SUFFICES ASSUME Located, Calling, Staged, [Next]_vars PROVE Staged'
  OBVIOUS
<1> USE DEF Parts, Undoing, Proxying
<1>0. NoCall.state = "none"
  BY DEF NoCall
<1>1. ASSUME UNCHANGED <<objects, before, attempted, committed, broken>>, pc' \notin Proxying
      PROVE  Staged'
  BY <1>1 DEF Staged
<1>2. ASSUME UNCHANGED <<objects, before, attempted, committed, broken, pc>>,
             call' = call \/ (call # NoCall /\ call'.state # "served")
      PROVE  Staged'
  <2>1. Undone' = Undone /\ \A p : MustUndo(p)' = MustUndo(p)
    BY <1>2 DEF Undone, MustUndo
  <2> QED
    BY <1>2, <2>1 DEF Staged
<1>3. ASSUME before' = objects, objects' = objects, attempted' = {}, committed' = {}, broken' = FALSE,
             pc' \notin Parts \cup Undoing \/ (pc' = "provider" /\ call' = NoCall)
      PROVE  Staged'
  <2>1. \A p : ~MustUndo(p)'
    BY <1>3 DEF MustUndo
  <2> QED
    BY <1>0, <1>3, <2>1 DEF Staged
<1>4. CASE (Shared \/ KillRetirement \/ AccountPlanNext \/ SyncNext) /\ UNCHANGED proxyVars
  BY <1>1, <1>2, <1>4, AsideProxy DEF proxyVars
<1>5. CASE ProxyNext
  <2>1. CASE Bootstrap
    BY <1>1, <2>1 DEF Bootstrap, Begin
  <2>2. CASE Stage
    <3>1. call = NoCall
      BY <2>2 DEF Stage, Calling, About
    <3> QED
      BY <1>3, <2>2, <3>1 DEF Stage, Goto
  <2>3. CASE StageFails \/ Finish \/ KillBootstrap
    BY <1>3, <2>3 DEF StageFails, Finish, KillBootstrap, EndBootstrap, End, Goto
  <2>4. CASE \E part \in Parts : WritePart(part)
    <3>1. PICK part \in Parts : WritePart(part)
      BY <2>4
    <3>2. call'.state = "sent" /\ pc = part /\ pc' = part
      BY <3>1 DEF WritePart, CallTo
    <3> QED
      BY <3>1, <3>2 DEF WritePart, Staged
  <2>5. CASE \E part \in Parts : PartWritten(part)
    <3>1. PICK part \in Parts : PartWritten(part)
      BY <2>5
    <3>2. part \in attempted /\ objects[part] = "new" /\ pc = part
      BY <1>0, <3>1 DEF PartWritten, Answered, Staged
    <3>3. pc' = IF part = "provider" THEN "application" ELSE IF part = "application" THEN "outpost" ELSE "written"
      BY <3>1 DEF PartWritten, Following, Goto
    <3> QED
      BY <1>0, <3>1, <3>2, <3>3 DEF PartWritten, Staged
  <2>6. CASE StartRollback
    BY <2>6 DEF StartRollback, Goto, proxyVars, Staged
  <2>7. CASE Discover
    <3>1. call = NoCall
      BY <2>7 DEF Discover, Calling, About
    <3>2. \A p \in Parts \ committed' : before[p] = "absent" => objects[p] = "absent"
      BY <2>7 DEF Discover, Discoverable, Staged, Coherent
    <3>3. committed' \subseteq attempted
      BY <2>7 DEF Discover, Discoverable, Staged
    <3>4. Undone' = {}
      BY <2>7 DEF Discover, Goto, Undone
    <3> QED
      BY <1>0, <2>7, <3>1, <3>2, <3>3, <3>4 DEF Discover, Goto, Staged
  <2>8. CASE DiscoveryFails
    <3>1. call = NoCall
      BY <2>8 DEF DiscoveryFails, Calling, About
    <3> QED
      BY <1>0, <2>8, <3>1 DEF DiscoveryFails, Goto, Staged
  <2>9. ASSUME UNCHANGED <<objects, before, attempted, committed>>, pc \in Undoing, pc' = NextUndo(pc), call' = NoCall,
               broken' \in BOOLEAN, broken => broken',
               ~broken' => objects[PartOf(pc)] = before[PartOf(pc)]
        PROVE  Staged'
    <3>1. pc' \in {"undo-application", "undo-provider", "undone"} /\ Undone' \subseteq Undone \cup {PartOf(pc)}
      BY <2>9, PartsOfPlaces DEF NextUndo, Undone
    <3> QED
      BY <1>0, <2>9, <3>1 DEF Staged
  <2>10. CASE Undo
    <3>1. CASE MustUndo(PartOf(pc))
      <4>1. call'.state = "sent" /\ pc' = pc /\ call' # NoCall
        BY <1>0, <2>10, <3>1 DEF Undo, CallTo
      <4>2. Undone' = Undone /\ \A p : MustUndo(p)' = MustUndo(p)
        BY <2>10, <4>1 DEF Undo, proxyVars, Undone, MustUndo
      <4> QED
        BY <2>10, <3>1, <4>1, <4>2 DEF Undo, proxyVars, Staged
    <3>2. CASE ~MustUndo(PartOf(pc))
      <4>1. PartOf(pc) \in Parts
        BY <2>10, PartsOfPlaces DEF Undo
      <4>2. ~broken => objects[PartOf(pc)] = before[PartOf(pc)]
        BY <2>10, <3>2, <4>1 DEF Undo, MustUndo, Staged
      <4> QED
        BY <2>9, <2>10, <3>2, <4>2 DEF Undo, Goto, proxyVars, Staged
    <3> QED
      BY <3>1, <3>2
  <2>11. CASE UndoAnswered
    <3>1. ~broken' => objects[PartOf(pc)] = before[PartOf(pc)]
      BY <2>11 DEF UndoAnswered, Failed, Staged
    <3> QED
      BY <2>9, <2>11, <3>1 DEF UndoAnswered, Goto, Staged
  <2>12. CASE Retry
    BY <1>1, <1>3, <2>12 DEF Retry, EndBootstrap, End, Goto
  <2>13. CASE ServeProxy
    <3>1. PICK part \in Parts, v \in Versions :
            /\ call.to = <<part, v>>
            /\ objects' = [objects EXCEPT ![part] = v,
                 !.outpost = IF part = "outpost" THEN v
                             ELSE IF part = "provider" /\ v = "absent" THEN "old" ELSE @]
      BY <2>13 DEF ServeProxy
    <3>2. call # NoCall /\ call' # NoCall /\ pc' = pc /\ call'.state = "served"
      BY <1>0, <2>13 DEF ServeProxy, Calling
    <3>3. \/ pc = part /\ v = "new"
          \/ pc \in Undoing /\ part = PartOf(pc) /\ v = before[part]
      <4>0. call.to = <<part, v>>
        BY <3>1
      <4>1. call.to[1] = part /\ call.to[2] = v
        BY <4>0
      <4>2. pc \in {"account", "password", "deactivate"} /\ (\E u \in Accounts : call.to = <<pc, u>>) => call.to[1] = pc
        OBVIOUS
      <4> QED
        BY <3>2, <4>1, <4>2, PartsOfPlaces DEF Calling, About
    <3>4. /\ objects' \in [Parts -> Versions] /\ objects'[part] = v
          /\ \A p \in Parts \ {part} : objects'[p] =
                IF p = "outpost" /\ part = "provider" /\ v = "absent" THEN "old" ELSE objects[p]
      BY <3>1 DEF Staged, Coherent, Versions
    <3>5. Undone' = Undone /\ \A p : MustUndo(p)' = MustUndo(p)
      BY <2>13 DEF ServeProxy, Undone, MustUndo
    <3>6. UNCHANGED <<before, attempted, committed, broken>>
      BY <2>13 DEF ServeProxy
    <3>7. CASE pc = part /\ v = "new"
      <4>1. Coherent(objects')
        BY <3>4, <3>7 DEF Staged, Coherent
      <4> QED
        BY <3>2, <3>4, <3>5, <3>6, <3>7, <4>1 DEF Staged
    <3>8. CASE pc \in Undoing /\ part = PartOf(pc) /\ v = before[part]
      <4>1. part \in attempted /\ (part = "outpost" => before["outpost"] = "old")
            /\ (part = "provider" /\ v = "absent" => before["outpost"] = "old") /\ before["outpost"] # "absent"
        BY <3>2, <3>8 DEF Staged, Coherent, MustUndo
      <4>2. Coherent(objects')
        BY <3>4, <3>8, <4>1 DEF Staged, Coherent
      <4>3. \A p \in Parts : objects[p] = before[p] => objects'[p] = before[p]
        BY <3>4, <3>8, <4>1
      <4>4. \A p \in Parts : before[p] = "absent" /\ objects[p] = "absent" => objects'[p] = "absent"
        BY <3>4, <3>8, <4>1
      <4>5. Undone \subseteq Parts
        BY DEF Undone
      <4> QED
        BY <3>2, <3>4, <3>5, <3>6, <3>8, <4>2, <4>3, <4>4, <4>5 DEF Staged
    <3> QED
      BY <3>3, <3>7, <3>8
  <2>14. CASE EditProxy
    <3>1. pc \notin Proxying /\ pc' = pc
      BY <2>14, Whose DEF EditProxy
    <3>2. Coherent(objects')
      <4>1. PICK part \in {"provider", "application"}, v \in {"absent", "old"} :
              objects' = [objects EXCEPT ![part] = v, !.outpost =
                  IF part = "provider" /\ v = "absent" THEN "old" ELSE @]
        BY <2>14 DEF EditProxy
      <4>2. objects' \in [Parts -> Versions] /\ objects'[part] = v
            /\ \A p \in Parts \ {part} : objects'[p] =
                  IF p = "outpost" /\ part = "provider" /\ v = "absent" THEN "old" ELSE objects[p]
        BY <4>1 DEF Staged, Coherent, Versions
      <4> QED
        BY <4>2 DEF Staged, Coherent
    <3> QED
      BY <2>14, <3>1, <3>2 DEF EditProxy, Staged
  <2> QED
    BY <1>5, <2>1, <2>2, <2>3, <2>4, <2>5, <2>6, <2>7, <2>8, <2>10, <2>11, <2>12, <2>13, <2>14, Zenon DEF ProxyNext
<1>6. CASE UNCHANGED vars
  BY <1>2, <1>6 DEF vars, directoryVars, proxyVars
<1>7. Shared \/ KillRetirement => UNCHANGED proxyVars
  BY DEF Shared, KillRetirement
<1>8. UNCHANGED <<proxyVars, syncVars>> => UNCHANGED proxyVars
  OBVIOUS
<1>9. UNCHANGED <<planVars, proxyVars>> => UNCHANGED proxyVars
  OBVIOUS
<1> QED
  BY <1>4, <1>5, <1>6, <1>7, <1>8, <1>9, Zenon DEF Next

-----------------------------------------------------------------------------
(* What the operators on plans and journals give.                          *)
LEMMA PlanFacts ==
    ASSUME NEW p \in Plans
    PROVE  /\ DOMAIN p.accounts \subseteq Accounts
           /\ \A u \in DOMAIN p.accounts : p.accounts[u] \in AccountWants
           /\ p.deactivate \in BOOLEAN
<1>1. PICK listed \in SUBSET Accounts : p \in [accounts : [listed -> AccountWants], deactivate : BOOLEAN]
  BY PlansAssumption DEF WellFormed
<1> QED
  BY <1>1

LEMMA FingerprintFacts ==
    ASSUME NEW p \in Plans
    PROVE  /\ DOMAIN Fingerprint(p).accounts = DOMAIN p.accounts
           /\ \A u \in DOMAIN p.accounts :
                 /\ Fingerprint(p).accounts[u].active = p.accounts[u].active
                 /\ Fingerprint(p).accounts[u].admin = p.accounts[u].admin
<1>1. PICK listed \in SUBSET Accounts : p \in [accounts : [listed -> AccountWants], deactivate : BOOLEAN]
  BY PlansAssumption DEF WellFormed
<1>2. Fingerprint(p).accounts =
        [u \in DOMAIN p.accounts |-> [p.accounts[u] EXCEPT !.password = (@ # "unset")]]
  BY <1>1 DEF Fingerprint
<1>3. \A u \in DOMAIN p.accounts : p.accounts[u] \in AccountWants
  BY <1>1
<1> QED
  BY <1>2, <1>3 DEF AccountWants

LEMMA JournalFacts ==
    ASSUME NEW j \in Journals(Fingerprints), NEW s \in PlanSteps
    PROVE  /\ StartStep(j, s) \in Journals(Fingerprints)
           /\ StartStep(j, s).status = "running" /\ StartStep(j, s).current = s
           /\ StartStep(j, s).fingerprint = j.fingerprint
           /\ \A x \in PlanSteps : StartStep(j, s).steps[x] = IF x = s THEN "running" ELSE j.steps[x]
           /\ CompleteStep(j, s) \in Journals(Fingerprints)
           /\ CompleteStep(j, s).status = j.status
           /\ CompleteStep(j, s).fingerprint = j.fingerprint
           /\ \A x \in PlanSteps : CompleteStep(j, s).steps[x] = IF x = s THEN "complete" ELSE j.steps[x]
  BY DEF Journals, StartStep, CompleteStep, Statuses, StepStatuses

LEMMA Completing ==
    ASSUME journal \in Journals(Fingerprints), NEW s \in PlanSteps, journal' = CompleteStep(journal, s)
    PROVE  /\ journal' \in Journals(Fingerprints)
           /\ journal'.status = journal.status /\ journal'.fingerprint = journal.fingerprint
           /\ \A x \in PlanSteps : journal'.steps[x] = IF x = s THEN "complete" ELSE journal.steps[x]
<1>1. \A j \in Journals(Fingerprints), t \in PlanSteps, x \in PlanSteps :
        CompleteStep(j, t).steps[x] = IF x = t THEN "complete" ELSE j.steps[x]
  BY JournalFacts
<1>2. \A x \in PlanSteps : journal'.steps[x] = IF x = s THEN "complete" ELSE journal.steps[x]
  BY <1>1
<1> QED
  BY <1>2, JournalFacts

LEMMA Starting ==
    ASSUME journal \in Journals(Fingerprints), NEW s \in PlanSteps, journal' = StartStep(journal, s)
    PROVE  /\ journal' \in Journals(Fingerprints)
           /\ journal'.status = "running" /\ journal'.current = s /\ journal'.fingerprint = journal.fingerprint
           /\ \A x \in PlanSteps : journal'.steps[x] = IF x = s THEN "running" ELSE journal.steps[x]
<1>1. \A j \in Journals(Fingerprints), t \in PlanSteps, x \in PlanSteps :
        StartStep(j, t).steps[x] = IF x = t THEN "running" ELSE j.steps[x]
  BY JournalFacts
<1>2. \A x \in PlanSteps : journal'.steps[x] = IF x = s THEN "running" ELSE journal.steps[x]
  BY <1>1
<1> QED
  BY <1>2, JournalFacts

LEMMA FailureFacts ==
    ASSUME NEW j \in Journals(Fingerprints), NEW s \in PlanSteps
    PROVE  /\ StepFailure(j, s, TRUE) \in Journals(Fingerprints)
           /\ StepFailure(j, s, TRUE).status = "manual-recovery-required"
           /\ StepFailure(j, s, TRUE).fingerprint = j.fingerprint
           /\ \A x \in PlanSteps : StepFailure(j, s, TRUE).steps[x] =
                 IF x = s THEN "manual-recovery-required" ELSE j.steps[x]
           /\ StepFailure(j, s, FALSE) \in Journals(Fingerprints)
           /\ StepFailure(j, s, FALSE).status = "failed"
           /\ StepFailure(j, s, FALSE).fingerprint = j.fingerprint
           /\ \A x \in PlanSteps : StepFailure(j, s, FALSE).steps[x] = IF x = s THEN "failed" ELSE j.steps[x]
<1> DEFINE k == FailStep(j, s, TRUE)
<1>1. /\ k \in Journals(Fingerprints) /\ k.status = "manual-recovery-required" /\ k.fingerprint = j.fingerprint
      /\ k.steps = [j.steps EXCEPT ![s] = "failed"]
  BY DEF FailStep, Journals, Statuses, StepStatuses
<1>2. StepFailure(j, s, TRUE) = [k EXCEPT !.steps[s] = "manual-recovery-required"]
  BY DEF StepFailure
<1> HIDE DEF k
<1>3. /\ StepFailure(j, s, TRUE) \in Journals(Fingerprints) /\ StepFailure(j, s, TRUE).status = k.status
      /\ StepFailure(j, s, TRUE).fingerprint = k.fingerprint
      /\ StepFailure(j, s, TRUE).steps = [k.steps EXCEPT ![s] = "manual-recovery-required"]
  BY <1>1, <1>2 DEF Journals, StepStatuses
<1>4. /\ StepFailure(j, s, FALSE) \in Journals(Fingerprints) /\ StepFailure(j, s, FALSE).status = "failed"
      /\ StepFailure(j, s, FALSE).fingerprint = j.fingerprint
      /\ StepFailure(j, s, FALSE).steps = [j.steps EXCEPT ![s] = "failed"]
  BY DEF StepFailure, FailStep, Journals, Statuses, StepStatuses
<1> QED
  BY <1>1, <1>3, <1>4 DEF Journals

LEMMA StatusFacts ==
    ASSUME NEW j \in Journals(Fingerprints)
    PROVE  /\ Fail(j, FALSE) \in Journals(Fingerprints) /\ Fail(j, FALSE).status = "failed"
           /\ Fail(j, FALSE).fingerprint = j.fingerprint /\ Fail(j, FALSE).steps = j.steps
           /\ Complete(j) \in Journals(Fingerprints) /\ Complete(j).status = "complete"
           /\ Complete(j).fingerprint = j.fingerprint /\ Complete(j).steps = j.steps
           /\ [j EXCEPT !.status = "cancelled"] \in Journals(Fingerprints)
           /\ [j EXCEPT !.status = "cancelled"].status = "cancelled"
           /\ [j EXCEPT !.status = "resuming"] \in Journals(Fingerprints)
           /\ [j EXCEPT !.status = "resuming"].status = "resuming"
           /\ [j EXCEPT !.status = "resuming"].fingerprint = j.fingerprint
           /\ [j EXCEPT !.status = "resuming"].steps = j.steps
  BY DEF Journals, Fail, Complete, Statuses

(* A step of another command leaves a plan alone, but for the groups that  *)
(* the plan has made and for an answer that fails.                         *)
LEMMA AsidePlan ==
    ASSUME Located, Calling, Shared \/ KillRetirement \/ ProxyNext \/ SyncNext
    PROVE  \/ command' # "apply-accounts"
           \/ command' = command /\ pc \in Grouping /\ pc' \in Grouping
           \/ UNCHANGED <<command, pc, call>>
           \/ /\ UNCHANGED <<command, pc>> /\ call.state \in {"sent", "served"}
              /\ call'.to = call.to /\ call'.state \in {"rejected", "lost"}
<1>0. NoCall.state = "none" /\ call = [to |-> call.to, state |-> call.state]
  BY DEF NoCall, Calling
<1>1. CASE Shared
  <2>1. CASE (\E r \in Reserved : WriteRole(r) \/ RoleWritten(r))
               \/ AddBootstrapAdministrator \/ BootstrapAdministratorAdded
    BY <2>1, Targets DEF WriteRole, RoleWritten, ServeDirectory, AddBootstrapAdministrator,
       BootstrapAdministratorAdded, Answered, Grouping
  <2>2. CASE ServeDirectory
    <3>1. pc \in {"roles", "member", "retire"} /\ UNCHANGED <<command, pc>>
      BY <2>2, Targets DEF ServeDirectory
    <3> QED
      BY <3>1, Whose DEF Grouping
  <2>3. CASE Strays
    BY <1>0, <2>3 DEF Strays, Rejected, Lost
  <2>4. CASE Retire \/ Retired
    BY <2>4 DEF Retire, Begin, Retired, End
  <2>5. CASE \E u \in Users : Edit(u)
    BY <2>5 DEF Edit
  <2> QED
    BY <1>1, <2>1, <2>2, <2>3, <2>4, <2>5, Zenon DEF Shared, EnsureGroups, Strays
<1>2. CASE KillRetirement
  BY <1>2 DEF KillRetirement, End
<1>3. CASE ProxyNext
  <2>1. CASE ServeProxy
    <3>1. PICK part \in Parts, v \in Versions : call.to = <<part, v>>
      BY <2>1 DEF ServeProxy
    <3>2. call.to[1] \in Parts
      BY <3>1
    <3>4. call # NoCall
      BY <1>0, <2>1 DEF ServeProxy
    <3>3. pc \in Parts \cup Undoing
      BY <3>2, <3>4 DEF Calling, About, Parts
    <3> QED
      BY <2>1, <3>3, Whose DEF ServeProxy, Proxying
  <2>2. CASE EditProxy \/ Bootstrap
    BY <2>2 DEF EditProxy, Bootstrap, Begin
  <2>3. CASE Stage \/ StageFails \/ Finish \/ StartRollback \/ Discover \/ DiscoveryFails \/ Undo
               \/ UndoAnswered \/ Retry \/ KillBootstrap
    BY <2>3 DEF Stage, StageFails, Finish, StartRollback, Discover, DiscoveryFails, Undo, UndoAnswered, Retry,
       KillBootstrap, EndBootstrap, End, Goto
  <2>4. CASE \E part \in Parts : WritePart(part) \/ PartWritten(part)
    BY <2>4 DEF WritePart, PartWritten, Goto
  <2> QED
    BY <1>3, <2>1, <2>2, <2>3, <2>4, Zenon DEF ProxyNext
<1>4. CASE SyncNext
  BY <1>4 DEF SyncNext, StartSync, Begin, Prepare, Mutated, VerifyAndCommit, Record, Refuse, Forget, StopSync, End,
     Goto, EditSyncthing, Put, Delete, Elsewhere
<1> QED
  BY <1>1, <1>2, <1>3, <1>4, Zenon

(* A plan's step is closed only by an answer to its request, or by a       *)
(* failure that says that nothing was done.                                *)
LEMMA JournalingStays == Located /\ Calling /\ Journaling /\ Ordered /\ [Next]_vars => Journaling'
<1> SUFFICES ASSUME Located, Calling, Journaling, Ordered, [Next]_vars PROVE Journaling'
  OBVIOUS
<1>0. /\ NoCall.state = "none" /\ call = [to |-> call.to, state |-> call.state]
      /\ call.state = "none" => call = NoCall
      /\ call # NoCall => call.state # "none"
  BY DEF NoCall, Calling, Outstanding
<1>a. /\ <<"reserved-groups">> \in PlanSteps
      /\ \A u \in Accounts, k \in {"account", "password", "deactivate"} : <<k, u>> \in PlanSteps
      /\ \A u \in Accounts, v \in Accounts, k \in {"account", "password"} : <<k, u>> # <<"deactivate", v>>
      /\ \A v \in Accounts : <<"reserved-groups">> # <<"deactivate", v>>
  BY DEF PlanSteps
<1>b. command = "apply-accounts" =>
        /\ journal \in Journals(Fingerprints) /\ ~Finished(journal)
        /\ journal.fingerprint \in Fingerprints
        /\ journal.steps \in [PlanSteps -> StepStatuses]
  BY DEF Journaling, Finished, NoJournal, Journals
<1>1. ASSUME UNCHANGED <<plan, journal, uncertain>>,
             \/ command' # "apply-accounts"
             \/ command' = command /\ pc \in Grouping /\ pc' \in Grouping
             \/ UNCHANGED <<command, pc, call>>
             \/ /\ UNCHANGED <<command, pc>> /\ call.state \in {"sent", "served"} /\ call'.to = call.to
      PROVE  Journaling'
  BY <1>0, <1>1 DEF Journaling, CurrentStep
<1>2. CASE (Shared \/ KillRetirement \/ ProxyNext \/ SyncNext) /\ UNCHANGED planVars
  <2>1. UNCHANGED <<plan, journal, uncertain>>
    BY <1>2 DEF planVars
  <2> QED
    BY <1>1, <1>2, <2>1, AsidePlan
<1>3. CASE AccountPlanNext
  (* The plan goes on, and no request is under way.                        *)
  <2>a. ASSUME command = "apply-accounts", command' = command, plan' = plan, NEW s \in PlanSteps,
               journal' = CompleteStep(journal, s), uncertain' = uncertain \ {s},
               pc' \notin Grouping, call' = NoCall \/ call'.state = "unsent",
               \A u \in Accounts : s = <<"deactivate", u>> => u \notin DOMAIN plan.accounts
        PROVE  Journaling'
    <3>1. /\ journal' \in Journals(Fingerprints) /\ journal'.status = journal.status
          /\ journal'.fingerprint = journal.fingerprint
          /\ \A x \in PlanSteps : journal'.steps[x] = IF x = s THEN "complete" ELSE journal.steps[x]
      <4>1. journal \in Journals(Fingerprints) /\ s \in PlanSteps /\ journal' = CompleteStep(journal, s)
        BY <1>b, <2>a
      <4> QED
        BY <4>1, Completing
    <3>2. \A u \in Accounts : u \in DOMAIN journal'.fingerprint.accounts => journal'.steps[<<"deactivate", u>>] = "none"
      BY <1>a, <1>b, <2>a, <3>1, FingerprintFacts, ZenonT(40) DEF Journaling
    <3>3. \A x \in uncertain' : journal'.steps[x] \in {"running", "manual-recovery-required"}
      BY <1>b, <2>a, <3>1 DEF Journaling
    <3> QED
      BY <2>a, <3>1, <3>2, <3>3 DEF Journaling
  (* A step begins.                                                        *)
  <2>b. ASSUME command = "apply-accounts", command' = command, plan' = plan, NEW s \in PlanSteps,
               journal' = StartStep(journal, s), uncertain' = uncertain,
               CurrentStep' = s,
               \A u \in Accounts : s = <<"deactivate", u>> => u \notin DOMAIN plan.accounts
        PROVE  Journaling'
    <3>1. /\ journal' \in Journals(Fingerprints) /\ journal'.status = "running"
          /\ journal'.fingerprint = journal.fingerprint /\ journal'.current = s
          /\ \A x \in PlanSteps : journal'.steps[x] = IF x = s THEN "running" ELSE journal.steps[x]
      <4>1. journal \in Journals(Fingerprints) /\ s \in PlanSteps /\ journal' = StartStep(journal, s)
        BY <1>b, <2>b
      <4> QED
        BY <4>1, Starting
    <3>2. \A u \in Accounts : u \in DOMAIN journal'.fingerprint.accounts => journal'.steps[<<"deactivate", u>>] = "none"
      BY <1>a, <1>b, <2>b, <3>1, FingerprintFacts, ZenonT(40) DEF Journaling
    <3>3. \A x \in uncertain' : journal'.steps[x] \in {"running", "manual-recovery-required"}
      BY <1>b, <2>b, <3>1 DEF Journaling
    <3>4. journal'.steps[s] = "running"
      BY <1>b, <2>b, <3>1
    <3> QED
      BY <2>b, <3>1, <3>2, <3>3, <3>4 DEF Journaling
  (* The command ends.                                                     *)
  <2>c. ASSUME command = "apply-accounts", command' = "none", uncertain' = uncertain,
               journal' \in {Fail(journal, FALSE), Complete(journal)}
        PROVE  Journaling'
    <3>1. /\ journal' \in Journals(Fingerprints) /\ journal'.status \in {"failed", "complete"}
          /\ journal'.fingerprint = journal.fingerprint /\ journal'.steps = journal.steps
      <4>1. journal \in Journals(Fingerprints)
        BY <1>b, <2>c
      <4>2. CASE journal' = Fail(journal, FALSE)
        BY <4>1, <4>2, StatusFacts
      <4>3. CASE journal' = Complete(journal)
        BY <4>1, <4>3, StatusFacts
      <4> QED
        BY <2>c, <4>2, <4>3
    <3> QED
      BY <1>b, <2>c, <3>1 DEF Journaling
  (* The request of the running command, and the step it belongs to.       *)
  <2>d. ASSUME command = "apply-accounts", call # NoCall, call.state # "unsent"
        PROVE  journal.current \in PlanSteps /\ journal.steps[journal.current] = "running"
    <3>1. journal.current = CurrentStep /\ journal.steps[CurrentStep] = "running"
      BY <2>d DEF Journaling
    <3>2. CurrentStep \in PlanSteps
      <4>1. CASE pc \in Grouping
        BY <1>a, <4>1 DEF CurrentStep
      <4>2. CASE pc \notin Grouping
        <5>1. pc \in {"open", "read"} \cup Writing
          BY <2>d, <4>2 DEF Located
        <5>2. \E u \in Accounts, k \in {"account", "password", "deactivate"} : call.to = <<k, u>>
          BY <2>d, <5>1 DEF Calling, About, Writing, Parts, Undoing
        <5> QED
          BY <1>a, <4>2, <5>2 DEF CurrentStep
      <4> QED
        BY <4>1, <4>2
    <3> QED
      BY <3>1, <3>2
  <2>1. CASE \E p \in Plans : OpenPlan(p)
    <3>1. PICK p \in Plans : OpenPlan(p)
      BY <2>1
    <3>2. call' = NoCall /\ command' = "apply-accounts" /\ plan' = p /\ pc' \notin Grouping
      BY <1>0, <3>1 DEF OpenPlan, Begin, Located, Calling, About, Parts, Undoing, Grouping
    <3>3. CASE Finished(journal)
      <4>1. /\ journal' = [status |-> "pending", fingerprint |-> Fingerprint(p),
                           steps |-> [s \in PlanSteps |-> "none"], current |-> <<"none">>]
            /\ uncertain' = {}
        BY <3>1, <3>3 DEF OpenPlan, Open
      <4>2. journal' \in Journals(Fingerprints)
        BY <4>1 DEF Journals, Fingerprints, Statuses, StepStatuses
      <4> QED
        BY <1>a, <3>2, <4>1, <4>2 DEF Journaling
    <3>4. CASE ~Finished(journal)
      <4>0. journal \in Journals(Fingerprints)
        BY <3>4 DEF Journaling, Finished, NoJournal
      <4>1. /\ journal' = [journal EXCEPT !.status = "resuming"] /\ uncertain' = uncertain
            /\ journal.fingerprint = Fingerprint(p)
        BY <3>1, <3>4 DEF OpenPlan, Open, CanOpen
      <4>2. /\ journal' \in Journals(Fingerprints) /\ journal'.status = "resuming"
            /\ journal'.fingerprint = journal.fingerprint /\ journal'.steps = journal.steps
        BY <4>0, <4>1, StatusFacts
      <4> QED
        BY <3>2, <3>4, <4>1, <4>2 DEF Journaling
    <3> QED
      BY <3>3, <3>4
  <2>2. CASE StartGroups
    <3>1. call = NoCall /\ call' = NoCall
      BY <2>2 DEF StartGroups, Calling, About, Parts, Undoing
    <3>2. CASE StepComplete(journal, <<"reserved-groups">>)
      BY <2>2, <3>1, <3>2 DEF StartGroups, Goto, Journaling, Grouping
    <3>3. CASE ~StepComplete(journal, <<"reserved-groups">>)
      <4>1. pc' = "roles" /\ journal' = StartStep(journal, <<"reserved-groups">>)
        BY <2>2, <3>3 DEF StartGroups, Goto
      <4>2. CurrentStep' = <<"reserved-groups">>
        BY <4>1 DEF CurrentStep, Grouping
      <4> QED
        BY <1>a, <2>b, <2>2, <3>3, <4>1, <4>2 DEF StartGroups, Goto
    <3> QED
      BY <3>2, <3>3
  <2>3. CASE GroupsEnsured
    <3>1. call' = NoCall
      BY <2>3 DEF GroupsEnsured, Calling, About, Parts, Undoing
    <3> QED
      BY <1>a, <2>a, <2>3, <3>1 DEF GroupsEnsured, Goto, Grouping
  <2>4. CASE ReadDirectory
    <3>1. call = NoCall
      BY <2>4 DEF ReadDirectory, Calling, About, Parts, Undoing
    <3>2. CASE Resulting(plan, directory) = {}
      BY <2>c, <2>4, <3>2 DEF ReadDirectory, EndPlan, End
    <3>3. CASE Resulting(plan, directory) # {}
      BY <2>4, <3>1, <3>3 DEF ReadDirectory, Goto, Journaling, Grouping
    <3> QED
      BY <3>2, <3>3
  <2>5. CASE ReadFails \/ CompletePlan
    BY <2>c, <2>5 DEF ReadFails, CompletePlan, EndPlan, End
  <2>6. ASSUME NEW u \in Accounts, NEW k \in {"account", "password"}, command = "apply-accounts",
               plan' = plan, uncertain' = uncertain, Request(<<k, u>>, k)
        PROVE  Journaling'
    <3>1. CurrentStep' = <<k, u>>
      BY <2>6 DEF Request, Goto, CallTo, CurrentStep, Grouping
    <3> QED
      BY <1>a, <2>b, <2>6, <3>1 DEF Request, Goto
  <2>7. CASE \E u \in Accounts : WriteAccount(u)
    <3>1. PICK u \in Accounts : WriteAccount(u)
      BY <2>7
    <3>2. CASE EndPlan
      BY <2>c, <3>1, <3>2 DEF WriteAccount, EndPlan, End, Request, Goto
    <3>3. CASE Request(<<"account", u>>, "account") \/ Request(<<"password", u>>, "password")
      BY <2>6, <3>1, <3>3 DEF WriteAccount, EndPlan, End, Request, Goto
    <3>4. CASE UNCHANGED <<journal, call, command, commands, pc>> /\ UNCHANGED <<plan, uncertain>>
      BY <1>1, <3>4
    <3> QED
      BY <3>1, <3>2, <3>3, <3>4, Zenon DEF WriteAccount
  <2>8. CASE \E u \in Accounts : SetPassword(u)
    BY <2>6, <2>8 DEF SetPassword
  <2>9. CASE \E u \in Accounts : AccountWritten(u) \/ PasswordSet(u)
    <3>1. PICK u \in Accounts : AccountWritten(u) \/ PasswordSet(u)
      BY <2>9
    <3>2. command = "apply-accounts" /\ pc' \notin Grouping /\ command' = command /\ plan' = plan
      BY <3>1, Targets, Whose DEF AccountWritten, PasswordSet, Answered, Goto, Writing, Grouping
    <3>3. CASE AccountWritten(u)
      <4>1. call' = NoCall \/ call'.state = "unsent"
        BY <3>3 DEF AccountWritten, Unsent
      <4> QED
        BY <1>a, <2>a, <3>2, <3>3, <4>1 DEF AccountWritten
    <3>4. CASE PasswordSet(u)
      BY <1>a, <2>a, <3>2, <3>4 DEF PasswordSet
    <3> QED
      BY <3>1, <3>3, <3>4
  <2>10. CASE StartDeactivation
    BY <2>10 DEF StartDeactivation, Goto, Journaling, Grouping
  <2>11. CASE \E u \in Accounts : Deactivate(u)
    <3>1. PICK u \in Accounts : Deactivate(u)
      BY <2>11
    <3>2. CASE StepComplete(journal, <<"deactivate", u>>)
      BY <1>1, <3>1, <3>2 DEF Deactivate
    <3>3. CASE ~StepComplete(journal, <<"deactivate", u>>)
      <4>1. Request(<<"deactivate", u>>, "deactivate") /\ plan' = plan /\ uncertain' = uncertain
        BY <3>1, <3>3 DEF Deactivate
      <4>2. CurrentStep' = <<"deactivate", u>>
        BY <4>1 DEF Request, Goto, CallTo, CurrentStep, Grouping
      <4>3. u \notin DOMAIN plan.accounts
        BY <3>1 DEF Deactivate, Ordered, Progress, Asked, Writing, Missing
      <4>4. \A v \in Accounts : <<"deactivate", u>> = <<"deactivate", v>> => v \notin DOMAIN plan.accounts
        BY <4>3
      <4> QED
        BY <1>a, <2>b, <3>1, <4>1, <4>2, <4>4 DEF Request, Goto, Deactivate
    <3> QED
      BY <3>2, <3>3
  <2>12. CASE \E u \in Accounts : Deactivated(u)
    <3>1. PICK u \in Accounts : Deactivated(u)
      BY <2>12
    <3>2. command = "apply-accounts" /\ pc = "deactivate" /\ pc' \notin Grouping /\ command' = command /\ plan' = plan
      BY <3>1, Targets, Whose DEF Deactivated, Answered, Writing, Grouping
    <3>3. u \notin DOMAIN plan.accounts
      BY <3>1, <3>2 DEF Deactivated, Answered, Ordered, Progress, Asked, Writing, Missing
    <3>4. \A v \in Accounts : <<"deactivate", u>> = <<"deactivate", v>> => v \notin DOMAIN plan.accounts
      BY <3>3
    <3> QED
      BY <1>a, <2>a, <3>1, <3>2, <3>4 DEF Deactivated
  <2>13. CASE ServePlan
    <3>1. call'.to = call.to
      BY <1>0, <2>13 DEF ServePlan, Update
    <3> QED
      BY <1>1, <2>13, <3>1 DEF ServePlan, planVars
  <2>14. CASE RequestFails
    <3>1. journal.current \in PlanSteps /\ journal.steps[journal.current] = "running"
      BY <1>0, <2>d, <2>14 DEF RequestFails, Failed
    <3>2. /\ journal' \in Journals(Fingerprints) /\ journal'.fingerprint = journal.fingerprint
          /\ journal'.status = IF call.state = "lost" THEN "manual-recovery-required" ELSE "failed"
          /\ \A x \in PlanSteps : journal'.steps[x] =
                IF x # journal.current THEN journal.steps[x]
                ELSE IF call.state = "lost" THEN "manual-recovery-required" ELSE "failed"
      <4>1. journal \in Journals(Fingerprints)
        BY <1>b, <2>14 DEF RequestFails
      <4>2. CASE call.state = "lost"
        <5>1. journal' = StepFailure(journal, journal.current, TRUE)
          BY <2>14, <4>2 DEF RequestFails, StepFailure
        <5>2. \A x \in PlanSteps : StepFailure(journal, journal.current, TRUE).steps[x] =
                IF x = journal.current THEN "manual-recovery-required" ELSE journal.steps[x]
          BY <3>1, <4>1, FailureFacts, ZenonT(40)
        <5>3. \A x \in PlanSteps : journal'.steps[x] =
                IF x = journal.current THEN "manual-recovery-required" ELSE journal.steps[x]
          BY <5>1, <5>2
        <5>4. /\ journal' \in Journals(Fingerprints) /\ journal'.fingerprint = journal.fingerprint
              /\ journal'.status = "manual-recovery-required"
          BY <3>1, <4>1, <5>1, FailureFacts
        <5> QED
          BY <4>2, <5>3, <5>4
      <4>3. CASE call.state # "lost"
        <5>1. journal' = StepFailure(journal, journal.current, FALSE)
          BY <2>14, <4>3 DEF RequestFails, StepFailure
        <5>2. \A x \in PlanSteps : StepFailure(journal, journal.current, FALSE).steps[x] =
                IF x = journal.current THEN "failed" ELSE journal.steps[x]
          BY <3>1, <4>1, FailureFacts, ZenonT(40)
        <5>3. \A x \in PlanSteps : journal'.steps[x] =
                IF x = journal.current THEN "failed" ELSE journal.steps[x]
          BY <5>1, <5>2
        <5>4. /\ journal' \in Journals(Fingerprints) /\ journal'.fingerprint = journal.fingerprint
              /\ journal'.status = "failed"
          BY <3>1, <4>1, <5>1, FailureFacts
        <5> QED
          BY <4>3, <5>3, <5>4
      <4> QED
        BY <4>2, <4>3
    <3>3. \A x \in uncertain' : journal'.steps[x] \in {"running", "manual-recovery-required"}
      BY <1>b, <2>14, <3>1, <3>2 DEF RequestFails, Journaling
    <3>4. \A u \in Accounts : u \in DOMAIN journal'.fingerprint.accounts => journal'.steps[<<"deactivate", u>>] = "none"
      BY <1>a, <1>b, <2>14, <3>1, <3>2 DEF RequestFails, Journaling
    <3>5. command' = "none" /\ uncertain' \subseteq PlanSteps
      BY <2>14, <3>1 DEF RequestFails, EndPlan, End, Journaling
    <3> QED
      BY <3>2, <3>3, <3>4, <3>5 DEF Journaling
  <2>15. CASE KillPlan
    <3>1. call.state \notin {"none", "unsent"} => journal.current \in PlanSteps /\ journal.steps[journal.current] = "running"
      BY <1>0, <2>d, <2>15 DEF KillPlan
    <3> QED
      BY <2>15, <3>1 DEF KillPlan, EndPlan, End, Journaling
  <2>16. CASE CancelPlan
    <3>1. journal \in Journals(Fingerprints) /\ journal.status = "failed"
      BY <2>16 DEF CancelPlan, Cancellable, Journaling, NoJournal
    <3>2. uncertain = {}
      BY <2>16, <3>1 DEF CancelPlan, Cancellable, Journaling
    <3>3. journal' \in Journals(Fingerprints) /\ journal'.status = "cancelled" /\ Finished(journal')
      BY <2>16, <3>1, StatusFacts DEF CancelPlan, Finished
    <3> QED
      BY <2>16, <3>2, <3>3 DEF CancelPlan, directoryVars, Journaling
  <2> QED
    BY <1>3, <2>1, <2>2, <2>3, <2>4, <2>5, <2>7, <2>8, <2>9, <2>10, <2>11, <2>12, <2>13, <2>14, <2>15, <2>16, Zenon
    DEF AccountPlanNext
<1>4. CASE UNCHANGED vars
  BY <1>1, <1>4 DEF vars, directoryVars, planVars
<1>5. Shared \/ KillRetirement => UNCHANGED planVars
  BY DEF Shared, KillRetirement
<1>6. UNCHANGED <<planVars, syncVars>> => UNCHANGED planVars
  OBVIOUS
<1>7. UNCHANGED <<planVars, proxyVars>> => UNCHANGED planVars
  OBVIOUS
<1> QED
  BY <1>2, <1>3, <1>4, <1>5, <1>6, <1>7, Zenon DEF Next

-----------------------------------------------------------------------------
(* The directory.  Two readings of a user that differ in the application   *)
(* capability only.                                                        *)
Alike(u) ==
    /\ directory'[u].known = directory[u].known /\ directory'[u].active = directory[u].active
    /\ directory'[u].roles = directory[u].roles /\ directory'[u].managed = directory[u].managed
    /\ directory'[u].password = directory[u].password

LEMMA KnownIsPerson == \A x \in People \cup {Absent} : x.known => x \in People
<1>1. Absent.known = FALSE
  BY DEF Absent
<1> QED
  BY <1>1

(* Only the server, answering a request, and somebody who edits Authentik  *)
(* change the directory.                                                   *)
LEMMA Touched ==
    ASSUME Directed, [Next]_vars
    PROVE  \/ ServePlan
           \/ ServeDirectory /\ UNCHANGED planVars
           \/ revoked' = TRUE /\ (\E u \in Users : Edit(u)) /\ UNCHANGED planVars
           \/ /\ revoked' = revoked /\ \A u \in Users : Alike(u)
              /\ UNCHANGED directory \/ \E u \in Users : Edit(u)
<1>0. ASSUME UNCHANGED <<directory, revoked>> PROVE revoked' = revoked /\ \A u \in Users : Alike(u)
  BY <1>0 DEF Alike
<1>1. CASE Shared
  <2>0. UNCHANGED planVars
    BY <1>1 DEF Shared
  <2>1. CASE \E u \in Users : Edit(u)
    <3>1. PICK u \in Users : Edit(u)
      BY <2>1
    <3>2. CASE directory' = [directory EXCEPT ![u].app = ~@] /\ UNCHANGED revoked
      <4>1. directory[u] \in People
        BY <3>1, KnownIsPerson DEF Edit, Directed
      <4>2. Alike(u)
        BY <3>2, <4>1 DEF Alike, Directed, People
      <4>3. \A v \in Users \ {u} : Alike(v)
        BY <3>2 DEF Alike, Directed
      <4> QED
        BY <2>1, <3>2, <4>2, <4>3
    <3> QED
      BY <2>0, <2>1, <3>1, <3>2 DEF Edit
  <2>2. CASE (\E r \in Reserved : WriteRole(r) \/ RoleWritten(r)) \/ AddBootstrapAdministrator
               \/ BootstrapAdministratorAdded \/ Retire \/ Retired \/ Strays
    BY <1>0, <2>2 DEF WriteRole, RoleWritten, AddBootstrapAdministrator, BootstrapAdministratorAdded, Retire,
       Retired, Strays
  <2> QED
    BY <1>1, <2>0, <2>1, <2>2, Zenon DEF Shared, EnsureGroups, Strays
<1>2. CASE KillRetirement
  BY <1>0, <1>2 DEF KillRetirement
<1>3. CASE AccountPlanNext /\ ~ServePlan
  <2>1. UNCHANGED <<directory, revoked>>
    BY <1>3 DEF AccountPlanNext, OpenPlan, StartGroups, GroupsEnsured, ReadDirectory, ReadFails, WriteAccount,
       AccountWritten, SetPassword, PasswordSet, Deactivate, Deactivated, StartDeactivation, CompletePlan,
       RequestFails, KillPlan, CancelPlan, directoryVars
  <2> QED
    BY <1>0, <2>1
<1>4. CASE ProxyNext
  <2>1. UNCHANGED <<directory, revoked>>
    BY <1>4 DEF ProxyNext, Bootstrap, Stage, StageFails, Finish, WritePart, PartWritten, StartRollback, Discover,
       DiscoveryFails, Undo, UndoAnswered, Retry, ServeProxy, EditProxy, KillBootstrap, Unaffected
  <2> QED
    BY <1>0, <2>1
<1>5. CASE SyncNext
  <2>1. UNCHANGED <<directory, revoked>>
    BY <1>5 DEF SyncNext, StartSync, Prepare, Refuse, Mutated, VerifyAndCommit, Record, Forget, Put, Delete,
       StopSync, EditSyncthing, Elsewhere
  <2> QED
    BY <1>0, <2>1
<1>6. CASE UNCHANGED vars
  BY <1>0, <1>6 DEF vars, directoryVars
<1> QED
  BY <1>1, <1>2, <1>3, <1>4, <1>5, <1>6, Zenon DEF Next

(* What the server makes of a user.                                        *)
LEMMA Served ==
    ASSUME Located, Calling, Directed, Journaling, Ordered, ServePlan
    PROVE  /\ command = "apply-accounts" /\ pc \in Writing /\ UNCHANGED <<command, pc, planVars, revoked>>
           /\ call.state = "sent" /\ call'.to = call.to /\ call' # NoCall
           /\ \E u \in Accounts :
                /\ \A v \in Users \ {u} : directory'[v] = directory[v]
                /\ \/ directory'[u] = directory[u] /\ call'.state = "rejected"
                   \/ call'.state = "served" /\ directory'[u] \in People
                /\ \/ /\ pc = "account" /\ call.to = <<"account", u>> /\ u \in Listed
                      /\ call'.state = "served" => /\ directory'[u].active = plan.accounts[u].active
                                                   /\ directory'[u].roles = RolesOf(plan.accounts[u])
                   \/ /\ pc = "password" /\ call.to = <<"password", u>> /\ u \in Listed
                      /\ directory'[u].known = directory[u].known
                      /\ directory'[u].active = directory[u].active
                      /\ directory'[u].roles = directory[u].roles
                      /\ call'.state = "served" => directory'[u].password = plan.accounts[u].password
                   \/ /\ pc = "deactivate" /\ call.to = <<"deactivate", u>> /\ u \in Missing(plan, seen)
                      /\ directory'[u].known = directory[u].known
                      /\ directory'[u].managed = directory[u].managed
                      /\ call'.state = "served" => ~directory'[u].active
<1>0. call = [to |-> call.to, state |-> call.state] /\ NoCall.state = "none"
  BY DEF Calling, NoCall
<1>1. PICK u \in Accounts :
        \/ /\ call.to = <<"account", u>>
           /\ Update(u, directory[u].known \/ ~seen[u].known, Written(u))
        \/ /\ call.to = <<"password", u>>
           /\ Update(u, directory[u].known,
                     [directory[u] EXCEPT !.password = plan.accounts[u].password])
        \/ /\ call.to = <<"deactivate", u>>
           /\ Update(u, directory[u].known,
                     [directory[u] EXCEPT !.active = FALSE, !.roles = {"disabled"}])
  BY DEF ServePlan
<1>2. pc \in {"account", "password", "deactivate"}
  BY <1>1, Targets
<1>3. command = "apply-accounts" /\ pc \in Writing
  BY <1>2, Whose DEF Writing
<1>4. /\ call.state = "sent" /\ call'.to = call.to /\ call'.state \in {"served", "rejected"}
      /\ UNCHANGED <<command, pc, planVars, revoked>>
  BY <1>0, <1>1 DEF ServePlan, Update
<1>5. \A v \in Users \ {u} : directory'[v] = directory[v]
  BY <1>1 DEF Update, Directed
<1>6. u \in Users /\ directory[u] \in People \cup {Absent} /\ plan \in Plans
      /\ (directory[u].known => directory[u] \in People)
  BY <1>3, KnownIsPerson DEF Users, Directed, Journaling
<1>7. call' # NoCall
  BY <1>0, <1>4
<1>8. CASE call.to = <<"account", u>> /\ Update(u, directory[u].known \/ ~seen[u].known, Written(u))
  <2>1. pc = "account" /\ u \in Listed
    BY <1>3, <1>8, Targets DEF Ordered, Progress, Asked
  <2>2. plan.accounts[u] \in AccountWants
    BY <1>6, <2>1, PlanFacts DEF Listed
  <2>3. Written(u) \in People
    <3>1. seen[u] \in People \cup {Absent}
      BY <1>3, <1>6 DEF Ordered, Progress, Asked
    <3>2. (seen[u].known /\ seen[u].app) \in BOOLEAN
      OBVIOUS
    <3>3. (IF directory[u].known THEN directory[u].password ELSE "unset") \in Passwords \cup {"unset"}
      BY <1>6 DEF People
    <3>4. plan.accounts[u].active \in BOOLEAN /\ RolesOf(plan.accounts[u]) \in SUBSET Reserved
      BY <2>2 DEF AccountWants, RolesOf, Reserved
    <3> QED
      BY <3>2, <3>3, <3>4 DEF Written, People
  <2>4. Written(u).active = plan.accounts[u].active /\ Written(u).roles = RolesOf(plan.accounts[u])
    BY DEF Written
  <2>5. \/ directory' = directory /\ call'.state = "rejected"
        \/ directory'[u] = Written(u) /\ call'.state = "served"
    BY <1>0, <1>6, <1>8 DEF Update, Directed
  <2> QED
    BY <1>3, <1>4, <1>5, <1>7, <1>8, <2>1, <2>3, <2>4, <2>5
<1>9. CASE /\ call.to = <<"password", u>>
           /\ Update(u, directory[u].known, [directory[u] EXCEPT !.password = plan.accounts[u].password])
  <2>1. pc = "password" /\ u \in Listed
    BY <1>3, <1>9, Targets DEF Ordered, Progress, Asked
  <2>2. plan.accounts[u].password \in Passwords \cup {"unset"}
    BY <1>6, <2>1, PlanFacts DEF Listed, AccountWants
  <2>3. \/ directory' = directory /\ call'.state = "rejected"
        \/ /\ directory[u].known /\ call'.state = "served"
           /\ directory'[u] = [directory[u] EXCEPT !.password = plan.accounts[u].password]
    BY <1>0, <1>6, <1>9 DEF Update, Directed
  <2>4. directory[u] \in People =>
          LET p == [directory[u] EXCEPT !.password = plan.accounts[u].password]
          IN  p \in People /\ p.known = directory[u].known /\ p.active = directory[u].active
              /\ p.roles = directory[u].roles /\ p.password = plan.accounts[u].password
    BY <2>2 DEF People
  <2> QED
    BY <1>3, <1>4, <1>5, <1>6, <1>7, <1>9, <2>1, <2>3, <2>4
<1>10. CASE /\ call.to = <<"deactivate", u>>
            /\ Update(u, directory[u].known, [directory[u] EXCEPT !.active = FALSE, !.roles = {"disabled"}])
  <2>1. pc = "deactivate" /\ u \in Missing(plan, seen)
    BY <1>3, <1>10, Targets DEF Ordered, Progress, Asked
  <2>3. \/ directory' = directory /\ call'.state = "rejected"
        \/ /\ directory[u].known /\ call'.state = "served"
           /\ directory'[u] = [directory[u] EXCEPT !.active = FALSE, !.roles = {"disabled"}]
    BY <1>0, <1>6, <1>10 DEF Update, Directed
  <2>4. directory[u] \in People =>
          LET p == [directory[u] EXCEPT !.active = FALSE, !.roles = {"disabled"}]
          IN  p \in People /\ p.known = directory[u].known /\ p.active = FALSE
              /\ p.managed = directory[u].managed
    BY DEF People, Reserved
  <2> QED
    BY <1>3, <1>4, <1>5, <1>6, <1>7, <1>10, <2>1, <2>3, <2>4
<1> QED
  BY <1>1, <1>8, <1>9, <1>10

LEMMA DirectedStays ==
    Located /\ Calling /\ Directed /\ Journaling /\ Ordered /\ [Next]_vars => Directed'
<1> SUFFICES ASSUME Located, Calling, Directed, Journaling, Ordered, [Next]_vars PROVE Directed'
  OBVIOUS
<1>1. faults' \in Nat
  BY FaultsGrow DEF Directed
<1>2. ASSUME NEW u \in Users, NEW p \in People \cup {Absent}, directory' = [directory EXCEPT ![u] = p]
      PROVE  directory' \in [Users -> People \cup {Absent}]
  BY <1>2 DEF Directed
<1>3. CASE ServePlan
  <2>1. PICK u \in Accounts : directory' = directory \/ \E p : directory' = [directory EXCEPT ![u] = p]
    BY <1>3 DEF ServePlan, Update
  <2>2. directory' = [v \in Users |-> directory'[v]]
    BY <2>1 DEF Directed
  <2>3. \A v \in Users : directory'[v] \in People \cup {Absent}
    BY <1>3, Served DEF Directed, Users
  <2> QED
    BY <1>1, <1>3, <2>2, <2>3, Served DEF Directed
<1>4. CASE ServeDirectory
  <2>1. "akadmin" \in Users
    BY DEF Users
  <2>2. directory["akadmin"].known =>
          [directory["akadmin"] EXCEPT !.roles = @ \cup {"admins"}] \in People
    <3>1. directory["akadmin"].known => directory["akadmin"] \in People
      BY <2>1, KnownIsPerson DEF Directed
    <3> QED
      BY <3>1 DEF People, Reserved
  <2>3. directory' \in [Users -> People \cup {Absent}]
    BY <1>2, <1>4, <2>1, <2>2 DEF ServeDirectory, Update, Directed
  <2> QED
    BY <1>1, <1>4, <2>3 DEF ServeDirectory, Directed
<1>5. CASE \E u \in Users : Edit(u)
  <2>1. PICK u \in Users : Edit(u)
    BY <1>5
  <2>2. directory[u] \in People
    BY <2>1, KnownIsPerson DEF Edit, Directed
  <2>3. directory' \in [Users -> People \cup {Absent}]
    BY <1>2, <2>1, <2>2 DEF Edit, Directed, People
  <2> QED
    BY <1>1, <2>1, <2>3 DEF Edit, Directed
<1>6. CASE UNCHANGED directory /\ revoked' = revoked
  BY <1>1, <1>6 DEF Directed
<1> QED
  BY <1>3, <1>4, <1>5, <1>6, Touched

(* What a user is to a plan does not depend on the capability.             *)
LEMMA AlikeKeeps ==
    ASSUME \A u \in Users : Alike(u)
    PROVE  Administrators(directory') = Administrators(directory)
  BY DEF Alike, Administrators

LEMMA StepNames ==
    /\ <<"reserved-groups">> \in PlanSteps
    /\ \A u \in Accounts, k \in {"account", "password", "deactivate"} : <<k, u>> \in PlanSteps
    /\ \A u, v, k, l : <<k, u>> = <<l, v>> => k = l /\ u = v
    /\ \A u, k : <<"reserved-groups">> # <<k, u>> /\ <<"none">> # <<k, u>>
  BY DEF PlanSteps

(* The journal of the running plan.                                        *)
LEMMA Running ==
    ASSUME Journaling, command = "apply-accounts"
    PROVE  /\ journal \in Journals(Fingerprints) /\ ~Finished(journal)
           /\ plan \in Plans /\ journal.fingerprint = Fingerprint(plan)
           /\ Listed \subseteq Accounts /\ DOMAIN journal.fingerprint.accounts = Listed
  BY PlanFacts, FingerprintFacts DEF Journaling, Finished, NoJournal, Listed

LEMMA CarriedStays ==
    Located /\ Calling /\ Directed /\ Journaling /\ Ordered /\ Carried /\ [Next]_vars => Carried'
<1> SUFFICES ASSUME Located, Calling, Directed, Journaling, Ordered, Carried, [Next]_vars,
                    ~revoked', ~Finished(journal')
             PROVE  \A u \in Accounts : CarriedOut(u)'
  BY DEF Carried
<1>a. Accounts \subseteq Users /\ \A u \in Accounts : u # "akadmin"
  BY AccountsAssumption DEF Users
<1>b. ~Finished(journal) /\ ~revoked => \A u \in Accounts : CarriedOut(u)
  BY DEF Carried
(* The directory changes.                                                  *)
<1>1. CASE ServePlan
  <2>0. command = "apply-accounts" /\ journal' = journal /\ revoked' = revoked
    BY <1>1, Served DEF planVars
  <2>1. PICK u \in Accounts :
          /\ \A v \in Users \ {u} : directory'[v] = directory[v]
          /\ \/ directory'[u] = directory[u]
             \/ call.to = <<"account", u>> /\ u \in Listed
             \/ /\ directory'[u].known = directory[u].known
                /\ directory'[u].active = directory[u].active
                /\ directory'[u].roles = directory[u].roles
             \/ call.to = <<"deactivate", u>> /\ u \in Missing(plan, seen)
    BY <1>1, Served
  <2>2. \A v \in Accounts \ {u} : CarriedOut(v)'
    BY <1>a, <1>b, <2>0, <2>1 DEF CarriedOut, Conforms, Administrators
  <2>3. journal.steps[call.to] = "running"
    <3>1. call # NoCall /\ call.state # "unsent" /\ pc \notin Grouping
      BY <1>1, Served DEF NoCall, Writing, Grouping
    <3> QED
      BY <2>0, <3>1 DEF Journaling, CurrentStep
  <2>4. CarriedOut(u)'
    <3>1. CASE call.to = <<"account", u>> /\ u \in Listed
      <4>1. journal.steps[<<"deactivate", u>>] = "none"
        BY <2>0, <3>1, Running DEF Journaling
      <4> QED
        BY <2>0, <2>3, <3>1, <4>1 DEF CarriedOut
    <3>2. CASE call.to = <<"deactivate", u>> /\ u \in Missing(plan, seen)
      <4>1. u \notin DOMAIN journal.fingerprint.accounts
        BY <2>0, <3>2, Running DEF Missing, Listed
      <4> QED
        BY <2>0, <2>3, <3>2, <4>1 DEF CarriedOut
    <3>3. CASE /\ directory'[u].known = directory[u].known /\ directory'[u].active = directory[u].active
               /\ directory'[u].roles = directory[u].roles
      BY <1>a, <1>b, <2>0, <3>3 DEF CarriedOut, Conforms, Administrators
    <3>4. CASE directory'[u] = directory[u]
      BY <3>3, <3>4
    <3> QED
      BY <2>1, <3>1, <3>2, <3>3, <3>4
  <2> QED
    BY <2>2, <2>4
<1>2. CASE ServeDirectory /\ UNCHANGED planVars
  <2>1. \A v \in Accounts : directory'[v] = directory[v]
    BY <1>a, <1>2 DEF ServeDirectory, Update, Directed
  <2> QED
    BY <1>a, <1>b, <1>2, <2>1 DEF ServeDirectory, planVars, CarriedOut, Conforms, Administrators
(* The journal changes, or nothing does.                                   *)
<1>3. ASSUME revoked' = revoked, \A u \in Users : Alike(u), ~Finished(journal), journal'.fingerprint = journal.fingerprint,
             NEW u \in Accounts,
             journal'.steps[<<"account", u>>] # "complete" \/ journal'.steps[<<"account", u>>] = journal.steps[<<"account", u>>],
             journal'.steps[<<"deactivate", u>>] # "complete" \/ journal'.steps[<<"deactivate", u>>] = journal.steps[<<"deactivate", u>>]
      PROVE  CarriedOut(u)'
  BY <1>a, <1>b, <1>3, AlikeKeeps DEF CarriedOut, Conforms, Alike
<1>4. CASE revoked' = revoked /\ (\A u \in Users : Alike(u)) /\ journal' = journal
  BY <1>3, <1>4
<1>5. CASE AccountPlanNext /\ revoked' = revoked /\ (\A u \in Users : Alike(u)) /\ ~ServePlan
  <2>a. ASSUME command = "apply-accounts", NEW s \in PlanSteps, journal' = StartStep(journal, s)
        PROVE  \A u \in Accounts : CarriedOut(u)'
    <3>1. /\ ~Finished(journal) /\ journal'.fingerprint = journal.fingerprint
          /\ \A x \in PlanSteps : journal'.steps[x] = IF x = s THEN "running" ELSE journal.steps[x]
      BY <2>a, Running, Starting
    <3> QED
      BY <1>3, <1>5, <3>1, StepNames
  <2>b. ASSUME command = "apply-accounts", NEW s \in PlanSteps, journal' = CompleteStep(journal, s),
               \A u \in Accounts : s = <<"account", u>> /\ u \in Listed => Conforms(u, plan.accounts[u]),
               \A u \in Accounts : s = <<"deactivate", u>> => u \notin Administrators(directory)
        PROVE  \A u \in Accounts : CarriedOut(u)'
    <3>1. /\ ~Finished(journal) /\ journal'.fingerprint = journal.fingerprint
          /\ \A x \in PlanSteps : journal'.steps[x] = IF x = s THEN "complete" ELSE journal.steps[x]
      BY <2>b, Running, Completing
    <3>2. SUFFICES ASSUME NEW u \in Accounts PROVE CarriedOut(u)'
      OBVIOUS
    <3>3. CASE s = <<"account", u>>
      <4>1. u \in Listed => /\ journal.fingerprint.accounts[u].active = plan.accounts[u].active
                            /\ journal.fingerprint.accounts[u].admin = plan.accounts[u].admin
        BY <2>b, Running, FingerprintFacts DEF Listed
      <4>2. u \in Listed => Conforms(u, journal.fingerprint.accounts[u])
        BY <2>b, <3>3, <4>1 DEF Conforms, RolesOf
      <4>3. DOMAIN journal'.fingerprint.accounts = Listed
        BY <2>b, <3>1, Running
      <4>4. journal'.steps[<<"deactivate", u>>] = journal.steps[<<"deactivate", u>>]
        BY <3>1, <3>3, StepNames
      <4>5. u \in Listed => Conforms(u, journal.fingerprint.accounts[u])'
        BY <1>a, <1>5, <3>1, <4>2 DEF Conforms, Alike
      <4> QED
        BY <1>a, <1>b, <1>5, <3>1, <4>3, <4>4, <4>5, AlikeKeeps DEF CarriedOut
    <3>4. CASE s = <<"deactivate", u>>
      <4>1. journal'.steps[<<"account", u>>] = journal.steps[<<"account", u>>]
        BY <3>1, <3>4, StepNames
      <4>2. u \notin Administrators(directory')
        BY <1>5, <2>b, <3>4, AlikeKeeps
      <4>3. u \in DOMAIN journal'.fingerprint.accounts /\ journal'.steps[<<"account", u>>] = "complete" =>
              Conforms(u, journal.fingerprint.accounts[u])'
        BY <1>a, <1>b, <1>5, <3>1, <4>1 DEF CarriedOut, Conforms, Alike
      <4> QED
        BY <4>2, <4>3 DEF CarriedOut
    <3>5. CASE s # <<"account", u>> /\ s # <<"deactivate", u>>
      BY <1>3, <1>5, <3>1, <3>5, StepNames
    <3> QED
      BY <3>3, <3>4, <3>5
  <2>1. CASE \E p \in Plans : OpenPlan(p)
    <3>1. CASE Finished(journal)
      <4>1. \A s \in PlanSteps : journal'.steps[s] = "none"
        BY <2>1, <3>1 DEF OpenPlan, Open
      <4> QED
        BY <4>1, StepNames DEF CarriedOut
    <3>2. CASE ~Finished(journal)
      <4>1. journal \in Journals(Fingerprints) /\ journal' = [journal EXCEPT !.status = "resuming"]
        BY <2>1, <3>2 DEF OpenPlan, Open, Journaling, Finished, NoJournal
      <4>2. journal'.fingerprint = journal.fingerprint /\ journal'.steps = journal.steps
        BY <4>1, StatusFacts
      <4> QED
        BY <1>3, <1>5, <3>2, <4>2
    <3> QED
      BY <3>1, <3>2
  <2>2. ASSUME command = "apply-accounts", journal' = Fail(journal, FALSE)
        PROVE  \A u \in Accounts : CarriedOut(u)'
    <3>1. /\ ~Finished(journal) /\ journal'.fingerprint = journal.fingerprint /\ journal'.steps = journal.steps
      BY <2>2, Running, StatusFacts
    <3> QED
      BY <1>3, <1>5, <3>1
  <2>3. CASE StartGroups
    BY <1>4, <1>5, <2>a, <2>3, StepNames DEF StartGroups
  <2>4. CASE GroupsEnsured
    BY <2>b, <2>4, StepNames DEF GroupsEnsured
  <2>5. CASE ReadDirectory \/ ReadFails
    BY <1>4, <1>5, <2>2, <2>5 DEF ReadDirectory, ReadFails
  <2>6. CASE \E u \in Accounts : WriteAccount(u) \/ SetPassword(u)
    BY <1>4, <1>5, <2>a, <2>2, <2>6, StepNames DEF WriteAccount, SetPassword, Request
  <2>7. CASE \E u \in Accounts : Deactivate(u)
    BY <1>4, <1>5, <2>a, <2>7, StepNames DEF Deactivate, Request
  <2>8. CASE \E u \in Accounts : AccountWritten(u)
    <3>1. PICK u \in Accounts : AccountWritten(u)
      BY <2>8
    <3>2. command = "apply-accounts" /\ pc \in Writing
      BY <3>1, Targets, Whose DEF AccountWritten, Answered, Writing
    <3>3. Conforms(u, plan.accounts[u])
      BY <1>5, <3>1, <3>2 DEF AccountWritten, Answered, Ordered, Progress, Asked
    <3> QED
      <4>1. journal' = CompleteStep(journal, <<"account", u>>) /\ <<"account", u>> \in PlanSteps
        BY <3>1, StepNames DEF AccountWritten
      <4>2. \A v \in Accounts : <<"account", u>> = <<"account", v>> /\ v \in Listed => Conforms(v, plan.accounts[v])
        BY <3>3, StepNames
      <4>3. \A v \in Accounts : <<"account", u>> = <<"deactivate", v>> => v \notin Administrators(directory)
        BY StepNames
      <4> QED
        BY <2>b, <3>2, <4>1, <4>2, <4>3
  <2>9. CASE \E u \in Accounts : PasswordSet(u)
    <3>1. PICK u \in Accounts : PasswordSet(u)
      BY <2>9
    <3>2. command = "apply-accounts" /\ pc \in Writing
      BY <3>1, Targets, Whose DEF PasswordSet, Answered, Writing
    <3> QED
      <4>1. journal' = CompleteStep(journal, <<"password", u>>) /\ <<"password", u>> \in PlanSteps
        BY <3>1, StepNames DEF PasswordSet
      <4>2. \A v \in Accounts : <<"password", u>> = <<"account", v>> /\ v \in Listed => Conforms(v, plan.accounts[v])
        BY StepNames
      <4>3. \A v \in Accounts : <<"password", u>> = <<"deactivate", v>> => v \notin Administrators(directory)
        BY StepNames
      <4> QED
        BY <2>b, <3>2, <4>1, <4>2, <4>3
  <2>10. CASE \E u \in Accounts : Deactivated(u)
    <3>1. PICK u \in Accounts : Deactivated(u)
      BY <2>10
    <3>2. command = "apply-accounts" /\ pc \in Writing
      BY <3>1, Targets, Whose DEF Deactivated, Answered, Writing
    <3>3. u \notin Administrators(directory)
      BY <1>5, <3>1, <3>2 DEF Deactivated, Answered, Ordered, Progress, Asked
    <3> QED
      <4>1. journal' = CompleteStep(journal, <<"deactivate", u>>) /\ <<"deactivate", u>> \in PlanSteps
        BY <3>1, StepNames DEF Deactivated
      <4>2. \A v \in Accounts : <<"deactivate", u>> = <<"account", v>> /\ v \in Listed => Conforms(v, plan.accounts[v])
        BY StepNames
      <4>3. \A v \in Accounts : <<"deactivate", u>> = <<"deactivate", v>> => v \notin Administrators(directory)
        BY <3>3, StepNames
      <4> QED
        BY <2>b, <3>2, <4>1, <4>2, <4>3
  <2>11. CASE StartDeactivation \/ KillPlan
    BY <1>4, <1>5, <2>11 DEF StartDeactivation, KillPlan
  <2>12. CASE CompletePlan \/ CancelPlan
    <3>1. journal \in Journals(Fingerprints)
      BY <2>12, Running DEF CompletePlan, CancelPlan, Cancellable, Journaling, NoJournal
    <3>2. Finished(journal')
      BY <2>12, <3>1, StatusFacts DEF CompletePlan, CancelPlan, Finished
    <3> QED
      BY <3>2
  <2>13. CASE RequestFails
    <3>1. journal \in Journals(Fingerprints) /\ ~Finished(journal)
      BY <2>13, Running DEF RequestFails
    <3>2. journal'.fingerprint = journal.fingerprint
          /\ \A x \in PlanSteps : journal'.steps[x] # "complete" \/ journal'.steps[x] = journal.steps[x]
      BY <2>13, <3>1 DEF RequestFails, StepFailure, FailStep, Journals
    <3> QED
      BY <1>3, <1>5, <3>1, <3>2, StepNames
  <2> QED
    BY <1>5, <2>1, <2>3, <2>4, <2>5, <2>6, <2>7, <2>8, <2>9, <2>10, <2>11, <2>12, <2>13 DEF AccountPlanNext
<1>6. AccountPlanNext \/ UNCHANGED planVars
  BY DEF Next, Shared, KillRetirement, vars
<1>7. UNCHANGED planVars => journal' = journal
  BY DEF planVars
<1> QED
  BY <1>1, <1>2, <1>4, <1>5, <1>6, <1>7, Touched

(* The account steps of a plan that is being carried out in order.         *)
LEMMA OrderedStays ==
    Located /\ Calling /\ Directed /\ Journaling /\ Ordered /\ [Next]_vars => Ordered'
<1> SUFFICES ASSUME Located, Calling, Directed, Journaling, Ordered, [Next]_vars,
                    command' = "apply-accounts", pc' \in Writing
             PROVE  seen' \in [Users -> People \cup {Absent}] /\ Progress' /\ \A u \in Accounts : Asked(u)'
  BY DEF Ordered
<1>a. Accounts \subseteq Users /\ NoCall.to = <<"none">>
  BY DEF Users, NoCall
<1>b. command = "apply-accounts" /\ pc \in Writing =>
        /\ seen \in [Users -> People \cup {Absent}] /\ Progress /\ \A u \in Accounts : Asked(u)
  BY DEF Ordered
<1>c. command = "apply-accounts" => Listed \subseteq Accounts
  BY Running
<1>d. pc = "deactivate" => pc \in Writing
  BY DEF Writing
(* Nothing of the plan changes.                                            *)
<1>1. ASSUME command = "apply-accounts", pc \in Writing, pc' = pc, UNCHANGED planVars,
             revoked' = TRUE \/ (revoked' = revoked /\ \A u \in Users : Alike(u)),
             call' = call \/ (call'.to = call.to /\ call'.state # "served")
      PROVE  seen' \in [Users -> People \cup {Absent}] /\ Progress' /\ \A u \in Accounts : Asked(u)'
  <2>1. /\ UNCHANGED <<plan, journal, seen, todo, Listed, Missing(plan, seen)>>
        /\ \A u : Priority(u)' = Priority(u)
    BY <1>1 DEF planVars, Listed, Missing, Priority
  <2>2. ~revoked' => /\ ~revoked /\ Administrators(directory') = Administrators(directory)
                     /\ \A u \in Users : Alike(u)
    BY <1>1, AlikeKeeps
  <2>3. \A u \in Listed : WrittenOut(u) => WrittenOut(u)'
    BY <1>a, <1>c, <1>1, <2>1, <2>2 DEF WrittenOut, Alike
  <2>4. Progress'
    BY <1>b, <1>1, <2>1, <2>3 DEF Progress
  <2>5. \A u \in Accounts : Asked(u)'
    BY <1>a, <1>b, <1>1, <2>1, <2>2 DEF Asked, Conforms, Alike
  <2> QED
    BY <1>b, <1>1, <2>1, <2>4, <2>5
<1>2. CASE (Shared \/ KillRetirement \/ ProxyNext \/ SyncNext) /\ UNCHANGED planVars
  <2>1. pc' \notin Grouping
    BY DEF Writing, Grouping
  <2>2. UNCHANGED <<command, pc>> /\ (call' = call \/ (call'.to = call.to /\ call'.state # "served"))
    BY <1>2, <2>1, AsidePlan
  <2>3. (ServePlan \/ ServeDirectory) => (UNCHANGED directory /\ revoked' = revoked)
    <3>1. CASE ServePlan \/ ServeDirectory
      <4>1. call' = [call EXCEPT !.state = "served"] \/ call' = [call EXCEPT !.state = "rejected"]
        BY <3>1 DEF ServePlan, ServeDirectory, Update
      <4>2. call = [to |-> call.to, state |-> call.state] /\ call.state = "sent"
        BY <3>1 DEF Calling, ServePlan, ServeDirectory
      <4>3. call' = [call EXCEPT !.state = "rejected"]
        BY <2>2, <4>1, <4>2
      <4>4. [call EXCEPT !.state = "rejected"] # [call EXCEPT !.state = "served"]
        BY <4>2
      <4> QED
        BY <3>1, <4>3, <4>4 DEF ServePlan, ServeDirectory, Update
    <3> QED
      BY <3>1
  <2>4. revoked' = TRUE \/ (revoked' = revoked /\ \A u \in Users : Alike(u))
    BY <2>3, Touched DEF Alike
  <2> QED
    BY <1>1, <1>2, <2>2, <2>4
<1>3. CASE AccountPlanNext
  <2>a. ASSUME ~ServePlan PROVE UNCHANGED <<directory, revoked>>
    BY <1>3, <2>a DEF AccountPlanNext, OpenPlan, StartGroups, GroupsEnsured, ReadDirectory, ReadFails, WriteAccount,
       AccountWritten, SetPassword, PasswordSet, Deactivate, Deactivated, StartDeactivation, CompletePlan,
       RequestFails, KillPlan, CancelPlan, directoryVars
  <2>1. CASE (\E p \in Plans : OpenPlan(p)) \/ StartGroups \/ GroupsEnsured \/ ReadFails
               \/ CompletePlan \/ RequestFails \/ KillPlan \/ CancelPlan
    BY <2>1 DEF OpenPlan, Begin, StartGroups, GroupsEnsured, Goto, ReadFails, CompletePlan, RequestFails, KillPlan,
       EndPlan, End, CancelPlan, directoryVars, Writing
  <2>2. CASE ReadDirectory
    <3>1. call = NoCall
      BY <2>2 DEF ReadDirectory, Calling, About, Parts, Undoing
    <3>2. pc' = "accounts" /\ seen' = directory /\ todo' = Listed /\ call' = NoCall /\ plan' = plan
      BY <2>2, <3>1 DEF ReadDirectory, EndPlan, End, Goto, Listed
    <3>3. Progress' /\ \A u \in Accounts : Asked(u)'
      BY <1>a, <3>2, StepNames DEF Progress, Asked, Listed
    <3> QED
      BY <3>2, <3>3 DEF Directed
  (* A request leaves.                                                     *)
  <2>3. ASSUME NEW u \in Accounts, NEW k \in {"account", "password", "deactivate"}, command = "apply-accounts",
               pc \in Writing, Request(<<k, u>>, k), UNCHANGED <<plan, seen, todo>>, ~ServePlan,
               u \in todo, pc = "deactivate" <=> k = "deactivate",
               k = "account" => \A v \in todo : Priority(u) <= Priority(v),
               k = "password" => journal.steps[<<"account", u>>] = "complete"
        PROVE  seen' \in [Users -> People \cup {Absent}] /\ Progress' /\ \A v \in Accounts : Asked(v)'
    <3>1. journal \in Journals(Fingerprints) /\ journal' = StartStep(journal, <<k, u>>) /\ <<k, u>> \in PlanSteps
      BY <2>3, Running, StepNames DEF Request
    <3>2. \A x \in PlanSteps : journal'.steps[x] = IF x = <<k, u>> THEN "running" ELSE journal.steps[x]
      BY <3>1, Starting
    <3>3. pc' = k /\ call'.to = <<k, u>> /\ call'.state = "sent" /\ UNCHANGED <<directory, revoked>>
      BY <2>a, <2>3 DEF Request, Goto, CallTo
    <3>4. UNCHANGED <<Listed, Missing(plan, seen)>> /\ \A v : Priority(v)' = Priority(v)
      BY <2>3 DEF Listed, Missing, Priority
    <3>5. \A v \in Accounts : <<"account", v>> # <<k, u>> => journal'.steps[<<"account", v>>] = journal.steps[<<"account", v>>]
      BY <3>2, StepNames
    <3>6. \A v \in Listed : <<"account", v>> # <<k, u>> /\ WrittenOut(v) => WrittenOut(v)'
      BY <1>c, <2>3, <3>3, <3>5 DEF WrittenOut
    <3>7. \A v \in Accounts : <<"deactivate", v>> # <<k, u>> =>
            journal'.steps[<<"deactivate", v>>] = journal.steps[<<"deactivate", v>>]
      BY <3>2, StepNames
    <3>8. Progress'
      <4>1. CASE k = "deactivate"
        <5>1. \A v \in Missing(plan, seen) \ todo : v \in Accounts /\ <<"deactivate", v>> # <<k, u>>
          BY <2>3, StepNames DEF Missing
        <5>2. \A v \in Listed : WrittenOut(v)'
          BY <1>b, <2>3, <3>6, <4>1, StepNames DEF Progress
        <5> QED
          BY <1>b, <2>3, <3>3, <3>4, <3>7, <4>1, <5>1, <5>2 DEF Progress
      <4>2. CASE k # "deactivate"
        <5>1. \A v \in Listed \ todo : <<"account", v>> # <<k, u>>
          BY <2>3, StepNames
        <5> QED
          BY <1>b, <2>3, <3>3, <3>4, <3>6, <4>2, <5>1 DEF Progress
      <4> QED
        BY <4>1, <4>2
    <3>9. ASSUME NEW v \in Accounts PROVE Asked(v)'
      <4>1. CASE v = u
        BY <2>3, <3>3, <3>4, <3>5, <4>1, StepNames DEF Asked
      <4>2. CASE v # u
        BY <3>3, <4>2, StepNames DEF Asked
      <4> QED
        BY <4>1, <4>2
    <3> QED
      BY <1>b, <2>3, <3>8, <3>9
  (* No request is under way, and an account may be done.                  *)
  <2>4. ASSUME NEW u \in Accounts, command = "apply-accounts", pc \in Writing, pc' = "accounts", pc # "deactivate",
               UNCHANGED <<plan, seen>>, call' = NoCall, todo' = todo \ {u}, ~ServePlan,
               \A v \in Accounts : journal.steps[<<"account", v>>] = "complete" => journal'.steps[<<"account", v>>] = "complete",
               journal'.steps[<<"account", u>>] = "complete",
               ~revoked => plan.accounts[u].password \in {"unset", directory[u].password}
        PROVE  seen' \in [Users -> People \cup {Absent}] /\ Progress' /\ \A v \in Accounts : Asked(v)'
    <3>1. UNCHANGED <<directory, revoked, Listed>>
      BY <2>a, <2>4 DEF Listed
    <3>2. \A v \in Listed \ todo : WrittenOut(v)'
      BY <1>b, <1>c, <2>4, <3>1 DEF Progress, WrittenOut
    <3>3. WrittenOut(u)'
      BY <2>4, <3>1 DEF WrittenOut
    <3>4. Progress'
      BY <1>b, <2>4, <3>1, <3>2, <3>3 DEF Progress
    <3>5. \A v \in Accounts : Asked(v)'
      BY <1>a, <2>4, StepNames, ZenonT(40) DEF Asked
    <3> QED
      BY <1>b, <2>4, <3>4, <3>5
  <2>5. CASE \E u \in Accounts : WriteAccount(u)
    <3>1. PICK u \in Accounts : WriteAccount(u)
      BY <2>5
    <3>2. /\ command = "apply-accounts" /\ pc = "accounts" /\ pc \in Writing /\ call = NoCall
          /\ u \in todo /\ (\A v \in todo : Priority(u) <= Priority(v)) /\ ~EndPlan
      BY <3>1 DEF WriteAccount, Writing, EndPlan, End
    <3>3. ~ServePlan
      BY <3>2 DEF ServePlan, NoCall
    <3>4. CASE ~StepComplete(journal, <<"account", u>>)
      BY <2>3, <3>1, <3>2, <3>3, <3>4 DEF WriteAccount
    <3>5. CASE StepComplete(journal, <<"account", u>>)
      <4>1. journal.steps[<<"account", u>>] = "complete"
        BY <3>5 DEF StepComplete
      <4>2. CASE PasswordDue(u)
        BY <2>3, <3>1, <3>2, <3>3, <3>5, <4>1, <4>2 DEF WriteAccount
      <4>3. CASE ~PasswordDue(u)
        <5>1. /\ todo' = todo \ {u} /\ UNCHANGED <<journal, call, command, commands, pc, plan, seen>>
          BY <3>1, <3>2, <3>5, <4>3 DEF WriteAccount
        <5> QED
          BY <2>4, <3>2, <3>3, <4>1, <4>3, <5>1 DEF PasswordDue
      <4> QED
        BY <4>2, <4>3
    <3> QED
      BY <3>4, <3>5
  <2>6. CASE \E u \in Accounts : AccountWritten(u)
    <3>1. PICK u \in Accounts : AccountWritten(u)
      BY <2>6
    <3>2. command = "apply-accounts" /\ pc = "account" /\ pc \in Writing /\ ~ServePlan
      BY <3>1, Targets, Whose DEF AccountWritten, Answered, Writing, ServePlan
    <3>3. journal \in Journals(Fingerprints) /\ journal' = CompleteStep(journal, <<"account", u>>) /\ <<"account", u>> \in PlanSteps
      BY <3>1, <3>2, Running, StepNames DEF AccountWritten
    <3>4. \A x \in PlanSteps : journal'.steps[x] = IF x = <<"account", u>> THEN "complete" ELSE journal.steps[x]
      BY <3>3, Completing
    <3>5. /\ journal'.steps[<<"account", u>>] = "complete"
          /\ \A v \in Accounts : journal.steps[<<"account", v>>] = "complete" => journal'.steps[<<"account", v>>] = "complete"
      BY <3>4, StepNames
    <3>6. u \in todo
      BY <1>b, <3>1, <3>2 DEF AccountWritten, Answered, Asked
    <3>7. CASE PasswordDue(u)
      <4>1. /\ UNCHANGED <<directory, revoked, plan, seen, todo>> /\ pc' = "password"
            /\ call'.to = <<"password", u>> /\ call'.state = "unsent"
        BY <3>1, <3>7 DEF AccountWritten, Unsent, Goto
      <4>2. \A v \in Listed : WrittenOut(v) => WrittenOut(v)'
        BY <1>c, <3>2, <3>5, <4>1 DEF WrittenOut
      <4>3. Progress'
        BY <1>b, <3>2, <4>1, <4>2 DEF Progress, Listed
      <4>4. ASSUME NEW v \in Accounts PROVE Asked(v)'
        BY <3>5, <3>6, <4>1, StepNames DEF Asked
      <4> QED
        BY <1>b, <3>2, <4>1, <4>3, <4>4
    <3>8. CASE ~PasswordDue(u)
      <4>1. UNCHANGED <<plan, seen>> /\ pc' = "accounts" /\ call' = NoCall /\ todo' = todo \ {u}
        BY <3>1, <3>8 DEF AccountWritten, Goto
      <4> QED
        BY <2>4, <3>2, <3>5, <3>8, <4>1 DEF PasswordDue
    <3> QED
      BY <3>7, <3>8
  <2>7. CASE \E u \in Accounts : SetPassword(u)
    <3>1. PICK u \in Accounts : SetPassword(u)
      BY <2>7
    <3>2. call.to = <<"password", u>> /\ call.state = "unsent"
      BY <3>1 DEF SetPassword, Unsent
    <3>3. command = "apply-accounts" /\ pc = "password" /\ pc \in Writing /\ ~ServePlan
      BY <3>2, Targets, Whose DEF Writing, ServePlan
    <3>4. u \in todo /\ journal.steps[<<"account", u>>] = "complete"
      BY <1>b, <3>2, <3>3 DEF Asked
    <3>5. Request(<<"password", u>>, "password") /\ UNCHANGED <<plan, seen, todo>>
      BY <3>1 DEF SetPassword
    <3> QED
      BY <2>3, <3>3, <3>4, <3>5
  <2>8. CASE \E u \in Accounts : PasswordSet(u)
    <3>1. PICK u \in Accounts : PasswordSet(u)
      BY <2>8
    <3>2. command = "apply-accounts" /\ pc = "password" /\ pc \in Writing /\ ~ServePlan
      BY <3>1, Targets, Whose DEF PasswordSet, Answered, Writing, ServePlan
    <3>3. journal \in Journals(Fingerprints) /\ journal' = CompleteStep(journal, <<"password", u>>) /\ <<"password", u>> \in PlanSteps
      BY <3>1, <3>2, Running, StepNames DEF PasswordSet
    <3>4. \A x \in PlanSteps : journal'.steps[x] = IF x = <<"password", u>> THEN "complete" ELSE journal.steps[x]
      BY <3>3, Completing
    <3>5. \A v \in Accounts : journal'.steps[<<"account", v>>] = journal.steps[<<"account", v>>]
      BY <3>4, StepNames
    <3>6. /\ journal.steps[<<"account", u>>] = "complete"
          /\ ~revoked => plan.accounts[u].password = directory[u].password
      BY <1>b, <3>1, <3>2 DEF PasswordSet, Answered, Asked
    <3>7. UNCHANGED <<plan, seen>> /\ pc' = "accounts" /\ call' = NoCall /\ todo' = todo \ {u}
      BY <3>1 DEF PasswordSet, Goto
    <3> QED
      BY <2>4, <3>2, <3>5, <3>6, <3>7
  <2>9. CASE StartDeactivation
    <3>1. /\ command = "apply-accounts" /\ pc = "accounts" /\ pc \in Writing /\ call' = NoCall /\ todo = {}
          /\ pc' = "deactivate" /\ todo' = Missing(plan, seen)
          /\ UNCHANGED <<directory, revoked, plan, journal, seen>>
      BY <2>9 DEF StartDeactivation, Goto, Writing
    <3>2. \A v \in Listed : WrittenOut(v)'
      BY <1>b, <3>1 DEF Progress, WrittenOut
    <3>3. UNCHANGED <<Listed, Missing(plan, seen)>>
      BY <3>1 DEF Listed, Missing
    <3>4. Progress'
      BY <3>1, <3>2, <3>3 DEF Progress
    <3>5. \A v \in Accounts : Asked(v)'
      BY <1>a, <3>1, StepNames DEF Asked
    <3> QED
      BY <1>b, <3>1, <3>4, <3>5
  (* An account is deactivated.                                            *)
  <2>10. ASSUME NEW u \in Accounts, command = "apply-accounts", pc = "deactivate", pc' = pc,
                UNCHANGED <<plan, seen, directory, revoked>>, call' = NoCall, todo' = todo \ {u},
                \A v \in Accounts : journal'.steps[<<"account", v>>] = journal.steps[<<"account", v>>],
                \A v \in Accounts : journal.steps[<<"deactivate", v>>] = "complete" => journal'.steps[<<"deactivate", v>>] = "complete",
                journal'.steps[<<"deactivate", u>>] = "complete"
         PROVE  seen' \in [Users -> People \cup {Absent}] /\ Progress' /\ \A v \in Accounts : Asked(v)'
    <3>1. UNCHANGED <<Listed, Missing(plan, seen)>> /\ Missing(plan, seen) \subseteq Accounts
      BY <2>10 DEF Listed, Missing
    <3>2. \A v \in Listed : WrittenOut(v)'
      BY <1>b, <1>c, <1>d, <2>10 DEF Progress, WrittenOut
    <3>3. Progress'
      BY <1>b, <1>d, <2>10, <3>1, <3>2 DEF Progress
    <3>4. \A v \in Accounts : Asked(v)'
      BY <1>a, <2>10, StepNames DEF Asked
    <3> QED
      BY <1>b, <1>d, <2>10, <3>3, <3>4
  <2>11. CASE \E u \in Accounts : Deactivate(u)
    <3>1. PICK u \in Accounts : Deactivate(u)
      BY <2>11
    <3>2. /\ command = "apply-accounts" /\ pc = "deactivate" /\ pc \in Writing /\ call = NoCall
          /\ u \in todo /\ ~ServePlan /\ UNCHANGED <<directory, revoked, plan, seen>>
      BY <3>1 DEF Deactivate, Writing, ServePlan, NoCall
    <3>3. CASE StepComplete(journal, <<"deactivate", u>>)
      BY <2>10, <3>1, <3>2, <3>3 DEF Deactivate, StepComplete
    <3>4. CASE ~StepComplete(journal, <<"deactivate", u>>)
      <4>1. Request(<<"deactivate", u>>, "deactivate") /\ UNCHANGED todo
        BY <3>1, <3>4 DEF Deactivate
      <4> QED
        BY <2>3, <3>2, <4>1
    <3> QED
      BY <3>3, <3>4
  <2>12. CASE \E u \in Accounts : Deactivated(u)
    <3>1. PICK u \in Accounts : Deactivated(u)
      BY <2>12
    <3>2. command = "apply-accounts" /\ pc = "deactivate"
      BY <3>1, Targets, Whose DEF Deactivated, Answered, Writing
    <3>3. journal \in Journals(Fingerprints) /\ journal' = CompleteStep(journal, <<"deactivate", u>>) /\ <<"deactivate", u>> \in PlanSteps
      BY <3>1, <3>2, Running, StepNames DEF Deactivated
    <3>4. \A x \in PlanSteps : journal'.steps[x] = IF x = <<"deactivate", u>> THEN "complete" ELSE journal.steps[x]
      BY <3>3, Completing
    <3>5. /\ journal'.steps[<<"deactivate", u>>] = "complete"
          /\ \A v \in Accounts : journal'.steps[<<"account", v>>] = journal.steps[<<"account", v>>]
          /\ \A v \in Accounts : journal.steps[<<"deactivate", v>>] = "complete" => journal'.steps[<<"deactivate", v>>] = "complete"
      BY <3>4, StepNames
    <3> QED
      BY <2>10, <3>1, <3>2, <3>5 DEF Deactivated
  <2>13. CASE ServePlan
    <3>1. /\ command = "apply-accounts" /\ pc \in Writing /\ pc' = pc
          /\ UNCHANGED <<plan, journal, seen, todo, revoked>> /\ call'.to = call.to
      BY <2>13, Served DEF planVars
    <3>2. PICK u \in Accounts :
            /\ \A v \in Users \ {u} : directory'[v] = directory[v]
            /\ \/ directory'[u] = directory[u] /\ call'.state = "rejected"
               \/ call'.state = "served" /\ directory'[u] \in People
            /\ \/ /\ pc = "account" /\ call.to = <<"account", u>> /\ u \in Listed
                  /\ call'.state = "served" => /\ directory'[u].active = plan.accounts[u].active
                                               /\ directory'[u].roles = RolesOf(plan.accounts[u])
               \/ /\ pc = "password" /\ call.to = <<"password", u>> /\ u \in Listed
                  /\ call'.state = "served" => directory'[u].password = plan.accounts[u].password
               \/ /\ pc = "deactivate" /\ call.to = <<"deactivate", u>> /\ u \in Missing(plan, seen)
                  /\ call'.state = "served" => ~directory'[u].active
      BY <2>13, Served
    <3>3. UNCHANGED <<Listed, Missing(plan, seen)>> /\ \A v : Priority(v)' = Priority(v)
      BY <3>1 DEF Listed, Missing, Priority
    <3>4. \A v \in Listed : v # u /\ WrittenOut(v) => WrittenOut(v)'
      BY <1>a, <1>c, <3>1, <3>2 DEF WrittenOut
    <3>5. Progress'
      <4>1. CASE pc = "deactivate"
        <5>1. u \notin Listed
          BY <3>2, <4>1 DEF Missing, Listed
        <5> QED
          BY <1>b, <3>1, <3>3, <3>4, <4>1, <5>1 DEF Progress
      <4>2. CASE pc # "deactivate"
        <5>1. u \in todo
          BY <1>b, <3>1, <3>2, <4>2 DEF Asked
        <5> QED
          BY <1>b, <3>1, <3>3, <3>4, <4>2, <5>1 DEF Progress
      <4> QED
        BY <4>1, <4>2
    <3>6. ASSUME NEW v \in Accounts PROVE Asked(v)'
      <4>1. CASE v # u
        BY <3>1, <3>2, <4>1, StepNames DEF Asked
      <4>2. CASE v = u
        <5>0. u \in Users /\ (call'.state = "served" => directory'[u].known)
          BY <1>a, <3>2 DEF People
        <5>1. CASE call.to = <<"account", u>>
          BY <1>b, <3>1, <3>2, <3>3, <4>2, <5>0, <5>1, StepNames DEF Asked, Conforms
        <5>2. CASE call.to = <<"password", u>>
          BY <1>b, <3>1, <3>2, <3>3, <4>2, <5>2, StepNames DEF Asked
        <5>3. CASE call.to = <<"deactivate", u>>
          BY <1>b, <3>1, <3>2, <3>3, <4>2, <5>3, StepNames DEF Asked, Administrators
        <5> QED
          BY <3>2, <5>1, <5>2, <5>3
      <4> QED
        BY <4>1, <4>2
    <3> QED
      BY <1>b, <3>1, <3>5, <3>6
  <2> QED
    BY <1>3, <2>1, <2>2, <2>5, <2>6, <2>7, <2>8, <2>9, <2>11, <2>12, <2>13 DEF AccountPlanNext
<1>4. CASE UNCHANGED vars
  <2>1. \A u \in Users : Alike(u)
    BY <1>4 DEF vars, directoryVars, Alike
  <2> QED
    BY <1>1, <1>4, <2>1 DEF vars, directoryVars
<1>5. Shared \/ KillRetirement => UNCHANGED planVars
  BY DEF Shared, KillRetirement
<1>6. UNCHANGED <<planVars, syncVars>> => UNCHANGED planVars
  OBVIOUS
<1>7. UNCHANGED <<planVars, proxyVars>> => UNCHANGED planVars
  OBVIOUS
<1> QED
  BY <1>2, <1>3, <1>4, <1>5, <1>6, <1>7, Zenon DEF Next

(* Nobody takes the administrators away but the plan, in order.            *)
LEMMA RemainingStays ==
    Located /\ Calling /\ Directed /\ Journaling /\ Ordered /\ Remaining /\ [Next]_vars => Remaining'
<1> SUFFICES ASSUME Located, Calling, Directed, Journaling, Ordered, Remaining, [Next]_vars, ~revoked'
             PROVE  /\ command' = "apply-accounts" /\ pc' \in Writing => PlanRemains'
                    /\ command' = "retire-bootstrap" => Administrators(directory') \cap Accounts # {}
  BY DEF Remaining
<1>a. Accounts \subseteq Users /\ \A u \in Accounts : u # "akadmin"
  BY AccountsAssumption DEF Users
<1>1. ASSUME command' = "retire-bootstrap" PROVE Administrators(directory') \cap Accounts # {}
  <2>1. CASE Retire
    BY <2>1 DEF Retire, Retirable
  <2>2. CASE ~Retire
    <3>1. command = "retire-bootstrap"
      <4>1. Shared => command' = command \/ command' = "none"
        BY <2>2 DEF Shared, EnsureGroups, WriteRole, RoleWritten, AddBootstrapAdministrator,
           BootstrapAdministratorAdded, ServeDirectory, Retired, End, Edit
      <4>2. AccountPlanNext => command' \in {command, "none", "apply-accounts"}
        BY DEF AccountPlanNext, OpenPlan, Begin, StartGroups, GroupsEnsured, ReadDirectory, ReadFails, WriteAccount,
           AccountWritten, SetPassword, PasswordSet, Deactivate, Deactivated, StartDeactivation, CompletePlan,
           ServePlan, RequestFails, KillPlan, CancelPlan, EndPlan, End, Goto, Request, directoryVars
      <4>3. ProxyNext => command' \in {command, "none", "bootstrap"}
        BY DEF ProxyNext, Bootstrap, Begin, Stage, StageFails, Finish, WritePart, PartWritten, StartRollback, Discover,
           DiscoveryFails, Undo, UndoAnswered, Retry, ServeProxy, EditProxy, KillBootstrap, EndBootstrap, End, Goto
      <4>4. SyncNext => command' \in {command, "none", "sync-syncthing"}
        BY DEF SyncNext, StartSync, Begin, Prepare, Refuse, Mutated, VerifyAndCommit, Record, Forget, Put, Delete,
           StopSync, EditSyncthing, End, Goto
      <4> QED
        BY <1>1, <4>1, <4>2, <4>3, <4>4 DEF Next, KillRetirement, End, vars, directoryVars
    <3>2. ~ServePlan
      BY <3>1, Served
    <3>3. ~revoked
      BY <3>2, Touched DEF ServeDirectory
    <3>4. PICK u \in Accounts : u \in Administrators(directory)
      BY <3>1, <3>3 DEF Remaining
    <3>5. CASE ServeDirectory
      <4>1. directory'[u] = directory[u]
        BY <1>a, <3>5 DEF ServeDirectory, Update, Directed
      <4> QED
        BY <3>4, <4>1 DEF Administrators
    <3>6. CASE \A v \in Users : Alike(v)
      BY <3>4, <3>6, AlikeKeeps
    <3> QED
      BY <3>2, <3>5, <3>6, Touched
  <2> QED
    BY <2>1, <2>2
<1>2. ASSUME command' = "apply-accounts", pc' \in Writing PROVE PlanRemains'
  <2>1. ASSUME command = "apply-accounts", pc \in Writing, UNCHANGED <<plan, seen>>, \A u \in Users : Alike(u), revoked' = revoked
        PROVE  PlanRemains'
    <3>1. UNCHANGED <<Listed, Missing(plan, seen)>> /\ Administrators(directory') = Administrators(directory)
      BY <2>1, AlikeKeeps DEF Listed, Missing
    <3> QED
      BY <2>1, <3>1 DEF Remaining, PlanRemains, Alike
  <2>2. CASE ServePlan
    <3>1. /\ command = "apply-accounts" /\ pc \in Writing /\ UNCHANGED <<plan, seen, revoked>>
      BY <2>2, Served DEF planVars
    <3>2. UNCHANGED <<Listed, Missing(plan, seen)>>
      BY <3>1 DEF Listed, Missing
    <3>3. PICK u \in Accounts :
            /\ \A v \in Users \ {u} : directory'[v] = directory[v]
            /\ \/ u \in Listed
               \/ /\ u \in Missing(plan, seen) /\ directory'[u].known = directory[u].known
                  /\ directory'[u].managed = directory[u].managed
      BY <2>2, Served
    <3>4. \A v \in Administrators(directory) : v \notin Listed \cup Missing(plan, seen) =>
             v \in Administrators(directory')
      BY <3>3 DEF Administrators
    <3>5. PlanRemains
      BY <3>1 DEF Remaining
    <3> QED
      BY <3>1, <3>2, <3>3, <3>4, <3>5 DEF PlanRemains
  <2>3. CASE ~ServePlan /\ ~ReadDirectory
    <3>1. command = "apply-accounts" /\ pc \in Writing /\ UNCHANGED <<plan, seen>>
      <4>1. CASE AccountPlanNext
        <5>1. CASE (\E p \in Plans : OpenPlan(p)) \/ StartGroups \/ GroupsEnsured \/ ReadFails
                     \/ CompletePlan \/ RequestFails \/ KillPlan \/ CancelPlan
          BY <1>2, <5>1 DEF OpenPlan, Begin, StartGroups, GroupsEnsured, Goto, ReadFails, CompletePlan, RequestFails,
             KillPlan, EndPlan, End, CancelPlan, directoryVars, Writing
        <5>2. CASE StartDeactivation \/ \E u \in Accounts : WriteAccount(u) \/ Deactivate(u)
          BY <1>2, <5>2 DEF StartDeactivation, WriteAccount, Deactivate, EndPlan, End, Writing
        <5>3. CASE \E u \in Accounts : AccountWritten(u) \/ SetPassword(u) \/ PasswordSet(u) \/ Deactivated(u)
          <6>1. pc \in Writing
            BY <5>3, Targets DEF AccountWritten, SetPassword, PasswordSet, Deactivated, Answered, Unsent, Writing
          <6> QED
            BY <5>3, <6>1, Whose DEF AccountWritten, SetPassword, PasswordSet, Deactivated
        <5> QED
          BY <2>3, <4>1, <5>1, <5>2, <5>3 DEF AccountPlanNext
      <4>2. CASE (Shared \/ KillRetirement \/ ProxyNext \/ SyncNext) /\ UNCHANGED planVars
        <5>1. pc' \notin Grouping
          BY <1>2 DEF Writing, Grouping
        <5> QED
          BY <1>2, <4>2, <5>1, AsidePlan DEF planVars
      <4>3. CASE UNCHANGED vars
        BY <1>2, <4>3 DEF vars, directoryVars, planVars
      <4>4. Shared \/ KillRetirement => UNCHANGED planVars
        BY DEF Shared, KillRetirement
      <4>5. (UNCHANGED <<planVars, syncVars>> => UNCHANGED planVars) /\ (UNCHANGED <<planVars, proxyVars>> => UNCHANGED planVars)
        OBVIOUS
      <4> QED
        BY <4>1, <4>2, <4>3, <4>4, <4>5, Zenon DEF Next
    <3>2. ~ServeDirectory
      <4>1. ServeDirectory => pc \in {"roles", "member", "retire"}
        BY Targets DEF ServeDirectory
      <4> QED
        BY <3>1, <4>1 DEF Writing
    <3> QED
      BY <2>1, <2>3, <3>1, <3>2, Touched
  <2>4. CASE ReadDirectory
    <3>1. /\ Resulting(plan, directory) # {} /\ seen' = directory /\ UNCHANGED <<plan, directory, revoked>>
          /\ command = "apply-accounts"
      BY <1>2, <2>4 DEF ReadDirectory, EndPlan, End, Writing
    <3>2. PICK v : v \in Resulting(plan, directory)
      BY <3>1
    <3>3. \/ \E w \in Listed : plan.accounts[w].admin
          \/ v \in Administrators(directory) /\ v \notin Listed \cup Missing(plan, directory)
      BY <3>2 DEF Resulting, Listed
    <3>4. Listed' = Listed /\ Missing(plan, seen)' = Missing(plan, directory)
      BY <3>1 DEF Listed, Missing
    <3>5. \/ \E w \in Listed' : plan'.accounts[w].admin
          \/ \E w \in Administrators(directory') : w \notin Listed' \cup Missing(plan, seen)'
      BY <3>1, <3>3, <3>4
    <3>6. \A u \in Users \ Listed' : directory'[u].known /\ directory'[u].managed => seen'[u].known /\ seen'[u].managed
      BY <3>1
    <3> QED
      BY <3>5, <3>6 DEF PlanRemains
  <2> QED
    BY <2>2, <2>3, <2>4
<1> QED
  BY <1>1, <1>2

-----------------------------------------------------------------------------
(* The inductive invariant.                                                *)
IInv ==
    /\ Located /\ Calling /\ Directed
    /\ Synced /\ (faults <= 1 => Tracking)
    /\ Staged
    /\ Journaling /\ Ordered /\ Carried /\ Remaining

LEMMA IdleHolds ==
    ASSUME command = "none", pc = "idle", call = NoCall, PlanInit, faults = 0, revoked = FALSE,
           directory \in [Users -> People \cup {Absent}],
           Coherent(objects), before = objects, attempted = {}, committed = {}, broken = FALSE,
           live \subseteq Objects, made = live, owned = live, sjournal = NoSyncJournal, run = NoRun
    PROVE  IInv
<1>0. NoCall = [to |-> NoCall.to, state |-> NoCall.state] /\ NoCall.state = "none" /\ NoSyncJournal.phase = "none"
  BY DEF NoCall, NoSyncJournal
<1>1. Located /\ Calling /\ Directed
  BY <1>0 DEF Located, Commands, Calling, Directed
<1>2. NoRun \in Runs
  BY DEF NoRun, Runs
<1>3. Synced /\ Tracking
  BY <1>0, <1>2 DEF Synced, Recoverable, Tracking, Interrupted
<1>4. Staged
  BY DEF Staged, Proxying, Parts, Undoing
<1>5. Finished(journal) /\ uncertain = {} /\ journal = NoJournal /\ journal.status = "absent"
  BY DEF PlanInit, NoJournal, Finished
<1>6. Journaling
  BY <1>5 DEF Journaling
<1>7. Ordered /\ Carried /\ Remaining
  BY <1>5 DEF Ordered, Carried, Remaining
<1> QED
  BY <1>1, <1>3, <1>4, <1>6, <1>7 DEF IInv

LEMMA InitHolds == Init \/ (\E u \in FirstUsers : Established(u)) => IInv
<1>0. /\ \A active \in BOOLEAN, groups \in SUBSET Reserved, app \in BOOLEAN, managed \in BOOLEAN :
           Person(active, groups, app, managed) \in People
      /\ {} \in SUBSET Reserved /\ {"admins"} \in SUBSET Reserved
  BY DEF Person, People, Reserved
<1>1. ASSUME Init PROVE IInv
  <2>1. directory \in [Users -> People \cup {Absent}]
    BY <1>0, <1>1 DEF Init, DirectoryInit
  <2>2. Coherent(objects)
    BY <1>1 DEF Init, ProxyInit, Coherent, Parts, Versions
  <2> QED
    BY <1>1, <2>1, <2>2, IdleHolds DEF Init, DirectoryInit, ProxyInit, SyncInit
<1>2. ASSUME NEW u \in FirstUsers, Established(u) PROVE IInv
  <2>1. directory \in [Users -> People \cup {Absent}]
    <3>1. directory = [v \in Users |->
            CASE v = "akadmin" -> Person(TRUE, {"admins"}, FALSE, FALSE)
              [] v = u -> Person(TRUE, {"admins"}, FALSE, TRUE)
              [] OTHER -> Absent]
      BY <1>2 DEF Established
    <3>2. u # "akadmin"
      BY <1>2, AccountsAssumption, FirstUsersAssumption
    <3> QED
      BY <1>0, <3>1, <3>2
  <2>2. Coherent(objects)
    BY <1>2 DEF Established, Coherent, Parts, Versions
  <2>3. live \subseteq Objects
    BY <1>2, FirstUsersAssumption DEF Established, Objects
  <2> QED
    BY <1>2, <2>1, <2>2, <2>3, IdleHolds DEF Established
<1> QED
  BY <1>1, <1>2

LEMMA StepHolds == IInv /\ [Next]_vars => IInv'
<1> SUFFICES ASSUME IInv, [Next]_vars PROVE IInv'
  OBVIOUS
<1>1. Located' /\ Calling'
  BY LocatedStays, CallingStays DEF IInv
<1>2. Directed'
  BY DirectedStays DEF IInv
<1>3. Synced' /\ (faults' <= 1 => Tracking')
  BY SyncedStays, TrackingStays DEF IInv, Directed
<1>4. Staged'
  BY StagedStays DEF IInv
<1>5. Journaling' /\ Ordered' /\ Carried' /\ Remaining'
  BY JournalingStays, OrderedStays, CarriedStays, RemainingStays DEF IInv
<1> QED
  BY <1>1, <1>2, <1>3, <1>4, <1>5 DEF IInv

(* The commands of nas-identity-sync, in any order and however often they  *)
(* are killed, keep what each of them relies on.                           *)
THEOREM IdentityInvariant == Spec => []IInv
  BY InitHolds, StepHolds, PTL DEF Spec

(* A plan is cancelled only when no request of it has an unknown outcome   *)
(* (cancel_failed_account_plan).                                           *)
THEOREM IdentityCancelCertain == Spec => []CancelCertain
<1>1. IInv => CancelCertain
  BY DEF IInv, Journaling, CancelCertain
<1> QED
  BY <1>1, IdentityInvariant, PTL

(* A forward-auth transaction that failed and whose rollback did not has   *)
(* left Authentik as it was (_ensure_proxy_application).                   *)
THEOREM IdentityRollbackExact == Spec => []RollbackExact
<1>1. IInv => RollbackExact
  <2> SUFFICES ASSUME IInv, pc = "undone", ~broken PROVE objects = before
    BY DEF RollbackExact
  <2>1. \A p \in Parts : objects[p] = before[p]
    BY DEF IInv, Staged, Undone
  <2>2. objects \in [Parts -> Versions] /\ before \in [Parts -> Versions]
    BY DEF IInv, Staged, Coherent
  <2> QED
    BY <2>1, <2>2
<1> QED
  BY <1>1, IdentityInvariant, PTL

(* What the appliance put into Syncthing stays known to be its own after   *)
(* one interruption (interrupted_syncthing_ownership).                     *)
THEOREM IdentityOwnedTracked == Spec => []OwnedTracked
<1>1. IInv => OwnedTracked
  <2> SUFFICES ASSUME IInv, faults <= 1 PROVE made \subseteq Tracked \cup run.old
    BY DEF OwnedTracked
  <2>1. Tracking /\ Synced /\ Located
    BY DEF IInv
  <2> QED
    BY <2>1 DEF Tracking, Synced, Located, SyncPlaces, Tracked, Committed, Interrupted
<1> QED
  BY <1>1, IdentityInvariant, PTL

(* The journal of an interrupted reconciliation never contradicts the      *)
(* ownership state, so that a later run can resume it.                     *)
THEOREM IdentitySyncResumable == Spec => []SyncResumable
<1>1. IInv => SyncResumable
  BY DEF IInv, Synced, SyncResumable
<1> QED
  BY <1>1, IdentityInvariant, PTL

(* An administrator of the plan who has been written is one.               *)
LEMMA WrittenAdministrator ==
    ASSUME IInv, command = "apply-accounts", ~revoked, NEW v \in Listed, WrittenOut(v), plan.accounts[v].admin
    PROVE  v \in Administrators(directory)
<1>1. /\ v \in Accounts /\ v \in DOMAIN journal.fingerprint.accounts /\ ~Finished(journal)
      /\ plan \in Plans /\ journal.fingerprint = Fingerprint(plan)
  BY Running DEF IInv
<1>2. /\ journal.fingerprint.accounts[v].active = plan.accounts[v].active
      /\ journal.fingerprint.accounts[v].admin = plan.accounts[v].admin
  BY <1>1, FingerprintFacts DEF Listed
<1>3. plan.accounts[v].active = TRUE
  BY <1>1, PlanFacts DEF Listed, AccountWants
<1>4. Conforms(v, journal.fingerprint.accounts[v])
  BY <1>1 DEF IInv, Carried, CarriedOut, WrittenOut
<1> QED
  BY <1>1, <1>2, <1>3, <1>4 DEF Conforms, RolesOf, Administrators, Users

(* No command ever takes the last enabled administrator away, whatever     *)
(* fails and whatever is resumed, as long as nobody disables an account in *)
(* Authentik itself (write_priority, resulting_administrators).            *)
THEOREM IdentityAdminRemains == Spec => AdminRemains
<1>1. ASSUME IInv, [Next]_vars, ~revoked', Administrators(directory) # {}
      PROVE  Administrators(directory') # {}
  <2>a. Accounts \subseteq Users /\ \A u \in Accounts : u # "akadmin"
    BY AccountsAssumption DEF Users
  <2>1. CASE ServePlan
    <3>1. command = "apply-accounts" /\ pc \in Writing /\ UNCHANGED revoked
      BY <1>1, <2>1, Served DEF IInv
    <3>2. PlanRemains /\ Progress /\ ~revoked
      BY <1>1, <3>1 DEF IInv, Remaining, Ordered
    <3>3. PICK u \in Accounts :
            /\ \A v \in Users \ {u} : directory'[v] = directory[v]
            /\ \/ directory'[u] = directory[u]
               \/ call'.state = "served" /\ directory'[u] \in People
            /\ \/ /\ pc = "account" /\ call.to = <<"account", u>> /\ u \in Listed
                  /\ call'.state = "served" => /\ directory'[u].active = plan.accounts[u].active
                                               /\ directory'[u].roles = RolesOf(plan.accounts[u])
               \/ /\ directory'[u].known = directory[u].known
                  /\ directory'[u].active = directory[u].active
                  /\ directory'[u].roles = directory[u].roles
               \/ pc = "deactivate" /\ u \in Missing(plan, seen)
      BY <1>1, <2>1, Served DEF IInv
    <3>4. \A v \in Administrators(directory) : v # u => v \in Administrators(directory')
      BY <3>3 DEF Administrators
    <3>5. CASE directory'[u] = directory[u]
               \/ (directory'[u].known = directory[u].known /\ directory'[u].active = directory[u].active
                   /\ directory'[u].roles = directory[u].roles)
      BY <1>1, <3>4, <3>5 DEF Administrators
    <3>6. ASSUME u \in Listed \cup Missing(plan, seen), NEW v \in Administrators(directory),
                 v \notin Listed \cup Missing(plan, seen)
          PROVE  Administrators(directory') # {}
      BY <3>4, <3>6
    <3>7. CASE /\ pc = "account" /\ call.to = <<"account", u>> /\ u \in Listed
               /\ call'.state = "served" /\ directory'[u] \in People
               /\ directory'[u].active = plan.accounts[u].active
               /\ directory'[u].roles = RolesOf(plan.accounts[u])
      <4>1. CASE plan.accounts[u].admin
        <5>1. plan.accounts[u].active = TRUE
          BY <1>1, <3>1, <3>7, <4>1, Running, PlanFacts DEF IInv, Listed, AccountWants
        <5>2. u \in Administrators(directory')
          BY <2>a, <3>7, <4>1, <5>1 DEF Administrators, RolesOf, People
        <5> QED
          BY <5>2
      <4>2. CASE ~plan.accounts[u].admin /\ \E v \in Listed : plan.accounts[v].admin
        <5>1. PICK v \in Listed : plan.accounts[v].admin
          BY <4>2
        <5>2. Priority(v) = 0 /\ Priority(u) \in {1, 2} /\ v # u
          BY <4>2, <5>1 DEF Priority
        <5>3. \A w \in todo : Priority(u) <= Priority(w)
          BY <1>1, <3>1, <3>7 DEF IInv, Ordered, Asked
        <5>4. v \notin todo
          BY <5>2, <5>3
        <5>5. WrittenOut(v)
          BY <3>2, <3>7, <5>4 DEF Progress
        <5>6. v \in Administrators(directory)
          BY <1>1, <3>1, <3>2, <5>1, <5>5, WrittenAdministrator
        <5> QED
          BY <3>4, <5>2, <5>6
      <4>3. CASE ~\E v \in Listed : plan.accounts[v].admin
        BY <3>2, <3>6, <3>7, <4>3 DEF PlanRemains
      <4> QED
        BY <3>7, <4>1, <4>2, <4>3
    <3>8. CASE pc = "deactivate" /\ u \in Missing(plan, seen)
      <4>1. CASE \E v \in Listed : plan.accounts[v].admin
        <5>1. PICK v \in Listed : plan.accounts[v].admin
          BY <4>1
        <5>2. v # u
          BY <3>8, <5>1 DEF Missing, Listed
        <5>3. WrittenOut(v)
          BY <3>2, <3>8 DEF Progress
        <5>4. v \in Administrators(directory)
          BY <1>1, <3>1, <3>2, <5>1, <5>3, WrittenAdministrator
        <5> QED
          BY <3>4, <5>2, <5>4
      <4>2. CASE ~\E v \in Listed : plan.accounts[v].admin
        BY <3>2, <3>6, <3>8, <4>2 DEF PlanRemains
      <4> QED
        BY <4>1, <4>2
    <3> QED
      BY <3>3, <3>5, <3>7, <3>8
  <2>2. CASE ServeDirectory
    <3>0. /\ directory \in [Users -> People \cup {Absent}] /\ ~revoked /\ "akadmin" \in Users
      BY <1>1, <2>2 DEF IInv, Directed, ServeDirectory, Users
    <3>1. CASE directory' = directory
      BY <1>1, <3>1
    <3>2. CASE directory' = [directory EXCEPT !["akadmin"] = [directory["akadmin"] EXCEPT !.roles = @ \cup {"admins"}]]
               /\ directory["akadmin"].known
      <4>1. directory["akadmin"] \in People
        BY <3>0, <3>2, KnownIsPerson
      <4>2. /\ directory'["akadmin"].known = directory["akadmin"].known
            /\ directory'["akadmin"].active = directory["akadmin"].active
            /\ directory'["akadmin"].roles = directory["akadmin"].roles \cup {"admins"}
        BY <3>0, <3>2, <4>1 DEF People
      <4>3. \A v \in Users \ {"akadmin"} : directory'[v] = directory[v]
        BY <3>0, <3>2
      <4> QED
        BY <1>1, <4>2, <4>3 DEF Administrators
    <3>3. CASE directory' = [directory EXCEPT !["akadmin"] = Absent] /\ call.to = <<"retire">>
      <4>1. command = "retire-bootstrap"
        BY <1>1, <3>3, Targets, Whose DEF IInv
      <4>2. PICK v \in Accounts : v \in Administrators(directory)
        BY <1>1, <3>0, <4>1 DEF IInv, Remaining
      <4>3. directory'[v] = directory[v]
        BY <2>a, <3>0, <3>3
      <4> QED
        BY <4>2, <4>3 DEF Administrators
    <3> QED
      BY <2>2, <3>1, <3>2, <3>3 DEF ServeDirectory, Update
  <2>3. CASE \A u \in Users : Alike(u)
    BY <1>1, <2>3, AlikeKeeps
  <2> QED
    BY <1>1, <2>1, <2>2, <2>3, Touched DEF IInv
<1>2. IInv /\ [Next]_vars => [~revoked' /\ Administrators(directory) # {} => Administrators(directory') # {}]_directory
  BY <1>1
<1> QED
  BY <1>2, IdentityInvariant, PTL DEF Spec, AdminRemains

(* A plan is marked complete only when the directory is as it asks: every  *)
(* account it lists, with this invocation's password, and no administrator *)
(* among the managed accounts it was to deactivate (apply_account_plan).   *)
THEOREM IdentityDoneAsPlanned == Spec => DoneAsPlanned
<1>1. ASSUME IInv, [Next]_vars, journal.status # "complete", journal'.status = "complete" PROVE CompletePlan
  <2>0. Journaling /\ Located /\ Calling
    BY <1>1 DEF IInv
  <2>1. AccountPlanNext
    <3>1. Shared \/ KillRetirement => UNCHANGED planVars
      BY DEF Shared, KillRetirement
    <3>2. UNCHANGED planVars => journal' = journal
      BY DEF planVars
    <3>3. (UNCHANGED <<planVars, syncVars>> => UNCHANGED planVars) /\ (UNCHANGED <<planVars, proxyVars>> => UNCHANGED planVars)
          /\ (UNCHANGED vars => UNCHANGED planVars)
      BY DEF vars
    <3> QED
      BY <1>1, <3>1, <3>2, <3>3, Zenon DEF Next
  <2>2. journal' # journal
    BY <1>1
  <2>3. ASSUME NEW s \in PlanSteps, command = "apply-accounts", journal' \in {StartStep(journal, s), CompleteStep(journal, s)}
        PROVE  FALSE
    <3>1. journal \in Journals(Fingerprints)
      BY <2>0, <2>3, Running
    <3>2. journal'.status \in {"running", journal.status}
      BY <2>3, <3>1, JournalFacts
    <3> QED
      BY <1>1, <3>2
  <2>4. ASSUME command = "apply-accounts", journal' = Fail(journal, FALSE) PROVE FALSE
    <3>1. journal \in Journals(Fingerprints)
      BY <2>0, <2>4, Running
    <3> QED
      BY <1>1, <2>4, <3>1, StatusFacts
  <2>5. CASE \E p \in Plans : OpenPlan(p)
    <3>1. CASE Finished(journal)
      BY <1>1, <2>5, <3>1 DEF OpenPlan, Open
    <3>2. CASE ~Finished(journal)
      <4>1. journal \in Journals(Fingerprints) /\ journal' = [journal EXCEPT !.status = "resuming"]
        BY <2>0, <2>5, <3>2 DEF OpenPlan, Open, Journaling, Finished, NoJournal
      <4> QED
        BY <1>1, <4>1, StatusFacts
    <3> QED
      BY <3>1, <3>2
  <2>6. CASE StartGroups \/ GroupsEnsured
    BY <2>2, <2>3, <2>6, StepNames DEF StartGroups, GroupsEnsured
  <2>7. CASE ReadDirectory \/ ReadFails
    BY <2>2, <2>4, <2>7 DEF ReadDirectory, ReadFails
  <2>8. CASE \E u \in Accounts : WriteAccount(u) \/ SetPassword(u)
    BY <2>2, <2>3, <2>4, <2>8, StepNames DEF WriteAccount, SetPassword, Request
  <2>9. CASE \E u \in Accounts : Deactivate(u)
    BY <2>2, <2>3, <2>9, StepNames DEF Deactivate, Request
  <2>10. CASE \E u \in Accounts : AccountWritten(u) \/ PasswordSet(u) \/ Deactivated(u)
    <3>1. pc \in Writing
      BY <2>0, <2>10, Targets DEF AccountWritten, PasswordSet, Deactivated, Answered, Writing
    <3>2. command = "apply-accounts"
      BY <2>0, <3>1, Whose
    <3> QED
      BY <2>3, <2>10, <3>2, StepNames DEF AccountWritten, PasswordSet, Deactivated
  <2>11. CASE StartDeactivation \/ ServePlan \/ KillPlan
    BY <2>2, <2>11 DEF StartDeactivation, ServePlan, KillPlan, planVars
  <2>12. CASE RequestFails
    <3>1. journal \in Journals(Fingerprints)
      BY <2>0, <2>12, Running DEF RequestFails
    <3>2. journal'.status \in {"failed", "manual-recovery-required"}
      BY <2>12, <3>1 DEF RequestFails, StepFailure, FailStep, Journals
    <3> QED
      BY <1>1, <3>2
  <2>13. CASE CancelPlan
    <3>1. journal \in Journals(Fingerprints)
      BY <2>0, <2>13 DEF CancelPlan, Cancellable, Journaling, NoJournal
    <3> QED
      BY <1>1, <2>13, <3>1, StatusFacts DEF CancelPlan
  <2> QED
    BY <2>1, <2>5, <2>6, <2>7, <2>8, <2>9, <2>10, <2>11, <2>12, <2>13 DEF AccountPlanNext
<1>2. ASSUME IInv, CompletePlan, ~revoked
      PROVE  /\ \A u \in DOMAIN plan.accounts :
                  /\ directory[u].known
                  /\ directory[u].active = plan.accounts[u].active
                  /\ directory[u].roles = RolesOf(plan.accounts[u])
                  /\ plan.accounts[u].password \in {"unset", directory[u].password}
             /\ Administrators(directory) \cap Missing(plan, directory) = {}
  <2>1. command = "apply-accounts" /\ pc = "deactivate" /\ pc \in Writing /\ todo = {}
    BY <1>2 DEF CompletePlan, Writing
  <2>2. /\ Progress /\ PlanRemains /\ ~Finished(journal) /\ plan \in Plans /\ journal.fingerprint = Fingerprint(plan)
        /\ Listed \subseteq Accounts /\ DOMAIN journal.fingerprint.accounts = Listed
        /\ \A u \in Accounts : CarriedOut(u)
    BY <1>2, <2>1, Running DEF IInv, Ordered, Remaining, Carried
  <2>3. ASSUME NEW u \in Listed
        PROVE  /\ Conforms(u, plan.accounts[u])
               /\ plan.accounts[u].password \in {"unset", directory[u].password}
    <3>1. WrittenOut(u)
      BY <2>1, <2>2 DEF Progress
    <3>2. Conforms(u, journal.fingerprint.accounts[u])
      BY <2>2, <3>1 DEF WrittenOut, CarriedOut
    <3>3. /\ journal.fingerprint.accounts[u].active = plan.accounts[u].active
          /\ journal.fingerprint.accounts[u].admin = plan.accounts[u].admin
      BY <2>2, FingerprintFacts DEF Listed
    <3> QED
      BY <1>2, <3>1, <3>2, <3>3 DEF Conforms, RolesOf, WrittenOut
  <2>4. ASSUME NEW u \in Missing(plan, directory) PROVE u \notin Administrators(directory)
    <3>1. u \in Accounts /\ u \in Users \ Listed
      BY DEF Missing, Listed, Users
    <3>2. u \in Missing(plan, seen)
      BY <2>2, <3>1 DEF PlanRemains, Missing
    <3>3. journal.steps[<<"deactivate", u>>] = "complete"
      BY <2>1, <2>2, <3>2 DEF Progress
    <3> QED
      BY <2>2, <3>1, <3>3 DEF CarriedOut
  <2> QED
    BY <2>3, <2>4 DEF Conforms, Listed
<1>3. IInv /\ [Next]_vars =>
        [journal.status # "complete" /\ journal'.status = "complete" /\ ~revoked =>
            /\ \A u \in DOMAIN plan.accounts :
                 /\ directory[u].known
                 /\ directory[u].active = plan.accounts[u].active
                 /\ directory[u].roles = RolesOf(plan.accounts[u])
                 /\ plan.accounts[u].password \in {"unset", directory[u].password}
            /\ Administrators(directory) \cap Missing(plan, directory) = {}]_journal
  BY <1>1, <1>2
<1> QED
  BY <1>3, IdentityInvariant, PTL DEF Spec, DoneAsPlanned

=============================================================================
