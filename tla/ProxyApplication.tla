-------------------------- MODULE ProxyApplication --------------------------
(***************************************************************************)
(* The bootstrap command of nas_identity_sync.py after its groups: one      *)
(* forward-auth application is a provider, an application and an entry in   *)
(* the embedded outpost, written as a staged transaction that is undone     *)
(* when a request fails (_ensure_proxy_application), and tried again a few  *)
(* times.  Of the three applications one is modelled.                       *)
(***************************************************************************)
EXTENDS IdentityDirectory

CONSTANT Attempts       \* BOOTSTRAP_RECONCILE_ATTEMPTS, 4 in the code

VARIABLES
    objects,        \* Authentik's provider, application and outpost entry
    before,         \* the staged snapshot of them
    attempted,      \* objects whose write was attempted in this transaction
    committed,      \* objects whose write is known to be done
    broken,         \* a step of the rollback failed
    attempt

proxyVars == <<objects, before, attempted, committed, broken, attempt>>

Parts == {"provider", "application", "outpost"}
Versions == {"absent", "old", "new"}

\* An outpost that has the provider is "new" and one that has not is "old".
ProxyInit ==
    /\ objects = [provider |-> "absent", application |-> "absent", outpost |-> "old"]
    /\ before = objects
    /\ attempted = {} /\ committed = {} /\ broken = FALSE /\ attempt = 0

\* The command is over, and what it had in memory is gone.
EndBootstrap ==
    /\ End /\ before' = objects
    /\ attempted' = {} /\ committed' = {} /\ broken' = FALSE /\ attempt' = 0
    /\ UNCHANGED objects

Unaffected == UNCHANGED <<directory, roles, edits, revoked>>

-----------------------------------------------------------------------------
(* The transaction. *)

Bootstrap ==
    /\ directory["akadmin"].known
    /\ Begin("bootstrap", "roles")
    /\ attempt' = 1
    /\ Unaffected
    /\ UNCHANGED <<call, faults, objects, before, attempted, committed, broken>>

\* Every read comes before the first write.
Stage ==
    /\ command = "bootstrap" /\ pc = "ensured"
    /\ Goto("provider")
    /\ before' = objects
    /\ attempted' = {} /\ committed' = {} /\ broken' = FALSE
    /\ Unaffected /\ UNCHANGED <<call, faults, objects, attempt>>

\* The default flows or scope mappings do not appear in time, or a read fails:
\* nothing has been written.
StageFails ==
    /\ command = "bootstrap" /\ pc = "ensured" /\ Fault
    /\ Goto("undone")
    /\ before' = objects
    /\ attempted' = {} /\ committed' = {} /\ broken' = FALSE
    /\ Unaffected /\ UNCHANGED <<call, objects, attempt>>

WritePart(part) ==
    /\ command = "bootstrap" /\ pc = part /\ call = NoCall
    /\ \/ part # "outpost"
       \/ before.outpost = "old"
    /\ attempted' = attempted \cup {part}
    /\ call' = CallTo(<<part, "new">>)
    /\ Unaffected
    /\ UNCHANGED <<command, commands, pc, faults, objects, before, committed, broken, attempt>>

Following(part) == IF part = "provider" THEN "application" ELSE "outpost"

PartWritten(part) ==
    /\ command = "bootstrap" /\ pc = part /\ Answered(<<part, "new">>)
    /\ call' = NoCall
    /\ committed' = committed \cup {part}
    /\ IF part = "outpost" THEN Goto("written") ELSE Goto(Following(part))
    /\ Unaffected /\ UNCHANGED <<faults, objects, before, attempted, broken, attempt>>

\* The outpost is left alone when it has the provider already.
Finish ==
    /\ command = "bootstrap" /\ call = NoCall
    /\ pc = "written" \/ (pc = "outpost" /\ before.outpost = "new")
    /\ EndBootstrap
    /\ Unaffected /\ UNCHANGED faults

-----------------------------------------------------------------------------
(* The rollback: look for objects that an unanswered creation may have made,   *)
(* then undo the outpost, the application and the provider, in that order.     *)

Undoing == {"undo-outpost", "undo-application", "undo-provider"}

StartRollback ==
    /\ command = "bootstrap" /\ pc \in Parts /\ Failed
    /\ Goto("discover") /\ call' = NoCall
    /\ Unaffected /\ UNCHANGED <<faults, proxyVars>>

DiscoverNothing == {}

\* Only objects that were not there before are looked for.
Discoverable ==
    {part \in {"provider", "application"} :
        before[part] = "absent" /\ part \in attempted \ committed}

Discover ==
    /\ command = "bootstrap" /\ pc = "discover"
    /\ Goto("undo-outpost")
    /\ committed' = committed \cup
         {part \in Discoverable : objects[part] # "absent"}
    /\ Unaffected /\ UNCHANGED <<call, faults, objects, before, attempted, broken, attempt>>

DiscoveryFails ==
    /\ command = "bootstrap" /\ pc = "discover" /\ Discoverable # {} /\ Fault
    /\ Goto("undo-outpost")
    /\ broken' = TRUE
    /\ Unaffected /\ UNCHANGED <<call, objects, before, attempted, committed, attempt>>

PartOf(place) ==
    CHOOSE part \in Parts : place = [provider |-> "undo-provider",
        application |-> "undo-application", outpost |-> "undo-outpost"][part]

\* An object that was there before is restored as soon as its write was
\* attempted: a PATCH that seems to fail may have been served.  A created one is
\* deleted when it is known to exist.
MustUndo(part) ==
    part \in IF before[part] = "absent" THEN committed ELSE attempted

NextUndo(place) ==
    CASE place = "undo-outpost" -> "undo-application"
      [] place = "undo-application" -> "undo-provider"
      [] place = "undo-provider" -> "undone"

Undo ==
    /\ command = "bootstrap" /\ pc \in Undoing /\ call = NoCall
    /\ IF MustUndo(PartOf(pc))
       THEN call' = CallTo(<<PartOf(pc), before[PartOf(pc)]>>) /\ UNCHANGED <<command, commands, pc>>
       ELSE Goto(NextUndo(pc)) /\ UNCHANGED call
    /\ Unaffected /\ UNCHANGED <<faults, proxyVars>>

UndoAnswered ==
    /\ command = "bootstrap" /\ pc \in Undoing
    /\ call.state \in {"served", "rejected", "lost"}
    /\ broken' = (broken \/ Failed)
    /\ call' = NoCall /\ Goto(NextUndo(pc))
    /\ Unaffected /\ UNCHANGED <<faults, objects, before, attempted, committed, attempt>>

\* bootstrap_identity starts over, groups first, while attempts are left.
Retry ==
    /\ command = "bootstrap"
    /\ \/ pc = "undone"
       \/ pc \in {"roles", "member"} /\ Failed
    /\ IF attempt < Attempts
       THEN /\ attempt' = attempt + 1 /\ Goto("roles") /\ call' = NoCall
            /\ UNCHANGED <<objects, before, attempted, committed, broken>>
       ELSE EndBootstrap
    /\ Unaffected /\ UNCHANGED faults

\* Deleting a provider also takes it out of the outpost.
ServeProxy ==
    /\ call.state = "sent"
    /\ \E part \in Parts, v \in Versions :
         /\ call.to = <<part, v>>
         /\ objects' = [objects EXCEPT ![part] = v,
              !.outpost = IF part = "outpost" THEN v
                          ELSE IF part = "provider" /\ v = "absent" THEN "old" ELSE @]
    /\ call' = [call EXCEPT !.state = "served"]
    /\ Unaffected
    /\ UNCHANGED <<command, commands, pc, faults, before, attempted, committed, broken, attempt>>

\* Somebody changes or deletes the provider or the application in Authentik.
EditProxy ==
    /\ edits < MaxEdits /\ edits' = edits + 1
    /\ command # "bootstrap"
    /\ \E part \in {"provider", "application"}, v \in {"absent", "old"} :
         objects' = [objects EXCEPT ![part] = v, !.outpost =
             IF part = "provider" /\ v = "absent" THEN "old" ELSE @]
    /\ before' = objects'
    /\ UNCHANGED <<command, commands, pc, call, directory, roles, revoked, faults,
                   attempted, committed, broken, attempt>>

KillBootstrap ==
    /\ command = "bootstrap" /\ Fault
    /\ EndBootstrap
    /\ Unaffected

ProxyNext ==
    \/ Bootstrap \/ Stage \/ StageFails \/ Finish
    \/ \E part \in Parts : WritePart(part) \/ PartWritten(part)
    \/ StartRollback \/ Discover \/ DiscoveryFails \/ Undo \/ UndoAnswered
    \/ Retry \/ ServeProxy \/ EditProxy \/ KillBootstrap

-----------------------------------------------------------------------------

\* A transaction that failed and reports no failed rollback has left Authentik
\* as it found it, even when the answer to a creation was lost after Authentik
\* had made the object (nas_identity_sync.py:618).
RollbackExact == pc = "undone" /\ ~broken => objects = before
=============================================================================
