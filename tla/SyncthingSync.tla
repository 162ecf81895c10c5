---------------------------- MODULE SyncthingSync ----------------------------
(***************************************************************************)
(* sync-syncthing of nas_identity_sync.py: one device and one receive-only  *)
(* folder per entitled user are written to Syncthing, objects that are no   *)
(* longer wanted are deleted, and objects the appliance does not own are    *)
(* left alone.  What it owns is the committed ownership state and, after an *)
(* interruption, the objects its reconcile journal names.                   *)
(***************************************************************************)
EXTENDS IdentityDirectory

VARIABLES
    live,           \* the objects in Syncthing's configuration
    made,           \* history: those of them that the appliance wrote last
    referenced,     \* devices that somebody's own folder refers to
    owned,          \* state.json: the ownership committed
    sjournal,       \* syncthing-reconcile-journal.json
    run             \* the running reconciliation

syncVars == <<live, made, referenced, owned, sjournal, run>>

Objects == {"device", "folder"} \X Accounts
Kind(k) == {o \in Objects : o[1] = k}
NoSyncJournal == [phase |-> "none"]
Journaled == [phase : {"prepared", "mutated", "committed"}, previous : SUBSET Objects,
              desired : SUBSET Objects, retained : SUBSET Objects]
NoRun == [old |-> {}, desired |-> {}, delete |-> {}, put |-> {}, retained |-> {}]

\* desired_syncthing over build_model: enabled users whom the capability or the
\* administrator bypass entitles, and who have a device.
Entitled ==
    {u \in Accounts :
        /\ directory[u].known /\ directory[u].active
        /\ "disabled" \notin directory[u].roles
        /\ directory[u].app \/ "admins" \in directory[u].roles}

Desired == {"device", "folder"} \X Entitled

SyncInit ==
    /\ live = {} /\ made = {} /\ referenced = {}
    /\ owned = {} /\ sjournal = NoSyncJournal /\ run = NoRun

Elsewhere == UNCHANGED <<call, directory, roles, edits, revoked>>

-----------------------------------------------------------------------------
(* interrupted_syncthing_ownership. *)

\* The ownership a commit writes.
Committed(j) == j.desired \cup j.retained

\* A committed journal is newer than the state and repairs it.
Repaired == IF sjournal.phase = "committed" THEN Committed(sjournal) ELSE owned

\* Only the journal of a reconciliation that began from this state is resumed.
Recoverable ==
    sjournal.phase \in {"prepared", "mutated"} => sjournal.previous = owned

InterruptedIgnored == {}

Interrupted == IF sjournal.phase = "none" THEN {} ELSE sjournal.desired

-----------------------------------------------------------------------------
(* reconcile_syncthing. *)

\* build_model refuses a directory without an administrator.  Ownership is what
\* the state said before the repair and what the journal names.
StartSync ==
    /\ Administrators(directory) # {}
    /\ Recoverable
    /\ Begin("sync-syncthing", "prepare")
    /\ owned' = Repaired
    /\ run' = [NoRun EXCEPT !.old = owned \cup Interrupted, !.desired = Desired]
    /\ Elsewhere /\ UNCHANGED <<faults, live, made, referenced, sjournal>>

\* The journal records the durable state as it is after the repair.
PreviousOwnership == run.old

PreviousState == owned

\* The objects are observed and unmanaged ones refused, then the journal is
\* written; it replaces the journal of the run that was interrupted.
Prepare ==
    /\ command = "sync-syncthing" /\ pc = "prepare"
    /\ (run.desired \cap live) \ run.old = {}
    /\ Goto("put")
    /\ sjournal' = [phase |-> "prepared", previous |-> PreviousState,
                    desired |-> run.desired, retained |-> {}]
    /\ run' = [run EXCEPT !.put = run.desired,
                          !.delete = (run.old \ run.desired) \cap live]
    /\ Elsewhere /\ UNCHANGED <<faults, live, made, referenced, owned>>

Refuse ==
    /\ command = "sync-syncthing" /\ pc = "prepare"
    /\ (run.desired \cap live) \ run.old # {}
    /\ End /\ run' = NoRun
    /\ UNCHANGED <<directory, roles, edits, revoked, faults, live, made, referenced,
                   owned, sjournal>>

\* Devices are written before folders.
Put(o) ==
    /\ command = "sync-syncthing" /\ pc = "put" /\ o \in run.put
    /\ o \in Kind("folder") => run.put \cap Kind("device") = {}
    /\ live' = live \cup {o} /\ made' = made \cup {o}
    /\ run' = [run EXCEPT !.put = @ \ {o}]
    /\ Elsewhere /\ UNCHANGED <<command, commands, pc, faults, referenced, owned, sjournal>>

\* Folders are deleted before devices.  Syncthing refuses to delete a device that
\* a folder still refers to: it is retained and stays owned.
Delete(o) ==
    /\ command = "sync-syncthing" /\ pc = "put" /\ run.put = {} /\ o \in run.delete
    /\ o \in Kind("device") => run.delete \cap Kind("folder") = {}
    /\ IF o \in referenced
       THEN UNCHANGED <<live, made>>
       ELSE live' = live \ {o} /\ made' = made \ {o}
    /\ run' = [run EXCEPT !.delete = @ \ {o},
                          !.retained = IF o \in referenced THEN @ \cup {o} ELSE @]
    /\ Elsewhere /\ UNCHANGED <<command, commands, pc, faults, referenced, owned, sjournal>>

Mutated ==
    /\ command = "sync-syncthing" /\ pc = "put" /\ run.put = {} /\ run.delete = {}
    /\ Goto("verify")
    /\ sjournal' = [sjournal EXCEPT !.phase = "mutated", !.retained = run.retained]
    /\ Elsewhere /\ UNCHANGED <<faults, live, made, referenced, owned, run>>

\* verify_syncthing_configuration, then the commit of the journal.
VerifyAndCommit ==
    /\ command = "sync-syncthing" /\ pc = "verify"
    /\ run.desired \subseteq live
    /\ Goto("record")
    /\ sjournal' = [sjournal EXCEPT !.phase = "committed"]
    /\ Elsewhere /\ UNCHANGED <<faults, live, made, referenced, owned, run>>

Record ==
    /\ command = "sync-syncthing" /\ pc = "record"
    /\ Goto("forget")
    /\ owned' = run.desired \cup run.retained
    /\ Elsewhere /\ UNCHANGED <<faults, live, made, referenced, sjournal, run>>

\* The journal is removed and the run is over.
Forget ==
    /\ command = "sync-syncthing" /\ pc = "forget"
    /\ sjournal' = NoSyncJournal
    /\ End /\ run' = NoRun
    /\ UNCHANGED <<directory, roles, edits, revoked, faults, live, made, referenced, owned>>

\* A request fails, a folder is not safe to make (ensure_syncthing_folder), or the
\* process is killed: nothing is cleaned up in any case.
StopSync ==
    /\ command = "sync-syncthing" /\ Fault
    /\ End /\ run' = NoRun
    /\ UNCHANGED <<directory, roles, edits, revoked, live, made, referenced, owned, sjournal>>

\* Somebody configures Syncthing by hand: adds an object under an identifier the
\* appliance does not own, or shares an existing device with a folder of their own.
Tracked == owned \cup
    (IF sjournal.phase = "none" THEN {} ELSE Committed(sjournal))

EditSyncthing ==
    /\ edits < MaxEdits /\ edits' = edits + 1
    /\ command # "sync-syncthing"
    /\ \/ \E o \in Objects \ (Tracked \cup live) :
            live' = live \cup {o} /\ UNCHANGED referenced
       \/ \E o \in (Kind("device") \cap live) \ referenced :
            referenced' = referenced \cup {o} /\ UNCHANGED live
    /\ UNCHANGED <<command, commands, pc, call, directory, roles, revoked, faults, made, owned,
                   sjournal, run>>

SyncNext ==
    \/ StartSync \/ Prepare \/ Refuse \/ Mutated \/ VerifyAndCommit \/ Record \/ Forget
    \/ \E o \in Objects : Put(o) \/ Delete(o)
    \/ StopSync \/ EditSyncthing

-----------------------------------------------------------------------------

\* What the appliance put into Syncthing is never orphaned by one interruption: a
\* later run still knows every such object as its own, can update it and delete
\* it (nas_identity_sync.py:1114).  Two interruptions in a row, with other users
\* entitled in between, do lose one: the second journal replaces the first.
OwnedTracked ==
    faults <= 1 => made \subseteq Tracked \cup run.old

\* An interrupted reconciliation can always be resumed: the journal it left never
\* contradicts the ownership state, which would refuse every later run
\* (nas_identity_sync.py:1173, 1193).
SyncResumable == Recoverable
=============================================================================
