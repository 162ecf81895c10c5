--------------------------- MODULE OperationLock ---------------------------
(***************************************************************************)
(* The appliance mutation lock of services/nas_operation_lock.py.          *)
(*                                                                         *)
(* Every privileged mutation takes one kernel flock, publishes its token   *)
(* and classes in the lock file, runs, erases the file and unlocks.  Work  *)
(* started by an owner inherits the token through the environment and,     *)
(* instead of locking, validates it: the flock must be busy and the file   *)
(* must show that token with classes that cover the request.  Status reads *)
(* and reservations probe the same flock and hold it for an instant.       *)
(*                                                                         *)
(* A step is one system call on the lock or the file, so that everything   *)
(* the kernel can interleave is interleaved.  A killed process loses the   *)
(* flock but leaves the file as it was; its children live on.              *)
(***************************************************************************)
EXTENDS Naturals, FiniteSets

CONSTANTS
    Procs,        \* processes that may take part
    Classes,      \* KNOWN_CLASSES
    Appliance,    \* the class that covers every other class
    NoProc,       \* no process
    MaxTokens,    \* bound on the tokens drawn by secrets.token_hex
    MaxCrashes    \* bound on the killed processes

ASSUME OperationLockAssumption ==
    /\ NoProc \notin Procs
    /\ Appliance \in Classes
    /\ MaxTokens \in Nat
    /\ MaxCrashes \in Nat

VARIABLES
    holder,     \* the process whose descriptor holds the flock
    meta,       \* contents of operation.lock
    pc,         \* where each process is
    token,      \* the coordination token in each process's environment, 0 if none
    classes,    \* the classes each process asked for
    parent,     \* the process that started a nested worker and waits for it
    nextToken,  \* tokens drawn so far
    crashes     \* processes killed so far

lockVars == <<holder, meta, pc, token, classes, parent, nextToken, crashes>>

-----------------------------------------------------------------------------
(* Program points.                                                         *)

OwnerPoints  == {"truncating", "publishing", "running", "erasing", "unlocking"}
NestedPoints == {"probing", "reading", "nested"}
Points == {"idle", "locking", "busy", "unprobing"} \cup OwnerPoints \cup NestedPoints

Requests == (SUBSET Classes) \ {{}}

(* An empty or unreadable file is the token 0, which no operation has.     *)
NoMeta   == [token |-> 0, classes |-> {}]
Metadata == [token : Nat, classes : SUBSET Classes]

(* _classes_cover *)
ClassesCover(held, requested) == Appliance \in held \/ requested \subseteq held

LockInit ==
    /\ holder = NoProc
    /\ meta = NoMeta
    /\ pc = [p \in Procs |-> "idle"]
    /\ token = [p \in Procs |-> 0]
    /\ classes = [p \in Procs |-> {}]
    /\ parent = [p \in Procs |-> NoProc]
    /\ nextToken = 0
    /\ crashes = 0

-----------------------------------------------------------------------------
(* acquire_operation without an inherited token.                           *)

Go(p, point) == pc' = [pc EXCEPT ![p] = point]

(* The bound leaves a token for everyone already on the way to the flock.  *)
Request(p) ==
    /\ pc[p] = "idle"
    /\ nextToken + Cardinality({q \in Procs : pc[q] = "locking"}) < MaxTokens
    /\ \E c \in Requests : classes' = [classes EXCEPT ![p] = c]
    /\ Go(p, "locking")
    /\ UNCHANGED <<holder, meta, token, parent, nextToken, crashes>>

(* _try_lock on a free flock, and a fresh token; a blocking caller simply  *)
(* gets here later.                                                        *)
Lock(p) ==
    /\ pc[p] = "locking"
    /\ holder = NoProc
    /\ holder' = p
    /\ nextToken' = nextToken + 1
    /\ token' = [token EXCEPT ![p] = nextToken + 1]
    /\ Go(p, "truncating")
    /\ UNCHANGED <<meta, classes, parent, crashes>>

(* Bug variant of LockBusy: the lock file is opened for writing, which     *)
(* empties it before the flock is tried.                                   *)
LockBusyOpensForWriting(p) ==
    /\ pc[p] = "locking"
    /\ holder # NoProc
    /\ Go(p, "busy")
    /\ meta' = NoMeta
    /\ UNCHANGED <<holder, token, classes, parent, nextToken, crashes>>

(* LOCK_NB on a busy flock: BlockingIOError becomes OperationBusyError.    *)
LockBusy(p) ==
    /\ pc[p] = "locking"
    /\ holder # NoProc
    /\ Go(p, "busy")
    /\ UNCHANGED <<holder, meta, token, classes, parent, nextToken, crashes>>

ReportBusy(p) ==
    /\ pc[p] = "busy"
    /\ Go(p, "idle")
    /\ classes' = [classes EXCEPT ![p] = {}]
    /\ UNCHANGED <<holder, meta, token, parent, nextToken, crashes>>

(* seek(0) and truncate(): until here the file shows the last owner.       *)
Truncate(p) ==
    /\ pc[p] = "truncating"
    /\ meta' = NoMeta
    /\ Go(p, "publishing")
    /\ UNCHANGED <<holder, token, classes, parent, nextToken, crashes>>

(* write, flush and fsync; then the token enters the environment.          *)
Publish(p) ==
    /\ pc[p] = "publishing"
    /\ meta' = [token |-> token[p], classes |-> classes[p]]
    /\ Go(p, "running")
    /\ UNCHANGED <<holder, token, classes, parent, nextToken, crashes>>

(* What a process forgets when it is through or killed.                    *)
Forget(p) ==
    /\ Go(p, "idle")
    /\ token' = [token EXCEPT ![p] = 0]
    /\ classes' = [classes EXCEPT ![p] = {}]

(* An OSError of truncate, write or fsync closes the descriptor: the flock *)
(* is free and the file holds whatever reached it.                         *)
PublishFails(p) ==
    /\ \/ pc[p] = "truncating" /\ meta' = meta
       \/ /\ pc[p] = "publishing"
          /\ meta' \in {NoMeta, [token |-> token[p], classes |-> classes[p]]}
    /\ holder' = NoProc
    /\ Forget(p)
    /\ UNCHANGED <<parent, nextToken, crashes>>

Children(p) == {c \in Procs : parent[c] = p}

(* Bug variant of Finish: the body does not wait for its commands.         *)
FinishWithoutWaiting(p) ==
    /\ pc[p] = "running"
    /\ Go(p, "erasing")
    /\ UNCHANGED <<holder, meta, token, classes, parent, nextToken, crashes>>

(* Leaving the with block; subprocess.run has waited for every child.      *)
Finish(p) ==
    /\ pc[p] = "running"
    /\ Children(p) = {}
    /\ Go(p, "erasing")
    /\ UNCHANGED <<holder, meta, token, classes, parent, nextToken, crashes>>

(* truncate() of the released metadata, whose OSError is passed over.      *)
Erase(p) ==
    /\ pc[p] = "erasing"
    /\ meta' \in {NoMeta, meta}
    /\ Go(p, "unlocking")
    /\ UNCHANGED <<holder, token, classes, parent, nextToken, crashes>>

(* Bug variant of Unlock: the erasure is repeated, the flock kept.         *)
UnlockErasesAgain(p) ==
    /\ pc[p] = "unlocking"
    /\ Go(p, "erasing")
    /\ UNCHANGED <<holder, meta, token, classes, parent, nextToken, crashes>>

Unlock(p) ==
    /\ pc[p] = "unlocking"
    /\ holder' = NoProc
    /\ Forget(p)
    /\ UNCHANGED <<meta, parent, nextToken, crashes>>

-----------------------------------------------------------------------------
(* Nested work: an owner, or its nested worker, starts a command that      *)
(* inherits NAS_OPERATION_COORDINATION_TOKEN and must validate it.         *)

Spawn(p, c) ==
    /\ pc[p] \in {"running", "nested"}
    /\ p # c
    /\ pc[c] = "idle"
    /\ \E r \in Requests : classes' = [classes EXCEPT ![c] = r]
    /\ token' = [token EXCEPT ![c] = token[p]]
    /\ parent' = [parent EXCEPT ![c] = p]
    /\ Go(c, "probing")
    /\ UNCHANGED <<holder, meta, nextToken, crashes>>

(* validate_coordination_token: a free flock means the parent lost it.     *)
ProbeFree(c) ==
    /\ pc[c] = "probing"
    /\ holder = NoProc
    /\ holder' = c
    /\ Go(c, "unprobing")
    /\ UNCHANGED <<meta, token, classes, parent, nextToken, crashes>>

ProbeHeld(c) ==
    /\ pc[c] = "probing"
    /\ holder # NoProc
    /\ Go(c, "reading")
    /\ UNCHANGED <<holder, meta, token, classes, parent, nextToken, crashes>>

Valid(c) == meta.token = token[c] /\ ClassesCover(meta.classes, classes[c])

ReadAccept(c) ==
    /\ pc[c] = "reading"
    /\ Valid(c)
    /\ Go(c, "nested")
    /\ UNCHANGED <<holder, meta, token, classes, parent, nextToken, crashes>>

ReadRefuse(c) ==
    /\ pc[c] = "reading"
    /\ ~Valid(c)
    /\ Forget(c)
    /\ parent' = [parent EXCEPT ![c] = NoProc]
    /\ UNCHANGED <<holder, meta, nextToken, crashes>>

FinishNested(c) ==
    /\ pc[c] = "nested"
    /\ Children(c) = {}
    /\ Forget(c)
    /\ parent' = [parent EXCEPT ![c] = NoProc]
    /\ UNCHANGED <<holder, meta, nextToken, crashes>>

-----------------------------------------------------------------------------
(* reserve_operation and operation_state find the flock free only by       *)
(* taking it; LOCK_UN is a second call.                                    *)

Probe(p) ==
    /\ pc[p] = "idle"
    /\ holder = NoProc
    /\ holder' = p
    /\ Go(p, "unprobing")
    /\ UNCHANGED <<meta, token, classes, parent, nextToken, crashes>>

Unprobe(p) ==
    /\ pc[p] = "unprobing"
    /\ holder' = NoProc
    /\ Forget(p)
    /\ parent' = [parent EXCEPT ![p] = NoProc]
    /\ UNCHANGED <<meta, nextToken, crashes>>

(* SIGKILL, OOM or power: the kernel drops the flock, init adopts the      *)
(* children, the file stays.                                               *)
Crash(p) ==
    /\ pc[p] # "idle"
    /\ crashes < MaxCrashes
    /\ crashes' = crashes + 1
    /\ holder' = IF holder = p THEN NoProc ELSE holder
    /\ Forget(p)
    /\ parent' = [c \in Procs |-> IF c = p \/ parent[c] = p THEN NoProc ELSE parent[c]]
    /\ UNCHANGED <<meta, nextToken>>

-----------------------------------------------------------------------------
(* A process's own next call; killing it is the environment's.             *)
Step(p) ==
    \/ Lock(p) \/ LockBusy(p) \/ ReportBusy(p)
    \/ Truncate(p) \/ Publish(p) \/ PublishFails(p)
    \/ Finish(p) \/ Erase(p) \/ Unlock(p)
    \/ ProbeFree(p) \/ ProbeHeld(p) \/ ReadAccept(p) \/ ReadRefuse(p)
    \/ FinishNested(p) \/ Unprobe(p)

LockNext ==
    \E p \in Procs :
        \/ Request(p) \/ Probe(p) \/ Step(p) \/ Crash(p)
        \/ \E c \in Procs : Spawn(p, c)

(* A process that is scheduled makes its next call, and the body of an     *)
(* operation ends at one of the times when none of its commands is left.   *)
(* Nothing makes anyone request, spawn, probe or die.                      *)
LockFairness ==
    \A p \in Procs : WF_lockVars(Step(p)) /\ SF_lockVars(Finish(p)) /\ SF_lockVars(FinishNested(p))

LockSpec == LockInit /\ [][LockNext]_lockVars

LockFairSpec == LockSpec /\ LockFairness

-----------------------------------------------------------------------------
(* Properties.                                                             *)

LockTypeOK ==
    /\ holder \in Procs \cup {NoProc}
    /\ meta \in Metadata
    /\ pc \in [Procs -> Points]
    /\ token \in [Procs -> Nat]
    /\ classes \in [Procs -> SUBSET Classes]
    /\ parent \in [Procs -> Procs \cup {NoProc}]
    /\ nextToken \in Nat
    /\ crashes \in Nat

(* A process that changes appliance state right now.                       *)
Mutating(p) == pc[p] \in {"running", "nested"}

(* The operation that drew token t is alive and holds the flock.           *)
LiveOwner(t) == \E q \in Procs : holder = q /\ pc[q] \in OwnerPoints /\ token[q] = t

(* As long as no process was killed, all processes that mutate the         *)
(* appliance at one time, nested commands included, work for one operation:*)
(* the flock serialises acquire_operation bodies and validation admits only*)
(* the owner's own children.                                               *)
OneOperation ==
    crashes = 0 =>
        \A p, q \in Procs : Mutating(p) /\ Mutating(q) => token[p] = token[q]

(* While an owner runs, the lock file shows that owner's token and classes,*)
(* whatever killed or failed owners left in it: the file is written only   *)
(* between flock and LOCK_UN.                                              *)
MetadataTruthful ==
    \A p \in Procs :
        pc[p] = "running" => meta = [token |-> token[p], classes |-> classes[p]]

(* validate_coordination_token accepts a nested command only while the     *)
(* flock is live and owned by the operation that drew its token.           *)
ValidationSound ==
    [][\A c \in Procs : pc[c] = "reading" /\ pc'[c] = "nested" => LiveOwner(token[c])]_lockVars

(* The lock is never lost: whoever holds it, probes and killed owners      *)
(* included, the flock becomes free again and again, unless an operation   *)
(* starts nested commands for ever.                                        *)
LockReleased ==
    []<>(holder = NoProc) \/ []<>(\E c \in Procs : pc[c] = "probing")

=============================================================================
