--------------------------- MODULE GenerationStore ---------------------------
(***************************************************************************)
(* Publication of runtime generations: services/nas_v2_generation.py as    *)
(* the compile loop of services/nas_v2_entry.py drives it.                 *)
(*                                                                         *)
(* A publisher reserves a directory keyed by the desired revision, compiles*)
(* into it, seals it, switches the current link to it and prunes what is   *)
(* old.  The reconcile unit is one publisher; "nas-v2 apply" is another    *)
(* that nothing keeps apart from it.  Edits fall between any two steps,    *)
(* and a publisher may be killed between any two, as the rollback does.    *)
(***************************************************************************)
EXTENDS Naturals, Sequences, FiniteSets, SequencesExt

CONSTANTS
    Procs,          \* publishers
    NoDir,          \* no directory
    Attempts,       \* compile attempts of one publisher: 3 in the code
    Retain,         \* generations that pruning keeps: 3 in the code
    MaxIndex,       \* directories of one revision: 9999 in the code
    MaxRevisions,   \* bound on revisions of the desired state
    MaxStarts,      \* bound on publisher invocations
    MaxFailures     \* bound on failing calls and kills

Revisions == 1..MaxRevisions
Dirs      == Revisions \X (1..MaxIndex)

ASSUME GenerationAssumption ==
    /\ NoDir \notin Dirs
    /\ Attempts \in Nat \ {0} /\ Retain \in Nat \ {0} /\ MaxIndex \in Nat \ {0}
    /\ MaxRevisions \in Nat \ {0} /\ MaxStarts \in Nat /\ MaxFailures \in Nat

VARIABLES
    desired,    \* revision of the desired state, HEAD of its history
    tree,       \* what is under each name of the generation root
    source,     \* revision each tree was compiled from, 0 before that
    byTime,     \* the directories that exist, oldest modification first
    current,    \* directory the current link leads to
    pc,         \* where each publisher is
    dir,        \* its candidate
    attempt,    \* its compile attempts left
    doomed,     \* what its pruning still has to remove, with its place in the list
    overtaken,  \* history: a pruning was to remove what a publisher was at work on
    starts,     \* invocations so far
    failures    \* failing calls and kills so far

store == <<tree, source, byTime, current>>
local == <<pc, dir, attempt, doomed>>
storeVars == <<desired, store, local, overtaken, starts, failures>>

Trees  == {"absent", "candidate", "built", "sealed", "damaged"}
Points == {"idle", "allocating", "building", "sealing", "switching", "syncing",
           "resolving", "pruning", "removing",
           "discarding", "discarding2", "retrying", "retrying2"}

StoreInit ==
    /\ desired = 1
    /\ tree = [d \in Dirs |-> "absent"]
    /\ source = [d \in Dirs |-> 0]
    /\ byTime = <<>>
    /\ current = NoDir
    /\ pc = [p \in Procs |-> "idle"]
    /\ dir = [p \in Procs |-> NoDir]
    /\ attempt = [p \in Procs |-> 0]
    /\ doomed = [p \in Procs |-> {}]
    /\ overtaken = FALSE /\ starts = 0 /\ failures = 0

-----------------------------------------------------------------------------
Go(p, point) == pc' = [pc EXCEPT ![p] = point]

Touched(d) == Append(Remove(byTime, d), d)

(* The directories that a publisher's pruning still has to remove.         *)
Doomed(p) == {c.dir : c \in doomed[p]}

(* What current resolves to, NoDir when it leads nowhere.                  *)
Resolved == IF current # NoDir /\ tree[current] # "absent" THEN current ELSE NoDir

(* A new desired revision: an edit, or a rollback's commit.                *)
Edit ==
    /\ desired < MaxRevisions
    /\ desired' = desired + 1
    /\ UNCHANGED <<store, overtaken, local, starts, failures>>

Start(p) ==
    /\ pc[p] = "idle"
    /\ starts < MaxStarts
    /\ starts' = starts + 1
    /\ Go(p, "allocating")
    /\ attempt' = [attempt EXCEPT ![p] = Attempts]
    /\ UNCHANGED <<desired, overtaken, store, dir, doomed, failures>>

(* The publisher ends, successfully or not.                                *)
End(p) ==
    /\ Go(p, "idle")
    /\ dir' = [dir EXCEPT ![p] = NoDir]
    /\ attempt' = [attempt EXCEPT ![p] = 0]
    /\ doomed' = [doomed EXCEPT ![p] = {}]

-----------------------------------------------------------------------------
(* record_desired and allocate_generation: the first name that mkdir can   *)
(* make for the revision.                                                  *)
FreeIndices == {i \in 1..MaxIndex : tree[<<desired, i>>] = "absent"}

Allocate(p) ==
    /\ pc[p] = "allocating"
    /\ \E i \in FreeIndices :
          /\ \A j \in FreeIndices : i <= j
          /\ dir' = [dir EXCEPT ![p] = <<desired, i>>]
          /\ tree' = [tree EXCEPT ![<<desired, i>>] = "candidate"]
          /\ source' = [source EXCEPT ![<<desired, i>>] = 0]
          /\ byTime' = Touched(<<desired, i>>)
          /\ overtaken' = (overtaken \/ \E q \in Procs : <<desired, i>> \in Doomed(q))
    /\ Go(p, "building")
    /\ UNCHANGED <<desired, current, attempt, doomed, starts, failures>>

AllocateFails(p) ==
    /\ pc[p] = "allocating"
    /\ FreeIndices = {}
    /\ End(p)
    /\ UNCHANGED <<desired, overtaken, store, starts, failures>>

(* apply compiles the revision it finds under the authority lock; only the *)
(* revision that the directory is keyed by goes on to publication.         *)
Build(p) ==
    /\ pc[p] = "building"
    /\ tree[dir[p]] # "absent"
    /\ tree' = [tree EXCEPT ![dir[p]] = "built"]
    /\ source' = [source EXCEPT ![dir[p]] = desired]
    /\ byTime' = Touched(dir[p])
    /\ attempt' = [attempt EXCEPT ![p] = @ - 1]
    /\ Go(p, IF desired = dir[p][1] THEN "sealing" ELSE "retrying")
    /\ UNCHANGED <<desired, overtaken, current, dir, doomed, starts, failures>>

(* _seal_tree and the sync of the generation root.                         *)
Seal(p) ==
    /\ pc[p] = "sealing"
    /\ tree[dir[p]] # "absent"
    /\ tree' = [tree EXCEPT ![dir[p]] = IF @ = "damaged" THEN @ ELSE "sealed"]
    /\ Go(p, "switching")
    /\ UNCHANGED <<desired, overtaken, source, byTime, current, dir, attempt, doomed, starts, failures>>

(* The atomic replacement of the current link, after the stable links.     *)
Switch(p) ==
    /\ pc[p] = "switching"
    /\ current' = dir[p]
    /\ Go(p, "syncing")
    /\ UNCHANGED <<desired, overtaken, tree, source, byTime, dir, attempt, doomed, starts, failures>>

Sync(p) ==
    /\ pc[p] = "syncing"
    /\ Go(p, "resolving")
    /\ UNCHANGED <<desired, overtaken, store, dir, attempt, doomed, starts, failures>>

-----------------------------------------------------------------------------
(* prune_generations, whose errors the publisher passes over.              *)

(* Bug variant of Kept: the newest, whichever is current.                  *)
KeptNewest == {Reverse(byTime)[i] : i \in DOMAIN byTime \cap 1..Retain}

(* The current generation and the newest, up to Retain.                    *)
Kept ==
    LET others == Reverse(Remove(byTime, Resolved))
    IN {Resolved} \cup {others[i] : i \in DOMAIN others \cap 1..(Retain - 1)}

(* The directories with their places in the order of modification.         *)
Listed == {[place |-> i, dir |-> byTime[i]] : i \in DOMAIN byTime}

(* A publisher is at work on its candidate, or may still discard it.       *)
AtWork(q) ==
    pc[q] \in {"building", "sealing", "switching", "syncing",
               "discarding", "discarding2", "retrying", "retrying2"}

PruneResolve(p) ==
    /\ pc[p] = "resolving"
    /\ Resolved # NoDir
    /\ doomed' = [doomed EXCEPT ![p] = {c \in Listed : c.dir \notin Kept}]
    /\ overtaken' = (overtaken \/ \E q \in Procs : AtWork(q) /\ dir[q] \notin Kept)
    /\ Go(p, "pruning")
    /\ UNCHANGED <<desired, store, dir, attempt, starts, failures>>

PruneRefuses(p) ==
    /\ pc[p] = "resolving"
    /\ Resolved = NoDir
    /\ End(p)
    /\ UNCHANGED <<desired, overtaken, store, starts, failures>>

(* What is to be removed next: the newest.  A directory that is gone       *)
(* already is an error, which ends the pruning.                            *)
NextDoomed(p) ==
    {c \in doomed[p] : tree[c.dir] # "absent" /\ \A other \in doomed[p] : other.place <= c.place}

PruneUnseal(p) ==
    /\ pc[p] = "pruning"
    /\ \E c \in NextDoomed(p) :
          /\ tree' = [tree EXCEPT ![c.dir] = "damaged"]
          /\ byTime' = Touched(c.dir)
    /\ Go(p, "removing")
    /\ UNCHANGED <<desired, overtaken, source, current, dir, attempt, doomed, starts, failures>>

PruneRemove(p) ==
    /\ pc[p] = "removing"
    /\ \E c \in NextDoomed(p) :
          /\ tree' = [tree EXCEPT ![c.dir] = "absent"]
          /\ byTime' = Remove(byTime, c.dir)
          /\ doomed' = [doomed EXCEPT ![p] = @ \ {c}]
    /\ Go(p, "pruning")
    /\ UNCHANGED <<desired, overtaken, source, current, dir, attempt, starts, failures>>

PruneEnds(p) ==
    /\ pc[p] \in {"pruning", "removing"}
    /\ NextDoomed(p) = {}
    /\ End(p)
    /\ UNCHANGED <<desired, overtaken, store, starts, failures>>

-----------------------------------------------------------------------------
(* discard_generation, after a failure ("discarding"), or after a revision *)
(* other than the expected one, which is then tried again ("retrying").    *)

(* _refuse_if_current, also for a current link that leads nowhere.         *)
Refused(p) == current # NoDir /\ Resolved \in {NoDir, dir[p]}

DiscardUnseal(p) ==
    /\ pc[p] \in {"discarding", "retrying"}
    /\ tree[dir[p]] # "absent" /\ ~Refused(p)
    /\ tree' = [tree EXCEPT ![dir[p]] = "damaged"]
    /\ Go(p, IF pc[p] = "retrying" THEN "retrying2" ELSE "discarding2")
    /\ UNCHANGED <<desired, overtaken, source, byTime, current, dir, attempt, doomed, starts, failures>>

(* What follows a discard: the next attempt, if one is left, or the error. *)
Discarded(p) ==
    \/ /\ pc[p] \in {"retrying", "retrying2"} /\ attempt[p] > 0
       /\ Go(p, "allocating")
       /\ dir' = [dir EXCEPT ![p] = NoDir]
       /\ UNCHANGED <<attempt, doomed>>
    \/ /\ pc[p] \in {"discarding", "discarding2"} \/ attempt[p] = 0
       /\ End(p)

DiscardRemove(p) ==
    /\ pc[p] \in {"discarding2", "retrying2"}
    /\ ~Refused(p)
    /\ tree' = [tree EXCEPT ![dir[p]] = "absent"]
    /\ byTime' = Remove(byTime, dir[p])
    /\ Discarded(p)
    /\ UNCHANGED <<desired, overtaken, source, current, starts, failures>>

(* A candidate that is gone already needs no discarding.                   *)
DiscardGone(p) ==
    /\ pc[p] \in {"discarding", "retrying"}
    /\ tree[dir[p]] = "absent"
    /\ Discarded(p)
    /\ UNCHANGED <<desired, overtaken, store, starts, failures>>

(* A refusal is an error; on the way to a retry it leads to the discard of *)
(* the failure path, where it is final.                                    *)
DiscardRefuses(p) ==
    /\ \/ pc[p] \in {"discarding", "retrying"} /\ tree[dir[p]] # "absent"
       \/ pc[p] \in {"discarding2", "retrying2"}
    /\ Refused(p)
    /\ IF pc[p] \in {"retrying", "retrying2"}
         THEN Go(p, "discarding") /\ UNCHANGED <<dir, attempt, doomed>>
         ELSE End(p)
    /\ UNCHANGED <<desired, overtaken, store, starts, failures>>

-----------------------------------------------------------------------------
(* A step of publication fails: the document does not compile, a call      *)
(* raises, the candidate is gone.  A sync may fail after the switch.       *)
Fails(p) ==
    /\ \/ pc[p] \in {"building", "sealing"} /\ tree[dir[p]] = "absent" /\ UNCHANGED failures
       \/ /\ pc[p] \in {"building", "sealing", "switching", "syncing"}
          /\ failures < MaxFailures /\ failures' = failures + 1
    /\ Go(p, "discarding")
    /\ UNCHANGED <<desired, overtaken, store, dir, attempt, doomed, starts>>

(* The publisher is killed, as by the stop of the unit in a rollback.      *)
Kill(p) ==
    /\ pc[p] # "idle"
    /\ failures < MaxFailures /\ failures' = failures + 1
    /\ End(p)
    /\ UNCHANGED <<desired, overtaken, store, starts>>

Publish(p) == Allocate(p) \/ AllocateFails(p) \/ Build(p) \/ Seal(p) \/ Switch(p) \/ Sync(p)
Prune(p)   == PruneResolve(p) \/ PruneRefuses(p) \/ PruneUnseal(p) \/ PruneRemove(p) \/ PruneEnds(p)
Discard(p) == DiscardUnseal(p) \/ DiscardRemove(p) \/ DiscardGone(p) \/ DiscardRefuses(p)

StoreNext ==
    \/ Edit
    \/ \E p \in Procs : Start(p) \/ Publish(p) \/ Prune(p) \/ Discard(p) \/ Fails(p) \/ Kill(p)

StoreSpec == StoreInit /\ [][StoreNext]_storeVars

-----------------------------------------------------------------------------
(* Properties.                                                             *)

StoreTypeOK ==
    /\ desired \in Revisions
    /\ tree \in [Dirs -> Trees]
    /\ source \in [Dirs -> 0..MaxRevisions]
    /\ ToSet(byTime) = {d \in Dirs : tree[d] # "absent"} /\ IsInjective(byTime)
    /\ current \in Dirs \cup {NoDir}
    /\ pc \in [Procs -> Points]
    /\ dir \in [Procs -> Dirs \cup {NoDir}]
    /\ attempt \in [Procs -> 0..Attempts]
    /\ doomed \in [Procs -> SUBSET [place : Nat, dir : Dirs]]
    /\ overtaken \in BOOLEAN
    /\ starts \in 0..MaxStarts /\ failures \in 0..MaxFailures

(* The current link leads to a whole, sealed generation, through failures, *)
(* kills, retries, discards and pruning: "without ever deleting the active *)
(* one".                                                                   *)
CurrentServes == current # NoDir => tree[current] = "sealed"

(* What is published was compiled from the revision it is keyed by, though *)
(* edits race the compilation: no mixed revision is ever exposed.          *)
RevisionKeyed == current # NoDir => source[current] = current[1]

(* With several publishers, the one way to break either is a publisher so  *)
(* slow that the pruning after other publications chose its candidate, or  *)
(* one that got a name which such a pruning was still to remove: every     *)
(* other interleaving with kills, failures and discards is harmless.       *)
PublicationSound == ~overtaken => CurrentServes /\ RevisionKeyed

=============================================================================
