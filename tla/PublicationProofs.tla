------------------------- MODULE PublicationProofs --------------------------
(***************************************************************************)
(* From the document to what is published: the compiler accepts what it    *)
(* should, the apply and the status keep their promises, and current leads *)
(* to a sealed generation.  For any documents, clients and publishers, and *)
(* any number of edits, faults and attempts.                               *)
(*                                                                         *)
(* 1. StoreInv.  PublicationSound alone is not inductive: the switch must  *)
(*    find the candidate that its publisher sealed.  OwnCandidates says    *)
(*    that it is nobody else's and on no pruning's list, CandidatesReady   *)
(*    what has been made of it.  Both hold until a publisher has been      *)
(*    overtaken, and that is final.                                        *)
(* 2. DocumentInv.  A failed apply restores the files only if the ones it  *)
(*    is not to restore are as it found them (Recoverable), and one that   *)
(*    completes leaves one bundle only if what is not to be done is done   *)
(*    (Completing).  Status rests on Truthful: the compiled state holds    *)
(*    what the normalized document says, as a compiler that fills in       *)
(*    defaults and leaves the rest.                                        *)
(* 3. What the compiler lets through.  Who claims a route's port owns it,  *)
(*    so two claims are the refused case; and the longest of the patterns  *)
(*    that match a request is unique, because they are all prefixes of it. *)
(* 4. What runs.  The units of the enabled services require and trigger    *)
(*    none of a disabled one, so the closure of what is started avoids     *)
(*    them; its recursion ends because a document names finitely many.     *)
(***************************************************************************)
EXTENDS GenerationStore, ServiceDocument, ServiceCompiler,
        FiniteSetTheorems, SequenceTheorems, WellFoundedInduction, TLAPS

-----------------------------------------------------------------------------
(* 1. Publications: the generation store.                                  *)

(* A publisher at work has a candidate.                                    *)
StoreTyped ==
    /\ desired \in Revisions
    /\ tree \in [Dirs -> Trees]
    /\ source \in [Dirs -> 0..MaxRevisions]
    /\ current \in Dirs \cup {NoDir}
    /\ pc \in [Procs -> Points]
    /\ dir \in [Procs -> Dirs \cup {NoDir}]
    /\ DOMAIN doomed = Procs
    /\ overtaken \in BOOLEAN
    /\ \A p \in Procs : AtWork(p) => dir[p] \in Dirs

(* It is there, nobody else's and not to be pruned.                        *)
OwnCandidates ==
    \A p \in Procs : AtWork(p) =>
        /\ tree[dir[p]] # "absent"
        /\ \A q \in Procs : dir[p] \notin Doomed(q) /\ (AtWork(q) /\ dir[q] = dir[p] => q = p)

(* No pruning is to remove what current leads to.                          *)
CurrentSpared == current # NoDir => \A q \in Procs : current \notin Doomed(q)

(* Until it is published a candidate is not current, and it is what its    *)
(* publisher has made of it.                                               *)
CandidatesReady ==
    \A p \in Procs :
        /\ pc[p] \in {"building", "sealing", "switching"} => current # dir[p]
        /\ pc[p] = "sealing" => tree[dir[p]] = "built"
        /\ pc[p] = "switching" => tree[dir[p]] = "sealed"
        /\ pc[p] \in {"sealing", "switching"} => source[dir[p]] = dir[p][1]

StoreSafe == OwnCandidates /\ CurrentSpared /\ CandidatesReady /\ CurrentServes /\ RevisionKeyed

StoreInv == StoreTyped /\ (~overtaken => StoreSafe)

-----------------------------------------------------------------------------
LEMMA StoreTypedInit == StoreInit => StoreTyped
<1> SUFFICES ASSUME StoreInit PROVE StoreTyped
  OBVIOUS
<1>1. desired \in Revisions /\ source \in [Dirs -> 0..MaxRevisions]
  BY GenerationAssumption DEF StoreInit, Revisions
<1>2. tree \in [Dirs -> Trees] /\ pc \in [Procs -> Points] /\ dir \in [Procs -> Dirs \cup {NoDir}]
  BY DEF StoreInit, Trees, Points
<1>3. \A p \in Procs : ~AtWork(p)
  BY DEF StoreInit, AtWork
<1> QED
  BY <1>1, <1>2, <1>3 DEF StoreInit, StoreTyped

LEMMA DirParts ==
    ASSUME NEW d \in Dirs
    PROVE  d[1] \in Revisions
BY DEF Dirs

LEMMA EndTyped ==
    ASSUME StoreTyped, NEW p \in Procs, End(p)
    PROVE  /\ pc' \in [Procs -> Points] /\ dir' \in [Procs -> Dirs \cup {NoDir}]
           /\ DOMAIN doomed' = Procs
           /\ pc'[p] = "idle" /\ doomed'[p] = {}
           /\ \A q \in Procs \ {p} : pc'[q] = pc[q] /\ dir'[q] = dir[q] /\ doomed'[q] = doomed[q]
BY DEF StoreTyped, End, Go, Points

LEMMA GoTyped ==
    ASSUME StoreTyped, NEW p \in Procs, NEW point \in Points, Go(p, point)
    PROVE  /\ pc' \in [Procs -> Points] /\ pc'[p] = point
           /\ \A q \in Procs \ {p} : pc'[q] = pc[q]
BY DEF StoreTyped, Go

LEMMA StoreTypedStep == StoreTyped /\ [StoreNext]_storeVars => StoreTyped'
<1> SUFFICES ASSUME StoreTyped, [StoreNext]_storeVars PROVE StoreTyped'
  OBVIOUS
<1> USE GenerationAssumption
<1>1. CASE UNCHANGED storeVars
  BY <1>1 DEF StoreTyped, storeVars, store, local, AtWork
<1>2. CASE Edit
  BY <1>2 DEF StoreTyped, Edit, store, local, AtWork, Revisions
<1>3. ASSUME NEW p \in Procs, Start(p) PROVE StoreTyped'
  <2>1. pc' \in [Procs -> Points] /\ \A q \in Procs : AtWork(q)' => AtWork(q)
    BY <1>3, GoTyped DEF Start, AtWork, Points
  <2> QED
    BY <1>3, <2>1 DEF StoreTyped, Start, store
<1>4. ASSUME NEW p \in Procs, Allocate(p) PROVE StoreTyped'
  <2>1. PICK i \in FreeIndices :
          /\ dir' = [dir EXCEPT ![p] = <<desired, i>>]
          /\ tree' = [tree EXCEPT ![<<desired, i>>] = "candidate"]
          /\ source' = [source EXCEPT ![<<desired, i>>] = 0]
          /\ overtaken' = (overtaken \/ \E q \in Procs : <<desired, i>> \in Doomed(q))
    BY <1>4 DEF Allocate
  <2>2. <<desired, i>> \in Dirs
    BY DEF StoreTyped, FreeIndices, Dirs
  <2>3. pc' \in [Procs -> Points] /\ \A q \in Procs \ {p} : pc'[q] = pc[q]
    BY <1>4, GoTyped DEF Allocate, Points
  <2>4. dir' \in [Procs -> Dirs \cup {NoDir}] /\ tree' \in [Dirs -> Trees] /\ source' \in [Dirs -> 0..MaxRevisions]
    BY <2>1, <2>2 DEF StoreTyped, Trees
  <2>5. \A q \in Procs : AtWork(q)' => dir'[q] \in Dirs
    BY <2>1, <2>2, <2>3 DEF StoreTyped, AtWork
  <2> QED
    BY <1>4, <2>1, <2>3, <2>4, <2>5 DEF StoreTyped, Allocate
<1>5. ASSUME NEW p \in Procs, Build(p) PROVE StoreTyped'
  <2>1. pc' \in [Procs -> Points] /\ \A q \in Procs : AtWork(q)' => AtWork(q)
    BY <1>5, GoTyped DEF Build, AtWork, Points
  <2>2. tree' \in [Dirs -> Trees] /\ source' \in [Dirs -> 0..MaxRevisions]
    <3>1. desired \in 0..MaxRevisions
      BY DEF StoreTyped, Revisions
    <3> QED
      BY <1>5, <3>1 DEF StoreTyped, Build, Trees
  <2> QED
    BY <1>5, <2>1, <2>2 DEF StoreTyped, Build
<1>6. ASSUME NEW p \in Procs, Seal(p) PROVE StoreTyped'
  <2>1. pc' \in [Procs -> Points] /\ \A q \in Procs : AtWork(q)' => AtWork(q)
    BY <1>6, GoTyped DEF Seal, AtWork, Points
  <2>2. tree' \in [Dirs -> Trees]
    BY <1>6 DEF StoreTyped, Seal, Trees
  <2> QED
    BY <1>6, <2>1, <2>2 DEF StoreTyped, Seal
<1>7. ASSUME NEW p \in Procs, Switch(p) PROVE StoreTyped'
  <2>1. pc' \in [Procs -> Points] /\ \A q \in Procs : AtWork(q)' => AtWork(q)
    BY <1>7, GoTyped DEF Switch, AtWork, Points
  <2> QED
    BY <1>7, <2>1 DEF StoreTyped, Switch
<1>8. ASSUME NEW p \in Procs, Sync(p) PROVE StoreTyped'
  <2>1. pc' \in [Procs -> Points] /\ \A q \in Procs : AtWork(q)' => AtWork(q)
    BY <1>8, GoTyped DEF Sync, AtWork, Points
  <2> QED
    BY <1>8, <2>1 DEF StoreTyped, Sync, store
<1>9. ASSUME NEW p \in Procs, PruneResolve(p) PROVE StoreTyped'
  <2>1. pc' \in [Procs -> Points] /\ \A q \in Procs : AtWork(q)' => AtWork(q)
    BY <1>9, GoTyped DEF PruneResolve, AtWork, Points
  <2>2. DOMAIN doomed' = Procs /\ overtaken' \in BOOLEAN
    BY <1>9 DEF StoreTyped, PruneResolve
  <2> QED
    BY <1>9, <2>1, <2>2 DEF StoreTyped, PruneResolve, store
<1>10. ASSUME NEW p \in Procs, PruneUnseal(p) PROVE StoreTyped'
  <2>1. pc' \in [Procs -> Points] /\ \A q \in Procs : AtWork(q)' => AtWork(q)
    BY <1>10, GoTyped DEF PruneUnseal, AtWork, Points
  <2>2. tree' \in [Dirs -> Trees]
    BY <1>10 DEF StoreTyped, PruneUnseal, Trees
  <2> QED
    BY <1>10, <2>1, <2>2 DEF StoreTyped, PruneUnseal
<1>11. ASSUME NEW p \in Procs, PruneRemove(p) PROVE StoreTyped'
  <2>1. pc' \in [Procs -> Points] /\ \A q \in Procs : AtWork(q)' => AtWork(q)
    BY <1>11, GoTyped DEF PruneRemove, AtWork, Points
  <2>2. tree' \in [Dirs -> Trees] /\ DOMAIN doomed' = Procs
    BY <1>11 DEF StoreTyped, PruneRemove, Trees
  <2> QED
    BY <1>11, <2>1, <2>2 DEF StoreTyped, PruneRemove
<1>12. ASSUME NEW p \in Procs, AllocateFails(p) \/ PruneRefuses(p) \/ PruneEnds(p) \/ Kill(p) PROVE StoreTyped'
  <2>1. End(p) /\ UNCHANGED <<desired, overtaken, store>>
    BY <1>12 DEF AllocateFails, PruneRefuses, PruneEnds, Kill
  <2> QED
    BY <2>1, EndTyped DEF StoreTyped, AtWork, store
<1>13. ASSUME NEW p \in Procs, DiscardUnseal(p) PROVE StoreTyped'
  <2>1. pc' \in [Procs -> Points] /\ \A q \in Procs : AtWork(q)' => AtWork(q)
    BY <1>13, GoTyped DEF DiscardUnseal, AtWork, Points
  <2>2. tree' \in [Dirs -> Trees]
    BY <1>13 DEF StoreTyped, DiscardUnseal, Trees
  <2> QED
    BY <1>13, <2>1, <2>2 DEF StoreTyped, DiscardUnseal
<1>14. ASSUME NEW p \in Procs, Discarded(p)
       PROVE  /\ pc' \in [Procs -> Points] /\ dir' \in [Procs -> Dirs \cup {NoDir}] /\ DOMAIN doomed' = Procs
              /\ \A q \in Procs : AtWork(q)' => dir'[q] \in Dirs
  <2>1. CASE End(p)
    BY <2>1, EndTyped DEF StoreTyped, AtWork
  <2>2. CASE Go(p, "allocating") /\ dir' = [dir EXCEPT ![p] = NoDir] /\ UNCHANGED <<attempt, doomed>>
    BY <2>2, GoTyped DEF StoreTyped, AtWork, Points
  <2> QED
    BY <1>14, <2>1, <2>2 DEF Discarded
<1>15. ASSUME NEW p \in Procs, DiscardRemove(p) \/ DiscardGone(p) PROVE StoreTyped'
  <2>1. Discarded(p) /\ UNCHANGED <<desired, overtaken, source, current>>
    BY <1>15 DEF DiscardRemove, DiscardGone, store
  <2>2. tree' \in [Dirs -> Trees]
    BY <1>15 DEF StoreTyped, DiscardRemove, DiscardGone, Trees, store
  <2> QED
    BY <1>14, <2>1, <2>2 DEF StoreTyped
<1>16. ASSUME NEW p \in Procs, DiscardRefuses(p) PROVE StoreTyped'
  <2>1. CASE End(p)
    BY <1>16, <2>1, EndTyped DEF DiscardRefuses, StoreTyped, AtWork, store
  <2>2. CASE pc[p] \in {"retrying", "retrying2"} /\ Go(p, "discarding") /\ UNCHANGED <<dir, attempt, doomed>>
    <3>1. pc' \in [Procs -> Points] /\ \A q \in Procs : AtWork(q)' => AtWork(q)
      BY <2>2, GoTyped DEF AtWork, Points
    <3> QED
      BY <1>16, <2>2, <3>1 DEF DiscardRefuses, StoreTyped, store
  <2> QED
    BY <1>16, <2>1, <2>2 DEF DiscardRefuses
<1>17. ASSUME NEW p \in Procs, Fails(p) PROVE StoreTyped'
  <2>1. pc' \in [Procs -> Points] /\ \A q \in Procs : AtWork(q)' => AtWork(q)
    BY <1>17, GoTyped DEF Fails, AtWork, Points
  <2> QED
    BY <1>17, <2>1 DEF StoreTyped, Fails, store
<1> QED
  BY <1>1, <1>2, <1>3, <1>4, <1>5, <1>6, <1>7, <1>8, <1>9, <1>10, <1>11, <1>12, <1>13, <1>15, <1>16, <1>17
  DEF StoreNext, Publish, Prune, Discard

-----------------------------------------------------------------------------
LEMMA StoreSafeInit == StoreInit => StoreSafe
BY DEF StoreInit, StoreSafe, OwnCandidates, CurrentSpared, CandidatesReady, CurrentServes, RevisionKeyed, AtWork

(* A step that leaves the directories alone and starts nothing new.        *)
Steps(p) ==
    /\ UNCHANGED <<tree, source, current>>
    /\ \A q \in Procs \ {p} : pc'[q] = pc[q] /\ dir'[q] = dir[q]
    /\ AtWork(p)' => AtWork(p) /\ dir'[p] = dir[p]
    /\ pc'[p] \notin {"building", "sealing", "switching"}
    /\ \A q \in Procs : Doomed(q)' \subseteq Doomed(q)

LEMMA StepsSafe ==
    ASSUME StoreTyped, StoreSafe, NEW p \in Procs, Steps(p)
    PROVE  StoreSafe'
<1>1. OwnCandidates'
  <2> SUFFICES ASSUME NEW a \in Procs, AtWork(a)'
               PROVE  /\ tree'[dir'[a]] # "absent"
                      /\ \A q \in Procs : dir'[a] \notin Doomed(q)' /\ (AtWork(q)' /\ dir'[q] = dir'[a] => q = a)
    BY DEF OwnCandidates
  <2>1. \A q \in Procs : AtWork(q)' => AtWork(q) /\ dir'[q] = dir[q]
    BY DEF Steps, AtWork
  <2> QED
    BY <2>1 DEF Steps, StoreSafe, OwnCandidates
<1>2. CurrentSpared'
  BY DEF Steps, StoreSafe, CurrentSpared
<1>3. CandidatesReady'
  BY DEF Steps, StoreSafe, CandidatesReady
<1>4. CurrentServes' /\ RevisionKeyed'
  BY DEF Steps, StoreSafe, CurrentServes, RevisionKeyed
<1> QED
  BY <1>1, <1>2, <1>3, <1>4 DEF StoreSafe

(* A publisher changes a directory that is its own or that it prunes, and  *)
(* that current does not lead to.                                          *)
Changes(p, d, sort) ==
    /\ tree' = [tree EXCEPT ![d] = sort]
    /\ current # d
    /\ \A q \in Procs \ {p} : AtWork(q) => dir[q] # d
    /\ \A q \in Procs \ {p} : pc'[q] = pc[q] /\ dir'[q] = dir[q]
    /\ \A c \in Dirs \ {d} : source'[c] = source[c]
    /\ UNCHANGED current

LEMMA ChangesSafe ==
    ASSUME StoreTyped, StoreSafe, NEW p \in Procs, NEW d \in Dirs, NEW sort \in Trees, Changes(p, d, sort),
           \A q \in Procs : Doomed(q)' \subseteq Doomed(q),
           AtWork(p)' => /\ dir'[p] = d /\ tree'[d] # "absent"
                         /\ \A q \in Procs : d \notin Doomed(q)',
           pc'[p] = "sealing" => sort = "built",
           pc'[p] = "switching" => sort = "sealed",
           pc'[p] \in {"sealing", "switching"} => source'[d] = d[1]
    PROVE  StoreSafe'
<1>1. \A c \in Dirs \ {d} : tree'[c] = tree[c] /\ source'[c] = source[c]
  BY DEF Changes, StoreTyped
<1>2. \A q \in Procs \ {p} : (AtWork(q)' <=> AtWork(q)) /\ dir'[q] = dir[q]
  BY DEF Changes, AtWork
<1>3. OwnCandidates'
  <2> SUFFICES ASSUME NEW a \in Procs, AtWork(a)'
               PROVE  /\ tree'[dir'[a]] # "absent"
                      /\ \A q \in Procs : dir'[a] \notin Doomed(q)' /\ (AtWork(q)' /\ dir'[q] = dir'[a] => q = a)
    BY DEF OwnCandidates
  <2>1. CASE a = p
    BY <2>1, <1>2 DEF Changes
  <2>2. CASE a # p
    <3>1. AtWork(a) /\ dir'[a] = dir[a] /\ dir[a] \in Dirs /\ dir[a] # d
      BY <2>2, <1>2 DEF Changes, StoreTyped
    <3>2. tree'[dir'[a]] # "absent" /\ \A q \in Procs : dir'[a] \notin Doomed(q)'
      BY <3>1, <1>1 DEF StoreSafe, OwnCandidates
    <3>3. ASSUME NEW q \in Procs, AtWork(q)', dir'[q] = dir'[a] PROVE q = a
      BY <3>1, <3>3, <1>2 DEF StoreSafe, OwnCandidates
    <3> QED
      BY <3>2, <3>3
  <2> QED
    BY <2>1, <2>2
<1>4. CurrentSpared'
  BY DEF Changes, StoreSafe, CurrentSpared
<1>5. CandidatesReady'
  <2> SUFFICES ASSUME NEW a \in Procs
               PROVE  /\ pc'[a] \in {"building", "sealing", "switching"} => current' # dir'[a]
                      /\ pc'[a] = "sealing" => tree'[dir'[a]] = "built"
                      /\ pc'[a] = "switching" => tree'[dir'[a]] = "sealed"
                      /\ pc'[a] \in {"sealing", "switching"} => source'[dir'[a]] = dir'[a][1]
    BY DEF CandidatesReady
  <2>1. CASE a = p
    <3>1. tree'[d] = sort
      BY DEF Changes, StoreTyped
    <3>2. AtWork(p)' => dir'[p] = d /\ current' # d
      BY DEF Changes
    <3> QED
      BY <2>1, <3>1, <3>2 DEF AtWork
  <2>2. CASE a # p
    <3>1. pc'[a] = pc[a] /\ dir'[a] = dir[a] /\ current' = current
      BY <2>2 DEF Changes
    <3>2. AtWork(a) => dir[a] \in Dirs \ {d}
      BY <2>2 DEF Changes, StoreTyped
    <3> QED
      BY <3>1, <3>2, <1>1 DEF StoreSafe, CandidatesReady, AtWork
  <2> QED
    BY <2>1, <2>2
<1>6. CurrentServes' /\ RevisionKeyed'
  BY <1>1 DEF Changes, StoreTyped, StoreSafe, CurrentServes, RevisionKeyed
<1> QED
  BY <1>3, <1>4, <1>5, <1>6 DEF StoreSafe

LEMMA StoreSafeStep ==
    ASSUME StoreTyped, StoreTyped', StoreSafe, [StoreNext]_storeVars, ~overtaken'
    PROVE  StoreSafe'
<1> USE GenerationAssumption
<1>0. NoDir \notin Dirs
  OBVIOUS
<1>1. CASE UNCHANGED storeVars
  <2>1. \A q \in Procs : (AtWork(q)' <=> AtWork(q)) /\ Doomed(q)' = Doomed(q)
    BY <1>1 DEF storeVars, local, AtWork, Doomed
  <2> QED
    BY <1>1, <2>1 DEF storeVars, store, local, StoreSafe, OwnCandidates, CurrentSpared, CandidatesReady,
                      CurrentServes, RevisionKeyed
<1>2. CASE Edit
  <2>1. \A q \in Procs : (AtWork(q)' <=> AtWork(q)) /\ Doomed(q)' = Doomed(q)
    BY <1>2 DEF Edit, local, AtWork, Doomed
  <2> QED
    BY <1>2, <2>1 DEF Edit, store, local, StoreSafe, OwnCandidates, CurrentSpared, CandidatesReady,
                      CurrentServes, RevisionKeyed
<1>3. ASSUME NEW p \in Procs, Start(p) PROVE StoreSafe'
  <2>1. Steps(p)
    BY <1>3, GoTyped DEF Start, Steps, store, AtWork, Doomed, Points
  <2> QED
    BY <2>1, StepsSafe
<1>4. ASSUME NEW p \in Procs, Allocate(p) PROVE StoreSafe'
  <2>1. PICK i \in FreeIndices :
          /\ dir' = [dir EXCEPT ![p] = <<desired, i>>]
          /\ tree' = [tree EXCEPT ![<<desired, i>>] = "candidate"]
          /\ source' = [source EXCEPT ![<<desired, i>>] = 0]
          /\ overtaken' = (overtaken \/ \E q \in Procs : <<desired, i>> \in Doomed(q))
    BY <1>4 DEF Allocate
  <2>2. PICK d \in Dirs : d = <<desired, i>>
    BY DEF StoreTyped, FreeIndices, Dirs
  <2>3. tree[d] = "absent"
    BY <2>2 DEF FreeIndices
  <2>4. \A q \in Procs : Doomed(q)' = Doomed(q) /\ d \notin Doomed(q)
    BY <1>4, <2>1, <2>2 DEF Allocate, Doomed
  <2>5. pc'[p] = "building" /\ dir'[p] = d /\ tree'[d] = "candidate"
    BY <1>4, <2>1, <2>2, GoTyped DEF Allocate, StoreTyped, Points
  <2>6. current # d /\ \A q \in Procs \ {p} : AtWork(q) => dir[q] # d
    BY <2>3, <1>0 DEF StoreSafe, OwnCandidates, CurrentServes
  <2>7. Changes(p, d, "candidate")
    <3>1. \A q \in Procs \ {p} : pc'[q] = pc[q]
      BY <1>4, GoTyped DEF Allocate, Points
    <3>2. \A q \in Procs \ {p} : dir'[q] = dir[q]
      BY <2>1 DEF StoreTyped
    <3>3. \A c \in Dirs \ {d} : source'[c] = source[c]
      BY <2>1, <2>2 DEF StoreTyped
    <3>4. tree' = [tree EXCEPT ![d] = "candidate"] /\ current' = current
      BY <1>4, <2>1, <2>2 DEF Allocate
    <3> QED
      BY <2>6, <3>1, <3>2, <3>3, <3>4 DEF Changes
  <2> QED
    BY <2>4, <2>5, <2>7, ChangesSafe DEF Trees
<1>5. ASSUME NEW p \in Procs, Build(p) PROVE StoreSafe'
  <2>1. AtWork(p) /\ dir[p] \in Dirs /\ current # dir[p]
    BY <1>5 DEF Build, AtWork, StoreTyped, StoreSafe, CandidatesReady
  <2>2. \A q \in Procs : Doomed(q)' = Doomed(q) /\ dir[p] \notin Doomed(q)
    BY <1>5, <2>1 DEF Build, Doomed, StoreSafe, OwnCandidates
  <2>3. pc'[p] \in {"sealing", "retrying"} /\ \A q \in Procs \ {p} : pc'[q] = pc[q]
    BY <1>5, GoTyped DEF Build, Points
  <2>4. pc'[p] = "sealing" => source'[dir[p]] = dir[p][1]
    BY <1>5, <2>1, GoTyped DEF Build, Points, StoreTyped
  <2>5. Changes(p, dir[p], "built")
    BY <1>5, <2>1, <2>3 DEF Build, Changes, StoreTyped, StoreSafe, OwnCandidates
  <2>6. dir'[p] = dir[p] /\ tree'[dir[p]] = "built"
    BY <1>5, <2>1 DEF Build, StoreTyped
  <2> QED
    BY <2>1, <2>2, <2>3, <2>4, <2>5, <2>6, ChangesSafe DEF Trees
<1>6. ASSUME NEW p \in Procs, Seal(p) PROVE StoreSafe'
  <2>1. /\ AtWork(p) /\ dir[p] \in Dirs /\ current # dir[p]
        /\ tree[dir[p]] = "built" /\ source[dir[p]] = dir[p][1]
    BY <1>6 DEF Seal, AtWork, StoreTyped, StoreSafe, CandidatesReady
  <2>2. \A q \in Procs : Doomed(q)' = Doomed(q) /\ dir[p] \notin Doomed(q)
    BY <1>6, <2>1 DEF Seal, Doomed, StoreSafe, OwnCandidates
  <2>3. pc'[p] = "switching" /\ \A q \in Procs \ {p} : pc'[q] = pc[q]
    BY <1>6, GoTyped DEF Seal, Points
  <2>4. tree' = [tree EXCEPT ![dir[p]] = "sealed"]
    BY <1>6, <2>1 DEF Seal, StoreTyped
  <2>5. Changes(p, dir[p], "sealed")
    BY <1>6, <2>1, <2>3, <2>4 DEF Seal, Changes, StoreTyped, StoreSafe, OwnCandidates
  <2>6. dir'[p] = dir[p] /\ tree'[dir[p]] = "sealed" /\ source' = source
    BY <1>6, <2>1, <2>4 DEF Seal, StoreTyped
  <2> QED
    BY <2>1, <2>2, <2>3, <2>5, <2>6, ChangesSafe DEF Trees
<1>7. ASSUME NEW p \in Procs, Switch(p) PROVE StoreSafe'
  <2>1. /\ AtWork(p) /\ dir[p] \in Dirs
        /\ tree[dir[p]] = "sealed" /\ source[dir[p]] = dir[p][1]
    BY <1>7 DEF Switch, AtWork, StoreTyped, StoreSafe, CandidatesReady
  <2>2. pc'[p] = "syncing" /\ \A q \in Procs \ {p} : pc'[q] = pc[q]
    BY <1>7, GoTyped DEF Switch, Points
  <2>3. \A q \in Procs : Doomed(q)' = Doomed(q) /\ dir[p] \notin Doomed(q)
    BY <1>7, <2>1 DEF Switch, Doomed, StoreSafe, OwnCandidates
  <2>4. UNCHANGED <<tree, source, dir>> /\ current' = dir[p]
    BY <1>7 DEF Switch
  <2>5. \A q \in Procs : AtWork(q)' <=> AtWork(q)
    BY <2>1, <2>2 DEF AtWork
  <2>6. OwnCandidates'
    BY <2>3, <2>4, <2>5 DEF StoreSafe, OwnCandidates
  <2>7. CurrentSpared' /\ CurrentServes' /\ RevisionKeyed'
    BY <2>1, <2>3, <2>4 DEF CurrentSpared, CurrentServes, RevisionKeyed
  <2>8. CandidatesReady'
    <3>1. \A q \in Procs : pc'[q] \in {"building", "sealing", "switching"} => q # p /\ AtWork(q) /\ dir[q] # dir[p]
      BY <2>1, <2>2, <2>5 DEF StoreSafe, OwnCandidates, AtWork
    <3> QED
      BY <2>2, <2>4, <3>1 DEF StoreSafe, CandidatesReady
  <2> QED
    BY <2>6, <2>7, <2>8 DEF StoreSafe
<1>8. ASSUME NEW p \in Procs, Sync(p) PROVE StoreSafe'
  <2>1. Steps(p)
    BY <1>8, GoTyped DEF Sync, Steps, store, AtWork, Doomed, Points
  <2> QED
    BY <2>1, StepsSafe
<1>9. ASSUME NEW p \in Procs, PruneResolve(p) PROVE StoreSafe'
  <2>1. pc'[p] = "pruning" /\ \A q \in Procs \ {p} : pc'[q] = pc[q]
    BY <1>9, GoTyped DEF PruneResolve, Points
  <2>2. UNCHANGED <<tree, source, current, dir>> /\ pc[p] = "resolving"
    BY <1>9 DEF PruneResolve, store
  <2>3. \A q \in Procs : AtWork(q)' <=> AtWork(q)
    BY <2>1, <2>2 DEF AtWork
  <2>4. \A q \in Procs \ {p} : Doomed(q)' = Doomed(q)
    BY <1>9 DEF PruneResolve, Doomed, StoreTyped
  <2>5. Doomed(p)' \cap Kept = {}
    BY <1>9 DEF PruneResolve, Doomed, StoreTyped
  <2>6. \A q \in Procs : AtWork(q) => dir[q] \in Kept
    BY <1>9 DEF PruneResolve
  <2>7. current \in Kept
    BY <1>9 DEF PruneResolve, Kept, Resolved
  <2>8. OwnCandidates' /\ CurrentSpared'
    BY <2>2, <2>3, <2>4, <2>5, <2>6, <2>7 DEF StoreSafe, OwnCandidates, CurrentSpared
  <2>9. CandidatesReady' /\ CurrentServes' /\ RevisionKeyed'
    BY <2>1, <2>2 DEF StoreSafe, CandidatesReady, CurrentServes, RevisionKeyed
  <2> QED
    BY <2>8, <2>9 DEF StoreSafe
<1>10. ASSUME NEW p \in Procs, PruneUnseal(p) \/ PruneRemove(p) PROVE StoreSafe'
  <2>1. PICK c \in doomed[p], sort \in {"damaged", "absent"} :
          /\ tree[c.dir] # "absent" /\ tree' = [tree EXCEPT ![c.dir] = sort]
          /\ doomed' \in {doomed, [doomed EXCEPT ![p] = @ \ {c}]}
    BY <1>10 DEF PruneUnseal, PruneRemove, NextDoomed
  <2>2. /\ UNCHANGED <<source, current, dir>> /\ pc[p] \in {"pruning", "removing"}
        /\ pc'[p] \in {"pruning", "removing"} /\ \A q \in Procs \ {p} : pc'[q] = pc[q]
    BY <1>10, GoTyped DEF PruneUnseal, PruneRemove, Points
  <2>3. \A q \in Procs : Doomed(q)' \subseteq Doomed(q)
    BY <2>1 DEF Doomed, StoreTyped
  <2>4. CASE c.dir \in Dirs
    <3>1. c.dir \in Doomed(p)
      BY DEF Doomed
    <3>2. current # c.dir /\ \A q \in Procs : AtWork(q) => dir[q] # c.dir
      BY <3>1, <2>4, <1>0 DEF StoreSafe, OwnCandidates, CurrentSpared
    <3>3. Changes(p, c.dir, sort)
      BY <2>1, <2>2, <3>2 DEF Changes
    <3>4. ~AtWork(p)'
      BY <2>2 DEF AtWork
    <3> QED
      BY <2>2, <2>3, <2>4, <3>3, <3>4, ChangesSafe DEF Trees
  <2>5. CASE c.dir \notin Dirs
    <3>1. tree' = tree
      BY <2>1, <2>5 DEF StoreTyped
    <3>2. Steps(p)
      BY <2>2, <2>3, <3>1 DEF Steps, AtWork
    <3> QED
      BY <3>2, StepsSafe
  <2> QED
    BY <2>4, <2>5
<1>11. ASSUME NEW p \in Procs, End(p), UNCHANGED <<tree, source, current>> PROVE StoreSafe'
  <2>1. Steps(p)
    BY <1>11, EndTyped DEF Steps, AtWork, Doomed
  <2> QED
    BY <2>1, StepsSafe
<1>12. ASSUME NEW p \in Procs, AllocateFails(p) \/ PruneRefuses(p) \/ PruneEnds(p) \/ Kill(p) PROVE StoreSafe'
  BY <1>11, <1>12 DEF AllocateFails, PruneRefuses, PruneEnds, Kill, store
<1>13. ASSUME NEW p \in Procs, AtWork(p), ~Refused(p) PROVE dir[p] \in Dirs /\ current # dir[p]
  BY <1>0, <1>13 DEF StoreTyped, Refused, Resolved
<1>14. ASSUME NEW p \in Procs, DiscardUnseal(p) PROVE StoreSafe'
  <2>1. AtWork(p) /\ dir[p] \in Dirs /\ current # dir[p]
    BY <1>13, <1>14 DEF DiscardUnseal, AtWork
  <2>2. \A q \in Procs : Doomed(q)' = Doomed(q) /\ dir[p] \notin Doomed(q)
    BY <1>14, <2>1 DEF DiscardUnseal, Doomed, StoreSafe, OwnCandidates
  <2>3. pc'[p] \in {"discarding2", "retrying2"} /\ \A q \in Procs \ {p} : pc'[q] = pc[q]
    BY <1>14, GoTyped DEF DiscardUnseal, Points
  <2>4. Changes(p, dir[p], "damaged")
    BY <1>14, <2>1, <2>3 DEF DiscardUnseal, Changes, StoreTyped, StoreSafe, OwnCandidates
  <2>5. dir'[p] = dir[p] /\ tree'[dir[p]] = "damaged"
    BY <1>14, <2>1 DEF DiscardUnseal, StoreTyped
  <2> QED
    BY <2>1, <2>2, <2>3, <2>4, <2>5, ChangesSafe DEF Trees
<1>15. ASSUME NEW p \in Procs, Discarded(p)
       PROVE  /\ pc'[p] \in {"idle", "allocating"}
              /\ \A q \in Procs \ {p} : pc'[q] = pc[q] /\ dir'[q] = dir[q]
              /\ \A q \in Procs : Doomed(q)' \subseteq Doomed(q)
  <2>1. CASE End(p)
    BY <2>1, EndTyped DEF Doomed
  <2>2. CASE Go(p, "allocating") /\ dir' = [dir EXCEPT ![p] = NoDir] /\ UNCHANGED <<attempt, doomed>>
    BY <2>2, GoTyped DEF StoreTyped, Points, Doomed
  <2> QED
    BY <1>15, <2>1, <2>2 DEF Discarded
<1>16. ASSUME NEW p \in Procs, DiscardRemove(p) PROVE StoreSafe'
  <2>1. AtWork(p) /\ dir[p] \in Dirs /\ current # dir[p]
    BY <1>13, <1>16 DEF DiscardRemove, AtWork
  <2>2. Changes(p, dir[p], "absent")
    BY <1>15, <1>16, <2>1 DEF DiscardRemove, Changes, StoreTyped, StoreSafe, OwnCandidates
  <2>3. ~AtWork(p)'
    BY <1>15, <1>16 DEF DiscardRemove, AtWork
  <2> QED
    BY <1>15, <1>16, <2>1, <2>2, <2>3, ChangesSafe DEF DiscardRemove, Trees
<1>17. ASSUME NEW p \in Procs, DiscardGone(p) PROVE StoreSafe'
  <2>1. Steps(p)
    BY <1>15, <1>17 DEF DiscardGone, Steps, AtWork, store
  <2> QED
    BY <2>1, StepsSafe
<1>18. ASSUME NEW p \in Procs, DiscardRefuses(p) PROVE StoreSafe'
  <2>1. CASE End(p)
    BY <1>11, <1>18, <2>1 DEF DiscardRefuses, store
  <2>2. CASE pc[p] \in {"retrying", "retrying2"} /\ Go(p, "discarding") /\ UNCHANGED <<dir, attempt, doomed>>
    <3>1. Steps(p)
      BY <1>18, <2>2, GoTyped DEF DiscardRefuses, Steps, AtWork, Doomed, Points, store
    <3> QED
      BY <3>1, StepsSafe
  <2> QED
    BY <1>18, <2>1, <2>2 DEF DiscardRefuses
<1>19. ASSUME NEW p \in Procs, Fails(p) PROVE StoreSafe'
  <2>1. Steps(p)
    BY <1>19, GoTyped DEF Fails, Steps, AtWork, Doomed, Points, store
  <2> QED
    BY <2>1, StepsSafe
<1> QED
  BY <1>1, <1>2, <1>3, <1>4, <1>5, <1>6, <1>7, <1>8, <1>9, <1>10, <1>12, <1>14, <1>16, <1>17, <1>18, <1>19
  DEF StoreNext, Publish, Prune, Discard

(* Overtaking is never forgotten.                                          *)
LEMMA OvertakenStays == StoreTyped /\ [StoreNext]_storeVars => (overtaken => overtaken')
BY DEF StoreTyped, StoreNext, storeVars, Publish, Prune, Discard, Edit, Start, Allocate, AllocateFails, Build, Seal,
       Switch, Sync, PruneResolve, PruneRefuses, PruneUnseal, PruneRemove, PruneEnds, DiscardUnseal,
       DiscardRemove, DiscardGone, DiscardRefuses, Fails, Kill

(* The invariant of the generation root.                                   *)
THEOREM StoreInvariant == StoreSpec => []StoreInv
<1>1. StoreInit => StoreInv
  BY StoreTypedInit, StoreSafeInit DEF StoreInv
<1>2. StoreInv /\ [StoreNext]_storeVars => StoreInv'
  BY StoreTypedStep, StoreSafeStep, OvertakenStays DEF StoreInv
<1> QED
  BY <1>1, <1>2, PTL DEF StoreSpec

(* Unless a pruning chose the candidate of a publisher at work, current    *)
(* leads to a sealed generation compiled from the revision it is keyed by. *)
THEOREM StorePublicationSound == StoreSpec => []PublicationSound
<1>1. StoreInv => PublicationSound
  BY DEF StoreInv, StoreSafe, PublicationSound
<1> QED
  BY <1>1, StoreInvariant, PTL

-----------------------------------------------------------------------------
(* 2. The document and its clients.                                        *)

(* The lock's holder is in its critical section, and a client that sets    *)
(* modes has the document that is there before it.                         *)
Locking ==
  /\ DOMAIN client = Clients
  /\ holder \in Clients \cup {Nobody, Applier}
  /\ holder = Applier <=> apply.pc \in {"replacing", "restoring"}
  /\ holder = Applier =>
       DOMAIN apply = {"pc", "files", "todo", "removals", "previous", "mutated", "planned"}
  /\ \A c \in Clients : /\ client[c].pc = "editing" <=> holder = c
                        /\ client[c].pc = "editing" => client[c].seen = document

(* Every text is well-formed.                                              *)
TextsFormed ==
  /\ WellFormed(document)
  /\ \A c \in Clients : client[c].pc = "submitted" => WellFormed(client[c].text)

-----------------------------------------------------------------------------
LEMMA OverFields ==
  ASSUME NEW r, NEW d
  PROVE  /\ DOMAIN Over(r, d) = DOMAIN r \cup DOMAIN d
         /\ \A x \in DOMAIN r : Over(r, d)[x] = r[x]
         /\ \A x \in DOMAIN d \ DOMAIN r : Over(r, d)[x] = d[x]
BY DEF Over, Has

LEMMA SetModeFormed ==
  ASSUME NEW s, NEW mode,
         {"kind", "runtime"} \subseteq DOMAIN s, s.kind \in {"daemon", "job", "session"},
         Has(s, "activation") => s.activation \in {"persistent", "on-demand"}
  PROVE  /\ {"kind", "runtime"} \subseteq DOMAIN SetMode(s, mode)
         /\ SetMode(s, mode).kind \in {"daemon", "job", "session"}
         /\ Has(SetMode(s, mode), "activation") => SetMode(s, mode).activation \in {"persistent", "on-demand"}
<1> DEFINE change == CASE mode = "off"    -> [enabled |-> FALSE]
                       [] mode = "always" -> IF s.kind = "daemon" THEN [enabled |-> TRUE, activation |-> "persistent"]
                                             ELSE [enabled |-> TRUE]
                       [] OTHER           -> [enabled |-> TRUE, activation |-> "on-demand"]
<1>1. SetMode(s, mode) = Over(change, s)
  BY DEF SetMode
<1>2. \/ change = [enabled |-> FALSE] \/ change = [enabled |-> TRUE]
      \/ change = [enabled |-> TRUE, activation |-> "persistent"] \/ change = [enabled |-> TRUE, activation |-> "on-demand"]
  OBVIOUS
<1>3. /\ DOMAIN change \subseteq {"enabled", "activation"}
      /\ "activation" \in DOMAIN change => change.activation \in {"persistent", "on-demand"}
  BY <1>2
<1> HIDE DEF change
<1> QED
  <2>1. "kind" \in DOMAIN s \ DOMAIN change /\ "runtime" \in DOMAIN s \ DOMAIN change
    BY <1>3
  <2>2. {"kind", "runtime"} \subseteq DOMAIN Over(change, s) /\ Over(change, s).kind = s.kind
    BY <2>1 DEF Over, Has
  <2>3. "activation" \in DOMAIN Over(change, s) => Over(change, s).activation \in {"persistent", "on-demand"}
    BY <1>3 DEF Over, Has
  <2> QED
    BY <1>1, <2>2, <2>3 DEF Has

LEMMA SetModesFormed ==
  ASSUME NEW d, NEW modes, WellFormed(d)
  PROVE  /\ WellFormed(SetModes(d, modes))
         /\ DOMAIN SetModes(d, modes).services = DOMAIN d.services
         /\ \A id \in DOMAIN d.services \ DOMAIN modes : SetModes(d, modes).services[id] = d.services[id]
<1> DEFINE after == [id \in DOMAIN d.services |->
                       IF id \in DOMAIN modes THEN SetMode(d.services[id], modes[id]) ELSE d.services[id]]
<1>1. /\ SetModes(d, modes).services = after /\ DOMAIN SetModes(d, modes) = DOMAIN d
  BY DEF SetModes, WellFormed
<1>2. ASSUME NEW id \in DOMAIN after
      PROVE  /\ {"kind", "runtime"} \subseteq DOMAIN after[id]
             /\ after[id].kind \in {"daemon", "job", "session"}
             /\ Has(after[id], "activation") => after[id].activation \in {"persistent", "on-demand"}
  BY SetModeFormed DEF WellFormed
<1>3. \A id \in DOMAIN d.services \ DOMAIN modes : after[id] = d.services[id]
  OBVIOUS
<1>4. DOMAIN after = DOMAIN d.services
  OBVIOUS
<1> HIDE DEF after
<1> QED
  BY <1>1, <1>2, <1>3, <1>4 DEF WellFormed

(* What a step leaves that only one client takes.                          *)
LEMMA ClientStep ==
  ASSUME Locking, NEW c \in Clients, NEW command, client' = [client EXCEPT ![c] = command]
  PROVE  /\ DOMAIN client' = Clients /\ client'[c] = command
         /\ \A o \in Clients \ {c} : client'[o] = client[o]
BY DEF Locking

LEMMA LockingStep == Locking /\ TextsFormed /\ [Next]_vars => Locking' /\ TextsFormed'
<1> SUFFICES ASSUME Locking, TextsFormed, [Next]_vars PROVE Locking' /\ TextsFormed'
  OBVIOUS
<1> USE DocumentAssumption
<1>0. ASSUME NEW c \in Clients, NEW text, NEW then, Write(c, text, then)
      PROVE  /\ DOMAIN client' = Clients /\ client'[c].pc \in {"written", "idle"}
             /\ \A o \in Clients \ {c} : client'[o] = client[o]
             /\ document' \in {document, text}
  BY <1>0 DEF Write, Idle, Locking
<1>r. ASSUME NEW c \in Clients, Refuse(c)
      PROVE  /\ DOMAIN client' = Clients /\ client'[c].pc = "idle"
             /\ \A o \in Clients \ {c} : client'[o] = client[o]
             /\ document' = document
  BY <1>r DEF Refuse, Idle, Locking
<1>1. CASE UNCHANGED vars
  BY <1>1 DEF vars, Locking, TextsFormed
<1>2. ASSUME NEW c \in Clients, Read(c) \/ Reconcile(c) \/ StatusRead(c) \/ StatusReport(c)
      PROVE  Locking' /\ TextsFormed'
  <2>1. /\ DOMAIN client' = Clients /\ client'[c].pc \in {"read", "idle", "status", "observing"}
        /\ \A o \in Clients \ {c} : client'[o] = client[o]
    BY <1>2 DEF Read, Reconcile, StatusRead, StatusReport, Idle, Locking
  <2>2. UNCHANGED <<document, holder, apply>> /\ client[c].pc # "editing"
    BY <1>2 DEF Read, Reconcile, StatusRead, StatusReport
  <2> QED
    BY <2>1, <2>2 DEF Locking, TextsFormed
<1>3. ASSUME NEW c \in Clients, NEW text \in Candidates, Submit(c, text) PROVE Locking' /\ TextsFormed'
  <2>1. PICK command : /\ client' = [client EXCEPT ![c] = command] 
                       /\ \/ command = [pc |-> "submitted", seen |-> client[c].seen, text |-> text]
                          \/ command = [pc |-> "idle"]
    BY <1>3 DEF Submit, Idle, Locking
  <2>2. UNCHANGED <<document, holder, apply>> /\ client[c].pc # "editing"
    BY <1>3 DEF Submit
  <2>3. command.pc \in {"submitted", "idle"} /\ (command.pc = "submitted" => command.text = text)
    BY <2>1
  <2> QED
    BY <2>1, <2>2, <2>3, ClientStep DEF Locking, TextsFormed
<1>4. ASSUME NEW c \in Clients, Replace(c) PROVE Locking' /\ TextsFormed'
  <2>1. /\ DOMAIN client' = Clients /\ client'[c].pc \in {"written", "idle"}
        /\ \A o \in Clients \ {c} : client'[o] = client[o]
    BY <1>0, <1>r, <1>4 DEF Replace
  <2>2. UNCHANGED <<holder, apply>> /\ client[c].pc = "submitted" /\ holder = Nobody /\ document' \in {document, client[c].text}
    BY <1>0, <1>r, <1>4 DEF Replace, Free
  <2> QED
    BY <2>1, <2>2 DEF Locking, TextsFormed
<1>5. ASSUME NEW c \in Clients, NEW modes \in ModeRequests, BeginModes(c, modes) PROVE Locking' /\ TextsFormed'
  <2>1. client' = [client EXCEPT ![c] = [pc |-> "editing", seen |-> document, modes |-> modes]]
    BY <1>5 DEF BeginModes
  <2>2. UNCHANGED <<document, apply>> /\ holder = Nobody /\ holder' = c
    BY <1>5 DEF BeginModes, Free
  <2> QED
    BY <2>1, <2>2, ClientStep DEF Locking, TextsFormed
<1>6. ASSUME NEW c \in Clients, WriteModes(c) PROVE Locking' /\ TextsFormed'
  <2>1. /\ DOMAIN client' = Clients /\ client'[c].pc \in {"written", "idle"}
        /\ \A o \in Clients \ {c} : client'[o] = client[o]
    BY <1>0, <1>r, <1>6 DEF WriteModes
  <2>2. /\ UNCHANGED apply /\ client[c].pc = "editing" /\ holder' = Nobody
        /\ document' \in {document, SetModes(client[c].seen, client[c].modes)}
    BY <1>0, <1>r, <1>6 DEF WriteModes
  <2>3. WellFormed(document')
    BY <2>2, SetModesFormed DEF Locking, TextsFormed
  <2> QED
    BY <2>1, <2>2, <2>3 DEF Locking, TextsFormed
<1>7. ASSUME NEW c \in Clients, KillClient(c) PROVE Locking' /\ TextsFormed'
  <2>1. client' = [client EXCEPT ![c] = [pc |-> "idle"]]
    BY <1>7 DEF KillClient, Idle
  <2>2. UNCHANGED <<document, apply>> /\ holder' = IF holder = c THEN Nobody ELSE holder
    BY <1>7 DEF KillClient
  <2> QED
    BY <2>1, <2>2, ClientStep DEF Locking, TextsFormed
<1>8. CASE (\E p \in Inventories : Probe(p)) \/ StartUnit
  <2>1. UNCHANGED <<document, client, holder>> /\ apply.pc = "idle" /\ apply'.pc \in {"idle", "probed"}
    BY <1>8 DEF Probe, StartUnit
  <2> QED
    BY <2>1 DEF Locking, TextsFormed
<1>9. CASE ApplyBegin
  <2>1. /\ UNCHANGED <<document, client>> /\ apply.pc = "probed" /\ holder = Nobody
        /\ \/ holder' = Nobody /\ apply'.pc = "idle"
           \/ /\ holder' = Applier /\ apply'.pc = "replacing"
              /\ DOMAIN apply' = {"pc", "files", "todo", "removals", "previous", "mutated", "planned"}
    <3> DEFINE accepted == { e \in Effective(document) : ProjectionAccepts(e, TRUE) }
               files == Files(document, CHOOSE e \in accepted : TRUE)
    <3>1. CASE accepted = {}
      BY <1>9, <3>1 DEF ApplyBegin, Free, Idle
    <3>2. CASE accepted # {}
      <4>1. /\ holder' = Applier
            /\ apply' = [pc |-> "replacing", files |-> WithPlan(document, files),
                         todo |-> Differing(WithPlan(document, files)), removals |-> Stale(files),
                         previous |-> out, mutated |-> <<>>, planned |-> PlannedChanges(document, files)]
        BY <1>9, <3>2 DEF ApplyBegin
      <4> QED
        BY <1>9, <4>1 DEF ApplyBegin, Free
    <3> QED
      BY <3>1, <3>2
  <2> QED
    BY <2>1 DEF Locking, TextsFormed
<1>10. CASE ApplyFile \/ ApplyDone \/ ApplyFail \/ ApplyRestore \/ ApplyStopped
  <2>1. /\ UNCHANGED <<document, client>> /\ apply.pc \in {"replacing", "restoring"}
        /\ \/ holder' = Nobody /\ apply'.pc = "idle"
           \/ holder' = holder /\ apply'.pc \in {"replacing", "restoring"} /\ DOMAIN apply' = DOMAIN apply
    <3>1. CASE ApplyFile
      BY <3>1 DEF ApplyFile, Locking
    <3>2. CASE ApplyDone \/ ApplyStopped
      BY <3>2 DEF ApplyDone, ApplyStopped, Idle
    <3>3. CASE ApplyFail
      BY <3>3 DEF ApplyFail, Locking
    <3>4. CASE ApplyRestore
      BY <3>4 DEF ApplyRestore, Idle, Locking
    <3> QED
      BY <1>10, <3>1, <3>2, <3>3, <3>4
  <2> QED
    BY <2>1 DEF Locking, TextsFormed
<1> QED
  BY <1>1, <1>2, <1>3, <1>4, <1>5, <1>6, <1>7, <1>8, <1>9, <1>10 DEF Next

LEMMA LockingInit == Init => Locking /\ TextsFormed
BY DocumentAssumption DEF Init, Locking, TextsFormed, Idle

LEMMA OthersStep ==
  ASSUME Locking, TextsFormed, [Next]_vars
  PROVE  [KeepsOthers]_document
<1> SUFFICES ASSUME document' # document PROVE KeepsOthers
  OBVIOUS
<1>1. PICK w \in Clients : Replace(w) \/ WriteModes(w)
  BY DEF Next, vars, Read, Reconcile, StatusRead, StatusReport, KillClient, Submit, BeginModes, Probe, StartUnit,
         ApplyBegin, ApplyFile, ApplyDone, ApplyFail, ApplyRestore, ApplyStopped
<1>2. \A c \in Clients : client'[c] # client[c] => c = w
  BY <1>1 DEF Replace, WriteModes, Write, Refuse, Locking
<1>3. CASE Replace(w)
  <2>1. document = client[w].seen /\ document' = client[w].text /\ client[w].pc = "submitted"
    BY <1>3 DEF Replace, RevisionMatches, Write, Refuse
  <2> QED
    BY <1>2, <2>1 DEF KeepsOthers
<1>4. CASE WriteModes(w)
  <2>1. /\ document' = SetModes(client[w].seen, client[w].modes) /\ client[w].pc = "editing"
        /\ document = client[w].seen
    BY <1>4 DEF WriteModes, Write, Refuse, Locking
  <2> QED
    BY <1>2, <2>1, SetModesFormed DEF KeepsOthers, TextsFormed
<1> QED
  BY <1>1, <1>3, <1>4

(* A command that writes the document changes what its author changed and  *)
(* nothing else.                                                           *)
THEOREM DocumentOthersKept == Spec => OthersKept
<1>1. Locking /\ TextsFormed /\ [Next]_vars => [KeepsOthers]_document
  BY OthersStep
<1> QED
  BY <1>1, LockingInit, LockingStep, PTL DEF Spec, OthersKept

(* A service of the normalized document has the fields that are relied on. *)
LEMMA NormalFields ==
  ASSUME NEW s, {"kind", "runtime"} \subseteq DOMAIN s, s.kind \in {"daemon", "job", "session"},
         Has(s, "activation") => s.activation \in {"persistent", "on-demand"}
  PROVE  LET n == NormalService(s)
         IN  /\ {"kind", "runtime", "managed", "accelerators"} \subseteq DOMAIN n
             /\ n.kind = s.kind
             /\ ~Has(s, "accelerators") => n.accelerators = <<>>
             /\ s.kind = "daemon" => Has(n, "activation") /\ n.activation \in {"persistent", "on-demand"}
             /\ s.kind = "job" => Has(n, "schedules")
<1> DEFINE defaults == [enabled |-> TRUE, managed |-> TRUE, dependencies |-> <<>>,
                        requires |-> {}, capabilities |-> <<>>, accelerators |-> <<>>,
                        storage |-> <<>>, credentials |-> <<>>, routes |-> <<>>, listeners |-> <<>>]
           full == Over(Over(s, defaults), Lifecycle(s.kind))
           network == NetworkDefault(s)
           normal == [full EXCEPT
                        !.dependencies = [i \in DOMAIN @ |-> Over(@[i], [condition |-> "ready"])],
                        !.accelerators = [i \in DOMAIN @ |-> Over(@[i],
                                            [vendor |-> "any", quantity |-> 1, required |-> FALSE, mode |-> "shared"])],
                        !.routes    = [r \in DOMAIN @ |-> NormalRoute(@[r])],
                        !.listeners = [l \in DOMAIN @ |-> Over(@[l], [firewall |-> TRUE])]]
<1>1. NormalService(s) = Over(network, normal)
  BY DEF NormalService
<1>2. DOMAIN network \subseteq {"network"}
  BY DEF NetworkDefault
<1>3. /\ DOMAIN Over(s, defaults) = DOMAIN s \cup DOMAIN defaults
      /\ \A x \in DOMAIN s : Over(s, defaults)[x] = s[x]
      /\ "accelerators" \notin DOMAIN s => Over(s, defaults)["accelerators"] = <<>>
  BY DEF Over, Has
<1>4. /\ {"kind", "runtime", "managed", "accelerators"} \subseteq DOMAIN full
      /\ full.kind = s.kind
      /\ ~Has(s, "accelerators") => full.accelerators = <<>>
  <2>1. "accelerators" \in DOMAIN defaults /\ "managed" \in DOMAIN defaults
    OBVIOUS
  <2> HIDE DEF defaults
  <2> QED
    BY <1>3, <2>1 DEF Over, Has
<1>5. s.kind = "daemon" => "activation" \in DOMAIN full /\ full.activation \in {"persistent", "on-demand"}
  <2> SUFFICES ASSUME s.kind = "daemon"
               PROVE  "activation" \in DOMAIN full /\ full.activation \in {"persistent", "on-demand"}
    OBVIOUS
  <2>1. Lifecycle(s.kind) = [activation |-> "persistent"]
    BY DEF Lifecycle
  <2>2. "activation" \notin DOMAIN defaults
    OBVIOUS
  <2> HIDE DEF defaults
  <2> QED
    BY <1>3, <2>1, <2>2 DEF Over, Has
<1>6. s.kind = "job" => "schedules" \in DOMAIN full
  <2>1. s.kind = "job" => Lifecycle(s.kind) = [schedules |-> <<>>]
    BY DEF Lifecycle
  <2> HIDE DEF defaults
  <2> QED
    BY <2>1 DEF Over, Has
<1> HIDE DEF full, network
<1>7. DOMAIN normal = DOMAIN full /\ normal.kind = full.kind /\ ("activation" \in DOMAIN full => normal.activation = full.activation)
  BY <1>4
<1>8. full.accelerators = <<>> => normal.accelerators = <<>>
  <2>1. normal.accelerators = [i \in DOMAIN full.accelerators |-> Over(full.accelerators[i],
                                 [vendor |-> "any", quantity |-> 1, required |-> FALSE, mode |-> "shared"])]
    BY <1>4
  <2> QED
    BY <2>1
<1> HIDE DEF normal
<1>9. /\ DOMAIN normal \subseteq DOMAIN NormalService(s)
      /\ \A x \in DOMAIN normal \ {"network"} : NormalService(s)[x] = normal[x]
  BY <1>1, <1>2 DEF Over, Has
<1> QED
  BY <1>4, <1>5, <1>6, <1>7, <1>8, <1>9 DEF Has

LEMMA NormalDocument ==
  ASSUME NEW d, WellFormed(d)
  PROVE  LET n == Normalize(d)
         IN  /\ "services" \in DOMAIN n /\ DOMAIN n \subseteq {"services", "profiles", "resources", "credentials"}
             /\ n.services = [id \in DOMAIN d.services |-> NormalService(d.services[id])]
<1> DEFINE defaults == [profiles |-> <<>>, resources |-> <<>>, credentials |-> <<>>]
           full == Over(d, defaults)
<1>1. DOMAIN full = DOMAIN d \cup {"profiles", "resources", "credentials"} /\ full.services = d.services
  BY DEF Over, Has, WellFormed
<1>2. Normalize(d) = [full EXCEPT
        !.services  = [id \in DOMAIN @ |-> NormalService(@[id])],
        !.profiles  = [id \in DOMAIN @ |-> NormalNetwork(@[id])],
        !.resources = [id \in DOMAIN @ |-> Over(@[id],
            [scope |-> "system", backup |-> FALSE, consistency |-> "filesystem"])]]
  BY DEF Normalize
<1> HIDE DEF full
<1> QED
  BY <1>1, <1>2 DEF WellFormed

LEMMA BuiltFields ==
  ASSUME NEW d, WellFormed(d)
  PROVE  LET n == Normalize(d)
             b == BuildEffective(n)
         IN  /\ "services" \in DOMAIN b /\ b = [x \in DOMAIN b |-> b[x]]
             /\ b.services = n.services
             /\ b.runtime = [id \in DOMAIN n.services |->
                               [type |-> n.services[id].runtime.type,
                                owner |-> OwnerUnit(id, n.services[id]),
                                managed |-> n.services[id].managed]]
<1>1. /\ "services" \in DOMAIN Normalize(d)
      /\ DOMAIN Normalize(d) \subseteq {"services", "profiles", "resources", "credentials"}
  BY NormalDocument
<1> QED
  BY <1>1 DEF BuildEffective, Over, Has

(* Compilation asks less before the probe has found the capabilities.      *)
LEMMA CompileUnprobed ==
  ASSUME NEW d, NEW probed \in BOOLEAN, NEW caps
  PROVE  Compile(d, probed, caps) \subseteq Compile(d, FALSE, {})
BY DEF Compile, SemanticValid, ServiceValid, CapabilitiesValid

(* What the resolution leaves of a service.                                *)
ResolvesTo(service, entry) ==
  \/ entry = service
  \/ \E inventory : entry = [service EXCEPT !.accelerators = Materialized(service, inventory)]

(* What resolve_effective makes of a document that compiles.               *)
LEMMA EffectiveForm ==
  ASSUME NEW d, WellFormed(d), NEW e \in Effective(d)
  PROVE  LET n == Normalize(d)
             b == BuildEffective(n)
         IN  /\ Compile(d, FALSE, {}) = {b} /\ SemanticValid(n, FALSE, {})
             /\ [b EXCEPT !.services = e.services] = e
             /\ DOMAIN e.services = DOMAIN n.services
             /\ e.runtime = b.runtime
             /\ \A id \in DOMAIN n.services : ResolvesTo(n.services[id], e.services[id])
<1> DEFINE n == Normalize(d)
           b == BuildEffective(n)
           caps == UNION { p.capabilities : p \in platform }
           host == A!ProbeInventory((CHOOSE p \in platform : TRUE).host)
           resolved == [b EXCEPT !.services = [id \in DOMAIN @ |->
                          [@[id] EXCEPT !.accelerators = Materialized(b.services[id], host)]]]
<1>1. Compile(d, platform # {}, caps) \subseteq {b} /\ Compile(d, FALSE, {}) \subseteq {b}
  BY DEF Compile
<1>2. b \in Compile(d, platform # {}, caps) /\ e \in {b, resolved}
  <2>1. PICK x \in Compile(d, platform # {}, caps) :
          e \in IF platform = {} THEN {x}
                ELSE LET inventory == A!ProbeInventory((CHOOSE p \in platform : TRUE).host)
                     IN  IF \A id \in DOMAIN x.services : Resolvable(x.services[id], inventory)
                         THEN {[x EXCEPT !.services = [id \in DOMAIN @ |->
                                  [@[id] EXCEPT !.accelerators = Materialized(x.services[id], inventory)]]]}
                         ELSE {}
    BY DEF Effective
  <2>2. x = b
    BY <1>1
  <2> HIDE DEF b
  <2> QED
    BY <2>1, <2>2
<1>3. b \in Compile(d, FALSE, {})
  BY <1>2, CompileUnprobed
<1>4. SemanticValid(n, FALSE, {})
  BY <1>3 DEF Compile
<1>5. "services" \in DOMAIN b /\ b = [x \in DOMAIN b |-> b[x]] /\ b.services = n.services
  BY BuiltFields
<1>b. b.runtime = [id \in DOMAIN n.services |->
                     [type |-> n.services[id].runtime.type,
                      owner |-> OwnerUnit(id, n.services[id]),
                      managed |-> n.services[id].managed]]
  BY BuiltFields
<1>r. "runtime" \in DOMAIN b
  BY DEF BuildEffective, Over
<1> DEFINE Form == /\ [b EXCEPT !.services = e.services] = e
                   /\ DOMAIN e.services = DOMAIN n.services
                   /\ e.runtime = b.runtime
                   /\ \A id \in DOMAIN n.services : ResolvesTo(n.services[id], e.services[id])
<1> HIDE DEF b, n, host
<1>6. ASSUME e = b PROVE Form
  <2>1. [b EXCEPT !.services = b.services] = b
    BY <1>5
  <2> QED
    BY <1>5, <1>6, <2>1 DEF ResolvesTo
<1>7. ASSUME e = resolved PROVE Form
  <2>1. e.services = [id \in DOMAIN b.services |->
                        [b.services[id] EXCEPT !.accelerators = Materialized(b.services[id], host)]]
    BY <1>5, <1>7
  <2>2. e.runtime = b.runtime
    BY <1>5, <1>7, <1>r
  <2>3. [b EXCEPT !.services = e.services] = e
    BY <1>5, <1>7, <2>1
  <2>4. DOMAIN e.services = DOMAIN n.services
    BY <1>5, <2>1
  <2>5. \A id \in DOMAIN n.services :
          e.services[id] = [n.services[id] EXCEPT !.accelerators = Materialized(n.services[id], host)]
    BY <1>5, <2>1
  <2> QED
    BY <2>2, <2>3, <2>4, <2>5 DEF ResolvesTo
<1>8. Form
  BY <1>2, <1>6, <1>7
<1>9. Compile(d, FALSE, {}) = {b}
  BY <1>1, <1>3
<1> QED
  BY <1>4, <1>8, <1>9 DEF n, b

LEMMA FilesParts ==
  ASSUME NEW d, NEW e
  PROVE  /\ <<"effective", "">> \in DOMAIN Files(d, e)
         /\ Files(d, e)[<<"effective", "">>] = [source |-> d, services |-> e.services, runtime |-> e.runtime]
         /\ Plan \notin DOMAIN Files(d, e)
         /\ DOMAIN Files(d, e) = { <<kind, "">> : kind \in {"effective", "caddy", "portal", "backup", "firewall"} }
                \cup { <<"unit", id>> : id \in { x \in DOMAIN e.services : e.services[x].managed } }
BY DEF Files, Plan

LEMMA WithPlanParts ==
  ASSUME NEW d, NEW files
  PROVE  /\ DOMAIN WithPlan(d, files) = DOMAIN files \cup {Plan}
         /\ WithPlan(d, files)[Plan].source = d
         /\ Plan \notin DOMAIN files => \A f \in DOMAIN files : WithPlan(d, files)[f] = files[f]
BY DEF WithPlan, With

(* What the apply is about to write is a whole bundle.                     *)
LEMMA BeginWhole ==
  ASSUME NEW d, WellFormed(d), NEW e \in Effective(d)
  PROVE  WholeBundle(WithPlan(d, Files(d, e)))
<1> DEFINE files == Files(d, e)
           all == WithPlan(d, files)
           b == BuildEffective(Normalize(d))
<1>1. /\ <<"effective", "">> \in DOMAIN files /\ Plan \notin DOMAIN files
      /\ files[<<"effective", "">>] = [source |-> d, services |-> e.services, runtime |-> e.runtime]
  BY FilesParts
<1>2. b \in Compile(d, FALSE, {}) /\ [b EXCEPT !.services = e.services] = e
  BY EffectiveForm
<1>3. Files(d, [b EXCEPT !.services = e.services]) = files
  BY <1>2
<1> HIDE DEF files, b
<1>p. /\ DOMAIN all = DOMAIN files \cup {Plan} /\ all[Plan].source = d
      /\ Plan \notin DOMAIN files => \A f \in DOMAIN files : all[f] = files[f]
  BY DEF WithPlan, With
<1>4. \A f \in DOMAIN files : all[f] = files[f]
  BY <1>1, <1>p
<1> HIDE DEF all
<1> DEFINE file == all[<<"effective", "">>]
<1>5. file = [source |-> d, services |-> e.services, runtime |-> e.runtime]
  BY <1>1, <1>4
<1>6. file.source = d /\ file.services = e.services
  <2> DEFINE es == e.services
             er == e.runtime
  <2>1. file = [source |-> d, services |-> es, runtime |-> er]
    BY <1>5
  <2> HIDE DEF file, es, er
  <2>2. file.source = d /\ file.services = es
    BY <2>1
  <2> QED
    BY <2>2 DEF es
<1>7. Files(file.source, [b EXCEPT !.services = file.services]) = files
  BY <1>3, <1>6
<1>8. b \in Compile(file.source, FALSE, {})
  BY <1>2, <1>6
<1> HIDE DEF file
<1>9. WholeBundle(all)
  BY <1>1, <1>4, <1>p, <1>6, <1>7, <1>8 DEF WholeBundle, file
<1> QED
  BY <1>9 DEF all, files

(* What status asks of the compiled state, of whatever document it is.     *)
Truthful(file) ==
  /\ DOMAIN file.services = DOMAIN file.source.services
  /\ DOMAIN file.runtime = DOMAIN file.source.services
  /\ \A id \in DOMAIN file.source.services :
       ~Has(file.source.services[id], "accelerators") =>
         EffectiveServiceValid(id, file.services[id], Normalize(file.source).services[id], file.runtime[id])

LEMMA NothingMaterialized ==
  ASSUME NEW s, NEW inventory, s.accelerators = <<>>
  PROVE  Materialized(s, inventory) = <<>>
<1> DEFINE each == [i \in DOMAIN s.accelerators |->
                      IF Resolutions(s, i, inventory) = {} THEN <<>>
                      ELSE LET selectors == CHOOSE x \in Resolutions(s, i, inventory) : TRUE
                           IN  [k \in DOMAIN selectors |->
                                 [vendor |-> "NVIDIA", quantity |-> 1, required |-> TRUE, mode |-> "shared",
                                  device |-> selectors[k]]]]
<1>1. each = <<>>
  OBVIOUS
<1>2. Materialized(s, inventory) = IF s.runtime.type = "vm" THEN s.accelerators ELSE FlattenSeq(each)
  BY DEF Materialized
<1> HIDE DEF each
<1>3. FlattenSeq(each) = <<>>
  BY <1>1 DEF FlattenSeq
<1> QED
  BY <1>2, <1>3

LEMMA BeginTruthful ==
  ASSUME NEW d, WellFormed(d), NEW e \in Effective(d)
  PROVE  Truthful([source |-> d, services |-> e.services, runtime |-> e.runtime])
<1> DEFINE n == Normalize(d)
<1>1. /\ SemanticValid(n, FALSE, {}) /\ DOMAIN e.services = DOMAIN n.services
      /\ e.runtime = [id \in DOMAIN n.services |->
                               [type |-> n.services[id].runtime.type,
                                owner |-> OwnerUnit(id, n.services[id]),
                                managed |-> n.services[id].managed]]
      /\ n.services = [id \in DOMAIN d.services |-> NormalService(d.services[id])]
  <2>1. SemanticValid(n, FALSE, {}) /\ DOMAIN e.services = DOMAIN n.services /\ e.runtime = BuildEffective(n).runtime
    BY EffectiveForm
  <2>2. n.services = [id \in DOMAIN d.services |-> NormalService(d.services[id])]
    BY NormalDocument
  <2>3. BuildEffective(n).runtime = [id \in DOMAIN n.services |->
                               [type |-> n.services[id].runtime.type,
                                owner |-> OwnerUnit(id, n.services[id]),
                                managed |-> n.services[id].managed]]
    BY BuiltFields
  <2> QED
    BY <2>1, <2>2, <2>3
<1>f. \A id \in DOMAIN n.services : ResolvesTo(n.services[id], e.services[id])
  BY EffectiveForm
<1> HIDE DEF n
<1>2. ASSUME NEW id \in DOMAIN d.services, ~Has(d.services[id], "accelerators")
      PROVE  EffectiveServiceValid(id, e.services[id], n.services[id], e.runtime[id])
  <2> DEFINE s == n.services[id]
             entry == e.services[id]
  <2>1. /\ {"kind", "runtime", "managed", "accelerators"} \subseteq DOMAIN s
        /\ s.accelerators = <<>> /\ s.kind \in {"daemon", "job", "session"}
        /\ s.kind = "daemon" => Has(s, "activation") /\ s.activation \in {"persistent", "on-demand"}
        /\ s.kind = "job" => Has(s, "schedules")
    BY <1>1, <1>2, NormalFields DEF WellFormed
  <2>2. WorkloadValid(s)
    BY <1>1 DEF SemanticValid, ServiceValid
  <2>3. \/ entry = s
        \/ \E inventory : entry = [s EXCEPT !.accelerators = Materialized(s, inventory)]
    BY <1>1, <1>2, <1>f DEF ResolvesTo
  <2> HIDE DEF s, entry
  <2>4. /\ DOMAIN entry = DOMAIN s
        /\ \A field \in DOMAIN s : entry[field] = s[field]
    <3>1. CASE entry = s
      BY <3>1
    <3>2. ASSUME NEW inventory, entry = [s EXCEPT !.accelerators = Materialized(s, inventory)]
          PROVE  DOMAIN entry = DOMAIN s /\ \A field \in DOMAIN s : entry[field] = s[field]
      <4>1. Materialized(s, inventory) = s.accelerators
        BY <2>1, NothingMaterialized
      <4> QED
        BY <2>1, <3>2, <4>1
    <3> QED
      BY <2>3, <3>1, <3>2
  <2>5. /\ e.runtime[id].owner = OwnerUnit(id, s) /\ e.runtime[id].type = s.runtime.type
        /\ e.runtime[id].managed = s.managed
    <3>1. id \in DOMAIN n.services
      BY <1>1, <1>2
    <3>2. e.runtime[id] = [type |-> s.runtime.type, owner |-> OwnerUnit(id, s), managed |-> s.managed]
      BY <1>1, <3>1, Zenon DEF s
    <3> QED
      BY <3>2
  <2>6. entry.kind = s.kind /\ entry.runtime = s.runtime /\ entry.managed = s.managed
    BY <2>1, <2>4
  <2>7. OwnerUnit(id, entry) = OwnerUnit(id, s)
    BY <2>6 DEF OwnerUnit
  <2>8. Has(entry, "activation") /\ entry.activation = "on-demand" => Has(entry, "idleSeconds")
    BY <2>1, <2>2, <2>4 DEF WorkloadValid, Has
  <2>9. /\ entry.kind = "daemon" => entry.activation \in {"persistent", "on-demand"}
        /\ entry.kind = "job" => Has(entry, "schedules")
    BY <2>1, <2>4, <2>6 DEF Has
  <2>10. EffectiveServiceValid(id, entry, s, e.runtime[id])
    BY <2>4, <2>5, <2>6, <2>7, <2>8, <2>9 DEF EffectiveServiceValid, Has
  <2> QED
    BY <2>10 DEF s, entry
<1>3. DOMAIN e.runtime = DOMAIN d.services /\ DOMAIN e.services = DOMAIN d.services
  BY <1>1
<1> QED
  BY <1>2, <1>3 DEF Truthful, n

(* The name of an output file that no unit has.                            *)
Fixed == { <<kind, "">> : kind \in {"effective", "caddy", "portal", "backup", "firewall"} }

(* Files of the apply, whose compiled state is one that status can judge.  *)
Bundle(files) ==
  /\ files = [f \in DOMAIN files |-> files[f]]
  /\ \A f \in DOMAIN files : f \in Fixed \/ f = Plan \/ f[1] = "unit"
  /\ <<"effective", "">> \in DOMAIN files => Truthful(files[<<"effective", "">>])

Whole(files) == files = <<>> \/ WholeBundle(files)

(* The files that are not to be restored are as the apply found them.      *)
Recoverable ==
  /\ Bundle(apply.previous) /\ (~torn => Whole(apply.previous))
  /\ apply.mutated \in Seq(DOMAIN apply.files \cup DOMAIN apply.previous)
  /\ \A f \in (DOMAIN out \cup DOMAIN apply.previous) \ Range(apply.mutated) :
       /\ f \in DOMAIN out /\ f \in DOMAIN apply.previous
       /\ out[f] = apply.previous[f]

(* The files that are not to be replaced or removed are the new ones.      *)
Completing ==
  /\ Bundle(apply.files) /\ WholeBundle(apply.files) /\ DOMAIN apply.files[Plan] = {"source", "changed"}
  /\ apply.pc = "replacing" =>
       /\ apply.todo \subseteq DOMAIN apply.files
       /\ apply.removals \subseteq DOMAIN apply.previous \ DOMAIN apply.files
       /\ \A f \in DOMAIN apply.files \ apply.todo : f \in DOMAIN out /\ out[f] = apply.files[f]
       /\ DOMAIN out \ DOMAIN apply.files \subseteq apply.removals

Publishing ==
  /\ torn \in BOOLEAN
  /\ Bundle(out)
  /\ holder # Applier /\ ~torn => Whole(out)
  /\ holder = Applier => Recoverable /\ Completing

DocumentInv == Locking /\ TextsFormed /\ Publishing

-----------------------------------------------------------------------------
LEMMA RangeAppend ==
  ASSUME NEW S, NEW s \in Seq(S), NEW x
  PROVE  Range(Append(s, x)) = Range(s) \cup {x}
<1>1. DOMAIN s = 1 .. Len(s) /\ Len(s) \in Nat /\ DOMAIN Append(s, x) = 1 .. Len(s) + 1
  OBVIOUS
<1>2. \A i \in 1 .. Len(s) : Append(s, x)[i] = s[i]
  OBVIOUS
<1>3. Append(s, x)[Len(s) + 1] = x
  OBVIOUS
<1>4. ASSUME NEW y \in Range(Append(s, x)) PROVE y \in Range(s) \cup {x}
  <2>1. PICK i \in 1 .. Len(s) + 1 : y = Append(s, x)[i]
    BY <1>1 DEF Range
  <2>2. CASE i = Len(s) + 1
    BY <1>3, <2>1, <2>2
  <2>3. CASE i # Len(s) + 1
    <3>1. i \in 1 .. Len(s)
      BY <1>1, <2>3
    <3> QED
      BY <1>1, <1>2, <2>1, <3>1 DEF Range
  <2> QED
    BY <2>2, <2>3
<1>5. ASSUME NEW y \in Range(s) PROVE y \in Range(Append(s, x))
  <2>1. PICK i \in 1 .. Len(s) : y = s[i]
    BY <1>1 DEF Range
  <2>2. i \in DOMAIN Append(s, x) /\ Append(s, x)[i] = y
    BY <1>1, <1>2, <2>1
  <2> QED
    BY <2>2 DEF Range
<1>6. x \in Range(Append(s, x))
  <2>1. Len(s) + 1 \in DOMAIN Append(s, x)
    BY <1>1
  <2> QED
    BY <1>3, <2>1 DEF Range
<1> QED
  BY <1>4, <1>5, <1>6

LEMMA RangeFront ==
  ASSUME NEW S, NEW s \in Seq(S), s # <<>>
  PROVE  Front(s) \in Seq(S) /\ Last(s) \in S /\ Range(s) \subseteq Range(Front(s)) \cup {Last(s)}
<1>1. Len(s) \in Nat /\ Len(s) > 0 /\ DOMAIN s = 1 .. Len(s)
  BY EmptySeq
<1>2. Front(s) = [i \in 1 .. Len(s) - 1 |-> s[i]]
  BY <1>1 DEF Front
<1>3. Front(s) \in Seq(S) /\ DOMAIN Front(s) = 1 .. Len(s) - 1
  <2>1. Front(s) = SubSeq(s, 1, Len(s) - 1)
    BY DEF Front
  <2> QED
    BY <1>1, <2>1
<1>4. Last(s) = s[Len(s)]
  BY DEF Last
<1>5. ASSUME NEW y \in Range(s) PROVE y \in Range(Front(s)) \cup {Last(s)}
  <2>1. PICK i \in 1 .. Len(s) : y = s[i]
    BY <1>1 DEF Range
  <2>2. CASE i = Len(s)
    BY <1>4, <2>1, <2>2
  <2>3. CASE i # Len(s)
    <3>0. \A n \in Nat : \A k \in 1 .. n : k # n => k \in 1 .. n - 1
      OBVIOUS
    <3>1. i \in 1 .. Len(s) - 1
      BY <1>1, <2>1, <2>3, <3>0
    <3>2. Front(s)[i] = y
      BY <1>2, <2>1, <3>1
    <3> QED
      BY <1>3, <3>1, <3>2 DEF Range
  <2> QED
    BY <2>2, <2>3
<1> QED
  BY <1>1, <1>3, <1>4, <1>5

(* Two functions are equal that agree.                                     *)
LEMMA Agreeing ==
  ASSUME NEW F, NEW G, F = [x \in DOMAIN F |-> F[x]], G = [x \in DOMAIN G |-> G[x]],
         \A x \in DOMAIN F \cup DOMAIN G : x \in DOMAIN F /\ x \in DOMAIN G /\ F[x] = G[x]
  PROVE  F = G
<1>1. DOMAIN F = DOMAIN G
  OBVIOUS
<1>2. \A x \in DOMAIN F : F[x] = G[x]
  OBVIOUS
<1> QED
  BY <1>1, <1>2

(* The files are still a bundle when one of a bundle is replaced.          *)
LEMMA BundleWith ==
  ASSUME NEW files, NEW others, Bundle(files), Bundle(others), NEW f \in DOMAIN others
  PROVE  Bundle(With(files, f, others[f]))
<1> DEFINE after == With(files, f, others[f])
<1>1. /\ after = [g \in DOMAIN after |-> after[g]] /\ DOMAIN after = DOMAIN files \cup {f}
      /\ after[f] = others[f] /\ \A g \in DOMAIN files \ {f} : after[g] = files[g]
  BY DEF With
<1> HIDE DEF after
<1>2. \A g \in DOMAIN after : g \in Fixed \/ g = Plan \/ g[1] = "unit"
  BY <1>1 DEF Bundle
<1>3. <<"effective", "">> \in DOMAIN after => Truthful(after[<<"effective", "">>])
  <2>1. CASE f = <<"effective", "">>
    BY <1>1, <2>1 DEF Bundle
  <2>2. CASE f # <<"effective", "">>
    BY <1>1, <2>2 DEF Bundle
  <2> QED
    BY <2>1, <2>2
<1>4. Bundle(after)
  BY <1>1, <1>2, <1>3 DEF Bundle
<1> QED
  BY <1>4 DEF after

LEMMA BundleWithout ==
  ASSUME Bundle(out), NEW f
  PROVE  Bundle(Without(f))
BY DEF Bundle, Without

(* Writing the plan again leaves the bundle whole.                         *)
LEMMA WholeReplanned ==
  ASSUME NEW files, Bundle(files), WholeBundle(files), DOMAIN files[Plan] = {"source", "changed"}, NEW changed
  PROVE  LET after == [files EXCEPT ![Plan] = [@ EXCEPT !.changed = changed]]
         IN  Bundle(after) /\ WholeBundle(after)
<1> DEFINE after == [files EXCEPT ![Plan] = [@ EXCEPT !.changed = changed]]
           file == files[<<"effective", "">>]
<1>0. Plan # <<"effective", "">>
  BY DEF Plan
<1>1. PICK e \in Compile(file.source, FALSE, {}) :
        LET whole == Files(file.source, [e EXCEPT !.services = file.services])
        IN  /\ DOMAIN files = DOMAIN whole \cup {Plan}
            /\ \A f \in DOMAIN whole : files[f] = whole[f]
  BY DEF WholeBundle
<1> DEFINE whole == Files(file.source, [e EXCEPT !.services = file.services])
<1>2. /\ <<"effective", "">> \in DOMAIN files /\ files[Plan].source = file.source
      /\ DOMAIN files = DOMAIN whole \cup {Plan} /\ \A f \in DOMAIN whole : files[f] = whole[f]
  BY <1>1 DEF WholeBundle
<1>3. Plan \notin DOMAIN whole
  BY FilesParts
<1>4. /\ DOMAIN after = DOMAIN files /\ after = [f \in DOMAIN after |-> after[f]]
      /\ \A f \in DOMAIN files \ {Plan} : after[f] = files[f]
  OBVIOUS
<1>5. after[Plan] = [files[Plan] EXCEPT !.changed = changed]
  BY <1>2
<1>6. after[Plan].source = files[Plan].source
  BY <1>5
<1>7. after[<<"effective", "">>] = file
  BY <1>0, <1>2, <1>4
<1> HIDE DEF whole, after, file
<1>8. \A f \in DOMAIN whole : after[f] = whole[f]
  BY <1>2, <1>3, <1>4
<1>9. WholeBundle(after)
  <2>1. DOMAIN after = DOMAIN whole \cup {Plan} /\ after[Plan].source = file.source /\ <<"effective", "">> \in DOMAIN after
    BY <1>2, <1>4, <1>6
  <2> QED
    BY <1>7, <1>8, <2>1 DEF WholeBundle, whole
<1>10. Bundle(after)
  BY <1>2, <1>4, <1>7 DEF Bundle, file
<1> QED
  BY <1>9, <1>10 DEF after

-----------------------------------------------------------------------------
(* The apply begins with the document's own files.                         *)
LEMMA ApplyBeginStep ==
  ASSUME DocumentInv, ApplyBegin PROVE Publishing'
<1> USE DocumentAssumption
<1>0. WellFormed(document) /\ holder = Nobody /\ torn \in BOOLEAN /\ Bundle(out) /\ (~torn => Whole(out))
      /\ UNCHANGED <<out, torn>>
  BY DEF DocumentInv, Publishing, TextsFormed, ApplyBegin, Free
<1> DEFINE accepted == { x \in Effective(document) : ProjectionAccepts(x, TRUE) }
           e == CHOOSE x \in accepted : TRUE
           files == Files(document, e)
           all == WithPlan(document, files)
<1>1. CASE accepted = {}
  <2>1. holder' = holder
    BY <1>1 DEF ApplyBegin
  <2> QED
    BY <1>0, <2>1 DEF Publishing, Bundle, Whole
<1>2. CASE accepted # {}
  <2>1. holder' = Applier /\ apply' = [pc |-> "replacing", files |-> all, todo |-> Differing(all), removals |-> Stale(files),
                                       previous |-> out, mutated |-> <<>>, planned |-> PlannedChanges(document, files)]
    BY <1>2 DEF ApplyBegin
  <2>2. e \in Effective(document)
    BY <1>2
  <2> HIDE DEF e
  <2>3. WholeBundle(all)
    BY <1>0, <2>2, BeginWhole
  <2>4. Truthful([source |-> document, services |-> e.services, runtime |-> e.runtime])
    BY <1>0, <2>2, BeginTruthful
  <2>5. /\ <<"effective", "">> \in DOMAIN files /\ Plan \notin DOMAIN files
        /\ files[<<"effective", "">>] = [source |-> document, services |-> e.services, runtime |-> e.runtime]
        /\ DOMAIN files = Fixed \cup { <<"unit", id>> : id \in { x \in DOMAIN e.services : e.services[x].managed } }
    BY FilesParts DEF Fixed
  <2>6. /\ DOMAIN all = DOMAIN files \cup {Plan}
        /\ all = [f \in DOMAIN all |-> all[f]]
        /\ all[Plan] = [source |-> document, changed |-> PlannedChanges(document, files)]
        /\ \A f \in DOMAIN files \ {Plan} : all[f] = files[f]
    BY DEF WithPlan, With
  <2> DEFINE todo == Differing(all)
             removals == Stale(files)
  <2>7. todo = { f \in DOMAIN all : f \notin DOMAIN out \/ out[f] # all[f] }
    BY DEF Differing
  <2>8. removals = { f \in DOMAIN out : f[1] = "unit" } \ DOMAIN files
    BY DEF Stale
  <2>9. /\ apply'.pc = "replacing" /\ apply'.files = all /\ apply'.todo = todo /\ apply'.removals = removals
        /\ apply'.previous = out /\ apply'.mutated = <<>>
    BY <2>1
  <2>10. DOMAIN all[Plan] = {"source", "changed"}
    BY <2>6
  <2>11. Bundle(all)
    <3> DEFINE units == { <<"unit", id>> : id \in { x \in DOMAIN e.services : e.services[x].managed } }
    <3>0. \A f \in units : f[1] = "unit"
      OBVIOUS
    <3> HIDE DEF units
    <3>1. \A f \in DOMAIN all : f \in Fixed \/ f = Plan \/ f[1] = "unit"
      BY <2>5, <2>6, <3>0 DEF units
    <3>2. Truthful(all[<<"effective", "">>])
      BY <2>4, <2>5, <2>6
    <3> QED
      BY <2>6, <3>1, <3>2 DEF Bundle
  <2> HIDE DEF all, files, todo, removals
  <2>12. \A f \in removals : f # Plan
    <3>1. Plan[1] # "unit"
      BY DEF Plan
    <3> QED
      BY <2>8, <3>1
  <2>13. /\ todo \subseteq DOMAIN all /\ removals \subseteq DOMAIN out \ DOMAIN all
         /\ \A f \in DOMAIN all \ todo : f \in DOMAIN out /\ out[f] = all[f]
    BY <2>6, <2>7, <2>8, <2>12
  <2>14. DOMAIN out \ DOMAIN all \subseteq removals
    BY <1>0, <2>5, <2>6, <2>8 DEF Bundle
  <2>15. Completing'
    BY <1>0, <2>3, <2>9, <2>10, <2>11, <2>13, <2>14 DEF Completing
  <2>16. Recoverable'
    <3>1. Range(<<>>) = {}
      BY DEF Range
    <3>2. <<>> \in Seq(DOMAIN all \cup DOMAIN out)
      OBVIOUS
    <3> QED
      BY <1>0, <2>9, <3>1, <3>2 DEF Recoverable, Bundle, Whole
  <2> QED
    BY <1>0, <2>1, <2>15, <2>16 DEF Publishing, Bundle
<1> QED
  BY <1>1, <1>2

(* A file is replaced, or a stale one removed.                             *)
LEMMA ApplyFileStep ==
  ASSUME DocumentInv, ApplyFile PROVE Publishing'
<1> DEFINE F == apply.files
           P == apply.previous
           M == apply.mutated
           fields == {"pc", "files", "todo", "removals", "previous", "mutated", "planned"}
<1>1. /\ holder = Applier /\ DOMAIN apply = fields /\ torn \in BOOLEAN /\ Bundle(out)
      /\ apply.pc = "replacing" /\ UNCHANGED <<holder, torn>>
  BY DEF DocumentInv, Publishing, Locking, ApplyFile
<1>2. /\ Bundle(P) /\ (~torn => Whole(P)) /\ M \in Seq(DOMAIN F \cup DOMAIN P)
      /\ \A f \in (DOMAIN out \cup DOMAIN P) \ Range(M) : f \in DOMAIN out /\ f \in DOMAIN P /\ out[f] = P[f]
  BY <1>1 DEF DocumentInv, Publishing, Recoverable
<1>3. /\ Bundle(F) /\ WholeBundle(F) /\ DOMAIN F[Plan] = {"source", "changed"}
      /\ apply.todo \subseteq DOMAIN F /\ apply.removals \subseteq DOMAIN P \ DOMAIN F
      /\ \A f \in DOMAIN F \ apply.todo : f \in DOMAIN out /\ out[f] = F[f]
      /\ DOMAIN out \ DOMAIN F \subseteq apply.removals
  BY <1>1 DEF DocumentInv, Publishing, Completing
<1> DEFINE Stays == apply'.pc = "replacing" /\ apply'.files = F /\ apply'.previous = P
<1>4. ASSUME NEW f \in DOMAIN F \cup DOMAIN P, Stays, apply'.mutated = Append(M, f), Bundle(out'),
             DOMAIN out' \in {DOMAIN out \cup {f}, DOMAIN out \ {f}},
             \A g \in DOMAIN out \ {f} : out'[g] = out[g],
             apply'.todo \subseteq DOMAIN F, apply'.removals \subseteq DOMAIN P \ DOMAIN F,
             \A g \in DOMAIN F \ apply'.todo : g \in DOMAIN out' /\ out'[g] = F[g],
             DOMAIN out' \ DOMAIN F \subseteq apply'.removals
      PROVE  Publishing'
  <2> HIDE DEF F, P, M
  <2>1. apply'.pc = "replacing" /\ apply'.files = F /\ apply'.previous = P
    BY <1>4
  <2>2. Completing'
    BY <1>3, <1>4, <2>1 DEF Completing
  <2>3. /\ Range(Append(M, f)) = Range(M) \cup {f}
        /\ Append(M, f) \in Seq(DOMAIN F \cup DOMAIN P)
    BY <1>2, RangeAppend
  <2>4. \A g \in (DOMAIN out' \cup DOMAIN P) \ (Range(M) \cup {f}) :
          g \in DOMAIN out' /\ g \in DOMAIN P /\ out'[g] = P[g]
    BY <1>2, <1>4
  <2>5. Recoverable'
    BY <1>1, <1>2, <1>4, <2>1, <2>3, <2>4 DEF Recoverable
  <2> QED
    BY <1>1, <1>4, <2>2, <2>5 DEF Publishing
<1>5. CASE \E f \in InOrder(apply.todo) :
             /\ out' = With(out, f, apply.files[f])
             /\ apply' = [apply EXCEPT !.todo = @ \ {f}, !.mutated = Append(@, f)]
  <2>1. PICK f \in InOrder(apply.todo) :
             /\ out' = With(out, f, F[f])
             /\ apply' = [apply EXCEPT !.todo = @ \ {f}, !.mutated = Append(@, f)]
    BY <1>5
  <2>2. f \in apply.todo /\ f \in DOMAIN F
    BY <1>3 DEF InOrder
  <2>3. Stays /\ apply'.mutated = Append(M, f) /\ apply'.todo = apply.todo \ {f} /\ apply'.removals = apply.removals
    BY <1>1, <2>1
  <2> HIDE DEF F, P, M, Stays
  <2>4. Bundle(out')
    BY <1>1, <1>3, <2>1, <2>2, BundleWith
  <2>5. DOMAIN out' = DOMAIN out \cup {f} /\ out'[f] = F[f] /\ \A g \in DOMAIN out \ {f} : out'[g] = out[g]
    BY <2>1 DEF With
  <2>6. /\ apply'.todo \subseteq DOMAIN F /\ apply'.removals \subseteq DOMAIN P \ DOMAIN F
        /\ \A g \in DOMAIN F \ apply'.todo : g \in DOMAIN out' /\ out'[g] = F[g]
        /\ DOMAIN out' \ DOMAIN F \subseteq apply'.removals
    BY <1>3, <2>2, <2>3, <2>5
  <2> QED
    BY <1>4, <2>2, <2>3, <2>4, <2>5, <2>6
<1>6. CASE \E f \in apply.removals :
             /\ apply.todo = {}
             /\ out' = Without(f)
             /\ apply' = [apply EXCEPT !.removals = @ \ {f}, !.mutated = Append(@, f)]
  <2>1. PICK f \in apply.removals :
             /\ apply.todo = {}
             /\ out' = Without(f)
             /\ apply' = [apply EXCEPT !.removals = @ \ {f}, !.mutated = Append(@, f)]
    BY <1>6
  <2>2. f \in DOMAIN P \ DOMAIN F
    BY <1>3
  <2>3. Stays /\ apply'.mutated = Append(M, f) /\ apply'.removals = apply.removals \ {f} /\ apply'.todo = apply.todo
    BY <1>1, <2>1
  <2> HIDE DEF F, P, M, Stays
  <2>4. Bundle(out')
    BY <1>1, <2>1, BundleWithout
  <2>5. DOMAIN out' = DOMAIN out \ {f} /\ \A g \in DOMAIN out \ {f} : out'[g] = out[g]
    BY <2>1 DEF Without
  <2>6. /\ apply'.todo \subseteq DOMAIN F /\ apply'.removals \subseteq DOMAIN P \ DOMAIN F
        /\ \A g \in DOMAIN F \ apply'.todo : g \in DOMAIN out' /\ out'[g] = F[g]
        /\ DOMAIN out' \ DOMAIN F \subseteq apply'.removals
    BY <1>3, <2>2, <2>3, <2>5
  <2> QED
    BY <1>4, <2>2, <2>3, <2>4, <2>5, <2>6
<1> QED
  BY <1>5, <1>6 DEF ApplyFile

(* All files are replaced: they are the new ones.                          *)
LEMMA ApplyDoneStep ==
  ASSUME DocumentInv, ApplyDone PROVE Publishing'
<1> USE DocumentAssumption
<1> DEFINE F == apply.files
           changed == Range(apply.mutated)
<1>1. /\ holder = Applier /\ Bundle(out) /\ apply.pc = "replacing" /\ apply.todo = {} /\ apply.removals = {}
      /\ holder' = Nobody /\ torn' = FALSE
  BY DEF DocumentInv, Publishing, Locking, ApplyDone
<1>2. /\ Bundle(F) /\ WholeBundle(F) /\ DOMAIN F[Plan] = {"source", "changed"}
      /\ \A f \in DOMAIN F : f \in DOMAIN out /\ out[f] = F[f]
      /\ DOMAIN out \ DOMAIN F \subseteq {}
  BY <1>1 DEF DocumentInv, Publishing, Completing
<1>3. out' = out \/ out' = [out EXCEPT ![Plan] = [@ EXCEPT !.changed = changed]]
  BY DEF ApplyDone
<1> HIDE DEF F, changed
<1>4. out = F
  <2>1. out = [f \in DOMAIN out |-> out[f]] /\ F = [f \in DOMAIN F |-> F[f]]
    BY <1>1, <1>2 DEF Bundle
  <2>2. \A f \in DOMAIN out \cup DOMAIN F : f \in DOMAIN out /\ f \in DOMAIN F /\ out[f] = F[f]
    BY <1>2
  <2> QED
    BY <2>1, <2>2, Agreeing
<1>5. Bundle(out') /\ WholeBundle(out')
  <2>1. CASE out' = out
    BY <1>2, <1>4, <2>1
  <2>2. CASE out' = [out EXCEPT ![Plan] = [@ EXCEPT !.changed = changed]]
    <3>1. Bundle([F EXCEPT ![Plan] = [@ EXCEPT !.changed = changed]])
          /\ WholeBundle([F EXCEPT ![Plan] = [@ EXCEPT !.changed = changed]])
      BY <1>2, WholeReplanned
    <3> QED
      BY <1>4, <2>2, <3>1
  <2> QED
    BY <1>3, <2>1, <2>2
<1> QED
  BY <1>1, <1>5 DEF Publishing, Whole

(* What was not changed is as the apply found it.                          *)
LEMMA Unmutated ==
  ASSUME DocumentInv, holder = Applier, apply.mutated = <<>> PROVE out = apply.previous
<1> DEFINE P == apply.previous
<1>1. Range(<<>>) = {}
  BY DEF Range
<1>2. \A f \in DOMAIN out \cup DOMAIN P : f \in DOMAIN out /\ f \in DOMAIN P /\ out[f] = P[f]
  BY <1>1 DEF DocumentInv, Publishing, Recoverable
<1>3. out = [f \in DOMAIN out |-> out[f]] /\ P = [f \in DOMAIN P |-> P[f]]
  BY DEF DocumentInv, Publishing, Recoverable, Bundle
<1> HIDE DEF P
<1>4. out = P
  BY <1>2, <1>3, Agreeing
<1> QED
  BY <1>4 DEF P

(* A file is given back what it held.                                      *)
LEMMA ApplyRestoreStep ==
  ASSUME DocumentInv, ApplyRestore PROVE Publishing'
<1> USE DocumentAssumption
<1> DEFINE F == apply.files
           P == apply.previous
           M == apply.mutated
           fields == {"pc", "files", "todo", "removals", "previous", "mutated", "planned"}
<1>1. /\ holder = Applier /\ DOMAIN apply = fields /\ torn \in BOOLEAN /\ Bundle(out)
      /\ apply.pc = "restoring" /\ UNCHANGED torn
  BY DEF DocumentInv, Publishing, Locking, ApplyRestore
<1>2. /\ Bundle(P) /\ (~torn => Whole(P)) /\ M \in Seq(DOMAIN F \cup DOMAIN P)
      /\ \A f \in (DOMAIN out \cup DOMAIN P) \ Range(M) : f \in DOMAIN out /\ f \in DOMAIN P /\ out[f] = P[f]
  BY <1>1 DEF DocumentInv, Publishing, Recoverable
<1>3. /\ Bundle(F) /\ WholeBundle(F) /\ DOMAIN F[Plan] = {"source", "changed"}
  BY <1>1 DEF DocumentInv, Publishing, Completing
<1>4. CASE M = <<>>
  <2>1. holder' = Nobody /\ out' = out
    BY <1>4 DEF ApplyRestore
  <2>2. out = P
    BY <1>1, <1>4, Unmutated
  <2> HIDE DEF P, M, F
  <2> QED
    BY <1>1, <1>2, <2>1, <2>2 DEF Publishing
<1>5. CASE M # <<>>
  <2> DEFINE f == Last(M)
  <2>1. holder' = holder /\ out' = Restored(f) /\ apply' = [apply EXCEPT !.mutated = Front(@)]
    BY <1>5 DEF ApplyRestore
  <2>2. /\ apply'.pc = "restoring" /\ apply'.files = F /\ apply'.previous = P /\ apply'.mutated = Front(M)
    BY <1>1, <2>1
  <2>3. out' = IF f \in DOMAIN P THEN With(out, f, P[f]) ELSE Without(f)
    BY <2>1 DEF Restored
  <2> HIDE DEF P, M, F
  <2>4. Front(M) \in Seq(DOMAIN F \cup DOMAIN P) /\ Range(M) \subseteq Range(Front(M)) \cup {f}
    BY <1>2, <1>5, RangeFront
  <2> HIDE DEF f
  <2>5. /\ \A g \in DOMAIN out' \cup DOMAIN out : g # f => g \in DOMAIN out' /\ g \in DOMAIN out /\ out'[g] = out[g]
        /\ f \in DOMAIN P => f \in DOMAIN out' /\ out'[f] = P[f]
        /\ f \notin DOMAIN P => f \notin DOMAIN out'
    BY <2>3 DEF With, Without
  <2>6. Bundle(out')
    <3>1. CASE f \in DOMAIN P
      BY <1>1, <1>2, <2>3, <3>1, BundleWith
    <3>2. CASE f \notin DOMAIN P
      BY <1>1, <2>3, <3>2, BundleWithout
    <3> QED
      BY <3>1, <3>2
  <2>7. \A g \in (DOMAIN out' \cup DOMAIN P) \ Range(Front(M)) : g \in DOMAIN out' /\ g \in DOMAIN P /\ out'[g] = P[g]
    BY <1>2, <2>4, <2>5
  <2>8. Recoverable'
    BY <1>1, <1>2, <2>2, <2>4, <2>7 DEF Recoverable
  <2>9. Completing'
    BY <1>3, <2>2 DEF Completing
  <2> QED
    BY <1>1, <2>1, <2>6, <2>8, <2>9 DEF Publishing
<1> QED
  BY <1>4, <1>5

LEMMA PublishingStep == DocumentInv /\ [Next]_vars => DocumentInv'
<1> SUFFICES ASSUME DocumentInv, [Next]_vars PROVE Publishing'
  BY LockingStep DEF DocumentInv
<1> USE DocumentAssumption
<1>1. ASSUME UNCHANGED <<holder, apply, out, torn>> PROVE Publishing'
  BY <1>1 DEF DocumentInv, Publishing, Recoverable, Completing
<1>2. ASSUME UNCHANGED <<out, torn>>, holder # Applier, holder' # Applier PROVE Publishing'
  BY <1>2 DEF DocumentInv, Publishing
<1>3. CASE UNCHANGED vars
  BY <1>1, <1>3 DEF vars
<1>4. ASSUME NEW c \in Clients, Read(c) \/ Replace(c) \/ Reconcile(c) \/ StatusRead(c) \/ StatusReport(c)
                                \/ (\E text \in Candidates : Submit(c, text))
      PROVE  Publishing'
  BY <1>1, <1>4 DEF Read, Replace, Reconcile, StatusRead, StatusReport, Submit
<1>5. ASSUME NEW c \in Clients, WriteModes(c) \/ (\E modes \in ModeRequests : BeginModes(c, modes)) PROVE Publishing'
  <2>1. UNCHANGED <<out, torn>> /\ holder # Applier /\ holder' # Applier
    BY <1>5 DEF WriteModes, BeginModes, DocumentInv, Locking, Free
  <2> QED
    BY <1>2, <2>1
<1>6. ASSUME NEW c \in Clients, KillClient(c) PROVE Publishing'
  <2>1. UNCHANGED <<out, torn, apply>> /\ (holder' = holder \/ (holder = c /\ holder' = Nobody))
    BY <1>6 DEF KillClient
  <2> QED
    BY <1>1, <1>2, <2>1
<1>7. CASE (\E p \in Inventories : Probe(p)) \/ StartUnit
  <2>1. UNCHANGED <<out, torn, holder>> /\ holder # Applier
    BY <1>7 DEF Probe, StartUnit, DocumentInv, Locking
  <2> QED
    BY <1>2, <2>1
<1>8. CASE ApplyFail
  <2>1. /\ UNCHANGED <<out, torn, holder>> /\ holder = Applier /\ apply' = [apply EXCEPT !.pc = "restoring"]
        /\ DOMAIN apply = {"pc", "files", "todo", "removals", "previous", "mutated", "planned"}
    BY <1>8 DEF ApplyFail, DocumentInv, Locking
  <2>2. apply'.pc = "restoring" /\ apply'.files = apply.files /\ apply'.previous = apply.previous
        /\ apply'.mutated = apply.mutated
    BY <2>1
  <2>3. Recoverable'
    BY <2>1, <2>2 DEF DocumentInv, Publishing, Recoverable
  <2>4. Completing'
    BY <2>1, <2>2 DEF DocumentInv, Publishing, Completing
  <2> QED
    BY <2>1, <2>3, <2>4 DEF DocumentInv, Publishing
<1>9. CASE ApplyStopped
  <2>1. /\ UNCHANGED out /\ holder = Applier /\ holder' = Nobody /\ torn' = (torn \/ apply.mutated # <<>>)
    BY <1>9 DEF ApplyStopped, DocumentInv, Locking
  <2>2. torn \in BOOLEAN /\ Bundle(out) /\ (~torn => Whole(apply.previous))
    BY <2>1 DEF DocumentInv, Publishing, Recoverable
  <2>3. apply.mutated = <<>> => out = apply.previous
    BY <2>1, Unmutated
  <2> QED
    BY <2>1, <2>2, <2>3 DEF Publishing
<1> QED
  BY <1>3, <1>4, <1>5, <1>6, <1>7, <1>8, <1>9, ApplyBeginStep, ApplyFileStep, ApplyDoneStep, ApplyRestoreStep DEF Next

LEMMA PublishingInit == Init => DocumentInv
<1> SUFFICES ASSUME Init PROVE Publishing
  BY LockingInit DEF DocumentInv
<1>1. out = <<>> /\ torn = FALSE /\ holder = Nobody
  BY DEF Init
<1>2. Bundle(<<>>)
  BY DEF Bundle
<1> QED
  BY <1>1, <1>2, DocumentAssumption DEF Publishing, Whole

(* The files, the plan and the lock agree at every step of the apply, and  *)
(* the compiled state is one that status can judge.                        *)
THEOREM DocumentInvariant == Spec => []DocumentInv
BY PublishingInit, PublishingStep, PTL DEF Spec

(* Whoever reads while no apply is at work finds the files of one          *)
(* document, unless an apply was killed or could not restore.              *)
THEOREM DocumentBundleWhole == Spec => []BundleWhole
<1>1. DocumentInv => BundleWhole
  BY DEF DocumentInv, Publishing, Whole, BundleWhole
<1> QED
  BY <1>1, DocumentInvariant, PTL

(* Status calls a service verified exactly when the compiled state was     *)
(* made from the text it read.                                             *)
THEOREM DocumentStatusTruthful == Spec => []StatusTruthful
<1>1. ASSUME DocumentInv PROVE StatusTruthful
  <2> SUFFICES ASSUME NEW c \in Clients, client[c].pc = "observing", NEW id \in DOMAIN client[c].seen.services
               PROVE  LET seen == client[c].seen
                          made == <<"effective", "">> \in DOMAIN out /\ out[<<"effective", "">>].source = seen
                      IN  /\ Verified(seen, id) => made
                          /\ made /\ ~Has(seen.services[id], "accelerators") => Verified(seen, id)
    BY DEF StatusTruthful
  <2> DEFINE seen == client[c].seen
             file == out[<<"effective", "">>]
  <2>1. Verified(seen, id) => <<"effective", "">> \in DOMAIN out /\ file.source = seen
    BY DEF Verified, EffectiveLoaded
  <2>2. ASSUME <<"effective", "">> \in DOMAIN out, file.source = seen, ~Has(seen.services[id], "accelerators")
        PROVE  Verified(seen, id)
    <3>1. Truthful(file)
      BY <1>1, <2>2 DEF DocumentInv, Publishing, Bundle
    <3>2. /\ DOMAIN file.services = DOMAIN seen.services /\ DOMAIN file.runtime = DOMAIN seen.services
          /\ EffectiveServiceValid(id, file.services[id], Normalize(seen).services[id], file.runtime[id])
      BY <2>2, <3>1 DEF Truthful
    <3> QED
      BY <2>2, <3>2 DEF Verified, EffectiveLoaded
  <2> QED
    BY <2>1, <2>2
<1> QED
  BY <1>1, DocumentInvariant, PTL

-----------------------------------------------------------------------------
(* 3. The compiler: ports and routes.                                      *)

LEMMA ListenerOwned ==
  ASSUME NEW e, NEW id \in DOMAIN e.services, NEW l \in DOMAIN e.services[id].listeners,
         e.services[id].listeners[l].protocol = "tcp",
         NEW port \in ListenerPorts(e.services[id].listeners[l])
  PROVE  Holds(id, port) \in PortOwners(e)
<1> DEFINE claim == [service |-> id, listener |-> l, protocol |-> e.services[id].listeners[l].protocol, port |-> port]
<1>1. claim \in ListenerClaims(e)
  <2> DEFINE claims(i, k) == { [service |-> i, listener |-> k, protocol |-> e.services[i].listeners[k].protocol,
                                port |-> p] : p \in ListenerPorts(e.services[i].listeners[k]) }
             all(i) == UNION { claims(i, k) : k \in DOMAIN e.services[i].listeners }
  <2>1. claim \in claims(id, l)
    OBVIOUS
  <2>2. ListenerClaims(e) = UNION { all(i) : i \in DOMAIN e.services }
    BY DEF ListenerClaims
  <2> HIDE DEF claims, claim
  <2>3. claim \in all(id)
    BY <2>1
  <2> HIDE DEF all
  <2> QED
    BY <2>2, <2>3
<1>2. claim.protocol = "tcp" /\ claim.service = id /\ claim.port = port
  OBVIOUS
<1> HIDE DEF claim
<1> QED
  BY <1>1, <1>2 DEF PortOwners

LEMMA TargetOwned ==
  ASSUME NEW e, NEW id \in InMode(e, "host"), NEW l \in DOMAIN e.services[id].listeners,
         e.services[id].listeners[l].protocol = "tcp", Has(e.services[id].listeners[l], "target")
  PROVE  Holds(id, e.services[id].listeners[l].target) \in PortOwners(e)
BY DEF PortOwners

LEMMA RouteOwned ==
  ASSUME NEW e, NEW id \in InMode(e, "host"), NEW r \in LoopbackRoutes(e.services[id], "host")
  PROVE  Holds(id, e.services[id].routes[r].target.port) \in PortOwners(e)
BY DEF PortOwners

LEMMA NoIntruder ==
  ASSUME NEW e, RoutePublicationsValid(e), NEW mine \in IsolatedRoutePorts(e)
  PROVE  Intruders(e, mine.service, mine.port) = {}
<1>1. ASSUME NEW other \in DOMAIN e.services, Holds(other, mine.port) \in PortOwners(e) \cup IsolatedRoutePorts(e)
      PROVE  other = mine.service
  <2>1. Holds(other, mine.port).port = mine.port /\ Holds(other, mine.port).service = other
    BY DEF Holds
  <2> QED
    BY <1>1, <2>1 DEF RoutePublicationsValid
<1>2. ASSUME NEW other \in Intruders(e, mine.service, mine.port) PROVE FALSE
  <2> DEFINE s == e.services[other]
             mode == NetworkPolicy(e, s).mode
             port == mine.port
  <2>1. other \in DOMAIN e.services /\ other # mine.service
    BY <1>2 DEF Intruders
  <2>2. \/ \E l \in DOMAIN s.listeners : s.listeners[l].protocol = "tcp" /\
             IF mode = "host" /\ Has(s.listeners[l], "target") THEN s.listeners[l].target = port
             ELSE port \in ListenerPorts(s.listeners[l])
        \/ mode \in {"host", "isolated"} /\ \E r \in LoopbackRoutes(s, mode) : s.routes[r].target.port = port
    BY <1>2 DEF Intruders
  <2>3. mode = "host" => other \in InMode(e, "host")
    BY <2>1 DEF InMode
  <2>4. mode = "isolated" => other \in InMode(e, "isolated")
    BY <2>1 DEF InMode
  <2>5. CASE \E l \in DOMAIN s.listeners : s.listeners[l].protocol = "tcp" /\
               IF mode = "host" /\ Has(s.listeners[l], "target") THEN s.listeners[l].target = port
               ELSE port \in ListenerPorts(s.listeners[l])
    <3>1. PICK l \in DOMAIN s.listeners : s.listeners[l].protocol = "tcp" /\
               IF mode = "host" /\ Has(s.listeners[l], "target") THEN s.listeners[l].target = port
               ELSE port \in ListenerPorts(s.listeners[l])
      BY <2>5
    <3>2. CASE mode = "host" /\ Has(s.listeners[l], "target")
      BY <1>1, <2>1, <2>3, <3>1, <3>2, TargetOwned
    <3>3. CASE ~(mode = "host" /\ Has(s.listeners[l], "target"))
      BY <1>1, <2>1, <3>1, <3>3, ListenerOwned
    <3> QED
      BY <3>2, <3>3
  <2>6. CASE mode \in {"host", "isolated"} /\ \E r \in LoopbackRoutes(s, mode) : s.routes[r].target.port = port
    <3>1. PICK r \in LoopbackRoutes(s, mode) : s.routes[r].target.port = port
      BY <2>6
    <3>2. CASE mode = "host"
      BY <1>1, <2>1, <2>3, <3>1, <3>2, RouteOwned
    <3>3. CASE mode = "isolated"
      <4>1. Holds(other, port) \in IsolatedRoutePorts(e)
        BY <2>4, <3>1, <3>3 DEF IsolatedRoutePorts
      <4> QED
        BY <1>1, <2>1, <4>1
    <3> QED
      BY <2>6, <3>2, <3>3
  <2> QED
    BY <2>2, <2>5, <2>6
<1> QED
  BY <1>2

LEMMA AcceptedRouteOpen ==
  ASSUME NEW s, NEW policies, policies.routes = RoutePorts(s), NEW r \in DOMAIN s.routes
  PROVE  RouteOpen(s, policies, s.routes[r].target.port)
<1> DEFINE port == s.routes[r].target.port
           same == { l \in DOMAIN s.listeners :
                       /\ s.listeners[l].protocol = "tcp"
                       /\ SinglePort(s.listeners[l]) /\ s.listeners[l].first = port }
           chosen == CHOOSE l \in same : TRUE
<1>1. (IF same # {} /\ Has(s.listeners[chosen], "target") THEN s.listeners[chosen].target ELSE port) \in RoutePorts(s)
  BY DEF RoutePorts
<1> DEFINE made(l) == [protocol |-> s.listeners[l].protocol, host |-> s.listeners[l].first,
                       container |-> IF Has(s.listeners[l], "target") THEN s.listeners[l].target ELSE s.listeners[l].first,
                       bind |-> IF \E x \in LoopbackRoutes(s, "isolated") :
                                     s.listeners[l].protocol = "tcp" /\ s.routes[x].target.port = s.listeners[l].first
                                THEN "loopback" ELSE "any"]
           ranged(l, p) == [protocol |-> s.listeners[l].protocol, host |-> p, container |-> p, bind |-> "any"]
<1>2. CASE same # {}
  <2>1. chosen \in same
    BY <1>2
  <2> HIDE DEF chosen
  <2>2. made(chosen) \in ListenerPublications(s)
    BY <2>1 DEF ListenerPublications
  <2>3. made(chosen).protocol = "tcp" /\ made(chosen).host = port
        /\ made(chosen).container = IF Has(s.listeners[chosen], "target") THEN s.listeners[chosen].target ELSE port
    BY <2>1
  <2> HIDE DEF made
  <2>4. made(chosen).container \in policies.routes
    BY <1>1, <1>2, <2>3
  <2> QED
    BY <2>2, <2>3, <2>4 DEF RouteOpen, Publications
<1>3. CASE same = {}
  <2>1. port \in policies.routes
    BY <1>1, <1>3
  <2> DEFINE taken == { x.host : x \in { y \in ListenerPublications(s) : y.protocol = "tcp" } }
  <2>2. CASE port \in taken
    <3>1. PICK x \in ListenerPublications(s) : x.protocol = "tcp" /\ x.host = port
      BY <2>2
    <3>2. PICK l \in DOMAIN s.listeners :
            x \in IF SinglePort(s.listeners[l]) THEN {made(l)} ELSE { ranged(l, p) : p \in ListenerPorts(s.listeners[l]) }
      BY <3>1 DEF ListenerPublications
    <3>3. ~SinglePort(s.listeners[l])
      <4>1. SUFFICES ASSUME SinglePort(s.listeners[l]) PROVE FALSE
        OBVIOUS
      <4>2. x = made(l)
        BY <3>2, <4>1
      <4>3. made(l).protocol = s.listeners[l].protocol /\ made(l).host = s.listeners[l].first
        OBVIOUS
      <4> HIDE DEF made
      <4>4. l \in same
        BY <3>1, <4>1, <4>2, <4>3
      <4> QED
        BY <1>3, <4>4
    <3>4. PICK p \in ListenerPorts(s.listeners[l]) : x = ranged(l, p)
      BY <3>2, <3>3
    <3>5. x.container = x.host
      BY <3>4
    <3> QED
      BY <2>1, <3>1, <3>5 DEF RouteOpen, Publications
  <2>3. CASE port \notin taken
    <3> DEFINE x == [protocol |-> "tcp", host |-> port, container |-> port, bind |-> "loopback"]
    <3>1. x \in Publications(s)
      BY <2>3 DEF Publications
    <3>2. x.protocol = "tcp" /\ x.host = port /\ x.container = port
      OBVIOUS
    <3> HIDE DEF x
    <3> QED
      BY <2>1, <3>1, <3>2 DEF RouteOpen
  <2> QED
    BY <2>2, <2>3
<1> QED
  BY <1>2, <1>3

(* In a document that compiles no other service has the host port that an  *)
(* isolated container publishes for a route: the service is the owner of   *)
(* it, and the compiler refuses an owner beside it.                        *)
THEOREM CompilerRoutePortsExclusive == CompilerSpec => []RoutePortsExclusive
<1>1. RoutePortsExclusive
  <2> SUFFICES ASSUME Valid(input), NEW published \in IsolatedRoutePorts(Normalize(input))
               PROVE  Intruders(Normalize(input), published.service, published.port) = {}
    BY DEF RoutePortsExclusive
  <2>1. RoutePublicationsValid(Normalize(input))
    BY DEF Valid, SemanticValid
  <2> QED
    BY <2>1, NoIntruder
<1> QED
  BY <1>1, PTL

(* In a document that is projected the published port of an isolated       *)
(* service and its firewall policy agree on the port behind each route.    *)
THEOREM CompilerRoutesOpen == CompilerSpec => []RoutesOpen
<1>1. RoutesOpen
  <2> DEFINE e == Normalize(input)
             zones == FirewallPolicies(e).zones
  <2>1. ASSUME NEW id \in DOMAIN zones, NEW r \in DOMAIN e.services[id].routes
        PROVE  RouteOpen(e.services[id], zones[id], e.services[id].routes[r].target.port)
    <3>1. zones[id].routes = RoutePorts(e.services[id])
      BY <2>1 DEF FirewallPolicies, IsolatedPolicies
    <3> QED
      BY <2>1, <3>1, AcceptedRouteOpen
  <2> QED
    BY <2>1 DEF RoutesOpen
<1> QED
  BY <1>1, PTL

LEMMA FoldedSequence ==
  ASSUME NEW path, PathFormed(path)
  PROVE  LET f == Folded(path.segments)
         IN  /\ f \in Seq(Range(f)) /\ Len(f) = Len(path.segments) /\ Len(f) \in Nat
             /\ f = <<>> <=> path.segments = <<>>
             /\ Canonical(path) = f
<1> DEFINE s == path.segments
           f == Folded(s)
<1>1. s \in Seq(Range(s))
  BY DEF PathFormed
<1>2. DOMAIN s = 1 .. Len(s) /\ Len(s) \in Nat
  BY <1>1
<1>3. f = [i \in 1 .. Len(s) |-> Fold[s[i]]]
  BY <1>2 DEF Folded
<1>4. Canonical(path) = f
  BY DEF Canonical, Folded
<1> HIDE DEF s, f
<1>5. \A i \in 1 .. Len(s) : f[i] \in Range(f)
  BY <1>3 DEF Range
<1>6. f \in Seq(Range(f)) /\ Len(f) = Len(s)
  BY <1>2, <1>3, <1>5
<1>7. f = <<>> <=> s = <<>>
  BY <1>1, <1>2, <1>6, EmptySeq
<1> QED
  BY <1>2, <1>4, <1>6, <1>7 DEF s, f

LEMMA WholeSubSeq ==
  ASSUME NEW S, NEW s \in Seq(S) PROVE SubSeq(s, 1, Len(s)) = s
<1>1. Len(s) \in Nat /\ s = [i \in 1 .. Len(s) |-> s[i]]
  OBVIOUS
<1> QED
  BY <1>1

LEMMA PrefixesAlike ==
  ASSUME NEW S, NEW T, NEW s \in Seq(S), NEW t \in Seq(T), NEW q,
         IsPrefix(s, q), IsPrefix(t, q), Len(s) = Len(t)
  PROVE  s = t
BY WholeSubSeq DEF IsPrefix

(* The patterns of a path are those of all that lies at or below it.       *)
LEMMA PatternsMatch ==
  ASSUME NEW path, PathFormed(path), NEW request, PathFormed(request)
  PROVE  (\E p \in PathPatterns(path) : Matches(p, request)) <=> IsPrefix(Canonical(path), Folded(request.segments))
<1> DEFINE p == Folded(path.segments)
           q == Folded(request.segments)
           exact == [form |-> "exact", segments |-> path.segments]
           below == [form |-> "below", segments |-> path.segments]
<1>1. Matches(exact, request) <=> p = q /\ ~request.slash
  BY DEF Matches
<1>2. Matches(below, request) <=> IsPrefix(p, q) /\ (p # q \/ request.slash)
  BY DEF Matches
<1>3. PathPatterns(path) = (IF path.segments = <<>> THEN {} ELSE {exact}) \cup {below}
  BY DEF PathPatterns
<1>4. /\ p \in Seq(Range(p)) /\ (p = <<>> <=> path.segments = <<>>) /\ Canonical(path) = p /\ Len(p) \in Nat
  BY FoldedSequence
<1>5. q = <<>> <=> request.segments = <<>>
  BY FoldedSequence
<1>6. request.segments = <<>> => request.slash
  BY DEF PathFormed
<1> HIDE DEF p, q, exact, below
<1>7. IsPrefix(p, p)
  BY <1>4 DEF IsPrefix
<1>8. (\E x \in PathPatterns(path) : Matches(x, request))
      <=> (path.segments # <<>> /\ Matches(exact, request)) \/ Matches(below, request)
  BY <1>3
<1>9. p = q \/ p # q
  OBVIOUS
<1>10. CASE p = q
  <2>1. path.segments = <<>> => request.slash
    BY <1>4, <1>5, <1>6, <1>10
  <2>2. request.slash \/ ~request.slash
    OBVIOUS
  <2> QED
    BY <1>1, <1>2, <1>4, <1>7, <1>8, <1>10, <2>1, <2>2 DEF q
<1>11. CASE p # q
  BY <1>1, <1>2, <1>4, <1>8, <1>11 DEF q
<1> QED
  BY <1>10, <1>11

LEMMA RequestsAnswered ==
  ASSUME NEW e, RoutesValid(e), \A x \in AllExposures(e) : PathFormed(x.path),
         NEW site, NEW request, PathFormed(request)
  PROVE  /\ Answering(e, site, request) = LongestMatch(e, site, request)
         /\ \A x, y \in Answering(e, site, request) : x = y
<1> DEFINE q == Folded(request.segments)
           claims == { x \in CaddyRoutes(e) : x.site = site /\ IsPrefix(Canonical(x.path), q) }
<1>1. CaddyRoutes(e) \subseteq AllExposures(e)
  BY DEF CaddyRoutes
<1>2. \A x \in CaddyRoutes(e) : (\E p \in PathPatterns(x.path) : Matches(p, request)) <=> IsPrefix(Canonical(x.path), q)
  BY <1>1, PatternsMatch
<1>3. Matching(e, site, request) = claims
  BY <1>2 DEF Matching
<1>4. \A x \in claims : /\ Canonical(x.path) \in Seq(Range(Canonical(x.path)))
                        /\ Len(Canonical(x.path)) = Len(x.path.segments) /\ Len(x.path.segments) \in Nat
  BY <1>1, FoldedSequence
<1>5. /\ Answering(e, site, request) = { x \in claims : \A y \in claims : ~RenderedBefore(y, x) }
      /\ LongestMatch(e, site, request) = { x \in claims : \A y \in claims : Len(y.path.segments) <= Len(x.path.segments) }
  BY <1>3 DEF Answering, LongestMatch
<1>6. \A x \in claims : x \in AllExposures(e) /\ x.site = site /\ IsPrefix(Canonical(x.path), q)
  BY <1>1
<1> HIDE DEF claims, q
<1>7. \A x, y \in claims : ~RenderedBefore(y, x) <=> Len(y.path.segments) <= Len(x.path.segments)
  BY <1>4 DEF RenderedBefore
<1>8. Answering(e, site, request) = LongestMatch(e, site, request)
  BY <1>5, <1>7
<1>9. ASSUME NEW x \in Answering(e, site, request), NEW y \in Answering(e, site, request) PROVE x = y
  <2>1. x \in claims /\ y \in claims
    BY <1>5, <1>9
  <2>2. Len(x.path.segments) <= Len(y.path.segments) /\ Len(y.path.segments) <= Len(x.path.segments)
    BY <1>5, <1>8, <1>9, <2>1
  <2>3. Len(Canonical(x.path)) = Len(Canonical(y.path))
    BY <1>4, <2>1, <2>2
  <2>4. Canonical(x.path) = Canonical(y.path)
    BY <1>4, <1>6, <2>1, <2>3, PrefixesAlike
  <2>5. RoutesConflict(x, y)
    BY <1>6, <2>1, <2>4 DEF RoutesConflict
  <2> QED
    BY <1>6, <2>1, <2>5 DEF RoutesValid
<1> QED
  BY <1>8, <1>9

LEMMA AtMostOne ==
  ASSUME NEW S, \A x, y \in S : x = y PROVE Cardinality(S) <= 1
<1>1. CASE S = {}
  BY <1>1, FS_EmptySet
<1>2. CASE S # {}
  <2>1. PICK x : S = {x}
    BY <1>2
  <2> QED
    BY <2>1, FS_Singleton
<1> QED
  BY <1>1, <1>2

LEMMA LinksWork ==
  ASSUME NEW e, RoutesValid(e), \A x \in AllExposures(e) : PathFormed(x.path), NEW x \in CaddyRoutes(e)
  PROVE  LinkWorks(e, x)
<1> DEFINE claims == { y \in CaddyRoutes(e) : y.site = x.site /\ IsPrefix(Canonical(y.path), Folded(x.path.segments)) }
           first == Folded(x.path.segments)
<1>1. \A y \in CaddyRoutes(e) : PathFormed(y.path)
  BY DEF CaddyRoutes
<1>2. /\ Answering(e, x.site, x.path) = LongestMatch(e, x.site, x.path)
      /\ \A a, b \in Answering(e, x.site, x.path) : a = b
  BY <1>1, RequestsAnswered
<1>3. \A y \in CaddyRoutes(e) : Len(Canonical(y.path)) = Len(y.path.segments) /\ Canonical(y.path) \in Seq(Range(Canonical(y.path)))
                                /\ Len(y.path.segments) \in Nat
  BY <1>1, FoldedSequence
<1>4. Canonical(x.path) = first /\ Len(first) = Len(x.path.segments)
  BY <1>1, FoldedSequence
<1>5. x \in claims
  BY <1>3, <1>4 DEF IsPrefix
<1>6. \A y \in claims : Len(y.path.segments) <= Len(x.path.segments)
  BY <1>3, <1>4 DEF IsPrefix
<1>7. LongestMatch(e, x.site, x.path) = { z \in claims : \A y \in claims : Len(y.path.segments) <= Len(z.path.segments) }
  BY DEF LongestMatch
<1> HIDE DEF claims
<1>8. x \in Answering(e, x.site, x.path)
  BY <1>2, <1>5, <1>6, <1>7
<1> QED
  BY <1>2, <1>8 DEF LinkWorks

(* A request to a site of a document that compiles and is rendered is      *)
(* answered by the route with the longest path it lies below, by one only, *)
(* and each of the portal's links leads to its own route.                  *)
THEOREM CompilerRoutesReachable == CompilerSpec => []RoutesReachable
<1>1. CompilerInit => (topic = "site" => input \in Sites)
  BY DEF CompilerInit
<1>2. ASSUME topic = "site" => input \in Sites PROVE RoutesReachable
  <2> SUFFICES ASSUME topic = "site", Valid(input), CaddyAccepts(Normalize(input))
               PROVE  LET e == Normalize(input)
                      IN  /\ \A site \in { x.site : x \in CaddyRoutes(e) }, request \in Requests :
                               RequestAnswered(e, site, request)
                          /\ \A x \in PortalEntries(e) : LinkWorks(e, x)
    BY DEF RoutesReachable
  <2> DEFINE e == Normalize(input)
  <2>1. RoutesValid(e)
    BY DEF Valid, SemanticValid
  <2>2. \A x \in AllExposures(e) : PathFormed(x.path)
    BY <1>2, RequestsAssumption
  <2> HIDE DEF e
  <2>3. ASSUME NEW site, NEW request \in Requests PROVE RequestAnswered(e, site, request)
    <3>1. PathFormed(request)
      BY RequestsAssumption
    <3>2. /\ Answering(e, site, request) = LongestMatch(e, site, request)
          /\ \A x, y \in Answering(e, site, request) : x = y
      BY <2>1, <2>2, <3>1, RequestsAnswered
    <3>3. Cardinality(Answering(e, site, request)) <= 1
      BY <3>2, AtMostOne
    <3> QED
      BY <3>2, <3>3 DEF RequestAnswered
  <2>4. ASSUME NEW x \in PortalEntries(e) PROVE LinkWorks(e, x)
    <3>1. x \in CaddyRoutes(e)
      BY <2>4 DEF PortalEntries
    <3> QED
      BY <2>1, <2>2, <3>1, LinksWork
  <2> QED
    BY <2>3, <2>4 DEF e
<1>3. (topic = "site" => input \in Sites) /\ [UNCHANGED compilerVars]_compilerVars => (topic = "site" => input \in Sites)'
  BY DEF compilerVars
<1> QED
  BY <1>1, <1>2, <1>3, PTL DEF CompilerSpec

-----------------------------------------------------------------------------
(* 4. The compiler: what a disabled service is.                            *)

LEMMA MentionedGrows ==
  ASSUME NEW files, NEW fields, NEW units, NEW some \in SUBSET Named(files, fields, units)
  PROVE  /\ Mentioned(files, fields, some) \in SUBSET Named(files, fields, units)
         /\ some \subseteq Mentioned(files, fields, some)
         /\ \A more : some \subseteq more => Mentioned(files, fields, some) \subseteq Mentioned(files, fields, more)
BY DEF Mentioned, Named

(* The recursion of Closure has a solution: the least closed superset.     *)
LEMMA ClosureExists ==
  ASSUME NEW files, NEW fields, NEW units
  PROVE  \E h : h = [some \in SUBSET Named(files, fields, units) |->
                       LET more == Mentioned(files, fields, some)
                       IN  IF more = some THEN some ELSE h[more]]
<1> DEFINE all == Named(files, fields, units)
           M(S) == Mentioned(files, fields, S)
           Least(S) == { u \in all : \A T \in SUBSET all : S \subseteq T /\ M(T) \subseteq T => u \in T }
           g == [S \in SUBSET all |-> Least(S)]
<1>1. ASSUME NEW S \in SUBSET all, M(S) = S PROVE Least(S) = S
  BY <1>1
<1>2. ASSUME NEW S \in SUBSET all PROVE M(S) \in SUBSET all /\ S \subseteq M(S)
  BY MentionedGrows
<1>3. ASSUME NEW S \in SUBSET all, NEW T \in SUBSET all, M(T) \subseteq T, S \subseteq T PROVE M(S) \subseteq T
  BY <1>3, MentionedGrows
<1> HIDE DEF M
<1>4. ASSUME NEW S \in SUBSET all PROVE Least(M(S)) = Least(S)
  BY <1>2, <1>3
<1>5. ASSUME NEW S \in SUBSET all PROVE g[S] = IF M(S) = S THEN S ELSE g[M(S)]
  <2>1. g[S] = Least(S) /\ g[M(S)] = Least(M(S))
    BY <1>2
  <2> HIDE DEF g, Least
  <2> QED
    BY <1>1, <1>4, <2>1
<1>6. g = [some \in SUBSET all |-> IF M(some) = some THEN some ELSE g[M(some)]]
  <2>1. g = [some \in SUBSET all |-> g[some]]
    OBVIOUS
  <2> HIDE DEF g
  <2> QED
    BY <1>5, <2>1
<1> QED
  BY <1>6 DEF M

(* A set of units that mention no other is not left.                       *)
LEMMA ClosureBounded ==
  ASSUME NEW files, NEW fields, NEW units, IsFiniteSet(Named(files, fields, units)),
         NEW U, units \subseteq U, Mentioned(files, fields, U) \subseteq U
  PROVE  Closure(files, fields, units) \subseteq U
<1> DEFINE all == Named(files, fields, units)
           M(S) == Mentioned(files, fields, S)
           closure == CHOOSE h : h = [some \in SUBSET all |->
                        LET more == M(some) IN IF more = some THEN some ELSE h[more]]
           bad == { S \in SUBSET all : S \subseteq U /\ ~(closure[S] \subseteq U) }
<1>1. Closure(files, fields, units) = closure[units]
  BY DEF Closure
<1>2. closure = [some \in SUBSET all |-> LET more == M(some) IN IF more = some THEN some ELSE closure[more]]
  BY ClosureExists
<1>3. ASSUME NEW S \in SUBSET all
      PROVE  M(S) \in SUBSET all /\ S \subseteq M(S) /\ (S \subseteq U => M(S) \subseteq U)
  BY MentionedGrows
<1>4. units \in SUBSET all
  BY DEF Named
<1> HIDE DEF M, closure, all
<1>5. ASSUME NEW S \in SUBSET all PROVE closure[S] = IF M(S) = S THEN S ELSE closure[M(S)]
  BY <1>2
<1>6. ASSUME NEW S \in bad PROVE M(S) \in bad /\ M(S) # S
  BY <1>3, <1>5
<1>7. bad = {}
  <2> SUFFICES ASSUME bad # {} PROVE FALSE
    OBVIOUS
  <2> DEFINE R == StrictSubsetOrdering(all)
             left == { all \ S : S \in bad }
  <2>1. IsWellFoundedOn(R, SUBSET all)
    BY FS_StrictSubsetOrderingWellFounded, FS_FiniteSubsetsOfFinite DEF all
  <2>2. left \subseteq SUBSET all /\ left # {}
    OBVIOUS
  <2> HIDE DEF R, left
  <2>3. PICK x \in left : \A y \in left : <<y, x>> \notin R
    BY <2>1, <2>2, WFMin
  <2>4. PICK S \in bad : x = all \ S
    BY <2>3 DEF left
  <2>5. all \ M(S) \in left
    BY <1>6, <2>4 DEF left
  <2>6. all \ M(S) \subseteq all \ S /\ all \ M(S) # all \ S
    <3>1. S \in SUBSET all /\ S \subseteq M(S) /\ M(S) # S /\ M(S) \subseteq all
      BY <1>3, <1>6
    <3>2. PICK u \in M(S) : u \notin S
      BY <3>1
    <3>3. u \in all \ S /\ u \notin all \ M(S)
      BY <3>1, <3>2
    <3> QED
      BY <3>1, <3>3
  <2>7. <<all \ M(S), x>> \in R
    BY <2>4, <2>6 DEF R, StrictSubsetOrdering
  <2> QED
    BY <2>3, <2>5, <2>7
<1> QED
  BY <1>1, <1>4, <1>7

(* Every unit of a service.                                                *)
ServiceUnits(e, id) ==
  (IF id \in SessionIds(e) THEN {SessionTarget(id)} ELSE UnitsOf(e, id)) \cup EntryUnits(id, e.services[id])

(* The units of disabled services, managed or not.                         *)
DownUnits(e) == UNION { ServiceUnits(e, id) : id \in DOMAIN e.services \ Enabled(e) }

OwnTags == {"ready", "socket", "proxy", "timer", "entry", "session"}

(* A document whose units can be told apart.                               *)
Separate(e) ==
  /\ OwnersDistinct(e) /\ UnitsAccepted(e)
  /\ \A id \in DOMAIN e.services : DependenciesValid(e, id) /\ WorkloadValid(e.services[id])
  /\ \A id \in NativeIds(e) : Owner(e, id) = LibvirtUnit(e) => id = "virtualization"
  /\ \A id \in Enabled(e) : e.services[id].runtime.type = "vm" /\ "virtualization" \in DOMAIN e.services
                            => "virtualization" \in Enabled(e)

LEMMA OwnerTag ==
  ASSUME NEW e, NEW id PROVE Owner(e, id)[1] \in {"native", "target", "service"}
BY DEF Owner, OwnerUnit

LEMMA UnitTags ==
  ASSUME NEW e, NEW id, NEW u \in ServiceUnits(e, id)
  PROVE  \/ id \notin SessionIds(e) /\ u = Owner(e, id)
         \/ u[1] \in OwnTags /\ u[2] = id
<1>1. CASE u \in EntryUnits(id, e.services[id])
  BY <1>1 DEF EntryUnits, OwnTags
<1>2. CASE id \in SessionIds(e) /\ u = SessionTarget(id)
  BY <1>2 DEF SessionTarget, OwnTags
<1>3. CASE id \notin SessionIds(e) /\ u \in UnitsOf(e, id)
  <2>1. CASE u = Owner(e, id)
    BY <1>3, <2>1
  <2>2. CASE u = Gate(id)
    BY <2>2 DEF Gate, OwnTags
  <2>3. CASE u \in Names(ActivationUnits(e, id))
    <3>1. PICK f \in ActivationUnits(e, id) : u = f.unit
      BY <2>3 DEF Names
    <3>2. PICK r \in DOMAIN e.services[id].routes : f.unit \in {Socket(id, r), Proxy(id, r)}
      BY <3>1 DEF ActivationUnits, File
    <3> QED
      BY <3>1, <3>2 DEF Socket, Proxy, OwnTags
  <2>4. CASE u \in Timers(e, id)
    <3>1. PICK i : u = Timer(id, i)
      BY <2>4 DEF Timers, TimerUnits, Names, File
    <3> QED
      BY <3>1 DEF Timer, OwnTags
  <2> QED
    BY <1>3, <2>1, <2>2, <2>3, <2>4 DEF UnitsOf
<1> QED
  BY <1>1, <1>2, <1>3 DEF ServiceUnits

LEMMA OwnUp ==
  ASSUME NEW e, NEW u, u[1] \in OwnTags, u[2] \in Enabled(e) PROVE u \notin DownUnits(e)
<1>1. SUFFICES ASSUME NEW id \in DOMAIN e.services \ Enabled(e), u \in ServiceUnits(e, id) PROVE FALSE
  BY DEF DownUnits
<1>2. u = Owner(e, id) => FALSE
  BY OwnerTag DEF OwnTags
<1> QED
  BY <1>1, <1>2, UnitTags

LEMMA OtherUp ==
  ASSUME NEW e, NEW u, u[1] \in {"transient", "network"} PROVE u \notin DownUnits(e)
<1>1. SUFFICES ASSUME NEW id \in DOMAIN e.services \ Enabled(e), u \in ServiceUnits(e, id) PROVE FALSE
  BY DEF DownUnits
<1>2. u = Owner(e, id) => FALSE
  BY OwnerTag
<1> QED
  BY <1>1, <1>2, UnitTags DEF OwnTags

LEMMA OwnersUp ==
  ASSUME NEW e, Separate(e), NEW id \in NativeIds(e), id \in Enabled(e) PROVE Owner(e, id) \notin DownUnits(e)
<1>1. SUFFICES ASSUME NEW o \in DOMAIN e.services \ Enabled(e), Owner(e, id) \in ServiceUnits(e, o) PROVE FALSE
  BY DEF DownUnits
<1>2. Owner(e, id)[1] \notin OwnTags
  BY OwnerTag DEF OwnTags
<1>3. o \notin SessionIds(e) /\ Owner(e, id) = Owner(e, o)
  BY <1>1, <1>2, UnitTags
<1>4. o \in NativeIds(e)
  BY <1>3 DEF NativeIds
<1> QED
  BY <1>3, <1>4 DEF Separate, OwnersDistinct

LEMMA LibvirtUp ==
  ASSUME NEW e, Separate(e), NEW id \in Enabled(e), e.services[id].runtime.type = "vm"
  PROVE  LibvirtUnit(e) \notin DownUnits(e)
<1> DEFINE u == LibvirtUnit(e)
<1>1. SUFFICES ASSUME NEW o \in DOMAIN e.services \ Enabled(e), u \in ServiceUnits(e, o) PROVE FALSE
  BY DEF DownUnits
<1>2. u[1] \notin OwnTags
  <2>1. u = Owner(e, "virtualization") \/ u = <<"native", "libvirtd">>
    BY DEF LibvirtUnit
  <2>2. Owner(e, "virtualization")[1] \notin OwnTags
    BY OwnerTag DEF OwnTags
  <2>3. <<"native", "libvirtd">>[1] \notin OwnTags
    BY DEF OwnTags
  <2> QED
    BY <2>1, <2>2, <2>3
<1>3. o \notin SessionIds(e) /\ u = Owner(e, o)
  BY <1>1, <1>2, UnitTags
<1>4. o = "virtualization"
  BY <1>3 DEF Separate, NativeIds
<1> QED
  BY <1>4 DEF Separate

LEMMA DependenciesUp ==
  ASSUME NEW e, Separate(e), NEW id \in Enabled(e), id \in NativeIds(e) \cup OpenSessions(e),
         NEW u \in DependencyLines(e, e.services[id]).requires
  PROVE  u \notin DownUnits(e)
<1> DEFINE s == e.services[id]
<1>1. \A d \in Range(s.dependencies) : d.service \in Enabled(e) /\ d.service \in NativeIds(e)
  <2> SUFFICES ASSUME NEW d \in Range(s.dependencies) PROVE d.service \in Enabled(e) /\ d.service \in NativeIds(e)
    OBVIOUS
  <2>1. PICK i \in DOMAIN s.dependencies : d = s.dependencies[i]
    BY DEF Range
  <2>2. id \in DOMAIN e.services /\ s.enabled
    BY DEF Enabled
  <2>3. DependenciesValid(e, id)
    BY <2>2 DEF Separate
  <2>4. d.service \in DOMAIN e.services /\ e.services[d.service].enabled
    BY <2>1, <2>2, <2>3 DEF DependenciesValid
  <2>5. d.service \notin SessionIds(e)
    BY DEF Separate, UnitsAccepted, SessionsUnawaited
  <2> QED
    BY <2>4, <2>5 DEF Enabled, NativeIds
<1>2. PICK d \in Range(s.dependencies) : u = Owner(e, d.service) \/ u = Gate(d.service)
  BY DEF DependencyLines
<1>3. Gate(d.service)[1] \in OwnTags /\ Gate(d.service)[2] \in Enabled(e)
  BY <1>1 DEF Gate, OwnTags
<1> QED
  BY <1>1, <1>2, <1>3, OwnersUp, OwnUp

SessionFiles(e) == { SessionUnits(e, id) : id \in OpenSessions(e) }

LEMMA FileFields ==
  ASSUME NEW unit, NEW requires, NEW after, NEW triggers
  PROVE  LET f == File(unit, requires, after, triggers)
         IN  f.unit = unit /\ f.requires = requires /\ f.triggers = triggers
BY DEF File

LEMMA OwnerFileFields ==
  ASSUME NEW e, NEW id
  PROVE  LET f == OwnerFile(e, id)
             s == e.services[id]
         IN  /\ f.unit = Owner(e, id) /\ f.triggers = {}
             /\ f.requires \in { DependencyLines(e, s).requires,
                                 DependencyLines(e, s).requires \cup EntryUnits(id, s),
                                 DependencyLines(e, s).requires \cup {LibvirtUnit(e)} }
             /\ s.runtime.type # "vm" => f.requires \in { DependencyLines(e, s).requires,
                                                          DependencyLines(e, s).requires \cup EntryUnits(id, s) }
<1> DEFINE f == OwnerFile(e, id)
           s == e.services[id]
<1>1. CASE s.runtime.type = "compose"
  <2>1. f = AggregateUnit(e, id)
    BY <1>1 DEF OwnerFile
  <2> DEFINE own == DependencyLines(e, s)
             more == EntryUnits(id, s)
             owner == Owner(e, id)
  <2>2. f = File(owner, own.requires \cup more, own.requires \cup more, {})
    BY <2>1 DEF AggregateUnit
  <2> HIDE DEF own, more, f, owner
  <2>3. f.unit = owner /\ f.triggers = {} /\ f.requires = own.requires \cup more
    BY <2>2, FileFields
  <2> QED
    BY <1>1, <2>3 DEF own, more, f, owner
<1>2. CASE s.runtime.type = "vm"
  <2>1. f = VmUnit(e, id)
    BY <1>2 DEF OwnerFile
  <2> DEFINE own == DependencyLines(e, s)
             more == {LibvirtUnit(e)}
             owner == Owner(e, id)
  <2>2. f = File(owner, own.requires \cup more, own.after \cup more, {})
    BY <2>1 DEF VmUnit
  <2> HIDE DEF own, more, f, owner
  <2>3. f.unit = owner /\ f.triggers = {} /\ f.requires = own.requires \cup more
    BY <2>2, FileFields
  <2> QED
    BY <1>2, <2>3 DEF own, more, f, owner
<1>3. CASE s.runtime.type # "compose" /\ s.runtime.type # "vm"
  <2>1. f = PlainUnit(e, id)
    BY <1>3 DEF OwnerFile
  <2> QED
    BY <1>3, <2>1, FileFields DEF PlainUnit
<1> QED
  BY <1>1, <1>2, <1>3

LEMMA ActivationFields ==
  ASSUME NEW e, NEW id, NEW f \in ActivationUnits(e, id)
  PROVE  \E r \in DOMAIN e.services[id].routes :
           \/ f.unit = Socket(id, r) /\ f.requires = {} /\ f.triggers = {Proxy(id, r)}
           \/ /\ f.unit = Proxy(id, r) /\ f.triggers = {}
              /\ f.requires = {Owner(e, id), Socket(id, r)} \cup (IF Has(e.services[id], "readiness") THEN {Gate(id)} ELSE {})
<1> DEFINE gates == IF Has(e.services[id], "readiness") THEN {Gate(id)} ELSE {}
           first(r) == {Owner(e, id), Socket(id, r)} \cup gates
<1>1. PICK r \in DOMAIN e.services[id].routes :
        f \in { File(Socket(id, r), {}, {}, {Proxy(id, r)}), File(Proxy(id, r), first(r), first(r), {}) }
  BY DEF ActivationUnits
<1> HIDE DEF first
<1>2. CASE f = File(Socket(id, r), {}, {}, {Proxy(id, r)})
  BY <1>2, FileFields
<1>3. CASE f = File(Proxy(id, r), first(r), first(r), {})
  <2>1. f.unit = Proxy(id, r) /\ f.triggers = {} /\ f.requires = first(r)
    BY <1>3, FileFields
  <2> QED
    BY <2>1 DEF first
<1> QED
  BY <1>1, <1>2, <1>3

LEMMA TimerFields ==
  ASSUME NEW e, NEW id, NEW f \in TimerUnits(e, id)
  PROVE  \E i \in DOMAIN e.services[id].schedules :
           f.unit = Timer(id, i) /\ f.requires = {} /\ f.triggers = {Owner(e, id)}
<1>1. PICK i \in DOMAIN e.services[id].schedules : f = File(Timer(id, i), {}, {}, {Owner(e, id)})
  BY DEF TimerUnits
<1> QED
  BY <1>1, FileFields

LEMMA ReadinessFields ==
  ASSUME NEW e, NEW id
  PROVE  LET f == ReadinessUnit(e, id) IN f.unit = Gate(id) /\ f.requires = {Owner(e, id)} /\ f.triggers = {}
BY FileFields DEF ReadinessUnit

LEMMA SessionFields ==
  ASSUME NEW e, NEW id
  PROVE  LET f == SessionUnits(e, id)
         IN  /\ f.unit = <<"transient", id>> /\ f.triggers = {}
             /\ \E with \in SUBSET {SessionTarget(id), <<"network", id>>} :
                  f.requires = DependencyLines(e, e.services[id]).requires \cup with
<1> DEFINE own == DependencyLines(e, e.services[id])
           with == {SessionTarget(id)}
                   \cup (IF NetworkPolicy(e, e.services[id]).mode = "isolated" THEN {<<"network", id>>} ELSE {})
<1>1. SessionUnits(e, id) = File(<<"transient", id>>, own.requires \cup with, own.after \cup with, {})
  BY DEF SessionUnits
<1>2. with \in SUBSET {SessionTarget(id), <<"network", id>>}
  OBVIOUS
<1> HIDE DEF with, own
<1>3. /\ SessionUnits(e, id).unit = <<"transient", id>> /\ SessionUnits(e, id).triggers = {}
      /\ SessionUnits(e, id).requires = own.requires \cup with
  BY <1>1, FileFields
<1> QED
  BY <1>2, <1>3 DEF own

LEMMA EntryFields ==
  ASSUME NEW id, NEW s, NEW f \in EntryFiles(id, s)
  PROVE  f.unit \in EntryUnits(id, s) /\ f.requires = {} /\ f.triggers = {}
<1>1. PICK u \in EntryUnits(id, s) : f = File(u, {}, {}, {})
  BY DEF EntryFiles
<1> QED
  BY <1>1, FileFields

(* A file of a service is one of its units.                                *)
LEMMA FileOwned ==
  ASSUME NEW e, NEW id, NEW f \in FilesOf(e, id)
  PROVE  f.unit \in UnitsOf(e, id) \cup EntryUnits(id, e.services[id])
<1>1. CASE f = OwnerFile(e, id)
  BY <1>1, OwnerFileFields DEF UnitsOf
<1>2. CASE Has(e.services[id], "readiness") /\ f = ReadinessUnit(e, id)
  BY <1>2, ReadinessFields DEF UnitsOf
<1>3. CASE OnDemand(e.services[id]) /\ f \in ActivationUnits(e, id)
  BY <1>3 DEF UnitsOf, Names
<1>4. CASE e.services[id].kind = "job" /\ f \in TimerUnits(e, id)
  BY <1>4 DEF UnitsOf, Names, Timers
<1>5. CASE f \in EntryFiles(id, e.services[id])
  BY <1>5, EntryFields
<1> QED
  BY <1>1, <1>2, <1>3, <1>4, <1>5 DEF FilesOf

LEMMA UnitFilesParts ==
  ASSUME NEW e, NEW f \in UnitFiles(e)
  PROVE  \/ \E id \in NativeIds(e) : f \in FilesOf(e, id)
         \/ \E id \in OpenSessions(e) : f = File(SessionTarget(id), {}, {}, {})
BY DEF UnitFiles

(* What a unit requires or triggers that is up is up.                      *)
LEMMA FilesUp ==
  ASSUME NEW e, Separate(e), NEW f \in UnitFiles(e) \cup SessionFiles(e), f.unit \notin DownUnits(e),
         NEW u \in f.requires \cup f.triggers
  PROVE  u \notin DownUnits(e)
<1>1. ASSUME NEW id \in NativeIds(e), f \in FilesOf(e, id) PROVE u \notin DownUnits(e)
  <2> DEFINE s == e.services[id]
  <2>1. id \in Enabled(e)
    <3>1. SUFFICES ASSUME id \notin Enabled(e) PROVE FALSE
      OBVIOUS
    <3>2. f.unit \in ServiceUnits(e, id)
      BY <1>1, FileOwned DEF ServiceUnits, NativeIds
    <3> QED
      BY <1>1, <3>1, <3>2 DEF DownUnits, NativeIds
  <2>2. Owner(e, id) \notin DownUnits(e)
    BY <1>1, <2>1, OwnersUp
  <2>3. Gate(id) \notin DownUnits(e)
    BY <2>1, OwnUp DEF Gate, OwnTags
  <2>4. \A r : Socket(id, r) \notin DownUnits(e) /\ Proxy(id, r) \notin DownUnits(e)
    BY <2>1, OwnUp DEF Socket, Proxy, OwnTags
  <2>5. CASE f = OwnerFile(e, id)
    <3>1. u \in f.requires
      BY <2>5, OwnerFileFields
    <3>2. CASE u \in DependencyLines(e, s).requires
      BY <1>1, <2>1, <3>2, DependenciesUp
    <3>3. CASE u \in EntryUnits(id, s)
      <4>1. u[1] = "entry" /\ u[2] = id
        BY <3>3 DEF EntryUnits
      <4> QED
        BY <2>1, <4>1, OwnUp DEF OwnTags
    <3>4. CASE s.runtime.type = "vm" /\ u = LibvirtUnit(e)
      BY <2>1, <3>4, LibvirtUp
    <3> QED
      BY <2>5, <3>1, <3>2, <3>3, <3>4, OwnerFileFields
  <2>6. CASE f = ReadinessUnit(e, id)
    BY <2>2, <2>6, ReadinessFields
  <2>7. CASE f \in ActivationUnits(e, id)
    <3>1. PICK r \in DOMAIN e.services[id].routes :
           \/ f.unit = Socket(id, r) /\ f.requires = {} /\ f.triggers = {Proxy(id, r)}
           \/ /\ f.unit = Proxy(id, r) /\ f.triggers = {}
              /\ f.requires = {Owner(e, id), Socket(id, r)} \cup (IF Has(e.services[id], "readiness") THEN {Gate(id)} ELSE {})
      BY <2>7, ActivationFields
    <3>2. u \in {Proxy(id, r), Owner(e, id), Socket(id, r), Gate(id)}
      BY <3>1
    <3> QED
      BY <2>2, <2>3, <2>4, <3>2
  <2>8. CASE f \in TimerUnits(e, id)
    <3>1. u = Owner(e, id)
      BY <2>8, TimerFields
    <3> QED
      BY <2>2, <3>1
  <2>9. CASE f \in EntryFiles(id, s)
    BY <2>9, EntryFields
  <2> QED
    BY <1>1, <2>5, <2>6, <2>7, <2>8, <2>9 DEF FilesOf
<1>2. ASSUME NEW id \in OpenSessions(e), f = File(SessionTarget(id), {}, {}, {}) PROVE FALSE
  BY <1>2, FileFields
<1>3. ASSUME NEW id \in OpenSessions(e), f = SessionUnits(e, id) PROVE u \notin DownUnits(e)
  <2>1. id \in Enabled(e)
    BY DEF OpenSessions
  <2>2. u \in DependencyLines(e, e.services[id]).requires \/ u \in {SessionTarget(id), <<"network", id>>}
    BY <1>3, SessionFields
  <2>3. SessionTarget(id) \notin DownUnits(e)
    BY <2>1, OwnUp DEF SessionTarget, OwnTags
  <2>4. <<"network", id>> \notin DownUnits(e)
    BY OtherUp
  <2> QED
    BY <2>1, <2>2, <2>3, <2>4, DependenciesUp
<1>4. CASE f \in SessionFiles(e)
  <2>1. PICK id \in OpenSessions(e) : f = SessionUnits(e, id)
    BY <1>4 DEF SessionFiles
  <2> QED
    BY <1>3, <2>1
<1>5. CASE f \in UnitFiles(e)
  BY <1>1, <1>2, <1>5, UnitFilesParts
<1> QED
  BY <1>4, <1>5

LEMMA StartUp ==
  ASSUME NEW e, Separate(e), NEW u \in StartUnits(e) \cup Names(SessionFiles(e)) PROVE u \notin DownUnits(e)
<1>1. CASE u \in Names(SessionFiles(e))
  <2>1. PICK id \in OpenSessions(e) : u = SessionUnits(e, id).unit
    BY <1>1 DEF Names, SessionFiles
  <2>2. u = <<"transient", id>>
    BY <2>1, SessionFields
  <2> QED
    BY <2>2, OtherUp
<1>2. CASE u \in StartUnits(e)
  <2>1. PICK id \in Managed(e, NativeIds(e)) \cap Enabled(e) : u \in Sockets(e, id) \cup Timers(e, id) \cup {Owner(e, id)}
    BY <1>2 DEF StartUnits
  <2>2. id \in NativeIds(e) /\ id \in Enabled(e)
    BY DEF Managed
  <2>3. CASE u \in Sockets(e, id)
    <3>1. PICK r : u = Socket(id, r)
      BY <2>3 DEF Sockets
    <3> QED
      BY <2>2, <3>1, OwnUp DEF Socket, OwnTags
  <2>4. CASE u \in Timers(e, id)
    <3>1. PICK i : u = Timer(id, i)
      BY <2>4, TimerFields DEF Timers, Names
    <3> QED
      BY <2>2, <3>1, OwnUp DEF Timer, OwnTags
  <2>5. CASE u = Owner(e, id)
    BY <2>2, <2>5, OwnersUp
  <2> QED
    BY <2>1, <2>3, <2>4, <2>5
<1> QED
  BY <1>1, <1>2

LEMMA FiniteImage ==
  ASSUME NEW S, IsFiniteSet(S), NEW f, f = [x \in S |-> f[x]]
  PROVE  IsFiniteSet({ f[x] : x \in S })
<1> DEFINE T == { f[x] : x \in S }
<1>1. f \in Surjection(S, T)
  BY DEF Surjection
<1> HIDE DEF T
<1>2. IsFiniteSet(T)
  BY <1>1, FS_Surjection
<1> QED
  BY <1>2 DEF T

LEMMA FinitePieces ==
  ASSUME NEW S, IsFiniteSet(S), NEW f, f = [x \in S |-> f[x]], \A x \in S : IsFiniteSet(f[x])
  PROVE  IsFiniteSet(UNION { f[x] : x \in S })
<1> DEFINE T == { f[x] : x \in S }
<1>1. IsFiniteSet(T)
  BY FiniteImage
<1>2. \A t \in T : IsFiniteSet(t)
  OBVIOUS
<1> HIDE DEF T
<1>3. IsFiniteSet(UNION T)
  BY <1>1, <1>2, FS_UNION
<1> QED
  BY <1>3 DEF T

LEMMA FiniteRange ==
  ASSUME NEW s, s \in Seq(Range(s)) PROVE IsFiniteSet(Range(s))
<1>1. Len(s) \in Nat /\ DOMAIN s = 1 .. Len(s)
  OBVIOUS
<1>2. IsFiniteSet(1 .. Len(s))
  BY <1>1, FS_Interval
<1>3. s \in Surjection(1 .. Len(s), Range(s))
  <2>1. s \in [1 .. Len(s) -> Range(s)]
    OBVIOUS
  <2>2. \A t \in Range(s) : \E i \in 1 .. Len(s) : s[i] = t
    BY <1>1 DEF Range
  <2> QED
    BY <2>1, <2>2 DEF Surjection
<1> QED
  BY <1>2, <1>3, FS_Surjection

LEMMA FiniteFew ==
  ASSUME NEW a, NEW b PROVE IsFiniteSet({}) /\ IsFiniteSet({a}) /\ IsFiniteSet({a, b})
<1>1. {a, b} = {a} \cup {b}
  OBVIOUS
<1>2. IsFiniteSet({}) /\ IsFiniteSet({a}) /\ IsFiniteSet({b})
  BY FS_EmptySet, FS_Singleton
<1>3. IsFiniteSet({a} \cup {b})
  BY <1>2, FS_Union
<1> QED
  BY <1>1, <1>2, <1>3

LEMMA FiniteDependencies ==
  ASSUME NEW e, NEW s, s.dependencies \in Seq(Range(s.dependencies))
  PROVE  IsFiniteSet(DependencyLines(e, s).requires)
<1> DEFINE all == Range(s.dependencies)
           ready == { d \in all : d.condition = "ready" }
           owner == [d \in all |-> Owner(e, d.service)]
           gate == [d \in ready |-> Gate(d.service)]
<1>1. IsFiniteSet(all)
  BY FiniteRange
<1>2. IsFiniteSet(ready)
  BY <1>1, FS_Subset
<1>3. IsFiniteSet({ owner[d] : d \in all })
  <2>1. owner = [d \in all |-> owner[d]]
    OBVIOUS
  <2> HIDE DEF owner, all
  <2> QED
    BY <1>1, <2>1, FiniteImage
<1>4. IsFiniteSet({ gate[d] : d \in ready })
  <2>1. gate = [d \in ready |-> gate[d]]
    OBVIOUS
  <2> HIDE DEF gate, ready
  <2> QED
    BY <1>2, <2>1, FiniteImage
<1>5. DependencyLines(e, s).requires = { owner[d] : d \in all } \cup { gate[d] : d \in ready }
  <2>1. DependencyLines(e, s).requires = { Owner(e, d.service) : d \in all } \cup { Gate(d.service) : d \in ready }
    BY DEF DependencyLines
  <2>2. { Owner(e, d.service) : d \in all } = { owner[d] : d \in all }
    OBVIOUS
  <2>3. { Gate(d.service) : d \in ready } = { gate[d] : d \in ready }
    OBVIOUS
  <2> QED
    BY <2>1, <2>2, <2>3
<1> DEFINE owners == { owner[d] : d \in all }
           gates == { gate[d] : d \in ready }
<1> HIDE DEF owners, gates
<1>6. IsFiniteSet(owners) /\ IsFiniteSet(gates) /\ DependencyLines(e, s).requires = owners \cup gates
  BY <1>3, <1>4, <1>5 DEF owners, gates
<1> QED
  BY <1>6, FS_Union

FileFinite(f) == IsFiniteSet(f.requires) /\ IsFiniteSet(f.triggers)

LEMMA FiniteEntries ==
  ASSUME NEW id, NEW s, s.runtime.type = "compose" => IsFiniteSet(s.runtime.containers)
  PROVE  IsFiniteSet(EntryUnits(id, s))
<1>1. CASE s.runtime.type = "compose"
  <2> DEFINE containers == s.runtime.containers
             entry == [c \in containers |-> <<"entry", id, c>>]
  <2>1. entry = [c \in containers |-> entry[c]]
    OBVIOUS
  <2>2. EntryUnits(id, s) = { <<"entry", id, c>> : c \in containers }
    BY <1>1 DEF EntryUnits
  <2>3. EntryUnits(id, s) = { entry[c] : c \in containers }
    BY <2>2
  <2> HIDE DEF entry
  <2> QED
    BY <1>1, <2>1, <2>3, FiniteImage
<1>2. CASE s.runtime.type # "compose"
  BY <1>2, FS_EmptySet DEF EntryUnits
<1> QED
  BY <1>1, <1>2

LEMMA FiniteEntryFiles ==
  ASSUME NEW id, NEW s, s.runtime.type = "compose" => IsFiniteSet(s.runtime.containers)
  PROVE  IsFiniteSet(EntryFiles(id, s)) /\ \A f \in EntryFiles(id, s) : FileFinite(f)
<1> DEFINE units == EntryUnits(id, s)
           file == [u \in units |-> File(u, {}, {}, {})]
<1>1. IsFiniteSet(units)
  BY FiniteEntries
<1>2. file = [u \in units |-> file[u]]
  OBVIOUS
<1>3. EntryFiles(id, s) = { file[u] : u \in units }
  BY DEF EntryFiles
<1>4. \A f \in EntryFiles(id, s) : FileFinite(f)
  BY EntryFields, FS_EmptySet DEF FileFinite
<1> HIDE DEF file, units
<1> QED
  BY <1>1, <1>2, <1>3, <1>4, FiniteImage

LEMMA FiniteActivation ==
  ASSUME NEW e, NEW id, IsFiniteSet(DOMAIN e.services[id].routes)
  PROVE  /\ IsFiniteSet(ActivationUnits(e, id)) /\ \A f \in ActivationUnits(e, id) : FileFinite(f)
<1> DEFINE routes == DOMAIN e.services[id].routes
           gates == IF Has(e.services[id], "readiness") THEN {Gate(id)} ELSE {}
           first(r) == {Owner(e, id), Socket(id, r)} \cup gates
           pair == [r \in routes |-> { File(Socket(id, r), {}, {}, {Proxy(id, r)}), File(Proxy(id, r), first(r), first(r), {}) }]
<1>1. ActivationUnits(e, id) = UNION { pair[r] : r \in routes }
  <2>1. ActivationUnits(e, id) = UNION { { File(Socket(id, r), {}, {}, {Proxy(id, r)}), File(Proxy(id, r), first(r), first(r), {}) }
                                         : r \in routes }
    BY DEF ActivationUnits
  <2>2. { { File(Socket(id, r), {}, {}, {Proxy(id, r)}), File(Proxy(id, r), first(r), first(r), {}) } : r \in routes }
        = { pair[r] : r \in routes }
    OBVIOUS
  <2> QED
    BY <2>1, <2>2
<1>2. \A r \in routes : IsFiniteSet(pair[r])
  BY FiniteFew
<1>3. pair = [r \in routes |-> pair[r]]
  OBVIOUS
<1>4. IsFiniteSet(gates)
  BY FiniteFew
<1>5. ASSUME NEW f \in ActivationUnits(e, id) PROVE FileFinite(f)
  <2>1. PICK r \in DOMAIN e.services[id].routes :
           \/ f.unit = Socket(id, r) /\ f.requires = {} /\ f.triggers = {Proxy(id, r)}
           \/ /\ f.unit = Proxy(id, r) /\ f.triggers = {}
              /\ f.requires = {Owner(e, id), Socket(id, r)} \cup gates
    BY ActivationFields
  <2>2. IsFiniteSet({Owner(e, id), Socket(id, r)} \cup gates)
    BY <1>4, FiniteFew, FS_Union
  <2> QED
    BY <2>1, <2>2, FiniteFew DEF FileFinite
<1> HIDE DEF pair
<1>6. IsFiniteSet(UNION { pair[r] : r \in routes })
  BY <1>2, <1>3, FinitePieces
<1> QED
  BY <1>1, <1>5, <1>6

LEMMA FiniteTimers ==
  ASSUME NEW e, NEW id, IsFiniteSet(DOMAIN e.services[id].schedules)
  PROVE  IsFiniteSet(TimerUnits(e, id)) /\ \A f \in TimerUnits(e, id) : FileFinite(f)
<1> DEFINE schedules == DOMAIN e.services[id].schedules
           timer == [i \in schedules |-> File(Timer(id, i), {}, {}, {Owner(e, id)})]
<1>1. timer = [i \in schedules |-> timer[i]]
  OBVIOUS
<1>2. TimerUnits(e, id) = { timer[i] : i \in schedules }
  BY DEF TimerUnits
<1>3. ASSUME NEW f \in TimerUnits(e, id) PROVE FileFinite(f)
  <2> DEFINE owner == Owner(e, id)
  <2>1. f.requires = {} /\ f.triggers = {owner}
    BY TimerFields
  <2> HIDE DEF owner
  <2>2. IsFiniteSet({}) /\ IsFiniteSet({owner})
    BY FiniteFew
  <2> QED
    BY <2>1, <2>2 DEF FileFinite
<1> HIDE DEF timer
<1> QED
  BY <1>1, <1>2, <1>3, FiniteImage

LEMMA FiniteOwnerFile ==
  ASSUME NEW e, NEW id, LET s == e.services[id]
                        IN  /\ s.dependencies \in Seq(Range(s.dependencies))
                            /\ s.runtime.type = "compose" => IsFiniteSet(s.runtime.containers)
  PROVE  FileFinite(OwnerFile(e, id))
<1> DEFINE s == e.services[id]
           own == DependencyLines(e, s).requires
<1>1. IsFiniteSet(own) /\ IsFiniteSet(EntryUnits(id, s))
  BY FiniteDependencies, FiniteEntries
<1>2. OwnerFile(e, id).requires \in {own, own \cup EntryUnits(id, s), own \cup {LibvirtUnit(e)}}
      /\ OwnerFile(e, id).triggers = {}
  BY OwnerFileFields
<1> HIDE DEF s, own
<1>3. IsFiniteSet(own \cup EntryUnits(id, s)) /\ IsFiniteSet(own \cup {LibvirtUnit(e)})
  BY <1>1, FiniteFew, FS_Union
<1> QED
  BY <1>1, <1>2, <1>3, FS_EmptySet DEF FileFinite

LEMMA FiniteFilesOf ==
  ASSUME NEW e, DocumentFinite(e), NEW id \in DOMAIN e.services
  PROVE  IsFiniteSet(FilesOf(e, id)) /\ \A f \in FilesOf(e, id) : FileFinite(f)
<1> DEFINE s == e.services[id]
           own == {OwnerFile(e, id)}
           entries == EntryFiles(id, s)
           gate == IF Has(s, "readiness") THEN {ReadinessUnit(e, id)} ELSE {}
           wakers == IF OnDemand(s) THEN ActivationUnits(e, id) ELSE {}
           timers == IF s.kind = "job" THEN TimerUnits(e, id) ELSE {}
<1>1. IsFiniteSet(own) /\ \A f \in own : FileFinite(f)
  BY FiniteOwnerFile, FiniteFew DEF DocumentFinite
<1>2. IsFiniteSet(gate) /\ \A f \in gate : FileFinite(f)
  <2>1. ReadinessUnit(e, id).requires = {Owner(e, id)} /\ ReadinessUnit(e, id).triggers = {}
    BY ReadinessFields
  <2>2. FileFinite(ReadinessUnit(e, id))
    <3> DEFINE owner == Owner(e, id)
    <3> HIDE DEF owner
    <3>1. ReadinessUnit(e, id).requires = {owner} /\ ReadinessUnit(e, id).triggers = {}
      BY <2>1 DEF owner
    <3>2. IsFiniteSet({}) /\ IsFiniteSet({owner})
      BY FiniteFew
    <3> QED
      BY <3>1, <3>2 DEF FileFinite
  <2> QED
    BY <2>2, FS_EmptySet, FS_Singleton
<1>3. IsFiniteSet(wakers) /\ \A f \in wakers : FileFinite(f)
  BY FiniteActivation, FiniteFew DEF DocumentFinite
<1>4. IsFiniteSet(timers) /\ \A f \in timers : FileFinite(f)
  BY FiniteTimers, FiniteFew DEF DocumentFinite
<1>5. IsFiniteSet(entries) /\ \A f \in entries : FileFinite(f)
  BY FiniteEntryFiles DEF DocumentFinite
<1>6. FilesOf(e, id) = own \cup entries \cup gate \cup wakers \cup timers
  BY DEF FilesOf
<1> HIDE DEF own, entries, gate, wakers, timers
<1>7. IsFiniteSet(own \cup entries \cup gate \cup wakers \cup timers)
  BY <1>1, <1>2, <1>3, <1>4, <1>5, FS_Union
<1> QED
  BY <1>1, <1>2, <1>3, <1>4, <1>5, <1>6, <1>7

LEMMA FiniteUnitFiles ==
  ASSUME NEW e, DocumentFinite(e)
  PROVE  /\ IsFiniteSet(UnitFiles(e) \cup SessionFiles(e))
         /\ \A f \in UnitFiles(e) \cup SessionFiles(e) : FileFinite(f)
<1> DEFINE natives == NativeIds(e)
           sessions == OpenSessions(e)
           files == [id \in natives |-> FilesOf(e, id)]
           target == [id \in sessions |-> File(SessionTarget(id), {}, {}, {})]
           transient == [id \in sessions |-> SessionUnits(e, id)]
<1>1. IsFiniteSet(natives) /\ IsFiniteSet(sessions)
  <2>1. natives \in SUBSET DOMAIN e.services /\ sessions \in SUBSET DOMAIN e.services
    BY DEF NativeIds, OpenSessions, Managed, Enabled
  <2> QED
    BY <2>1, FS_Subset DEF DocumentFinite
<1>2. IsFiniteSet(UNION { files[id] : id \in natives })
  <2>1. files = [id \in natives |-> files[id]]
    OBVIOUS
  <2>2. \A id \in natives : IsFiniteSet(files[id])
    BY FiniteFilesOf DEF NativeIds
  <2> HIDE DEF files, natives
  <2> QED
    BY <1>1, <2>1, <2>2, FinitePieces
<1>3. IsFiniteSet({ target[id] : id \in sessions })
  <2>1. target = [id \in sessions |-> target[id]]
    OBVIOUS
  <2> HIDE DEF target, sessions
  <2> QED
    BY <1>1, <2>1, FiniteImage
<1>4. IsFiniteSet({ transient[id] : id \in sessions })
  <2>1. transient = [id \in sessions |-> transient[id]]
    OBVIOUS
  <2> HIDE DEF transient, sessions
  <2> QED
    BY <1>1, <2>1, FiniteImage
<1>5. UnitFiles(e) \subseteq (UNION { files[id] : id \in natives }) \cup { target[id] : id \in sessions }
  BY UnitFilesParts
<1>6. SessionFiles(e) = { transient[id] : id \in sessions }
  BY DEF SessionFiles
<1>7. ASSUME NEW f \in UnitFiles(e) \cup SessionFiles(e) PROVE FileFinite(f)
  <2>1. CASE f \in SessionFiles(e)
    <3>1. PICK id \in sessions : f = SessionUnits(e, id)
      BY <2>1 DEF SessionFiles
    <3>2. PICK with \in SUBSET {SessionTarget(id), <<"network", id>>} :
            f.requires = DependencyLines(e, e.services[id]).requires \cup with
      BY <3>1, SessionFields
    <3>3. id \in DOMAIN e.services
      BY DEF OpenSessions, Enabled
    <3>4. IsFiniteSet(DependencyLines(e, e.services[id]).requires) /\ IsFiniteSet(with)
      BY <3>3, FiniteDependencies, FiniteFew, FS_Subset DEF DocumentFinite
    <3>5. IsFiniteSet(f.requires)
      BY <3>2, <3>4, FS_Union
    <3> QED
      BY <3>1, <3>5, SessionFields, FiniteFew DEF FileFinite
  <2>2. ASSUME NEW id \in natives, f \in FilesOf(e, id) PROVE FileFinite(f)
    BY <2>2, FiniteFilesOf DEF NativeIds
  <2>3. ASSUME NEW id \in sessions, f = File(SessionTarget(id), {}, {}, {}) PROVE FileFinite(f)
    <3>1. f.requires = {} /\ f.triggers = {}
      BY <2>3, FileFields
    <3> QED
      BY <3>1, FiniteFew DEF FileFinite
  <2>4. CASE f \in UnitFiles(e)
    BY <2>2, <2>3, <2>4, UnitFilesParts
  <2> QED
    BY <2>1, <2>4
<1> HIDE DEF files, target, transient, natives, sessions
<1>8. IsFiniteSet(UnitFiles(e))
  BY <1>2, <1>3, <1>5, FS_Union, FS_Subset
<1> QED
  BY <1>4, <1>6, <1>7, <1>8, FS_Union

LEMMA FiniteStart ==
  ASSUME NEW e, DocumentFinite(e) PROVE IsFiniteSet(StartUnits(e) \cup Names(SessionFiles(e)))
<1> DEFINE ids == Managed(e, NativeIds(e)) \cap Enabled(e)
           own(id) == IF e.services[id].kind = "daemon" /\ e.services[id].activation = "persistent"
                      THEN {Owner(e, id)} ELSE {}
           start == [id \in ids |-> Sockets(e, id) \cup Timers(e, id) \cup own(id)]
<1>1. IsFiniteSet(ids)
  <2>1. ids \in SUBSET DOMAIN e.services
    BY DEF Managed, NativeIds
  <2> QED
    BY <2>1, FS_Subset DEF DocumentFinite
<1>2. ASSUME NEW id \in ids PROVE IsFiniteSet(start[id])
  <2>1. id \in DOMAIN e.services
    BY DEF Enabled
  <2>2. IsFiniteSet(Sockets(e, id))
    <3> DEFINE routes == DOMAIN e.services[id].routes
               socket == [r \in routes |-> Socket(id, r)]
    <3>1. socket = [r \in routes |-> socket[r]]
      OBVIOUS
    <3>2. Sockets(e, id) = {} \/ Sockets(e, id) = { Socket(id, r) : r \in routes }
      BY DEF Sockets
    <3>3. Sockets(e, id) = {} \/ Sockets(e, id) = { socket[r] : r \in routes }
      BY <3>2
    <3>4. IsFiniteSet(routes)
      BY <2>1 DEF DocumentFinite
    <3> HIDE DEF socket, routes
    <3>5. IsFiniteSet({ socket[r] : r \in routes })
      BY <3>1, <3>4, FiniteImage
    <3> QED
      BY <3>3, <3>5, FS_EmptySet
  <2>3. IsFiniteSet(Timers(e, id))
    <3>1. CASE e.services[id].kind = "job"
      <4> DEFINE timers == TimerUnits(e, id)
                 name == [f \in timers |-> f.unit]
      <4>1. IsFiniteSet(timers)
        BY <2>1, <3>1, FiniteTimers DEF DocumentFinite
      <4>2. name = [f \in timers |-> name[f]]
        OBVIOUS
      <4>3. Timers(e, id) = { name[f] : f \in timers }
        BY <3>1 DEF Timers, Names
      <4> HIDE DEF name, timers
      <4> QED
        BY <4>1, <4>2, <4>3, FiniteImage
    <3>2. CASE e.services[id].kind # "job"
      BY <3>2, FiniteFew DEF Timers
    <3> QED
      BY <3>1, <3>2
  <2>4. IsFiniteSet(own(id))
    BY FiniteFew
  <2> HIDE DEF own
  <2> QED
    BY <2>2, <2>3, <2>4, FS_Union
<1>3. IsFiniteSet(UNION { start[id] : id \in ids })
  <2>1. start = [id \in ids |-> start[id]]
    OBVIOUS
  <2> HIDE DEF start, ids
  <2> QED
    BY <1>1, <1>2, <2>1, FinitePieces
<1>4. StartUnits(e) = UNION { start[id] : id \in ids }
  <2>1. StartUnits(e) = UNION { Sockets(e, id) \cup Timers(e, id) \cup own(id) : id \in ids }
    BY DEF StartUnits
  <2>2. { Sockets(e, id) \cup Timers(e, id) \cup own(id) : id \in ids } = { start[id] : id \in ids }
    OBVIOUS
  <2> QED
    BY <2>1, <2>2
<1>5. IsFiniteSet(Names(SessionFiles(e)))
  <2> DEFINE files == SessionFiles(e)
             name == [f \in files |-> f.unit]
  <2>1. IsFiniteSet(files)
    <3>1. SessionFiles(e) \in SUBSET (UnitFiles(e) \cup SessionFiles(e))
      OBVIOUS
    <3> QED
      BY <3>1, FiniteUnitFiles, FS_Subset
  <2>2. name = [f \in files |-> name[f]]
    OBVIOUS
  <2>3. Names(files) = { name[f] : f \in files }
    BY DEF Names
  <2> HIDE DEF name, files
  <2>4. IsFiniteSet(Names(files))
    BY <2>1, <2>2, <2>3, FiniteImage
  <2> QED
    BY <2>4 DEF files
<1> QED
  BY <1>3, <1>4, <1>5, FS_Union

LEMMA NormalDefaults ==
  ASSUME NEW s PROVE {"enabled", "dependencies"} \subseteq DOMAIN NormalService(s)
<1> DEFINE defaults == [enabled |-> TRUE, managed |-> TRUE, dependencies |-> <<>>,
                        requires |-> {}, capabilities |-> <<>>, accelerators |-> <<>>,
                        storage |-> <<>>, credentials |-> <<>>, routes |-> <<>>, listeners |-> <<>>]
           full == Over(Over(s, defaults), Lifecycle(s.kind))
           normal == [full EXCEPT
                        !.dependencies = [i \in DOMAIN @ |-> Over(@[i], [condition |-> "ready"])],
                        !.accelerators = [i \in DOMAIN @ |-> Over(@[i],
                                            [vendor |-> "any", quantity |-> 1, required |-> FALSE, mode |-> "shared"])],
                        !.routes    = [r \in DOMAIN @ |-> NormalRoute(@[r])],
                        !.listeners = [l \in DOMAIN @ |-> Over(@[l], [firewall |-> TRUE])]]
<1>1. NormalService(s) = Over(NetworkDefault(s), normal)
  BY DEF NormalService
<1>2. {"enabled", "dependencies"} \subseteq DOMAIN defaults
  OBVIOUS
<1> HIDE DEF defaults
<1>3. {"enabled", "dependencies"} \subseteq DOMAIN full
  BY <1>2 DEF Over
<1> HIDE DEF full
<1>4. DOMAIN normal = DOMAIN full
  OBVIOUS
<1> HIDE DEF normal
<1> QED
  BY <1>1, <1>3, <1>4 DEF Over

(* What machines silently require is up.                                   *)
LEMMA VirtualizationUp ==
  ASSUME NEW d, WellFormed(d), DocumentFinite(Normalize(d)), SemanticValid(Normalize(d), FALSE, {}),
         SemanticValid(WithVirtualization(Normalize(d)), FALSE, {}),
         "virtualization" \in DOMAIN Normalize(d).services,
         NEW id \in Enabled(Normalize(d)), Normalize(d).services[id].runtime.type = "vm"
  PROVE  "virtualization" \in Enabled(Normalize(d))
<1> DEFINE e == Normalize(d)
           w == WithVirtualization(e)
           s == e.services[id]
           v == "virtualization"
           extra == [service |-> v, condition |-> "started"]
           with == [x \in DOMAIN e.services |-> MachineWaits(e.services[x])]
<1>1. /\ "services" \in DOMAIN e
      /\ e.services = [x \in DOMAIN d.services |-> NormalService(d.services[x])]
  BY NormalDocument
<1>2. id \in DOMAIN e.services /\ s.enabled
  BY DEF Enabled
<1>3. \A x \in DOMAIN e.services : {"enabled", "dependencies"} \subseteq DOMAIN e.services[x]
  BY <1>1, NormalDefaults
<1>4. w.services = with
  <2>1. w = [e EXCEPT !.services = with]
    BY <1>1 DEF WithVirtualization
  <2> HIDE DEF with, w, e
  <2> QED
    BY <1>1, <2>1
<1>5. DependenciesValid(e, id)
  BY <1>2 DEF SemanticValid, ServiceValid
<1>6. s.dependencies \in Seq(Range(s.dependencies))
  BY <1>2 DEF DocumentFinite
<1>7. \A x \in DOMAIN w.services : DependenciesValid(w, x)
  BY DEF SemanticValid, ServiceValid
<1> HIDE DEF e, w
<1>8. CASE \E y \in Range(s.dependencies) : y.service = v
  <2>1. PICK i \in DOMAIN s.dependencies : s.dependencies[i].service = v
    BY <1>8 DEF Range
  <2>2. e.services[v].enabled
    BY <1>2, <1>5, <2>1 DEF DependenciesValid
  <2> QED
    BY <2>2 DEF Enabled, e
<1>9. CASE \A y \in Range(s.dependencies) : y.service # v
  <2>1. e.services[id].runtime.type = "vm"
    BY DEF e
  <2>2. with[id] = [s EXCEPT !.dependencies = Append(@, extra)]
    BY <1>2, <1>9, <2>1 DEF MachineWaits
  <2> DEFINE after == with[id]
             i == Len(s.dependencies) + 1
  <2>3. after.enabled = s.enabled /\ after.dependencies = Append(s.dependencies, extra)
    BY <1>2, <1>3, <2>2
  <2>4. i \in DOMAIN Append(s.dependencies, extra) /\ Append(s.dependencies, extra)[i] = extra
    BY <1>6
  <2>5. v \in DOMAIN e.services
    BY DEF e
  <2>6. with[v].enabled = e.services[v].enabled
    BY <1>3, <2>5 DEF MachineWaits
  <2>7. id \in DOMAIN w.services /\ w.services[id] = after /\ w.services[v] = with[v]
    BY <1>2, <1>4
  <2>8. extra.service = v
    OBVIOUS
  <2> HIDE DEF after, with, i, extra
  <2>9. w.services[after.dependencies[i].service].enabled
    BY <1>2, <1>7, <2>3, <2>4, <2>7 DEF DependenciesValid
  <2>10. e.services[v].enabled
    BY <2>3, <2>4, <2>6, <2>7, <2>8, <2>9
  <2> QED
    BY <2>5, <2>10 DEF Enabled, e
<1> QED
  BY <1>8, <1>9

LEMMA GeneratedSeparate ==
  ASSUME NEW d, WellFormed(d), DocumentFinite(Normalize(d)), Generated(d)
  PROVE  Separate(Normalize(d))
<1> DEFINE e == Normalize(d)
<1>1. /\ SemanticValid(e, FALSE, {}) /\ UnitsAccepted(e) /\ OwnersDistinct(e)
      /\ \A id \in NativeIds(e) : Owner(e, id) = LibvirtUnit(e) => id = "virtualization"
      /\ SemanticValid(WithVirtualization(e), FALSE, {})
  BY DEF Generated, Valid
<1>2. \A id \in DOMAIN e.services : DependenciesValid(e, id) /\ WorkloadValid(e.services[id])
  BY <1>1 DEF SemanticValid, ServiceValid
<1>3. \A id \in Enabled(e) : e.services[id].runtime.type = "vm" /\ "virtualization" \in DOMAIN e.services
                             => "virtualization" \in Enabled(e)
  BY <1>1, VirtualizationUp
<1> QED
  BY <1>1, <1>2, <1>3 DEF Separate

LEMMA FiniteNamed ==
  ASSUME NEW e, DocumentFinite(e)
  PROVE  IsFiniteSet(Named(UnitFiles(e) \cup SessionFiles(e), {"requires", "triggers"},
                           StartUnits(e) \cup Names(SessionFiles(e))))
<1> DEFINE files == UnitFiles(e) \cup SessionFiles(e)
           units == StartUnits(e) \cup Names(SessionFiles(e))
           piece == [f \in files |-> UNION { f[field] : field \in {"requires", "triggers"} }]
<1>1. IsFiniteSet(files) /\ \A f \in files : FileFinite(f)
  BY FiniteUnitFiles
<1>2. IsFiniteSet(units)
  BY FiniteStart
<1>3. ASSUME NEW f \in files PROVE IsFiniteSet(piece[f])
  <2>1. piece[f] = f.requires \cup f.triggers
    BY <1>3
  <2>2. IsFiniteSet(f.requires) /\ IsFiniteSet(f.triggers)
    BY <1>1, <1>3 DEF FileFinite
  <2> HIDE DEF piece, files
  <2>3. IsFiniteSet(f.requires \cup f.triggers)
    BY <2>2, FS_Union
  <2> QED
    BY <2>1, <2>3
<1>4. piece = [f \in files |-> piece[f]]
  OBVIOUS
<1>5. Named(files, {"requires", "triggers"}, units) = units \cup UNION { piece[f] : f \in files }
  <2>1. { UNION { f[field] : field \in {"requires", "triggers"} } : f \in files } = { piece[f] : f \in files }
    OBVIOUS
  <2> QED
    BY <2>1 DEF Named
<1> HIDE DEF piece, files
<1>6. IsFiniteSet(UNION { piece[f] : f \in files })
  BY <1>1, <1>3, <1>4, FinitePieces
<1> DEFINE mentioned == UNION { piece[f] : f \in files }
<1> HIDE DEF units, mentioned
<1>7. IsFiniteSet(Named(files, {"requires", "triggers"}, units))
  <2>1. IsFiniteSet(mentioned) /\ Named(files, {"requires", "triggers"}, units) = units \cup mentioned
    BY <1>5, <1>6 DEF mentioned
  <2> QED
    BY <1>2, <2>1, FS_Union
<1> QED
  BY <1>7 DEF files, units

(* Nothing that may run is a unit of a disabled service.                   *)
LEMMA MayRunUp ==
  ASSUME NEW e, Separate(e), DocumentFinite(e)
  PROVE  MayRun(e) \cap DownUnits(e) = {}
<1> DEFINE files == UnitFiles(e) \cup SessionFiles(e)
           fields == {"requires", "triggers"}
           units == StartUnits(e) \cup Names(SessionFiles(e))
           U == Named(files, fields, units) \ DownUnits(e)
<1>1. MayRun(e) = Closure(files, fields, units)
  BY DEF MayRun, SessionFiles
<1>2. IsFiniteSet(Named(files, fields, units))
  BY FiniteNamed
<1>3. units \subseteq U
  BY StartUp DEF Named
<1>4. ASSUME NEW u \in Mentioned(files, fields, U) PROVE u \in U
  <2>1. CASE u \in U
    BY <2>1
  <2>2. CASE u \notin U
    <3> HIDE DEF files, units, U
    <3>1. PICK f \in files : f.unit \in U /\ u \in UNION { f[field] : field \in fields }
      <4> HIDE DEF fields
      <4> QED
        BY <1>4, <2>2 DEF Mentioned
    <3>2. u \in f.requires \cup f.triggers
      BY <3>1
    <3>3. u \in Named(files, fields, units)
      <4> HIDE DEF fields
      <4> QED
        BY <3>1 DEF Named
    <3>4. u \notin DownUnits(e)
      BY <3>1, <3>2, FilesUp DEF U, files
    <3> QED
      BY <3>3, <3>4 DEF U
  <2> QED
    BY <2>1, <2>2
<1> HIDE DEF files, fields, units, U
<1>5. Closure(files, fields, units) \subseteq U
  BY <1>2, <1>3, <1>4, ClosureBounded
<1> QED
  BY <1>1, <1>5 DEF U

LEMMA DownStopped ==
  ASSUME NEW e, Separate(e), NEW id \in Managed(e, DOMAIN e.services) \ Enabled(e)
  PROVE  ServiceUnits(e, id) \subseteq StopUnits(e) \cap OwnedUnits(e)
<1>1. id \in DOMAIN e.services /\ e.services[id].managed /\ id \notin Enabled(e)
  BY DEF Managed
<1>2. CASE id \in SessionIds(e)
  <2>1. e.services[id].kind = "session"
    BY <1>2 DEF SessionIds
  <2>2. WorkloadValid(e.services[id])
    BY <1>1 DEF Separate
  <2>3. e.services[id].runtime.type = "oci"
    BY <2>1, <2>2 DEF WorkloadValid
  <2>4. ServiceUnits(e, id) = {SessionTarget(id)}
    BY <1>2, <2>3 DEF ServiceUnits, EntryUnits
  <2>5. id \in Managed(e, SessionIds(e))
    BY <1>1, <1>2 DEF Managed
  <2> QED
    BY <1>1, <2>4, <2>5 DEF StopUnits, OwnedUnits
<1>3. CASE id \notin SessionIds(e)
  <2>1. id \in NativeIds(e) /\ id \in Managed(e, NativeIds(e))
    BY <1>1, <1>3 DEF NativeIds, Managed
  <2>2. ServiceUnits(e, id) = UnitsOf(e, id) \cup EntryUnits(id, e.services[id])
    BY <1>3 DEF ServiceUnits
  <2>3. UnitsOf(e, id) \subseteq StopUnits(e) /\ EntryUnits(id, e.services[id]) \subseteq StopUnits(e)
    BY <1>1, <2>1 DEF StopUnits
  <2>4. UnitsOf(e, id) \subseteq OwnedUnits(e) /\ EntryUnits(id, e.services[id]) \subseteq OwnedUnits(e)
    BY <2>1 DEF OwnedUnits
  <2> QED
    BY <2>2, <2>3, <2>4
<1> QED
  BY <1>2, <1>3

(* The reconciler owns and stops every unit of a disabled managed service, *)
(* and nothing that starts, wakes or elapses leads to one of them.         *)
THEOREM CompilerDisabledStaysDown == CompilerSpec => []DisabledStaysDown
<1>1. CompilerInit => (topic = "graph" => input \in Graphs)
  BY DEF CompilerInit
<1>2. ASSUME topic = "graph" => input \in Graphs PROVE DisabledStaysDown
  <2> DEFINE e == Normalize(input)
  <2> SUFFICES ASSUME topic = "graph", Generated(input), NEW id \in Managed(e, DOMAIN e.services) \ Enabled(e)
               PROVE  /\ ServiceUnits(e, id) \subseteq StopUnits(e) \cap OwnedUnits(e)
                      /\ ServiceUnits(e, id) \cap MayRun(e) = {}
    BY DEF DisabledStaysDown, ServiceUnits
  <2>1. WellFormed(input) /\ DocumentFinite(e)
    BY <1>2, GraphsAssumption
  <2>2. Separate(e)
    BY <2>1, GeneratedSeparate
  <2> HIDE DEF e
  <2>3. MayRun(e) \cap DownUnits(e) = {}
    BY <2>1, <2>2, MayRunUp
  <2>4. ServiceUnits(e, id) \subseteq DownUnits(e)
    BY DEF DownUnits, Managed
  <2> QED
    BY <2>2, <2>3, <2>4, DownStopped
<1>3. (topic = "graph" => input \in Graphs) /\ [UNCHANGED compilerVars]_compilerVars
      => (topic = "graph" => input \in Graphs)'
  BY DEF compilerVars
<1> QED
  BY <1>1, <1>2, <1>3, PTL DEF CompilerSpec
=============================================================================
