--------------------------- MODULE FirstRunProofs ---------------------------
(***************************************************************************)
(* The first-run setup keeps its promises for any plans, any choice of the *)
(* optional stages and any number of kills, restarts and failing commands. *)
(*                                                                         *)
(* The order of the stages is what protects the machine, but a journal is  *)
(* not a prefix of them: the probe of a recorded step may fail after a     *)
(* restart, and then a step is open while later ones are complete.  The    *)
(* invariant IInv singles out the steps that destroy or hand out           *)
(* credentials (Once): they run before anything that depends on them is    *)
(* started, and are not run again once they are recorded (Settled).  The   *)
(* rest is bookkeeping of what a recorded step leaves for good (Left), how *)
(* far the running stage is (Halfway), and that the state file is written  *)
(* when every other stage is recorded (Published).                         *)
(***************************************************************************)
EXTENDS FirstRun, TLAPS

Started(s)  == journal.status # "absent" /\ journal.steps[s] # "none"
Recorded(s) == StepComplete(journal, s)

(* The steps that clear facts, or add a bootstrap credential.              *)
Once == {"keepass-database", "bootstrap-authentik-authority", "secret-initialization",
         "identity-database-regeneration", "permanent-authentik-authority",
         "bootstrap-authority-retirement"}

(* What a recorded step leaves for good.                                   *)
Lasting(s) ==
    CASE s = "keepass-database" -> {"database"}
      [] s \in {"bootstrap-authentik-authority", "permanent-authentik-authority"} -> {"authority"}
      [] s = "secret-initialization" -> {"key"}
      [] s = "storage" -> {"pool", "dataset"}
      [] s = "storage-runtime-preparation" -> {"runtime"}
      [] s = "local-administrator" -> {"account"}
      [] s = "identity-database-regeneration" -> {"bootdb"}
      [] s = "identity-bootstrap" -> {"roles"}
      [] s = "identity-runtime-token" -> {"token"}
      [] s = "identity-accounts" -> {"identities"}
      [] s = "setup-application-retirement" -> {"setupapp-gone"}
      [] s = "bootstrap-authority-retirement" -> {"akadmin-gone"}
      [] s = "bootstrap-linux-retirement" -> {"adminfile", "bootuser-gone"}
      [] s = "share-directories" -> {"shares"}
      [] s = "managed-services-policy" -> {"policy"}
      [] OTHER -> {}

(* The worker, its journal and the steps it has behind it.                 *)
Working ==
    /\ journal.status # "cancelled"
    /\ pc # "idle" => args \in [plan : Plans, destructive : BOOLEAN] /\ journal.status # "complete"
    /\ pc \in {"stage", "act"} =>
         /\ journal.status # "absent"
         /\ \A i \in 1..(at - 1) : Order[i] \in Stages => Recorded(Order[i])
         /\ at <= Len(Order) => Stage \in Stages
    /\ pc = "act" => at <= Len(Order) /\ journal.steps[Stage] = "running"

(* A step of Once is recorded before a later one is started, for good.     *)
Settled ==
    \A i, j \in DOMAIN Order :
        i < j /\ Order[i] \in Once /\ Order[j] \in Stages /\ Started(Order[j])
            => Recorded(Order[i])

Left ==
    /\ \A s \in Stages : Recorded(s) => Lasting(s) \subseteq world
    /\ Recorded("bootstrap-authority-retirement") => {"kp-boot", "bootcreds", "akadmin-token"} \cap world = {}

(* The number of commands of a stage.                                      *)
Count(s) ==
    CASE s = "bootstrap-authority-retirement" -> 4
      [] s = "storage" -> IF encrypted THEN 2 ELSE 3
      [] s = "storage-runtime-preparation" -> IF encrypted THEN 3 ELSE 1
      [] s \in {"keepass-database", "identity-database-regeneration", "identity-runtime-token",
                "bootstrap-linux-retirement"} -> 2
      [] OTHER -> 1

(* What the commands of the running stage have done so far.                *)
Halfway ==
    pc = "act" =>
        /\ done = Count(Stage) => Lasting(Stage) \subseteq world
        /\ done <= Count(Stage)
        /\ Stage = "storage" =>
             (done >= 1 => "pool" \in world) /\ (done >= 2 => "dataset" \in world)
        /\ Stage = "bootstrap-authority-retirement" =>
             /\ done >= 1 => "akadmin-gone" \in world /\ "akadmin-token" \notin world
             /\ done >= 2 => "kp-boot" \notin world
             /\ done >= 3 => "bootcreds" \notin world
        /\ Stage = "bootstrap-linux-retirement" /\ done >= 1 =>
             {"account", "adminfile"} \subseteq world

(* The dataset is the work of the storage stage, and its key is kept.      *)
Keyed == ("dataset" \in world => Started("storage")) /\ KeyKept

(* The state file is written when every other stage is recorded.           *)
Published ==
    "state" \in world =>
        /\ \A s \in Stages \ {"final-state"} : Recorded(s)
        /\ pc = "idle" \/ (pc = "act" /\ at = Len(Order)) \/ (pc = "stage" /\ at > Len(Order))

Completed == journal.status = "complete" => \A s \in Stages : Recorded(s)

IInv == /\ TypeOK /\ Working /\ Settled /\ Left /\ Halfway /\ Keyed /\ NeverLockedOut
        /\ Published /\ Completed

-----------------------------------------------------------------------------
(* The stages by their place.                                              *)
LEMMA Places ==
    /\ Len(Order) = 21 /\ DOMAIN Order = 1..21
    /\ \A i, j \in 1..21 : Order[i] = Order[j] => i = j
    /\ Order[1] = "keepass-database" /\ Order[2] = "bootstrap-authentik-authority"
    /\ Order[3] = "secret-initialization" /\ Order[4] = "storage"
    /\ Order[7] = "identity-database-regeneration"
    /\ Order[8] = "permanent-authentik-authority"
    /\ Order[14] = "bootstrap-authority-retirement"
    /\ Order[15] = "bootstrap-linux-retirement"
    /\ Order[17] = "syncthing" /\ Order[20] = "preflight" /\ Order[21] = "final-state"
BY DEF Order

Named ==
    {"keepass-database", "bootstrap-authentik-authority", "secret-initialization",
     "storage", "storage-runtime-preparation", "local-administrator",
     "identity-database-regeneration", "permanent-authentik-authority",
     "protected-service-activation", "identity-bootstrap",
     "identity-runtime-token", "identity-accounts",
     "setup-application-retirement", "bootstrap-authority-retirement",
     "bootstrap-linux-retirement", "share-directories", "syncthing",
     "managed-services-policy", "verification", "preflight", "final-state"}

LEMMA StageNames ==
    /\ Stages \subseteq Named /\ Named \ {"syncthing", "preflight"} \subseteq Stages
    /\ \A i \in 1..21 : Order[i] \notin Stages => i \in {17, 20}
    /\ \A s \in Stages : \E i \in 1..21 : s = Order[i]
<1>1. {Order[i] : i \in 1..21} = Named
  BY DEF Order, Named
<1>2. \A i \in 1..21 : Order[i] \in {"syncthing", "preflight"} => i \in {17, 20}
  BY Places
<1> QED
  BY Places, <1>1, <1>2 DEF Stages

LEMMA AfterStage ==
    ASSUME NEW i \in 1..21
    PROVE  /\ After(i) \in (i + 1)..22
           /\ After(i) <= 21 => Order[After(i)] \in Stages
           /\ \A k \in (i + 1)..(After(i) - 1) : Order[k] \notin Stages
<1>1. "final-state" \in Stages
  BY StageNames DEF Named
<1>2. CASE i < 21 /\ Order[i + 1] \notin Stages
  <2>1. i + 1 \in {17, 20} /\ After(i) = i + 2
    BY <1>2, Places, StageNames DEF After
  <2>2. Order[i + 2] \in Stages
    BY <2>1, StageNames
  <2> QED
    BY <1>2, <2>1, <2>2
<1>3. CASE ~(i < 21 /\ Order[i + 1] \notin Stages)
  BY <1>3, Places DEF After
<1> QED
  BY <1>2, <1>3

-----------------------------------------------------------------------------
(* The commands.  Apart from the staged bootstrap token, a command changes *)
(* just what it clears and adds.                                           *)
LEMMA Performs ==
    ASSUME NEW w, NEW e, NEW f, f # "boot-token"
    PROVE  f \in Perform(w, e) <=> (f \in w /\ f \notin e.clear) \/ f \in e.add
BY DEF Perform

(* What command k of stage s may touch: where credentials and identities   *)
(* are cleared and added, and what is in place when the stage ends.        *)
Disciplined(s, k) ==
    LET e == ActionOf(s)[k] IN
    /\ e.add \subseteq Facts
    /\ e.clear \subseteq InDatabase \cup InIdentity \cup {"bootdb", "bootcreds", "akadmin-token", "stack"}
    /\ s # "keepass-database" => e.clear \cap InDatabase \subseteq {"kp-boot"}
    /\ s # "identity-database-regeneration" => e.clear \cap (InIdentity \cup {"bootdb"}) = {}
    /\ "kp-boot" \in e.add => s \in {"bootstrap-authentik-authority", "secret-initialization",
                                     "permanent-authentik-authority"}
    /\ "bootcreds" \in e.add \/ "akadmin-token" \in e.add => s = "identity-database-regeneration"
    /\ "dataset" \in e.add => s = "storage"
    /\ "akadmin-gone" \in e.add => s = "bootstrap-authority-retirement" /\ "identities" \in e.needs
    /\ "identities" \in e.clear => "akadmin-gone" \in e.clear \ e.add
    /\ "bootuser-gone" \in e.add => s = "bootstrap-linux-retirement" /\ k = 2
    /\ "state" \in e.add => s = "final-state"
    /\ s \notin {"storage", "bootstrap-authority-retirement", "bootstrap-linux-retirement"}
         /\ k = Len(ActionOf(s)) => Lasting(s) \subseteq e.add

Lengths(s) == Len(ActionOf(s)) = Count(s) /\ Count(s) \in 1..4

LEMMA DatabaseCommands ==
    ASSUME NEW s \in {"keepass-database", "bootstrap-authentik-authority",
                      "permanent-authentik-authority", "secret-initialization"}
    PROVE  Lengths(s) /\ \A k \in 1..Len(ActionOf(s)) : Disciplined(s, k)
<1> USE DEF Lengths, Count, Disciplined, Lasting, Facts, InDatabase, InIdentity, ActionOf, Effect, Makes,
        verify_or_create_database, adopt_bootstrap_authentik_authority
<1>1. CASE s = "keepass-database"
  BY <1>1
<1>2. CASE s = "bootstrap-authentik-authority"
  BY <1>2
<1>3. CASE s = "permanent-authentik-authority"
  BY <1>3
<1>4. CASE s = "secret-initialization"
  BY <1>4
<1> QED
  BY <1>1, <1>2, <1>3, <1>4

LEMMA StorageCommands ==
    ASSUME encrypted \in BOOLEAN
    PROVE  /\ Lengths("storage") /\ Count("storage") >= 2
           /\ \A k \in 1..Len(ActionOf("storage")) : Disciplined("storage", k)
           /\ "pool" \in ActionOf("storage")[1].add
           /\ "dataset" \in ActionOf("storage")[2].add
           /\ \A k \in 1..Len(ActionOf("storage")) :
                "dataset" \in ActionOf("storage")[k].add /\ encrypted
                    => "dataset" \in world \/ "dataset-key" \in ActionOf("storage")[k].add
<1> DEFINE w == "dataset" \in world
           first == Makes({}, {"pool"})
           make == Makes({"pool"} \cup (IF w THEN {} ELSE {"key"}),
                         {"dataset"} \cup (IF w THEN {} ELSE {"dataset-key"}))
           clear == Makes({"pool"}, {"dataset"})
           mount == Makes({"dataset"}, {"mounted"})
<1>1. ActionOf("storage") = <<first>> \o (IF encrypted THEN <<make>> ELSE <<clear, mount>>)
  BY DEF ActionOf, setup_storage
<1>2. CASE encrypted
  <2>1. ActionOf("storage") = <<first, make>>
    BY <1>1, <1>2
  <2> QED
    BY <1>2, <2>1 DEF Lengths, Count, Disciplined, Lasting, Facts, InDatabase, InIdentity, Effect, Makes
<1>3. CASE ~encrypted
  <2>1. ActionOf("storage") = <<first, clear, mount>>
    BY <1>1, <1>3
  <2> QED
    BY <1>3, <2>1 DEF Lengths, Count, Disciplined, Lasting, Facts, InDatabase, InIdentity, Effect, Makes
<1> QED
  BY <1>2, <1>3

LEMMA RuntimeCommands ==
    ASSUME encrypted \in BOOLEAN, NEW s, s = "storage-runtime-preparation"
    PROVE  Lengths(s) /\ \A k \in 1..Len(ActionOf(s)) : Disciplined(s, k)
<1> DEFINE unlock == Activates({}, {})
           mount == Makes({"ready", "dataset-key"}, {"mounted"})
           run == Makes({"mounted"}, {"runtime"})
<1>1. ActionOf(s) = (IF encrypted THEN <<unlock, mount>> ELSE << >>) \o <<run>>
  BY DEF ActionOf, prepare_storage_runtime
<1>2. CASE encrypted
  <2>1. ActionOf(s) = <<unlock, mount, run>>
    BY <1>1, <1>2
  <2>2. Len(ActionOf(s)) = 3 /\ ActionOf(s)[1] = unlock /\ ActionOf(s)[2] = mount
        /\ ActionOf(s)[3] = run
    BY <2>1
  <2> USE DEF Disciplined, Lasting, Facts, InDatabase, InIdentity, Effect, Makes, Activates
  <2>3. Disciplined(s, 1)
    BY <2>2
  <2>4. Disciplined(s, 2)
    BY <2>2
  <2>5. Disciplined(s, 3)
    BY <2>2
  <2> HIDE DEF Disciplined
  <2>6. \A k \in 1..3 : Disciplined(s, k)
    BY <2>3, <2>4, <2>5
  <2>7. Len(ActionOf(s)) = 3
    BY <2>2
  <2>8. \A k \in 1..Len(ActionOf(s)) : Disciplined(s, k)
    BY <2>6, <2>7
  <2>9. Lengths(s)
    BY <1>2, <2>7 DEF Lengths, Count
  <2> QED
    BY <2>8, <2>9
<1>3. CASE ~encrypted
  <2>1. ActionOf(s) = <<run>>
    BY <1>1, <1>3
  <2> QED
    BY <1>3, <2>1 DEF Lengths, Count, Disciplined, Lasting, Facts, InDatabase, InIdentity, Effect, Makes
<1> QED
  BY <1>2, <1>3

LEMMA IdentityCommands ==
    ASSUME NEW s \in {"identity-database-regeneration", "protected-service-activation",
                      "identity-bootstrap", "identity-runtime-token", "identity-accounts",
                      "setup-application-retirement", "syncthing"}
    PROVE  Lengths(s) /\ \A k \in 1..Len(ActionOf(s)) : Disciplined(s, k)
<1> USE DEF Lengths, Count, Disciplined, Lasting, Facts, InDatabase, InIdentity, ActionOf, Effect, Makes,
        Activates
<1>1. CASE s = "identity-database-regeneration"
  BY <1>1 DEF regenerate_boot_identity_databases
<1>2. CASE s = "protected-service-activation"
  BY <1>2
<1>3. CASE s = "identity-bootstrap"
  BY <1>3
<1>4. CASE s = "identity-runtime-token"
  BY <1>4 DEF install_runtime_identity_token
<1>5. CASE s = "identity-accounts"
  BY <1>5 DEF apply_accounts
<1>6. CASE s = "setup-application-retirement"
  BY <1>6 DEF remove_setup_application
<1>7. CASE s = "syncthing"
  BY <1>7
<1> QED
  BY <1>1, <1>2, <1>3, <1>4, <1>5, <1>6, <1>7

LEMMA HostCommands ==
    ASSUME NEW s \in {"local-administrator", "share-directories", "managed-services-policy",
                      "verification", "preflight", "final-state"}
    PROVE  Lengths(s) /\ \A k \in 1..Len(ActionOf(s)) : Disciplined(s, k)
<1> USE DEF Lengths, Count, Disciplined, Lasting, Facts, InDatabase, InIdentity, ActionOf, Effect, Makes
<1>1. CASE s = "local-administrator"
  BY <1>1 DEF create_local_administrator
<1>2. CASE s = "share-directories"
  BY <1>2 DEF provision_share_directories
<1>3. CASE s = "managed-services-policy"
  BY <1>3 DEF apply_services
<1>4. CASE s \in {"verification", "preflight"}
  BY <1>4
<1>5. CASE s = "final-state"
  BY <1>5 DEF write_state
<1> QED
  BY <1>1, <1>2, <1>3, <1>4, <1>5

(* The two retirements, command by command.                                *)
LEMMA AuthorityRetirement ==
    ASSUME NEW s, s = "bootstrap-authority-retirement"
    PROVE  /\ Len(ActionOf(s)) = 4 /\ \A k \in 1..4 : Disciplined(s, k)
           /\ "akadmin-gone" \in ActionOf(s)[1].add /\ "akadmin-token" \in ActionOf(s)[1].clear
           /\ "kp-boot" \in ActionOf(s)[2].clear /\ "bootcreds" \in ActionOf(s)[3].clear
           /\ \A k \in 1..4 : {"kp-boot", "bootcreds", "akadmin-token"} \cap ActionOf(s)[k].add = {}
<1>1. ActionOf(s) = retire_bootstrap_runtime
  BY DEF ActionOf
<1>2. /\ Len(ActionOf(s)) = 4
      /\ "akadmin-gone" \in ActionOf(s)[1].add /\ "akadmin-token" \in ActionOf(s)[1].clear
      /\ "kp-boot" \in ActionOf(s)[2].clear /\ "bootcreds" \in ActionOf(s)[3].clear
      /\ \A k \in 1..4 : {"kp-boot", "bootcreds", "akadmin-token"} \cap ActionOf(s)[k].add = {}
  BY <1>1 DEF retire_bootstrap_runtime, Effect, Makes, Activates
<1>3. \A k \in 1..4 : Disciplined(s, k)
  BY <1>1 DEF retire_bootstrap_runtime, Disciplined, Lasting, Facts, InDatabase, InIdentity, Effect,
      Makes, Activates
<1> QED
  BY <1>2, <1>3

LEMMA LinuxRetirement ==
    ASSUME NEW s, s = "bootstrap-linux-retirement"
    PROVE  /\ Len(ActionOf(s)) = 2 /\ \A k \in 1..2 : Disciplined(s, k)
           /\ "account" \in ActionOf(s)[1].needs /\ "adminfile" \in ActionOf(s)[1].add
           /\ "bootuser-gone" \in ActionOf(s)[2].add
<1>1. ActionOf(s) = finalize_local_administrator
  BY DEF ActionOf
<1> QED
  BY <1>1 DEF finalize_local_administrator, Disciplined, Lasting, Facts, InDatabase, InIdentity,
      Effect, Makes

LEMMA AllCommands ==
    ASSUME encrypted \in BOOLEAN, NEW s \in Stages
    PROVE  Lengths(s) /\ \A k \in 1..Len(ActionOf(s)) : Disciplined(s, k)
<1>1. s \in Named
  BY StageNames
<1>2. CASE s = "storage"
  BY <1>2, StorageCommands DEF Lengths
<1>3. CASE s = "bootstrap-authority-retirement"
  <2>1. Len(ActionOf(s)) = 4 /\ \A k \in 1..4 : Disciplined(s, k)
    BY <1>3, AuthorityRetirement
  <2>2. Count(s) = 4
    BY <1>3 DEF Count
  <2> QED
    BY <2>1, <2>2 DEF Lengths
<1>4. CASE s = "bootstrap-linux-retirement"
  <2>1. Len(ActionOf(s)) = 2 /\ \A k \in 1..2 : Disciplined(s, k)
    BY <1>4, LinuxRetirement
  <2>2. Count(s) = 2
    BY <1>4 DEF Count
  <2> QED
    BY <2>1, <2>2 DEF Lengths
<1> QED
  BY <1>1, <1>2, <1>3, <1>4, DatabaseCommands, RuntimeCommands, IdentityCommands, HostCommands DEF Named

-----------------------------------------------------------------------------
(* The invariant holds of a freshly installed machine.                     *)
LEMMA InvInit == Init => IInv
<1> SUFFICES ASSUME Init PROVE IInv
  OBVIOUS
<1>1. journal.status = "absent"
  BY DEF Init, NoJournal
<1>2. world \in {{"bootdb", "bootcreds", "akadmin-token"},
                    {"bootdb", "bootcreds", "akadmin-token", "pool"}}
  BY DEF Init
<1>3. TypeOK
  <2>1. world \subseteq Facts
    BY <1>2 DEF Facts
  <2>2. at \in 1..Len(Order) + 1 /\ done \in 0..4 /\ faults \in 0..MaxFaults
    BY FirstRunAssumption, Places DEF Init
  <2> QED
    BY <2>1, <2>2 DEF Init, TypeOK
<1>4. Working /\ Halfway
  BY <1>1 DEF Init, Working, Halfway
<1>5. Settled /\ Left /\ Completed
  BY <1>1 DEF Settled, Left, Completed, Started, Recorded, StepComplete
<1>6. Keyed /\ NeverLockedOut /\ Published
  BY <1>2 DEF Keyed, KeyKept, NeverLockedOut, Published
<1> QED
  BY <1>3, <1>4, <1>5, <1>6 DEF IInv

(* The methods of the journal keep its shape and change one step at most.  *)
LEMMA JournalTyped ==
    ASSUME NEW j \in Journals(Fingerprints)
    PROVE  j.status \in Statuses /\ j.status # "absent" /\ j.steps \in [Stages -> StepStatuses]
BY DEF Journals, Statuses

LEMMA StartMethod ==
    ASSUME NEW j \in Journals(Fingerprints), NEW s \in Stages
    PROVE  /\ StartStep(j, s) \in Journals(Fingerprints)
           /\ StartStep(j, s).steps = [j.steps EXCEPT ![s] = "running"]
           /\ StartStep(j, s).status = "running"
BY DEF StartStep, Journals, Statuses, StepStatuses

LEMMA CompleteMethod ==
    ASSUME NEW j \in Journals(Fingerprints), NEW s \in Stages
    PROVE  /\ CompleteStep(j, s) \in Journals(Fingerprints)
           /\ CompleteStep(j, s).steps = [j.steps EXCEPT ![s] = "complete"]
           /\ CompleteStep(j, s).status = j.status
BY DEF CompleteStep, Journals, Statuses, StepStatuses

LEMMA FailMethod ==
    ASSUME NEW j \in Journals(Fingerprints), NEW s \in Stages, NEW m \in BOOLEAN
    PROVE  /\ FailStep(j, s, m) \in Journals(Fingerprints)
           /\ FailStep(j, s, m).steps = [j.steps EXCEPT ![s] = "failed"]
           /\ FailStep(j, s, m).status \in {"failed", "manual-recovery-required"}
BY DEF FailStep, Journals, Statuses, StepStatuses

LEMMA RecoverMethod ==
    ASSUME NEW j \in Journals(Fingerprints), NEW s \in Stages, NEW f \in Fingerprints
    PROVE  /\ RecoveredStep(j, s, f) \in Journals(Fingerprints)
           /\ RecoveredStep(j, s, f).steps = [j.steps EXCEPT ![s] = "complete"]
           /\ RecoveredStep(j, s, f).status = "reconciled"
BY DEF RecoveredStep, Journals, Statuses, StepStatuses

LEMMA FinishMethods ==
    ASSUME NEW j \in Journals(Fingerprints)
    PROVE  /\ Complete(j) \in Journals(Fingerprints) /\ Complete(j).steps = j.steps
           /\ Complete(j).status = "complete"
           /\ Acknowledged(j) \in Journals(Fingerprints) /\ Acknowledged(j).steps = j.steps
           /\ Acknowledged(j).status = "reconciled"
BY DEF Complete, Acknowledged, Journals, Statuses

LEMMA OpenMethods ==
    ASSUME NEW j \in Journals(Fingerprints), NEW f \in Fingerprints
    PROVE  /\ [j EXCEPT !.fingerprint = f] \in Journals(Fingerprints)
           /\ [j EXCEPT !.fingerprint = f].steps = j.steps
           /\ [j EXCEPT !.fingerprint = f].status = j.status
           /\ [j EXCEPT !.status = "resuming"] \in Journals(Fingerprints)
           /\ [j EXCEPT !.status = "resuming"].steps = j.steps
           /\ [j EXCEPT !.status = "resuming"].status = "resuming"
BY DEF Journals, Statuses

-----------------------------------------------------------------------------
(* No step clears what a recorded step leaves for good, unless it is one   *)
(* of those that are recorded before it.                                   *)
LEMMA LastingFacts ==
    /\ \A s \in Stages :
         Lasting(s) \subseteq Facts \ {"kp-boot", "bootcreds", "akadmin-token", "stack", "boot-token"}
    /\ \A s \in Stages : Lasting(s) \cap {"mounted", "ready", "state", "state-corrupt"} = {}
    /\ \A s \in Once : s \in Stages /\ Probe(s) \subseteq Lasting(s)
    /\ Lasting("final-state") = {}
    /\ \A i \in 1..6 : Lasting(Order[i]) \cap (InIdentity \cup {"bootdb"}) = {}
<1>1. \A s \in Named :
        Lasting(s) \subseteq Facts \ {"kp-boot", "bootcreds", "akadmin-token", "stack", "boot-token"}
  BY DEF Lasting, Facts, InDatabase, InIdentity, Named
<1>3. \A s \in Named : Lasting(s) \cap {"mounted", "ready", "state", "state-corrupt"} = {}
  BY DEF Lasting, Named
<1>4. \A s \in Once : s \in Stages /\ Probe(s) \subseteq Lasting(s)
  <2>1. \A s \in Once : Probe(s) \subseteq Lasting(s)
    BY DEF Once, Lasting, Probe, keepass_database_ready
  <2>2. Once \subseteq Named \ {"syncthing", "preflight"}
    BY DEF Once, Named
  <2> QED
    BY <2>1, <2>2, StageNames
<1>5. Lasting("final-state") = {}
  BY DEF Lasting
<1>2. \A i \in 1..6 : Order[i] \in {"keepass-database", "bootstrap-authentik-authority",
          "secret-initialization", "storage", "storage-runtime-preparation", "local-administrator"}
  BY DEF Order
<1> QED
  BY <1>1, <1>2, <1>3, <1>4, <1>5, StageNames DEF Lasting, InIdentity

(* The running step is not recorded; if it is one of Once, no later one is *)
(* even started.                                                           *)
LEMMA RunningStage ==
    ASSUME IInv, pc = "act"
    PROVE  /\ at \in 1..21 /\ Stage = Order[at] /\ Stage \in Stages
           /\ journal \in Journals(Fingerprints)
           /\ Started(Stage) /\ ~Recorded(Stage)
           /\ Stage \in Once => \A j \in (at + 1)..21 : Order[j] \in Stages => ~Started(Order[j])
           /\ Lengths(Stage) /\ done \in 0..4 /\ done <= Count(Stage)
           /\ \A k \in 1..Len(ActionOf(Stage)) : Disciplined(Stage, k)
<1>1. at \in 1..21 /\ Stage = Order[at] /\ Stage \in Stages
  BY Places DEF IInv, TypeOK, Working, Stage
<1>2. journal \in Journals(Fingerprints) /\ journal.status # "absent"
  BY DEF IInv, TypeOK, Working, NoJournal
<1>3. Started(Stage) /\ ~Recorded(Stage)
  BY <1>2 DEF IInv, Working, Started, Recorded, StepComplete
<1>4. Stage \in Once => \A j \in (at + 1)..21 : Order[j] \in Stages => ~Started(Order[j])
  BY <1>1, <1>3, Places DEF IInv, Settled
<1>5. Lengths(Stage) /\ \A k \in 1..Len(ActionOf(Stage)) : Disciplined(Stage, k)
  BY <1>1, AllCommands DEF IInv, TypeOK
<1>6. done \in 0..4 /\ done <= Count(Stage)
  BY DEF IInv, TypeOK, Halfway
<1> QED
  BY <1>1, <1>2, <1>3, <1>4, <1>5, <1>6

LEMMA ActInv == IInv /\ Act => IInv'
<1> SUFFICES ASSUME IInv, Act PROVE IInv'
  OBVIOUS
<1> DEFINE s == Stage
           e == ActionOf(s)[done + 1]
<1>1. pc = "act" /\ done < Len(ActionOf(s)) /\ e.needs \subseteq world /\ world' = Perform(world, e)
      /\ done' = done + 1
      /\ UNCHANGED <<encrypted, createPool, journal, args, pc, at, manual, createdPool, faults>>
  BY DEF Act, plan
<1>2. /\ at \in 1..21 /\ s = Order[at] /\ s \in Stages /\ journal \in Journals(Fingerprints)
      /\ Started(s) /\ ~Recorded(s) /\ Lengths(s) /\ done \in 0..4
      /\ s \in Once => \A j \in (at + 1)..21 : Order[j] \in Stages => ~Started(Order[j])
  BY <1>1, RunningStage
<1>3. done + 1 \in 1..Len(ActionOf(s)) /\ done + 1 <= Count(s) /\ done + 1 \in 1..4
      /\ Disciplined(s, done + 1)
  BY <1>1, <1>2, RunningStage DEF Lengths
<1>4. \A f : f # "boot-token" => (f \in world' <=> (f \in world /\ f \notin e.clear) \/ f \in e.add)
  BY <1>1, Performs
<1>5. /\ \A t : (Recorded(t)' <=> Recorded(t)) /\ (Started(t)' <=> Started(t))
      /\ s' = s /\ Count(s)' = Count(s) /\ Lasting(s)' = Lasting(s)
  BY <1>1 DEF Recorded, Started, StepComplete, Stage, Count, Lasting
<1> HIDE DEF s, e
<1>6. e.add \subseteq Facts
  BY <1>3 DEF Disciplined, e
<1>7. TypeOK'
  <2>1. world' \subseteq Facts
    BY <1>4, <1>6 DEF IInv, TypeOK, Facts
  <2> QED
    BY <1>1, <1>3, <2>1 DEF IInv, TypeOK
<1>8. Working' /\ Settled' /\ Completed'
  BY <1>1, <1>5 DEF IInv, Working, Settled, Completed, Stage, Recorded, Started, StepComplete
<1>9. /\ e.clear \subseteq InDatabase \cup InIdentity \cup {"bootdb", "bootcreds", "akadmin-token", "stack"}
      /\ s # "keepass-database" => e.clear \cap InDatabase \subseteq {"kp-boot"}
      /\ s # "identity-database-regeneration" => e.clear \cap (InIdentity \cup {"bootdb"}) = {}
  BY <1>3 DEF Disciplined, e
<1>10. Left'
  <2>1. ASSUME NEW t \in Stages, Recorded(t) PROVE Lasting(t) \subseteq world'
    <3>1. Started(t) /\ t # s /\ Lasting(t) \subseteq world
      BY <1>2, <2>1 DEF IInv, Left, Started, Recorded, StepComplete
    <3>2. PICK i \in 1..21 : t = Order[i]
      BY StageNames
    <3>3. Lasting(t) \subseteq Facts \ {"kp-boot", "bootcreds", "akadmin-token", "stack", "boot-token"}
      BY LastingFacts
    <3>4. Lasting(t) \cap e.clear = {}
      <4>1. s # "keepass-database"
        BY <1>2, <3>1, <3>2, Places DEF Once
      <4>2. CASE s = "identity-database-regeneration"
        <5>1. at = 7
          <6>1. Order[at] = Order[7]
            BY <1>2, <4>2, Places
          <6> QED
            BY <1>2, <6>1, Places
        <5>2. i \in 1..6
          BY <1>2, <4>2, <5>1, <3>1, <3>2, Places DEF Once
        <5>3. Lasting(t) \cap (InIdentity \cup {"bootdb"}) = {}
          BY <5>2, <3>2, LastingFacts
        <5> QED
          BY <1>9, <3>3, <4>1, <5>3
      <4> QED
        BY <1>9, <3>3, <4>1, <4>2
    <3> QED
      BY <1>4, <3>1, <3>3, <3>4
  <2>2. ASSUME Recorded("bootstrap-authority-retirement")
        PROVE  {"kp-boot", "bootcreds", "akadmin-token"} \cap world' = {}
    <3>1. /\ {"kp-boot", "bootcreds", "akadmin-token"} \cap world = {}
          /\ Started(Order[14]) /\ Order[14] \in Stages
      BY <2>2, Places, StageNames DEF IInv, Left, Started, Recorded, StepComplete, Named
    <3>2. at \in {2, 3, 7, 8} => FALSE
      BY <1>2, <3>1, Places DEF Once
    <3>3. "kp-boot" \notin e.add /\ "bootcreds" \notin e.add /\ "akadmin-token" \notin e.add
      BY <1>2, <1>3, <3>2, Places, SMTT(30) DEF Disciplined, e
    <3> QED
      BY <1>4, <3>1, <3>3
  <2> QED
    BY <1>5, <2>1, <2>2 DEF Left
<1>11. Keyed'
  <2>1. "dataset" \in world' => Started("storage")
    BY <1>2, <1>3, <1>4 DEF IInv, Keyed, Disciplined, e
  <2>2. ASSUME encrypted, "dataset" \in world' PROVE "dataset-key" \in world'
    <3>1. CASE "dataset" \in world
      <4>1. "dataset-key" \in world /\ Started(Order[4]) /\ Order[4] \in Stages
        BY <2>2, <3>1, Places, StageNames DEF IInv, Keyed, KeyKept, Named
      <4>2. s # "keepass-database"
        BY <1>2, <4>1, Places DEF Once
      <4> QED
        BY <1>4, <1>9, <4>1, <4>2 DEF InDatabase
    <3>2. CASE "dataset" \notin world
      <4>1. "dataset" \in e.add /\ s = "storage"
        BY <1>3, <1>4, <2>2, <3>2 DEF Disciplined, e
      <4>2. "dataset-key" \in e.add
        BY <1>3, <2>2, <3>2, <4>1, StorageCommands DEF e
      <4> QED
        BY <1>4, <4>2
    <3> QED
      BY <3>1, <3>2
  <2> QED
    BY <1>1, <1>5, <2>1, <2>2 DEF Keyed, KeyKept
<1>12. NeverLockedOut'
  <2>1. {"account", "adminfile"} \cap e.clear = {}
    BY <1>9 DEF InDatabase, InIdentity
  <2>2. "bootuser-gone" \in world' => {"account", "adminfile"} \subseteq world
    <3>1. CASE "bootuser-gone" \in world
      BY <3>1 DEF IInv, NeverLockedOut
    <3>2. CASE "bootuser-gone" \in e.add
      <4>1. s = "bootstrap-linux-retirement" /\ done + 1 = 2
        BY <1>3, <3>2 DEF Disciplined, e
      <4> QED
        BY <1>1, <1>2, <4>1 DEF IInv, Halfway, s
    <3> QED
      BY <1>4, <3>1, <3>2
  <2>3. "akadmin-gone" \in world' => "identities" \in world'
    <3>1. CASE "akadmin-gone" \in e.add
      <4>1. s = "bootstrap-authority-retirement" /\ "identities" \in world
        BY <1>1, <1>3, <3>1 DEF Disciplined, e
      <4> QED
        BY <1>4, <1>9, <4>1 DEF InIdentity
    <3>2. CASE "akadmin-gone" \notin e.add
      <4>1. "identities" \in e.clear => "akadmin-gone" \in e.clear
        BY <1>3 DEF Disciplined, e
      <4> QED
        BY <1>4, <3>2, <4>1 DEF IInv, NeverLockedOut
    <3> QED
      BY <3>1, <3>2
  <2> QED
    BY <1>4, <2>1, <2>2, <2>3 DEF NeverLockedOut
<1>13. Published'
  <2> SUFFICES ASSUME "state" \in world' PROVE Published'
    BY DEF Published
  <2>1. CASE "state" \in world
    BY <1>1, <1>5, <2>1 DEF IInv, Published
  <2>2. CASE "state" \in e.add
    <3>1. s = "final-state" /\ at = 21
      <4>1. s = "final-state"
        BY <1>3, <2>2 DEF Disciplined, e
      <4>2. Order[at] = Order[21]
        BY <1>2, <4>1, Places
      <4> QED
        BY <1>2, <4>1, <4>2, Places
    <3>2. \A t \in Stages \ {"final-state"} : Recorded(t)
      <4>1. \A i \in 1..20 : Order[i] \in Stages => Recorded(Order[i])
        <5>1. \A i \in 1..(at - 1) : Order[i] \in Stages => Recorded(Order[i])
          BY <1>1 DEF IInv, Working
        <5> QED
          BY <3>1, <5>1
      <4> QED
        BY <4>1, StageNames, Places
    <3> QED
      BY <1>1, <1>5, <3>1, <3>2, Places DEF Published
  <2> QED
    BY <1>4, <2>1, <2>2
<1>14. Halfway'
  <2>1. ASSUME s = "storage"
        PROVE  (done + 1 >= 1 => "pool" \in world') /\ (done + 1 >= 2 => "dataset" \in world')
    <3>1. "pool" \notin e.clear /\ "dataset" \notin e.clear
      BY <1>9 DEF InDatabase, InIdentity
    <3>2. done + 1 = 1 => "pool" \in e.add
      BY <1>3, <2>1, StorageCommands DEF IInv, TypeOK, e
    <3>3. done + 1 = 2 => "dataset" \in e.add
      BY <1>3, <2>1, StorageCommands DEF IInv, TypeOK, e
    <3>4. (done >= 1 => "pool" \in world) /\ (done >= 2 => "dataset" \in world)
      BY <1>1, <2>1 DEF IInv, Halfway, s
    <3> QED
      BY <1>2, <1>4, <3>1, <3>2, <3>3, <3>4
  <2>2. ASSUME s = "bootstrap-authority-retirement"
        PROVE  /\ done + 1 >= 1 => "akadmin-gone" \in world' /\ "akadmin-token" \notin world'
               /\ done + 1 >= 2 => "kp-boot" \notin world'
               /\ done + 1 >= 3 => "bootcreds" \notin world'
    <3>1. "akadmin-gone" \notin e.clear
      BY <1>9, <2>2 DEF InIdentity
    <3>2. "kp-boot" \notin e.add /\ "bootcreds" \notin e.add /\ "akadmin-token" \notin e.add
      BY <1>3, <2>2, AuthorityRetirement DEF e
    <3>3. /\ done + 1 = 1 => "akadmin-gone" \in e.add /\ "akadmin-token" \in e.clear
          /\ done + 1 = 2 => "kp-boot" \in e.clear
          /\ done + 1 = 3 => "bootcreds" \in e.clear
      BY <2>2, AuthorityRetirement DEF e
    <3>4. /\ done >= 1 => "akadmin-gone" \in world /\ "akadmin-token" \notin world
          /\ done >= 2 => "kp-boot" \notin world
          /\ done >= 3 => "bootcreds" \notin world
      BY <1>1, <2>2 DEF IInv, Halfway, s
    <3> QED
      BY <1>2, <1>4, <3>1, <3>2, <3>3, <3>4
  <2>3. ASSUME s = "bootstrap-linux-retirement"
        PROVE  /\ {"account", "adminfile"} \subseteq world'
               /\ done + 1 = 2 => "bootuser-gone" \in world'
    <3>1. {"account", "adminfile"} \cap e.clear = {}
      BY <1>9 DEF InDatabase, InIdentity
    <3>2. done + 1 = 1 => "account" \in world /\ "adminfile" \in e.add
      BY <1>1, <2>3, LinuxRetirement DEF e
    <3>3. done >= 1 => {"account", "adminfile"} \subseteq world
      BY <1>1, <2>3 DEF IInv, Halfway, s
    <3>4. done + 1 = 2 => "bootuser-gone" \in e.add
      BY <2>3, LinuxRetirement DEF e
    <3> QED
      BY <1>2, <1>4, <3>1, <3>2, <3>3, <3>4
  <2>4. done + 1 = Count(s) => Lasting(s) \subseteq world'
    <3> SUFFICES ASSUME done + 1 = Count(s) PROVE Lasting(s) \subseteq world'
      OBVIOUS
    <3>1. CASE s = "storage"
      BY <3>1, <2>1, StorageCommands DEF Lasting, IInv, TypeOK
    <3>2. CASE s = "bootstrap-authority-retirement"
      BY <3>2, <2>2, <1>3 DEF Lasting
    <3>3. CASE s = "bootstrap-linux-retirement"
      BY <3>3, <2>3 DEF Lasting, Count
    <3>4. CASE s \notin {"storage", "bootstrap-authority-retirement", "bootstrap-linux-retirement"}
      <4>1. Lasting(s) \subseteq e.add
        BY <1>2, <1>3, <3>4 DEF Disciplined, Lengths, e
      <4>2. "boot-token" \notin Lasting(s)
        BY <1>2, LastingFacts
      <4> QED
        BY <1>4, <4>1, <4>2
    <3> QED
      BY <3>1, <3>2, <3>3, <3>4
  <2>5. done' = done + 1 /\ Stage' = s /\ Count(Stage)' = Count(s) /\ Lasting(Stage)' = Lasting(s)
    BY <1>1, <1>5 DEF s
  <2> QED
    BY <1>3, <2>1, <2>2, <2>3, <2>4, <2>5 DEF Halfway
<1> QED
  BY <1>7, <1>8, <1>10, <1>11, <1>12, <1>13, <1>14 DEF IInv

-----------------------------------------------------------------------------
(* A method of the journal that marks step s changes nothing else.         *)
LEMMA StepMarked ==
    ASSUME journal \in Journals(Fingerprints), journal' \in Journals(Fingerprints),
           NEW s \in Stages, NEW m, journal'.steps = [journal.steps EXCEPT ![s] = m]
    PROVE  /\ Recorded(s)' <=> m = "complete"
           /\ Started(s)' <=> m # "none"
           /\ \A t \in Stages \ {s} : (Recorded(t)' <=> Recorded(t)) /\ (Started(t)' <=> Started(t))
BY JournalTyped DEF Recorded, Started, StepComplete

LEMMA StepsKept ==
    ASSUME journal \in Journals(Fingerprints), journal' \in Journals(Fingerprints),
           journal'.steps = journal.steps
    PROVE  \A t : (Recorded(t)' <=> Recorded(t)) /\ (Started(t)' <=> Started(t))
BY JournalTyped DEF Recorded, Started, StepComplete

LEMMA StartStageInv == IInv /\ StartStage => IInv'
<1> SUFFICES ASSUME IInv, StartStage PROVE IInv'
  OBVIOUS
<1>0. PICK s \in Stages : s = Stage /\ s = Order[at]
  BY DEF StartStage, AtStage, IInv, Working, Stage
<1>1. /\ pc = "stage" /\ at \in 1..21 /\ s = Order[at] /\ ~Recorded(s)
      /\ journal' = StartStep(journal, s) /\ pc' = "act" /\ done' = 0
      /\ UNCHANGED <<encrypted, createPool, world, args, at, createdPool, faults>>
  BY <1>0, Places DEF StartStage, AtStage, IInv, TypeOK, Recorded, plan
<1>2. journal \in Journals(Fingerprints) /\ journal' \in Journals(Fingerprints)
      /\ journal'.status = "running" /\ journal'.steps = [journal.steps EXCEPT ![s] = "running"]
  <2>1. journal \in Journals(Fingerprints)
    BY <1>1 DEF IInv, TypeOK, Working, NoJournal
  <2> QED
    BY <1>1, <2>1, StartMethod
<1>3. /\ ~Recorded(s)' /\ Started(s)'
      /\ \A t \in Stages \ {s} : (Recorded(t)' <=> Recorded(t)) /\ (Started(t)' <=> Started(t))
  BY <1>1, <1>2, StepMarked
<1>4. manual' \in BOOLEAN
  BY DEF StartStage, ManualOnFailure
<1>5. TypeOK'
  BY <1>1, <1>2, <1>4 DEF IInv, TypeOK
<1>6. \A i \in 1..(at - 1) : Order[i] \in Stages => Recorded(Order[i])' /\ Order[i] # s
  BY <1>1, <1>3, Places DEF IInv, Working
<1>7. Working'
  <2>1. journal'.steps[s] = "running"
    BY <1>2, JournalTyped
  <2> QED
    BY <1>1, <1>2, <1>6, <2>1, Places DEF IInv, Working, Stage
<1>8. Settled'
  <2> SUFFICES ASSUME NEW i \in 1..21, NEW j \in 1..21, i < j, Order[i] \in Once, Order[j] \in Stages,
                      Started(Order[j])'
               PROVE  Recorded(Order[i])'
    BY Places DEF Settled
  <2>1. CASE j = at
    BY <1>6, <2>1, LastingFacts
  <2>2. CASE j # at
    <3>1. Recorded(Order[i])
      BY <1>1, <1>3, <2>2, Places DEF IInv, Settled
    <3> QED
      BY <1>1, <1>3, <3>1, LastingFacts
  <2> QED
    BY <2>1, <2>2
<1>9. Left'
  <2>1. \A t \in Stages : Recorded(t)' => Recorded(t)
    BY <1>3
  <2>2. "bootstrap-authority-retirement" \in Stages
    BY LastingFacts DEF Once
  <2> QED
    BY <1>1, <2>1, <2>2 DEF IInv, Left
<1>10. Halfway'
  <2>1. Lengths(s)
    BY <1>1, AllCommands DEF IInv, TypeOK
  <2>2. Stage' = s /\ Count(Stage)' = Count(s)
    BY <1>1 DEF Stage, Count
  <2> QED
    BY <1>1, <2>1, <2>2 DEF Halfway, Lengths
<1>11. Keyed' /\ NeverLockedOut'
  <2>1. "storage" \in Stages
    BY StageNames DEF Named
  <2> QED
    BY <1>1, <1>3, <2>1 DEF IInv, Keyed, KeyKept, NeverLockedOut
<1>12. Published' /\ Completed'
  BY <1>1, <1>2, Places DEF IInv, Published, Completed
<1> QED
  BY <1>5, <1>7, <1>8, <1>9, <1>10, <1>11, <1>12 DEF IInv

LEMMA ReuseStageInv == IInv /\ ReuseStage => IInv'
<1> SUFFICES ASSUME IInv, ReuseStage PROVE IInv'
  OBVIOUS
<1>1. /\ pc = "stage" /\ at \in 1..21 /\ Recorded(Order[at]) /\ at' = After(at) /\ done' = done
      /\ UNCHANGED <<encrypted, createPool, world, journal, args, pc, manual, createdPool, faults>>
  BY Places DEF ReuseStage, AtStage, IInv, TypeOK, Stage, Recorded, plan
<1>2. \A t : (Recorded(t)' <=> Recorded(t)) /\ (Started(t)' <=> Started(t))
  BY <1>1 DEF Recorded, Started, StepComplete
<1>3. at' \in (at + 1)..22
  BY <1>1, AfterStage
<1>4. TypeOK'
  BY <1>1, <1>3, Places DEF IInv, TypeOK
<1>5. Working'
  <2>1. \A i \in 1..(at' - 1) : Order[i] \in Stages => Recorded(Order[i])
    <3>1. \A i \in 1..(at - 1) : Order[i] \in Stages => Recorded(Order[i])
      BY <1>1 DEF IInv, Working
    <3>2. \A i \in (at + 1)..(at' - 1) : Order[i] \notin Stages
      BY <1>1, AfterStage
    <3> QED
      BY <1>1, <1>3, <3>1, <3>2
  <2>2. at' <= 21 => Stage' \in Stages
    BY <1>1, AfterStage DEF Stage
  <2> QED
    BY <1>1, <1>2, <2>1, <2>2, Places DEF IInv, Working
<1>6. Settled' /\ Left' /\ Halfway' /\ Keyed' /\ NeverLockedOut' /\ Completed'
  BY <1>1, <1>2 DEF IInv, Settled, Left, Halfway, Keyed, KeyKept, NeverLockedOut, Completed
<1>7. Published'
  BY <1>1, Places DEF IInv, Published
<1> QED
  BY <1>4, <1>5, <1>6, <1>7 DEF IInv

LEMMA CompleteStageInv == IInv /\ CompleteStage => IInv'
<1> SUFFICES ASSUME IInv, CompleteStage PROVE IInv'
  OBVIOUS
<1>0. PICK s \in Stages : s = Stage /\ s = Order[at]
  BY RunningStage DEF CompleteStage
<1>1. /\ pc = "act" /\ at \in 1..21 /\ s = Order[at] /\ Started(s) /\ ~Recorded(s)
      /\ done = Count(s) /\ journal' = CompleteStep(journal, s) /\ pc' = "stage" /\ at' = After(at)
      /\ done' = 0 /\ manual' = FALSE /\ createdPool' \in BOOLEAN
      /\ UNCHANGED <<encrypted, createPool, world, args, faults>>
  <2>1. pc = "act" /\ done = Len(ActionOf(s)) /\ journal' = CompleteStep(journal, s)
        /\ pc' = "stage" /\ at' = After(at) /\ done' = 0 /\ manual' = FALSE
        /\ UNCHANGED <<encrypted, createPool, world, args, faults>>
    BY <1>0 DEF CompleteStage, plan
  <2>2. createdPool' \in BOOLEAN
    BY DEF CompleteStage, IInv, TypeOK
  <2>3. Lengths(s) /\ Started(s) /\ ~Recorded(s) /\ at \in 1..21
    BY <1>0, <2>1, RunningStage
  <2> QED
    BY <1>0, <2>1, <2>2, <2>3 DEF Lengths
<1>2. /\ journal \in Journals(Fingerprints) /\ journal' \in Journals(Fingerprints)
      /\ journal'.status = journal.status /\ journal'.steps = [journal.steps EXCEPT ![s] = "complete"]
  BY <1>1, RunningStage, CompleteMethod
<1>3. /\ Recorded(s)' /\ Started(s)'
      /\ \A t \in Stages \ {s} : (Recorded(t)' <=> Recorded(t)) /\ (Started(t)' <=> Started(t))
  BY <1>2, StepMarked
<1>4. at' \in (at + 1)..22
  BY <1>1, AfterStage
<1>5. TypeOK'
  <2>1. at' \in 1..(Len(Order) + 1) /\ done' \in 0..4
    BY <1>1, <1>4, Places
  <2>2. journal' \in {NoJournal} \cup Journals(Fingerprints) /\ manual' \in BOOLEAN
    BY <1>1, <1>2
  <2> QED
    BY <1>1, <2>1, <2>2 DEF IInv, TypeOK
<1>6. Working'
  <2>1. \A i \in 1..(at' - 1) : Order[i] \in Stages => Recorded(Order[i])'
    <3>1. \A i \in 1..(at - 1) : Order[i] \in Stages => Recorded(Order[i])
      BY <1>1 DEF IInv, Working
    <3>2. \A i \in (at + 1)..(at' - 1) : Order[i] \notin Stages
      BY <1>1, AfterStage
    <3> QED
      BY <1>1, <1>3, <1>4, <3>1, <3>2
  <2>2. at' <= 21 => Stage' \in Stages
    BY <1>1, AfterStage DEF Stage
  <2>3. journal'.status # "absent" /\ journal'.status \notin {"cancelled", "complete"}
    BY <1>1, <1>2, JournalTyped DEF IInv, Working
  <2> QED
    BY <1>1, <2>1, <2>2, <2>3, Places DEF IInv, Working
<1>7. Settled'
  <2> SUFFICES ASSUME NEW i \in 1..21, NEW j \in 1..21, i < j, Order[i] \in Once, Order[j] \in Stages,
                      Started(Order[j])'
               PROVE  Recorded(Order[i])'
    BY Places DEF Settled
  <2>1. Started(Order[j])
    BY <1>1, <1>3
  <2>2. Recorded(Order[i])
    BY <2>1, Places DEF IInv, Settled
  <2> QED
    BY <1>3, <2>2, LastingFacts
<1>8. Left'
  <2>1. Lasting(s) \subseteq world
    BY <1>0, <1>1 DEF IInv, Halfway
  <2>2. s = "bootstrap-authority-retirement" => {"kp-boot", "bootcreds", "akadmin-token"} \cap world = {}
    BY <1>0, <1>1 DEF IInv, Halfway, Count
  <2>3. "bootstrap-authority-retirement" \in Stages
    BY LastingFacts DEF Once
  <2> QED
    BY <1>1, <1>3, <2>1, <2>2, <2>3 DEF IInv, Left
<1>9. Halfway'
  BY <1>1 DEF Halfway
<1>10. Keyed' /\ NeverLockedOut'
  <2>1. "storage" \in Stages
    BY StageNames DEF Named
  <2> QED
    BY <1>1, <1>3, <2>1 DEF IInv, Keyed, KeyKept, NeverLockedOut
<1>11. Published'
  <2> SUFFICES ASSUME "state" \in world PROVE Published'
    BY <1>1 DEF Published
  <2>1. at = 21 /\ \A t \in Stages \ {"final-state"} : Recorded(t)
    BY <1>1, Places DEF IInv, Published
  <2> QED
    BY <1>1, <1>3, <1>4, <2>1, Places DEF Published
<1>12. Completed'
  BY <1>1, <1>2 DEF IInv, Working, Completed
<1> QED
  BY <1>5, <1>6, <1>7, <1>8, <1>9, <1>10, <1>11, <1>12 DEF IInv

(* A step that fails, or whose probe fails, is not one of Once, or was not *)
(* recorded anyway.                                                        *)
LEMMA FailedStepInv ==
    ASSUME IInv, NEW s \in Stages, Started(s), s \in Once => ~Recorded(s),
           "state" \in world => s = "final-state",
           journal \in Journals(Fingerprints), journal' \in Journals(Fingerprints),
           journal'.steps = [journal.steps EXCEPT ![s] = "failed"],
           journal'.status \in {"failed", "manual-recovery-required"},
           Idle, UNCHANGED <<encrypted, createPool, world, createdPool>>, faults' \in 0..MaxFaults
    PROVE  IInv'
<1>1. /\ ~Recorded(s)' /\ Started(s)'
      /\ \A t \in Stages \ {s} : (Recorded(t)' <=> Recorded(t)) /\ (Started(t)' <=> Started(t))
  BY StepMarked
<1>2. pc' = "idle" /\ args' = NoArgs /\ at' = 1 /\ done' = 0 /\ manual' = FALSE
  BY DEF Idle
<1>3. TypeOK'
  <2>1. at' \in 1..(Len(Order) + 1) /\ done' \in 0..4
    BY <1>2, Places
  <2>2. journal' \in {NoJournal} \cup Journals(Fingerprints) /\ manual' \in BOOLEAN
        /\ args' \in {NoArgs} \cup [plan : Plans, destructive : BOOLEAN]
    BY <1>2
  <2> QED
    BY <1>2, <2>1, <2>2 DEF IInv, TypeOK
<1>4. Working' /\ Halfway' /\ Completed'
  BY <1>2 DEF Working, Halfway, Completed
<1>5. Settled'
  <2> SUFFICES ASSUME NEW i \in 1..21, NEW j \in 1..21, i < j, Order[i] \in Once, Order[j] \in Stages,
                      Started(Order[j])'
               PROVE  Recorded(Order[i])'
    BY Places DEF Settled
  <2>1. Recorded(Order[i])
    BY <1>1, Places DEF IInv, Settled
  <2> QED
    BY <1>1, <2>1, LastingFacts
<1>6. Left'
  <2>1. "bootstrap-authority-retirement" \in Stages
    BY LastingFacts DEF Once
  <2> QED
    BY <1>1, <2>1 DEF IInv, Left
<1>7. Keyed' /\ NeverLockedOut'
  <2>1. "storage" \in Stages
    BY StageNames DEF Named
  <2> QED
    BY <1>1, <2>1 DEF IInv, Keyed, KeyKept, NeverLockedOut
<1>8. Published'
  BY <1>1, <1>2 DEF IInv, Published
<1> QED
  BY <1>3, <1>4, <1>5, <1>6, <1>7, <1>8 DEF IInv

LEMMA StageFailsInv == IInv /\ StageFails => IInv'
<1> SUFFICES ASSUME IInv, StageFails PROVE IInv'
  OBVIOUS
<1>0. PICK s \in Stages : s = Stage /\ s = Order[at]
  BY RunningStage DEF StageFails
<1>1. pc = "act" /\ journal' = FailStep(journal, s, manual) /\ Idle
      /\ UNCHANGED <<encrypted, createPool, world, createdPool>>
  BY <1>0 DEF StageFails, plan
<1>2. faults' \in 0..MaxFaults
  BY FirstRunAssumption DEF StageFails, IInv, TypeOK
<1>3. Started(s) /\ ~Recorded(s) /\ at \in 1..21 /\ journal \in Journals(Fingerprints)
  BY <1>0, <1>1, RunningStage
<1>4. "state" \in world => s = "final-state"
  BY <1>0, <1>1, Places DEF IInv, Published
<1>5. manual \in BOOLEAN
  BY DEF IInv, TypeOK
<1>6. /\ journal' \in Journals(Fingerprints)
      /\ journal'.steps = [journal.steps EXCEPT ![s] = "failed"]
      /\ journal'.status \in {"failed", "manual-recovery-required"}
  BY <1>1, <1>3, <1>5, FailMethod
<1> QED
  BY <1>1, <1>2, <1>3, <1>4, <1>6, FailedStepInv

LEMMA ProbeFailsInv == IInv /\ ProbeFails => IInv'
<1> SUFFICES ASSUME IInv, ProbeFails PROVE IInv'
  OBVIOUS
<1>0. PICK s \in Stages : s = Stage /\ s = Order[at]
  BY DEF ProbeFails, AtStage, IInv, Working, Stage
<1>1. pc = "stage" /\ at <= 21 /\ Recorded(s) /\ ~(Probe(s) \subseteq world)
      /\ journal' = FailStep(journal, s, TRUE) /\ Idle
      /\ UNCHANGED <<encrypted, createPool, world, createdPool, faults>>
  BY <1>0, Places DEF ProbeFails, AtStage, Recorded, plan
<1>2. s \notin Once
  BY <1>1, LastingFacts DEF IInv, Left
<1>3. journal \in Journals(Fingerprints) /\ faults' \in 0..MaxFaults /\ Started(s)
  <2>1. journal \in Journals(Fingerprints)
    BY <1>1 DEF IInv, TypeOK, Working, NoJournal
  <2> QED
    BY <1>1, <2>1 DEF IInv, TypeOK, Started, Recorded, StepComplete
<1>4. "state" \notin world
  BY <1>1, Places DEF IInv, TypeOK, Published
<1>5. /\ journal' \in Journals(Fingerprints)
      /\ journal'.steps = [journal.steps EXCEPT ![s] = "failed"]
      /\ journal'.status \in {"failed", "manual-recovery-required"}
  BY <1>1, <1>3, FailMethod
<1> QED
  BY <1>1, <1>2, <1>3, <1>4, <1>5, FailedStepInv

-----------------------------------------------------------------------------
(* Steps that leave the machine and the marks of the journal alone.        *)
LEMMA CarriedOver ==
    ASSUME IInv, UNCHANGED <<encrypted, world>>,
           \A t \in Stages : (Recorded(t)' <=> Recorded(t)) /\ (Started(t)' <=> Started(t))
    PROVE  Settled' /\ Left' /\ Keyed' /\ NeverLockedOut'
<1>1. "storage" \in Stages /\ "bootstrap-authority-retirement" \in Stages
  BY StageNames DEF Named
<1>2. Settled'
  <2> SUFFICES ASSUME NEW i \in 1..21, NEW j \in 1..21, i < j, Order[i] \in Once, Order[j] \in Stages,
                      Started(Order[j])'
               PROVE  Recorded(Order[i])'
    BY Places DEF Settled
  <2>1. Recorded(Order[i])
    BY Places DEF IInv, Settled
  <2> QED
    BY <2>1, LastingFacts
<1>3. Left' /\ Keyed' /\ NeverLockedOut'
  BY <1>1 DEF IInv, Left, Keyed, KeyKept, NeverLockedOut
<1> QED
  BY <1>2, <1>3

LEMMA OpenJournalInv == IInv /\ OpenJournal => IInv'
<1> SUFFICES ASSUME IInv, OpenJournal PROVE IInv'
  OBVIOUS
<1> DEFINE fp == <<args.plan, args.destructive>>
<1>1. /\ pc = "open" /\ journal' = Open(journal, fp) /\ pc' = "stage" /\ at' = 1
      /\ UNCHANGED <<encrypted, createPool, world, args, done, manual, createdPool, faults>>
  BY DEF OpenJournal, plan
<1>2. fp \in Fingerprints /\ args \in [plan : Plans, destructive : BOOLEAN]
  BY <1>1 DEF IInv, Working, Fingerprints
<1>3. journal.status \notin {"complete", "cancelled"} /\ "state" \notin world
  BY <1>1 DEF IInv, Working, Published
<1> HIDE DEF fp
<1>4. /\ journal' \in Journals(Fingerprints) /\ journal'.status \in {"pending", "resuming"}
      /\ \A t \in Stages : (Recorded(t)' <=> Recorded(t)) /\ (Started(t)' <=> Started(t))
  <2>1. CASE journal.status = "absent"
    <3>1. journal' = [status |-> "pending", fingerprint |-> fp,
                      steps |-> [t \in Stages |-> "none"], current |-> "none"]
      BY <1>1, <2>1 DEF Open, Finished
    <3>2. journal' \in Journals(Fingerprints)
      BY <1>2, <3>1 DEF Journals, Statuses, StepStatuses
    <3> QED
      BY <2>1, <3>1, <3>2 DEF Recorded, Started, StepComplete
  <2>2. CASE journal.status # "absent"
    <3>1. journal \in Journals(Fingerprints)
      BY <2>2 DEF IInv, TypeOK, NoJournal
    <3>2. journal' = [journal EXCEPT !.status = "resuming"]
      BY <1>1, <1>3, <2>2 DEF Open, Finished
    <3>3. /\ journal' \in Journals(Fingerprints) /\ journal'.status = "resuming"
          /\ journal'.steps = journal.steps
      BY <1>2, <3>1, <3>2, OpenMethods
    <3> QED
      BY <3>1, <3>3, StepsKept
  <2> QED
    BY <2>1, <2>2
<1>5. TypeOK'
  <2>1. at' \in 1..(Len(Order) + 1)
    BY <1>1, Places
  <2> QED
    BY <1>1, <1>4, <2>1 DEF IInv, TypeOK
<1>6. Working'
  <2>1. Stage' \in Stages
    BY <1>1, Places, LastingFacts DEF Stage, Once
  <2>2. journal'.status \notin {"absent", "cancelled", "complete"}
    BY <1>4
  <2> QED
    BY <1>1, <1>2, <2>1, <2>2 DEF Working
<1>7. Settled' /\ Left' /\ Keyed' /\ NeverLockedOut'
  BY <1>1, <1>4, CarriedOver
<1>8. Halfway' /\ Published' /\ Completed'
  BY <1>1, <1>3, <1>4 DEF Halfway, Published, Completed
<1> QED
  BY <1>5, <1>6, <1>7, <1>8 DEF IInv

(* The verified retry records the storage step, of which the machine shows *)
(* the effects, or adopts the journal with another permission.             *)
LEMMA BeginInv ==
    ASSUME IInv, NEW p \in Plans, NEW d \in BOOLEAN, Begin(p, d)
    PROVE  IInv'
<1> DEFINE fp == <<p, d>>
<1>1. /\ pc = "idle" /\ "state" \notin world /\ journal.status # "complete"
      /\ journal' = VerifiedRetry(fp)
      /\ \/ args' = [plan |-> p, destructive |-> d] /\ pc' = "open" /\ UNCHANGED <<at, done, manual>>
         \/ UNCHANGED <<args, pc, at, done, manual>>
      /\ UNCHANGED <<encrypted, createPool, world, faults>>
  BY DEF Begin, reject_completed_first_run, completed_setup_report_absent, plan, worker
<1>2. createdPool' \in BOOLEAN
  BY DEF Begin, IInv, TypeOK
<1>3. fp \in Fingerprints
  BY DEF Fingerprints
<1> HIDE DEF fp
<1>4. \/ journal' = journal
      \/ /\ journal' = RecoveredStep(journal, "storage", fp)
         /\ journal.status = "manual-recovery-required" /\ storage_ready \subseteq world
      \/ journal' = [journal EXCEPT !.fingerprint = fp] /\ journal.status # "absent"
  BY <1>1 DEF VerifiedRetry
<1>5. TypeOK' /\ journal'.status \notin {"cancelled", "complete"}
      /\ Settled' /\ Left' /\ Keyed' /\ NeverLockedOut'
  <2>1. args' \in {NoArgs} \cup [plan : Plans, destructive : BOOLEAN]
        /\ pc' \in {"idle", "open", "stage", "act"} /\ UNCHANGED <<at, done, manual>>
    BY <1>1 DEF IInv, TypeOK
  <2>2. ASSUME journal' \in {NoJournal} \cup Journals(Fingerprints) PROVE TypeOK'
    BY <1>1, <1>2, <2>1, <2>2 DEF IInv, TypeOK
  <2>3. CASE journal' = journal
    <3>1. TypeOK' /\ journal'.status \notin {"cancelled", "complete"}
      BY <1>1, <2>2, <2>3 DEF IInv, TypeOK, Working
    <3>2. \A t : (Recorded(t)' <=> Recorded(t)) /\ (Started(t)' <=> Started(t))
      BY <2>3 DEF Recorded, Started, StepComplete
    <3> QED
      BY <1>1, <3>1, <3>2, CarriedOver
  <2>4. CASE journal' = [journal EXCEPT !.fingerprint = fp] /\ journal.status # "absent"
    <3>1. journal \in Journals(Fingerprints)
      BY <2>4 DEF IInv, TypeOK, NoJournal
    <3>2. journal' \in Journals(Fingerprints) /\ journal'.steps = journal.steps
          /\ journal'.status = journal.status
      BY <1>3, <2>4, <3>1, OpenMethods
    <3>3. journal'.status \notin {"cancelled", "complete"}
      BY <1>1, <3>2 DEF IInv, Working
    <3>4. \A t : (Recorded(t)' <=> Recorded(t)) /\ (Started(t)' <=> Started(t))
      BY <3>1, <3>2, StepsKept
    <3> QED
      BY <1>1, <2>2, <3>2, <3>3, <3>4, CarriedOver
  <2>5. CASE /\ journal' = RecoveredStep(journal, "storage", fp)
             /\ journal.status = "manual-recovery-required" /\ storage_ready \subseteq world
    <3>1. journal \in Journals(Fingerprints) /\ "storage" \in Stages
          /\ "bootstrap-authority-retirement" \in Stages
      <4>1. journal \in Journals(Fingerprints)
        BY <2>5 DEF IInv, TypeOK, NoJournal
      <4>2. "storage" \in Stages /\ "bootstrap-authority-retirement" \in Stages
        BY StageNames DEF Named
      <4> QED
        BY <4>1, <4>2
    <3>2. journal' \in Journals(Fingerprints) /\ journal'.status = "reconciled"
          /\ journal'.steps = [journal.steps EXCEPT !["storage"] = "complete"]
      BY <1>3, <2>5, <3>1, RecoverMethod
    <3>3. /\ Recorded("storage")' /\ Started("storage")'
          /\ \A t \in Stages \ {"storage"} :
                 (Recorded(t)' <=> Recorded(t)) /\ (Started(t)' <=> Started(t))
      BY <3>1, <3>2, StepMarked
    <3>4. {"pool", "dataset"} \subseteq world /\ Started("storage")
      BY <2>5 DEF storage_ready, IInv, Keyed
    <3>5. Lasting("storage") \subseteq world
      BY <3>4 DEF Lasting
    <3>6. Settled'
      <4> SUFFICES ASSUME NEW i \in 1..21, NEW j \in 1..21, i < j, Order[i] \in Once,
                          Order[j] \in Stages, Started(Order[j])'
                   PROVE  Recorded(Order[i])'
        BY Places DEF Settled
      <4>1. Started(Order[j])
        BY <3>3, <3>4
      <4>2. Recorded(Order[i])
        BY <4>1, Places DEF IInv, Settled
      <4> QED
        BY <3>3, <4>2, LastingFacts
    <3>7. Left'
      BY <1>1, <3>1, <3>3, <3>5 DEF IInv, Left
    <3>8. Keyed' /\ NeverLockedOut'
      BY <1>1, <3>3 DEF IInv, Keyed, KeyKept, NeverLockedOut
    <3> QED
      BY <2>2, <3>2, <3>6, <3>7, <3>8
  <2> QED
    BY <1>4, <2>3, <2>4, <2>5
<1>6. Working'
  BY <1>1, <1>5 DEF Working
<1>7. Halfway' /\ Published' /\ Completed'
  BY <1>1, <1>5 DEF Halfway, Published, Completed
<1> QED
  BY <1>5, <1>6, <1>7 DEF IInv

-----------------------------------------------------------------------------
LEMMA FinishInv == IInv /\ Finish => IInv'
<1> SUFFICES ASSUME IInv, Finish PROVE IInv'
  OBVIOUS
<1>1. /\ pc = "stage" /\ at > 21 /\ journal' = Complete(journal) /\ Idle
      /\ UNCHANGED <<encrypted, createPool, world, createdPool, faults>>
  BY Places DEF Finish, plan
<1>2. pc' = "idle" /\ args' = NoArgs /\ at' = 1 /\ done' = 0 /\ manual' = FALSE
  BY <1>1 DEF Idle
<1>3. \A t \in Stages : Recorded(t)
  <2>1. at = 22
    BY <1>1, Places DEF IInv, TypeOK
  <2>2. \A i \in 1..21 : Order[i] \in Stages => Recorded(Order[i])
    <3>1. \A i \in 1..(at - 1) : Order[i] \in Stages => Recorded(Order[i])
      BY <1>1 DEF IInv, Working
    <3> QED
      BY <2>1, <3>1
  <2> QED
    BY <2>2, StageNames
<1>4. /\ journal \in Journals(Fingerprints) /\ journal' \in Journals(Fingerprints)
      /\ journal'.steps = journal.steps /\ journal'.status = "complete"
  <2>1. journal \in Journals(Fingerprints)
    BY <1>1 DEF IInv, TypeOK, Working, NoJournal
  <2> QED
    BY <1>1, <2>1, FinishMethods
<1>5. \A t : (Recorded(t)' <=> Recorded(t)) /\ (Started(t)' <=> Started(t))
  BY <1>4, StepsKept
<1>6. TypeOK'
  <2>1. at' \in 1..(Len(Order) + 1) /\ done' \in 0..4
    BY <1>2, Places
  <2> QED
    BY <1>1, <1>2, <1>4, <2>1 DEF IInv, TypeOK
<1>7. Settled' /\ Left' /\ Keyed' /\ NeverLockedOut'
  BY <1>1, <1>5, CarriedOver
<1>8. Working' /\ Halfway' /\ Completed' /\ Published'
  BY <1>2, <1>3, <1>4, <1>5 DEF Working, Halfway, Completed, Published
<1> QED
  BY <1>6, <1>7, <1>8 DEF IInv

LEMMA FinishInterruptedInv == IInv /\ FinishInterrupted => IInv'
<1> SUFFICES ASSUME IInv, FinishInterrupted PROVE IInv'
  OBVIOUS
<1> DEFINE j == CompleteStep(journal, "final-state")
<1>1. /\ pc = "idle" /\ "state" \in world /\ journal.status \in {"pending", "running", "resuming"}
      /\ journal' = Complete(j)
      /\ UNCHANGED <<encrypted, createPool, world, args, pc, at, done, manual, createdPool, faults>>
  BY DEF FinishInterrupted, plan, worker
<1>2. journal \in Journals(Fingerprints) /\ "final-state" \in Stages
      /\ "bootstrap-authority-retirement" \in Stages /\ "storage" \in Stages
  <2>1. journal \in Journals(Fingerprints)
    BY <1>1 DEF IInv, TypeOK, NoJournal
  <2>2. {"final-state", "bootstrap-authority-retirement", "storage"} \subseteq Stages
    BY StageNames DEF Named
  <2> QED
    BY <2>1, <2>2
<1>3. j \in Journals(Fingerprints) /\ j.steps = [journal.steps EXCEPT !["final-state"] = "complete"]
  BY <1>2, CompleteMethod
<1> HIDE DEF j
<1>4. /\ journal' \in Journals(Fingerprints) /\ journal'.status = "complete"
      /\ journal'.steps = [journal.steps EXCEPT !["final-state"] = "complete"]
  BY <1>1, <1>3, FinishMethods
<1>5. /\ Recorded("final-state")'
      /\ \A t \in Stages \ {"final-state"} :
             (Recorded(t)' <=> Recorded(t)) /\ (Started(t)' <=> Started(t))
  BY <1>2, <1>4, StepMarked
<1>6. \A t \in Stages \ {"final-state"} : Recorded(t)
  BY <1>1 DEF IInv, Published
<1>7. TypeOK'
  BY <1>1, <1>4 DEF IInv, TypeOK
<1>8. Settled'
  <2>1. \A t \in Stages : Recorded(t)'
    BY <1>5, <1>6
  <2> QED
    BY <2>1, LastingFacts DEF Settled
<1>9. Left'
  <2>1. Lasting("final-state") \subseteq world
    BY LastingFacts
  <2> QED
    BY <1>1, <1>2, <1>5, <1>6, <2>1 DEF IInv, Left
<1>10. Keyed' /\ NeverLockedOut'
  BY <1>1, <1>2, <1>5 DEF IInv, Keyed, KeyKept, NeverLockedOut
<1>11. Working' /\ Halfway' /\ Completed' /\ Published'
  BY <1>1, <1>4, <1>5, <1>6 DEF Working, Halfway, Completed, Published
<1> QED
  BY <1>7, <1>8, <1>9, <1>10, <1>11 DEF IInv

LEMMA AcknowledgeInv == IInv /\ Acknowledge => IInv'
<1> SUFFICES ASSUME IInv, Acknowledge PROVE IInv'
  OBVIOUS
<1>1. /\ pc = "idle" /\ journal.status = "manual-recovery-required"
      /\ journal' = Acknowledged(journal)
      /\ UNCHANGED <<encrypted, createPool, world, args, pc, at, done, manual, createdPool, faults>>
  BY DEF Acknowledge, CanAcknowledge, plan, worker
<1>2. /\ journal \in Journals(Fingerprints) /\ journal' \in Journals(Fingerprints)
      /\ journal'.steps = journal.steps /\ journal'.status = "reconciled"
  <2>1. journal \in Journals(Fingerprints)
    BY <1>1 DEF IInv, TypeOK, NoJournal
  <2> QED
    BY <1>1, <2>1, FinishMethods
<1>3. \A t : (Recorded(t)' <=> Recorded(t)) /\ (Started(t)' <=> Started(t))
  BY <1>2, StepsKept
<1>4. TypeOK'
  BY <1>1, <1>2 DEF IInv, TypeOK
<1>5. Settled' /\ Left' /\ Keyed' /\ NeverLockedOut'
  BY <1>1, <1>3, CarriedOver
<1>6. Working' /\ Halfway' /\ Completed' /\ Published'
  BY <1>1, <1>2, <1>3 DEF IInv, Working, Halfway, Completed, Published
<1> QED
  BY <1>4, <1>5, <1>6 DEF IInv

(* A kill or a restart ends the worker; a restart takes what is in memory, *)
(* and the state file with or without a trace, and may bring akadmin back  *)
(* as long as the retirement is not recorded.                              *)
LEMMA StoppedInv == IInv /\ (Kill \/ Restart) => IInv'
<1> SUFFICES ASSUME IInv, Kill \/ Restart PROVE IInv'
  OBVIOUS
<1>1. /\ pc' = "idle" /\ args' = NoArgs /\ at' = 1 /\ done' = 0 /\ manual' = FALSE
      /\ UNCHANGED <<encrypted, createPool, journal, createdPool>>
  BY DEF Kill, Restart, Idle, plan
<1>2. faults' \in 0..MaxFaults
  BY FirstRunAssumption DEF Kill, Restart, IInv, TypeOK
<1>3. /\ world' \subseteq Facts
      /\ "state" \in world' => "state" \in world
      /\ \A f : f \notin {"mounted", "ready", "boot-token", "stack", "state", "state-corrupt",
                         "akadmin-gone", "akadmin-token"} => (f \in world' <=> f \in world)
      /\ "akadmin-gone" \in world' => "akadmin-gone" \in world
      /\ "bootcreds" \notin world =>
           ("akadmin-gone" \in world => "akadmin-gone" \in world')
           /\ ("akadmin-token" \in world' => "akadmin-token" \in world)
  <2>1. CASE Kill
    BY <2>1 DEF Kill, IInv, TypeOK
  <2>2. CASE Restart
    <3>1. PICK keep \in SUBSET {"state", "state-corrupt"}, remade \in BOOLEAN :
            /\ "state" \notin world => keep = world \cap {"state-corrupt"}
            /\ remade => {"akadmin-gone", "bootcreds"} \subseteq world
            /\ world' = (world \ ({"ready", "boot-token", "stack", "state", "state-corrupt"}
                                  \cup (IF encrypted THEN {"mounted"} ELSE {})
                                  \cup (IF remade THEN {"akadmin-gone"} ELSE {})))
                        \cup keep \cup (IF remade THEN {"akadmin-token"} ELSE {})
      BY <2>2 DEF Restart
    <3>2. world' \subseteq Facts
      BY <3>1 DEF IInv, TypeOK, Facts
    <3> QED
      BY <3>1, <3>2
  <2> QED
    BY <2>1, <2>2
<1>4. \A t : (Recorded(t)' <=> Recorded(t)) /\ (Started(t)' <=> Started(t))
  BY <1>1 DEF Recorded, Started, StepComplete
<1>5. TypeOK'
  <2>1. at' \in 1..(Len(Order) + 1) /\ done' \in 0..4
    BY <1>1, Places
  <2> QED
    BY <1>1, <1>2, <1>3, <2>1 DEF IInv, TypeOK
<1>6. Left'
  <2>1. ASSUME NEW t \in Stages, Recorded(t) PROVE Lasting(t) \subseteq world'
    <3>1. CASE t = "bootstrap-authority-retirement"
      <4>1. "akadmin-gone" \in world /\ "bootcreds" \notin world
        BY <2>1, <3>1 DEF IInv, Left, Lasting
      <4> QED
        BY <1>3, <3>1, <4>1 DEF Lasting
    <3>2. CASE t # "bootstrap-authority-retirement"
      <4>1. Lasting(t) \subseteq world
        BY <2>1 DEF IInv, Left
      <4>2. "akadmin-gone" \notin Lasting(t)
        BY <3>2 DEF Lasting
      <4> QED
        BY <1>3, <2>1, <4>1, <4>2, LastingFacts
    <3> QED
      BY <3>1, <3>2
  <2>2. Recorded("bootstrap-authority-retirement") =>
          {"kp-boot", "bootcreds", "akadmin-token"} \cap world' = {}
    BY <1>3 DEF IInv, Left
  <2> QED
    BY <1>4, <2>1, <2>2 DEF Left
<1>7. Settled' /\ Completed' /\ Working' /\ Halfway' /\ Published'
  BY <1>1, <1>3, <1>4 DEF IInv, Settled, Completed, Working, Halfway, Published
<1>8. Keyed' /\ NeverLockedOut'
  BY <1>1, <1>3, <1>4 DEF IInv, Keyed, KeyKept, NeverLockedOut
<1> QED
  BY <1>5, <1>6, <1>7, <1>8 DEF IInv

LEMMA InvStep == IInv /\ [Next]_vars => IInv'
<1> SUFFICES ASSUME IInv, [Next]_vars PROVE IInv'
  OBVIOUS
<1>1. CASE Worker
  BY <1>1, OpenJournalInv, ReuseStageInv, ProbeFailsInv, StartStageInv, ActInv, CompleteStageInv,
     StageFailsInv, FinishInv DEF Worker
<1>2. CASE Retry
  BY <1>2, BeginInv DEF Retry
<1>3. CASE FinishInterrupted \/ Acknowledge \/ Kill \/ Restart
  BY <1>3, FinishInterruptedInv, AcknowledgeInv, StoppedInv
<1>4. CASE UNCHANGED vars
  <2>1. UNCHANGED <<encrypted, createPool, world, journal, args, pc, at, done, manual, createdPool,
                    faults>>
    BY <1>4 DEF vars
  <2>2. \A t : (Recorded(t)' <=> Recorded(t)) /\ (Started(t)' <=> Started(t))
    BY <2>1 DEF Recorded, Started, StepComplete
  <2>3. TypeOK'
    BY <2>1 DEF IInv, TypeOK
  <2>4. Settled' /\ Left' /\ Keyed' /\ NeverLockedOut'
    BY <2>1, <2>2, CarriedOver
  <2>5. Working' /\ Halfway' /\ Published' /\ Completed'
    BY <2>1, <2>2 DEF IInv, Working, Halfway, Published, Completed, Stage, Count
  <2> QED
    BY <2>3, <2>4, <2>5 DEF IInv
<1> QED
  BY <1>1, <1>2, <1>3, <1>4 DEF Next

(* The invariant of the first-run setup holds whatever is killed, restarted*)
(* or fails in run_setup_stage, and however often the operator retries.    *)
THEOREM FirstRunInvariant == Spec => []IInv
BY InvInit, InvStep, PTL DEF Spec

(* The state of the setup is well typed.                                   *)
THEOREM FirstRunTyped == Spec => []TypeOK
<1>1. IInv => TypeOK
  BY DEF IInv
<1> QED
  BY <1>1, FirstRunInvariant, PTL

(* The KeePass database is not created again once the dataset is encrypted *)
(* with a key that only it holds (verify_or_create_database).              *)
THEOREM FirstRunKeyKept == Spec => []KeyKept
<1>1. IInv => KeyKept
  BY DEF IInv, Keyed
<1> QED
  BY <1>1, FirstRunInvariant, PTL

(* Nobody is locked out between the retirement of the bootstrap logins and *)
(* the recording of the accounts that replace them.                        *)
THEOREM FirstRunNeverLockedOut == Spec => []NeverLockedOut
<1>1. IInv => NeverLockedOut
  BY DEF IInv
<1> QED
  BY <1>1, FirstRunInvariant, PTL

(* A journal that the worker, or finish_interrupted_setup_journal after a  *)
(* kill, has completed is honest: every durable effect of every stage      *)
(* holds and no bootstrap credential is left.                              *)
THEOREM FirstRunCompletionHonest == Spec => []CompletionHonest
<1>1. IInv => CompletionHonest
  <2> SUFFICES ASSUME IInv, journal.status = "complete"
               PROVE  /\ Facts \ {"mounted", "ready", "boot-token", "stack", "state",
                                  "state-corrupt", "kp-boot", "bootcreds", "akadmin-token",
                                  "dataset-key"}
                             \subseteq world
                      /\ {"kp-boot", "bootcreds", "akadmin-token"} \cap world = {}
    BY DEF CompletionHonest
  <2>1. \A s \in Stages : Recorded(s)
    BY DEF IInv, Completed
  <2>2. \A s \in Named \ {"syncthing", "preflight"} : Lasting(s) \subseteq world
    BY <2>1, StageNames DEF IInv, Left
  <2>3. {"kp-boot", "bootcreds", "akadmin-token"} \cap world = {}
    BY <2>1, LastingFacts DEF IInv, Left, Once
  <2>4. {"database", "authority", "key"} \subseteq world
    BY <2>2 DEF Named, Lasting
  <2>5. {"pool", "dataset", "runtime", "account", "bootdb"} \subseteq world
    BY <2>2 DEF Named, Lasting
  <2>6. {"roles", "token", "identities", "setupapp-gone", "akadmin-gone"} \subseteq world
    BY <2>2 DEF Named, Lasting
  <2>7. {"adminfile", "bootuser-gone", "shares", "policy"} \subseteq world
    BY <2>2 DEF Named, Lasting
  <2> QED
    BY <2>3, <2>4, <2>5, <2>6, <2>7 DEF Facts, InDatabase, InIdentity
<1> QED
  BY <1>1, FirstRunInvariant, PTL

=============================================================================
