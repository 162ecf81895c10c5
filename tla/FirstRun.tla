------------------------------ MODULE FirstRun ------------------------------
(***************************************************************************)
(* First-run setup (services/nas_setup.py): some twenty journalled stages  *)
(* that turn a freshly installed machine into an appliance, with commands  *)
(* that fail halfway, a worker that is killed anywhere, a machine that     *)
(* restarts, and an operator who retries and acknowledges manual recovery. *)
(*                                                                         *)
(* The machine is the set "world" of the facts that hold of it.  A stage   *)
(* is a sequence of effects, each with the facts it needs, removes and     *)
(* establishes, in the order of the commands of the stage's function; the  *)
(* facts a stage's postcondition probes are its "probe".                   *)
(***************************************************************************)
EXTENDS Integers, Sequences, FiniteSets

CONSTANTS
    Plans,          \* the reviewed plans an operator may submit
    Optional,       \* the optional stages this build and plan run
    MaxFaults       \* bound: kills, restarts and failing commands together

ASSUME FirstRunAssumption ==
    /\ Plans # {}
    /\ Optional \subseteq {"syncthing", "preflight"}
    /\ MaxFaults \in Nat

VARIABLES
    encrypted,      \* the encryption choice of the reviewed plan
    createPool,     \* storage.createPool: the plan names devices for a new pool
    world,          \* the facts that hold of the machine
    journal,        \* /var/lib/nas-setup/journal.json
    args,           \* the inputs of the running worker
    pc,             \* where the worker is; "idle" when there is none
    at,             \* index of the worker's stage
    done,           \* effects of that stage already made
    manual,         \* the stage's manual_recovery_on_failure
    createdPool,    \* createdPool in the result the storage step recorded
    faults          \* faults so far

vars == <<encrypted, createPool, world, journal, args, pc, at, done, manual,
          createdPool, faults>>

plan == <<encrypted, createPool>>
worker == <<args, pc, at, done, manual>>

-----------------------------------------------------------------------------
(* The stages of _first_run_locked, in order.  The optional ones are passed *)
(* over where the build or the plan does without them.                      *)

Order ==
    <<"keepass-database", "bootstrap-authentik-authority", "secret-initialization",
      "storage", "storage-runtime-preparation", "local-administrator",
      "identity-database-regeneration", "permanent-authentik-authority",
      "protected-service-activation", "identity-bootstrap",
      "identity-runtime-token", "identity-accounts",
      "setup-application-retirement", "bootstrap-authority-retirement",
      "bootstrap-linux-retirement", "share-directories", "syncthing",
      "managed-services-policy", "verification", "preflight", "final-state">>

Stages == {Order[i] : i \in DOMAIN Order} \ ({"syncthing", "preflight"} \ Optional)

After(i) == IF i < Len(Order) /\ Order[i + 1] \notin Stages THEN i + 2 ELSE i + 1

INSTANCE OperationJournal WITH Steps <- Stages, NoStep <- "none"

\* Facts.  In the KeePass database: its existence, the adopted authority, the
\* bootstrap token, the ZFS key, and whether that is the key the dataset was
\* made with.  Staged under /run and lost on restart: ready, boot-token, stack.
\* In Authentik: akadmin-token, the bootstrap token of akadmin as long as it is
\* accepted.
InDatabase == {"database", "authority", "kp-boot", "key", "dataset-key"}

InIdentity == {"roles", "token", "identities", "akadmin-gone"}

Facts == InDatabase \cup InIdentity \cup
    {"pool", "dataset", "mounted", "ready", "boot-token", "akadmin-token", "stack",
     "runtime", "account", "bootdb", "bootcreds", "setupapp-gone", "adminfile",
     "bootuser-gone", "shares", "policy", "state", "state-corrupt"}

\* One command: what it needs, clears and adds, and whether it activates the
\* staged secrets.
Effect(needs, clear, add, activate) ==
    [needs |-> needs, clear |-> clear, add |-> add, activate |-> activate]

Makes(needs, add) == Effect(needs, {}, add, FALSE)

\* nas-secrets activate: the bootstrap token is staged only while KeePass has it.
Activates(needs, add) == Effect(needs \cup {"database"}, {}, add \cup {"ready"}, TRUE)

Perform(w, e) ==
    LET v == (w \ e.clear) \cup e.add
    IN  IF e.activate /\ "ready" \in v
        THEN (v \ {"boot-token"}) \cup (IF "kp-boot" \in v THEN {"boot-token"} ELSE {})
        ELSE v

\* A command that asks Authentik with the staged bootstrap token.
AsAkadmin == {"boot-token", "akadmin-token", "stack"}

\* verify_or_create_database, with the default --create-database.
verify_or_create_database ==
    <<Effect({}, InDatabase, {}, FALSE), Makes({}, {"database"})>>

\* adopt_bootstrap_authentik_authority: a re-activation when secrets are staged.
adopt_bootstrap_authentik_authority ==
    <<Effect({"database", "bootcreds"}, {}, {"authority", "kp-boot"}, TRUE)>>

\* setup_storage: an encrypted dataset is created with the key in KeePass and
\* left unmounted; an unencrypted one is mounted.
setup_storage ==
    <<Makes({}, {"pool"})>> \o
    (IF encrypted
     THEN <<Makes({"pool"} \cup (IF "dataset" \in world THEN {} ELSE {"key"}),
                  {"dataset"} \cup (IF "dataset" \in world THEN {} ELSE {"dataset-key"}))>>
     ELSE <<Makes({"pool"}, {"dataset"}), Makes({"dataset"}, {"mounted"})>>)

\* prepare_storage_runtime.
prepare_storage_runtime ==
    (IF encrypted
     THEN <<Activates({}, {}), Makes({"ready", "dataset-key"}, {"mounted"})>>
     ELSE << >>)
    \o <<Makes({"mounted"}, {"runtime"})>>

\* regenerate_boot_identity_databases: stop, delete everything, start again.
regenerate_boot_identity_databases ==
    <<Effect({}, InIdentity \cup {"bootdb", "bootcreds", "akadmin-token", "stack"}, {}, FALSE),
      Makes({}, {"bootdb", "bootcreds", "akadmin-token"})>>

\* install_runtime_identity_token.
install_runtime_identity_token ==
    <<Makes(AsAkadmin \cup {"database"}, {}), Activates({}, {"token"})>>

\* retire_bootstrap_runtime: akadmin is deleted with its own token, which goes
\* with it, then the credentials go from KeePass, from the environment, and, with
\* the activation, from the staged secrets.
retire_bootstrap_runtime ==
    <<Effect(AsAkadmin \cup {"identities"}, {"akadmin-token"}, {"akadmin-gone"}, FALSE),
      Effect({"database"}, {"kp-boot"}, {}, FALSE),
      Effect({}, {"bootcreds"}, {}, FALSE),
      Activates({}, {})>>

RetireBeforeRecording ==
    <<Makes({}, {"bootuser-gone"}), Makes({"account"}, {"adminfile"})>>

\* finalize_local_administrator: the only writer of local-administrator.json.
finalize_local_administrator ==
    <<Makes({"account"}, {"adminfile"}), Makes({}, {"bootuser-gone"})>>

create_local_administrator == <<Makes({"mounted"}, {"account"})>>

\* nas-identity-sync apply-accounts; its own journal is module AccountPlan's.
apply_accounts == <<Makes({"stack", "token"}, {"identities"})>>

remove_setup_application == <<Makes(AsAkadmin, {"setupapp-gone"})>>

provision_share_directories == <<Makes({"mounted"}, {"shares"})>>

apply_services == <<Makes({"mounted"}, {"policy"})>>

write_state == <<Makes({}, {"state"})>>

ActionOf(s) ==
    CASE s = "keepass-database" -> verify_or_create_database
      [] s \in {"bootstrap-authentik-authority", "permanent-authentik-authority"}
            -> adopt_bootstrap_authentik_authority
      [] s = "secret-initialization" -> <<Makes({"database"}, {"key", "kp-boot"})>>
      [] s = "storage" -> setup_storage
      [] s = "storage-runtime-preparation" -> prepare_storage_runtime
      [] s = "local-administrator" -> create_local_administrator
      [] s = "identity-database-regeneration" -> regenerate_boot_identity_databases
      [] s = "protected-service-activation" -> <<Activates({"key"}, {"stack"})>>
      [] s = "identity-bootstrap" -> <<Makes(AsAkadmin, {"roles"})>>
      [] s = "identity-runtime-token" -> install_runtime_identity_token
      [] s = "identity-accounts" -> apply_accounts
      [] s = "setup-application-retirement" -> remove_setup_application
      [] s = "bootstrap-authority-retirement" -> retire_bootstrap_runtime
      [] s = "bootstrap-linux-retirement" -> finalize_local_administrator
      [] s = "share-directories" -> provision_share_directories
      [] s = "syncthing" -> <<Makes({"stack", "token"}, {})>>
      [] s = "managed-services-policy" -> apply_services
      [] s \in {"verification", "preflight"} -> <<Makes({"mounted", "ready", "stack"}, {})>>
      [] s = "final-state" -> write_state

\* The postconditions, as the facts they look at.
keepass_database_ready == {"database"}
storage_ready == {"pool", "dataset", "mounted"}
storage_runtime_ready == storage_ready \cup {"runtime"}
local_administrator_ready == {"adminfile", "account", "mounted"}
setup_identity_stack_ready == {"ready", "stack"}
identity_command_ready == {"ready", "stack"}
account_plan_ready == identity_command_ready \cup {"identities"}
share_directories_ready == {"mounted", "shares"}
service_policy_ready == {"mounted", "policy"}
verification_ready == identity_command_ready \cup {"mounted"}
setup_state_matches == {"state"}

\* {} where a stage has no postcondition, or one on the recorded result only.
Probe(s) ==
    CASE s = "keepass-database" -> keepass_database_ready
      [] s = "storage" -> storage_ready
      [] s = "storage-runtime-preparation" -> storage_runtime_ready
      [] s = "local-administrator" -> local_administrator_ready
      [] s = "identity-database-regeneration" -> {"bootdb"}
      [] s = "protected-service-activation" -> setup_identity_stack_ready
      [] s = "identity-bootstrap" -> identity_command_ready
      [] s = "identity-runtime-token" -> identity_command_ready \cup {"token"}
      [] s = "identity-accounts" -> account_plan_ready
      [] s = "bootstrap-linux-retirement" -> {"adminfile", "bootuser-gone"}
      [] s = "share-directories" -> share_directories_ready
      [] s = "managed-services-policy" -> service_policy_ready
      [] s \in {"verification", "preflight"} -> verification_ready
      [] s = "final-state" -> setup_state_matches
      [] OTHER -> {}

\* manual_recovery_on_failure: what a failure of the stage may leave half done.
ManualOnFailure(s) ==
    \/ s \in {"identity-database-regeneration", "bootstrap-authority-retirement",
              "bootstrap-linux-retirement"}
    \/ s = "storage" /\ "pool" \notin world /\ args.destructive

-----------------------------------------------------------------------------
Fingerprints == Plans \X BOOLEAN       \* the plan and allowDestructiveStorage

NoArgs == [plan |-> "none", destructive |-> FALSE]

TypeOK ==
    /\ encrypted \in BOOLEAN /\ createPool \in BOOLEAN
    /\ world \subseteq Facts
    /\ journal \in {NoJournal} \cup Journals(Fingerprints)
    /\ args \in {NoArgs} \cup [plan : Plans, destructive : BOOLEAN]
    /\ pc \in {"idle", "open", "stage", "act"}
    /\ at \in 1..Len(Order) + 1
    /\ done \in 0..4
    /\ manual \in BOOLEAN /\ createdPool \in BOOLEAN
    /\ faults \in 0..MaxFaults

\* A freshly installed machine: the bootstrap identity databases run, and there
\* is a pool already or devices to make one from.
Init ==
    /\ encrypted \in BOOLEAN
    /\ createPool \in BOOLEAN
    /\ world = {"bootdb", "bootcreds", "akadmin-token"} \cup (IF createPool THEN {} ELSE {"pool"})
    /\ journal = NoJournal
    /\ args = NoArgs /\ pc = "idle" /\ at = 1 /\ done = 0
    /\ manual = FALSE /\ createdPool = FALSE
    /\ faults = 0

Idle == args' = NoArgs /\ pc' = "idle" /\ at' = 1 /\ done' = 0 /\ manual' = FALSE

-----------------------------------------------------------------------------
(* Admission: first_run and the checks of _first_run_locked before stage one. *)

\* completed_setup_report: no state file is the only bootstrap case, and a
\* corrupt one is fatal.
completed_setup_report_absent == world \cap {"state", "state-corrupt"} = {}

RejectByStateOnly == ~completed_setup_report_absent

\* reject_completed_first_run: either durable authority blocks a second setup.
reject_completed_first_run ==
    ~completed_setup_report_absent \/ journal.status = "complete"

\* validate_storage_request.
validate_storage_request(destructive) ==
    "pool" \in world \/ (createPool /\ destructive)

Compatible(p) == {<<p, d>> : d \in BOOLEAN}

\* reconcile_verified_storage_retry: with the storage verified, a journal whose
\* storage step failed is recovered, and one opened with the other value of
\* allowDestructiveStorage is adopted.
VerifiedRetry(fp) ==
    IF ~(storage_ready \subseteq world) \/ journal.status = "absent" THEN journal
    ELSE IF journal.status = "manual-recovery-required" /\ journal.current = "storage"
         THEN RecoveredStep(journal, "storage", fp)
    ELSE IF journal.fingerprint # fp /\ StepComplete(journal, "storage") /\ createdPool
         THEN [journal EXCEPT !.fingerprint = fp]
    ELSE journal

CanRetry(p) ==
    storage_ready \subseteq world /\ journal.status # "absent"
        => journal.fingerprint \in Compatible(p)

\* The worker up to OperationJournal.open; the verified retry is saved first.
Begin(p, destructive) ==
    LET fp == <<p, destructive>> IN
    /\ pc = "idle"
    /\ ~reject_completed_first_run
    /\ validate_storage_request(destructive)
    /\ CanRetry(p)
    /\ journal' = VerifiedRetry(fp)
    /\ createdPool' = IF journal.status = "manual-recovery-required"
                            /\ journal' # journal /\ journal'.status = "reconciled"
                      THEN createPool ELSE createdPool
    /\ \/ /\ CanOpen(journal', fp)
          /\ args' = [plan |-> p, destructive |-> destructive]
          /\ pc' = "open"
          /\ UNCHANGED <<at, done, manual>>
       \/ /\ ~CanOpen(journal', fp)
          /\ journal' # journal
          /\ UNCHANGED worker
    /\ UNCHANGED <<plan, world, faults>>

OpenJournal ==
    /\ pc = "open"
    /\ journal' = Open(journal, <<args.plan, args.destructive>>)
    /\ pc' = "stage" /\ at' = 1
    /\ UNCHANGED <<plan, world, args, done, manual, createdPool, faults>>

-----------------------------------------------------------------------------
(* run_setup_stage. *)

Stage == Order[at]

AtStage == pc = "stage" /\ at <= Len(Order)

\* A recorded step is reused when its postcondition still holds.
ReuseStage ==
    /\ AtStage
    /\ StepComplete(journal, Stage)
    /\ Probe(Stage) \subseteq world
    /\ at' = After(at)
    /\ UNCHANGED <<plan, world, journal, args, pc, done, manual, createdPool, faults>>


\* A recorded step that no longer holds stops the setup for manual recovery.
ProbeFails ==
    /\ AtStage
    /\ StepComplete(journal, Stage)
    /\ ~(Probe(Stage) \subseteq world)
    /\ journal' = FailStep(journal, Stage, TRUE)
    /\ Idle
    /\ UNCHANGED <<plan, world, createdPool, faults>>

StartStageAsDone ==
    /\ AtStage
    /\ ~StepComplete(journal, Stage)
    /\ journal' = CompleteStep(StartStep(journal, Stage), Stage)
    /\ pc' = "act" /\ done' = 0
    /\ manual' = ManualOnFailure(Stage)
    /\ UNCHANGED <<plan, world, args, at, createdPool, faults>>

StartStage ==
    /\ AtStage
    /\ ~StepComplete(journal, Stage)
    /\ journal' = StartStep(journal, Stage)
    /\ pc' = "act" /\ done' = 0
    /\ manual' = ManualOnFailure(Stage)
    /\ UNCHANGED <<plan, world, args, at, createdPool, faults>>

\* The stage's next command.
Act ==
    /\ pc = "act"
    /\ done < Len(ActionOf(Stage))
    /\ ActionOf(Stage)[done + 1].needs \subseteq world
    /\ world' = Perform(world, ActionOf(Stage)[done + 1])
    /\ done' = done + 1
    /\ UNCHANGED <<plan, journal, args, pc, at, manual, createdPool, faults>>

CompleteStage ==
    /\ pc = "act"
    /\ done = Len(ActionOf(Stage))
    /\ journal' = CompleteStep(journal, Stage)
    /\ createdPool' = IF Stage = "storage" THEN manual ELSE createdPool
    /\ pc' = "stage" /\ at' = After(at) /\ done' = 0 /\ manual' = FALSE
    /\ UNCHANGED <<plan, world, args, faults>>

\* A command of the stage fails: because what it needs is missing, or as a fault
\* (possibly after its effect, as a command that times out may have worked).
StageFails ==
    /\ pc = "act"
    /\ \/ /\ done < Len(ActionOf(Stage))
          /\ ~(ActionOf(Stage)[done + 1].needs \subseteq world)
          /\ UNCHANGED faults
       \/ /\ faults < MaxFaults
          /\ faults' = faults + 1
    /\ journal' = FailStep(journal, Stage, manual)
    /\ Idle
    /\ UNCHANGED <<plan, world, createdPool>>

\* All stages hold: the state file is verified and the journal completed.
Finish ==
    /\ pc = "stage"
    /\ at > Len(Order)
    /\ "state" \in world
    /\ journal' = Complete(journal)
    /\ Idle
    /\ UNCHANGED <<plan, world, createdPool, faults>>

-----------------------------------------------------------------------------
(* Retries of an operator, and faults. *)

\* first_run with a published report: finish_interrupted_setup_journal.
FinishInterrupted ==
    /\ pc = "idle"
    /\ "state" \in world
    /\ journal.status \in {"pending", "running", "resuming"}
    /\ journal' = Complete(CompleteStep(journal, "final-state"))
    /\ UNCHANGED <<plan, world, worker, createdPool, faults>>

\* reconcile-first-run, under the first-start lock.
Acknowledge ==
    /\ pc = "idle"
    /\ CanAcknowledge(journal)
    /\ journal' = Acknowledged(journal)
    /\ UNCHANGED <<plan, world, worker, createdPool, faults>>

Kill ==
    /\ pc # "idle" /\ faults < MaxFaults
    /\ Idle
    /\ faults' = faults + 1
    /\ UNCHANGED <<plan, world, journal, createdPool>>

\* The machine stops and starts again: the staged secrets, the unlocked dataset
\* and the activated stack are gone.  The journal is synced, the state file is
\* installed without a sync and may be lost or cut.  Authentik, started again,
\* may make akadmin anew while its environment has the one-time values
\* (nas_setup.py:754).
Restart ==
    /\ faults < MaxFaults
    /\ \E keep \in SUBSET {"state", "state-corrupt"}, remade \in BOOLEAN :
          /\ "state" \notin world => keep = world \cap {"state-corrupt"}
          /\ Cardinality(keep) <= 1
          /\ remade => {"akadmin-gone", "bootcreds"} \subseteq world
          /\ world' = (world \ ({"ready", "boot-token", "stack", "state", "state-corrupt"}
                                \cup (IF encrypted THEN {"mounted"} ELSE {})
                                \cup (IF remade THEN {"akadmin-gone"} ELSE {})))
                      \cup keep \cup (IF remade THEN {"akadmin-token"} ELSE {})
    /\ Idle
    /\ faults' = faults + 1
    /\ UNCHANGED <<plan, journal, createdPool>>

Worker ==
    \/ OpenJournal \/ ReuseStage \/ ProbeFails \/ StartStage
    \/ Act \/ CompleteStage \/ StageFails \/ Finish

Retry == \E p \in Plans, d \in BOOLEAN : Begin(p, d)

Next == Worker \/ Retry \/ FinishInterrupted \/ Acknowledge \/ Kill \/ Restart

Spec == Init /\ [][Next]_vars

\* The worker runs on; an operator comes back to an unfinished setup, with the
\* inputs that are admitted, and acknowledges what asks for it.
FairSpec ==
    /\ Spec
    /\ WF_vars(Worker) /\ WF_vars(Retry)
    /\ WF_vars(FinishInterrupted) /\ WF_vars(Acknowledge)

\* The setup of a machine on which nothing fails and nothing restarts: only the
\* worker is killed.
Interrupted ==
    \/ Worker /\ faults' = faults
    \/ Retry \/ FinishInterrupted \/ Acknowledge \/ Kill

InterruptedSpec ==
    /\ Init /\ [][Interrupted]_vars
    /\ WF_vars(Worker /\ faults' = faults) /\ WF_vars(Retry)
    /\ WF_vars(FinishInterrupted) /\ WF_vars(Acknowledge)

-----------------------------------------------------------------------------
(* Properties. *)

\* The key of an encrypted dataset is never lost: no retry, restart or second
\* setup recreates the KeePass database (nas_setup.py:795) once the dataset has
\* been encrypted with a key that only that database holds.
KeyKept == encrypted /\ "dataset" \in world => "dataset-key" \in world

\* Whatever was interrupted, failed, retried or acknowledged on the way, a
\* completed journal means that every durable effect of every stage holds, and
\* that no bootstrap credential is left.
CompletionHonest ==
    journal.status = "complete" =>
        /\ Facts \ {"mounted", "ready", "boot-token", "stack", "state", "state-corrupt",
                     "kp-boot", "bootcreds", "akadmin-token", "dataset-key"} \subseteq world
        /\ {"kp-boot", "bootcreds", "akadmin-token"} \cap world = {}

\* Nobody is locked out in the middle: the bootstrap login is removed only when
\* the appliance already knows its administrator's account, and akadmin only
\* when the chosen accounts exist (nas_setup.py:602, nas_identity_sync.py:1760).
NeverLockedOut ==
    /\ "bootuser-gone" \in world => {"account", "adminfile"} \subseteq world
    /\ "akadmin-gone" \in world => "identities" \in world

\* Two states that a retry cannot leave.  The state file is damaged, or published
\* with a journal that finish_interrupted_setup_journal refuses; and an unrecorded
\* retirement of the bootstrap authority has destroyed the token its own first
\* command needs: with akadmin in Authentik, or in KeePass and so, with the next
\* activation, its staged copy.
StateDamaged ==
    \/ "state-corrupt" \in world
    \/ "state" \in world /\ journal.status \in {"failed", "reconciled"}

RetirementStranded ==
    /\ "identities" \in world
    /\ ~StepComplete(journal, "bootstrap-authority-retirement")
    /\ "akadmin-token" \notin world \/ {"kp-boot", "boot-token"} \cap world = {}


\* docs/src/admin/first-run.md:167 "Setup is resumable": a setup whose worker is
\* killed, on a machine where nothing else goes wrong, is completed by retries
\* and acknowledgements.
SetupResumes == <>(journal.status = "complete")
=============================================================================
