------------------------ MODULE Schema10Transition ------------------------
(***************************************************************************)
(* The move of the DCS from schema 9 to 10 and of its writers from client  *)
(* v0.4 to v0.5 (production_schema10_operational.py).  An operator drives  *)
(* one Schema10WriterTransition, whose phase allows the calls, and one     *)
(* Schema10HeldW08, the lease held over the migration.  Both are objects   *)
(* of a process that may die; the launchd services, the authorised         *)
(* identity files, the database and the lease row stay.                    *)
(*                                                                         *)
(* v0.4 supports schema 9 only, v0.5 both.  The writers resting on a       *)
(* schedule are those of DcsAdoption; here a writer serves or is down.     *)
(***************************************************************************)
EXTENDS Naturals

CONSTANTS
    Client,    \* the production writers W01 to W06
    MaxEvent   \* bound: events of the GLOBAL_PRODUCTION lease

ASSUME EventAssumption == MaxEvent \in Nat

VARIABLES
    installed,   \* the client version installed under each writer
    projection,  \* the version its authorised identity file names
    serving,     \* the writers enabled, loaded and running
    dcsSchema,   \* the schema of the DCS
    w08,         \* the lease row: holder, live, and the last event
    transition,  \* the Schema10WriterTransition
    held,        \* the Schema10HeldW08
    effect       \* the call in progress, if it has effects of several steps

transitionVars == <<installed, projection, serving, dcsSchema, w08, transition, held, effect>>

Versions == {"v04", "v05"}
Phases == {"INITIAL", "QUIESCED_V04", "AUTHORIZED_V05", "BOUND_V05", "BACKED_UP",
           "MIGRATED_SCHEMA10", "RECONCILIATION_REQUIRED", "RESTORED_SCHEMA10",
           "ROLLED_BACK_V04_SCHEMA9"}

TransitionTypeOK ==
    /\ installed \in [Client -> Versions] /\ projection \in [Client -> Versions]
    /\ serving \subseteq Client
    /\ dcsSchema \in {9, 10}
    /\ w08 \in [holder : {"free", "own", "other"}, live : BOOLEAN, event : 0..MaxEvent]
    /\ transition \in [phase : Phases, before : SUBSET Client, backup : BOOLEAN,
                       outcome : {"none", "restored", "recovery"}]
    /\ held \in [state : {"none", "open", "closed", "released"}, schema : {9, 10},
                 rebound : BOOLEAN, proof : {0, 9, 10}, event : 0..MaxEvent]
    /\ effect \in [op : {"none", "quiesce", "project", "compensate", "resume",
                         "acquire", "migrate"},
                   guard : {"none", "free", "held"}, event : 0..MaxEvent,
                   target : Versions, entry : [Client -> Versions],
                   todo : SUBSET Client, wrote : SUBSET Client,
                   fresh : BOOLEAN, late : Nat]

NewTransition == [phase |-> "INITIAL", before |-> {}, backup |-> FALSE, outcome |-> "none"]
NoHeld == [state |-> "none", schema |-> 9, rebound |-> FALSE, proof |-> 0, event |-> 0]
NoEffect == [op |-> "none", guard |-> "none", event |-> 0, target |-> "v04",
             entry |-> [w \in Client |-> "v04"], todo |-> {}, wrote |-> {},
             fresh |-> FALSE, late |-> 0]

TransitionInit ==
    /\ installed = [w \in Client |-> "v04"] /\ projection = installed
    /\ serving \in (SUBSET Client) \ {{}}
    /\ dcsSchema = 9
    /\ w08 = [holder |-> "free", live |-> FALSE, event |-> 0]
    /\ transition = NewTransition /\ held = NoHeld /\ effect = NoEffect

(***************************************************************************)
(* What the calls look at.  discover() fails when a file names another     *)
(* client than the one installed, so an exact inventory is both.           *)
(***************************************************************************)
InventoryOf(v) == \A w \in Client : installed[w] = v /\ projection[w] = v

Quiesced(v) == InventoryOf(v) /\ serving = {}

ClientOf(schema) == IF schema = 10 THEN "v05" ELSE "v04"

Restored(v) == InventoryOf(v) /\ serving = transition.before

\* Schema10HeldW08.assert_current: identity, expiry, and no later event.
LeaseIntact == w08.holder = "own" /\ w08.live /\ w08.event = held.event

HeldCurrent == held.state = "open" /\ LeaseIntact

\* The guard of a call: the lease held, or the row free and no event since.
Guarded ==
    CASE effect.guard = "none" -> TRUE
      [] effect.guard = "held" -> HeldCurrent
      [] effect.guard = "free" -> w08.holder = "free" /\ w08.event = effect.event

Unoccupied == effect.op = "none"

Phase(p) == transition' = [transition EXCEPT !.phase = p, !.outcome = "none"]

\* One file or service effect, given after the last assertion of the guard.
Given(e) == [e EXCEPT !.fresh = FALSE, !.late = IF Guarded THEN @ ELSE @ + 1]

(***************************************************************************)
(* quiesce: the writers serving are taken down one by one, without a       *)
(* lease.  A failure brings back those taken down, as far as that works.   *)
(***************************************************************************)
Quiesce ==
    /\ Unoccupied /\ transition.phase = "INITIAL" /\ InventoryOf("v04")
    /\ transition' = [NewTransition EXCEPT !.before = serving]
    /\ effect' = [NoEffect EXCEPT !.op = "quiesce", !.todo = serving]
    /\ UNCHANGED <<installed, projection, serving, dcsSchema, w08, held>>

TakeDown(w) ==
    /\ effect.op = "quiesce" /\ w \in effect.todo
    /\ serving' = serving \ {w}
    /\ effect' = [effect EXCEPT !.todo = @ \ {w}]
    /\ UNCHANGED <<installed, projection, dcsSchema, w08, transition, held>>

QuiesceFails ==
    /\ effect.op = "quiesce"
    /\ \E back \in SUBSET (transition.before \ serving) : serving' = serving \cup back
    /\ transition' = NewTransition /\ effect' = NoEffect
    /\ UNCHANGED <<installed, projection, dcsSchema, w08, held>>

QuiesceEnds ==
    /\ effect.op = "quiesce" /\ effect.todo = {} /\ Quiesced("v04")
    /\ Phase("QUIESCED_V04") /\ effect' = NoEffect
    /\ UNCHANGED <<installed, projection, serving, dcsSchema, w08, held>>

(***************************************************************************)
(* The authorised identity files are rewritten one by one, forward without *)
(* a guard, and back to v0.4 under the lease or while the row is free.     *)
(***************************************************************************)
Project(target, guard) ==
    /\ transition' = [transition EXCEPT !.outcome = "none"]
    /\ effect' = [NoEffect EXCEPT
          !.op = "project", !.guard = guard, !.event = w08.event,
          !.target = target, !.entry = projection, !.todo = Client]
    /\ UNCHANGED <<installed, projection, serving, dcsSchema, w08, held>>

ApplyV05Projection ==
    /\ Unoccupied /\ transition.phase \in {"QUIESCED_V04", "AUTHORIZED_V05"}
    /\ transition.phase = "QUIESCED_V04" => Quiesced("v04")
    /\ Project("v05", "none")

\* The v0.4 clients are installed again while the files may still name v0.5.
CapturedV04 == serving = {} /\ \A w \in Client : installed[w] = "v04"

RollbackToV04 ==
    /\ Unoccupied /\ transition.phase \in {"AUTHORIZED_V05", "BOUND_V05", "BACKED_UP"}
    /\ dcsSchema = 9 /\ CapturedV04
    /\ \/ held.schema = 9 /\ HeldCurrent /\ Project("v04", "held")
       \/ w08.holder = "free" /\ Project("v04", "free")

\* _compensate_projection_entries begins, with the entries this call replaced.
Compensating(e) == [e EXCEPT !.op = "compensate", !.todo = e.wrote, !.fresh = FALSE]

\* Mutant: asserted before the first write only.
AssertOnce ==
    /\ effect.op = "project" /\ ~effect.fresh /\ effect.todo # {}
    /\ effect' = IF Guarded \/ effect.wrote # {}
                 THEN [effect EXCEPT !.fresh = TRUE] ELSE Compensating(effect)
    /\ UNCHANGED <<installed, projection, serving, dcsSchema, w08, transition, held>>

\* The assertion before and after each write; without it, compensation.
AssertWrite ==
    /\ effect.op = "project" /\ ~effect.fresh /\ effect.todo # {}
    /\ effect' = IF Guarded THEN [effect EXCEPT !.fresh = TRUE] ELSE Compensating(effect)
    /\ UNCHANGED <<installed, projection, serving, dcsSchema, w08, transition, held>>

\* An entry already at the target is passed over.
SkipWrite(w) ==
    /\ effect.op = "project" /\ w \in effect.todo /\ projection[w] = effect.target
    /\ effect' = [effect EXCEPT !.todo = @ \ {w}]
    /\ UNCHANGED <<installed, projection, serving, dcsSchema, w08, transition, held>>

Replace(w, v) == projection' = [projection EXCEPT ![w] = v]

\* Mutant: a write that fails after the replace is not counted as one.
WriteUnrecorded(w) ==
    /\ effect.op = "project" /\ effect.fresh
    /\ w \in effect.todo /\ projection[w] # effect.target
    /\ \/ Replace(w, effect.target) /\ effect' = [Given(effect) EXCEPT
             !.todo = @ \ {w}, !.wrote = @ \cup {w}]
       \/ Replace(w, effect.target) /\ effect' = Compensating(Given(effect))
       \/ UNCHANGED projection /\ effect' = Compensating(Given(effect))
    /\ UNCHANGED <<installed, serving, dcsSchema, w08, transition, held>>

\* _atomic_write_exact: done, failed after the replace, or failed before it.
Write(w) ==
    /\ effect.op = "project" /\ effect.fresh
    /\ w \in effect.todo /\ projection[w] # effect.target
    /\ \/ /\ Replace(w, effect.target)
          /\ LET done == [Given(effect) EXCEPT !.todo = @ \ {w}, !.wrote = @ \cup {w}]
             IN effect' = done \/ effect' = Compensating(done)
       \/ UNCHANGED projection /\ effect' = Compensating(Given(effect))
    /\ UNCHANGED <<installed, serving, dcsSchema, w08, transition, held>>

\* Back at v0.4, the inventory is discovered and the restart begins.
ProjectEnds ==
    /\ effect.op = "project" /\ effect.todo = {}
    /\ \/ /\ effect.target = "v05"
          /\ Phase("AUTHORIZED_V05") /\ effect' = NoEffect
       \/ /\ effect.target = "v04"
          /\ effect' = IF Quiesced("v04") /\ Guarded
                       THEN [effect EXCEPT !.op = "resume", !.fresh = FALSE,
                                           !.todo = transition.before]
                       ELSE Compensating(effect)
          /\ UNCHANGED transition
    /\ UNCHANGED <<installed, projection, serving, dcsSchema, w08, held>>

Concludes(outcome) ==
    transition' = [transition EXCEPT !.outcome = outcome] /\ effect' = NoEffect

\* Forbidden without a guard, and once the guard no longer holds.
AssertUndo ==
    /\ effect.op = "compensate" /\ ~effect.fresh /\ effect.todo # {}
    /\ IF effect.guard # "none" /\ Guarded
       THEN effect' = [effect EXCEPT !.fresh = TRUE] /\ UNCHANGED transition
       ELSE Concludes("recovery")
    /\ UNCHANGED <<installed, projection, serving, dcsSchema, w08, held>>

Undo(w) ==
    /\ effect.op = "compensate" /\ effect.fresh /\ w \in effect.todo
    /\ \/ /\ Replace(w, effect.entry[w])
          /\ effect' = [Given(effect) EXCEPT !.todo = @ \ {w}]
          /\ UNCHANGED transition
       \/ (Replace(w, effect.entry[w]) \/ UNCHANGED projection) /\ Concludes("recovery")
    /\ UNCHANGED <<installed, serving, dcsSchema, w08, held>>

CompensationEnds ==
    /\ effect.op = "compensate" /\ effect.todo = {}
    /\ Concludes("restored")
    /\ UNCHANGED <<installed, projection, serving, dcsSchema, w08, held>>

(***************************************************************************)
(* resume_fenced: the writers served before are started one by one under   *)
(* the guard, then all are observed again.  A failure leaves what was      *)
(* started; a rollback keeps its phase, a restore must be reconciled.      *)
(***************************************************************************)
ResumeFails ==
    /\ effect.op = "resume"
    /\ IF effect.target = "v04" THEN transition' = [transition EXCEPT !.outcome = "recovery"]
       ELSE Phase("RECONCILIATION_REQUIRED")
    /\ effect' = NoEffect
    /\ UNCHANGED <<installed, projection, serving, dcsSchema, w08, held>>

AssertStart ==
    /\ effect.op = "resume" /\ ~effect.fresh /\ effect.todo # {} /\ Guarded
    /\ effect' = [effect EXCEPT !.fresh = TRUE]
    /\ UNCHANGED <<installed, projection, serving, dcsSchema, w08, transition, held>>

StartWriter(w) ==
    /\ effect.op = "resume" /\ effect.fresh /\ w \in effect.todo
    /\ serving' = serving \cup {w}
    /\ effect' = [Given(effect) EXCEPT !.todo = @ \ {w}]
    /\ UNCHANGED <<installed, projection, dcsSchema, w08, transition, held>>

\* _mark_writer_restore_proven.
Proven(schema) == held' = [held EXCEPT !.proof = schema]

ResumeEnds ==
    /\ effect.op = "resume" /\ effect.todo = {} /\ Guarded
    /\ Restored(effect.target)
    /\ effect' = NoEffect
    /\ IF effect.target = "v04"
       THEN /\ Phase("ROLLED_BACK_V04_SCHEMA9")
            /\ IF effect.guard = "held" THEN Proven(9) ELSE UNCHANGED held
       ELSE Phase("RESTORED_SCHEMA10") /\ Proven(10)
    /\ UNCHANGED <<installed, projection, serving, dcsSchema, w08>>

(***************************************************************************)
(* The installed v0.5 is bound, the schema 9 database backed up, and the   *)
(* lease acquired in two steps: the row and the bytes of the backed-up     *)
(* file are looked at, then the lease is asked for.  The main file does    *)
(* not show a commit that is still in the write-ahead log, so a comparison *)
(* of its bytes does not tell what was committed between: it is left out.  *)
(***************************************************************************)
BindInstalledV05 ==
    /\ Unoccupied /\ transition.phase \in {"AUTHORIZED_V05", "BOUND_V05"} /\ Quiesced("v05")
    /\ Phase("BOUND_V05")
    /\ UNCHANGED <<installed, projection, serving, dcsSchema, w08, held, effect>>

CreateSchema9Backup ==
    /\ Unoccupied /\ transition.phase = "BOUND_V05" /\ Quiesced("v05")
    /\ dcsSchema = 9 /\ w08.holder = "free"
    /\ transition' = [transition EXCEPT !.phase = "BACKED_UP", !.backup = TRUE]
    /\ UNCHANGED <<installed, projection, serving, dcsSchema, w08, held, effect>>

AcquireSchema9W08 ==
    /\ Unoccupied /\ transition.backup /\ dcsSchema = 9 /\ w08.holder = "free"
    /\ effect' = [NoEffect EXCEPT !.op = "acquire"]
    /\ UNCHANGED <<installed, projection, serving, dcsSchema, w08, transition, held>>

\* An expired lease is taken over, but the event is then not an ACQUIRE and
\* no object is made of it.
LeaseGranted ==
    /\ effect.op = "acquire" /\ (w08.holder = "free" \/ ~w08.live) /\ dcsSchema = 9
    /\ w08.event < MaxEvent
    /\ w08' = [holder |-> "own", live |-> TRUE, event |-> w08.event + 1]
    /\ held' = IF w08.holder = "free"
               THEN [NoHeld EXCEPT !.state = "open", !.event = w08.event + 1] ELSE held
    /\ effect' = NoEffect
    /\ UNCHANGED <<installed, projection, serving, dcsSchema, transition>>

LeaseRefused ==
    /\ effect.op = "acquire" /\ effect' = NoEffect
    /\ UNCHANGED <<installed, projection, serving, dcsSchema, w08, transition, held>>

(***************************************************************************)
(* apply_exact_migration10.  After the checks the transaction commits or   *)
(* rolls back, and the connection may fail either way; when neither schema *)
(* can be inspected, the object is closed knowing nothing.  If it commits  *)
(* and only the inspection after it fails, the object notices nothing.     *)
(***************************************************************************)
\* Mutant: the phase is trusted, the writers are not looked at again.
MigrateOnPhase ==
    /\ Unoccupied /\ transition.phase = "BACKED_UP" /\ dcsSchema = 9 /\ held.schema = 9 /\ HeldCurrent
    /\ effect' = [NoEffect EXCEPT !.op = "migrate", !.guard = "held"]
    /\ UNCHANGED <<installed, projection, serving, dcsSchema, w08, transition, held>>

ApplyExactMigration10 ==
    /\ Unoccupied /\ transition.phase = "BACKED_UP" /\ dcsSchema = 9 /\ held.schema = 9 /\ HeldCurrent
    /\ Quiesced("v05")
    /\ effect' = [NoEffect EXCEPT !.op = "migrate", !.guard = "held"]
    /\ UNCHANGED <<installed, projection, serving, dcsSchema, w08, transition, held>>

Migrated ==
    /\ effect.op = "migrate"
    /\ dcsSchema' = 10 /\ effect' = NoEffect
    /\ \/ held' = [held EXCEPT !.state = "closed", !.schema = 10] /\ Phase("MIGRATED_SCHEMA10")
       \/ held' = [held EXCEPT !.state = "closed"] /\ Concludes("recovery")
       \/ UNCHANGED <<held, transition>>
    /\ UNCHANGED <<installed, projection, serving, w08>>

NotMigrated ==
    /\ effect.op = "migrate"
    /\ effect' = NoEffect
    /\ held' \in {held, [held EXCEPT !.state = "closed"]}
    /\ UNCHANGED <<installed, projection, serving, dcsSchema, w08, transition>>

\* rebind_schema10 opens the schema 10 database; the flag follows the lease.
RebindSchema10 ==
    /\ Unoccupied /\ held.schema = 10 /\ held.state \in {"open", "closed"}
    /\ held' = [held EXCEPT !.state = "open", !.rebound = @ \/ LeaseIntact]
    /\ UNCHANGED <<installed, projection, serving, dcsSchema, w08, transition, effect>>

RestoreSchema10 ==
    /\ Unoccupied /\ held.schema = 10 /\ HeldCurrent
    /\ transition.phase \in {"MIGRATED_SCHEMA10", "RECONCILIATION_REQUIRED"}
    /\ IF transition.phase = "RECONCILIATION_REQUIRED" /\ Restored("v05")
       THEN Phase("RESTORED_SCHEMA10") /\ Proven(10) /\ UNCHANGED effect
       ELSE /\ transition.phase = "RECONCILIATION_REQUIRED" => Quiesced("v05")
            /\ Phase("MIGRATED_SCHEMA10") /\ UNCHANGED held
            /\ effect' = [NoEffect EXCEPT !.op = "resume", !.guard = "held",
                                          !.target = "v05", !.todo = transition.before]
    /\ UNCHANGED <<installed, projection, serving, dcsSchema, w08>>

\* Mutant: released without the proof that the writers serve again.
ReleaseUnproven(schema) ==
    /\ Unoccupied /\ (schema = 10 => held.rebound) /\ dcsSchema = schema /\ HeldCurrent
    /\ w08.event < MaxEvent
    /\ w08' = [holder |-> "free", live |-> FALSE, event |-> w08.event + 1]
    /\ held' = [held EXCEPT !.state = "released"]
    /\ UNCHANGED <<installed, projection, serving, dcsSchema, transition, effect>>

ReleaseW08(schema) ==
    /\ Unoccupied /\ held.proof = schema /\ (schema = 10 => held.rebound)
    /\ dcsSchema = schema /\ HeldCurrent
    /\ w08.event < MaxEvent
    /\ w08' = [holder |-> "free", live |-> FALSE, event |-> w08.event + 1]
    /\ held' = [held EXCEPT !.state = "released"]
    /\ UNCHANGED <<installed, projection, serving, dcsSchema, transition, effect>>

(***************************************************************************)
(* The environment: the operator installs a client under a writer that is  *)
(* down, between two calls and only at schema 9; another deployment takes  *)
(* and leaves the lease; the lease expires; the process dies.              *)
(***************************************************************************)
Install(w, v) ==
    /\ Unoccupied /\ dcsSchema = 9 /\ w \notin serving /\ installed[w] # v
    /\ installed' = [installed EXCEPT ![w] = v]
    /\ UNCHANGED <<projection, serving, dcsSchema, w08, transition, held, effect>>

OtherLease ==
    /\ w08.event < MaxEvent
    /\ \/ /\ w08.holder = "free" \/ ~w08.live
          /\ w08' = [holder |-> "other", live |-> TRUE, event |-> w08.event + 1]
       \/ /\ w08.holder = "other" /\ w08.live
          /\ w08' = [holder |-> "free", live |-> FALSE, event |-> w08.event + 1]
    /\ UNCHANGED <<installed, projection, serving, dcsSchema, transition, held, effect>>

ExpireW08 ==
    /\ w08.live /\ w08' = [w08 EXCEPT !.live = FALSE]
    /\ UNCHANGED <<installed, projection, serving, dcsSchema, transition, held, effect>>

\* The lease of the lost process is that of an attempt nobody knows.
Restart ==
    /\ transition' = NewTransition /\ held' = NoHeld /\ effect' = NoEffect
    /\ w08' = [w08 EXCEPT !.holder = IF @ = "own" THEN "other" ELSE @]
    /\ UNCHANGED <<installed, projection, serving, dcsSchema>>

TransitionNext ==
    \/ Quiesce \/ QuiesceFails \/ QuiesceEnds
    \/ ApplyV05Projection \/ RollbackToV04 \/ AssertWrite \/ ProjectEnds
    \/ AssertUndo \/ CompensationEnds
    \/ AssertStart \/ ResumeFails \/ ResumeEnds
    \/ BindInstalledV05 \/ CreateSchema9Backup
    \/ AcquireSchema9W08 \/ LeaseGranted \/ LeaseRefused
    \/ ApplyExactMigration10 \/ Migrated \/ NotMigrated
    \/ RebindSchema10 \/ RestoreSchema10
    \/ \E schema \in {9, 10} : ReleaseW08(schema)
    \/ \E w \in Client :
          \/ TakeDown(w) \/ SkipWrite(w) \/ Write(w) \/ Undo(w) \/ StartWriter(w)
          \/ \E v \in Versions : Install(w, v)
    \/ OtherLease \/ ExpireW08 \/ Restart

TransitionSpec == TransitionInit /\ [][TransitionNext]_transitionVars
-----------------------------------------------------------------------------
\* A writer serves the schema 10 database with the v0.5 client only, and under
\* an identity file that says so: neither a rollback that stopped half way, nor
\* a v0.4 client installed again, nor a new process gets a v0.4 writer past the
\* migration (production_schema10_operational.py:4433).
NewSchemaNewClient ==
    dcsSchema = 10 => \A w \in serving : installed[w] = "v05" /\ projection[w] = "v05"

\* The lease is given back only when every writer taken down for the move
\* serves again, with the client and the identity file of the schema in force
\* (production_schema10_operational.py:2345).
RestoresBeforeRelease ==
    w08.holder = "own" /\ w08'.holder = "free" =>
      /\ serving = transition.before
      /\ \A w \in serving : {installed[w], projection[w]} = {ClientOf(dcsSchema)}

ReleasedRestored == [][RestoresBeforeRelease]_transitionVars

\* A call that fails and says that it compensated leaves each identity file as
\* it found it, whatever step of whatever write failed
\* (production_schema10_operational.py:3863).
CompensatesExactly ==
    effect.op = "compensate" /\ effect'.op = "none" /\ transition'.outcome = "restored"
      => projection' = effect.entry

CompensationExact == [][CompensatesExactly]_transitionVars

\* A guarded call that has lost its authority changes at most one more file or
\* service: the next assertion stops it, the compensation included
\* (production_schema10_operational.py:4216).
OneLateEffect == effect.late <= 1
=============================================================================
