---------------------------- MODULE DcsAdoption ----------------------------
(***************************************************************************)
(* The DCS schema adoption: _ProductionDcsV8AdoptionController.run and,    *)
(* inside it, ProductionMigrationOrchestrator.run.  A run takes the        *)
(* database from schema 6 or 7 to 8.  Each of the two migrations has its   *)
(* own GLOBAL_PRODUCTION lease, under which the writer services are taken  *)
(* down one launchctl command at a time, the schema is migrated and the    *)
(* services are brought back as they were.  The lease is asserted before   *)
(* every command; it may expire at any moment, and another run may then    *)
(* take it over.                                                           *)
(*                                                                         *)
(* `stage' is the schema version the current migration leads to: 7 is the  *)
(* orchestrator, 8 the controller itself.  Failing differs between them:   *)
(* the orchestrator never restarts a writer, the controller restores them  *)
(* when its quiescence returned a token and schema 8 is not yet committed. *)
(***************************************************************************)
EXTENDS Naturals, LaunchdWriters

CONSTANTS
    Run,       \* invocations of the adoption controller
    NoRun,
    NoWriter,
    Found,     \* the inventories an adoption may start from
    FirstSchema,  \* the schema versions it may start from
    MaxToken   \* bound: leases granted

ASSUME AdoptionAssumption ==
    /\ NoRun \notin Run /\ NoWriter \notin Writer
    /\ Found \subseteq [Writer -> {"A", "B", "C"}]
    /\ FirstSchema \subseteq 6..8
    /\ MaxToken \in Nat

VARIABLES
    schema,  \* the version of the DCS database
    fence,   \* the GLOBAL_PRODUCTION lease: holder, token, live
    run      \* the local state of each invocation

adoptionVars == <<service, schema, fence, run>>

Outcomes == {"NONE", "ADOPTED", "ALREADY", "NOT_REQUIRED",
             "FRESH_AUTHORITY", "RECOVERY_REQUIRED"}

AdoptionTypeOK ==
    /\ service \in ServiceStates
    /\ schema \in 6..8
    /\ fence \in [holder : Run \cup {NoRun}, token : 0..MaxToken, live : BOOLEAN]
    /\ run \in [Run -> [
         pc : {"idle", "confirm", "acquire", "inspect", "off", "migrate", "rebind",
               "on", "release", "readback", "done"},
         stage : {7, 8},
         initial : [Writer -> Classes],  \* the inventory first discovered
         before : [Writer -> Classes],   \* the inventory that was quiesced
         todo : SUBSET Writer,
         at : Writer \cup {NoWriter},    \* the service between two commands
         next : {"disable", "bootout", "enable", "bootstrap", "kickstart"},
         fresh : BOOLEAN,                \* asserted since the last command
         touched : {"none", "disabled", "booted"},
         undo : BOOLEAN,                 \* restoring before the commit
         token : 0..MaxToken,
         status : Outcomes,
         outcome : Outcomes,
         late : Nat]]                    \* commands given without the lease

NoInventory == [w \in Writer |-> "C"]

IdleRun == [pc |-> "idle", stage |-> 7, initial |-> NoInventory, before |-> NoInventory,
         todo |-> {}, at |-> NoWriter, next |-> "disable", fresh |-> FALSE,
         touched |-> "none", undo |-> FALSE, token |-> 0,
         status |-> "NONE", outcome |-> "NONE", late |-> 0]

AdoptionInit ==
    /\ \E class \in Found : service = [w \in Writer |-> InClass(class[w])]
    /\ schema \in FirstSchema
    /\ fence = [holder |-> NoRun, token |-> 0, live |-> FALSE]
    /\ run = [r \in Run |-> IdleRun]

\* assert_current and the event guard: held, not expired, no later event.
HoldsFence(r) == fence.holder = r /\ fence.live /\ fence.token = run[r].token

Targets(inventory) == {w \in Writer : inventory[w] \in {"A", "B"}}

\* B before A when taking down, A before B when bringing back.
FirstOff(r) ==
    IF \E w \in run[r].todo : run[r].before[w] = "B"
    THEN {w \in run[r].todo : run[r].before[w] = "B"} ELSE run[r].todo

FirstOn(r) ==
    IF \E w \in run[r].todo : run[r].before[w] = "A"
    THEN {w \in run[r].todo : run[r].before[w] = "A"} ELSE run[r].todo

Goto(r, pc) == run' = [run EXCEPT ![r].pc = pc]

Concluded(local, outcome) == [IdleRun EXCEPT !.pc = "done", !.outcome = outcome, !.late = local.late]

\* A launchctl command or a migration, given after the last assertion.
Acted(r, local) ==
    [local EXCEPT !.fresh = FALSE, !.late = IF HoldsFence(r) THEN @ ELSE @ + 1]

(***************************************************************************)
(* A step of run r raises.  The orchestrator releases a lease it still     *)
(* holds, and its error reaches the caller as a plain one: NOT_REQUIRED.   *)
(* The controller, schema 8 not committed, restores the writers if their   *)
(* quiescence had completed, else it only releases; a second failure, or   *)
(* a failure after the commit, is RECOVERY_REQUIRED and keeps the lease.   *)
(***************************************************************************)
Committed(r) ==
    /\ run[r].stage = 8 /\ ~run[r].undo
    /\ run[r].pc \in {"rebind", "on", "release", "readback"}

Freed == [fence EXCEPT !.holder = NoRun, !.live = FALSE]

Fails(r, status) ==
    \/ /\ run[r].stage = 7
       /\ run' = [run EXCEPT ![r] = Concluded(@, "NOT_REQUIRED")]
       /\ fence' = IF HoldsFence(r) THEN Freed ELSE fence
    \/ /\ run[r].stage = 8
       /\ \/ Committed(r) \/ run[r].undo
          \/ run[r].pc # "migrate" /\ ~HoldsFence(r)
       /\ run' = [run EXCEPT ![r] = Concluded(@, "RECOVERY_REQUIRED")]
       /\ UNCHANGED fence
    \/ /\ run[r].stage = 8 /\ run[r].pc = "migrate"
       /\ run' = [run EXCEPT ![r] = [@ EXCEPT
             !.pc = "on", !.undo = TRUE, !.fresh = FALSE, !.status = status,
             !.todo = Targets(run[r].before), !.at = NoWriter]]
       /\ UNCHANGED fence
    \/ /\ run[r].stage = 8 /\ run[r].pc \in {"inspect", "off"} /\ ~run[r].undo
       /\ HoldsFence(r)
       /\ run' = [run EXCEPT ![r] = [@ EXCEPT
             !.pc = "readback", !.undo = TRUE, !.fresh = FALSE, !.status = status]]
       /\ fence' = Freed

\* In quiesce_fenced, what was disabled but nothing booted out needs authority.
OffStatus(r, own) == IF run[r].touched = "disabled" THEN "FRESH_AUTHORITY" ELSE own

(***************************************************************************)
(* Preflight: the inventory is discovered, the schema read, the inventory  *)
(* discovered again.  Only the running or resting of a service and its     *)
(* process are compared, so one that was unloaded between goes unseen.     *)
(***************************************************************************)
Begin(r) ==
    /\ run[r].pc = "idle"
    /\ run' = [run EXCEPT ![r] =
          IF Discoverable THEN [@ EXCEPT !.pc = "confirm", !.initial = Inventory]
          ELSE Concluded(@, "NOT_REQUIRED")]
    /\ UNCHANGED <<service, schema, fence>>

SameActivity(r) ==
    Discoverable /\ \A w \in Writer : Active(w) <=> run[r].initial[w] = "A"

Confirm(r) ==
    /\ run[r].pc = "confirm"
    /\ run' = [run EXCEPT ![r] =
          IF ~SameActivity(r) \/ (schema = 8 /\ fence.holder # NoRun)
          THEN Concluded(@, "NOT_REQUIRED")
          ELSE IF schema = 8 THEN Concluded(@, "ALREADY")
          ELSE [@ EXCEPT !.pc = "acquire", !.stage = schema + 1]]
    /\ UNCHANGED <<service, schema, fence>>

\* The lease is granted when it is free or expired.  The orchestrator takes
\* the first inventory for the one to quiesce, the controller looks again.
AcquireFence(r) ==
    /\ run[r].pc = "acquire"
    /\ schema = run[r].stage - 1 /\ (fence.holder = NoRun \/ ~fence.live)
    /\ fence.token < MaxToken
    /\ fence' = [holder |-> r, token |-> fence.token + 1, live |-> TRUE]
    /\ run' = [run EXCEPT ![r] = [@ EXCEPT
          !.token = fence.token + 1, !.touched = "none", !.next = "disable",
          !.pc = IF run[r].stage = 8 THEN "inspect" ELSE "off",
          !.before = IF run[r].stage = 7 THEN run[r].initial ELSE run[r].before,
          !.todo = IF run[r].stage = 7 THEN Targets(run[r].initial) ELSE {}]]
    /\ UNCHANGED <<service, schema>>

NotGranted(r) ==
    /\ run[r].pc = "acquire"
    /\ schema # run[r].stage - 1 \/ (fence.holder # NoRun /\ fence.live)
    /\ run' = [run EXCEPT ![r] = Concluded(@, "NOT_REQUIRED")]
    /\ UNCHANGED <<service, schema, fence>>

Inspect(r) ==
    /\ run[r].pc = "inspect"
    /\ IF HoldsFence(r) /\ Discoverable
       THEN /\ run' = [run EXCEPT ![r] = [@ EXCEPT
                  !.pc = "off", !.before = Inventory, !.todo = Targets(Inventory)]]
            /\ UNCHANGED fence
       ELSE Fails(r, "NOT_REQUIRED")
    /\ UNCHANGED <<service, schema>>

(***************************************************************************)
(* quiesce_fenced: per target, disable and boot out, each asserted.        *)
(***************************************************************************)
AssertOff(r) ==
    /\ run[r].pc = "off" /\ ~run[r].fresh /\ run[r].todo # {}
    /\ IF HoldsFence(r) /\ (run[r].next = "bootout" => ~service[run[r].at].enabled)
       THEN /\ run' = [run EXCEPT ![r].fresh = TRUE]
            /\ UNCHANGED fence
       ELSE Fails(r, OffStatus(r, "RECOVERY_REQUIRED"))
    /\ UNCHANGED <<service, schema>>

Disable(r) ==
    /\ run[r].pc = "off" /\ run[r].fresh /\ run[r].next = "disable"
    /\ \E w \in FirstOff(r) :
          /\ DisableService(w)
          /\ run' = [run EXCEPT ![r] = [Acted(r, @) EXCEPT
                !.at = w, !.next = "bootout",
                !.touched = IF run[r].touched = "none" THEN "disabled" ELSE run[r].touched]]
    /\ UNCHANGED <<schema, fence>>

BootOut(r) ==
    /\ run[r].pc = "off" /\ run[r].fresh /\ run[r].next = "bootout"
    /\ BootOutService(run[r].at)
    /\ run' = [run EXCEPT ![r] = [Acted(r, @) EXCEPT
          !.todo = run[r].todo \ {run[r].at}, !.at = NoWriter, !.next = "disable",
          !.touched = "booted"]]
    /\ UNCHANGED <<schema, fence>>

\* launchctl, or the migration transaction, returns an error and did nothing.
CommandFails(r) ==
    /\ run[r].fresh
    /\ Fails(r, IF run[r].pc = "off" THEN OffStatus(r, "NOT_REQUIRED") ELSE "NOT_REQUIRED")
    /\ UNCHANGED <<service, schema>>

\* The stable proof: every target is off, and discovery finds no active writer.
Quiet(r) ==
    /\ \A w \in Targets(run[r].before) : Off(w)
    /\ Discoverable /\ \A w \in Writer : ~Active(w)

Stabilise(r) ==
    /\ run[r].pc = "off" /\ run[r].todo = {}
    /\ IF HoldsFence(r) /\ Quiet(r)
       THEN /\ run' = [run EXCEPT ![r] = [@ EXCEPT !.pc = "migrate", !.fresh = TRUE]]
            /\ UNCHANGED fence
       ELSE Fails(r, IF HoldsFence(r) THEN "NOT_REQUIRED" ELSE "RECOVERY_REQUIRED")
    /\ UNCHANGED <<service, schema>>

\* The transaction itself does not look at the lease.
Migrate(r) ==
    /\ run[r].pc = "migrate" /\ run[r].fresh /\ schema = run[r].stage - 1
    /\ schema' = run[r].stage
    /\ run' = [run EXCEPT ![r] = [Acted(r, @) EXCEPT !.pc = "rebind"]]
    /\ UNCHANGED <<service, fence>>

Rebind(r) ==
    /\ run[r].pc = "rebind"
    /\ IF HoldsFence(r)
       THEN /\ run' = [run EXCEPT ![r] = [@ EXCEPT
                  !.pc = "on", !.todo = Targets(run[r].before), !.at = NoWriter]]
            /\ UNCHANGED fence
       ELSE Fails(r, "RECOVERY_REQUIRED")
    /\ UNCHANGED <<service, schema>>

(***************************************************************************)
(* resume_fenced and verify_resumed: what already is as it was is skipped; *)
(* class A is enabled, bootstrapped and kickstarted, B not kickstarted.    *)
(***************************************************************************)
AssertOn(r) ==
    /\ run[r].pc = "on" /\ ~run[r].fresh /\ run[r].todo # {}
    /\ \/ /\ HoldsFence(r) /\ run[r].at # NoWriter
          /\ run' = [run EXCEPT ![r].fresh = TRUE]
          /\ UNCHANGED fence
       \/ /\ HoldsFence(r) /\ run[r].at = NoWriter
          /\ \E w \in FirstOn(r) :
                run' = [run EXCEPT ![r] =
                   IF Class(w) = run[r].before[w] THEN [@ EXCEPT !.todo = run[r].todo \ {w}]
                   ELSE [@ EXCEPT !.at = w, !.next = "enable", !.fresh = TRUE]]
          /\ UNCHANGED fence
       \/ ~HoldsFence(r) /\ Fails(r, "RECOVERY_REQUIRED")
    /\ UNCHANGED <<service, schema>>

\* Mutant: no assertion between enable and bootstrap.
EnableAndGoOn(r) ==
    /\ run[r].pc = "on" /\ run[r].fresh /\ run[r].next = "enable"
    /\ EnableService(run[r].at)
    /\ run' = [run EXCEPT ![r] = [Acted(r, @) EXCEPT !.next = "bootstrap", !.fresh = TRUE]]
    /\ UNCHANGED <<schema, fence>>

Enable(r) ==
    /\ run[r].pc = "on" /\ run[r].fresh /\ run[r].next = "enable"
    /\ EnableService(run[r].at)
    /\ run' = [run EXCEPT ![r] = [Acted(r, @) EXCEPT !.next = "bootstrap"]]
    /\ UNCHANGED <<schema, fence>>

Brought(r, local) == [local EXCEPT !.todo = local.todo \ {run[r].at}, !.at = NoWriter]

Bootstrap(r) ==
    /\ run[r].pc = "on" /\ run[r].fresh /\ run[r].next = "bootstrap"
    /\ BootstrapService(run[r].at)
    /\ run' = [run EXCEPT ![r] =
          IF run[r].before[run[r].at] = "A"
          THEN [Acted(r, @) EXCEPT !.next = "kickstart"]
          ELSE Brought(r, Acted(r, @))]
    /\ UNCHANGED <<schema, fence>>

Kickstart(r) ==
    /\ run[r].pc = "on" /\ run[r].fresh /\ run[r].next = "kickstart"
    /\ KickstartService(run[r].at)
    /\ run' = [run EXCEPT ![r] = Brought(r, Acted(r, @))]
    /\ UNCHANGED <<schema, fence>>

\* Mutant: only the classes under the lease, not the first active set.
AsQuiesced(r) == \A w \in Writer : Class(w) = run[r].before[w]

\* The classes are as they were, and at the end the active set is the first one.
AsBefore(r) ==
    /\ \A w \in Writer : Class(w) = run[r].before[w]
    /\ Committed(r) => \A w \in Writer : Active(w) <=> run[r].initial[w] = "A"

Settle(r) ==
    /\ run[r].pc = "on" /\ run[r].todo = {}
    /\ IF HoldsFence(r) /\ AsBefore(r)
       THEN Goto(r, "release") /\ UNCHANGED fence
       ELSE Fails(r, "RECOVERY_REQUIRED")
    /\ UNCHANGED <<service, schema>>

Release(r) ==
    /\ run[r].pc = "release"
    /\ IF HoldsFence(r) THEN Goto(r, "readback") /\ fence' = Freed
       ELSE Fails(r, "RECOVERY_REQUIRED")
    /\ UNCHANGED <<service, schema>>

\* The lease reads FREE under the run's own token; 6 to 7 goes on to 7 to 8.
Readback(r) ==
    /\ run[r].pc = "readback"
    /\ IF fence.holder = NoRun /\ fence.token = run[r].token
       THEN /\ run' = [run EXCEPT ![r] =
                  IF run[r].undo THEN Concluded(@, run[r].status)
                  ELSE IF run[r].stage = 7 THEN [@ EXCEPT !.pc = "acquire", !.stage = 8]
                  ELSE Concluded(@, "ADOPTED")]
            /\ UNCHANGED fence
       ELSE Fails(r, "RECOVERY_REQUIRED")
    /\ UNCHANGED <<service, schema>>

(***************************************************************************)
(* The lease expires, launchd goes on with its own work.  A run that was   *)
(* killed is one that takes no further step: nothing here forces one.      *)
(***************************************************************************)
FenceExpires ==
    /\ fence.live
    /\ fence' = [fence EXCEPT !.live = FALSE]
    /\ UNCHANGED <<service, schema, run>>

Launchd ==
    /\ \E w \in Writer : Fire(w) \/ Finish(w)
    /\ UNCHANGED <<schema, fence, run>>

AdoptionNext ==
    \/ \E r \in Run :
          \/ Begin(r) \/ Confirm(r) \/ AcquireFence(r) \/ NotGranted(r) \/ Inspect(r)
          \/ AssertOff(r) \/ Disable(r) \/ BootOut(r) \/ CommandFails(r)
          \/ Stabilise(r) \/ Migrate(r) \/ Rebind(r)
          \/ AssertOn(r) \/ Enable(r) \/ Bootstrap(r) \/ Kickstart(r)
          \/ Settle(r) \/ Release(r) \/ Readback(r)
    \/ FenceExpires \/ Launchd

AdoptionSpec == AdoptionInit /\ [][AdoptionNext]_adoptionVars
-----------------------------------------------------------------------------
\* The schema moves one version at a time, and only while launchd runs no
\* writer: neither a second run nor one that has lost its lease and still has
\* a command in hand can start a writer under the migration
\* (production_dcs_v8_adoption.py:3366).
MigratesQuietly ==
    schema' # schema =>
      schema' = schema + 1 /\ \A w \in Writer : ~Active(w)

QuietMigration == [][MigratesQuietly]_adoptionVars

\* A run that loses its lease gives at most one more command: every disable,
\* bootout, enable, bootstrap, kickstart and migration has its own assertion.
OneLateCommand == \A r \in Run : run[r].late <= 1

\* The process of a periodic writer comes and goes.
Same(w, class) ==
    Class(w) = class \/ (w \in Periodic /\ {Class(w), class} = {"A", "B"})

\* ADOPTED means that each service is again what the run quiesced, and that the
\* writers running are those the run found running at its very start, whatever
\* failed, expired and was retried between, unless another run acted without
\* its lease.
RestoresWriters ==
    \A r \in Run :
      /\ run[r].outcome = "NONE" /\ run'[r].outcome = "ADOPTED"
      /\ \A o \in Run : run[o].late = 0
      => \A w \in Writer :
           /\ Same(w, run[r].before[w])
           /\ run[r].initial[w] = "A" => Same(w, "A")

AdoptedRestores == [][RestoresWriters]_adoptionVars

\* A failed migration to schema 7 leaves every writer the run found loaded
\* loaded and enabled (test_v7_migration_failure_is_atomic_and_writers_restored).
\* Stated of a run that had the services to itself and never lost its lease.
FailedMigrationRestores ==
    [][\A r \in Run :
         /\ run[r].pc = "migrate" /\ run[r].stage = 7 /\ run'[r].pc = "done"
         /\ HoldsFence(r) /\ \A o \in Run : run[o].late = 0 /\ (o # r => run[o].pc = "idle")
         => \A w \in Writer : run[r].initial[w] # "C" =>
              service[w].enabled /\ service[w].loaded]_adoptionVars
=============================================================================
