--------------------------- MODULE CleanerCutover ---------------------------
(***************************************************************************)
(* The cutover of the Cleaner writers from the legacy authority to         *)
(* PostgreSQL, and the operations that deal with a failed one.  Each is    *)
(* one controlled deployment:                                              *)
(*                                                                         *)
(*   execute  fences the writers, moves the epoch 1 -> 2 by a              *)
(*            compare-and-swap, stages the new service files and startup   *)
(*            identities, starts the new topology and reads it back;       *)
(*   prepare  stops after staging the files;                               *)
(*   recover  starts the new topology from a stopped epoch 2;              *)
(*   stop     fences the new topology at epoch 2;                          *)
(*   w07      stages and starts a newer build of W07 alone.                *)
(*                                                                         *)
(* Before the epoch moves a failure puts back the files and services as    *)
(* they were found; after it, the writers are left stopped and evidence is *)
(* raised.  The lease is asserted before every effect; an effect asserted  *)
(* before the lease was lost may still land after it.                      *)
(***************************************************************************)
EXTENDS Naturals, Sequences, DeploymentLease

CONSTANT MaxRuns  \* bound: operations that acquire the lease, one after another

CutoverRun == {"execute", "prepare", "recover", "stop", "w07"}

\* The gateway, which the new topology keeps; a writer it retires; the worker
\* that only it has.
CutoverWriter == {"W06", "W04", "W07"}
StopOrder == <<"W06", "W07", "W04">>
Staged == {"W06", "W07"}

VARIABLES
    acquisition,  \* the event by which each run acquired the lease
    released,     \* the runs that released it
    topology,     \* launchd's state of each writer
    plist,        \* the build its service file names
    ident,        \* the build its authorized identity names
    epoch,        \* CLEANER_SCHEDULING's authority epoch
    business,     \* PostgreSQL holds a business effect
    late,         \* an effect landed after its run had lost the lease
    cut           \* the local state of each run

cutoverFiles == <<plist, ident>>
cutoverVars == <<hold, acquisition, released, topology, cutoverFiles, epoch, business, late,
                 cut>>

\* on: enabled and loaded; disabled: but still loaded; enabled: but not loaded.
ServiceState == {"on", "disabled", "enabled", "off"}
Running == {"on", "disabled"}
Build == {"none", "legacy", "pg", "next"}

\* What a run found: the services, the files and the epoch.
Snapshot == [service : [CutoverWriter -> ServiceState], plist : [CutoverWriter -> Build],
             ident : [CutoverWriter -> Build], epoch : 0..2]

NoSnapshot == [service |-> [w \in CutoverWriter |-> "off"],
               plist |-> [w \in CutoverWriter |-> "none"],
               ident |-> [w \in CutoverWriter |-> "none"], epoch |-> 0]

CutoverStage ==
    {"idle", "guards", "snapshot", "fence", "epoch", "cas", "plists", "idents", "prepared",
     "start", "effective", "persist", "judge", "undoPlists", "undoIdents", "unlink",
     "undoStart", "reconcile", "stopW07", "disable", "done"}

\* The stage a run is in, the writers left to work on, whether the lease was
\* asserted for the next effect, and the epoch read.
CutoverLocal ==
    [pc : CutoverStage, todo : Seq(CutoverWriter), fresh : BOOLEAN, read : 0..2,
     snapshot : Snapshot]

FreshRun == [pc |-> "idle", todo |-> <<>>, fresh |-> FALSE, read |-> 0,
             snapshot |-> NoSnapshot]

CutoverInit ==
    /\ HoldInit
    /\ acquisition = [r \in CutoverRun |-> "none"] /\ released = {}
    /\ topology = [w \in CutoverWriter |-> IF w = "W07" THEN "off" ELSE "on"]
    /\ plist = [w \in CutoverWriter |-> IF w = "W07" THEN "none" ELSE "legacy"]
    /\ ident = plist
    /\ epoch = 1 /\ business = FALSE /\ late = FALSE
    /\ cut = [r \in CutoverRun |-> FreshRun]

CutoverTypeOK ==
    /\ hold \in [holder : CutoverRun \cup {Nobody}, token : Nat, live : BOOLEAN]
    /\ acquisition \in [CutoverRun -> {"none", "ACQUIRE", "EXPIRED_TAKEOVER"}]
    /\ released \subseteq CutoverRun
    /\ topology \in [CutoverWriter -> ServiceState]
    /\ plist \in [CutoverWriter -> Build] /\ ident \in [CutoverWriter -> Build]
    /\ epoch \in {1, 2} /\ business \in BOOLEAN /\ late \in BOOLEAN
    /\ cut \in [CutoverRun -> CutoverLocal]

(***************************************************************************)
(* The stages of each run: what follows a stage, and what its failure      *)
(* does.  In execute, a failure from the compare-and-swap on reads the     *)
(* epoch afresh; prepare reads the epoch outside its try, and is not       *)
(* protected once its effect returned; recover has no snapshot before its  *)
(* readback of the staged state.                                           *)
(***************************************************************************)
Then(next, failed) == [next |-> next, failed |-> failed]

Execute ==
    [snapshot |-> Then("fence", "done"), fence |-> Then("epoch", "undoPlists"),
     epoch |-> Then("cas", "undoPlists"), cas |-> Then("plists", "judge"),
     plists |-> Then("idents", "judge"), idents |-> Then("prepared", "judge"),
     prepared |-> Then("start", "judge"), start |-> Then("effective", "judge"),
     effective |-> Then("persist", "judge"), persist |-> Then("done", "reconcile")]

PrepareOnly ==
    [snapshot |-> Then("fence", "done"), fence |-> Then("epoch", "undoPlists"),
     epoch |-> Then("cas", "done"), cas |-> Then("plists", "undoPlists"),
     plists |-> Then("prepared", "undoPlists"), prepared |-> Then("persist", "done"),
     persist |-> Then("done", "done")]

Recover ==
    [guards |-> Then("disable", "done"), disable |-> Then("prepared", "done"),
     prepared |-> Then("start", "done"), start |-> Then("effective", "reconcile"),
     effective |-> Then("persist", "reconcile"), persist |-> Then("done", "reconcile")]

StopAll ==
    [guards |-> Then("fence", "done"), fence |-> Then("effective", "done"),
     effective |-> Then("persist", "done"), persist |-> Then("done", "done")]

W07Only ==
    [guards |-> Then("plists", "done"), plists |-> Then("idents", "stopW07"),
     idents |-> Then("prepared", "stopW07"), prepared |-> Then("start", "stopW07"),
     start |-> Then("effective", "stopW07"), effective |-> Then("persist", "stopW07"),
     persist |-> Then("done", "stopW07")]

\* restore_pre_cutover: files, identities, the new W07 file, then the services.
Undoing ==
    [undoPlists |-> Then("undoIdents", "done"), undoIdents |-> Then("unlink", "done"),
     unlink |-> Then("undoStart", "done"), undoStart |-> Then("done", "done")]

\* A failed stop is not tried again.
Stopping == [reconcile |-> Then("done", "done"), stopW07 |-> Then("done", "done")]

Stages == [execute |-> Execute, prepare |-> PrepareOnly, recover |-> Recover,
           stop |-> StopAll, w07 |-> W07Only]

After(r, stage) ==
    CASE stage \in DOMAIN Undoing -> Undoing[stage]
      [] stage \in DOMAIN Stopping -> Stopping[stage]
      [] OTHER -> Stages[r][stage]

(***************************************************************************)
(* The writers a stage works on, in order.                                 *)
(***************************************************************************)
Only(w, set) == IF w \in set THEN <<w>> ELSE <<>>
Of(set) == Only("W06", set) \o Only("W04", set) \o Only("W07", set)

Works(r, stage, snapshot) ==
    CASE stage \in {"fence", "reconcile"} /\ (r = "stop" \/ stage = "reconcile") -> StopOrder
      [] stage = "fence" /\ r # "stop" -> Of({w \in CutoverWriter : snapshot.plist[w] # "none"})
      [] stage \in {"plists", "idents", "start"} -> Of(IF r = "w07" THEN {"W07"} ELSE Staged)
      [] stage = "undoPlists" -> Of({w \in CutoverWriter : snapshot.plist[w] # "none"})
      [] stage = "undoIdents" -> Of(Staged)
      [] stage = "unlink" -> Of({w \in {"W07"} : snapshot.plist[w] = "none"})
      [] stage = "undoStart" -> Of({w \in CutoverWriter : snapshot.service[w] = "on"})
      [] stage \in {"disable", "stopW07"} -> <<"W07">>
      [] OTHER -> <<>>

EnterStage(local, r, stage) ==
    [local EXCEPT !.pc = stage, !.fresh = FALSE, !.todo = Works(r, stage, local.snapshot)]

\* The run returns or raises; leaving the lease's context releases it.
Over(r) ==
    /\ cut' = [cut EXCEPT ![r] = [FreshRun EXCEPT !.pc = "done"]]
    /\ hold' = Left(r)
    /\ released' = IF Holds(r) THEN released \cup {r} ELSE released

Continue(r, stage) ==
    /\ cut' = [cut EXCEPT ![r] = EnterStage(@, r, stage)]
    /\ UNCHANGED <<hold, released>>

\* The run goes on to a stage, or is over.
GoTo(r, stage) == IF stage = "done" THEN Over(r) ELSE Continue(r, stage)

FailsFrom(r, stage) == GoTo(r, After(r, stage).failed)

\* Any stage may fail: a lost lease, a command, a file, a readback.
StageFails(r) ==
    /\ cut[r].pc \notin {"idle", "done", "judge"}
    /\ FailsFrom(r, cut[r].pc)
    /\ UNCHANGED <<acquisition, topology, cutoverFiles, epoch, business, late>>

(***************************************************************************)
(* Stages that only read.                                                  *)
(***************************************************************************)
\* run_controlled_deployment acquires the lease once per deployment id.
AcquireCutover(r) ==
    /\ cut[r].pc = "idle" /\ hold.token < MaxRuns
    /\ acquisition' = [acquisition EXCEPT ![r] =
         IF hold.holder = Nobody THEN "ACQUIRE" ELSE "EXPIRED_TAKEOVER"]
    /\ Grant(r)
    /\ cut' = [cut EXCEPT ![r].pc = IF r \in {"execute", "prepare"} THEN "snapshot" ELSE "guards"]
    /\ UNCHANGED <<released, topology, cutoverFiles, epoch, business, late>>

\* Discovery rejects a half-stopped service.
Discovered == \A w \in CutoverWriter : topology[w] \in {"on", "off"}
Stopped(w) == topology[w] = "off"

TakeSnapshot(r) ==
    /\ cut[r].pc = "snapshot" /\ Discovered
    /\ LET snapshot == [service |-> topology, plist |-> plist, ident |-> ident, epoch |-> epoch]
       IN cut' = [cut EXCEPT ![r] = EnterStage([@ EXCEPT !.snapshot = snapshot], r, "fence")]
    /\ UNCHANGED <<hold, acquisition, released, topology, cutoverFiles, epoch, business, late>>

\* The failed cutover acquired and released; the epoch moved; nothing was done yet.
Guards ==
    /\ acquisition["execute"] = "ACQUIRE" /\ "execute" \in released
    /\ epoch = 2 /\ ~business

\* The files and identities that the quiescence of epoch 2 binds.
Bound(w) == plist[w] = ident[w] /\ plist[w] = IF w \in Staged THEN "pg" ELSE "legacy"

CheckGuards(r) ==
    /\ cut[r].pc = "guards" /\ Guards
    /\ CASE r = "stop" -> Holds(r) /\ \A w \in CutoverWriter : Bound(w)
         [] r = "w07" -> /\ Holds(r) /\ Discovered /\ Bound("W07")
                         /\ \A w \in CutoverWriter : Stopped(w)
         [] r = "recover" -> TRUE
    /\ GoTo(r, After(r, "guards").next)
    /\ UNCHANGED <<acquisition, topology, cutoverFiles, epoch, business, late>>

\* CleanerEpochTransition: the approved target is the successor of what is read.
ReadEpoch(r) ==
    /\ cut[r].pc = "epoch"
    /\ \/ /\ epoch = 1
          /\ cut' = [cut EXCEPT ![r] = EnterStage([@ EXCEPT !.read = epoch], r, "cas")]
          /\ UNCHANGED <<hold, released>>
       \/ epoch = 2 /\ Continue(r, "undoPlists")
    /\ UNCHANGED <<acquisition, topology, cutoverFiles, epoch, business, late>>

\* The new build of what a run stages.
TargetBuild(r) == IF r = "w07" THEN "next" ELSE "pg"

\* readback_prepared, and the activation's own checks of the identities.
Prepared(r) ==
    /\ \A w \in CutoverWriter : Stopped(w)
    /\ \A w \in IF r = "w07" THEN {"W07"} ELSE Staged :
         plist[w] = TargetBuild(r) /\ (r # "prepare" => ident[w] = TargetBuild(r))

\* readback_effective, with the guards once more in the recoveries.
Effective(r) ==
    /\ Discovered
    /\ \A w \in CutoverWriter : topology[w] = "on" <=>
         w \in CASE r = "stop" -> {} [] r = "w07" -> {"W07"} [] OTHER -> Staged
    /\ r \in {"stop", "w07"} => Guards /\ Holds(r)
    /\ epoch = 2 /\ (r = "recover" => ~business)

ReadBackStage(r) ==
    /\ \/ cut[r].pc = "prepared" /\ Prepared(r)
       \/ cut[r].pc = "effective" /\ Effective(r)
    /\ GoTo(r, After(r, cut[r].pc).next)
    /\ UNCHANGED <<acquisition, topology, cutoverFiles, epoch, business, late>>

\* The runner's own checks raise past the handlers once the effect returned.
PersistResult(r) ==
    /\ cut[r].pc = "persist"
    /\ Over(r)
    /\ UNCHANGED <<acquisition, topology, cutoverFiles, epoch, business, late>>

\* Mutant: what the call knows decides, not the epoch.
JudgeByReturn(r) == cut[r].read = 1

\* A compare-and-swap may apply and lose its answer.
Unchanged(r) == epoch = cut[r].read

\* The epoch may be unreadable too: then it is not taken for unchanged.
Judge(r) ==
    /\ cut[r].pc = "judge"
    /\ \/ Continue(r, IF Unchanged(r) THEN "undoPlists" ELSE "reconcile")
       \/ Continue(r, "reconcile")
    /\ UNCHANGED <<acquisition, topology, cutoverFiles, epoch, business, late>>

(***************************************************************************)
(* Stages that have effects, each under a fresh assertion of the lease.    *)
(***************************************************************************)
Effects == {"fence", "cas", "plists", "idents", "start", "undoPlists", "undoIdents",
            "unlink", "undoStart", "disable", "reconcile", "stopW07"}

Revalidate(r) ==
    /\ cut[r].pc \in Effects /\ ~cut[r].fresh /\ Holds(r)
    /\ cut[r].pc = "cas" \/ cut[r].todo # <<>>
    /\ cut' = [cut EXCEPT ![r].fresh = TRUE]
    /\ UNCHANGED <<hold, acquisition, released, topology, cutoverFiles, epoch, business, late>>

Lands(r) ==
    /\ cut[r].fresh
    /\ late' = (late \/ ~Holds(r))

Worked(r) == cut' = [cut EXCEPT ![r].fresh = FALSE, ![r].todo = Tail(@)]

\* advance: read, then UPDATE ... WHERE current_epoch = the one read.
AdvanceEpoch(r) ==
    /\ cut[r].pc = "cas" /\ Lands(r)
    /\ epoch = cut[r].read
    /\ epoch' = 2
    /\ \/ Continue(r, "plists")
       \/ FailsFrom(r, "cas")
    /\ UNCHANGED <<acquisition, topology, cutoverFiles, business>>

\* _fence_one: disable, then bootout.
FenceOne(r) ==
    LET w == Head(cut[r].todo) IN
    /\ Lands(r)
    /\ topology' = [topology EXCEPT ![w] = IF @ = "on" THEN "disabled" ELSE "off"]
    /\ IF topology[w] = "on"
       THEN cut' = [cut EXCEPT ![r].fresh = FALSE]
       ELSE Worked(r)
    /\ UNCHANGED <<hold, acquisition, released, cutoverFiles, epoch, business>>

FenceWriter(r) == cut[r].pc = "fence" /\ cut[r].todo # <<>> /\ FenceOne(r)

\* quiesce_after_failed_activation stops only what its files still define.
ReconcileWriter(r) ==
    /\ cut[r].pc = "reconcile" /\ cut[r].todo # <<>> /\ Bound(Head(cut[r].todo))
    /\ FenceOne(r)

StopW07(r) == cut[r].pc = "stopW07" /\ cut[r].todo # <<>> /\ FenceOne(r)

\* The recovery disables W07, and only then looks whether everything is stopped.
DisableW07(r) ==
    /\ cut[r].pc = "disable" /\ cut[r].todo # <<>> /\ plist["W07"] # "none"
    /\ Lands(r)
    /\ topology' = [topology EXCEPT !["W07"] =
         CASE @ = "on" -> "disabled" [] @ = "enabled" -> "off" [] OTHER -> @]
    /\ Worked(r)
    /\ UNCHANGED <<hold, acquisition, released, cutoverFiles, epoch, business>>

\* materialize_postgres_runtime, or the W07 file alone; an unmanaged W07 file is refused.
StageFile(r) ==
    LET w == Head(cut[r].todo) IN
    /\ cut[r].pc = "plists" /\ cut[r].todo # <<>> /\ Lands(r)
    /\ r # "w07" /\ cut[r].snapshot.plist[w] = "none" => plist[w] = "none"
    /\ plist' = [plist EXCEPT ![w] = TargetBuild(r)]
    /\ Worked(r)
    /\ UNCHANGED <<hold, acquisition, released, topology, ident, epoch, business>>

\* materialize_w07_authorized_identity: the identities of every staged writer.
StageIdentity(r) ==
    LET w == Head(cut[r].todo) IN
    /\ cut[r].pc = "idents" /\ cut[r].todo # <<>> /\ Lands(r)
    /\ ident' = [ident EXCEPT ![w] = TargetBuild(r)]
    /\ Worked(r)
    /\ UNCHANGED <<hold, acquisition, released, topology, plist, epoch, business>>

\* The snapshot's bytes; an identity or a W07 file that was not there is removed.
PutBack(r) ==
    LET w == Head(cut[r].todo) IN
    /\ cut[r].pc \in {"undoPlists", "undoIdents", "unlink"} /\ cut[r].todo # <<>>
    /\ Lands(r)
    /\ IF cut[r].pc = "undoIdents"
       THEN ident' = [ident EXCEPT ![w] = cut[r].snapshot.ident[w]] /\ UNCHANGED plist
       ELSE plist' = [plist EXCEPT ![w] = cut[r].snapshot.plist[w]] /\ UNCHANGED ident
    /\ Worked(r)
    /\ UNCHANGED <<hold, acquisition, released, topology, epoch, business>>

\* resume_fenced: enable, bootstrap; it may stop between, and does where the
\* service is still loaded, which is then on again.
StartCleaner(r) ==
    LET w == Head(cut[r].todo) IN
    /\ cut[r].pc \in {"start", "undoStart"} /\ cut[r].todo # <<>>
    /\ Lands(r)
    /\ \/ /\ topology[w] # "disabled"
          /\ topology' = [topology EXCEPT ![w] = "on"] /\ Worked(r) /\ UNCHANGED <<hold, released>>
       \/ /\ topology' = [topology EXCEPT ![w] = IF @ \in Running THEN "on" ELSE "enabled"]
          /\ FailsFrom(r, cut[r].pc)
    /\ UNCHANGED <<acquisition, cutoverFiles, epoch, business>>

\* The stage's writers are done.
StageEnds(r) ==
    /\ cut[r].pc \in Effects \ {"cas"} /\ cut[r].todo = <<>>
    /\ GoTo(r, After(r, cut[r].pc).next)
    /\ UNCHANGED <<acquisition, topology, cutoverFiles, epoch, business, late>>

(***************************************************************************)
(* The environment.                                                        *)
(***************************************************************************)
CrashRun(r) ==
    /\ cut[r].pc \notin {"idle", "done"}
    /\ cut' = [cut EXCEPT ![r] = [FreshRun EXCEPT !.pc = "done"]]
    /\ UNCHANGED <<hold, acquisition, released, topology, cutoverFiles, epoch, business, late>>

LoseHold ==
    /\ Expire
    /\ UNCHANGED <<acquisition, released, topology, cutoverFiles, epoch, business, late, cut>>

\* A writer that runs on PostgreSQL commits the first business effect.
CommitEffect ==
    /\ ~business /\ epoch = 2
    /\ \E w \in CutoverWriter : topology[w] \in Running /\ plist[w] \in {"pg", "next"}
    /\ business' = TRUE
    /\ UNCHANGED <<hold, acquisition, released, topology, cutoverFiles, epoch, late, cut>>

CutoverNext ==
    \/ \E r \in CutoverRun :
         \/ AcquireCutover(r) \/ TakeSnapshot(r) \/ CheckGuards(r) \/ ReadEpoch(r)
         \/ ReadBackStage(r) \/ PersistResult(r) \/ Judge(r) \/ Revalidate(r)
         \/ AdvanceEpoch(r) \/ FenceWriter(r) \/ ReconcileWriter(r) \/ StopW07(r)
         \/ DisableW07(r) \/ StageFile(r) \/ StageIdentity(r)
         \/ PutBack(r) \/ StartCleaner(r) \/ StageEnds(r) \/ StageFails(r) \/ CrashRun(r)
    \/ LoseHold \/ CommitEffect

CutoverSpec == CutoverInit /\ [][CutoverNext]_cutoverVars

(***************************************************************************)
(* Whoever starts a writer, after whatever failures, crashes and lost      *)
(* answers, starts it for the authority in force: with one build in both   *)
(* its service file and its identity, and either the new one at epoch 2,   *)
(* or the one its own run found, while the epoch is still the one its run  *)
(* found.  prepare restores past its own compare-and-swap by design, and   *)
(* an effect that lands after its run lost the lease is out of its reach.  *)
(***************************************************************************)
StartsRight(w) ==
    LET r == hold.holder
        before == cut[r].snapshot
    IN
    /\ plist'[w] = ident'[w]
    /\ \/ plist'[w] \in {"pg", "next"} /\ epoch' = 2
       \/ plist'[w] = before.plist[w] /\ epoch' = before.epoch

StartsForEpoch ==
    \A w \in CutoverWriter :
      topology[w] \notin Running /\ topology'[w] \in Running /\ ~late' /\ hold.holder # "prepare"
        => StartsRight(w)

RuntimeFollowsEpoch == [][StartsForEpoch]_cutoverVars
=============================================================================
