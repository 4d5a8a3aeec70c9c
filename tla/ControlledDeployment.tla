------------------------ MODULE ControlledDeployment ------------------------
(***************************************************************************)
(* run_controlled_deployment (W08): runners that execute the irreversible  *)
(* steps of a deployment under one GlobalProductionControlLease, each with *)
(* a heartbeat thread of its own, on the shared lease row.                 *)
(*                                                                         *)
(* A runner is one call of run_controlled_deployment: its attempt id is    *)
(* fresh (uuid4), so its owner id and its two operation keys are its own.  *)
(* Between any two of its reads, transactions and effects the other        *)
(* threads run, time passes, an operator revokes the lease, the source     *)
(* authority drifts, or the runner's process dies.                         *)
(***************************************************************************)
EXTENDS Naturals

CONSTANTS
  Owner, NoOwner, TTL, MaxTime,   \* see WriterLeaseStore
  Calls,         \* the deployment_ids the runners may be called with, a set of functions
  Waits,         \* the runners called with bounded_acquire_wait
  MaxAttempts,   \* W08_ACQUIRE_MAX_ATTEMPTS
  Steps,         \* the number of deployment steps
  Serial         \* TRUE: callers never run one deployment_id twice at a time

ASSUME DeploymentAssumption ==
  /\ NoOwner \notin Owner
  /\ TTL \in Nat \ {0}
  /\ MaxTime \in Nat
  /\ Waits \subseteq Owner
  /\ MaxAttempts \in Nat \ {0}
  /\ Steps \in Nat \ {0}
  /\ Serial \in BOOLEAN

VARIABLES
  clock, lease, log,   \* the lease store
  unit,          \* the deployment_id each runner was called with
  sourceValid,   \* GitSourceAuthority.revalidate still passes
  pc,            \* where each runner's main thread is
  now,           \* the clock value its pending store call carries
  attempts,      \* acquire attempts made
  token,         \* self.fencing_token (0: None)
  ran,           \* effects executed: the length of `evidence'
  failed,        \* an exception is propagating
  beat,          \* the heartbeat thread
  beatNow,       \* the clock value its pending heartbeat carries
  beatError,     \* self._heartbeat_error is set
  late,          \* history: effects executed after the lease was lost
  intruded       \* history: an effect of another runner owning the lease came in between

\* One key per attempt for acquire, release and an operator's revoke of it.
OpKey == Owner \X {"acquire", "release", "revoke"}

INSTANCE WriterLeaseStore WITH Key <- OpKey

storeVars == <<clock, lease, log>>
runnerVars == <<pc, now, attempts, token, ran, failed>>
beatVars == <<beat, beatNow, beatError>>
history == <<late, intruded>>
vars == <<clock, lease, log, unit, sourceValid, runnerVars, beatVars, history>>

Stage == {"new", "acquire", "acquiring", "readback", "enter", "before", "effect",
          "after", "persist", "final", "exit", "releasing",
          "refused", "failed", "done", "crashed"}
Ended == {"refused", "failed", "done", "crashed"}

TypeOK ==
  /\ LeaseTypeOK
  /\ unit \in Calls
  /\ sourceValid \in BOOLEAN
  /\ pc \in [Owner -> Stage]
  /\ now \in [Owner -> Nat]
  /\ attempts \in [Owner -> 0..MaxAttempts]
  /\ token \in [Owner -> Nat]
  /\ ran \in [Owner -> 0..Steps]
  /\ failed \in [Owner -> BOOLEAN]
  /\ beat \in [Owner -> {"off", "waiting", "beating", "dead"}]
  /\ beatNow \in [Owner -> Nat]
  /\ beatError \in [Owner -> BOOLEAN]
  /\ late \in [Owner -> 0..Steps]
  /\ intruded \in [Owner -> BOOLEAN]

Init ==
  /\ LeaseInit
  /\ unit \in Calls
  /\ sourceValid = TRUE
  /\ pc = [r \in Owner |-> "new"]
  /\ now = [r \in Owner |-> 0]
  /\ attempts = [r \in Owner |-> 0]
  /\ token = [r \in Owner |-> 0]
  /\ ran = [r \in Owner |-> 0]
  /\ failed = [r \in Owner |-> FALSE]
  /\ beat = [r \in Owner |-> "off"]
  /\ beatNow = [r \in Owner |-> 0]
  /\ beatError = [r \in Owner |-> FALSE]
  /\ late = [r \in Owner |-> 0]
  /\ intruded = [r \in Owner |-> FALSE]

-----------------------------------------------------------------------------
Go(r, from, to) == pc[r] = from /\ pc' = [pc EXCEPT ![r] = to]

\* The store call's local variables go out of scope.
CallEnds(r) == now' = [now EXCEPT ![r] = 0]

\* An exception: the runner leaves through __exit__ with the error pending.
Raise(r, from) == Go(r, from, "exit") /\ failed' = [failed EXCEPT ![r] = TRUE]

\* Mutant: the heartbeat thread alone notices a lost lease.
AssertedByHeartbeat(r) == ~beatError[r] /\ sourceValid

\* GlobalProductionControlLease.assert_current.
Asserted(r) == ~beatError[r] /\ sourceValid /\ Current(r, token[r], clock)

\* Mutant: only the holder of the row counts as an earlier acquisition.
HolderIsPrior(r) == lease.state = "HELD" /\ unit[lease.owner] = unit[r]

\* _prior_controlled_deployment_acquire: some attempt of the same deployment
\* was ever granted the lease.
PriorAcquire(r) == \E k \in OpKey : IsGrant(k) /\ unit[log[k].owner] = unit[r]

\* run_controlled_deployment starts: the prior-acquire check is a read of the
\* event table, outside the transaction that later acquires.
CheckPrior(r) ==
  /\ Serial => \A s \in Owner \ {r} :
                 unit[s] = unit[r] => pc[s] \in Ended \cup {"new"}
  /\ Go(r, "new", IF PriorAcquire(r) \/ ~sourceValid THEN "refused" ELSE "acquire")
  /\ UNCHANGED <<storeVars, sourceValid, now, attempts, token, ran, failed, beatVars, history, unit>>

\* acquire_global_production_writer samples the clock ...
SampleAcquire(r) ==
  /\ Go(r, "acquire", "acquiring")
  /\ now' = [now EXCEPT ![r] = clock]
  /\ attempts' = [attempts EXCEPT ![r] = @ + 1]
  /\ UNCHANGED <<storeVars, sourceValid, token, ran, failed, beatVars, history, unit>>

\* ... and runs its transaction.
Acquire(r) ==
  /\ Go(r, "acquiring", "readback")
  /\ AcquireTxn(r, <<r, "acquire">>, now[r])
  /\ CallEnds(r)
  /\ attempts' = [attempts EXCEPT ![r] = 0]
  /\ UNCHANGED <<sourceValid, token, ran, failed, beatVars, history, unit>>

\* Mutant: one attempt too many.
AcquireHeldOnceMore(r) ==
  /\ lease.state = "HELD" /\ lease.expires > now[r]
  /\ \/ r \in Waits /\ attempts[r] <= MaxAttempts /\ sourceValid /\ Go(r, "acquiring", "acquire")
     \/ Go(r, "acquiring", "failed")
  /\ CallEnds(r)
  /\ UNCHANGED <<storeVars, sourceValid, attempts, token, ran, failed, beatVars, history, unit>>

\* Mutant: a waiter retries without counting.
AcquireHeldForever(r) ==
  /\ lease.state = "HELD" /\ lease.expires > now[r]
  /\ Go(r, "acquiring", IF r \in Waits THEN "acquire" ELSE "failed")
  /\ CallEnds(r)
  /\ attempts' = [attempts EXCEPT ![r] = 0]
  /\ UNCHANGED <<storeVars, sourceValid, token, ran, failed, beatVars, history, unit>>

\* GLOBAL_PRODUCTION_WRITER_HELD: retried by a waiter while attempts remain and
\* the source authority still validates, otherwise the call fails.
AcquireHeld(r) ==
  /\ lease.state = "HELD" /\ lease.expires > now[r]
  /\ \/ /\ r \in Waits /\ attempts[r] < MaxAttempts /\ sourceValid
        /\ Go(r, "acquiring", "acquire")
     \/ Go(r, "acquiring", "failed")
  /\ CallEnds(r)
  /\ UNCHANGED <<storeVars, sourceValid, attempts, token, ran, failed, beatVars, history, unit>>

\* The read-back after COMMIT; on failure fencing_token stays None, so the
\* lease is left to expire.
AcquireReadback(r) ==
  /\ IF Current(r, log[<<r, "acquire">>].to, clock)
     THEN /\ Go(r, "readback", "enter")
          /\ token' = [token EXCEPT ![r] = log[<<r, "acquire">>].to]
     ELSE Go(r, "readback", "failed") /\ UNCHANGED token
  /\ UNCHANGED <<storeVars, sourceValid, now, attempts, ran, failed, beatVars, history, unit>>

\* The rest of __enter__: assert, bind the ordinary-write guard, start the
\* heartbeat thread; on failure the lease is released.
Enter(r) ==
  /\ IF Asserted(r)
     THEN /\ Go(r, "enter", "before")
          /\ beat' = [beat EXCEPT ![r] = "waiting"]
          /\ UNCHANGED failed
     ELSE Raise(r, "enter") /\ UNCHANGED beat
  /\ UNCHANGED <<storeVars, sourceValid, now, attempts, token, ran, beatNow, beatError, history, unit>>

\* lease.assert_current() immediately before an effect.
AssertBefore(r) ==
  /\ IF Asserted(r)
     THEN Go(r, "before", "effect") /\ UNCHANGED failed
     ELSE Raise(r, "before")
  /\ UNCHANGED <<storeVars, sourceValid, now, attempts, token, ran, beatVars, history, unit>>

\* step.effect() and step.readback(): external, nothing fences them.
Effect(r) ==
  LET owned == lease.state = "HELD" /\ lease.token = token[r] IN
  /\ Go(r, "effect", "after")
  /\ ran' = [ran EXCEPT ![r] = @ + 1]
  /\ late' = IF owned THEN late ELSE [late EXCEPT ![r] = @ + 1]
  /\ intruded' = [s \in Owner |-> intruded[s] \/ (owned /\ s # r /\ token[s] # 0 /\ pc[s] \notin Ended)]
  /\ UNCHANGED <<storeVars, sourceValid, now, attempts, token, failed, beatVars, unit>>

\* The step's effect itself raises: nothing is added to the evidence.
EffectRaises(r) ==
  /\ Raise(r, "effect")
  /\ UNCHANGED <<storeVars, sourceValid, now, attempts, token, ran, beatVars, history, unit>>

\* The assertion after each effect; after the last one the assertion that
\* precedes persist_result.
AssertAfter(r) ==
  /\ IF Asserted(r)
     THEN /\ Go(r, "after", IF ran[r] < Steps THEN "before" ELSE "persist")
          /\ UNCHANGED failed
     ELSE Raise(r, "after")
  /\ UNCHANGED <<storeVars, sourceValid, now, attempts, token, ran, beatVars, history, unit>>

PersistResult(r) ==
  /\ Go(r, "persist", "final")
  /\ UNCHANGED <<storeVars, sourceValid, now, attempts, token, ran, failed, beatVars, history, unit>>

\* The assertion after persist_result: success only under the same lease.
AssertFinal(r) ==
  /\ IF Asserted(r) THEN Go(r, "final", "exit") /\ UNCHANGED failed ELSE Raise(r, "final")
  /\ UNCHANGED <<storeVars, sourceValid, now, attempts, token, ran, beatVars, history, unit>>

\* __exit__: stop the heartbeat thread (join may time out with a heartbeat
\* still under way), then release; the release samples its clock first.
Exit(r) ==
  /\ Go(r, "exit", "releasing")
  /\ beat' = [beat EXCEPT ![r] = IF @ = "waiting" THEN "off" ELSE @]
  /\ now' = [now EXCEPT ![r] = clock]
  /\ UNCHANGED <<storeVars, sourceValid, attempts, token, ran, failed, beatNow, beatError, history, unit>>

Release(r) ==
  /\ ReleaseTxn(r, token[r], <<r, "release">>, now[r])
  /\ Go(r, "releasing", IF failed[r] THEN "failed" ELSE "done")
  /\ CallEnds(r)
  /\ UNCHANGED <<sourceValid, attempts, token, ran, failed, beatVars, history, unit>>

\* Mutant: a failed release is not reported.
ReleaseFailureIgnored(r) ==
  /\ ~Current(r, token[r], now[r])
  /\ Go(r, "releasing", IF failed[r] THEN "failed" ELSE "done")
  /\ CallEnds(r)
  /\ UNCHANGED <<storeVars, sourceValid, attempts, token, ran, failed, beatVars, history, unit>>

\* GLOBAL_PRODUCTION_RELEASE_FAILED, or the pending error.
ReleaseFails(r) ==
  /\ ~Current(r, token[r], now[r])
  /\ Go(r, "releasing", "failed")
  /\ CallEnds(r)
  /\ UNCHANGED <<storeVars, sourceValid, attempts, token, ran, failed, beatVars, history, unit>>

-----------------------------------------------------------------------------
(* The heartbeat thread: wake, sample the clock, run the transaction; the  *)
(* first error is kept for assert_current and ends the thread.             *)
Wake(r) ==
  /\ beat[r] = "waiting"
  /\ beat' = [beat EXCEPT ![r] = "beating"]
  /\ beatNow' = [beatNow EXCEPT ![r] = clock]
  /\ UNCHANGED <<storeVars, sourceValid, runnerVars, beatError, history, unit>>

\* _heartbeat_stop is set once __exit__ has begun.
Stopped(r) == pc[r] \in {"releasing"} \cup Ended

Heartbeat(r) ==
  /\ beat[r] = "beating"
  /\ HeartbeatTxn(r, token[r], beatNow[r])
  /\ beat' = [beat EXCEPT ![r] = IF Stopped(r) THEN "off" ELSE "waiting"]
  /\ beatNow' = [beatNow EXCEPT ![r] = 0]
  /\ UNCHANGED <<sourceValid, runnerVars, beatError, history, unit>>

\* Lease lost, or the store busy.
HeartbeatFails(r) ==
  /\ beat[r] = "beating"
  /\ beat' = [beat EXCEPT ![r] = "dead"]
  /\ beatError' = [beatError EXCEPT ![r] = TRUE]
  /\ beatNow' = [beatNow EXCEPT ![r] = 0]
  /\ UNCHANGED <<storeVars, sourceValid, runnerVars, history, unit>>

-----------------------------------------------------------------------------
(* The environment. *)
\* The process dies: both threads and everything in memory are gone, the
\* lease row and the effects already executed stay.
Crash(r) ==
  /\ pc[r] \notin Ended
  /\ pc' = [pc EXCEPT ![r] = "crashed"]
  /\ CallEnds(r)
  /\ attempts' = [attempts EXCEPT ![r] = 0]
  /\ token' = [token EXCEPT ![r] = 0]
  /\ failed' = [failed EXCEPT ![r] = FALSE]
  /\ beat' = [beat EXCEPT ![r] = "off"]
  /\ beatNow' = [beatNow EXCEPT ![r] = 0]
  /\ beatError' = [beatError EXCEPT ![r] = FALSE]
  /\ UNCHANGED <<storeVars, sourceValid, ran, history, unit>>

OperatorRevokes(r) ==
  /\ ForceRevokeTxn(r, lease.token, <<r, "revoke">>, clock)
  /\ UNCHANGED <<sourceValid, runnerVars, beatVars, history, unit>>

SourceDrifts ==
  /\ sourceValid' = FALSE
  /\ UNCHANGED <<storeVars, runnerVars, beatVars, history, unit>>

TimePasses == Tick /\ UNCHANGED <<sourceValid, runnerVars, beatVars, history, unit>>

Runner(r) ==
  \/ CheckPrior(r) \/ SampleAcquire(r) \/ Acquire(r) \/ AcquireHeld(r)
  \/ AcquireReadback(r) \/ Enter(r) \/ AssertBefore(r) \/ Effect(r) \/ EffectRaises(r)
  \/ AssertAfter(r) \/ PersistResult(r) \/ AssertFinal(r)
  \/ Exit(r) \/ Release(r) \/ ReleaseFails(r)

HeartbeatThread(r) == Wake(r) \/ Heartbeat(r) \/ HeartbeatFails(r)

Next ==
  \/ \E r \in Owner : Runner(r) \/ HeartbeatThread(r) \/ Crash(r) \/ OperatorRevokes(r)
  \/ SourceDrifts
  \/ TimePasses

\* The operating system schedules a runner's main thread.
Spec == Init /\ [][Next]_vars /\ \A r \in Owner : WF_vars(Runner(r))

-----------------------------------------------------------------------------
(* SC-13: a runner that has lost its lease executes at most the one effect *)
(* whose assertion it had already passed; the assertions around each       *)
(* effect bound the residual window the store documents.                   *)
AtMostOneLateEffect == \A r \in Owner : late[r] <= 1

(* Success is reported only for a deployment that ran every step and       *)
(* during which no other runner, itself holding the lease, had an effect.  *)
SuccessWasExclusive ==
  \A r \in Owner : pc[r] = "done" => ran[r] = Steps /\ ~intruded[r] /\ late[r] = 0

(* A runner that reports success has given the lease back, and a heartbeat *)
(* that outlived the join cannot take it again.                            *)
SuccessReleased ==
  \A r \in Owner : pc[r] = "done" => lease.owner # r

(* run_controlled_deployment: "If an earlier acquisition exists for that   *)
(* identity, this entry point refuses to repeat any effect blindly."  Two  *)
(* calls with one deployment_id never both execute effects.                *)
NoBlindRepeat ==
  \A r, s \in Owner : r # s /\ unit[r] = unit[s] => ran[r] = 0 \/ ran[s] = 0

(* A runner's call returns (or its process dies): the wait for the lease   *)
(* is bounded and __exit__ never blocks on a lost lease.                   *)
RunnerReturns == \A r \in Owner : pc[r] = "acquire" ~> pc[r] \in Ended

=============================================================================
