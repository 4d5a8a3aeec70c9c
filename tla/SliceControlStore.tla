--------------------------- MODULE SliceControlStore ---------------------------
(***************************************************************************)
(* The control store's view of one registered slice: its                   *)
(* slice_control_state row with the append-only events, and the executions *)
(* bound to it.  Every operation is one BEGIN IMMEDIATE transaction.       *)
(*                                                                         *)
(* Operation keys are hashes of the arguments, so an event is recognised   *)
(* by its arguments.  Commit 1 is the base of every binding, commit 2 the  *)
(* result of its Maker, 0 the NULL.                                        *)
(***************************************************************************)
EXTENDS Integers, Sequences, SequencesExt, FiniteSets

CONSTANTS
  Execution,    \* execution ids an operator may bind to the slice
  NoExecution   \* the NULL active_execution_id

ASSUME StoreAssumption == NoExecution \notin Execution

VARIABLES
  slice,        \* the slice_control_state row
  events,       \* slice_control_event: events[v + 1] led to state_version v
  execution     \* slice_execution rows, with their Maker attempt

store == <<slice, events, execution>>

Eligibility == {"INELIGIBLE_UNTIL_PREFLIGHT", "ELIGIBLE_PREEXECUTION_BOUND", "ELIGIBLE_BOUND"}
\* VERIFYING stands for what follows it up to an outcome, ACCEPTED for either
\* outcome, DESIGN_ESCALATION being the other.
OpenState == {"READY", "MAKER_RUNNING", "VERIFYING", "BLOCKED"}
ClosedState == {"ACCEPTED", "CANCELLED"}
\* FAILED stands for LOST too: neither may be finalised.
AttemptStatus == {"NONE", "RUNNING", "SUCCEEDED", "FAILED"}

\* A PREEXECUTION_BIND carries the immutable binding metadata.
SliceEvent ==
  [reason: {"REGISTER", "RECONCILE", "BIND", "RELEASE", "RESULT"},
   exec: Execution \cup {NoExecution}, wc: BOOLEAN, bc: BOOLEAN]

StoreTypeOK ==
  /\ slice \in [version: Nat, elig: Eligibility, active: Execution \cup {NoExecution},
                head: 0..2, result: 0..2]
  /\ events \in Seq(SliceEvent)
  /\ execution \in [Execution -> [state: OpenState \cup ClosedState \cup {"ABSENT"}, version: Nat,
                                  leased: BOOLEAN, attempt: AttemptStatus, result: 0..2]]

StoreInit ==
  /\ slice = [version |-> 0, elig |-> "INELIGIBLE_UNTIL_PREFLIGHT", active |-> NoExecution,
              head |-> 0, result |-> 0]
  /\ events = <<[reason |-> "REGISTER", exec |-> NoExecution, wc |-> FALSE, bc |-> FALSE]>>
  /\ execution = [e \in Execution |->
       [state |-> "ABSENT", version |-> 0, leased |-> FALSE, attempt |-> "NONE", result |-> 0]]

-----------------------------------------------------------------------------
(* The slice row.  Each change is a compare-and-swap on its version, and   *)
(* the triggers demand exactly one event per version.                      *)
Record(reason, e, wc, bc) ==
  events' = Append(events, [reason |-> reason, exec |-> e, wc |-> wc, bc |-> bc])

\* reconcile_slice_control_state with another stage or status: an active
\* execution stays bound.  While
\* the slice is pre-bound the trigger accepts no event but a bind.
ReconcileSlice(version) ==
  /\ slice.version = version
  /\ slice.elig # "ELIGIBLE_PREEXECUTION_BOUND"
  /\ slice' = [slice EXCEPT !.version = @ + 1]
  /\ Record("RECONCILE", NoExecution, FALSE, FALSE)
  /\ UNCHANGED execution

-----------------------------------------------------------------------------
(* Pre-execution bindings. *)

\* get_deferred_binding: the first bind event of e, 0 if there is none.
Binding(e) == SelectInSeq(events, LAMBDA ev : ev.reason = "BIND" /\ ev.exec = e)
Released(e) == \E i \in DOMAIN events : events[i].reason = "RELEASE" /\ events[i].exec = e

\* The replay branch of bind_deferred_execution: the same expected version,
\* the same metadata (who created what is part of it), still bound.
BindReplays(e, version, wc, bc) ==
  /\ Binding(e) = version + 2
  /\ events[version + 2].wc = wc /\ events[version + 2].bc = bc
  /\ slice.active = e

\* A new binding: slice row, READY execution, Maker capsule and both events.
BindDeferred(e, version, wc, bc) ==
  /\ Binding(e) # version + 2
  /\ slice.version = version
  /\ slice.active = NoExecution /\ slice.elig = "INELIGIBLE_UNTIL_PREFLIGHT"
  /\ \A x \in Execution :
       ~execution[x].leased /\ execution[x].attempt # "RUNNING" /\ execution[x].state \notin OpenState
  /\ execution[e].state = "ABSENT"
  /\ slice' = [version |-> version + 1, elig |-> "ELIGIBLE_PREEXECUTION_BOUND", active |-> e,
               head |-> 1, result |-> 0]
  /\ execution' = [execution EXCEPT ![e].state = "READY"]
  /\ Record("BIND", e, wc, bc)

\* Mutant: attempts and lease are not looked at.
ReadyOnly(e) == execution[e].state \in {"READY", "MAKER_RUNNING"}

\* release_deferred_preexecution_binding: only an untouched READY execution.
Untouched(e) ==
  /\ execution[e].state = "READY" /\ ~execution[e].leased
  /\ execution[e].attempt = "NONE" /\ execution[e].result = 0

ReleaseDeferred(e, xversion, version) ==
  /\ ~Released(e)
  /\ execution[e].version = xversion /\ slice.version = version
  /\ slice.active = e /\ slice.elig = "ELIGIBLE_PREEXECUTION_BOUND"
  /\ Untouched(e)
  /\ slice' = [version |-> version + 1, elig |-> "INELIGIBLE_UNTIL_PREFLIGHT",
               active |-> NoExecution, head |-> 0, result |-> 0]
  /\ execution' = [execution EXCEPT ![e].state = "CANCELLED", ![e].version = @ + 1]
  /\ Record("RELEASE", e, FALSE, FALSE)

\* Answered as a replay while nothing has changed since.
ReleaseReplays(e, version) ==
  /\ slice.version = version + 1 /\ Len(events) = version + 2
  /\ events[version + 2].reason = "RELEASE" /\ events[version + 2].exec = e

\* Mutant: the result reaches the slice row only.
FinalizeSliceOnly(e, xversion, version, head) ==
  /\ execution[e].leased /\ execution[e].version = xversion
  /\ execution[e].state = "MAKER_RUNNING"
  /\ slice.active = e /\ slice.version = version
  /\ slice' = [slice EXCEPT !.version = @ + 1, !.elig = "ELIGIBLE_BOUND", !.head = 2, !.result = 2]
  /\ execution' = [execution EXCEPT ![e].version = @ + 1]
  /\ Record("RESULT", e, FALSE, FALSE)

\* finalize_deferred_result_commit: the result on both rows at once.
FinalizeDeferred(e, xversion, version, head) ==
  /\ execution[e].leased /\ execution[e].version = xversion
  /\ execution[e].state = "MAKER_RUNNING"
  /\ slice.active = e /\ slice.elig # "INELIGIBLE_UNTIL_PREFLIGHT"
  /\ slice.version = version
  /\ slice.head = head /\ slice.result = execution[e].result
  /\ slice' = [slice EXCEPT !.version = @ + 1, !.elig = "ELIGIBLE_BOUND", !.head = 2, !.result = 2]
  /\ execution' = [execution EXCEPT ![e].result = 2, ![e].version = @ + 1]
  /\ Record("RESULT", e, FALSE, FALSE)
=============================================================================
