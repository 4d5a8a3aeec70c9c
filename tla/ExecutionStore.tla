---------------------------- MODULE ExecutionStore ----------------------------
(***************************************************************************)
(* One Development Unit execution in the control store: its slice_execution*)
(* row, the evidence tables around it, and the ControlStore transactions   *)
(* that change them.  Each operation is one BEGIN IMMEDIATE transaction.   *)
(*                                                                         *)
(* Time is abstracted to `live', whether the lease has yet to expire.  A   *)
(* transaction that samples its clock early may still pass the fence after *)
(* the expiry, but the version check makes that the same as running before *)
(* it.  Commits are numbered by the Maker attempt that produced them; the  *)
(* frozen fingerprints never change and are left out.                      *)
(***************************************************************************)
EXTENDS Naturals, Sequences, SequencesExt

CONSTANTS
  Controller,    \* controller ids (lease_owner)
  NoOwner,       \* the NULL lease_owner
  MaxReworks     \* max_auto_reworks: 2 for LOW and NORMAL risk, 0 for HIGH

ASSUME ExecutionAssumption ==
  /\ NoOwner \notin Controller
  /\ MaxReworks \in Nat

VARIABLES
  row,           \* the slice_execution row
  maker,         \* MAKER agent_attempts, by attempt_no
  evaluator,     \* EVALUATOR agent_attempts, by attempt_no, with the sealed verdict
  verification,  \* verification_result, by verification_seq
  evaluation,    \* evaluation_result, by evaluation_seq
  approval,      \* DEVELOPMENT_ACCEPTANCE approval_requests, by requested_at
  registered,    \* commits with a RESULT_COMMIT_REGISTERED event
  manifest       \* the evidence_manifest of the acceptance, or NoManifest

evidence == <<maker, evaluator, verification, evaluation>>
tables == <<evidence, approval, registered, manifest>>

Terminal == {"ACCEPTED", "CANCELLED", "DESIGN_ESCALATION"}
ExecutionState == Terminal \cup
  {"READY", "MAKER_RUNNING", "VERIFYING", "EVALUATING", "REWORK_READY", "WAITING_APPROVAL", "BLOCKED"}
ResumeState == {"READY", "VERIFYING", "EVALUATING", "REWORK_READY"}
AttemptStatus == {"RUNNING", "SUCCEEDED", "FAILED", "LOST"}
Verdict == {"PASS", "REWORK_REQUIRED", "DESIGN_REVIEW_REQUIRED", "BLOCKED_ENVIRONMENT"}

Manifest == [commit: Nat, maker: Nat, verification: Nat, evaluation: Nat, approval: Nat]
NoManifest == [commit |-> 0, maker |-> 0, verification |-> 0, evaluation |-> 0, approval |-> 0]

\* 0 stands for a NULL or absent commit, attempt, evaluation or approval.
StoreTypeOK ==
  /\ row \in [state: ExecutionState, resume: ResumeState \cup {"NONE"}, version: Nat,
              owner: Controller \cup {NoOwner}, gen: Nat, live: BOOLEAN,
              commit: Nat, reworks: 0..MaxReworks]
  /\ maker \in Seq([status: AttemptStatus, commit: Nat])
  /\ evaluator \in Seq([status: AttemptStatus, commit: Nat, verdict: Verdict \cup {"NONE"}])
  /\ verification \in Seq([commit: Nat, verdict: {"PASS", "FAIL"}])
  /\ evaluation \in Seq([attempt: Nat, commit: Nat, verdict: Verdict])
  /\ approval \in Seq([version: Nat, commit: Nat, evaluation: Nat,
                       status: {"PENDING", "APPROVED", "REJECTED"}, consumed: BOOLEAN])
  /\ registered \subseteq Nat
  /\ manifest \in Manifest

StoreInit ==
  /\ row = [state |-> "READY", resume |-> "NONE", version |-> 1, owner |-> NoOwner,
            gen |-> 0, live |-> FALSE, commit |-> 0, reworks |-> 0]
  /\ maker = <<>> /\ evaluator = <<>> /\ verification = <<>> /\ evaluation = <<>>
  /\ approval = <<>> /\ registered = {} /\ manifest = NoManifest

-----------------------------------------------------------------------------
(* Reads. *)

\* Mutant: the latest verification, whatever its commit.
LatestVerification(c) == Len(verification)

\* _bound_result: the latest result bound to commit c, 0 if there is none.
VerificationOf(c) == SelectLastInSeq(verification, LAMBDA v : v.commit = c)
EvaluationOf(c) == SelectLastInSeq(evaluation, LAMBDA e : e.commit = c)

\* find_verification_pass, find_evaluation_pass (an evaluation's attempt is
\* always a SUCCEEDED evaluator), and the maker accept looks for.
VerificationPass(c) ==
  SelectLastInSeq(verification, LAMBDA v : v.commit = c /\ v.verdict = "PASS")
EvaluationPass(c) ==
  SelectLastInSeq(evaluation, LAMBDA e :
    e.commit = c /\ e.verdict = "PASS" /\ evaluator[e.attempt].status = "SUCCEEDED")
MakerOf(c) ==
  SelectLastInSeq(maker, LAMBDA m : m.status = "SUCCEEDED" /\ m.commit = c)

-----------------------------------------------------------------------------
(* The fenced row: _require_fence, the version compare-and-swap and        *)
(* validate_transition.                                                    *)
Fenced(id, gen) == row.owner = id /\ row.gen = gen /\ row.live

Successors ==
  [s \in ExecutionState |->
    CASE s = "READY" -> {"MAKER_RUNNING", "BLOCKED", "CANCELLED"}
      [] s = "MAKER_RUNNING" -> {"VERIFYING", "BLOCKED", "DESIGN_ESCALATION", "CANCELLED"}
      [] s = "VERIFYING" -> {"EVALUATING", "REWORK_READY", "DESIGN_ESCALATION", "BLOCKED", "CANCELLED"}
      [] s = "EVALUATING" -> {"ACCEPTED", "REWORK_READY", "DESIGN_ESCALATION", "WAITING_APPROVAL",
                              "BLOCKED", "CANCELLED"}
      [] s = "REWORK_READY" -> {"MAKER_RUNNING", "BLOCKED", "CANCELLED"}
      [] s = "WAITING_APPROVAL" -> {"EVALUATING", "DESIGN_ESCALATION", "CANCELLED"}
      [] s = "BLOCKED" -> {"CANCELLED"}
      [] OTHER -> {}]

Legal(from, to) == to \in Successors[from] \/ (from = "BLOCKED" /\ to = row.resume)

(* ControlStore.transition, as Controller._transition calls it: with the   *)
(* version and generation of the row it has just read, so it fails only on *)
(* the owner, the expiry or the transition itself.                         *)
Transition(id, to, resume) ==
  /\ Fenced(id, row.gen)
  /\ Legal(row.state, to)
  /\ row' = [row EXCEPT !.state = to, !.resume = resume, !.version = @ + 1]

\* acquire_lease, also by the controller whose own lease has expired.
AcquireLease(id) ==
  /\ row.state \notin Terminal
  /\ row.owner = NoOwner \/ ~row.live
  /\ row' = [row EXCEPT !.owner = id, !.gen = @ + 1, !.live = TRUE, !.version = @ + 1]

(* register_result_commit: fenced, but it looks at no state; the operation *)
(* key, made of the execution and the commit, lets each commit in once.    *)
RegisterCommitTxn(id, c) ==
  /\ Fenced(id, row.gen)
  /\ c \notin registered
  /\ registered' = registered \cup {c}
  /\ row' = [row EXCEPT !.commit = c, !.version = @ + 1]

\* Mutant: the unit is counted when scheduled and again by the caller.
ScheduleReworkTwice(id) ==
  /\ Fenced(id, row.gen)
  /\ row.state = "REWORK_READY"
  /\ row.reworks < MaxReworks
  /\ row' = [row EXCEPT !.state = "MAKER_RUNNING", !.version = @ + 1, !.reworks = @ + 2]

\* schedule_rework consumes one unit of the rework budget.
ScheduleRework(id) ==
  /\ Fenced(id, row.gen)
  /\ row.state = "REWORK_READY"
  /\ row.reworks < MaxReworks
  /\ row' = [row EXCEPT !.state = "MAKER_RUNNING", !.version = @ + 1, !.reworks = @ + 1]

-----------------------------------------------------------------------------
(* Attempts: registered without a fence, finished once and for all         *)
(* (trigger agent_attempt_terminal_immutable).                             *)
FinishMakerTxn(n, status, c) ==
  /\ maker[n].status = "RUNNING"
  /\ maker' = [maker EXCEPT ![n] = [status |-> status, commit |-> c]]

FinishEvaluatorTxn(n, status) ==
  /\ evaluator[n].status = "RUNNING"
  /\ evaluator' = [evaluator EXCEPT ![n].status = status]

(* register_evaluation_result: one row per evaluator attempt; a replay     *)
(* returns the stored one.                                                 *)
RegisterEvaluationTxn(id, gen, n, c) ==
  /\ Fenced(id, gen) /\ row.state = "EVALUATING"
  /\ IF \E i \in DOMAIN evaluation : evaluation[i].attempt = n
     THEN UNCHANGED evaluation
     ELSE /\ row.commit = c
          /\ evaluator[n].status = "SUCCEEDED" /\ evaluator[n].commit = c
          /\ evaluation' = Append(evaluation,
               [attempt |-> n, commit |-> c, verdict |-> evaluator[n].verdict])

-----------------------------------------------------------------------------
(* Approvals.  authority_ref is a hash of the version, commit and          *)
(* evaluation the approval was requested for.                              *)
Refers(a, version, c, e) ==
  approval[a].version = version /\ approval[a].commit = c /\ approval[a].evaluation = e

RequestApprovalTxn(id, gen, version, c, e) ==
  /\ Fenced(id, gen) /\ row.version = version
  /\ row.state = "WAITING_APPROVAL"
  /\ approval' = Append(approval,
       [version |-> version, commit |-> c, evaluation |-> e, status |-> "PENDING", consumed |-> FALSE])

\* resolve_approval: not fenced; a decision is never changed or taken back.
ResolveApprovalTxn(a, status) ==
  /\ ~approval[a].consumed
  /\ approval[a].status \in {"PENDING", status}
  /\ approval' = [approval EXCEPT ![a].status = status]

\* Mutant: the caller has validated the manifest, the transaction does not.
AcceptAsRead(id, gen, version, m) ==
  /\ row.state = "EVALUATING"
  /\ manifest' = m
  /\ row' = [row EXCEPT !.state = "ACCEPTED", !.resume = "NONE", !.version = @ + 1]
  /\ UNCHANGED approval

(* accept_execution: revalidates the evidence that manifest m names and    *)
(* its approval (0: none), consumes the approval and accepts, all in one   *)
(* transaction.                                                            *)
AcceptTxn(id, gen, version, m) ==
  LET a == m.approval IN
  /\ Fenced(id, gen) /\ row.version = version
  /\ row.state = "EVALUATING" /\ row.commit # 0 /\ m.commit = row.commit
  /\ maker[m.maker].status = "SUCCEEDED" /\ maker[m.maker].commit = row.commit
  /\ verification[m.verification] = [commit |-> row.commit, verdict |-> "PASS"]
  /\ evaluation[m.evaluation].commit = row.commit /\ evaluation[m.evaluation].verdict = "PASS"
  /\ LET n == evaluation[m.evaluation].attempt IN
       evaluator[n].status = "SUCCEEDED" /\ evaluator[n].commit = row.commit
  /\ IF approval = <<>>
     THEN a = 0 /\ UNCHANGED approval
     ELSE /\ a # 0
          /\ Refers(a, version - 1, row.commit, m.evaluation)
          /\ approval[a].status = "APPROVED" /\ ~approval[a].consumed
          /\ approval' = [approval EXCEPT ![a].consumed = TRUE]
  /\ manifest' = m
  /\ row' = [row EXCEPT !.state = "ACCEPTED", !.resume = "NONE", !.version = @ + 1]

=============================================================================
