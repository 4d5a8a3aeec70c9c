------------------------------ MODULE Execution ------------------------------
(***************************************************************************)
(* The life of one execution: processes that run the handlers of           *)
(* Controller (maker, verification, evaluator, approval, acceptance) and   *)
(* RecoveryManager.resume_once on the execution of ExecutionStore.         *)
(*                                                                         *)
(* A handler is the sequence of its reads and transactions; call[p] says   *)
(* which one process p runs next and what it remembers from the earlier    *)
(* ones.  Between any two steps other processes run, the lease expires, or *)
(* the handler is abandoned: its process died, or a StoreError was raised. *)
(* Makers, verifiers and evaluators are external: they answer anything.    *)
(***************************************************************************)
EXTENDS ExecutionStore

CONSTANTS
  Proc,              \* processes
  Id,                \* the controller_id each was started with
  ApprovalRequired,  \* what every caller passes as approval_required
  Outcome,           \* the evaluator verdicts considered
  MaxGen, MaxMakers, MaxEvaluators, MaxVerifications  \* bounds on the tables

ASSUME ProcessAssumption ==
  /\ Id \in [Proc -> Controller]
  /\ ApprovalRequired \in BOOLEAN
  /\ Outcome \subseteq Verdict
  /\ {MaxGen, MaxMakers, MaxEvaluators, MaxVerifications} \subseteq Nat

VARIABLE call

vars == <<row, tables, call>>

Stage == {"idle",
  "scheduled", "making", "candidate", "register", "made", "block",
  "record", "verified",
  "start_evaluator", "evaluating", "sealed", "finish_evaluator", "register_evaluation",
  "evaluated", "request", "resolve", "resolved", "approved", "accept", "accepting",
  "resume_maker", "resume_verification", "resume_evaluation", "resume_approval",
  "lose_maker", "lose_evaluator", "recover_evaluator", "recover_evaluation",
  "decide", "ensure"}

\* What a handler remembers; a field it does not use is 0, FALSE or NONE.
Call == [at: Stage, attempt: Nat, commit: Nat, verdict: Verdict \cup {"FAIL", "NONE"},
         version: Nat, gen: Nat, reworks: Nat, verification: Nat, evaluation: Nat, approval: Nat,
         flag: BOOLEAN, resume: ResumeState \cup {"NONE"}]

Idle == [at |-> "idle", attempt |-> 0, commit |-> 0, verdict |-> "NONE", version |-> 0,
         gen |-> 0, reworks |-> 0, verification |-> 0, evaluation |-> 0, approval |-> 0,
         flag |-> FALSE, resume |-> "NONE"]

TypeOK == StoreTypeOK /\ call \in [Proc -> Call]

Init == StoreInit /\ call = [p \in Proc |-> Idle]

At(p, stage) == call[p].at = stage
Continue(p, next) == call' = [call EXCEPT ![p] = next]
Return(p) == Continue(p, Idle)
To(p, stage) == Continue(p, [call[p] EXCEPT !.at = stage])
Blocking(resume) == [Idle EXCEPT !.at = "block", !.resume = resume]

\* Controller._transition
Move(p, to, resume) == Transition(Id[p], to, resume) /\ UNCHANGED tables

\* _maker_resume_state: the state BLOCKED goes back to after maker attempt n.
MakerResume(n, reworks) == IF reworks > 0 \/ n > 1 THEN "REWORK_READY" ELSE "READY"

-----------------------------------------------------------------------------
(* acquire *)
Acquire(p) ==
  /\ At(p, "idle") /\ row.gen < MaxGen
  /\ AcquireLease(Id[p])
  /\ UNCHANGED <<tables, call>>

(* begin_maker: MAKER_RUNNING first, the attempt in a later transaction. *)
Schedule(p) ==
  /\ At(p, "idle")
  /\ \/ row.state = "READY" /\ Transition(Id[p], "MAKER_RUNNING", "NONE")
     \/ ScheduleRework(Id[p])
  /\ Continue(p, [Idle EXCEPT !.at = "scheduled"])
  /\ UNCHANGED tables

RegisterMaker(p) ==
  /\ At(p, "scheduled") /\ Len(maker) < MaxMakers
  /\ maker' = Append(maker, [status |-> "RUNNING", commit |-> 0])
  /\ Continue(p, [Idle EXCEPT !.at = "making", !.attempt = Len(maker) + 1])
  /\ UNCHANGED <<row, evaluator, verification, evaluation, approval, registered, manifest>>

(* run_maker and complete_maker when the runner or the Git policy check    *)
(* fails: the attempt is FAILED, without a fence, and then BLOCKED.        *)
MakerFails(p) ==
  /\ At(p, "making")
  /\ FinishMakerTxn(call[p].attempt, "FAILED", 0)
  /\ Continue(p, Blocking(MakerResume(call[p].attempt, row.reworks)))
  /\ UNCHANGED <<row, evaluator, verification, evaluation, approval, registered, manifest>>

Block(p) ==
  /\ At(p, "block")
  /\ Move(p, "BLOCKED", call[p].resume)
  /\ Return(p)

\* complete_maker checks the state and commits the candidate to Git, ...
CommitCandidate(p) ==
  /\ At(p, "making") /\ row.state = "MAKER_RUNNING"
  /\ To(p, "candidate")
  /\ UNCHANGED <<row, tables>>

\* ... finishes the attempt with that commit, without a fence, ...
FinishMaker(p) ==
  /\ At(p, "candidate")
  /\ LET n == call[p].attempt IN
       /\ FinishMakerTxn(n, "SUCCEEDED", n)
       /\ Continue(p, [Idle EXCEPT !.at = "register", !.commit = n])
  /\ UNCHANGED <<row, evaluator, verification, evaluation, approval, registered, manifest>>

\* ... registers it as the execution's result commit ...
RegisterCommit(p) ==
  /\ At(p, "register")
  /\ RegisterCommitTxn(Id[p], call[p].commit)
  /\ Continue(p, [Idle EXCEPT !.at = "made"])
  /\ UNCHANGED <<evidence, approval, manifest>>

\* ... and moves on.
MakerSucceeded(p) ==
  /\ At(p, "made")
  /\ Move(p, "VERIFYING", "NONE")
  /\ Return(p)

-----------------------------------------------------------------------------
(* record_verification, with the verdict on the row's current commit. *)
RecordVerification(p) ==
  /\ At(p, "idle") /\ row.state = "VERIFYING"
  /\ \E v \in {"PASS", "FAIL"} :
       Continue(p, [Idle EXCEPT !.at = "record", !.commit = row.commit, !.verdict = v])
  /\ UNCHANGED <<row, tables>>

RegisterVerification(p) ==
  /\ At(p, "record") /\ Len(verification) < MaxVerifications
  /\ verification' = Append(verification, [commit |-> call[p].commit, verdict |-> call[p].verdict])
  /\ Continue(p, [Idle EXCEPT !.at = "verified", !.verdict = call[p].verdict])
  /\ UNCHANGED <<row, maker, evaluator, evaluation, approval, registered, manifest>>

Verified(p) ==
  /\ At(p, "verified")
  /\ \/ call[p].verdict = "PASS" /\ Move(p, "EVALUATING", "NONE")
     \/ call[p].verdict = "FAIL" /\ Move(p, "BLOCKED", "VERIFYING")
  /\ Return(p)

-----------------------------------------------------------------------------
(* begin_evaluator: reads the row and its verification PASS, then inserts. *)
BeginEvaluator(p) ==
  /\ At(p, "idle") /\ row.state = "EVALUATING"
  /\ VerificationPass(row.commit) # 0
  /\ Continue(p, [Idle EXCEPT !.at = "start_evaluator", !.commit = row.commit])
  /\ UNCHANGED <<row, tables>>

RegisterEvaluator(p) ==
  /\ At(p, "start_evaluator") /\ Len(evaluator) < MaxEvaluators
  /\ evaluator' = Append(evaluator, [status |-> "RUNNING", commit |-> call[p].commit, verdict |-> "NONE"])
  /\ Continue(p, [Idle EXCEPT !.at = "evaluating", !.attempt = Len(evaluator) + 1])
  /\ UNCHANGED <<row, maker, verification, evaluation, approval, registered, manifest>>

(* run_evaluator: the evaluator answered and its artifacts, the verdict    *)
(* among them, are sealed (POST_EXECUTION) under the fence.                *)
SealEvaluator(p) ==
  LET n == call[p].attempt IN
  /\ At(p, "evaluating")
  /\ Fenced(Id[p], row.gen) /\ row.state = "EVALUATING"
  /\ evaluator[n].status = "RUNNING" /\ evaluator[n].commit = row.commit
  /\ \E v \in Outcome : evaluator' = [evaluator EXCEPT ![n].verdict = v]
  /\ To(p, "sealed")
  /\ UNCHANGED <<row, maker, verification, evaluation, approval, registered, manifest>>

\* fail_evaluator: no fence on the attempt.
FailEvaluator(p) ==
  /\ At(p, "evaluating")
  /\ FinishEvaluatorTxn(call[p].attempt, "FAILED")
  /\ Continue(p, Blocking("EVALUATING"))
  /\ UNCHANGED <<row, maker, verification, evaluation, approval, registered, manifest>>

(* complete_evaluator: its checks, ... *)
CompleteEvaluator(p) ==
  LET n == call[p].attempt IN
  /\ At(p, "sealed")
  /\ row.state = "EVALUATING" /\ Fenced(Id[p], row.gen)
  /\ evaluator[n].status \in {"RUNNING", "SUCCEEDED"} /\ evaluator[n].commit = row.commit
  /\ Continue(p, [Idle EXCEPT !.at = "finish_evaluator", !.attempt = n, !.commit = row.commit,
                    !.gen = row.gen, !.reworks = row.reworks,
                    !.flag = (evaluator[n].status = "SUCCEEDED")])
  /\ UNCHANGED <<row, tables>>

\* ... the attempt, fenced (a replay if it was SUCCEEDED when read), ...
FinishEvaluator(p) ==
  /\ At(p, "finish_evaluator")
  /\ Fenced(Id[p], call[p].gen) /\ row.state = "EVALUATING"
  /\ \/ FinishEvaluatorTxn(call[p].attempt, "SUCCEEDED")
     \/ call[p].flag /\ UNCHANGED evaluator
  /\ To(p, "register_evaluation")
  /\ UNCHANGED <<row, maker, verification, evaluation, approval, registered, manifest>>

\* ... the evaluation result, fenced, ...
RegisterEvaluation(p) ==
  LET n == call[p].attempt IN
  /\ call[p].at \in {"register_evaluation", "recover_evaluation"}
  /\ RegisterEvaluationTxn(Id[p], call[p].gen, n, call[p].commit)
  /\ \/ At(p, "register_evaluation") /\ To(p, "evaluated")
     \/ At(p, "recover_evaluation")
        /\ Continue(p, [call[p] EXCEPT !.at = "decide",
             !.evaluation = SelectLastInSeq(evaluation', LAMBDA e : e.attempt = n)])
  /\ UNCHANGED <<row, maker, evaluator, verification, approval, registered, manifest>>

(* ... and the consequences of a verdict other than PASS, which recovery   *)
(* draws in the same way from the rework count it read.                    *)
NotPassed(p, verdict, reworks) ==
  /\ \/ /\ verdict = "REWORK_REQUIRED"
        /\ Move(p, IF reworks >= MaxReworks THEN "DESIGN_ESCALATION" ELSE "REWORK_READY", "NONE")
     \/ verdict = "DESIGN_REVIEW_REQUIRED" /\ Move(p, "DESIGN_ESCALATION", "NONE")
     \/ verdict = "BLOCKED_ENVIRONMENT" /\ Move(p, "BLOCKED", "EVALUATING")
  /\ Return(p)

\* PASS: accepted later, or WAITING_APPROVAL and a request for it.
Evaluated(p) ==
  LET n == call[p].attempt IN
  /\ At(p, "evaluated")
  /\ \/ NotPassed(p, evaluator[n].verdict, call[p].reworks)
     \/ evaluator[n].verdict = "PASS" /\ ~ApprovalRequired /\ Return(p) /\ UNCHANGED <<row, tables>>
     \/ /\ evaluator[n].verdict = "PASS" /\ ApprovalRequired
        /\ Move(p, "WAITING_APPROVAL", "EVALUATING")
        /\ Continue(p, [Idle EXCEPT !.at = "request", !.commit = call[p].commit,
             !.version = row'.version, !.gen = row.gen,
             !.evaluation = SelectLastInSeq(evaluation, LAMBDA e : e.attempt = n)])

RequestApproval(p) ==
  /\ At(p, "request")
  /\ RequestApprovalTxn(Id[p], call[p].gen, call[p].version, call[p].commit, call[p].evaluation)
  /\ Return(p)
  /\ UNCHANGED <<row, evidence, registered, manifest>>

-----------------------------------------------------------------------------
(* resolve_approval: the human's decision on request a. *)
Resolve(p) ==
  /\ At(p, "idle")
  /\ \E a \in DOMAIN approval, ok \in BOOLEAN :
       Continue(p, [Idle EXCEPT !.at = "resolve", !.approval = a,
                      !.verdict = IF ok THEN "PASS" ELSE "FAIL",
                      !.flag = (row.state = "WAITING_APPROVAL")])
  /\ UNCHANGED <<row, tables>>

ResolveApproval(p) ==
  /\ At(p, "resolve")
  /\ ResolveApprovalTxn(call[p].approval, IF call[p].verdict = "PASS" THEN "APPROVED" ELSE "REJECTED")
  /\ IF call[p].flag
     THEN Continue(p, [Idle EXCEPT !.at = "resolved", !.verdict = call[p].verdict])
     ELSE Return(p)
  /\ UNCHANGED <<row, evidence, registered, manifest>>

Resolved(p) ==
  /\ At(p, "resolved")
  /\ Move(p, IF call[p].verdict = "PASS" THEN "EVALUATING" ELSE "DESIGN_ESCALATION", "NONE")
  /\ Return(p)

(* accept: reads its evidence, then the accepting transaction.  The caller *)
(* names no approval only where none is required; the manifest repeats the *)
(* approval's status, so it has to be APPROVED when read.                  *)
ReadEvidence(p, a) ==
  /\ row.state = "EVALUATING"
  /\ VerificationPass(row.commit) # 0 /\ EvaluationPass(row.commit) # 0 /\ MakerOf(row.commit) # 0
  /\ a # 0 => approval[a].status = "APPROVED"
  /\ Continue(p, [Idle EXCEPT !.at = "accepting", !.version = row.version, !.gen = row.gen,
                    !.commit = row.commit, !.attempt = MakerOf(row.commit),
                    !.verification = VerificationPass(row.commit),
                    !.evaluation = EvaluationPass(row.commit), !.approval = a])
  /\ UNCHANGED <<row, tables>>

\* Mutant: whether an approval is required is not asked.
AcceptUnapproved(p) ==
  \/ At(p, "idle") /\ \E a \in {0} \cup DOMAIN approval : ReadEvidence(p, a)
  \/ At(p, "accept") /\ ReadEvidence(p, call[p].approval)

Accept(p) ==
  \/ At(p, "idle") /\ \E a \in {0} \cup DOMAIN approval :
       (a = 0 => ~ApprovalRequired) /\ ReadEvidence(p, a)
  \/ At(p, "accept") /\ ReadEvidence(p, call[p].approval)

AcceptExecution(p) ==
  /\ At(p, "accepting")
  /\ AcceptTxn(Id[p], call[p].gen, call[p].version,
       [commit |-> call[p].commit, maker |-> call[p].attempt, verification |-> call[p].verification,
        evaluation |-> call[p].evaluation, approval |-> call[p].approval])
  /\ Return(p)
  /\ UNCHANGED <<evidence, registered>>

\* advance: picks up an approval that was recorded but not acted on.
Advance(p) ==
  LET a == SelectLastInSeq(approval, LAMBDA r : r.status = "APPROVED" /\ ~r.consumed) IN
  /\ At(p, "idle") /\ a # 0
  /\ \/ row.state = "WAITING_APPROVAL" /\ Continue(p, [Idle EXCEPT !.at = "approved", !.approval = a])
     \/ row.state = "EVALUATING" /\ Continue(p, [Idle EXCEPT !.at = "accept", !.approval = a])
  /\ UNCHANGED <<row, tables>>

ApprovalRecorded(p) ==
  /\ At(p, "approved")
  /\ Move(p, "EVALUATING", "NONE")
  /\ To(p, "accept")

Cancel(p) == At(p, "idle") /\ Move(p, "CANCELLED", "NONE") /\ UNCHANGED call

Controls(p) ==
  \/ Acquire(p) \/ Schedule(p) \/ RegisterMaker(p) \/ MakerFails(p) \/ Block(p)
  \/ CommitCandidate(p) \/ FinishMaker(p) \/ RegisterCommit(p) \/ MakerSucceeded(p)
  \/ RecordVerification(p) \/ RegisterVerification(p) \/ Verified(p)
  \/ BeginEvaluator(p) \/ RegisterEvaluator(p) \/ SealEvaluator(p) \/ FailEvaluator(p)
  \/ CompleteEvaluator(p) \/ FinishEvaluator(p) \/ RegisterEvaluation(p) \/ Evaluated(p)
  \/ RequestApproval(p) \/ Resolve(p) \/ ResolveApproval(p) \/ Resolved(p)
  \/ Accept(p) \/ AcceptExecution(p) \/ Advance(p) \/ ApprovalRecorded(p) \/ Cancel(p)

-----------------------------------------------------------------------------
\* The handler is abandoned between two steps: a crash, or a StoreError.
Abandon(p) ==
  /\ call[p] # Idle
  /\ Return(p)
  /\ UNCHANGED <<row, tables>>

\* No handler sends a heartbeat: a lease not taken over ends after its TTL.
LeaseExpires ==
  /\ row.live
  /\ row' = [row EXCEPT !.live = FALSE]
  /\ UNCHANGED <<tables, call>>

=============================================================================
