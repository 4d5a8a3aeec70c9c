-------------------------- MODULE ExecutionRecovery --------------------------
(***************************************************************************)
(* RecoveryManager.resume_once beside the handlers of Execution, and the   *)
(* properties of the whole.  resume_once takes the lease if it has to,     *)
(* remembers the row and whether the lease was another's or expired, reads *)
(* the latest evidence and drives the execution one boundary further.      *)
(***************************************************************************)
EXTENDS Execution

\* What resume_once remembers of the row it holds the lease on (r).
Resuming(stage, r, recovered) ==
  [Idle EXCEPT !.at = stage, !.version = r.version, !.gen = r.gen, !.commit = r.commit,
               !.reworks = r.reworks, !.flag = recovered]

(* resume_once and _ensure_fence; in READY and REWORK_READY it only        *)
(* reports SCHEDULE_MAKER.                                                 *)
Resume(p) ==
  /\ At(p, "idle") /\ row.state \notin Terminal \cup {"BLOCKED"}
  /\ LET own == row.owner = Id[p] /\ row.live
         recovered == ~own /\ row.owner # NoOwner
         then(stage) == Continue(p, Resuming(stage, row', recovered))
     IN /\ \/ own /\ UNCHANGED row
           \/ row.gen < MaxGen /\ AcquireLease(Id[p])
        /\ \/ row.state \in {"READY", "REWORK_READY"} /\ Return(p)
           \/ row.state = "MAKER_RUNNING" /\ then("resume_maker")
           \/ row.state = "VERIFYING" /\ then("resume_verification")
           \/ row.state = "EVALUATING" /\ then("resume_evaluation")
           \/ row.state = "WAITING_APPROVAL" /\ then("resume_approval")
  /\ UNCHANGED tables

-----------------------------------------------------------------------------
(* _resume_maker, by the latest maker attempt and the commit it read in    *)
(* the row; a candidate commit may turn out not to be in Git.              *)
ResumeMaker(p) ==
  LET n == Len(maker)
      c == call[p].commit
      resume == MakerResume(n, call[p].reworks)
      succeeded == n # 0 /\ maker[n].status = "SUCCEEDED"
      mismatch == n # 0 /\ c # 0 /\ maker[n].commit # 0 /\ maker[n].commit # c
      running == n # 0 /\ c = 0 /\ maker[n].status = "RUNNING"
  IN
  /\ At(p, "resume_maker")
  /\ \/ n = 0 /\ Continue(p, Blocking("READY"))
     \/ succeeded /\ ~mismatch /\ c = 0
        /\ Continue(p, [Idle EXCEPT !.at = "register", !.commit = maker[n].commit])
     \/ succeeded /\ ~mismatch /\ c # 0 /\ Continue(p, [Idle EXCEPT !.at = "made"])
     \/ running /\ ~call[p].flag /\ Return(p)
     \/ running /\ call[p].flag
        /\ Continue(p, [Idle EXCEPT !.at = "lose_maker", !.attempt = n, !.resume = resume])
     \/ n # 0 /\ ~running /\ Continue(p, Blocking(resume))
  /\ UNCHANGED <<row, tables>>

\* A RUNNING attempt of a lost lease becomes LOST, unless it finished meanwhile.
LoseMaker(p) ==
  /\ At(p, "lose_maker")
  /\ FinishMakerTxn(call[p].attempt, "LOST", 0)
  /\ Continue(p, Blocking(call[p].resume))
  /\ UNCHANGED <<row, evaluator, verification, evaluation, approval, registered, manifest>>

\* _resume_verification
ResumeVerification(p) ==
  LET v == VerificationOf(call[p].commit) IN
  /\ At(p, "resume_verification")
  /\ IF v = 0 THEN Return(p)
     ELSE Continue(p, [Idle EXCEPT !.at = "verified", !.verdict = verification[v].verdict])
  /\ UNCHANGED <<row, tables>>

-----------------------------------------------------------------------------
(* _resume_evaluation: a stored evaluation of the commit is acted on; else *)
(* the latest evaluator attempt, whatever its commit, decides.  Either way *)
(* the sealed files may be gone or altered since: the execution is blocked.*)
ResumeEvaluation(p) ==
  LET c == call[p].commit
      e == EvaluationOf(c)
      n == Len(evaluator)
      next(stage) == Continue(p, [call[p] EXCEPT !.at = stage, !.attempt = n])
  IN
  /\ At(p, "resume_evaluation")
  /\ \/ /\ e # 0
        /\ \/ Continue(p, [call[p] EXCEPT !.at = "decide", !.evaluation = e])
           \/ Continue(p, Blocking("EVALUATING"))
     \/ e = 0 /\ n = 0 /\ Return(p)
     \/ /\ e = 0 /\ n # 0
        /\ \/ evaluator[n].status = "RUNNING" /\ ~call[p].flag /\ Return(p)
           \/ /\ evaluator[n].status = "RUNNING" /\ call[p].flag
              /\ next(IF evaluator[n].verdict = "NONE" THEN "lose_evaluator" ELSE "recover_evaluator")
           \/ evaluator[n].status # "RUNNING" /\ Continue(p, Blocking("EVALUATING"))
           \/ evaluator[n].status = "SUCCEEDED" /\ evaluator[n].commit = c /\ next("recover_evaluation")
  /\ UNCHANGED <<row, tables>>

LoseEvaluator(p) ==
  /\ At(p, "lose_evaluator")
  /\ FinishEvaluatorTxn(call[p].attempt, "LOST")
  /\ Continue(p, Blocking("EVALUATING"))
  /\ UNCHANGED <<row, maker, verification, evaluation, approval, registered, manifest>>

\* The sealed attempt is finished as SUCCEEDED, fenced; any StoreError blocks,
\* and so does an evaluation that cannot be rebuilt from the seal.
RecoverEvaluator(p) ==
  LET n == call[p].attempt
      ok == /\ Fenced(Id[p], call[p].gen) /\ row.state = "EVALUATING"
            /\ evaluator[n].status = "RUNNING" /\ evaluator[n].commit = call[p].commit
  IN
  /\ At(p, "recover_evaluator")
  /\ \/ /\ ok /\ FinishEvaluatorTxn(n, "SUCCEEDED")
        /\ To(p, "recover_evaluation") \/ Continue(p, Blocking("EVALUATING"))
     \/ UNCHANGED evaluator /\ Continue(p, Blocking("EVALUATING"))
  /\ UNCHANGED <<row, maker, verification, evaluation, approval, registered, manifest>>

(* The verdict.  An execution with a PASS is accepted with the one         *)
(* approval it has, sent to WAITING_APPROVAL, or accepted without one; an  *)
(* approval that is consumed, ambiguous or bound elsewhere stops recovery. *)
Decide(p) ==
  LET e == call[p].evaluation
      bound(version) == Refers(1, version, call[p].commit, e) /\ ~approval[1].consumed
      approved == approval # <<>> /\ approval[1].status = "APPROVED"
      accept(a) == Continue(p, [Idle EXCEPT !.at = "accept", !.approval = a]) /\ UNCHANGED <<row, tables>>
  IN
  /\ At(p, "decide")
  /\ \/ NotPassed(p, evaluation[e].verdict, call[p].reworks)
     \/ /\ evaluation[e].verdict = "PASS" /\ Len(approval) <= 1
        /\ \/ approved /\ bound(call[p].version - 1) /\ accept(1)
           \/ ~approved /\ ~ApprovalRequired /\ accept(0)
           \/ /\ ~approved /\ ApprovalRequired
              /\ approval # <<>> => bound(call[p].version + 1)
              /\ Move(p, "WAITING_APPROVAL", "EVALUATING")
              /\ Continue(p, [call[p] EXCEPT !.at = "ensure", !.version = row'.version, !.gen = row.gen])

\* _ensure_approval
Ensure(p) ==
  /\ At(p, "ensure") /\ approval = <<>>
  /\ Continue(p, [Idle EXCEPT !.at = "request", !.version = call[p].version, !.gen = call[p].gen,
                    !.commit = call[p].commit, !.evaluation = call[p].evaluation])
  /\ UNCHANGED <<row, tables>>

(* _resume_approval: the request may never have been made (a crash after   *)
(* the transition), be pending, or be decided but not acted on.            *)
ResumeApproval(p) ==
  LET e == EvaluationOf(call[p].commit) IN
  /\ At(p, "resume_approval") /\ e # 0
  /\ \/ /\ approval = <<>> /\ ApprovalRequired /\ evaluation[e].verdict = "PASS"
        /\ Continue(p, [call[p] EXCEPT !.at = "ensure", !.evaluation = e])
     \/ /\ Len(approval) = 1
        /\ Refers(1, call[p].version, call[p].commit, e) /\ ~approval[1].consumed
        /\ \/ approval[1].status = "PENDING" /\ Return(p)
           \/ approval[1].status = "APPROVED" /\ Continue(p, [Idle EXCEPT !.at = "approved", !.approval = 1])
           \/ approval[1].status = "REJECTED" /\ Continue(p, [Idle EXCEPT !.at = "resolved", !.verdict = "FAIL"])
  /\ UNCHANGED <<row, tables>>

Recovers(p) ==
  \/ Resume(p) \/ ResumeMaker(p) \/ LoseMaker(p) \/ ResumeVerification(p)
  \/ ResumeEvaluation(p) \/ LoseEvaluator(p) \/ RecoverEvaluator(p)
  \/ Decide(p) \/ Ensure(p) \/ ResumeApproval(p)

Next == LeaseExpires \/ \E p \in Proc : Controls(p) \/ Recovers(p) \/ Abandon(p)

Spec == Init /\ [][Next]_vars

-----------------------------------------------------------------------------
(* Wherever the state says that a step of the work has been done, evidence *)
(* for the very commit the row names says so too, although the row, the    *)
(* attempts and the results are written in different transactions, some of *)
(* them without a fence.                                                   *)
StateHasEvidence ==
  /\ row.state \in {"VERIFYING", "EVALUATING", "WAITING_APPROVAL"} => MakerOf(row.commit) # 0
  /\ row.state \in {"EVALUATING", "WAITING_APPROVAL"} => VerificationPass(row.commit) # 0
  /\ row.state = "WAITING_APPROVAL" => EvaluationPass(row.commit) # 0

(* An execution is accepted on the evidence its manifest names, all of it  *)
(* about the accepted commit, and stays so: neither a handler that read    *)
(* its evidence long ago nor one that registers a commit late leaves an    *)
(* accepted row that its own evidence does not cover.                      *)
Covered ==
  /\ manifest.commit = row.commit
  /\ maker[manifest.maker].status = "SUCCEEDED" /\ maker[manifest.maker].commit = row.commit
  /\ verification[manifest.verification] = [commit |-> row.commit, verdict |-> "PASS"]
  /\ LET e == evaluation[manifest.evaluation] IN
       e.verdict = "PASS" /\ e.commit = row.commit /\ evaluator[e.attempt].commit = row.commit

AcceptedOnEvidence == row.state = "ACCEPTED" => Covered

(* Even between processes that share one controller id, and so each        *)
(* other's fence, the accepting step finds evidence that covers the commit *)
(* at that moment: accept_execution revalidates what its caller read.      *)
AcceptsOnEvidence ==
  [][row.state # "ACCEPTED" /\ row'.state = "ACCEPTED" => Covered']_vars

(* Where every caller asks for human approval, an execution is accepted    *)
(* only by consuming an approval given for the commit and the evaluation   *)
(* it is accepted on: no crash between the evaluation result, the state    *)
(* transition and the approval request opens a way round it.               *)
AcceptedAsApproved ==
  ApprovalRequired /\ row.state = "ACCEPTED" =>
    /\ manifest.approval # 0
    /\ LET a == approval[manifest.approval] IN
         /\ a.consumed /\ a.status = "APPROVED"
         /\ a.commit = row.commit /\ a.evaluation = manifest.evaluation
    /\ \A i \in DOMAIN approval : approval[i].consumed => i = manifest.approval

(* schedule_rework: "Consume rework budget only when a new Maker attempt   *)
(* is scheduled."  While the execution goes on, every unit consumed has    *)
(* had its attempt.                                                        *)
BudgetBuysAttempts ==
  row.state \notin {"MAKER_RUNNING", "CANCELLED"} /\ row.reworks > 0 => row.reworks < Len(maker)

(* An execution waiting for an evaluator is blocked only on account of an  *)
(* evaluator attempt on its own commit; without one, recovery reports      *)
(* SCHEDULE_EVALUATOR.                                                     *)
BlockedByOwnEvaluator ==
  [][row.state = "EVALUATING" /\ row'.state = "BLOCKED"
       => \E n \in DOMAIN evaluator : evaluator[n].commit = row.commit]_vars

=============================================================================
