--------------------------- MODULE CandidateClosure ---------------------------
(***************************************************************************)
(* The review of a candidate before it is committed: the Maker hands over  *)
(* uncommitted content, which is verified, evaluated between two seals,    *)
(* approved, and then committed to exactly the bytes that were reviewed.   *)
(*                                                                         *)
(* Anyone may edit the worktree at any time, so every handler reads the    *)
(* content again and compares it with the binding; between that and its    *)
(* transaction other steps run.  A write is fenced by lease generation,    *)
(* state version and authority generation.  The closing transaction spans  *)
(* the Git commands: while it is open no other transaction runs, but the   *)
(* process may die between any two commands.                               *)
(*                                                                         *)
(* Content is a number, and is also the identity of its candidate; the     *)
(* commit of content c is c.  One approval belongs to one evaluation.      *)
(***************************************************************************)
EXTENDS Naturals, Sequences, SequencesExt

CONSTANTS
  Author,      \* controllers
  NoOwner,     \* the NULL lease_owner
  Contents,    \* how many contents the worktree can have
  MaxMakers,   \* bounds: Maker attempts,
  MaxLeases,   \* lease generations,
  MaxMoves,    \* authority generations,
  MaxResults   \* and verification results

ASSUME ContentsAssumption == Contents \in Nat \ {0}

VARIABLES
  row,           \* the slice_execution row
  generation,    \* control_authority_state.authority_generation
  granted,       \* _candidate_authorizations of each controller
  work,          \* content of the worktree
  head,          \* head of the branch; 0: the expected parent
  makerOpen,     \* whether the current MAKER attempt is RUNNING
  provenance,    \* candidate_provenance: the content each Maker handed over
  verification,  \* candidate_verification_result
  evaluator,     \* candidate_evaluator_attempt with its seals
  evaluation,    \* candidate_evaluation_result
  approval,      \* approval_request and approval_candidate_binding, by evaluation
  intent,        \* evaluation of the candidate_commit_intent (0: none)
  closure,       \* evaluation of the candidate_commit_closure (0: none)
  step           \* the handler each controller is in

evidence == <<provenance, verification, evaluator, evaluation, approval>>
closing == <<head, intent, closure>>
closureVars == <<row, generation, granted, work, makerOpen, evidence, closing, step>>

Content == 1..Contents
NoHandler == [pc |-> "idle", ver |-> 0, id |-> 0]

ClosureTypeOK ==
  /\ row \in [state: {"MAKER_RUNNING", "VERIFYING", "EVALUATING", "WAITING_APPROVAL", "REWORK_READY",
                      "BLOCKED", "DESIGN_ESCALATION"},
              resume: {"NONE", "VERIFYING", "EVALUATING"}, version: Nat,
              owner: Author \cup {NoOwner}, gen: Nat, live: BOOLEAN, commit: 0..Contents]
  /\ generation \in Nat /\ granted \in [Author -> [gen: Nat, agen: Nat]]
  /\ work \in Content /\ head \in 0..Contents /\ makerOpen \in BOOLEAN
  /\ provenance \in Seq(Content)
  /\ verification \in Seq([content: Content, verdict: {"PASS", "FAIL"}, agen: Nat])
  /\ evaluator \in Seq([verification: Nat, gen: Nat, agen: Nat, seals: 0..2, open: BOOLEAN,
                       verdict: {"NONE", "PASS", "REWORK_REQUIRED", "BLOCKED"}])
  /\ evaluation \in Seq([attempt: Nat, content: Content, verdict: {"PASS", "REWORK_REQUIRED", "BLOCKED"},
                         agen: Nat])
  /\ approval \in [DOMAIN evaluation -> [status: {"NONE", "PENDING", "APPROVED", "REJECTED"},
                                         bound: BOOLEAN, consumed: BOOLEAN]]
  /\ intent \in 0..Len(evaluation) /\ closure \in {0, intent}
  /\ step \in [Author ->
       [pc: {"idle", "bind", "verifying", "verify", "passed", "failed", "evaluator", "seal", "evaluated",
             "judged", "request", "approve", "escalate", "close", "apply", "ref", "recheck", "record"},
        ver: Nat, id: Nat]]

ClosureInit ==
  /\ row = [state |-> "MAKER_RUNNING", resume |-> "NONE", version |-> 0, owner |-> NoOwner, gen |-> 0,
            live |-> FALSE, commit |-> 0]
  /\ generation = 1 /\ granted = [a \in Author |-> [gen |-> 0, agen |-> 0]]
  /\ work = 1 /\ head = 0 /\ makerOpen = TRUE /\ provenance = <<>> /\ verification = <<>>
  /\ evaluator = <<>> /\ evaluation = <<>> /\ approval = <<>> /\ intent = 0 /\ closure = 0
  /\ step = [a \in Author |-> NoHandler]

-----------------------------------------------------------------------------
(* _require_candidate_fence: what a controller was granted is still in     *)
(* force; ver is the state version the handler has read.                   *)
Granted(a) ==
  row.owner = a /\ row.live /\ granted[a] = [gen |-> row.gen, agen |-> generation]
Fence(a) == Granted(a) /\ row.version = step[a].ver

\* Mutant: the Git commands run outside the transaction.
NeverLocked == FALSE

\* BEGIN IMMEDIATE: the closing transaction keeps every other one out.
Locked == \E a \in Author : step[a].pc \in {"apply", "ref", "recheck", "record"}

AtStage(a, pc) == step[a].pc = pc
Go(a, pc) == step' = [step EXCEPT ![a].pc = pc]
Done(a) == step' = [step EXCEPT ![a] = NoHandler]
Enter(a, pc, id) ==
  AtStage(a, "idle") /\ Granted(a) /\ step' = [step EXCEPT ![a] = [pc |-> pc, ver |-> row.version, id |-> id]]

\* find_current_candidate_binding; _materialize_bound_candidate
Current == provenance[Len(provenance)]
Materialised(c) == head = 0 /\ work = c
EvaluatedContent(e) == evaluation[e].content

Move(to, resume) ==
  row' = [row EXCEPT !.state = to, !.resume = resume, !.version = @ + 1]

-----------------------------------------------------------------------------
(* The surroundings: leases, authority, edits, failures. *)
Acquire(a) ==
  /\ AtStage(a, "idle") /\ ~Locked /\ row.gen < MaxLeases
  /\ row.state # "DESIGN_ESCALATION"
  /\ row.owner = NoOwner \/ ~row.live
  /\ row' = [row EXCEPT !.owner = a, !.gen = @ + 1, !.live = TRUE, !.version = @ + 1]
  /\ granted' = [granted EXCEPT ![a] = [gen |-> row.gen + 1, agen |-> generation]]
  /\ UNCHANGED <<generation, work, makerOpen, evidence, closing, step>>

\* The lease expires with time, also under an open transaction.
ExpireLease ==
  /\ row.live /\ row' = [row EXCEPT !.live = FALSE]
  /\ UNCHANGED <<generation, granted, work, makerOpen, evidence, closing, step>>

\* A switch or rollback of the control authority.
MoveAuthority ==
  /\ ~Locked /\ generation < MaxMoves /\ generation' = generation + 1
  /\ UNCHANGED <<row, granted, work, makerOpen, evidence, closing, step>>

Edit ==
  /\ work' \in Content \ {work}
  /\ UNCHANGED <<row, generation, granted, makerOpen, evidence, closing, step>>

\* An exception leaves the handler (and rolls an open transaction back); a
\* process that dies also forgets what it was granted.
Fail(a) ==
  /\ ~AtStage(a, "idle") /\ Done(a)
  /\ \/ granted' = [granted EXCEPT ![a] = [gen |-> 0, agen |-> 0]]
     \/ UNCHANGED granted
  /\ UNCHANGED <<row, generation, work, makerOpen, evidence, closing>>

-----------------------------------------------------------------------------
(* complete_maker_precommit: one transaction appends the candidate and     *)
(* finishes the attempt, the next one moves the state.                     *)
HandOver(a) ==
  /\ row.state = "MAKER_RUNNING" /\ row.commit = 0
  /\ head = 0 /\ Enter(a, "bind", work)
  /\ UNCHANGED <<row, generation, granted, work, makerOpen, evidence, closing>>

BindPrecommitCandidate(a) ==
  /\ AtStage(a, "bind") /\ ~Locked /\ Fence(a)
  /\ row.state = "MAKER_RUNNING" /\ makerOpen
  /\ provenance' = Append(provenance, step[a].id) /\ makerOpen' = FALSE
  /\ Go(a, "verifying")
  /\ UNCHANGED <<row, generation, granted, work, verification, evaluator, evaluation, approval, closing>>

HandedOver(a) ==
  /\ AtStage(a, "verifying") /\ ~Locked /\ Fence(a) /\ row.state = "MAKER_RUNNING"
  /\ Move("VERIFYING", "NONE") /\ Done(a)
  /\ UNCHANGED <<generation, granted, work, makerOpen, evidence, closing>>

\* schedule_rework and a new Maker; unlike the candidate's handlers it only
\* needs the lease.
Rework(a) ==
  /\ AtStage(a, "idle") /\ ~Locked /\ row.owner = a /\ row.live
  /\ row.state = "REWORK_READY" /\ Len(provenance) < MaxMakers
  /\ Move("MAKER_RUNNING", "NONE") /\ makerOpen' = TRUE
  /\ UNCHANGED <<generation, granted, work, evidence, closing, step>>

\* resolve_block
Resume(a) ==
  /\ AtStage(a, "idle") /\ ~Locked /\ row.owner = a /\ row.live /\ row.state = "BLOCKED"
  /\ Move(row.resume, "NONE")
  /\ UNCHANGED <<generation, granted, work, makerOpen, evidence, closing, step>>

-----------------------------------------------------------------------------
(* record_candidate_verification *)
CheckVerification(a, c) ==
  /\ row.state = "VERIFYING" /\ row.commit = 0 /\ Len(verification) < MaxResults
  /\ c \in ToSet(provenance) /\ Materialised(c)
  /\ Enter(a, "verify", c)
  /\ UNCHANGED <<row, generation, granted, work, makerOpen, evidence, closing>>

RegisterVerification(a, verdict) ==
  /\ AtStage(a, "verify") /\ ~Locked /\ Fence(a) /\ row.state = "VERIFYING"
  /\ verification' = Append(verification, [content |-> step[a].id, verdict |-> verdict, agen |-> generation])
  /\ Go(a, IF verdict = "PASS" THEN "passed" ELSE "failed")
  /\ UNCHANGED <<row, generation, granted, work, makerOpen, provenance, evaluator, evaluation, approval,
                 closing>>

Verified(a) ==
  /\ ~Locked /\ Fence(a) /\ row.state = "VERIFYING"
  /\ \/ AtStage(a, "passed") /\ Move("EVALUATING", "NONE")
     \/ AtStage(a, "failed") /\ Move("BLOCKED", "VERIFYING")
  /\ Done(a)
  /\ UNCHANGED <<generation, granted, work, makerOpen, evidence, closing>>

-----------------------------------------------------------------------------
(* begin_precommit_evaluator, seal_precommit_evaluator_artifacts,          *)
(* complete_precommit_evaluator                                            *)
PassOf(c) == SelectLastInSeq(verification, LAMBDA v : v.content = c /\ v.verdict = "PASS")

CheckEvaluator(a) ==
  /\ row.state = "EVALUATING" /\ row.commit = 0
  /\ Materialised(Current) /\ PassOf(Current) # 0
  /\ Enter(a, "evaluator", PassOf(Current))
  /\ UNCHANGED <<row, generation, granted, work, makerOpen, evidence, closing>>

\* Mutant: a verification counts under any later authority.
BeginOnStaleVerification(a) ==
  LET v == step[a].id IN
  /\ AtStage(a, "evaluator") /\ ~Locked /\ Fence(a) /\ row.state = "EVALUATING"
  /\ \A i \in DOMAIN evaluator : evaluator[i].verification # v
  /\ evaluator' = Append(evaluator, [verification |-> v, gen |-> row.gen, agen |-> generation, seals |-> 0,
                                     open |-> TRUE, verdict |-> "NONE"])
  /\ Done(a)
  /\ UNCHANGED <<row, generation, granted, work, makerOpen, provenance, verification, evaluation, approval,
                 closing>>

\* begin_candidate_evaluator_attempt; a verification serves one attempt only.
BeginEvaluator(a) ==
  LET v == step[a].id IN
  /\ AtStage(a, "evaluator") /\ ~Locked /\ Fence(a) /\ row.state = "EVALUATING"
  /\ verification[v].agen = generation
  /\ \A i \in DOMAIN evaluator : evaluator[i].verification # v
  /\ evaluator' = Append(evaluator, [verification |-> v, gen |-> row.gen, agen |-> generation, seals |-> 0,
                                     open |-> TRUE, verdict |-> "NONE"])
  /\ Done(a)
  /\ UNCHANGED <<row, generation, granted, work, makerOpen, provenance, verification, evaluation, approval,
                 closing>>

Target(n) == verification[evaluator[n].verification].content
OwnAttempt(n) == evaluator[n].open /\ evaluator[n].gen = row.gen /\ evaluator[n].agen = generation

CheckSeal(a, n) ==
  /\ Materialised(Target(n)) /\ Enter(a, "seal", n)
  /\ UNCHANGED <<row, generation, granted, work, makerOpen, evidence, closing>>

\* PRE_EXECUTION, then POST_EXECUTION, which holds the result.
Seal(a, verdict) ==
  LET n == step[a].id IN
  /\ AtStage(a, "seal") /\ ~Locked /\ Fence(a) /\ OwnAttempt(n)
  /\ \/ evaluator[n].seals = 0 /\ evaluator' = [evaluator EXCEPT ![n].seals = 1]
     \/ /\ evaluator[n].seals = 1
        /\ evaluator' = [evaluator EXCEPT ![n] = [@ EXCEPT !.seals = 2, !.verdict = verdict]]
  /\ Done(a)
  /\ UNCHANGED <<row, generation, granted, work, makerOpen, provenance, verification, evaluation, approval,
                 closing>>

CheckCompletion(a, n) ==
  /\ Materialised(Target(n)) /\ Enter(a, "evaluated", n)
  /\ UNCHANGED <<row, generation, granted, work, makerOpen, evidence, closing>>

RegisterEvaluation(a) ==
  LET n == step[a].id
      verdict == evaluator[n].verdict IN
  /\ AtStage(a, "evaluated") /\ ~Locked /\ Fence(a) /\ row.state = "EVALUATING"
  /\ OwnAttempt(n) /\ evaluator[n].seals = 2
  /\ evaluation' = Append(evaluation,
       [attempt |-> n, content |-> Target(n), verdict |-> verdict, agen |-> generation])
  /\ approval' = Append(approval, [status |-> "NONE", bound |-> FALSE, consumed |-> FALSE])
  /\ evaluator' = [evaluator EXCEPT ![n].open = FALSE]
  /\ step' = [step EXCEPT ![a] = [@ EXCEPT !.pc = "judged", !.id = Len(evaluation) + 1]]
  /\ UNCHANGED <<row, generation, granted, work, makerOpen, provenance, verification, closing>>

\* A pass that needs no approval leaves the state as it is.
Judged(a) ==
  LET e == step[a].id IN
  /\ AtStage(a, "judged") /\ ~Locked /\ Fence(a)
  /\ \/ /\ evaluation[e].verdict = "PASS" /\ Move("WAITING_APPROVAL", "EVALUATING")
        /\ step' = [step EXCEPT ![a] = [@ EXCEPT !.pc = "request", !.ver = row.version + 1]]
     \/ evaluation[e].verdict = "PASS" /\ Done(a) /\ UNCHANGED row
     \/ evaluation[e].verdict = "REWORK_REQUIRED" /\ Move("REWORK_READY", "NONE") /\ Done(a)
     \/ evaluation[e].verdict = "BLOCKED" /\ Move("BLOCKED", "EVALUATING") /\ Done(a)
  /\ UNCHANGED <<generation, granted, work, makerOpen, evidence, closing>>

\* request_approval and bind_candidate_approval are two transactions.
RequestApproval(a) ==
  LET e == step[a].id IN
  /\ AtStage(a, "request") /\ ~Locked /\ Fence(a) /\ row.state = "WAITING_APPROVAL"
  /\ approval' = [approval EXCEPT ![e].status = "PENDING"] /\ Go(a, "approve")
  /\ UNCHANGED <<row, generation, granted, work, makerOpen, provenance, verification, evaluator, evaluation,
                 closing>>

BindApproval(a) ==
  LET e == step[a].id IN
  /\ AtStage(a, "approve") /\ ~Locked /\ Fence(a) /\ evaluation[e].agen = generation
  /\ approval' = [approval EXCEPT ![e].bound = TRUE] /\ Done(a)
  /\ UNCHANGED <<row, generation, granted, work, makerOpen, provenance, verification, evaluator, evaluation,
                 closing>>

\* resolve_precommit_approval; a rejection escalates in a second step.
ResolveApproval(a, e, status) ==
  /\ ~Locked /\ row.state = "WAITING_APPROVAL"
  /\ approval[e].bound /\ ~approval[e].consumed /\ approval[e].status \in {"PENDING", status}
  /\ IF status = "REJECTED" THEN Enter(a, "escalate", e) ELSE AtStage(a, "idle") /\ Granted(a) /\ UNCHANGED step
  /\ approval' = [approval EXCEPT ![e].status = status]
  /\ UNCHANGED <<row, generation, granted, work, makerOpen, provenance, verification, evaluator, evaluation,
                 closing>>

Escalate(a) ==
  /\ AtStage(a, "escalate") /\ ~Locked /\ Fence(a)
  /\ row.state = "WAITING_APPROVAL"
  /\ Move("DESIGN_ESCALATION", "NONE") /\ Done(a)
  /\ UNCHANGED <<generation, granted, work, makerOpen, evidence, closing>>

-----------------------------------------------------------------------------
(* close_precommit_candidate *)

\* _candidate_closure_authority, before and after the closure.
MayClose(e) ==
  /\ evaluation[e].verdict = "PASS" /\ evaluation[e].agen = generation
  /\ approval[e].bound /\ approval[e].status = "APPROVED"
  /\ \/ closure = e
     \/ ~approval[e].consumed /\ row.state = "WAITING_APPROVAL" /\ row.commit = 0

\* prepare_candidate_commit: the one intent of the execution, made of the
\* reviewed bytes, or the same one again.
PrepareCommit(a, e) ==
  /\ ~Locked /\ MayClose(e)
  /\ \/ intent = e /\ UNCHANGED intent
     \/ intent = 0 /\ Materialised(EvaluatedContent(e)) /\ intent' = e
  /\ Enter(a, "close", e)
  /\ UNCHANGED <<row, generation, granted, work, makerOpen, evidence, head, closure>>

\* close_candidate_to_commit opens its transaction; the plan is applied at
\* the parent or, after a crash, found applied.
OpenClosing(a) ==
  LET e == step[a].id IN
  /\ AtStage(a, "close") /\ ~Locked /\ Fence(a) /\ intent = e /\ MayClose(e)
  /\ \/ head = 0 /\ Materialised(EvaluatedContent(e)) /\ Go(a, "apply")
     \/ head = EvaluatedContent(e) /\ Go(a, "recheck")
  /\ UNCHANGED <<row, generation, granted, work, makerOpen, evidence, closing>>

\* The fence is checked right before update-ref, which is not part of it.
CheckFence(a) ==
  /\ AtStage(a, "apply") /\ Fence(a) /\ Go(a, "ref")
  /\ UNCHANGED <<row, generation, granted, work, makerOpen, evidence, closing>>

UpdateRef(a) ==
  /\ AtStage(a, "ref") /\ head = 0
  /\ head' = EvaluatedContent(intent) /\ Go(a, "recheck")
  /\ UNCHANGED <<row, generation, granted, work, makerOpen, evidence, intent, closure>>

\* Every accepted byte of the worktree is compared with the commit.
Recheck(a) ==
  /\ AtStage(a, "recheck") /\ Fence(a) /\ work = head /\ Go(a, "record")
  /\ UNCHANGED <<row, generation, granted, work, makerOpen, evidence, closing>>

\* Mutant: the closure is recorded though the commit is yet to be applied.
RecordUnapplied(a) ==
  LET e == step[a].id IN
  /\ step[a].pc \in {"apply", "record"} /\ Fence(a)
  /\ closure = 0
  /\ closure' = e /\ approval' = [approval EXCEPT ![e].consumed = TRUE]
  /\ row' = [row EXCEPT !.state = "VERIFYING", !.resume = "NONE", !.version = @ + 1,
                        !.commit = EvaluatedContent(e)]
  /\ Done(a)
  /\ UNCHANGED <<generation, granted, work, makerOpen, provenance, verification, evaluator, evaluation, head,
                 intent>>

\* _record_candidate_commit_closure and COMMIT; a replay records nothing.
RecordClosure(a) ==
  LET e == step[a].id IN
  /\ AtStage(a, "record") /\ Fence(a)
  /\ IF closure = e
     THEN UNCHANGED <<row, approval, closure>>
     ELSE /\ closure' = e /\ approval' = [approval EXCEPT ![e].consumed = TRUE]
          /\ row' = [row EXCEPT !.state = "VERIFYING", !.resume = "NONE", !.version = @ + 1,
                                !.commit = EvaluatedContent(e)]
  /\ Done(a)
  /\ UNCHANGED <<generation, granted, work, makerOpen, provenance, verification, evaluator, evaluation, head,
                 intent>>

-----------------------------------------------------------------------------
ClosureNext ==
  \/ ExpireLease \/ MoveAuthority \/ Edit
  \/ \E a \in Author :
       \/ Acquire(a) \/ Fail(a)
       \/ HandOver(a) \/ BindPrecommitCandidate(a) \/ HandedOver(a) \/ Rework(a) \/ Resume(a)
       \/ \E c \in Content : CheckVerification(a, c)
       \/ \E verdict \in {"PASS", "FAIL"} : RegisterVerification(a, verdict)
       \/ Verified(a) \/ CheckEvaluator(a) \/ BeginEvaluator(a)
       \/ \E n \in DOMAIN evaluator : CheckSeal(a, n) \/ CheckCompletion(a, n)
       \/ \E verdict \in {"PASS", "REWORK_REQUIRED", "BLOCKED"} : Seal(a, verdict)
       \/ RegisterEvaluation(a) \/ Judged(a) \/ RequestApproval(a) \/ BindApproval(a)
       \/ \E e \in DOMAIN evaluation :
            \/ \E status \in {"APPROVED", "REJECTED"} : ResolveApproval(a, e, status)
            \/ PrepareCommit(a, e)
       \/ Escalate(a) \/ OpenClosing(a) \/ CheckFence(a) \/ UpdateRef(a) \/ Recheck(a) \/ RecordClosure(a)

ClosureSpec == ClosureInit /\ [][ClosureNext]_closureVars

-----------------------------------------------------------------------------
(* Properties. *)

\* What stands on the branch is what was reviewed, byte for byte: a Maker
\* handed it over, it passed verification and a twice sealed evaluation, a
\* human approved that evaluation, all under one authority generation, and
\* the intent was durable before the branch moved.
ReviewedIsCommitted ==
  head # 0 =>
    /\ intent # 0 /\ head = EvaluatedContent(intent) /\ head \in ToSet(provenance)
    /\ approval[intent].status = "APPROVED" /\ approval[intent].bound
    /\ LET e == evaluation[intent]
           n == evaluator[e.attempt]
           v == verification[n.verification] IN
         /\ e.verdict = "PASS" /\ n.verdict = "PASS" /\ v.verdict = "PASS" /\ v.content = head
         /\ e.agen = n.agen /\ n.agen = v.agen

\* Database and Git agree whatever died between the commands: a recorded
\* closure has its commit on the branch and in the execution row, and an
\* approval is consumed by that closure and nothing else.
ClosureOnBranch ==
  /\ closure # 0 => head = EvaluatedContent(closure) /\ row.commit = head
  /\ row.commit # 0 => closure # 0
  /\ \A e \in DOMAIN approval : approval[e].consumed <=> closure = e /\ e # 0

\* The branch moves while no newer lease or authority generation exists than
\* the one the closing controller was granted, though the lease itself may
\* have expired since the last check.
MovesUnderFence ==
  head' # head =>
    \E a \in Author :
      AtStage(a, "ref") /\ row.owner = a /\ granted[a] = [gen |-> row.gen, agen |-> generation]

RefMovesUnderFence == [][MovesUnderFence]_closureVars
=============================================================================
