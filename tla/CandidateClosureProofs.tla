------------------------ MODULE CandidateClosureProofs ------------------------
(***************************************************************************)
(* What was reviewed is what stands on the branch, for any controllers,    *)
(* contents and bounds.                                                    *)
(***************************************************************************)
EXTENDS CandidateClosure, WellFoundedInduction, TLAPS

-----------------------------------------------------------------------------
(* The invariant. *)

\* The rows of the tables and the state of a handler.
State == {"MAKER_RUNNING", "VERIFYING", "EVALUATING", "WAITING_APPROVAL", "REWORK_READY",
          "BLOCKED", "DESIGN_ESCALATION"}
ResumeState == {"NONE", "VERIFYING", "EVALUATING"}
Owners == Author \cup {NoOwner}
Commits == 0..Contents
ExecutionRow == [state: State, resume: ResumeState, version: Nat, owner: Owners, gen: Nat,
                 live: BOOLEAN, commit: Commits]
\* A blocked execution knows where it resumes.
Rows == {r \in ExecutionRow : r.state = "BLOCKED" => r.resume # "NONE"}
VerificationRow == [content: Content, verdict: {"PASS", "FAIL"}, agen: Nat]
Seals == 0..2
Result == {"NONE", "PASS", "REWORK_REQUIRED", "BLOCKED"}
AttemptRow == [verification: Nat, gen: Nat, agen: Nat, seals: Seals, open: BOOLEAN, verdict: Result]
EvaluationRow == [attempt: Nat, content: Content, verdict: {"PASS", "REWORK_REQUIRED", "BLOCKED"},
                  agen: Nat]
ApprovalRow == [status: {"NONE", "PENDING", "APPROVED", "REJECTED"}, bound: BOOLEAN, consumed: BOOLEAN]
Stage == {"idle", "bind", "verifying", "verify", "passed", "failed", "evaluator", "seal", "evaluated",
          "judged", "request", "approve", "escalate", "close", "apply", "ref", "recheck", "record"}
Handler == [pc: Stage, ver: Nat, id: Nat]
Grant == [gen: Nat, agen: Nat]

StateTypes ==
  /\ row \in Rows /\ generation \in Nat /\ granted \in [Author -> Grant]
  /\ work \in Content /\ makerOpen \in BOOLEAN

TableTypes ==
  /\ provenance \in Seq(Content) /\ verification \in Seq(VerificationRow)
  /\ evaluator \in Seq(AttemptRow) /\ evaluation \in Seq(EvaluationRow)
  /\ approval \in Seq(ApprovalRow) /\ Len(approval) = Len(evaluation)
  /\ head \in 0..Contents /\ intent \in 0..Len(evaluation) /\ closure \in {0, intent}

(* Each row rests on the row before it: a verification on content a Maker  *)
(* handed over, an evaluator on a verification that passed under the same  *)
(* authority, an evaluation on the sealed result of its evaluator.         *)
Chain ==
  /\ \A v \in DOMAIN verification : verification[v].content \in ToSet(provenance)
  /\ \A n \in DOMAIN evaluator :
       LET v == evaluator[n].verification IN
         /\ v \in DOMAIN verification /\ verification[v].verdict = "PASS"
         /\ verification[v].agen = evaluator[n].agen
         /\ evaluator[n].seals = 2 => evaluator[n].verdict # "NONE"
  /\ \A e \in DOMAIN evaluation :
       LET n == evaluation[e].attempt IN
         /\ n \in DOMAIN evaluator /\ evaluator[n].seals = 2
         /\ evaluation[e].verdict = evaluator[n].verdict /\ evaluation[e].agen = evaluator[n].agen
         /\ evaluation[e].content = Target(n)

\* Only a bound approval is given, and only the closure consumes one.
Approvals ==
  \A e \in DOMAIN evaluation :
    /\ approval[e].status = "APPROVED" => approval[e].bound
    /\ approval[e].consumed <=> closure = e

\* The intent is of an approved evaluation, the branch moves to its content,
\* and the closure and the execution row record that.
Closings ==
  /\ intent # 0 => /\ evaluation[intent].verdict = "PASS"
                   /\ approval[intent].status = "APPROVED" /\ approval[intent].bound
  /\ head # 0 => intent # 0 /\ head = EvaluatedContent(intent)
  /\ closure # 0 => head = EvaluatedContent(closure) /\ row.commit = head
  /\ row.commit # 0 => closure # 0

Tables == TableTypes /\ Chain /\ Approvals /\ Closings

\* The stages between an evaluation and its bound approval request.
Judging == {"judged", "request", "approve"}
\* The stages of the closing transaction.
Open == {"apply", "ref", "recheck", "record"}

\* What a handler remembers across its steps is still so.
Remembers(s) ==
  /\ s.pc = "bind" => s.id \in Content
  /\ s.pc = "verify" => s.id \in ToSet(provenance)
  /\ s.pc = "evaluator" => s.id \in DOMAIN verification /\ verification[s.id].verdict = "PASS"
  /\ s.pc \in {"seal", "evaluated"} => s.id \in DOMAIN evaluator
  /\ s.pc \in Judging => s.id \in DOMAIN evaluation /\ ~approval[s.id].bound
  /\ s.pc \in {"escalate", "close"} \cup Open => s.id \in DOMAIN evaluation
  /\ s.pc \in Open => intent = s.id
  /\ s.pc \in {"recheck", "record"} => head = EvaluatedContent(s.id)

\* One handler at a time has the approval request of an evaluation to make.
SoleJudge ==
  \A a, b \in Author :
    step[a].pc \in Judging /\ step[b].pc \in Judging /\ step[a].id = step[b].id => a = b

\* update-ref runs under what its controller was granted.
RefGranted ==
  \A a \in Author :
    step[a].pc = "ref" => row.owner = a /\ granted[a] = [gen |-> row.gen, agen |-> generation]

Handlers ==
  /\ step \in [Author -> Handler]
  /\ \A a \in Author : Remembers(step[a])
  /\ SoleJudge /\ RefGranted

ClosureInv == StateTypes /\ Tables /\ Handlers

-----------------------------------------------------------------------------
(* Sequences. *)

\* A nonempty set of indices has a greatest element.
LEMMA Greatest ==
  ASSUME NEW n \in Nat, NEW I \in SUBSET (1..n), I # {}
  PROVE  \E x \in I : \A y \in I : x >= y
<1> DEFINE R == {ss \in Nat \X Nat : ss[1] < ss[2]}
           T == {n - i : i \in I}
<1>1. IsWellFoundedOn(R, Nat)
  BY NatLessThanWellFounded DEF OpToRel
<1>2. T \subseteq Nat
  OBVIOUS
<1>3. PICK t \in T : \A u \in T : ~ (<<u, t>> \in R)
  <2>1. PICK i \in I : TRUE
    OBVIOUS
  <2>2. n - i \in T
    OBVIOUS
  <2> HIDE DEF R, T
  <2>3. QED
    BY <1>1, <1>2, <2>2, WFMin
<1>4. PICK x \in I : t = n - x
  OBVIOUS
<1>5. ASSUME NEW y \in I PROVE x >= y
  <2>1. n - y \in T
    OBVIOUS
  <2>2. n - y \in Nat /\ t \in Nat
    OBVIOUS
  <2>3. ~(n - y < t)
    BY <1>3, <2>1, <2>2
  <2>4. QED
    BY <1>4, <2>3
<1>6. QED
  BY <1>5

\* The greatest element that Max chooses is one of them.
LEMMA MaxIn ==
  ASSUME NEW n \in Nat, NEW I \in SUBSET (1..n), I # {}
  PROVE  Max(I) \in I
BY Greatest DEF Max

\* Appending a row keeps the others.
LEMMA Appended ==
  ASSUME NEW T, NEW s \in Seq(T), NEW e \in T
  PROVE  /\ Append(s, e) \in Seq(T)
         /\ Len(s) + 1 \in DOMAIN Append(s, e)
         /\ Append(s, e)[Len(s) + 1] = e
         /\ \A i \in DOMAIN s : i \in DOMAIN Append(s, e) /\ Append(s, e)[i] = s[i]
         /\ \A i \in DOMAIN Append(s, e) : i \in DOMAIN s \/ i = Len(s) + 1
OBVIOUS

\* Replacing a row, as an UPDATE of it does, keeps the others and adds none.
LEMMA Replaced ==
  ASSUME NEW T, NEW s \in Seq(T), NEW n, NEW e, n \in DOMAIN s => e \in T
  PROVE  /\ [s EXCEPT ![n] = e] \in Seq(T)
         /\ DOMAIN [s EXCEPT ![n] = e] = DOMAIN s
         /\ \A i \in DOMAIN s : [s EXCEPT ![n] = e][i] = IF i = n THEN e ELSE s[i]
<1> DEFINE t == [s EXCEPT ![n] = e]
<1>1. s \in [1..Len(s) -> T] /\ DOMAIN s = 1..Len(s) /\ Len(s) \in Nat
  OBVIOUS
<1>2. DOMAIN t = DOMAIN s /\ \A i \in DOMAIN s : t[i] = IF i = n THEN e ELSE s[i]
  OBVIOUS
<1>3. t \in [1..Len(s) -> T]
  BY <1>1, <1>2
<1>4. t \in Seq(T)
  BY <1>1, <1>3
<1>5. QED
  BY <1>2, <1>4

\* Rows have their types.
LEMMA RowTypes ==
  ASSUME TableTypes
  PROVE  /\ \A i \in DOMAIN provenance : provenance[i] \in Content
         /\ \A i \in DOMAIN verification : verification[i] \in VerificationRow
         /\ \A i \in DOMAIN evaluator : evaluator[i] \in AttemptRow
         /\ \A i \in DOMAIN evaluation : evaluation[i] \in EvaluationRow
         /\ \A i \in DOMAIN approval : approval[i] \in ApprovalRow
         /\ DOMAIN verification \subseteq Nat /\ DOMAIN evaluator \subseteq Nat
         /\ DOMAIN evaluation = 1..Len(evaluation) /\ DOMAIN approval = DOMAIN evaluation
         /\ Len(evaluation) \in Nat
<1>1. ASSUME NEW T, NEW s \in Seq(T)
      PROVE  (\A i \in DOMAIN s : s[i] \in T) /\ DOMAIN s = 1..Len(s) /\ Len(s) \in Nat /\ DOMAIN s \subseteq Nat
  OBVIOUS
<1>2. QED
  BY <1>1 DEF TableTypes

\* The verification PassOf finds is one that passed.
LEMMA PassOfFinds ==
  ASSUME TableTypes, NEW c
  PROVE  PassOf(c) # 0 => PassOf(c) \in DOMAIN verification /\ verification[PassOf(c)].verdict = "PASS"
<1> DEFINE I == {i \in 1..Len(verification) : verification[i].content = c /\ verification[i].verdict = "PASS"}
<1>1. DOMAIN verification = 1..Len(verification) /\ Len(verification) \in Nat
  BY DEF TableTypes
<1>2. I # {} => Max(I) \in I
  BY <1>1, MaxIn
<1>3. PassOf(c) = IF I # {} THEN Max(I) ELSE 0
  BY DEF PassOf, SelectLastInSeq
<1>4. QED
  BY <1>1, <1>2, <1>3

-----------------------------------------------------------------------------
(* What each write does to the tables, and to what the handlers remember. *)

Keeps == \A s \in Handler : Remembers(s) => Remembers(s)'

\* A Maker hands content over.
LEMMA ContentProvided ==
  ASSUME Tables, NEW c \in Content, provenance' = Append(provenance, c), row'.commit = row.commit,
         UNCHANGED <<verification, evaluator, evaluation, approval, closing>>
  PROVE  Tables' /\ Keeps
<1>1. provenance \in Seq(Content)
  BY DEF Tables, TableTypes
<1>2. provenance' \in Seq(Content) /\ ToSet(provenance) \subseteq ToSet(provenance')
  BY <1>1, Appended DEF ToSet
<1>3. UNCHANGED <<head, intent, closure>>
  BY DEF closing
<1>4. TableTypes'
  BY <1>2, <1>3 DEF Tables, TableTypes
<1>5. Chain'
  BY <1>2 DEF Tables, Chain, Target
<1>6. Approvals' /\ Closings'
  BY <1>3 DEF Tables, Approvals, Closings, EvaluatedContent
<1>7. Keeps
  BY <1>2, <1>3 DEF Keeps, Remembers, EvaluatedContent
<1>8. QED
  BY <1>4, <1>5, <1>6, <1>7 DEF Tables

\* A verification is registered.
LEMMA VerificationRegistered ==
  ASSUME Tables, NEW e \in VerificationRow, e.content \in ToSet(provenance),
         verification' = Append(verification, e), row'.commit = row.commit,
         UNCHANGED <<provenance, evaluator, evaluation, approval, closing>>
  PROVE  Tables' /\ Keeps
<1>1. verification \in Seq(VerificationRow)
  BY DEF Tables, TableTypes
<1>2. /\ verification' \in Seq(VerificationRow)
      /\ Len(verification) + 1 \in DOMAIN verification' /\ verification'[Len(verification) + 1] = e
      /\ \A i \in DOMAIN verification : i \in DOMAIN verification' /\ verification'[i] = verification[i]
      /\ \A i \in DOMAIN verification' : i \in DOMAIN verification \/ i = Len(verification) + 1
  BY <1>1, Appended
<1>3. UNCHANGED <<head, intent, closure>>
  BY DEF closing
<1>4. TableTypes'
  BY <1>2, <1>3 DEF Tables, TableTypes
<1>5. Chain'
  BY <1>2 DEF Tables, Chain, Target
<1>6. Approvals' /\ Closings'
  BY <1>3 DEF Tables, Approvals, Closings, EvaluatedContent
<1>7. Keeps
  BY <1>2, <1>3 DEF Keeps, Remembers, EvaluatedContent
<1>8. QED
  BY <1>4, <1>5, <1>6, <1>7 DEF Tables

\* An evaluator begins on a verification that passed.
LEMMA EvaluatorBegun ==
  ASSUME Tables, NEW e \in AttemptRow, e.verification \in DOMAIN verification,
         verification[e.verification].verdict = "PASS", verification[e.verification].agen = e.agen,
         e.seals = 0,
         evaluator' = Append(evaluator, e), row'.commit = row.commit,
         UNCHANGED <<provenance, verification, evaluation, approval, closing>>
  PROVE  Tables' /\ Keeps
<1>1. evaluator \in Seq(AttemptRow)
  BY DEF Tables, TableTypes
<1>2. /\ evaluator' \in Seq(AttemptRow)
      /\ Len(evaluator) + 1 \in DOMAIN evaluator' /\ evaluator'[Len(evaluator) + 1] = e
      /\ \A i \in DOMAIN evaluator : i \in DOMAIN evaluator' /\ evaluator'[i] = evaluator[i]
      /\ \A i \in DOMAIN evaluator' : i \in DOMAIN evaluator \/ i = Len(evaluator) + 1
  BY <1>1, Appended
<1>3. UNCHANGED <<head, intent, closure>>
  BY DEF closing
<1>4. TableTypes'
  BY <1>2, <1>3 DEF Tables, TableTypes
<1>5. Chain'
  BY <1>2 DEF Tables, Chain, Target
<1>6. Approvals' /\ Closings'
  BY <1>3 DEF Tables, Approvals, Closings, EvaluatedContent
<1>7. Keeps
  BY <1>2, <1>3 DEF Keeps, Remembers, EvaluatedContent
<1>8. QED
  BY <1>4, <1>5, <1>6, <1>7 DEF Tables

\* An evaluator that is not sealed yet is sealed once more.
LEMMA EvaluatorSealed ==
  ASSUME Tables, NEW n \in DOMAIN evaluator, NEW e \in AttemptRow, evaluator[n].seals # 2,
         e.verification = evaluator[n].verification, e.agen = evaluator[n].agen,
         e.seals = 2 => e.verdict # "NONE",
         evaluator' = [evaluator EXCEPT ![n] = e], row'.commit = row.commit,
         UNCHANGED <<provenance, verification, evaluation, approval, closing>>
  PROVE  Tables' /\ Keeps
<1>1. evaluator \in Seq(AttemptRow)
  BY DEF Tables, TableTypes
<1>2. /\ evaluator' \in Seq(AttemptRow) /\ DOMAIN evaluator' = DOMAIN evaluator
      /\ \A i \in DOMAIN evaluator : evaluator'[i] = IF i = n THEN e ELSE evaluator[i]
  BY <1>1, Replaced
<1>3. UNCHANGED <<head, intent, closure>>
  BY DEF closing
<1>4. TableTypes'
  BY <1>2, <1>3 DEF Tables, TableTypes
<1>5. Chain'
  BY <1>2 DEF Tables, Chain, Target
<1>6. Approvals' /\ Closings'
  BY <1>3 DEF Tables, Approvals, Closings, EvaluatedContent
<1>7. Keeps
  BY <1>2, <1>3 DEF Keeps, Remembers, EvaluatedContent
<1>8. QED
  BY <1>4, <1>5, <1>6, <1>7 DEF Tables

\* The result of a sealed evaluator is registered, with no approval yet.
LEMMA EvaluationRegistered ==
  ASSUME Tables, NEW n \in DOMAIN evaluator, evaluator[n].seals = 2,
         NEW x \in AttemptRow, x.verification = evaluator[n].verification, x.agen = evaluator[n].agen,
         x.seals = 2, x.verdict = evaluator[n].verdict,
         NEW e \in EvaluationRow, e.attempt = n, e.content = Target(n),
         e.verdict = evaluator[n].verdict, e.agen = evaluator[n].agen,
         NEW w \in ApprovalRow, w.status = "NONE", ~w.bound, ~w.consumed,
         evaluator' = [evaluator EXCEPT ![n] = x], evaluation' = Append(evaluation, e),
         approval' = Append(approval, w), row'.commit = row.commit,
         UNCHANGED <<provenance, verification, closing>>
  PROVE  /\ Tables' /\ Keeps
         /\ Len(evaluation) + 1 \in DOMAIN evaluation' /\ Len(evaluation) + 1 \notin DOMAIN evaluation
         /\ ~approval'[Len(evaluation) + 1].bound
<1> DEFINE new == Len(evaluation) + 1
<1>1. /\ evaluator \in Seq(AttemptRow) /\ evaluation \in Seq(EvaluationRow)
      /\ approval \in Seq(ApprovalRow) /\ Len(approval) = Len(evaluation)
      /\ DOMAIN evaluation = 1..Len(evaluation) /\ Len(evaluation) \in Nat
      /\ DOMAIN approval = DOMAIN evaluation
  BY RowTypes DEF Tables, TableTypes
<1>2. /\ evaluator' \in Seq(AttemptRow) /\ DOMAIN evaluator' = DOMAIN evaluator
      /\ \A i \in DOMAIN evaluator : evaluator'[i] = IF i = n THEN x ELSE evaluator[i]
  BY <1>1, Replaced
<1>3. /\ evaluation' \in Seq(EvaluationRow) /\ new \in DOMAIN evaluation' /\ evaluation'[new] = e
      /\ \A i \in DOMAIN evaluation : i \in DOMAIN evaluation' /\ evaluation'[i] = evaluation[i]
      /\ \A i \in DOMAIN evaluation' : i \in DOMAIN evaluation \/ i = new
  BY <1>1, Appended
<1>4. /\ approval' \in Seq(ApprovalRow) /\ approval'[new] = w
      /\ \A i \in DOMAIN evaluation : approval'[i] = approval[i]
  BY <1>1, Appended
<1>5. Len(approval') = Len(evaluation') /\ Len(evaluation') = new
  BY <1>1
<1>6. UNCHANGED <<head, intent, closure>>
  BY DEF closing
<1>7. /\ new \notin DOMAIN evaluation /\ new # 0
      /\ intent # 0 => intent \in DOMAIN evaluation
      /\ closure # 0 => closure \in DOMAIN evaluation
      /\ closure # new
  BY <1>1 DEF Tables, TableTypes
<1> HIDE DEF new
<1>8. TableTypes'
  <2>1. head' \in 0..Contents /\ closure' \in {0, intent'} /\ provenance' \in Seq(Content)
        /\ verification' \in Seq(VerificationRow)
    BY <1>6 DEF Tables, TableTypes
  <2>2. intent' \in 0..Len(evaluation')
    BY <1>1, <1>5, <1>6 DEF Tables, TableTypes, new
  <2>3. QED
    BY <1>2, <1>3, <1>4, <1>5, <2>1, <2>2 DEF TableTypes
<1>9. Chain'
  BY <1>2, <1>3 DEF Tables, Chain, Target
<1>10. Approvals'
  <2> SUFFICES ASSUME NEW i \in DOMAIN evaluation'
               PROVE  /\ approval'[i].status = "APPROVED" => approval'[i].bound
                      /\ approval'[i].consumed <=> closure' = i
    BY Zenon DEF Approvals
  <2>1. CASE i = new
    BY <1>4, <1>6, <1>7, <2>1
  <2>2. CASE i \in DOMAIN evaluation
    BY <1>4, <1>6, <2>2 DEF Tables, Approvals
  <2>3. QED
    BY <1>3, <2>1, <2>2
<1>11. Closings'
  <2>1. /\ intent # 0 => evaluation'[intent] = evaluation[intent] /\ approval'[intent] = approval[intent]
        /\ closure # 0 => evaluation'[closure] = evaluation[closure]
    BY <1>3, <1>4, <1>7
  <2>2. QED
    BY <1>6, <2>1 DEF Tables, Closings, EvaluatedContent
<1>12. Keeps
  <2> SUFFICES ASSUME NEW s \in Handler, Remembers(s) PROVE Remembers(s)'
    BY DEF Keeps
  <2>1. s.pc \in {"escalate", "close"} \cup Judging \cup Open =>
          /\ s.id \in DOMAIN evaluation /\ s.id \in DOMAIN evaluation'
          /\ evaluation'[s.id] = evaluation[s.id] /\ approval'[s.id] = approval[s.id]
    BY <1>3, <1>4 DEF Remembers
  <2>2. QED
    BY <1>2, <1>6, <2>1 DEF Remembers, EvaluatedContent, Open
<1>13. QED
  BY <1>3, <1>4, <1>7, <1>8, <1>9, <1>10, <1>11, <1>12 DEF Tables, new

(* The approval of an evaluation is requested, bound or answered: it is not *)
(* consumed by that, and one that was approved stays so.                    *)
LEMMA ApprovalChanged ==
  ASSUME Tables, NEW e \in DOMAIN evaluation, NEW w \in ApprovalRow, w.consumed = approval[e].consumed,
         w.status = "APPROVED" => w.bound,
         approval[e].status = "APPROVED" /\ approval[e].bound => w.status = "APPROVED" /\ w.bound,
         approval' = [approval EXCEPT ![e] = w], row'.commit = row.commit,
         UNCHANGED <<provenance, verification, evaluator, evaluation, closing>>
  PROVE  /\ Tables'
         /\ \A s \in Handler :
              Remembers(s) /\ (s.pc \in Judging /\ s.id = e => ~w.bound) => Remembers(s)'
<1>1. approval \in Seq(ApprovalRow) /\ DOMAIN approval = DOMAIN evaluation
  BY RowTypes DEF Tables, TableTypes
<1>2. /\ approval' \in Seq(ApprovalRow) /\ DOMAIN approval' = DOMAIN approval
      /\ \A i \in DOMAIN evaluation : approval'[i] = IF i = e THEN w ELSE approval[i]
  BY <1>1, Replaced
<1>3. Len(approval') = Len(approval)
  BY <1>1, <1>2
<1>4. UNCHANGED <<head, intent, closure>>
  BY DEF closing
<1>5. TableTypes'
  BY <1>2, <1>3, <1>4 DEF Tables, TableTypes
<1>6. Chain'
  BY DEF Tables, Chain, Target
<1>7. Approvals'
  BY <1>2, <1>4 DEF Tables, Approvals
<1>8. intent # 0 => intent \in DOMAIN evaluation
  BY RowTypes DEF Tables, TableTypes
<1>9. Closings'
  BY <1>2, <1>4, <1>8 DEF Tables, Closings, EvaluatedContent
<1>10. ASSUME NEW s \in Handler, Remembers(s), s.pc \in Judging /\ s.id = e => ~w.bound
       PROVE  Remembers(s)'
  BY <1>2, <1>4, <1>10 DEF Remembers, EvaluatedContent
<1>11. QED
  BY <1>5, <1>6, <1>7, <1>9, <1>10 DEF Tables

\* The intent is prepared for an approved evaluation, before the branch moves.
LEMMA IntentPrepared ==
  ASSUME Tables, NEW e \in DOMAIN evaluation, intent = 0, intent' = e, row'.commit = row.commit,
         evaluation[e].verdict = "PASS", approval[e].status = "APPROVED", approval[e].bound,
         UNCHANGED <<evidence, head, closure>>
  PROVE  /\ Tables'
         /\ \A s \in Handler : Remembers(s) /\ s.pc \notin Open => Remembers(s)'
<1>1. head = 0 /\ closure = 0 /\ e \in 1..Len(evaluation)
  BY RowTypes DEF Tables, Closings, TableTypes
<1>2. UNCHANGED <<provenance, verification, evaluator, evaluation, approval>>
  BY DEF evidence
<1>3. TableTypes' /\ Chain' /\ Approvals' /\ Closings'
  BY <1>1, <1>2 DEF Tables, TableTypes, Chain, Approvals, Closings, Target
<1>4. ASSUME NEW s \in Handler, Remembers(s), s.pc \notin Open
      PROVE  Remembers(s)'
  BY <1>2, <1>4 DEF Remembers, EvaluatedContent, Open
<1>5. QED
  BY <1>3, <1>4 DEF Tables

\* update-ref moves the branch to the commit the intent describes.
LEMMA BranchMoved ==
  ASSUME Tables, intent # 0, head = 0, head' = EvaluatedContent(intent), row'.commit = row.commit,
         UNCHANGED <<evidence, intent, closure>>
  PROVE  /\ Tables' /\ Keeps
<1>1. UNCHANGED <<provenance, verification, evaluator, evaluation, approval>>
  BY DEF evidence
<1>2. intent \in DOMAIN evaluation /\ evaluation[intent] \in EvaluationRow
  BY RowTypes DEF Tables, TableTypes
<1>3. EvaluatedContent(intent) \in 1..Contents
  BY <1>2 DEF EvaluatedContent, EvaluationRow, Content
<1>4. closure = 0
  <2>1. closure # 0 => closure = intent /\ head = EvaluatedContent(intent)
    BY DEF Tables, TableTypes, Closings
  <2>2. QED
    BY <1>3, <2>1
<1>5. TableTypes'
  BY <1>1, <1>3, ContentsAssumption DEF Tables, TableTypes
<1>6. Chain' /\ Approvals' /\ Closings'
  BY <1>1, <1>4 DEF Tables, Chain, Approvals, Closings, Target, EvaluatedContent
<1>7. Keeps
  <2> SUFFICES ASSUME NEW s \in Handler, Remembers(s) PROVE Remembers(s)'
    BY DEF Keeps
  <2>1. s.pc \in Open => s.id = intent
    BY DEF Remembers
  <2>2. s.pc \in {"recheck", "record"} => head' = EvaluatedContent(s.id)'
    BY <1>1, <2>1 DEF Open, EvaluatedContent
  <2>3. QED
    BY <1>1, <2>2 DEF Remembers
<1>8. QED
  BY <1>5, <1>6, <1>7 DEF Tables

\* The closure is recorded once the commit is on the branch.
LEMMA ClosureRecorded ==
  ASSUME Tables, NEW e \in DOMAIN evaluation, intent = e, head = EvaluatedContent(e), closure # e,
         closure' = e, row'.commit = EvaluatedContent(e),
         NEW w \in ApprovalRow, w.status = approval[e].status, w.bound = approval[e].bound, w.consumed,
         approval' = [approval EXCEPT ![e] = w],
         UNCHANGED <<provenance, verification, evaluator, evaluation, head, intent>>
  PROVE  Tables' /\ Keeps
<1>1. approval \in Seq(ApprovalRow) /\ DOMAIN approval = DOMAIN evaluation /\ e \in 1..Len(evaluation)
  BY RowTypes DEF Tables, TableTypes
<1>2. /\ approval' \in Seq(ApprovalRow) /\ DOMAIN approval' = DOMAIN approval
      /\ \A i \in DOMAIN evaluation : approval'[i] = IF i = e THEN w ELSE approval[i]
  BY <1>1, Replaced
<1>3. Len(approval') = Len(approval)
  BY <1>1, <1>2
<1>4. closure = 0 /\ e # 0
  BY <1>1 DEF Tables, TableTypes
<1>5. TableTypes'
  BY <1>2, <1>3 DEF Tables, TableTypes
<1>6. Chain'
  BY DEF Tables, Chain, Target
<1>7. Approvals'
  BY <1>2, <1>4, <1>1 DEF Tables, Approvals
<1>8. Closings'
  BY <1>2, <1>4 DEF Tables, Closings, EvaluatedContent
<1>9. Keeps
  BY <1>2 DEF Keeps, Remembers, EvaluatedContent
<1>10. QED
  BY <1>5, <1>6, <1>7, <1>8, <1>9 DEF Tables

-----------------------------------------------------------------------------
(* What the steps of the handlers are made of. *)

\* What a step of a does to the memory of the other handlers.
OthersKeep(a) == \A b \in Author \ {a} : \A t \in Handler : t = step[b] => Remembers(t)'

\* A change that no memory depends on keeps those of the others.
LEMMA KeepsOthers ==
  ASSUME ClosureInv, Keeps, NEW a \in Author
  PROVE  OthersKeep(a)
BY DEF ClosureInv, Handlers, Keeps, OthersKeep

\* Lease and authority stay what they are.
Unfenced == row'.owner = row.owner /\ row'.gen = row.gen /\ UNCHANGED <<granted, generation>>

\* A step of the handler of a to state s.
LEMMA HandlerStep ==
  ASSUME ClosureInv, NEW a \in Author, NEW s \in Handler, step' = [step EXCEPT ![a] = s],
         row' \in Rows, Unfenced, work' = work, makerOpen' \in BOOLEAN, Tables', OthersKeep(a),
         Remembers(s)',
         s.pc \in Judging => \A b \in Author \ {a} : ~(step[b].pc \in Judging /\ step[b].id = s.id),
         s.pc = "ref" => row.owner = a /\ granted[a] = [gen |-> row.gen, agen |-> generation]
  PROVE  ClosureInv'
<1>1. step' \in [Author -> Handler] /\ \A b \in Author : step'[b] = IF b = a THEN s ELSE step[b]
  BY DEF ClosureInv, Handlers
<1>2. StateTypes'
  BY DEF ClosureInv, StateTypes, Unfenced
<1>3. \A b \in Author : Remembers(step[b])'
  <2> SUFFICES ASSUME NEW b \in Author PROVE Remembers(step[b])'
    OBVIOUS
  <2>1. PICK t \in Handler : t = step'[b]
    BY <1>1
  <2>2. Remembers(t)'
    <3>1. CASE b = a
      BY <1>1, <2>1, <3>1
    <3>2. CASE b # a
      BY <1>1, <2>1, <3>2 DEF OthersKeep
    <3>3. QED
      BY <3>1, <3>2
  <2>3. QED
    BY <2>1, <2>2 DEF Remembers
<1>4. SoleJudge'
  BY <1>1 DEF ClosureInv, Handlers, SoleJudge
<1>5. RefGranted'
  BY <1>1 DEF ClosureInv, Handlers, RefGranted, Unfenced
<1>6. QED
  BY <1>1, <1>2, <1>3, <1>4, <1>5 DEF ClosureInv, Handlers

\* A handler ends.
LEMMA RestStep ==
  ASSUME ClosureInv, NEW a \in Author, Done(a), row' \in Rows, Unfenced, work' = work,
         makerOpen' \in BOOLEAN, Tables', OthersKeep(a)
  PROVE  ClosureInv'
<1>1. NoHandler \in Handler /\ NoHandler.pc = "idle"
  BY DEF NoHandler, Handler, Stage
<1>2. Remembers(NoHandler)'
  BY <1>1 DEF Remembers, Judging, Open
<1>3. step' = [step EXCEPT ![a] = NoHandler]
  BY DEF Done
<1>4. QED
  BY <1>1, <1>2, <1>3, HandlerStep DEF Judging

\* The tables do not change.
LEMMA TablesStay ==
  ASSUME ClosureInv, UNCHANGED <<evidence, closing>>, row'.commit = row.commit
  PROVE  Tables' /\ Keeps
<1>1. UNCHANGED <<provenance, verification, evaluator, evaluation, approval, head, intent, closure>>
  BY DEF evidence, closing
<1>2. Tables'
  BY <1>1 DEF ClosureInv, Tables, TableTypes, Chain, Approvals, Closings, Target, EvaluatedContent
<1>3. Keeps
  BY <1>1 DEF Keeps, Remembers, EvaluatedContent
<1>4. QED
  BY <1>2, <1>3

\* A step of the handler of a to state s that only reads.
LEMMA ReadStep ==
  ASSUME ClosureInv, NEW a \in Author, NEW s \in Handler, step' = [step EXCEPT ![a] = s],
         UNCHANGED <<row, generation, granted, work, makerOpen, evidence, closing>>,
         Remembers(s), s.pc \notin Judging,
         s.pc = "ref" => row.owner = a /\ granted[a] = [gen |-> row.gen, agen |-> generation]
  PROVE  ClosureInv'
<1>1. Tables' /\ Keeps
  BY TablesStay
<1>2. Remembers(s)'
  BY <1>1 DEF Keeps
<1>3. row' \in Rows /\ Unfenced /\ makerOpen' \in BOOLEAN
  BY DEF ClosureInv, StateTypes, Unfenced
<1>4. QED
  BY <1>1, <1>2, <1>3, HandlerStep, KeepsOthers

\* A handler begins with what it has read.
LEMMA EnterStep ==
  ASSUME ClosureInv, NEW a \in Author, NEW p \in Stage, NEW x \in Nat, Enter(a, p, x),
         UNCHANGED <<row, generation, granted, work, makerOpen, evidence, closing>>,
         p # "ref", p \notin Judging, \A s \in Handler : s.pc = p /\ s.id = x => Remembers(s)
  PROVE  ClosureInv'
<1> DEFINE s == [pc |-> p, ver |-> row.version, id |-> x]
<1>1. row.version \in Nat
  BY DEF ClosureInv, StateTypes, Rows, ExecutionRow
<1>2. s \in Handler /\ s.pc = p /\ s.id = x
  BY <1>1 DEF Handler
<1>3. step' = [step EXCEPT ![a] = s]
  BY DEF Enter
<1> HIDE DEF s
<1>4. Remembers(s)
  BY <1>2
<1>5. QED
  BY <1>2, <1>3, <1>4, ReadStep

\* The handler goes on with what it remembers.
LEMMA GoneTo ==
  ASSUME NEW h \in Handler, NEW p \in Stage
  PROVE  LET s == [h EXCEPT !.pc = p] IN
         s \in Handler /\ s.pc = p /\ s.id = h.id /\ s.ver = h.ver
BY DEF Handler

\* A transition of the execution.
LEMMA Moves ==
  ASSUME ClosureInv, NEW to \in State, NEW resume \in ResumeState, to = "BLOCKED" => resume # "NONE",
         Move(to, resume)
  PROVE  /\ row' \in Rows /\ row'.owner = row.owner /\ row'.gen = row.gen /\ row'.commit = row.commit
<1>1. ASSUME NEW r \in ExecutionRow, NEW v \in Nat
      PROVE  LET n == [r EXCEPT !.state = to, !.resume = resume, !.version = v] IN
             /\ n \in ExecutionRow /\ n.state = to /\ n.resume = resume
             /\ n.owner = r.owner /\ n.gen = r.gen /\ n.commit = r.commit
  BY DEF ExecutionRow
<1>2. row \in ExecutionRow /\ row.version + 1 \in Nat
  BY DEF ClosureInv, StateTypes, Rows, ExecutionRow
<1>3. row' = [row EXCEPT !.state = to, !.resume = resume, !.version = row.version + 1]
  BY DEF Move
<1>4. QED
  BY <1>1, <1>2, <1>3 DEF Rows
\* What is known of a controller's handler.
LEMMA Known ==
  ASSUME ClosureInv, NEW a \in Author
  PROVE  /\ step[a] \in Handler /\ step[a].pc \in Stage /\ step[a].ver \in Nat /\ step[a].id \in Nat
         /\ Remembers(step[a])
         /\ row \in Rows /\ generation \in Nat /\ makerOpen \in BOOLEAN /\ work \in Content /\ Tables
         /\ row.gen \in Nat /\ row.version \in Nat
BY DEF ClosureInv, Handlers, Handler, StateTypes, Rows, ExecutionRow

\* The handler of a goes on to p.
LEMMA GoStep ==
  ASSUME ClosureInv, NEW a \in Author, NEW p \in Stage, Go(a, p), row' \in Rows, Unfenced, work' = work,
         makerOpen' \in BOOLEAN, Tables', OthersKeep(a),
         \A s \in Handler : s.pc = p /\ s.id = step[a].id => Remembers(s)',
         p \in Judging => step[a].pc \in Judging,
         p = "ref" => row.owner = a /\ granted[a] = [gen |-> row.gen, agen |-> generation]
  PROVE  ClosureInv'
<1>1. step[a] \in Handler
  BY Known
<1>2. PICK s \in Handler : s = [step[a] EXCEPT !.pc = p] /\ s.pc = p /\ s.id = step[a].id
  BY <1>1, GoneTo
<1>3. step' = [step EXCEPT ![a] = s]
  BY <1>2 DEF Go
<1>4. Remembers(s)'
  BY <1>2
<1>5. s.pc \in Judging => \A b \in Author \ {a} : ~(step[b].pc \in Judging /\ step[b].id = s.id)
  BY <1>2 DEF ClosureInv, Handlers, SoleJudge
<1>6. QED
  BY <1>2, <1>3, <1>4, <1>5, HandlerStep

\* A step outside the handlers.
LEMMA SurroundingStep ==
  ASSUME ClosureInv, UNCHANGED <<evidence, closing, step>>, row' \in Rows, row'.commit = row.commit,
         generation' \in Nat, granted' \in [Author -> Grant], work' \in Content, makerOpen' \in BOOLEAN,
         Unfenced \/ ~Locked
  PROVE  ClosureInv'
<1>1. Tables' /\ Keeps
  BY TablesStay
<1>2. StateTypes'
  BY DEF StateTypes
<1>3. \A a \in Author : Remembers(step[a])'
  <2> SUFFICES ASSUME NEW a \in Author PROVE Remembers(step[a])'
    OBVIOUS
  <2>1. PICK t \in Handler : t = step[a] /\ Remembers(t)
    BY Known
  <2>2. Remembers(t)'
    BY <1>1, <2>1 DEF Keeps
  <2>3. step'[a] = t
    BY <2>1
  <2>4. QED
    BY <2>2, <2>3 DEF Remembers
<1>4. step' \in [Author -> Handler] /\ SoleJudge'
  BY DEF ClosureInv, Handlers, SoleJudge
<1>5. RefGranted'
  BY DEF ClosureInv, Handlers, RefGranted, Unfenced, Locked
<1>6. QED
  BY <1>1, <1>2, <1>3, <1>4, <1>5 DEF ClosureInv, Handlers

-----------------------------------------------------------------------------
(* The steps. *)

\* An expired lease is acquired again: nobody is moving the branch then.
LEMMA AcquireKeeps ==
  ASSUME ClosureInv, NEW a \in Author, Acquire(a)
  PROVE  ClosureInv'
<1>1. ASSUME NEW r \in ExecutionRow, NEW g \in Nat, NEW v \in Nat
      PROVE  LET n == [r EXCEPT !.owner = a, !.gen = g, !.live = TRUE, !.version = v] IN
             n \in ExecutionRow /\ n.state = r.state /\ n.resume = r.resume /\ n.commit = r.commit
  BY DEF ExecutionRow, Owners
<1>2. row \in ExecutionRow /\ row.gen + 1 \in Nat /\ row.version + 1 \in Nat
  BY Known DEF Rows
<1>3. row' = [row EXCEPT !.owner = a, !.gen = row.gen + 1, !.live = TRUE, !.version = row.version + 1]
  BY DEF Acquire
<1>4. row' \in Rows /\ row'.commit = row.commit
  <2>1. row' \in ExecutionRow /\ row'.state = row.state /\ row'.resume = row.resume /\ row'.commit = row.commit
    BY <1>1, <1>2, <1>3
  <2>2. QED
    BY <2>1, Known DEF Rows
<1>5. granted' \in [Author -> Grant]
  BY <1>2, Known DEF Acquire, Grant, ClosureInv, StateTypes
<1>6. QED
  BY <1>4, <1>5, SurroundingStep, Known DEF Acquire

\* A lease that expires keeps its owner and its generation.
LEMMA ExpireLeaseKeeps ==
  ASSUME ClosureInv, ExpireLease
  PROVE  ClosureInv'
<1>1. ASSUME NEW r \in ExecutionRow
      PROVE  LET n == [r EXCEPT !.live = FALSE] IN
             /\ n \in ExecutionRow /\ n.state = r.state /\ n.resume = r.resume /\ n.commit = r.commit
             /\ n.owner = r.owner /\ n.gen = r.gen
  BY DEF ExecutionRow
<1>2. row \in Rows
  BY DEF ClosureInv, StateTypes
<1>3. row' \in Rows /\ row'.commit = row.commit /\ Unfenced
  BY <1>1, <1>2 DEF ExpireLease, Rows, Unfenced
<1>4. QED
  BY <1>3, SurroundingStep DEF ExpireLease, ClosureInv, StateTypes

\* The authority moves while no closing transaction is open.
LEMMA MoveAuthorityKeeps ==
  ASSUME ClosureInv, MoveAuthority
  PROVE  ClosureInv'
BY SurroundingStep DEF MoveAuthority, ClosureInv, StateTypes

\* An edit changes what no table and no handler relies on.
LEMMA EditKeeps ==
  ASSUME ClosureInv, Edit
  PROVE  ClosureInv'
BY SurroundingStep DEF Edit, ClosureInv, StateTypes, Unfenced

\* A new Maker begins.
LEMMA ReworkKeeps ==
  ASSUME ClosureInv, NEW a \in Author, Rework(a)
  PROVE  ClosureInv'
<1>1. "MAKER_RUNNING" \in State /\ "NONE" \in ResumeState
  BY DEF State, ResumeState
<1>2. row' \in Rows /\ row'.owner = row.owner /\ row'.gen = row.gen /\ row'.commit = row.commit
  BY <1>1, Moves DEF Rework
<1>3. QED
  BY <1>2, SurroundingStep DEF Rework, ClosureInv, StateTypes, Unfenced

\* A blocked execution resumes where it stopped.
LEMMA ResumeKeeps ==
  ASSUME ClosureInv, NEW a \in Author, Resume(a)
  PROVE  ClosureInv'
<1>1. row.resume \in State /\ row.resume # "BLOCKED" /\ "NONE" \in ResumeState
  BY Known DEF Resume, Rows, ExecutionRow, State, ResumeState
<1>2. row' \in Rows /\ row'.owner = row.owner /\ row'.gen = row.gen /\ row'.commit = row.commit
  BY <1>1, Moves DEF Resume
<1>3. QED
  BY <1>2, SurroundingStep DEF Resume, ClosureInv, StateTypes, Unfenced

\* A handler that fails forgets, and so does its process.
LEMMA FailKeeps ==
  ASSUME ClosureInv, NEW a \in Author, Fail(a)
  PROVE  ClosureInv'
<1>1. NoHandler \in Handler /\ NoHandler.pc = "idle"
  BY DEF NoHandler, Handler, Stage
<1>2. step' \in [Author -> Handler] /\ \A b \in Author : step'[b] = IF b = a THEN NoHandler ELSE step[b]
  BY <1>1 DEF Fail, Done, ClosureInv, Handlers
<1>3. Tables' /\ Keeps
  BY TablesStay DEF Fail
<1>4. granted' \in [Author -> Grant] /\ \A b \in Author \ {a} : granted'[b] = granted[b]
  BY DEF Fail, ClosureInv, StateTypes, Grant
<1>5. StateTypes'
  BY <1>4 DEF Fail, ClosureInv, StateTypes
<1>6. \A b \in Author : Remembers(step[b])'
  <2> SUFFICES ASSUME NEW b \in Author PROVE Remembers(step[b])'
    OBVIOUS
  <2>1. CASE b = a
    BY <1>1, <1>2, <2>1 DEF Remembers, Judging, Open
  <2>2. CASE b # a
    <3>1. PICK t \in Handler : t = step[b] /\ Remembers(t)
      BY Known
    <3>2. Remembers(t)' /\ step'[b] = t
      BY <1>2, <1>3, <2>2, <3>1 DEF Keeps
    <3>3. QED
      BY <3>2 DEF Remembers
  <2>3. QED
    BY <2>1, <2>2
<1>7. SoleJudge' /\ RefGranted'
  BY <1>1, <1>2, <1>4 DEF Fail, ClosureInv, Handlers, SoleJudge, RefGranted, Judging
<1>8. QED
  BY <1>2, <1>3, <1>5, <1>6, <1>7 DEF ClosureInv, Handlers
\* The content a Maker hands over is read first.
LEMMA HandOverKeeps ==
  ASSUME ClosureInv, NEW a \in Author, HandOver(a)
  PROVE  ClosureInv'
<1>1. work \in Content /\ work \in Nat /\ "bind" \in Stage
  BY Known DEF Content, Stage
<1>2. \A s \in Handler : s.pc = "bind" /\ s.id = work => Remembers(s)
  BY <1>1 DEF Remembers, Judging, Open
<1>3. QED
  BY <1>1, <1>2, EnterStep DEF HandOver, Judging

\* The content handed over is recorded.
LEMMA BindPrecommitCandidateKeeps ==
  ASSUME ClosureInv, NEW a \in Author, BindPrecommitCandidate(a)
  PROVE  ClosureInv'
<1>1. step[a].id \in Content
  BY Known DEF BindPrecommitCandidate, AtStage, Remembers
<1>2. Tables' /\ OthersKeep(a)
  BY <1>1, Known, ContentProvided, KeepsOthers DEF BindPrecommitCandidate
<1>3. "verifying" \in Stage /\ \A s \in Handler : s.pc = "verifying" => Remembers(s)'
  BY DEF Stage, Remembers, Judging, Open
<1>4. row' \in Rows /\ Unfenced /\ makerOpen' \in BOOLEAN
  BY Known DEF BindPrecommitCandidate, Unfenced
<1>5. QED
  BY <1>2, <1>3, <1>4, GoStep DEF BindPrecommitCandidate, Judging

\* A transition that ends a handler.
LEMMA MoveAndRest ==
  ASSUME ClosureInv, NEW a \in Author, NEW to \in State, NEW resume \in ResumeState,
         to = "BLOCKED" => resume # "NONE", Move(to, resume), Done(a),
         UNCHANGED <<generation, granted, work, makerOpen, evidence, closing>>
  PROVE  ClosureInv'
<1>1. row' \in Rows /\ row'.owner = row.owner /\ row'.gen = row.gen /\ row'.commit = row.commit
  BY Moves
<1>2. Tables' /\ OthersKeep(a)
  BY <1>1, TablesStay, KeepsOthers
<1>3. QED
  BY <1>1, <1>2, RestStep, Known DEF Unfenced

\* The candidate goes to verification.
LEMMA HandedOverKeeps ==
  ASSUME ClosureInv, NEW a \in Author, HandedOver(a)
  PROVE  ClosureInv'
BY MoveAndRest DEF HandedOver, State, ResumeState

\* Content to verify is one a Maker handed over.
LEMMA CheckVerificationKeeps ==
  ASSUME ClosureInv, NEW a \in Author, NEW c \in Content, CheckVerification(a, c)
  PROVE  ClosureInv'
<1>1. c \in Nat /\ "verify" \in Stage
  BY DEF Content, Stage
<1>2. \A s \in Handler : s.pc = "verify" /\ s.id = c => Remembers(s)
  BY DEF CheckVerification, Remembers, Judging, Open
<1>3. QED
  BY <1>1, <1>2, EnterStep DEF CheckVerification, Judging

\* The result is of content that was handed over.
LEMMA RegisterVerificationKeeps ==
  ASSUME ClosureInv, NEW a \in Author, NEW verdict \in {"PASS", "FAIL"}, RegisterVerification(a, verdict)
  PROVE  ClosureInv'
<1> DEFINE e == [content |-> step[a].id, verdict |-> verdict, agen |-> generation]
           p == IF verdict = "PASS" THEN "passed" ELSE "failed"
<1>1. step[a].id \in ToSet(provenance)
  BY Known DEF RegisterVerification, AtStage, Remembers
<1>2. ToSet(provenance) \subseteq Content
  BY RowTypes, Known DEF ToSet, Tables
<1>3. e \in VerificationRow /\ e.content \in ToSet(provenance)
  BY <1>1, <1>2, Known DEF VerificationRow
<1>4. verification' = Append(verification, e) /\ Go(a, p)
  BY DEF RegisterVerification
<1>5. p \in {"passed", "failed"}
  OBVIOUS
<1> HIDE DEF e, p
<1>6. Tables' /\ OthersKeep(a)
  <2>1. UNCHANGED <<row, provenance, evaluator, evaluation, approval, closing>>
    BY DEF RegisterVerification
  <2>2. Tables' /\ Keeps
    BY <1>3, <1>4, <2>1, Known, VerificationRegistered
  <2>3. QED
    BY <2>2, KeepsOthers
<1>7. p \in Stage /\ p \notin Judging /\ p # "ref" /\ \A s \in Handler : s.pc = p => Remembers(s)'
  BY <1>5 DEF Stage, Remembers, Judging, Open
<1>8. row' \in Rows /\ Unfenced /\ makerOpen' \in BOOLEAN /\ work' = work
  BY Known DEF RegisterVerification, Unfenced
<1>9. QED
  BY <1>4, <1>6, <1>7, <1>8, GoStep

\* The verification moves the execution on, or blocks it.
LEMMA VerifiedKeeps ==
  ASSUME ClosureInv, NEW a \in Author, Verified(a)
  PROVE  ClosureInv'
<1>1. CASE Move("EVALUATING", "NONE")
  BY <1>1, MoveAndRest DEF Verified, State, ResumeState
<1>2. CASE Move("BLOCKED", "VERIFYING")
  BY <1>2, MoveAndRest DEF Verified, State, ResumeState
<1>3. QED
  BY <1>1, <1>2 DEF Verified

\* An evaluator is to begin on a verification that passed.
LEMMA CheckEvaluatorKeeps ==
  ASSUME ClosureInv, NEW a \in Author, CheckEvaluator(a)
  PROVE  ClosureInv'
<1> DEFINE v == PassOf(Current)
<1>1. v \in DOMAIN verification /\ verification[v].verdict = "PASS"
  BY PassOfFinds, Known DEF CheckEvaluator, Tables
<1>2. v \in Nat /\ "evaluator" \in Stage
  BY <1>1, RowTypes, Known DEF Stage, Tables
<1>3. Enter(a, "evaluator", v)
  BY DEF CheckEvaluator
<1> HIDE DEF v
<1>4. \A s \in Handler : s.pc = "evaluator" /\ s.id = v => Remembers(s)
  BY <1>1 DEF Remembers, Judging, Open
<1>5. QED
  BY <1>2, <1>3, <1>4, EnterStep DEF CheckEvaluator, Judging

\* The evaluator begins under the authority of its verification.
LEMMA BeginEvaluatorKeeps ==
  ASSUME ClosureInv, NEW a \in Author, BeginEvaluator(a)
  PROVE  ClosureInv'
<1> DEFINE e == [verification |-> step[a].id, gen |-> row.gen, agen |-> generation, seals |-> 0,
                 open |-> TRUE, verdict |-> "NONE"]
<1>1. step[a].id \in DOMAIN verification /\ verification[step[a].id].verdict = "PASS"
  BY Known DEF BeginEvaluator, AtStage, Remembers
<1>2. verification[step[a].id].agen = generation /\ evaluator' = Append(evaluator, e)
  BY DEF BeginEvaluator
<1>3. e \in AttemptRow
  BY Known DEF AttemptRow, Seals, Result
<1>4. /\ e.verification = step[a].id /\ e.agen = generation /\ e.seals = 0
  OBVIOUS
<1> HIDE DEF e
<1>5. UNCHANGED <<row, provenance, verification, evaluation, approval, closing>>
  BY DEF BeginEvaluator
<1>6. Tables' /\ Keeps
  BY <1>1, <1>2, <1>3, <1>4, <1>5, Known, EvaluatorBegun
<1>7. OthersKeep(a)
  BY <1>6, KeepsOthers
<1>8. QED
  BY <1>6, <1>7, RestStep, Known DEF BeginEvaluator, Unfenced

\* A seal is to be set on an evaluator that began.
LEMMA CheckSealKeeps ==
  ASSUME ClosureInv, NEW a \in Author, NEW n \in DOMAIN evaluator, CheckSeal(a, n)
  PROVE  ClosureInv'
<1>1. n \in Nat /\ "seal" \in Stage
  BY RowTypes, Known DEF Stage, Tables
<1>2. \A s \in Handler : s.pc = "seal" /\ s.id = n => Remembers(s)
  BY DEF Remembers, Judging, Open
<1>3. QED
  BY <1>1, <1>2, EnterStep DEF CheckSeal, Judging

\* An evaluator that began is to complete.
LEMMA CheckCompletionKeeps ==
  ASSUME ClosureInv, NEW a \in Author, NEW n \in DOMAIN evaluator, CheckCompletion(a, n)
  PROVE  ClosureInv'
<1>1. n \in Nat /\ "evaluated" \in Stage
  BY RowTypes, Known DEF Stage, Tables
<1>2. \A s \in Handler : s.pc = "evaluated" /\ s.id = n => Remembers(s)
  BY DEF Remembers, Judging, Open
<1>3. QED
  BY <1>1, <1>2, EnterStep DEF CheckCompletion, Judging

\* A seal of an attempt changes its seals, the second one with the result.
LEMMA AttemptSealed ==
  ASSUME NEW r \in AttemptRow, NEW w \in Result
  PROVE  LET x == [r EXCEPT !.seals = 2, !.verdict = w] IN
         x \in AttemptRow /\ x.verification = r.verification /\ x.agen = r.agen /\ x.verdict = w
<1>1. ASSUME NEW k \in Seals
      PROVE  LET x == [r EXCEPT !.seals = k, !.verdict = w] IN
             x \in AttemptRow /\ x.verification = r.verification /\ x.agen = r.agen /\ x.verdict = w
  BY DEF AttemptRow
<1>2. 2 \in Seals
  BY DEF Seals
<1>3. QED
  BY <1>1, <1>2, Zenon

\* The first seal leaves the result open; an attempt is closed when its
\* result is registered.
LEMMA AttemptChanged ==
  ASSUME NEW r \in AttemptRow, NEW k \in Seals
  PROVE  /\ LET x == [r EXCEPT !.seals = k] IN
              /\ x \in AttemptRow /\ x.verification = r.verification /\ x.agen = r.agen /\ x.seals = k
         /\ LET x == [r EXCEPT !.open = FALSE] IN
              /\ x \in AttemptRow /\ x.verification = r.verification /\ x.agen = r.agen
              /\ x.seals = r.seals /\ x.verdict = r.verdict
BY DEF AttemptRow

\* The second seal holds the result.
LEMMA SealKeeps ==
  ASSUME ClosureInv, NEW a \in Author, NEW verdict \in {"PASS", "REWORK_REQUIRED", "BLOCKED"},
         Seal(a, verdict)
  PROVE  ClosureInv'
<1> DEFINE n == step[a].id
<1>1. n \in DOMAIN evaluator /\ evaluator[n] \in AttemptRow
  BY Known, RowTypes DEF Seal, AtStage, Remembers, Tables
<1>2. /\ 1 \in Seals /\ 2 \in Seals /\ 1 # 2 /\ verdict \in Result /\ verdict # "NONE"
  BY DEF Seals, Result
<1>3. \/ evaluator[n].seals = 0 /\ evaluator' = [evaluator EXCEPT ![n].seals = 1]
      \/ /\ evaluator[n].seals = 1
         /\ evaluator' = [evaluator EXCEPT ![n] = [@ EXCEPT !.seals = 2, !.verdict = verdict]]
  BY DEF Seal
<1> HIDE DEF n
<1>4. PICK x \in AttemptRow :
        /\ x.verification = evaluator[n].verification /\ x.agen = evaluator[n].agen
        /\ x.seals = 2 => x.verdict # "NONE"
        /\ evaluator[n].seals # 2 /\ evaluator' = [evaluator EXCEPT ![n] = x]
  <2>1. CASE evaluator[n].seals = 0 /\ evaluator' = [evaluator EXCEPT ![n].seals = 1]
    <3> DEFINE y == [evaluator[n] EXCEPT !.seals = 1]
    <3>1. /\ y \in AttemptRow /\ y.verification = evaluator[n].verification
          /\ y.agen = evaluator[n].agen /\ y.seals = 1
      BY <1>1, <1>2, AttemptChanged
    <3>2. evaluator' = [evaluator EXCEPT ![n] = y]
      BY <2>1
    <3> HIDE DEF y
    <3>3. y.seals # 2 /\ evaluator[n].seals # 2
      BY <2>1, <3>1
    <3>4. QED
      BY <3>1, <3>2, <3>3, Zenon
  <2>2. CASE /\ evaluator[n].seals = 1
             /\ evaluator' = [evaluator EXCEPT ![n] = [@ EXCEPT !.seals = 2, !.verdict = verdict]]
    <3> DEFINE y == [evaluator[n] EXCEPT !.seals = 2, !.verdict = verdict]
    <3>1. /\ y \in AttemptRow /\ y.verification = evaluator[n].verification
          /\ y.agen = evaluator[n].agen /\ y.verdict = verdict
      BY <1>1, <1>2, AttemptSealed
    <3>2. evaluator' = [evaluator EXCEPT ![n] = y]
      BY <2>2
    <3> HIDE DEF y
    <3>3. y.verdict # "NONE" /\ evaluator[n].seals # 2
      BY <1>2, <2>2, <3>1
    <3>4. QED
      BY <3>1, <3>2, <3>3, Zenon
  <2>3. QED
    BY <1>3, <2>1, <2>2
<1>5. UNCHANGED <<row, provenance, verification, evaluation, approval, closing>>
  BY DEF Seal
<1>6. Tables' /\ Keeps
  BY <1>1, <1>4, <1>5, Known, EvaluatorSealed
<1>7. OthersKeep(a)
  BY <1>6, KeepsOthers
<1>8. QED
  BY <1>6, <1>7, RestStep, Known DEF Seal, Unfenced
\* The handler goes on to judge an evaluation it registered.
LEMMA JudgeAt ==
  ASSUME NEW h \in Handler, NEW x \in Nat
  PROVE  LET s == [h EXCEPT !.pc = "judged", !.id = x] IN s \in Handler /\ s.pc = "judged" /\ s.id = x
<1>1. "judged" \in Stage
  BY DEF Stage
<1>2. QED
  BY <1>1 DEF Handler

\* The handler goes on to request an approval of what it judged.
LEMMA RequestAt ==
  ASSUME NEW h \in Handler, NEW x \in Nat
  PROVE  LET s == [h EXCEPT !.pc = "request", !.ver = x] IN s \in Handler /\ s.pc = "request" /\ s.id = h.id
<1>1. "request" \in Stage
  BY DEF Stage
<1>2. QED
  BY <1>1 DEF Handler

\* The evaluation of a sealed attempt is registered; its handler is the only
\* one to know of it.
LEMMA RegisterEvaluationKeeps ==
  ASSUME ClosureInv, NEW a \in Author, RegisterEvaluation(a)
  PROVE  ClosureInv'
<1> DEFINE n == step[a].id
           e == [attempt |-> n, content |-> Target(n), verdict |-> evaluator[n].verdict, agen |-> generation]
           w == [status |-> "NONE", bound |-> FALSE, consumed |-> FALSE]
           x == [evaluator[n] EXCEPT !.open = FALSE]
           new == Len(evaluation) + 1
<1>1. n \in DOMAIN evaluator /\ n \in Nat /\ evaluator[n] \in AttemptRow /\ new \in Nat
  BY Known, RowTypes DEF RegisterEvaluation, AtStage, Remembers, Tables
<1>2. /\ evaluation' = Append(evaluation, e) /\ approval' = Append(approval, w)
      /\ evaluator' = [evaluator EXCEPT ![n] = x]
      /\ evaluator[n].seals = 2 /\ evaluator[n].agen = generation
      /\ UNCHANGED <<row, generation, granted, work, makerOpen, provenance, verification, closing>>
  BY DEF RegisterEvaluation, OwnAttempt
<1>3. PICK s \in Handler : s = [step[a] EXCEPT !.pc = "judged", !.id = new] /\ s.pc = "judged" /\ s.id = new
  <2>1. step[a] \in Handler /\ new \in Nat
    BY <1>1, Known
  <2> HIDE DEF n, e, w, x, new
  <2> DEFINE y == [step[a] EXCEPT !.pc = "judged", !.id = new]
  <2>2. y \in Handler /\ y.pc = "judged" /\ y.id = new
    BY <2>1, JudgeAt
  <2>3. y = [step[a] EXCEPT !.pc = "judged", !.id = new]
    OBVIOUS
  <2> HIDE DEF y
  <2>4. QED
    BY <2>2, <2>3
<1>4. step' = [step EXCEPT ![a] = s]
  BY <1>3 DEF RegisterEvaluation
<1>5. /\ x \in AttemptRow /\ x.verification = evaluator[n].verification /\ x.agen = evaluator[n].agen
      /\ x.seals = evaluator[n].seals /\ x.verdict = evaluator[n].verdict
  <2>1. 2 \in Seals
    BY DEF Seals
  <2>2. QED
    BY <1>1, <2>1, AttemptChanged
<1>6. Target(n) \in Content
  <2>1. verification[evaluator[n].verification] \in VerificationRow
    BY <1>1, RowTypes, Known DEF Tables, Chain
  <2>2. QED
    BY <2>1 DEF Target, VerificationRow
<1>7. evaluator[n].verdict \in {"PASS", "REWORK_REQUIRED", "BLOCKED"}
  BY <1>1, <1>2, Known DEF Tables, Chain, AttemptRow, Result
<1>8. /\ e \in EvaluationRow /\ e.attempt = n /\ e.content = Target(n) /\ e.verdict = evaluator[n].verdict
      /\ e.agen = generation
  BY <1>1, <1>6, <1>7, Known DEF EvaluationRow
<1>9. w \in ApprovalRow /\ w.status = "NONE" /\ ~w.bound /\ ~w.consumed
  BY DEF ApprovalRow
<1> HIDE DEF n, e, w, x, new
<1>10. /\ Tables' /\ Keeps /\ Len(evaluation) + 1 \in DOMAIN evaluation'
       /\ Len(evaluation) + 1 \notin DOMAIN evaluation /\ ~approval'[Len(evaluation) + 1].bound
  BY <1>1, <1>2, <1>5, <1>8, <1>9, Known, EvaluationRegistered
<1>11. new \in DOMAIN evaluation' /\ new \notin DOMAIN evaluation /\ ~approval'[new].bound
  BY <1>10 DEF new
<1>12. Remembers(s)'
  BY <1>3, <1>11 DEF Remembers, Judging, Open
<1>13. \A b \in Author \ {a} : ~(step[b].pc \in Judging /\ step[b].id = s.id)
  BY <1>3, <1>11, Known DEF Remembers
<1>14. OthersKeep(a)
  BY <1>10, KeepsOthers
<1>15. row' \in Rows /\ Unfenced /\ work' = work /\ makerOpen' \in BOOLEAN
  BY <1>2, Known DEF Unfenced
<1>16. QED
  BY <1>3, <1>4, <1>10, <1>12, <1>13, <1>14, <1>15, HandlerStep

\* The judgement moves the execution; a pass goes on to its approval.
LEMMA JudgedKeeps ==
  ASSUME ClosureInv, NEW a \in Author, Judged(a)
  PROVE  ClosureInv'
<1>1. CASE /\ Move("WAITING_APPROVAL", "EVALUATING")
           /\ step' = [step EXCEPT ![a] = [@ EXCEPT !.pc = "request", !.ver = row.version + 1]]
  <2>1. PICK s \in Handler : s = [step[a] EXCEPT !.pc = "request", !.ver = row.version + 1]
                             /\ s.pc = "request" /\ s.id = step[a].id
    <3> DEFINE v == row.version + 1
    <3>1. step[a] \in Handler /\ v \in Nat
      BY Known
    <3> HIDE DEF v
    <3> DEFINE y == [step[a] EXCEPT !.pc = "request", !.ver = v]
    <3>2. y \in Handler /\ y.pc = "request" /\ y.id = step[a].id
      BY <3>1, RequestAt
    <3>3. y = [step[a] EXCEPT !.pc = "request", !.ver = row.version + 1]
      BY DEF v
    <3> HIDE DEF y
    <3>4. QED
      BY <3>2, <3>3
  <2>2. step' = [step EXCEPT ![a] = s]
    BY <1>1, <2>1
  <2>3. row' \in Rows /\ Unfenced /\ row'.commit = row.commit
    <3>1. "WAITING_APPROVAL" \in State /\ "EVALUATING" \in ResumeState
      BY DEF State, ResumeState
    <3>2. QED
      BY <1>1, <3>1, Moves DEF Judged, Unfenced
  <2>4. Tables' /\ Keeps
    BY <2>3, TablesStay DEF Judged
  <2>5. step[a].pc = "judged"
    BY DEF Judged, AtStage
  <2>6. Remembers(s)
    BY <2>1, <2>5, Known DEF Remembers, Judging, Open
  <2>7. s.pc \in Judging => \A b \in Author \ {a} : ~(step[b].pc \in Judging /\ step[b].id = s.id)
    BY <2>1, <2>5 DEF ClosureInv, Handlers, SoleJudge, Judging
  <2>8. Remembers(s)' /\ OthersKeep(a)
    BY <2>4, <2>6, KeepsOthers DEF Keeps
  <2>9. work' = work /\ makerOpen' \in BOOLEAN
    BY Known DEF Judged
  <2>10. QED
    BY <2>1, <2>2, <2>3, <2>4, <2>7, <2>8, <2>9, HandlerStep
<1>2. CASE Done(a) /\ UNCHANGED row
  <2>1. Tables' /\ OthersKeep(a)
    BY <1>2, TablesStay, KeepsOthers DEF Judged
  <2>2. QED
    BY <1>2, <2>1, RestStep, Known DEF Judged, Unfenced
<1>3. CASE Move("REWORK_READY", "NONE") /\ Done(a)
  BY <1>3, MoveAndRest DEF Judged, State, ResumeState
<1>4. CASE Move("BLOCKED", "EVALUATING") /\ Done(a)
  BY <1>4, MoveAndRest DEF Judged, State, ResumeState
<1>5. QED
  BY <1>1, <1>2, <1>3, <1>4, Zenon DEF Judged

\* A rejected candidate is escalated.
LEMMA EscalateKeeps ==
  ASSUME ClosureInv, NEW a \in Author, Escalate(a)
  PROVE  ClosureInv'
BY MoveAndRest DEF Escalate, State, ResumeState
\* What a handler that begins remembers.
LEMMA EnteredAt ==
  ASSUME NEW p \in Stage, NEW v \in Nat, NEW x \in Nat
  PROVE  \E s \in Handler : s = [pc |-> p, ver |-> v, id |-> x] /\ s.pc = p /\ s.id = x
<1> DEFINE s == [pc |-> p, ver |-> v, id |-> x]
<1>1. s \in Handler /\ s.pc = p /\ s.id = x
  BY DEF Handler
<1>2. QED
  BY <1>1, Zenon

\* What an answer, a request or a binding leaves of an approval.
LEMMA ApprovalAnswered ==
  ASSUME NEW r \in ApprovalRow, NEW status \in {"PENDING", "APPROVED", "REJECTED"}
  PROVE  LET w == [r EXCEPT !.status = status] IN
         w \in ApprovalRow /\ w.status = status /\ w.bound = r.bound /\ w.consumed = r.consumed
BY DEF ApprovalRow

\* The binding of an approval, and what consumes it.
LEMMA ApprovalFlagged ==
  ASSUME NEW r \in ApprovalRow
  PROVE  /\ LET w == [r EXCEPT !.bound = TRUE] IN
              w \in ApprovalRow /\ w.status = r.status /\ w.bound /\ w.consumed = r.consumed
         /\ LET w == [r EXCEPT !.consumed = TRUE] IN
              w \in ApprovalRow /\ w.status = r.status /\ w.bound = r.bound /\ w.consumed
BY DEF ApprovalRow

\* An approval is requested for an evaluation that has none.
LEMMA RequestApprovalKeeps ==
  ASSUME ClosureInv, NEW a \in Author, RequestApproval(a)
  PROVE  ClosureInv'
<1> DEFINE e == step[a].id
           w == [approval[e] EXCEPT !.status = "PENDING"]
<1>1. step[a].pc = "request" /\ e \in DOMAIN evaluation /\ ~approval[e].bound
  BY Known DEF RequestApproval, AtStage, Remembers, Judging
<1>2. approval[e] \in ApprovalRow
  BY <1>1, RowTypes, Known DEF Tables
<1>3. w \in ApprovalRow /\ w.status = "PENDING" /\ w.bound = approval[e].bound /\ w.consumed = approval[e].consumed
  BY <1>2, ApprovalAnswered
<1>4. approval' = [approval EXCEPT ![e] = w] /\ Go(a, "approve")
  BY DEF RequestApproval
<1>5. UNCHANGED <<row, generation, granted, work, makerOpen, provenance, verification, evaluator, evaluation, closing>>
  BY DEF RequestApproval
<1> HIDE DEF w
<1>6. Tables' /\ Keeps
  <2>1. /\ Tables'
        /\ \A s \in Handler : Remembers(s) /\ (s.pc \in Judging /\ s.id = e => ~w.bound) => Remembers(s)'
    BY <1>1, <1>3, <1>4, <1>5, Known, ApprovalChanged
  <2>2. QED
    BY <1>1, <1>3, <2>1 DEF Keeps
<1>7. \A s \in Handler : s.pc = "approve" /\ s.id = e => Remembers(s)'
  <2>1. \A s \in Handler : s.pc = "approve" /\ s.id = e => Remembers(s)
    BY <1>1 DEF Remembers, Judging, Open
  <2>2. QED
    BY <1>6, <2>1 DEF Keeps
<1>8. row' \in Rows /\ Unfenced /\ work' = work /\ makerOpen' \in BOOLEAN /\ OthersKeep(a)
  BY <1>5, <1>6, Known, KeepsOthers DEF Unfenced
<1>9. QED
  BY <1>1, <1>4, <1>6, <1>7, <1>8, GoStep DEF Stage, Judging

\* The approval is bound by the one handler that requested it.
LEMMA BindApprovalKeeps ==
  ASSUME ClosureInv, NEW a \in Author, BindApproval(a)
  PROVE  ClosureInv'
<1> DEFINE e == step[a].id
           w == [approval[e] EXCEPT !.bound = TRUE]
<1>1. step[a].pc = "approve" /\ e \in DOMAIN evaluation
  BY Known DEF BindApproval, AtStage, Remembers, Judging
<1>2. approval[e] \in ApprovalRow
  BY <1>1, RowTypes, Known DEF Tables
<1>3. w \in ApprovalRow /\ w.status = approval[e].status /\ w.bound /\ w.consumed = approval[e].consumed
  BY <1>2, ApprovalFlagged
<1>4. approval' = [approval EXCEPT ![e] = w] /\ Done(a)
  BY DEF BindApproval
<1>5. UNCHANGED <<row, generation, granted, work, makerOpen, provenance, verification, evaluator, evaluation, closing>>
  BY DEF BindApproval
<1> HIDE DEF w
<1>6. /\ Tables'
      /\ \A s \in Handler : Remembers(s) /\ (s.pc \in Judging /\ s.id = e => ~w.bound) => Remembers(s)'
  BY <1>1, <1>3, <1>4, <1>5, Known, ApprovalChanged
<1>7. OthersKeep(a)
  <2> SUFFICES ASSUME NEW b \in Author \ {a}, NEW t \in Handler, t = step[b] PROVE Remembers(t)'
    BY DEF OthersKeep
  <2>1. Remembers(t)
    BY Known
  <2>2. ~(t.pc \in Judging /\ t.id = e)
    BY <1>1 DEF ClosureInv, Handlers, SoleJudge, Judging
  <2>3. QED
    BY <1>6, <2>1, <2>2
<1>8. row' \in Rows /\ Unfenced /\ work' = work /\ makerOpen' \in BOOLEAN
  BY <1>5, Known DEF Unfenced
<1>9. QED
  BY <1>4, <1>6, <1>7, <1>8, RestStep

\* An answer stands once it is an approval; a rejection is escalated.
LEMMA ResolveApprovalKeeps ==
  ASSUME ClosureInv, NEW a \in Author, NEW e \in DOMAIN evaluation, NEW status \in {"APPROVED", "REJECTED"},
         ResolveApproval(a, e, status)
  PROVE  ClosureInv'
<1> DEFINE w == [approval[e] EXCEPT !.status = status]
<1>1. approval[e] \in ApprovalRow /\ e \in Nat /\ approval[e].bound /\ approval[e].status \in {"PENDING", status}
  BY RowTypes, Known DEF Tables, ResolveApproval
<1>2. w \in ApprovalRow /\ w.status = status /\ w.bound = approval[e].bound /\ w.consumed = approval[e].consumed
  <2>1. status \in {"PENDING", "APPROVED", "REJECTED"} /\ approval[e] \in ApprovalRow
    BY <1>1
  <2>2. QED
    BY <2>1, ApprovalAnswered
<1>3. approval' = [approval EXCEPT ![e] = w]
  BY DEF ResolveApproval
<1>4. UNCHANGED <<row, generation, granted, work, makerOpen, provenance, verification, evaluator, evaluation, closing>>
  BY DEF ResolveApproval
<1> HIDE DEF w
<1>5. /\ Tables'
      /\ \A s \in Handler : Remembers(s) /\ (s.pc \in Judging /\ s.id = e => ~w.bound) => Remembers(s)'
  <2>1. approval[e].status = "APPROVED" => status = "APPROVED"
    BY <1>1
  <2>2. QED
    BY <1>1, <1>2, <1>3, <1>4, <2>1, Known, ApprovalChanged
<1>6. Keeps
  <2>1. \A s \in Handler : Remembers(s) => ~(s.pc \in Judging /\ s.id = e)
    BY <1>1 DEF Remembers
  <2>2. QED
    BY <1>5, <2>1 DEF Keeps
<1>7. row' \in Rows /\ Unfenced /\ work' = work /\ makerOpen' \in BOOLEAN /\ OthersKeep(a)
  BY <1>4, <1>6, Known, KeepsOthers DEF Unfenced
<1>8. CASE status = "REJECTED"
  <2>1. PICK s \in Handler : /\ s = [pc |-> "escalate", ver |-> row.version, id |-> e]
                             /\ s.pc = "escalate" /\ s.id = e
    <3>1. "escalate" \in Stage /\ row.version \in Nat
      BY Known DEF Stage
    <3>2. QED
      BY <1>1, <3>1, EnteredAt
  <2>2. step' = [step EXCEPT ![a] = s]
    BY <1>8, <2>1 DEF ResolveApproval, Enter
  <2>3. Remembers(s)
    BY <2>1 DEF Remembers, Judging, Open
  <2>4. Remembers(s)'
    BY <1>6, <2>3 DEF Keeps
  <2>5. QED
    BY <1>5, <1>7, <2>1, <2>2, <2>4, HandlerStep DEF Judging
<1>9. CASE status # "REJECTED"
  <2>1. UNCHANGED step /\ step[a].pc = "idle"
    BY <1>9 DEF ResolveApproval, AtStage
  <2>2. PICK s \in Handler : s = step[a] /\ Remembers(s) /\ s.pc = "idle"
    BY <2>1, Known
  <2>3. step' = [step EXCEPT ![a] = s]
    BY <2>1, <2>2 DEF ClosureInv, Handlers
  <2>4. Remembers(s)'
    BY <1>6, <2>2 DEF Keeps
  <2>5. QED
    BY <1>5, <1>7, <2>2, <2>3, <2>4, HandlerStep DEF Judging
<1>10. QED
  BY <1>8, <1>9

\* The handler goes on and only reads.
LEMMA GoReading ==
  ASSUME ClosureInv, NEW a \in Author, NEW p \in Stage, Go(a, p),
         UNCHANGED <<row, generation, granted, work, makerOpen, evidence, closing>>,
         \A s \in Handler : s.pc = p /\ s.id = step[a].id => Remembers(s), p \notin Judging,
         p = "ref" => row.owner = a /\ granted[a] = [gen |-> row.gen, agen |-> generation]
  PROVE  ClosureInv'
<1>1. Tables' /\ Keeps
  BY TablesStay
<1>2. \A s \in Handler : s.pc = p /\ s.id = step[a].id => Remembers(s)'
  BY <1>1 DEF Keeps
<1>3. row' \in Rows /\ Unfenced /\ work' = work /\ makerOpen' \in BOOLEAN /\ OthersKeep(a)
  BY <1>1, Known, KeepsOthers DEF Unfenced
<1>4. QED
  BY <1>1, <1>2, <1>3, GoStep

\* The intent is prepared while nobody is in the closing transaction.
LEMMA PrepareCommitKeeps ==
  ASSUME ClosureInv, NEW a \in Author, NEW e \in DOMAIN evaluation, PrepareCommit(a, e)
  PROVE  ClosureInv'
<1>1. e \in Nat /\ "close" \in Stage /\ row.version \in Nat
  BY RowTypes, Known DEF Tables, Stage
<1>2. \A s \in Handler : s.pc = "close" /\ s.id = e => Remembers(s)
  BY DEF Remembers, Judging, Open
<1>3. CASE UNCHANGED intent
  <2>1. UNCHANGED <<row, generation, granted, work, makerOpen, evidence, closing>> /\ Enter(a, "close", e)
    BY <1>3 DEF PrepareCommit, closing
  <2>2. QED
    BY <1>1, <1>2, <2>1, EnterStep DEF Judging
<1>4. CASE intent = 0 /\ intent' = e
  <2>1. /\ evaluation[e].verdict = "PASS" /\ approval[e].status = "APPROVED" /\ approval[e].bound
        /\ UNCHANGED <<row, generation, granted, work, makerOpen, evidence, head, closure>>
    BY DEF PrepareCommit, MayClose
  <2>2. Tables' /\ \A s \in Handler : Remembers(s) /\ s.pc \notin Open => Remembers(s)'
    BY <1>4, <2>1, Known, IntentPrepared
  <2>3. PICK s \in Handler : s = [pc |-> "close", ver |-> row.version, id |-> e] /\ s.pc = "close" /\ s.id = e
    BY <1>1, EnteredAt
  <2>4. step' = [step EXCEPT ![a] = s]
    BY <2>3 DEF PrepareCommit, Enter
  <2>5. Remembers(s)'
    BY <1>2, <2>2, <2>3 DEF Open
  <2>6. OthersKeep(a)
    <3> SUFFICES ASSUME NEW b \in Author \ {a}, NEW t \in Handler, t = step[b] PROVE Remembers(t)'
      BY DEF OthersKeep
    <3>1. Remembers(t) /\ t.pc \notin Open
      BY Known DEF PrepareCommit, Locked, Open
    <3>2. QED
      BY <2>2, <3>1
  <2>7. row' \in Rows /\ Unfenced /\ work' = work /\ makerOpen' \in BOOLEAN
    BY <2>1, Known DEF Unfenced
  <2>8. QED
    BY <2>2, <2>3, <2>4, <2>5, <2>6, <2>7, HandlerStep DEF Judging
<1>5. QED
  BY <1>3, <1>4 DEF PrepareCommit

\* The closing transaction opens on the intent.
LEMMA OpenClosingKeeps ==
  ASSUME ClosureInv, NEW a \in Author, OpenClosing(a)
  PROVE  ClosureInv'
<1>1. step[a].id \in DOMAIN evaluation /\ intent = step[a].id
  BY Known DEF OpenClosing, AtStage, Remembers
<1>2. CASE Go(a, "apply")
  <2>1. \A s \in Handler : s.pc = "apply" /\ s.id = step[a].id => Remembers(s)
    BY <1>1 DEF Remembers, Judging, Open
  <2>2. QED
    BY <1>2, <2>1, GoReading DEF OpenClosing, Stage, Judging
<1>3. CASE head = EvaluatedContent(step[a].id) /\ Go(a, "recheck")
  <2>1. \A s \in Handler : s.pc = "recheck" /\ s.id = step[a].id => Remembers(s)
    BY <1>1, <1>3 DEF Remembers, Judging, Open
  <2>2. QED
    BY <1>3, <2>1, GoReading DEF OpenClosing, Stage, Judging
<1>4. QED
  BY <1>2, <1>3 DEF OpenClosing

\* The fence is in force when update-ref is about to run.
LEMMA CheckFenceKeeps ==
  ASSUME ClosureInv, NEW a \in Author, CheckFence(a)
  PROVE  ClosureInv'
<1>1. step[a].id \in DOMAIN evaluation /\ intent = step[a].id
  BY Known DEF CheckFence, AtStage, Remembers, Open
<1>2. \A s \in Handler : s.pc = "ref" /\ s.id = step[a].id => Remembers(s)
  BY <1>1 DEF Remembers, Judging, Open
<1>3. row.owner = a /\ granted[a] = [gen |-> row.gen, agen |-> generation]
  BY DEF CheckFence, Fence, Granted
<1>4. QED
  BY <1>2, <1>3, GoReading DEF CheckFence, Stage, Judging

\* The branch moves to the content of the intent.
LEMMA UpdateRefKeeps ==
  ASSUME ClosureInv, NEW a \in Author, UpdateRef(a)
  PROVE  ClosureInv'
<1>1. step[a].pc = "ref" /\ step[a].id \in DOMAIN evaluation /\ intent = step[a].id
  BY Known DEF UpdateRef, AtStage, Remembers, Open
<1>2. intent # 0
  BY <1>1, RowTypes, Known DEF Tables
<1>3. /\ head = 0 /\ head' = EvaluatedContent(intent) /\ Go(a, "recheck")
      /\ UNCHANGED <<row, generation, granted, work, makerOpen, evidence, intent, closure>>
  BY DEF UpdateRef
<1>4. Tables' /\ Keeps
  BY <1>2, <1>3, Known, BranchMoved
<1>5. \A s \in Handler : s.pc = "recheck" /\ s.id = step[a].id => Remembers(s)'
  <2>1. UNCHANGED evaluation
    BY <1>3 DEF evidence
  <2>2. QED
    BY <1>1, <1>3, <2>1 DEF Remembers, Judging, Open, EvaluatedContent
<1>6. row' \in Rows /\ Unfenced /\ work' = work /\ makerOpen' \in BOOLEAN /\ OthersKeep(a)
  BY <1>3, <1>4, Known, KeepsOthers DEF Unfenced
<1>7. QED
  BY <1>3, <1>4, <1>5, <1>6, GoStep DEF Stage, Judging

\* The worktree is compared with the commit.
LEMMA RecheckKeeps ==
  ASSUME ClosureInv, NEW a \in Author, Recheck(a)
  PROVE  ClosureInv'
<1>1. step[a].id \in DOMAIN evaluation /\ intent = step[a].id /\ head = EvaluatedContent(step[a].id)
  BY Known DEF Recheck, AtStage, Remembers, Open
<1>2. \A s \in Handler : s.pc = "record" /\ s.id = step[a].id => Remembers(s)
  BY <1>1 DEF Remembers, Judging, Open
<1>3. QED
  BY <1>2, GoReading DEF Recheck, Stage, Judging

\* The row of an execution whose candidate is closed.
LEMMA ClosedRow ==
  ASSUME NEW r \in ExecutionRow, NEW v \in Nat, NEW c \in Commits
  PROVE  LET n == [r EXCEPT !.state = "VERIFYING", !.resume = "NONE", !.version = v, !.commit = c] IN
         /\ n \in ExecutionRow /\ n.state = "VERIFYING" /\ n.owner = r.owner /\ n.gen = r.gen /\ n.commit = c
<1>1. "VERIFYING" \in State /\ "NONE" \in ResumeState
  BY DEF State, ResumeState
<1>2. QED
  BY <1>1 DEF ExecutionRow

\* The closure is recorded with the commit that is on the branch.
LEMMA RecordClosureKeeps ==
  ASSUME ClosureInv, NEW a \in Author, RecordClosure(a)
  PROVE  ClosureInv'
<1> DEFINE e == step[a].id
           w == [approval[e] EXCEPT !.consumed = TRUE]
<1>1. e \in DOMAIN evaluation /\ intent = e /\ head = EvaluatedContent(e)
  BY Known DEF RecordClosure, AtStage, Remembers, Open
<1>2. CASE closure = e
  <2>1. UNCHANGED <<evidence, closing, row, generation, granted, work, makerOpen>> /\ Done(a)
    BY <1>2 DEF RecordClosure, evidence, closing
  <2>2. Tables' /\ OthersKeep(a)
    BY <2>1, TablesStay, KeepsOthers
  <2>3. QED
    BY <2>1, <2>2, RestStep, Known DEF Unfenced
<1>3. CASE closure # e
  <2>1. /\ closure' = e /\ approval' = [approval EXCEPT ![e] = w] /\ Done(a)
        /\ row' = [row EXCEPT !.state = "VERIFYING", !.resume = "NONE", !.version = @ + 1,
                              !.commit = EvaluatedContent(e)]
        /\ UNCHANGED <<generation, granted, work, makerOpen, provenance, verification, evaluator, evaluation,
                       head, intent>>
    BY <1>3 DEF RecordClosure
  <2>2. approval[e] \in ApprovalRow
    BY <1>1, RowTypes, Known DEF Tables
  <2>3. w \in ApprovalRow /\ w.status = approval[e].status /\ w.bound = approval[e].bound /\ w.consumed
    BY <2>2, ApprovalFlagged
  <2> HIDE DEF w
  <2>4. row' \in Rows /\ row'.owner = row.owner /\ row'.gen = row.gen /\ row'.commit = EvaluatedContent(e)
    <3>1. EvaluatedContent(e) \in Commits
      <4>1. evaluation[e] \in EvaluationRow
        BY <1>1, RowTypes, Known DEF Tables
      <4>2. QED
        BY <4>1, ContentsAssumption DEF EvaluatedContent, EvaluationRow, Content, Commits
    <3>2. row \in ExecutionRow /\ row.version + 1 \in Nat
      BY Known DEF Rows
    <3>3. /\ row' \in ExecutionRow /\ row'.state = "VERIFYING" /\ row'.owner = row.owner /\ row'.gen = row.gen
          /\ row'.commit = EvaluatedContent(e)
      <4> DEFINE v == row.version + 1
                 c == EvaluatedContent(e)
                 n == [row EXCEPT !.state = "VERIFYING", !.resume = "NONE", !.version = v, !.commit = c]
      <4>1. row' = n
        BY <2>1
      <4>2. v \in Nat /\ c \in Commits
        BY <3>1, <3>2
      <4> HIDE DEF v, c
      <4>3. n \in ExecutionRow /\ n.state = "VERIFYING" /\ n.owner = row.owner /\ n.gen = row.gen /\ n.commit = c
        BY <3>2, <4>2, ClosedRow
      <4> HIDE DEF n
      <4>4. QED
        BY <4>1, <4>3 DEF c
    <3>4. QED
      BY <3>3 DEF Rows
  <2>5. Tables' /\ Keeps
    BY <1>1, <1>3, <2>1, <2>3, <2>4, Known, ClosureRecorded
  <2>6. QED
    BY <2>1, <2>4, <2>5, KeepsOthers, RestStep, Known DEF Unfenced
<1>4. QED
  BY <1>2, <1>3
-----------------------------------------------------------------------------
(* The theorems. *)

\* The invariant holds when the Maker begins.
LEMMA ClosureStarts ==
  ASSUME ClosureInit
  PROVE  ClosureInv
<1>1. NoHandler \in Handler /\ NoHandler.pc = "idle"
  BY DEF NoHandler, Handler, Stage
<1>2. StateTypes
  BY ContentsAssumption DEF ClosureInit, StateTypes, Rows, ExecutionRow, State, ResumeState, Owners, Commits, Grant,
                            Content
<1>3. TableTypes
  BY ContentsAssumption DEF ClosureInit, TableTypes
<1>4. Chain /\ Approvals
  BY DEF ClosureInit, Chain, Approvals
<1>5. Closings
  BY DEF ClosureInit, Closings
<1>6. step \in [Author -> Handler] /\ \A a \in Author : step[a] = NoHandler
  BY <1>1 DEF ClosureInit
<1>7. \A a \in Author : Remembers(step[a])
  BY <1>1, <1>6 DEF Remembers, Judging, Open
<1>8. SoleJudge /\ RefGranted
  BY <1>1, <1>6 DEF SoleJudge, RefGranted, Judging
<1>9. QED
  BY <1>2, <1>3, <1>4, <1>5, <1>6, <1>7, <1>8 DEF ClosureInv, Tables, Handlers

\* Every step keeps the invariant.
LEMMA ClosureSteps ==
  ASSUME ClosureInv, ClosureNext
  PROVE  ClosureInv'
<1>1. CASE ExpireLease \/ MoveAuthority \/ Edit
  BY <1>1, ExpireLeaseKeeps, MoveAuthorityKeeps, EditKeeps
<1>2. ASSUME NEW a \in Author,
             \/ Acquire(a) \/ Fail(a) \/ HandOver(a) \/ BindPrecommitCandidate(a) \/ HandedOver(a)
             \/ Rework(a) \/ Resume(a)
      PROVE  ClosureInv'
  BY <1>2, AcquireKeeps, FailKeeps, HandOverKeeps, BindPrecommitCandidateKeeps, HandedOverKeeps, ReworkKeeps,
     ResumeKeeps
<1>3. ASSUME NEW a \in Author,
             \/ \E c \in Content : CheckVerification(a, c)
             \/ \E verdict \in {"PASS", "FAIL"} : RegisterVerification(a, verdict)
             \/ Verified(a) \/ CheckEvaluator(a) \/ BeginEvaluator(a)
             \/ \E n \in DOMAIN evaluator : CheckSeal(a, n) \/ CheckCompletion(a, n)
             \/ \E verdict \in {"PASS", "REWORK_REQUIRED", "BLOCKED"} : Seal(a, verdict)
      PROVE  ClosureInv'
  BY <1>3, CheckVerificationKeeps, RegisterVerificationKeeps, VerifiedKeeps, CheckEvaluatorKeeps,
     BeginEvaluatorKeeps, CheckSealKeeps, CheckCompletionKeeps, SealKeeps
<1>4. ASSUME NEW a \in Author,
             \/ RegisterEvaluation(a) \/ Judged(a) \/ RequestApproval(a) \/ BindApproval(a)
             \/ \E e \in DOMAIN evaluation :
                  \/ \E status \in {"APPROVED", "REJECTED"} : ResolveApproval(a, e, status)
                  \/ PrepareCommit(a, e)
             \/ Escalate(a)
      PROVE  ClosureInv'
  BY <1>4, RegisterEvaluationKeeps, JudgedKeeps, RequestApprovalKeeps, BindApprovalKeeps, ResolveApprovalKeeps,
     PrepareCommitKeeps, EscalateKeeps
<1>5. ASSUME NEW a \in Author,
             OpenClosing(a) \/ CheckFence(a) \/ UpdateRef(a) \/ Recheck(a) \/ RecordClosure(a)
      PROVE  ClosureInv'
  BY <1>5, OpenClosingKeeps, CheckFenceKeeps, UpdateRefKeeps, RecheckKeeps, RecordClosureKeeps
<1>6. QED
  BY <1>1, <1>2, <1>3, <1>4, <1>5, Zenon DEF ClosureNext

\* Nothing changes in a stuttering step.
LEMMA ClosureStutters ==
  ASSUME ClosureInv, UNCHANGED closureVars
  PROVE  ClosureInv'
<1>1. UNCHANGED <<evidence, closing, step, row, generation, granted, work, makerOpen>>
  BY DEF closureVars
<1>2. QED
  BY <1>1, SurroundingStep DEF ClosureInv, StateTypes, Unfenced

(* Evidence stands in a chain, approvals are given once they are bound and  *)
(* consumed by the closure, and every handler's memory of it stays true,    *)
(* however the steps of the controllers interleave and whichever fail.      *)
THEOREM ClosureInvariant == ClosureSpec => []ClosureInv
<1>1. ClosureInit => ClosureInv
  BY ClosureStarts
<1>2. ClosureInv /\ [ClosureNext]_closureVars => ClosureInv'
  BY ClosureSteps, ClosureStutters
<1>3. QED
  BY <1>1, <1>2, PTL DEF ClosureSpec

\* The execution row, the tables and the handlers have their types.
THEOREM ClosureTypes == ClosureSpec => []ClosureTypeOK
<1>1. ASSUME ClosureInv PROVE ClosureTypeOK
  <2>1. row \in ExecutionRow /\ generation \in Nat /\ granted \in [Author -> Grant] /\ work \in Content
        /\ makerOpen \in BOOLEAN
    BY <1>1 DEF ClosureInv, StateTypes, Rows
  <2>2. /\ provenance \in Seq(Content) /\ verification \in Seq(VerificationRow)
        /\ evaluator \in Seq(AttemptRow) /\ evaluation \in Seq(EvaluationRow)
        /\ head \in 0..Contents /\ intent \in 0..Len(evaluation) /\ closure \in {0, intent}
    BY <1>1 DEF ClosureInv, Tables, TableTypes
  <2>3. approval \in [DOMAIN evaluation -> ApprovalRow]
    <3>1. approval \in Seq(ApprovalRow) /\ DOMAIN approval = DOMAIN evaluation
      BY <1>1, RowTypes DEF ClosureInv, Tables, TableTypes
    <3>2. QED
      BY <3>1
  <2>4. step \in [Author -> Handler]
    BY <1>1 DEF ClosureInv, Handlers
  <2>5. QED
    BY <2>1, <2>2, <2>3, <2>4, Zenon
       DEF ClosureTypeOK, ExecutionRow, State, ResumeState, Owners, Commits, Grant, VerificationRow, AttemptRow,
           Seals, Result, EvaluationRow, ApprovalRow, Handler, Stage
<1>2. QED
  BY <1>1, ClosureInvariant, PTL

(* What stands on the branch is what was reviewed: handed over, verified,   *)
(* evaluated, approved, all under one authority generation.                 *)
THEOREM ReviewedAlwaysCommitted == ClosureSpec => []ReviewedIsCommitted
<1>1. ASSUME ClosureInv PROVE ReviewedIsCommitted
  <2> SUFFICES ASSUME head # 0
      PROVE  /\ intent # 0 /\ head = EvaluatedContent(intent) /\ head \in ToSet(provenance)
             /\ approval[intent].status = "APPROVED" /\ approval[intent].bound
             /\ LET e == evaluation[intent]
                    n == evaluator[e.attempt]
                    v == verification[n.verification] IN
                  /\ e.verdict = "PASS" /\ n.verdict = "PASS" /\ v.verdict = "PASS" /\ v.content = head
                  /\ e.agen = n.agen /\ n.agen = v.agen
    BY DEF ReviewedIsCommitted
  <2>1. /\ intent # 0 /\ head = EvaluatedContent(intent) /\ evaluation[intent].verdict = "PASS"
        /\ approval[intent].status = "APPROVED" /\ approval[intent].bound
    BY <1>1 DEF ClosureInv, Tables, Closings
  <2>2. intent \in DOMAIN evaluation
    BY <1>1, <2>1, RowTypes DEF ClosureInv, Tables, TableTypes
  <2>3. QED
    BY <1>1, <2>1, <2>2 DEF ClosureInv, Tables, Chain, Target, EvaluatedContent
<1>2. QED
  BY <1>1, ClosureInvariant, PTL

(* A recorded closure has its commit on the branch and in the execution     *)
(* row, whatever died between the Git commands and the transaction's end,   *)
(* and consumes the one approval.                                           *)
THEOREM ClosureAlwaysOnBranch == ClosureSpec => []ClosureOnBranch
<1>1. ASSUME ClosureInv PROVE ClosureOnBranch
  <2>1. DOMAIN approval = DOMAIN evaluation /\ 0 \notin DOMAIN evaluation
    BY <1>1, RowTypes DEF ClosureInv, Tables
  <2>2. QED
    BY <1>1, <2>1 DEF ClosureOnBranch, ClosureInv, Tables, Closings, Approvals
<1>2. QED
  BY <1>1, ClosureInvariant, PTL

\* Only update-ref moves the branch.
LEMMA OnlyUpdateRef ==
  ASSUME ClosureNext, head' # head
  PROVE  \E a \in Author : UpdateRef(a)
<1>1. CASE ExpireLease \/ MoveAuthority \/ Edit
  BY <1>1 DEF ExpireLease, MoveAuthority, Edit, closing
<1>2. ASSUME NEW a \in Author,
             \/ Acquire(a) \/ Fail(a) \/ HandOver(a) \/ BindPrecommitCandidate(a) \/ HandedOver(a)
             \/ Rework(a) \/ Resume(a)
      PROVE  FALSE
  BY <1>2 DEF Acquire, Fail, HandOver, BindPrecommitCandidate, HandedOver, Rework, Resume, closing
<1>3. ASSUME NEW a \in Author,
             \/ \E c \in Content : CheckVerification(a, c)
             \/ \E verdict \in {"PASS", "FAIL"} : RegisterVerification(a, verdict)
             \/ Verified(a) \/ CheckEvaluator(a) \/ BeginEvaluator(a)
             \/ \E n \in DOMAIN evaluator : CheckSeal(a, n) \/ CheckCompletion(a, n)
             \/ \E verdict \in {"PASS", "REWORK_REQUIRED", "BLOCKED"} : Seal(a, verdict)
      PROVE  FALSE
  BY <1>3 DEF CheckVerification, RegisterVerification, Verified, CheckEvaluator, BeginEvaluator, CheckSeal,
              CheckCompletion, Seal, closing
<1>4. ASSUME NEW a \in Author,
             \/ RegisterEvaluation(a) \/ Judged(a) \/ RequestApproval(a) \/ BindApproval(a)
             \/ \E e \in DOMAIN evaluation :
                  \/ \E status \in {"APPROVED", "REJECTED"} : ResolveApproval(a, e, status)
                  \/ PrepareCommit(a, e)
             \/ Escalate(a)
      PROVE  FALSE
  BY <1>4 DEF RegisterEvaluation, Judged, RequestApproval, BindApproval, ResolveApproval, PrepareCommit, Escalate,
              closing
<1>5. ASSUME NEW a \in Author, OpenClosing(a) \/ CheckFence(a) \/ Recheck(a) \/ RecordClosure(a)
      PROVE  FALSE
  BY <1>5 DEF OpenClosing, CheckFence, Recheck, RecordClosure, closing
<1>6. QED
  BY <1>1, <1>2, <1>3, <1>4, <1>5, Zenon DEF ClosureNext

(* The branch moves under the lease and authority generation its controller *)
(* was granted: a newer one cannot come into force between the check and    *)
(* update-ref, though the lease may expire.                                 *)
THEOREM RefMovesAlwaysFenced == ClosureSpec => RefMovesUnderFence
<1>1. ASSUME ClosureInv, [ClosureNext]_closureVars PROVE MovesUnderFence
  <2> SUFFICES ASSUME head' # head
      PROVE  \E a \in Author :
               AtStage(a, "ref") /\ row.owner = a /\ granted[a] = [gen |-> row.gen, agen |-> generation]
    BY DEF MovesUnderFence
  <2>1. ClosureNext
    BY <1>1 DEF closureVars, closing
  <2>2. PICK a \in Author : UpdateRef(a)
    BY <2>1, OnlyUpdateRef
  <2>3. AtStage(a, "ref")
    BY <2>2 DEF UpdateRef
  <2>4. QED
    BY <1>1, <2>3 DEF ClosureInv, Handlers, RefGranted, AtStage
<1>2. QED
  BY <1>1, ClosureInvariant, PTL DEF RefMovesUnderFence, ClosureSpec
=============================================================================
