--------------------------- MODULE ExecutionProofs ---------------------------
(***************************************************************************)
(* What holds of the execution's tables for any controllers, processes,    *)
(* verdicts and table sizes, also between processes that share a           *)
(* controller id: the evidence tables only grow and agree with each other, *)
(* every handler remembers rows that exist, all of it is well typed, and   *)
(* the accepting step finds evidence that covers the commit.               *)
(*                                                                         *)
(* The second half is acceptance on evidence, where every process has a    *)
(* controller id of its own: the state of an execution never runs ahead of *)
(* the evidence for the commit its row names, and an accepted execution    *)
(* stays covered by the evidence, and by the approval, that its manifest   *)
(* names.                                                                  *)
(***************************************************************************)
EXTENDS ExecutionRecovery, WellFoundedInduction, TLAPS

-----------------------------------------------------------------------------
(* The invariant. *)

\* Evidence for a commit or an attempt.
Made(c) == \E i \in DOMAIN maker : maker[i].status = "SUCCEEDED" /\ maker[i].commit = c
Judged(n) == \E i \in DOMAIN evaluation : evaluation[i].attempt = n
Sealed(n) == n \in DOMAIN evaluator /\ evaluator[n].verdict # "NONE"
NamedApproval(a) == a \in {0} \cup DOMAIN approval /\ (ApprovalRequired => a # 0)

(* What the tables say by themselves: a Maker that succeeded has a commit, *)
(* an evaluator that succeeded a sealed verdict, and every evaluation      *)
(* repeats the commit and the verdict of an evaluator that succeeded.      *)
TablesAgree ==
  /\ \A i \in DOMAIN maker : maker[i].status = "SUCCEEDED" => maker[i].commit # 0
  /\ \A n \in DOMAIN evaluator : evaluator[n].status = "SUCCEEDED" => evaluator[n].verdict # "NONE"
  /\ \A i \in DOMAIN evaluation :
       /\ evaluation[i].attempt \in DOMAIN evaluator
       /\ LET n == evaluation[i].attempt IN
            /\ evaluator[n].status = "SUCCEEDED"
            /\ evaluator[n].commit = evaluation[i].commit
            /\ evaluator[n].verdict = evaluation[i].verdict

\* The rows of the tables that handler p remembers exist and say what it remembers.
Recalls(p) ==
  LET at == call[p].at
      n == call[p].attempt
      c == call[p].commit
  IN
  /\ at \in {"making", "candidate"} => n \in DOMAIN maker
  /\ at = "register" => Made(c)
  /\ at = "record" => call[p].verdict \in {"PASS", "FAIL"}
  /\ at = "evaluating" => n \in DOMAIN evaluator
  /\ at \in {"sealed", "finish_evaluator", "register_evaluation", "evaluated", "recover_evaluator"}
       => Sealed(n)
  /\ at \in {"finish_evaluator", "register_evaluation", "evaluated", "recover_evaluation"}
       => n \in DOMAIN evaluator /\ evaluator[n].commit = c
  /\ at = "evaluated" => Judged(n)
  /\ at = "decide" => call[p].evaluation \in DOMAIN evaluation /\ evaluation[call[p].evaluation].commit = c
  /\ at \in {"resolve", "approved"} => call[p].approval \in DOMAIN approval
  /\ at \in {"accept", "accepting"} => NamedApproval(call[p].approval)
  /\ at = "accepting" => /\ n \in DOMAIN maker /\ call[p].verification \in DOMAIN verification
                         /\ call[p].evaluation \in DOMAIN evaluation

TablesInv == TypeOK /\ TablesAgree /\ \A p \in Proc : Recalls(p)

(* What any step leaves of the tables: rows are never removed; a Maker or  *)
(* an evaluator that succeeded, a verification and an evaluation never     *)
(* change, an evaluator keeps its commit and a sealed verdict stays one.   *)
Grows ==
  /\ \A i \in DOMAIN maker :
       i \in DOMAIN maker' /\ (maker[i].status = "SUCCEEDED" => maker'[i] = maker[i])
  /\ \A i \in DOMAIN evaluator :
       /\ i \in DOMAIN evaluator' /\ evaluator'[i].commit = evaluator[i].commit
       /\ evaluator[i].verdict # "NONE" => evaluator'[i].verdict # "NONE"
       /\ evaluator[i].status = "SUCCEEDED" => evaluator'[i] = evaluator[i]
  /\ \A i \in DOMAIN verification : i \in DOMAIN verification' /\ verification'[i] = verification[i]
  /\ \A i \in DOMAIN evaluation : i \in DOMAIN evaluation' /\ evaluation'[i] = evaluation[i]
  /\ \A i \in DOMAIN approval : i \in DOMAIN approval'

-----------------------------------------------------------------------------
(* What the model's reads return. *)

\* Every table is a sequence of records of its type.
LEMMA Typed ==
  ASSUME StoreTypeOK
  PROVE  /\ \A i \in DOMAIN maker : maker[i] \in [status: AttemptStatus, commit: Nat]
         /\ \A i \in DOMAIN evaluator :
              evaluator[i] \in [status: AttemptStatus, commit: Nat, verdict: Verdict \cup {"NONE"}]
         /\ \A i \in DOMAIN verification : verification[i] \in [commit: Nat, verdict: {"PASS", "FAIL"}]
         /\ \A i \in DOMAIN evaluation : evaluation[i] \in [attempt: Nat, commit: Nat, verdict: Verdict]
         /\ \A i \in DOMAIN approval :
              approval[i] \in [version: Nat, commit: Nat, evaluation: Nat,
                               status: {"PENDING", "APPROVED", "REJECTED"}, consumed: BOOLEAN]
<1>1. ASSUME NEW T, NEW s \in Seq(T) PROVE \A i \in DOMAIN s : s[i] \in T
  OBVIOUS
<1>2. QED
  BY <1>1 DEF StoreTypeOK

\* A nonempty set of indices has a greatest element.
LEMMA Greatest ==
  ASSUME NEW n \in Nat, NEW I \in SUBSET (1..n), I # {}
  PROVE  \E x \in I : \A y \in I : x >= y
<1> DEFINE R == {ss \in Nat \X Nat : ss[1] < ss[2]}
           T == {n - i : i \in I}
<1>1. IsWellFoundedOn(R, Nat)
  BY NatLessThanWellFounded DEF OpToRel
<1>2. T \subseteq Nat
  OBVIOUS
<1>3. PICK t \in T : \A u \in T : ~ (<<u, t>> \in R)
  <2>1. PICK i \in I : TRUE
    OBVIOUS
  <2>2. n - i \in T
    OBVIOUS
  <2> HIDE DEF R, T
  <2>3. QED
    BY <1>1, <1>2, <2>2, WFMin
<1>4. PICK x \in I : t = n - x
  OBVIOUS
<1>5. ASSUME NEW y \in I PROVE x >= y
  <2>1. n - y \in T
    OBVIOUS
  <2>2. n - y \in Nat /\ t \in Nat
    OBVIOUS
  <2>3. ~(n - y < t)
    BY <1>3, <2>1, <2>2
  <2>4. QED
    BY <1>4, <2>3
<1>6. QED
  BY <1>5

\* The greatest element that Max chooses is one of them.
LEMMA MaxIn ==
  ASSUME NEW n \in Nat, NEW I \in SUBSET (1..n), I # {}
  PROVE  Max(I) \in I
BY Greatest DEF Max

\* MakerOf finds a Maker that succeeded with commit c, if there is one.
LEMMA MakerOfFinds ==
  ASSUME StoreTypeOK, NEW c
  PROVE  /\ MakerOf(c) \in Nat
         /\ MakerOf(c) # 0 =>
              /\ MakerOf(c) \in DOMAIN maker
              /\ maker[MakerOf(c)].status = "SUCCEEDED" /\ maker[MakerOf(c)].commit = c
         /\ MakerOf(c) = 0 =>
              \A i \in DOMAIN maker : ~(maker[i].status = "SUCCEEDED" /\ maker[i].commit = c)
<1> DEFINE I == {i \in 1..Len(maker) : maker[i].status = "SUCCEEDED" /\ maker[i].commit = c}
<1>1. DOMAIN maker = 1..Len(maker) /\ Len(maker) \in Nat
  BY DEF StoreTypeOK
<1>2. I # {} => Max(I) \in I
  BY <1>1, MaxIn
<1>3. MakerOf(c) = IF I # {} THEN Max(I) ELSE 0
  BY DEF MakerOf, SelectLastInSeq
<1>4. QED
  BY <1>1, <1>2, <1>3

\* VerificationPass finds a PASS for commit c, if there is one.
LEMMA VerificationPassFinds ==
  ASSUME StoreTypeOK, NEW c
  PROVE  LET x == VerificationPass(c) IN
         /\ x \in Nat
         /\ x # 0 => x \in DOMAIN verification /\ verification[x] = [commit |-> c, verdict |-> "PASS"]
         /\ x = 0 => \A i \in DOMAIN verification : verification[i] # [commit |-> c, verdict |-> "PASS"]
<1> DEFINE I == {i \in 1..Len(verification) : verification[i].commit = c /\ verification[i].verdict = "PASS"}
<1>1. DOMAIN verification = 1..Len(verification) /\ Len(verification) \in Nat
  BY DEF StoreTypeOK
<1>2. I # {} => Max(I) \in I
  BY <1>1, MaxIn
<1>3. VerificationPass(c) = IF I # {} THEN Max(I) ELSE 0
  BY DEF VerificationPass, SelectLastInSeq
<1>4. \A i \in DOMAIN verification : verification[i] \in [commit: Nat, verdict: {"PASS", "FAIL"}]
  BY Typed
<1>5. QED
  BY <1>1, <1>2, <1>3, <1>4

\* EvaluationPass finds a PASS for commit c of an evaluator that succeeded.
LEMMA EvaluationPassFinds ==
  ASSUME StoreTypeOK, NEW c
  PROVE  /\ EvaluationPass(c) \in Nat
         /\ EvaluationPass(c) # 0 =>
              /\ EvaluationPass(c) \in DOMAIN evaluation
              /\ evaluation[EvaluationPass(c)].commit = c
              /\ evaluation[EvaluationPass(c)].verdict = "PASS"
         /\ EvaluationPass(c) = 0 =>
              \A i \in DOMAIN evaluation :
                ~ /\ evaluation[i].commit = c /\ evaluation[i].verdict = "PASS"
                  /\ evaluator[evaluation[i].attempt].status = "SUCCEEDED"
<1> DEFINE I == {i \in 1..Len(evaluation) :
                   /\ evaluation[i].commit = c /\ evaluation[i].verdict = "PASS"
                   /\ evaluator[evaluation[i].attempt].status = "SUCCEEDED"}
<1>1. DOMAIN evaluation = 1..Len(evaluation) /\ Len(evaluation) \in Nat
  BY DEF StoreTypeOK
<1>2. I # {} => Max(I) \in I
  BY <1>1, MaxIn
<1>3. EvaluationPass(c) = IF I # {} THEN Max(I) ELSE 0
  BY DEF EvaluationPass, SelectLastInSeq
<1>4. \A x \in I : /\ x \in DOMAIN evaluation /\ x \in Nat /\ x # 0
                  /\ evaluation[x].commit = c /\ evaluation[x].verdict = "PASS"
  BY <1>1
<1>5. I = {} => \A i \in DOMAIN evaluation :
                  ~ /\ evaluation[i].commit = c /\ evaluation[i].verdict = "PASS"
                    /\ evaluator[evaluation[i].attempt].status = "SUCCEEDED"
  BY <1>1
<1> HIDE DEF I
<1>6. QED
  BY <1>2, <1>3, <1>4, <1>5

\* VerificationOf and EvaluationOf find a result bound to commit c.
LEMMA BoundResultFinds ==
  ASSUME StoreTypeOK, NEW c
  PROVE  /\ VerificationOf(c) # 0 =>
              VerificationOf(c) \in DOMAIN verification /\ verification[VerificationOf(c)].commit = c
         /\ EvaluationOf(c) \in Nat
         /\ EvaluationOf(c) # 0 =>
              EvaluationOf(c) \in DOMAIN evaluation /\ evaluation[EvaluationOf(c)].commit = c
<1> DEFINE V == {i \in 1..Len(verification) : verification[i].commit = c}
           E == {i \in 1..Len(evaluation) : evaluation[i].commit = c}
<1>1. /\ DOMAIN verification = 1..Len(verification) /\ Len(verification) \in Nat
      /\ DOMAIN evaluation = 1..Len(evaluation) /\ Len(evaluation) \in Nat
  BY DEF StoreTypeOK
<1>2. V # {} => Max(V) \in V
  BY <1>1, MaxIn
<1>3. E # {} => Max(E) \in E
  BY <1>1, MaxIn
<1>4. VerificationOf(c) = IF V # {} THEN Max(V) ELSE 0
  BY DEF VerificationOf, SelectLastInSeq
<1>5. EvaluationOf(c) = IF E # {} THEN Max(E) ELSE 0
  BY DEF EvaluationOf, SelectLastInSeq
<1>6. QED
  BY <1>1, <1>2, <1>3, <1>4, <1>5

\* The approval that advance picks up is an approval.
LEMMA ApprovalFinds ==
  ASSUME StoreTypeOK
  PROVE  LET a == SelectLastInSeq(approval, LAMBDA r : r.status = "APPROVED" /\ ~r.consumed) IN
         a # 0 => a \in DOMAIN approval
<1> DEFINE I == {i \in 1..Len(approval) : approval[i].status = "APPROVED" /\ ~approval[i].consumed}
<1>1. DOMAIN approval = 1..Len(approval) /\ Len(approval) \in Nat
  BY DEF StoreTypeOK
<1>2. I # {} => Max(I) \in I
  BY <1>1, MaxIn
<1>3. SelectLastInSeq(approval, LAMBDA r : r.status = "APPROVED" /\ ~r.consumed)
        = IF I # {} THEN Max(I) ELSE 0
  BY DEF SelectLastInSeq
<1>4. QED
  BY <1>1, <1>2, <1>3

-----------------------------------------------------------------------------
(* What each kind of change does to the tables. *)

\* Appending a row, as every INSERT does, keeps the others.
LEMMA Appended ==
  ASSUME NEW T, NEW s \in Seq(T), NEW e \in T
  PROVE  /\ Append(s, e) \in Seq(T)
         /\ Len(s) + 1 \in DOMAIN Append(s, e)
         /\ Append(s, e)[Len(s) + 1] = e
         /\ \A i \in DOMAIN s : i \in DOMAIN Append(s, e) /\ Append(s, e)[i] = s[i]
         /\ \A i \in DOMAIN Append(s, e) : i \in DOMAIN s \/ i = Len(s) + 1
OBVIOUS

\* Replacing a row, as an UPDATE of it does, keeps the others and adds none.
LEMMA Replaced ==
  ASSUME NEW T, NEW s \in Seq(T), NEW n, NEW e, n \in DOMAIN s => e \in T
  PROVE  /\ [s EXCEPT ![n] = e] \in Seq(T)
         /\ DOMAIN [s EXCEPT ![n] = e] = DOMAIN s
         /\ \A i \in DOMAIN s : [s EXCEPT ![n] = e][i] = IF i = n THEN e ELSE s[i]
<1> DEFINE t == [s EXCEPT ![n] = e]
<1>1. s \in [1..Len(s) -> T] /\ DOMAIN s = 1..Len(s) /\ Len(s) \in Nat
  OBVIOUS
<1>2. DOMAIN t = DOMAIN s /\ \A i \in DOMAIN s : t[i] = IF i = n THEN e ELSE s[i]
  OBVIOUS
<1>3. t \in [1..Len(s) -> T]
  BY <1>1, <1>2
<1>4. t \in Seq(T)
  BY <1>1, <1>3
<1>5. QED
  BY <1>2, <1>4

MakerRow == [status: AttemptStatus, commit: Nat]
EvaluatorRow == [status: AttemptStatus, commit: Nat, verdict: Verdict \cup {"NONE"}]
EvaluationRow == [attempt: Nat, commit: Nat, verdict: Verdict]
ApprovalRow == [version: Nat, commit: Nat, evaluation: Nat,
                status: {"PENDING", "APPROVED", "REJECTED"}, consumed: BOOLEAN]

\* RegisterMaker's insert.
LEMMA MakerInserted ==
  ASSUME StoreTypeOK, TablesAgree,
         maker' = Append(maker, [status |-> "RUNNING", commit |-> 0]),
         UNCHANGED <<evaluator, verification, evaluation, approval>>
  PROVE  maker' \in Seq(MakerRow) /\ Len(maker) + 1 \in DOMAIN maker' /\ TablesAgree' /\ Grows
<1> DEFINE e == [status |-> "RUNNING", commit |-> 0]
<1>1. maker \in Seq(MakerRow) /\ e \in MakerRow
  BY DEF StoreTypeOK, MakerRow, AttemptStatus
<1>2. e.status # "SUCCEEDED"
  OBVIOUS
<1> HIDE DEF e
<1>3. maker' = Append(maker, e)
  BY DEF e
<1>4. QED
  BY <1>1, <1>2, <1>3, Appended DEF TablesAgree, Grows

\* A RUNNING Maker attempt is finished.
LEMMA MakerFinished ==
  ASSUME StoreTypeOK, TablesAgree,
         NEW n, NEW status \in AttemptStatus, NEW c \in Nat, status = "SUCCEEDED" => c # 0,
         FinishMakerTxn(n, status, c),
         UNCHANGED <<evaluator, verification, evaluation, approval>>
  PROVE  /\ maker' \in Seq(MakerRow) /\ TablesAgree' /\ Grows
         /\ n \in DOMAIN maker => n \in DOMAIN maker' /\ maker'[n] = [status |-> status, commit |-> c]
<1> DEFINE e == [status |-> status, commit |-> c]
<1>1. maker \in Seq(MakerRow) /\ e \in MakerRow
  BY DEF StoreTypeOK, MakerRow
<1>2. e.status = "SUCCEEDED" => e.commit # 0
  OBVIOUS
<1>3. maker[n].status = "RUNNING" /\ maker' = [maker EXCEPT ![n] = e]
  BY DEF FinishMakerTxn
<1> HIDE DEF e
<1>4. /\ maker' \in Seq(MakerRow) /\ DOMAIN maker' = DOMAIN maker
      /\ \A i \in DOMAIN maker : maker'[i] = IF i = n THEN e ELSE maker[i]
  BY <1>1, <1>3, Replaced
<1>5. TablesAgree'
  BY <1>2, <1>4 DEF TablesAgree
<1>6. Grows
  BY <1>3, <1>4 DEF Grows
<1>7. QED
  BY <1>4, <1>5, <1>6 DEF e

\* RegisterEvaluator's insert.
LEMMA EvaluatorInserted ==
  ASSUME StoreTypeOK, TablesAgree, NEW c \in Nat,
         evaluator' = Append(evaluator, [status |-> "RUNNING", commit |-> c, verdict |-> "NONE"]),
         UNCHANGED <<maker, verification, evaluation, approval>>
  PROVE  evaluator' \in Seq(EvaluatorRow) /\ Len(evaluator) + 1 \in DOMAIN evaluator' /\ TablesAgree' /\ Grows
<1> DEFINE e == [status |-> "RUNNING", commit |-> c, verdict |-> "NONE"]
<1>1. evaluator \in Seq(EvaluatorRow) /\ e \in EvaluatorRow
  BY DEF StoreTypeOK, EvaluatorRow, AttemptStatus
<1>2. e.status # "SUCCEEDED"
  OBVIOUS
<1> HIDE DEF e
<1>3. evaluator' = Append(evaluator, e)
  BY DEF e
<1>4. QED
  BY <1>1, <1>2, <1>3, Appended DEF TablesAgree, Grows

\* A RUNNING evaluator changes: it is sealed with a verdict, or finished.
LEMMA EvaluatorChanged ==
  ASSUME StoreTypeOK, TablesAgree, NEW n, NEW e \in EvaluatorRow,
         evaluator[n].status = "RUNNING", evaluator' = [evaluator EXCEPT ![n] = e],
         n \in DOMAIN evaluator =>
           /\ e.commit = evaluator[n].commit
           /\ evaluator[n].verdict # "NONE" \/ e.status = "SUCCEEDED" => e.verdict # "NONE",
         UNCHANGED <<maker, verification, evaluation, approval>>
  PROVE  /\ evaluator' \in Seq(EvaluatorRow) /\ TablesAgree' /\ Grows
         /\ n \in DOMAIN evaluator => n \in DOMAIN evaluator' /\ evaluator'[n] = e
<1>1. evaluator \in Seq(EvaluatorRow)
  BY DEF StoreTypeOK, EvaluatorRow
<1>2. /\ evaluator' \in Seq(EvaluatorRow) /\ DOMAIN evaluator' = DOMAIN evaluator
      /\ \A i \in DOMAIN evaluator : evaluator'[i] = IF i = n THEN e ELSE evaluator[i]
  BY <1>1, Replaced
<1>3. TablesAgree'
  BY <1>2 DEF TablesAgree
<1>4. Grows
  BY <1>2 DEF Grows
<1>5. QED
  BY <1>2, <1>3, <1>4

\* The evaluator is sealed: SealEvaluator's update.
LEMMA EvaluatorSealed ==
  ASSUME StoreTypeOK, TablesAgree, NEW n \in DOMAIN evaluator, NEW v \in Verdict,
         evaluator[n].status = "RUNNING", evaluator' = [evaluator EXCEPT ![n].verdict = v],
         UNCHANGED <<maker, verification, evaluation, approval>>
  PROVE  /\ evaluator' \in Seq(EvaluatorRow) /\ TablesAgree' /\ Grows
         /\ n \in DOMAIN evaluator' /\ evaluator'[n].verdict # "NONE"
<1> DEFINE e == [evaluator[n] EXCEPT !.verdict = v]
<1>1. evaluator[n] \in EvaluatorRow /\ v # "NONE"
  BY Typed DEF EvaluatorRow, Verdict
<1>2. /\ e \in EvaluatorRow /\ e.commit = evaluator[n].commit /\ e.verdict = v
      /\ evaluator' = [evaluator EXCEPT ![n] = e]
  BY <1>1 DEF EvaluatorRow
<1> HIDE DEF e
<1>3. QED
  BY <1>1, <1>2, EvaluatorChanged

\* An evaluator is finished, with SUCCEEDED only if it is sealed.
LEMMA EvaluatorFinished ==
  ASSUME StoreTypeOK, TablesAgree, NEW n, NEW status \in AttemptStatus,
         FinishEvaluatorTxn(n, status), status = "SUCCEEDED" => Sealed(n),
         UNCHANGED <<maker, verification, evaluation, approval>>
  PROVE  evaluator' \in Seq(EvaluatorRow) /\ TablesAgree' /\ Grows
<1> DEFINE e == [evaluator[n] EXCEPT !.status = status]
<1>1. CASE n \in DOMAIN evaluator
  <2>1. evaluator[n] \in EvaluatorRow
    BY <1>1, Typed DEF EvaluatorRow
  <2>2. /\ e \in EvaluatorRow /\ e.commit = evaluator[n].commit /\ e.verdict = evaluator[n].verdict
        /\ e.status = status
    BY <2>1 DEF EvaluatorRow
  <2>3. evaluator[n].status = "RUNNING" /\ evaluator' = [evaluator EXCEPT ![n] = e]
    BY DEF FinishEvaluatorTxn
  <2> HIDE DEF e
  <2>4. QED
    BY <2>2, <2>3, EvaluatorChanged DEF Sealed
<1>2. CASE n \notin DOMAIN evaluator
  <2>1. evaluator' = evaluator
    BY <1>2 DEF FinishEvaluatorTxn, StoreTypeOK
  <2>2. evaluator' \in Seq(EvaluatorRow)
    BY <2>1 DEF StoreTypeOK, EvaluatorRow
  <2>3. TablesAgree' /\ Grows
    BY <2>1 DEF TablesAgree, Grows
  <2>4. QED
    BY <2>2, <2>3
<1>3. QED
  BY <1>1, <1>2

\* RegisterVerification's insert.
LEMMA VerificationInserted ==
  ASSUME StoreTypeOK, TablesAgree, NEW c \in Nat, NEW v \in {"PASS", "FAIL"},
         verification' = Append(verification, [commit |-> c, verdict |-> v]),
         UNCHANGED <<maker, evaluator, evaluation, approval>>
  PROVE  /\ verification' \in Seq([commit: Nat, verdict: {"PASS", "FAIL"}])
         /\ \E i \in DOMAIN verification' : verification'[i] = [commit |-> c, verdict |-> v]
         /\ TablesAgree' /\ Grows
<1> DEFINE T == [commit: Nat, verdict: {"PASS", "FAIL"}]
           e == [commit |-> c, verdict |-> v]
<1>1. verification \in Seq(T) /\ e \in T
  BY DEF StoreTypeOK
<1> HIDE DEF e, T
<1>2. verification' = Append(verification, e)
  BY DEF e
<1>3. /\ verification' \in Seq(T)
      /\ Len(verification) + 1 \in DOMAIN verification' /\ verification'[Len(verification) + 1] = e
      /\ \A i \in DOMAIN verification : i \in DOMAIN verification' /\ verification'[i] = verification[i]
  BY <1>1, <1>2, Appended
<1>4. TablesAgree' /\ Grows
  BY <1>3 DEF TablesAgree, Grows
<1>5. QED
  BY <1>3, <1>4 DEF e, T

\* register_evaluation_result: afterwards the attempt has an evaluation.
LEMMA EvaluationRegistered ==
  ASSUME StoreTypeOK, TablesAgree, NEW id, NEW gen, NEW n \in DOMAIN evaluator, NEW c \in Nat,
         RegisterEvaluationTxn(id, gen, n, c),
         UNCHANGED <<maker, evaluator, verification, approval>>
  PROVE  /\ evaluation' \in Seq(EvaluationRow) /\ TablesAgree' /\ Grows
         /\ \E i \in DOMAIN evaluation' : evaluation'[i].attempt = n
<1>1. CASE \E i \in DOMAIN evaluation : evaluation[i].attempt = n
  <2>1. evaluation' = evaluation
    BY <1>1 DEF RegisterEvaluationTxn
  <2>2. evaluation' \in Seq(EvaluationRow)
    BY <2>1 DEF StoreTypeOK, EvaluationRow
  <2>3. TablesAgree' /\ Grows
    BY <1>1, <2>1 DEF TablesAgree, Grows
  <2>4. QED
    BY <1>1, <2>1, <2>2, <2>3
<1>2. CASE ~\E i \in DOMAIN evaluation : evaluation[i].attempt = n
  <2> DEFINE e == [attempt |-> n, commit |-> c, verdict |-> evaluator[n].verdict]
  <2>1. /\ evaluator[n].status = "SUCCEEDED" /\ evaluator[n].commit = c
        /\ evaluation' = Append(evaluation, e)
    BY <1>2 DEF RegisterEvaluationTxn
  <2>2. n \in Nat /\ evaluator[n].verdict \in Verdict
    BY <2>1, Typed DEF TablesAgree, StoreTypeOK
  <2>3. evaluation \in Seq(EvaluationRow) /\ e \in EvaluationRow
    BY <2>2 DEF StoreTypeOK, EvaluationRow
  <2>4. e.attempt = n /\ e.commit = c /\ e.verdict = evaluator[n].verdict
    OBVIOUS
  <2> HIDE DEF e
  <2>5. /\ evaluation' \in Seq(EvaluationRow)
        /\ Len(evaluation) + 1 \in DOMAIN evaluation' /\ evaluation'[Len(evaluation) + 1] = e
        /\ \A i \in DOMAIN evaluation : i \in DOMAIN evaluation' /\ evaluation'[i] = evaluation[i]
        /\ \A i \in DOMAIN evaluation' : i \in DOMAIN evaluation \/ i = Len(evaluation) + 1
    BY <2>1, <2>3, Appended
  <2>6. TablesAgree'
    BY <2>1, <2>4, <2>5 DEF TablesAgree
  <2>7. Grows
    BY <2>5 DEF Grows
  <2>8. QED
    BY <2>4, <2>5, <2>6, <2>7
<1>3. QED
  BY <1>1, <1>2

\* request_approval appends a pending approval.
LEMMA ApprovalRequested ==
  ASSUME StoreTypeOK, TablesAgree, NEW id, NEW gen,
         NEW version \in Nat, NEW c \in Nat, NEW e \in Nat,
         RequestApprovalTxn(id, gen, version, c, e),
         UNCHANGED evidence
  PROVE  approval' \in Seq(ApprovalRow) /\ TablesAgree' /\ Grows
<1> DEFINE r == [version |-> version, commit |-> c, evaluation |-> e, status |-> "PENDING", consumed |-> FALSE]
<1>1. approval \in Seq(ApprovalRow) /\ r \in ApprovalRow
  BY DEF StoreTypeOK, ApprovalRow
<1>2. approval' = Append(approval, r)
  BY DEF RequestApprovalTxn
<1> HIDE DEF r
<1>3. QED
  BY <1>1, <1>2, Appended DEF TablesAgree, Grows, evidence

\* resolve_approval changes the status of one approval.
LEMMA ApprovalResolved ==
  ASSUME StoreTypeOK, TablesAgree, NEW a, NEW status \in {"APPROVED", "REJECTED"},
         ResolveApprovalTxn(a, status), UNCHANGED evidence
  PROVE  approval' \in Seq(ApprovalRow) /\ TablesAgree' /\ Grows
<1> DEFINE r == [approval[a] EXCEPT !.status = status]
<1>1. approval \in Seq(ApprovalRow)
  BY DEF StoreTypeOK, ApprovalRow
<1>2. a \in DOMAIN approval => r \in ApprovalRow
  BY Typed DEF ApprovalRow
<1>3. approval' = [approval EXCEPT ![a] = r]
  BY DEF ResolveApprovalTxn
<1> HIDE DEF r
<1>4. QED
  BY <1>1, <1>2, <1>3, Replaced DEF TablesAgree, Grows, evidence

\* accept_execution marks one approval as consumed.
LEMMA ApprovalConsumed ==
  ASSUME StoreTypeOK, TablesAgree, NEW a, approval' = [approval EXCEPT ![a].consumed = TRUE],
         UNCHANGED evidence
  PROVE  approval' \in Seq(ApprovalRow) /\ TablesAgree' /\ Grows
<1> DEFINE r == [approval[a] EXCEPT !.consumed = TRUE]
<1>1. approval \in Seq(ApprovalRow)
  BY DEF StoreTypeOK, ApprovalRow
<1>2. a \in DOMAIN approval => r \in ApprovalRow
  <2>1. a \in DOMAIN approval => approval[a] \in ApprovalRow
    BY Typed DEF ApprovalRow
  <2>2. ASSUME NEW x \in ApprovalRow PROVE [x EXCEPT !.consumed = TRUE] \in ApprovalRow
    BY DEF ApprovalRow
  <2>3. QED
    BY <2>1, <2>2
<1>3. approval' = [approval EXCEPT ![a] = r]
  OBVIOUS
<1> HIDE DEF r
<1>4. approval' \in Seq(ApprovalRow) /\ DOMAIN approval' = DOMAIN approval
  <2>1. [approval EXCEPT ![a] = r] \in Seq(ApprovalRow) /\ DOMAIN [approval EXCEPT ![a] = r] = DOMAIN approval
    BY <1>1, <1>2, Replaced, Zenon
  <2>2. QED
    BY <1>3, <2>1, Zenon
<1>5. TablesAgree'
  BY DEF TablesAgree, evidence
<1>6. Grows
  BY <1>4 DEF Grows, evidence
<1>7. QED
  BY <1>4, <1>5, <1>6

\* A step that leaves evidence and approvals alone.
LEMMA TablesKept ==
  ASSUME TablesAgree, UNCHANGED <<evidence, approval>>
  PROVE  TablesAgree' /\ Grows
BY DEF TablesAgree, Grows, evidence

-----------------------------------------------------------------------------
(* What each kind of change does to the row and to the handlers. *)

Row == [state: ExecutionState, resume: ResumeState \cup {"NONE"}, version: Nat,
        owner: Controller \cup {NoOwner}, gen: Nat, live: BOOLEAN,
        commit: Nat, reworks: 0..MaxReworks]

\* The stages at which a handler recalls no row of a table.
PlainStage == {"idle", "scheduled", "made", "block", "verified", "start_evaluator", "request", "resolved",
               "resume_maker", "resume_verification", "resume_evaluation", "resume_approval",
               "lose_maker", "lose_evaluator", "ensure"}

\* The transactions on the row keep it well typed.
LEMMA RowMoves ==
  ASSUME StoreTypeOK, NEW id \in Controller
  PROVE  /\ row \in Row
         /\ \A to \in ExecutionState, resume \in ResumeState \cup {"NONE"} :
              Transition(id, to, resume) => row' \in Row
         /\ AcquireLease(id) => row' \in Row
         /\ ScheduleRework(id) => row' \in Row
         /\ \A c \in Nat : RegisterCommitTxn(id, c) => row' \in Row
         /\ \A gen, version, m : AcceptTxn(id, gen, version, m) => row' \in Row
<1>1. row \in Row
  BY DEF StoreTypeOK, Row
<1>2. row.version + 1 \in Nat /\ row.gen + 1 \in Nat
  BY <1>1 DEF Row
<1>3. ASSUME NEW to \in ExecutionState, NEW resume \in ResumeState \cup {"NONE"}, Transition(id, to, resume)
      PROVE row' \in Row
  BY <1>1, <1>2, <1>3, Zenon DEF Transition, Row
<1>4. ASSUME AcquireLease(id) PROVE row' \in Row
  <2>1. TRUE \in BOOLEAN /\ id \in Controller \cup {NoOwner}
    OBVIOUS
  <2>2. QED
    BY <1>1, <1>2, <1>4, <2>1, Zenon DEF AcquireLease, Row
<1>5. ASSUME ScheduleRework(id) PROVE row' \in Row
  <2>1. row.reworks + 1 \in 0..MaxReworks
    BY <1>1, <1>5, ExecutionAssumption DEF ScheduleRework, Row
  <2>2. "MAKER_RUNNING" \in ExecutionState
    BY DEF ExecutionState
  <2>3. QED
    BY <1>1, <1>2, <1>5, <2>1, <2>2, Zenon DEF ScheduleRework, Row
<1>6. ASSUME NEW c \in Nat, RegisterCommitTxn(id, c) PROVE row' \in Row
  BY <1>1, <1>2, <1>6, Zenon DEF RegisterCommitTxn, Row
<1>7. ASSUME NEW gen, NEW version, NEW m, AcceptTxn(id, gen, version, m) PROVE row' \in Row
  <2>1. "ACCEPTED" \in ExecutionState /\ "NONE" \in ResumeState \cup {"NONE"}
    BY DEF ExecutionState, Terminal
  <2>2. QED
    BY <1>1, <1>2, <1>7, <2>1, Zenon DEF AcceptTxn, Row
<1>8. QED
  BY <1>1, <1>3, <1>4, <1>5, <1>6, <1>7

\* Continuing changes one handler, and a plain stage recalls nothing.
LEMMA Continued ==
  ASSUME call \in [Proc -> Call], NEW p \in Proc, NEW next \in Call, Continue(p, next)
  PROVE  /\ call' \in [Proc -> Call] /\ call'[p] = next
         /\ \A q \in Proc \ {p} : call'[q] = call[q]
         /\ next.at \in PlainStage => Recalls(p)'
<1>1. /\ call' \in [Proc -> Call] /\ call'[p] = next
      /\ \A q \in Proc \ {p} : call'[q] = call[q]
  BY DEF Continue
<1>2. next.at \in PlainStage => Recalls(p)'
  BY <1>1 DEF Recalls, PlainStage
<1>3. QED
  BY <1>1, <1>2

\* A process that runs no handler remembers nothing.
LEMMA IdleCall == Idle \in Call
BY DEF Idle, Call, Stage

\* Going to another stage keeps what is remembered.
LEMMA Kept ==
  ASSUME NEW m \in Call, NEW s \in Stage
  PROVE  LET next == [m EXCEPT !.at = s] IN
         /\ next \in Call /\ next.at = s
         /\ next.attempt = m.attempt /\ next.commit = m.commit /\ next.verdict = m.verdict
         /\ next.version = m.version /\ next.gen = m.gen /\ next.reworks = m.reworks
         /\ next.verification = m.verification /\ next.evaluation = m.evaluation
         /\ next.approval = m.approval /\ next.flag = m.flag /\ next.resume = m.resume
BY DEF Call

\* Another stage, with an evaluation or an attempt picked up on the way.
WithEvaluation(m, s, k) == [m EXCEPT !.at = s, !.evaluation = k]
WithAttempt(m, s, k) == [m EXCEPT !.at = s, !.attempt = k]

\* What is remembered besides stays.
LEMMA KeptWith ==
  ASSUME NEW m \in Call, NEW s \in Stage, NEW k \in Nat
  PROVE  /\ WithEvaluation(m, s, k) \in Call /\ WithAttempt(m, s, k) \in Call
         /\ LET next == WithEvaluation(m, s, k) IN
              /\ next.at = s /\ next.evaluation = k
              /\ next.attempt = m.attempt /\ next.commit = m.commit
         /\ LET next == WithAttempt(m, s, k) IN
              /\ next.at = s /\ next.attempt = k
              /\ next.evaluation = m.evaluation /\ next.commit = m.commit
BY DEF Call, WithEvaluation, WithAttempt

\* Another stage, with another version and generation.
WithFence(m, s, version, gen) == [m EXCEPT !.at = s, !.version = version, !.gen = gen]

\* It is again what a handler may remember.
LEMMA KeptWithFence ==
  ASSUME NEW m \in Call, NEW s \in Stage, NEW version \in Nat, NEW gen \in Nat
  PROVE  /\ WithFence(m, s, version, gen) \in Call
         /\ WithFence(m, s, version, gen).at = s
BY DEF Call, WithFence

\* A handler that blocks recalls nothing.
LEMMA BlockingCall ==
  ASSUME NEW resume \in ResumeState
  PROVE  Blocking(resume) \in Call /\ Blocking(resume).at = "block"
BY DEF Blocking, Idle, Call, Stage, ResumeState

(* What is to be shown of a step of p: well-typed tables that agree and    *)
(* only grew, and a handler p that recalls rows that exist.                *)
Proceeds(p) ==
  /\ TypeOK' /\ TablesAgree' /\ Grows /\ Recalls(p)'
  /\ \A q \in Proc \ {p} : call'[q] = call[q]

\* A step on the row, whose handler goes to a plain stage.
LEMMA RowStep ==
  ASSUME TablesInv, NEW p \in Proc, NEW next \in Call, next.at \in PlainStage, Continue(p, next),
         row' \in Row, UNCHANGED tables
  PROVE  Proceeds(p)
<1>1. StoreTypeOK'
  BY DEF TablesInv, TypeOK, StoreTypeOK, Row, tables, evidence
<1>2. TablesAgree' /\ Grows
  BY TablesKept DEF TablesInv, tables
<1>3. QED
  BY <1>1, <1>2, Continued DEF Proceeds, TablesInv, TypeOK

\* A step that changes one table, with what is left to show of it.
LEMMA TableStep ==
  ASSUME TablesInv, NEW p \in Proc, NEW next \in Call, Continue(p, next),
         StoreTypeOK', TablesAgree', Grows,
         next.at \in PlainStage \/ Recalls(p)'
  PROVE  Proceeds(p)
BY Continued DEF Proceeds, TablesInv, TypeOK

\* A step that only reads.
LEMMA ReadStep ==
  ASSUME TablesInv, NEW p \in Proc, NEW next \in Call, Continue(p, next), UNCHANGED <<row, tables>>,
         next.at \in PlainStage \/ Recalls(p)'
  PROVE  Proceeds(p)
<1>1. StoreTypeOK'
  BY DEF TablesInv, TypeOK, StoreTypeOK, tables, evidence
<1>2. TablesAgree' /\ Grows
  BY TablesKept DEF TablesInv, tables
<1>3. QED
  BY <1>1, <1>2, TableStep

\* A handler that returns, after a step on the row if any.
LEMMA ReturnStep ==
  ASSUME TablesInv, NEW p \in Proc, Return(p), row' \in Row, UNCHANGED tables
  PROVE  Proceeds(p)
<1>1. Idle.at \in PlainStage /\ Continue(p, Idle)
  BY DEF Idle, PlainStage, Return
<1>2. QED
  BY <1>1, IdleCall, RowStep

\* A legal target of a transition in the actions below.
LEMMA States ==
  {"READY", "MAKER_RUNNING", "VERIFYING", "EVALUATING", "REWORK_READY", "WAITING_APPROVAL", "BLOCKED",
   "CANCELLED", "DESIGN_ESCALATION"} \subseteq ExecutionState
BY DEF ExecutionState, Terminal

\* The controller of a process, and what its handler remembers, is well typed.
LEMMA Remembered ==
  ASSUME TablesInv, NEW p \in Proc
  PROVE  StoreTypeOK /\ TablesAgree /\ Recalls(p) /\ Id[p] \in Controller /\ call[p] \in Call /\ row \in Row
BY ProcessAssumption DEF TablesInv, TypeOK, StoreTypeOK, Row

-----------------------------------------------------------------------------
(* One lemma for each group of handlers, one step for each action. *)

\* The Maker's handlers, from the lease to VERIFYING.
LEMMA MakerHandlers ==
  ASSUME TablesInv, NEW p \in Proc,
         \/ Acquire(p) \/ Schedule(p) \/ RegisterMaker(p) \/ MakerFails(p) \/ Block(p)
         \/ CommitCandidate(p) \/ FinishMaker(p) \/ RegisterCommit(p) \/ MakerSucceeded(p) \/ Cancel(p)
  PROVE  Proceeds(p)
<1> USE Remembered
<1> DEFINE n == call[p].attempt
<1>0. n \in Nat /\ call[p].resume \in ResumeState \cup {"NONE"} /\ row.reworks \in Nat
  BY DEF Call, Row
<1>1. CASE Acquire(p)
  <2>1. Continue(p, call[p]) /\ call[p].at \in PlainStage
    BY <1>1 DEF Acquire, Continue, At, PlainStage, TablesInv, TypeOK
  <2>2. row' \in Row /\ UNCHANGED tables
    BY <1>1, RowMoves DEF Acquire
  <2>3. QED
    BY <2>1, <2>2, RowStep
<1>2. CASE Schedule(p)
  <2> DEFINE next == [Idle EXCEPT !.at = "scheduled"]
  <2>1. next \in Call /\ next.at \in PlainStage
    BY DEF Idle, Call, Stage, PlainStage
  <2>2. row' \in Row
    <3>1. "MAKER_RUNNING" \in ExecutionState
      BY DEF ExecutionState
    <3>2. QED
      BY <1>2, <3>1, RowMoves DEF Schedule
  <2>3. Continue(p, next) /\ UNCHANGED tables
    BY <1>2 DEF Schedule
  <2>4. QED
    BY <2>1, <2>2, <2>3, RowStep
<1>3. CASE RegisterMaker(p)
  <2> DEFINE next == [Idle EXCEPT !.at = "making", !.attempt = Len(maker) + 1]
  <2>1. next \in Call /\ next.at = "making" /\ next.attempt = Len(maker) + 1
    <3>1. Len(maker) + 1 \in Nat
      BY DEF StoreTypeOK
    <3>2. QED
      BY <3>1 DEF Idle, Call, Stage
  <2>2. /\ maker' = Append(maker, [status |-> "RUNNING", commit |-> 0])
        /\ UNCHANGED <<row, evaluator, verification, evaluation, approval, registered, manifest>>
        /\ Continue(p, next)
    BY <1>3 DEF RegisterMaker
  <2>3. maker' \in Seq(MakerRow) /\ Len(maker) + 1 \in DOMAIN maker' /\ TablesAgree' /\ Grows
    BY <2>2, MakerInserted
  <2>4. StoreTypeOK'
    BY <2>2, <2>3 DEF StoreTypeOK, MakerRow
  <2> HIDE DEF next
  <2>5. Recalls(p)'
    BY <2>1, <2>2, <2>3, Continued DEF Recalls, TablesInv, TypeOK
  <2>6. QED
    BY <2>1, <2>2, <2>3, <2>4, <2>5, TableStep
<1>4. CASE MakerFails(p)
  <2> DEFINE next == Blocking(MakerResume(n, row.reworks))
  <2>1. next \in Call /\ next.at \in PlainStage
    BY BlockingCall DEF MakerResume, ResumeState, PlainStage
  <2>2. /\ FinishMakerTxn(n, "FAILED", 0)
        /\ UNCHANGED <<row, evaluator, verification, evaluation, approval, registered, manifest>>
        /\ Continue(p, next)
    BY <1>4 DEF MakerFails
  <2>3. maker' \in Seq(MakerRow) /\ TablesAgree' /\ Grows
    BY <2>2, MakerFinished DEF AttemptStatus
  <2>4. StoreTypeOK'
    BY <2>2, <2>3 DEF StoreTypeOK, MakerRow
  <2>5. QED
    BY <2>1, <2>2, <2>3, <2>4, TableStep
<1>5. CASE Block(p)
  BY <1>0, <1>5, RowMoves, States, ReturnStep DEF Block, Move
<1>6. CASE CommitCandidate(p)
  <2> DEFINE next == [call[p] EXCEPT !.at = "candidate"]
  <2>1. next \in Call /\ next.at = "candidate" /\ next.attempt = n
    <3>1. "candidate" \in Stage
      BY DEF Stage
    <3>2. QED
      BY <3>1, Kept
  <2>2. UNCHANGED <<row, tables>> /\ Continue(p, next) /\ n \in DOMAIN maker
    BY <1>6 DEF CommitCandidate, To, At, Recalls
  <2> HIDE DEF next
  <2>3. Recalls(p)'
    BY <2>1, <2>2, Continued DEF Recalls, TablesInv, TypeOK, tables, evidence
  <2>4. QED
    BY <2>1, <2>2, <2>3, ReadStep
<1>7. CASE FinishMaker(p)
  <2> DEFINE next == [Idle EXCEPT !.at = "register", !.commit = n]
  <2>1. next \in Call /\ next.at = "register" /\ next.commit = n
    BY <1>0 DEF Idle, Call, Stage
  <2>2. /\ FinishMakerTxn(n, "SUCCEEDED", n)
        /\ UNCHANGED <<row, evaluator, verification, evaluation, approval, registered, manifest>>
        /\ Continue(p, next) /\ n \in DOMAIN maker
    BY <1>7 DEF FinishMaker, At, Recalls
  <2>3. n # 0
    BY <2>2 DEF StoreTypeOK
  <2>4. /\ maker' \in Seq(MakerRow) /\ TablesAgree' /\ Grows
        /\ n \in DOMAIN maker' /\ maker'[n] = [status |-> "SUCCEEDED", commit |-> n]
    BY <1>0, <2>2, <2>3, MakerFinished DEF AttemptStatus
  <2>5. StoreTypeOK'
    BY <2>2, <2>4 DEF StoreTypeOK, MakerRow
  <2> HIDE DEF next
  <2>6. Recalls(p)'
    BY <2>1, <2>2, <2>4, Continued DEF Recalls, Made, TablesInv, TypeOK
  <2>7. QED
    BY <2>1, <2>2, <2>4, <2>5, <2>6, TableStep
<1>8. CASE RegisterCommit(p)
  <2> DEFINE next == [Idle EXCEPT !.at = "made"]
             c == call[p].commit
  <2>1. next \in Call /\ next.at \in PlainStage
    BY DEF Idle, Call, Stage, PlainStage
  <2>2. /\ RegisterCommitTxn(Id[p], c) /\ c \in Nat
        /\ UNCHANGED <<evidence, approval, manifest>> /\ Continue(p, next)
    BY <1>8 DEF RegisterCommit, Call
  <2>3. row' \in Row /\ registered' = registered \cup {c}
    BY <2>2, RowMoves DEF RegisterCommitTxn
  <2>4. StoreTypeOK'
    BY <2>2, <2>3 DEF StoreTypeOK, Row, evidence
  <2>5. TablesAgree' /\ Grows
    BY <2>2, TablesKept
  <2>6. QED
    BY <2>1, <2>2, <2>4, <2>5, TableStep
<1>9. CASE MakerSucceeded(p)
  BY <1>9, RowMoves, States, ReturnStep DEF MakerSucceeded, Move
<1>10. CASE Cancel(p)
  <2>1. Continue(p, call[p]) /\ call[p].at \in PlainStage
    BY <1>10 DEF Cancel, Continue, At, PlainStage, TablesInv, TypeOK
  <2>2. row' \in Row /\ UNCHANGED tables
    BY <1>10, RowMoves, States DEF Cancel, Move
  <2>3. QED
    BY <2>1, <2>2, RowStep
<1>11. QED
  BY <1>1, <1>2, <1>3, <1>4, <1>5, <1>6, <1>7, <1>8, <1>9, <1>10

\* The Verifier's handlers and the evaluator's, up to the sealed verdict.
LEMMA EvaluatorHandlers ==
  ASSUME TablesInv, NEW p \in Proc,
         \/ RecordVerification(p) \/ RegisterVerification(p) \/ Verified(p)
         \/ BeginEvaluator(p) \/ RegisterEvaluator(p) \/ SealEvaluator(p) \/ FailEvaluator(p)
  PROVE  Proceeds(p)
<1> USE Remembered
<1> DEFINE n == call[p].attempt
           c == call[p].commit
<1>0. n \in Nat /\ c \in Nat /\ row.commit \in Nat
  BY DEF Call, Row
<1>1. CASE RecordVerification(p)
  <2>1. PICK v \in {"PASS", "FAIL"} :
          Continue(p, [Idle EXCEPT !.at = "record", !.commit = row.commit, !.verdict = v])
    BY <1>1 DEF RecordVerification
  <2> DEFINE next == [Idle EXCEPT !.at = "record", !.commit = row.commit, !.verdict = v]
  <2>2. next \in Call /\ next.at = "record" /\ next.verdict = v
    <3>1. v \in Verdict \cup {"FAIL", "NONE"}
      BY DEF Verdict
    <3>2. QED
      BY <1>0, <3>1 DEF Idle, Call, Stage
  <2>3. Continue(p, next) /\ UNCHANGED <<row, tables>>
    BY <1>1, <2>1 DEF RecordVerification
  <2> HIDE DEF next
  <2>4. Recalls(p)'
    BY <2>2, <2>3, Continued DEF Recalls, TablesInv, TypeOK
  <2>5. QED
    BY <2>2, <2>3, <2>4, ReadStep
<1>2. CASE RegisterVerification(p)
  <2> DEFINE next == [Idle EXCEPT !.at = "verified", !.verdict = call[p].verdict]
  <2>1. call[p].verdict \in {"PASS", "FAIL"}
    BY <1>2 DEF RegisterVerification, At, Recalls
  <2>2. next \in Call /\ next.at \in PlainStage
    BY <2>1 DEF Idle, Call, Stage, PlainStage
  <2>3. /\ verification' = Append(verification, [commit |-> c, verdict |-> call[p].verdict])
        /\ UNCHANGED <<row, maker, evaluator, evaluation, approval, registered, manifest>>
        /\ Continue(p, next)
    BY <1>2 DEF RegisterVerification
  <2>4. verification' \in Seq([commit: Nat, verdict: {"PASS", "FAIL"}]) /\ TablesAgree' /\ Grows
    BY <1>0, <2>1, <2>3, VerificationInserted
  <2>5. StoreTypeOK'
    BY <2>3, <2>4 DEF StoreTypeOK
  <2>6. QED
    BY <2>2, <2>3, <2>4, <2>5, TableStep
<1>3. CASE Verified(p)
  <2>1. "NONE" \in ResumeState \cup {"NONE"} /\ "VERIFYING" \in ResumeState \cup {"NONE"}
    BY DEF ResumeState
  <2>2. row' \in Row /\ UNCHANGED tables /\ Return(p)
    BY <1>3, <2>1, RowMoves, States DEF Verified, Move
  <2>3. QED
    BY <2>2, ReturnStep
<1>4. CASE BeginEvaluator(p)
  <2> DEFINE next == [Idle EXCEPT !.at = "start_evaluator", !.commit = row.commit]
  <2>1. next \in Call /\ next.at \in PlainStage
    BY <1>0 DEF Idle, Call, Stage, PlainStage
  <2>2. QED
    BY <1>4, <2>1, ReadStep DEF BeginEvaluator
<1>5. CASE RegisterEvaluator(p)
  <2> DEFINE next == [Idle EXCEPT !.at = "evaluating", !.attempt = Len(evaluator) + 1]
  <2>1. next \in Call /\ next.at = "evaluating" /\ next.attempt = Len(evaluator) + 1
    <3>1. Len(evaluator) + 1 \in Nat
      BY DEF StoreTypeOK
    <3>2. QED
      BY <3>1 DEF Idle, Call, Stage
  <2>2. /\ evaluator' = Append(evaluator, [status |-> "RUNNING", commit |-> c, verdict |-> "NONE"])
        /\ UNCHANGED <<row, maker, verification, evaluation, approval, registered, manifest>>
        /\ Continue(p, next)
    BY <1>5 DEF RegisterEvaluator
  <2>3. evaluator' \in Seq(EvaluatorRow) /\ Len(evaluator) + 1 \in DOMAIN evaluator' /\ TablesAgree' /\ Grows
    BY <1>0, <2>2, EvaluatorInserted
  <2>4. StoreTypeOK'
    BY <2>2, <2>3 DEF StoreTypeOK, EvaluatorRow
  <2> HIDE DEF next
  <2>5. Recalls(p)'
    BY <2>1, <2>2, <2>3, Continued DEF Recalls, TablesInv, TypeOK
  <2>6. QED
    BY <2>1, <2>2, <2>3, <2>4, <2>5, TableStep
<1>6. CASE SealEvaluator(p)
  <2> DEFINE next == [call[p] EXCEPT !.at = "sealed"]
  <2>1. next \in Call /\ next.at = "sealed" /\ next.attempt = n
    <3>1. "sealed" \in Stage
      BY DEF Stage
    <3>2. QED
      BY <3>1, Kept
  <2>2. /\ n \in DOMAIN evaluator /\ evaluator[n].status = "RUNNING"
        /\ \E v \in Outcome : evaluator' = [evaluator EXCEPT ![n].verdict = v]
        /\ UNCHANGED <<row, maker, verification, evaluation, approval, registered, manifest>>
        /\ Continue(p, next)
    BY <1>6 DEF SealEvaluator, To, At, Recalls
  <2>3. /\ evaluator' \in Seq(EvaluatorRow) /\ TablesAgree' /\ Grows
        /\ n \in DOMAIN evaluator' /\ evaluator'[n].verdict # "NONE"
    BY <2>2, EvaluatorSealed, ProcessAssumption
  <2>4. StoreTypeOK'
    BY <2>2, <2>3 DEF StoreTypeOK, EvaluatorRow
  <2> HIDE DEF next
  <2>5. call'[p] = next
    BY <2>1, <2>2, Continued DEF TablesInv, TypeOK
  <2>6. Recalls(p)'
    BY <2>1, <2>3, <2>5 DEF Recalls, Sealed
  <2>7. QED
    BY <2>1, <2>2, <2>3, <2>4, <2>6, TableStep
<1>7. CASE FailEvaluator(p)
  <2>1. Blocking("EVALUATING") \in Call /\ Blocking("EVALUATING").at \in PlainStage
    BY BlockingCall DEF ResumeState, PlainStage
  <2>2. /\ FinishEvaluatorTxn(n, "FAILED") /\ Continue(p, Blocking("EVALUATING"))
        /\ UNCHANGED <<row, maker, verification, evaluation, approval, registered, manifest>>
    BY <1>7 DEF FailEvaluator
  <2>3. evaluator' \in Seq(EvaluatorRow) /\ TablesAgree' /\ Grows
    <3>1. "FAILED" \in AttemptStatus /\ "FAILED" # "SUCCEEDED"
      BY DEF AttemptStatus
    <3>2. QED
      BY <2>2, <3>1, EvaluatorFinished
  <2>4. StoreTypeOK'
    BY <2>2, <2>3 DEF StoreTypeOK, EvaluatorRow
  <2>5. QED
    BY <2>1, <2>2, <2>3, <2>4, TableStep
<1>8. QED
  BY <1>1, <1>2, <1>3, <1>4, <1>5, <1>6, <1>7

\* The evaluator's handlers from the sealed verdict to its consequences.
LEMMA EvaluationHandlers ==
  ASSUME TablesInv, NEW p \in Proc,
         CompleteEvaluator(p) \/ FinishEvaluator(p) \/ RegisterEvaluation(p) \/ Evaluated(p) \/ RequestApproval(p)
  PROVE  Proceeds(p)
<1> USE Remembered
<1> DEFINE n == call[p].attempt
           c == call[p].commit
<1>0. n \in Nat /\ c \in Nat /\ row.commit \in Nat /\ row.gen \in Nat /\ row.reworks \in Nat
  BY DEF Call, Row
<1>1. CASE CompleteEvaluator(p)
  <2> DEFINE flag == (evaluator[n].status = "SUCCEEDED")
             next == [Idle EXCEPT !.at = "finish_evaluator", !.attempt = n, !.commit = row.commit,
                        !.gen = row.gen, !.reworks = row.reworks,
                        !.flag = flag]
  <2>1. /\ next \in Call /\ next.at = "finish_evaluator" /\ next.attempt = n /\ next.commit = row.commit
    <3>1. flag \in BOOLEAN
      OBVIOUS
    <3> HIDE DEF flag
    <3>2. Idle \in Call /\ "finish_evaluator" \in Stage
      BY DEF Idle, Call, Stage
    <3>3. QED
      BY <1>0, <3>1, <3>2 DEF Call
  <2>2. /\ Sealed(n) /\ evaluator[n].commit = row.commit
        /\ UNCHANGED <<row, tables>> /\ Continue(p, next)
    BY <1>1 DEF CompleteEvaluator, At, Recalls
  <2> HIDE DEF next
  <2>3. call'[p] = next
    BY <2>1, <2>2, Continued DEF TablesInv, TypeOK
  <2>4. Recalls(p)'
    BY <2>1, <2>2, <2>3 DEF Recalls, Sealed, tables, evidence
  <2>5. QED
    BY <2>1, <2>2, <2>4, ReadStep
<1>2. CASE FinishEvaluator(p)
  <2> DEFINE next == [call[p] EXCEPT !.at = "register_evaluation"]
  <2>1. next \in Call /\ next.at = "register_evaluation" /\ next.attempt = n /\ next.commit = c
    <3>1. "register_evaluation" \in Stage
      BY DEF Stage
    <3>2. QED
      BY <3>1, Kept
  <2>2. /\ Sealed(n) /\ n \in DOMAIN evaluator /\ evaluator[n].commit = c
        /\ FinishEvaluatorTxn(n, "SUCCEEDED") \/ UNCHANGED evaluator
        /\ UNCHANGED <<row, maker, verification, evaluation, approval, registered, manifest>>
        /\ Continue(p, next)
    BY <1>2 DEF FinishEvaluator, To, At, Recalls
  <2>3. evaluator' \in Seq(EvaluatorRow) /\ TablesAgree' /\ Grows
    <3>1. CASE FinishEvaluatorTxn(n, "SUCCEEDED")
      BY <2>2, <3>1, EvaluatorFinished DEF AttemptStatus
    <3>2. CASE UNCHANGED evaluator
      BY <2>2, <3>2, TablesKept DEF evidence, StoreTypeOK, EvaluatorRow
    <3>3. QED
      BY <2>2, <3>1, <3>2
  <2>4. StoreTypeOK'
    BY <2>2, <2>3 DEF StoreTypeOK, EvaluatorRow
  <2> HIDE DEF next
  <2>5. call'[p] = next
    BY <2>1, <2>2, Continued DEF TablesInv, TypeOK
  <2>6. Recalls(p)'
    BY <2>1, <2>2, <2>3, <2>5 DEF Recalls, Sealed, Grows
  <2>7. QED
    BY <2>1, <2>2, <2>3, <2>4, <2>6, TableStep
<1>3. CASE RegisterEvaluation(p)
  <2>1. /\ n \in DOMAIN evaluator /\ evaluator[n].commit = c
        /\ RegisterEvaluationTxn(Id[p], call[p].gen, n, c)
        /\ UNCHANGED <<row, maker, evaluator, verification, approval, registered, manifest>>
    BY <1>3 DEF RegisterEvaluation, Recalls
  <2>2. /\ evaluation' \in Seq(EvaluationRow) /\ TablesAgree' /\ Grows
        /\ \E i \in DOMAIN evaluation' : evaluation'[i].attempt = n
    BY <1>0, <2>1, EvaluationRegistered
  <2>3. StoreTypeOK'
    BY <2>1, <2>2 DEF StoreTypeOK, EvaluationRow
  <2>4. CASE At(p, "register_evaluation")
    <3> DEFINE next == [call[p] EXCEPT !.at = "evaluated"]
    <3>1. next \in Call /\ next.at = "evaluated" /\ next.attempt = n /\ next.commit = c
      <4>1. "evaluated" \in Stage
        BY DEF Stage
      <4>2. QED
        BY <4>1, Kept
    <3>2. Sealed(n) /\ Continue(p, next)
      BY <1>3, <2>4 DEF RegisterEvaluation, At, To, Recalls
    <3> HIDE DEF next
    <3>3. call'[p] = next
      BY <3>1, <3>2, Continued DEF TablesInv, TypeOK
    <3>4. Recalls(p)'
      BY <2>1, <2>2, <3>1, <3>2, <3>3 DEF Recalls, Sealed, Judged
    <3>5. QED
      BY <2>2, <2>3, <3>1, <3>2, <3>4, TableStep
  <2>5. CASE ~At(p, "register_evaluation")
    <3> DEFINE e == SelectLastInSeq(evaluation', LAMBDA x : x.attempt = n)
    <3>1. e \in Nat /\ e \in DOMAIN evaluation' /\ evaluation'[e].attempt = n
      <4> DEFINE I == {i \in 1..Len(evaluation') : evaluation'[i].attempt = n}
      <4>1. DOMAIN evaluation' = 1..Len(evaluation') /\ Len(evaluation') \in Nat
        BY <2>2
      <4>2. I \subseteq 1..Len(evaluation') /\ I # {}
        BY <2>2, <4>1
      <4>3. Max(I) \in I
        BY <4>1, <4>2, MaxIn
      <4>4. e = Max(I)
        BY <4>2 DEF SelectLastInSeq
      <4>5. QED
        BY <4>1, <4>3, <4>4
    <3>2. evaluation'[e].commit = c
      BY <2>1, <2>2, <3>1 DEF TablesAgree
    <3> DEFINE next == WithEvaluation(call[p], "decide", e)
    <3>3. Continue(p, next)
      BY <1>3, <2>5, Zenon DEF RegisterEvaluation, WithEvaluation
    <3> HIDE DEF e
    <3>4. next \in Call /\ next.at = "decide" /\ next.commit = c /\ next.evaluation = e
      <4>1. "decide" \in Stage
        BY DEF Stage
      <4>2. QED
        BY <3>1, <4>1, KeptWith
    <3> HIDE DEF next
    <3>5. call'[p] = next
      BY <3>3, <3>4, Continued DEF TablesInv, TypeOK
    <3>6. Recalls(p)'
      BY <3>1, <3>2, <3>4, <3>5 DEF Recalls
    <3>7. QED
      BY <2>2, <2>3, <3>3, <3>4, <3>6, TableStep
  <2>6. QED
    BY <2>4, <2>5
<1>4. ASSUME NEW v, NEW k, NotPassed(p, v, k) PROVE Proceeds(p)
  <2>1. "NONE" \in ResumeState \cup {"NONE"} /\ "EVALUATING" \in ResumeState \cup {"NONE"}
    BY DEF ResumeState
  <2>2. row' \in Row /\ UNCHANGED tables /\ Return(p)
    BY <1>4, <2>1, RowMoves, States DEF NotPassed, Move
  <2>3. QED
    BY <2>2, ReturnStep
<1>5. CASE Evaluated(p)
  <2>1. CASE Return(p) /\ UNCHANGED <<row, tables>>
    BY <2>1, ReturnStep
  <2>2. CASE /\ Move(p, "WAITING_APPROVAL", "EVALUATING")
             /\ Continue(p, [Idle EXCEPT !.at = "request", !.commit = call[p].commit,
                  !.version = row'.version, !.gen = row.gen,
                  !.evaluation = SelectLastInSeq(evaluation, LAMBDA e : e.attempt = n)])
    <3> DEFINE e == SelectLastInSeq(evaluation, LAMBDA x : x.attempt = n)
               next == [Idle EXCEPT !.at = "request", !.commit = c,
                          !.version = row'.version, !.gen = row.gen, !.evaluation = e]
    <3>1. e \in Nat
      <4> DEFINE I == {i \in 1..Len(evaluation) : evaluation[i].attempt = n}
      <4>1. Len(evaluation) \in Nat
        BY DEF StoreTypeOK
      <4>2. I # {} => Max(I) \in I
        BY <4>1, MaxIn
      <4>3. e = IF I # {} THEN Max(I) ELSE 0
        BY DEF SelectLastInSeq
      <4>4. QED
        BY <4>1, <4>2, <4>3
    <3>2. "EVALUATING" \in ResumeState \cup {"NONE"}
      BY DEF ResumeState
    <3>3. row' \in Row /\ UNCHANGED tables
      BY <2>2, <3>2, RowMoves, States DEF Move
    <3>4. row'.version \in Nat
      BY <3>3 DEF Row
    <3>5. Continue(p, next)
      BY <2>2
    <3> HIDE DEF e
    <3>6. next \in Call /\ next.at \in PlainStage
      BY <1>0, <3>1, <3>4 DEF Idle, Call, Stage, PlainStage
    <3> HIDE DEF next
    <3>7. QED
      BY <3>3, <3>5, <3>6, RowStep
  <2>3. QED
    BY <1>4, <1>5, <2>1, <2>2 DEF Evaluated
<1>6. CASE RequestApproval(p)
  <2>1. /\ RequestApprovalTxn(Id[p], call[p].gen, call[p].version, c, call[p].evaluation)
        /\ call[p].version \in Nat /\ call[p].evaluation \in Nat
        /\ Continue(p, Idle) /\ UNCHANGED <<row, evidence, registered, manifest>>
    BY <1>6 DEF RequestApproval, Return, Call
  <2>2. approval' \in Seq(ApprovalRow) /\ TablesAgree' /\ Grows
    BY <1>0, <2>1, ApprovalRequested
  <2>3. StoreTypeOK'
    BY <2>1, <2>2 DEF StoreTypeOK, ApprovalRow, evidence
  <2>4. Idle.at \in PlainStage
    BY DEF Idle, PlainStage
  <2>5. QED
    BY <2>1, <2>2, <2>3, <2>4, IdleCall, TableStep
<1>7. QED
  BY <1>1, <1>2, <1>3, <1>5, <1>6

\* The human's decision, the acceptance, and a handler that is abandoned.
LEMMA AcceptanceHandlers ==
  ASSUME TablesInv, NEW p \in Proc,
         \/ Resolve(p) \/ ResolveApproval(p) \/ Resolved(p) \/ Accept(p) \/ AcceptExecution(p)
         \/ Advance(p) \/ ApprovalRecorded(p) \/ Abandon(p)
  PROVE  Proceeds(p)
<1> USE Remembered
<1>0. \A a \in DOMAIN approval : a \in Nat
  <2>1. DOMAIN approval = 1..Len(approval) /\ Len(approval) \in Nat
    BY DEF StoreTypeOK
  <2>2. QED
    BY <2>1
<1>1. CASE Resolve(p)
  <2>1. PICK a \in DOMAIN approval, ok \in BOOLEAN :
          Continue(p, [Idle EXCEPT !.at = "resolve", !.approval = a,
                         !.verdict = IF ok THEN "PASS" ELSE "FAIL",
                         !.flag = (row.state = "WAITING_APPROVAL")])
    BY <1>1 DEF Resolve
  <2> DEFINE v == IF ok THEN "PASS" ELSE "FAIL"
             f == (row.state = "WAITING_APPROVAL")
             next == [Idle EXCEPT !.at = "resolve", !.approval = a, !.verdict = v, !.flag = f]
  <2>2. v \in Verdict \cup {"FAIL", "NONE"} /\ f \in BOOLEAN
    BY DEF Verdict
  <2>3. Continue(p, next) /\ UNCHANGED <<row, tables>>
    BY <1>1, <2>1 DEF Resolve
  <2> HIDE DEF v, f
  <2>4. next \in Call /\ next.at = "resolve" /\ next.approval = a
    BY <1>0, <2>2 DEF Idle, Call, Stage
  <2> HIDE DEF next
  <2>5. Recalls(p)'
    BY <2>3, <2>4, Continued DEF Recalls, TablesInv, TypeOK, tables
  <2>6. QED
    BY <2>3, <2>4, <2>5, ReadStep
<1>2. CASE ResolveApproval(p)
  <2> DEFINE next == [Idle EXCEPT !.at = "resolved", !.verdict = call[p].verdict]
  <2>1. next \in Call /\ next.at \in PlainStage /\ Idle.at \in PlainStage
    BY DEF Idle, Call, Stage, PlainStage
  <2>2. /\ ResolveApprovalTxn(call[p].approval, IF call[p].verdict = "PASS" THEN "APPROVED" ELSE "REJECTED")
        /\ Continue(p, next) \/ Continue(p, Idle)
        /\ UNCHANGED <<row, evidence, registered, manifest>>
    BY <1>2 DEF ResolveApproval, Return
  <2>3. approval' \in Seq(ApprovalRow) /\ TablesAgree' /\ Grows
    BY <2>2, ApprovalResolved
  <2>4. StoreTypeOK'
    BY <2>2, <2>3 DEF StoreTypeOK, ApprovalRow, evidence
  <2> HIDE DEF next
  <2>5. QED
    BY <2>1, <2>2, <2>3, <2>4, IdleCall, TableStep
<1>3. CASE Resolved(p)
  <2>1. "NONE" \in ResumeState \cup {"NONE"}
    OBVIOUS
  <2>2. row' \in Row /\ UNCHANGED tables /\ Return(p)
    BY <1>3, <2>1, RowMoves, States DEF Resolved, Move
  <2>3. QED
    BY <2>2, ReturnStep
<1>4. CASE Accept(p)
  <2>1. PICK a : NamedApproval(a) /\ ReadEvidence(p, a)
    <3>1. CASE At(p, "idle")
      BY <1>4, <3>1, ProcessAssumption DEF Accept, NamedApproval, At
    <3>2. CASE At(p, "accept")
      BY <1>4, <3>2 DEF Accept, At, Recalls
    <3>3. QED
      BY <1>4, <3>1, <3>2 DEF Accept
  <2> DEFINE m == MakerOf(row.commit)
             v == VerificationPass(row.commit)
             e == EvaluationPass(row.commit)
             next == [Idle EXCEPT !.at = "accepting", !.version = row.version, !.gen = row.gen,
                        !.commit = row.commit, !.attempt = m, !.verification = v,
                        !.evaluation = e, !.approval = a]
  <2>2. m \in DOMAIN maker /\ v \in DOMAIN verification /\ e \in DOMAIN evaluation
    BY <2>1, MakerOfFinds, VerificationPassFinds, EvaluationPassFinds DEF ReadEvidence
  <2>3. m \in Nat /\ v \in Nat /\ e \in Nat /\ a \in Nat
    <3>1. m \in Nat /\ v \in Nat /\ e \in Nat
      BY MakerOfFinds, VerificationPassFinds, EvaluationPassFinds
    <3>2. a \in Nat
      BY <1>0, <2>1 DEF NamedApproval
    <3>3. QED
      BY <3>1, <3>2
  <2>4. Continue(p, next) /\ UNCHANGED <<row, tables>>
    BY <2>1 DEF ReadEvidence
  <2> HIDE DEF m, v, e
  <2>5. /\ next \in Call /\ next.at = "accepting" /\ next.attempt = m
        /\ next.verification = v /\ next.evaluation = e /\ next.approval = a
    <3>1. row.version \in Nat /\ row.gen \in Nat /\ row.commit \in Nat
      BY DEF Row
    <3>2. QED
      BY <2>3, <3>1 DEF Idle, Call, Stage
  <2> HIDE DEF next
  <2>6. call'[p] = next
    BY <2>4, <2>5, Continued DEF TablesInv, TypeOK
  <2>7. Recalls(p)'
    BY <2>1, <2>2, <2>4, <2>5, <2>6 DEF Recalls, NamedApproval, tables, evidence
  <2>8. QED
    BY <2>4, <2>5, <2>7, ReadStep
<1>5. CASE AcceptExecution(p)
  <2> DEFINE m == [commit |-> call[p].commit, maker |-> call[p].attempt,
                   verification |-> call[p].verification, evaluation |-> call[p].evaluation,
                   approval |-> call[p].approval]
  <2>1. /\ AcceptTxn(Id[p], call[p].gen, call[p].version, m)
        /\ Continue(p, Idle) /\ UNCHANGED <<evidence, registered>>
    BY <1>5 DEF AcceptExecution, Return
  <2>2. m \in Manifest
    BY DEF Call, Manifest
  <2> HIDE DEF m
  <2>3. row' \in Row /\ manifest' = m
    BY <2>1, RowMoves DEF AcceptTxn
  <2>4. UNCHANGED approval \/ approval' = [approval EXCEPT ![m.approval].consumed = TRUE]
    BY <2>1, Zenon DEF AcceptTxn
  <2>5. approval' \in Seq(ApprovalRow) /\ TablesAgree' /\ Grows
    <3>1. CASE UNCHANGED approval
      BY <2>1, <3>1, TablesKept DEF StoreTypeOK, ApprovalRow
    <3>2. CASE approval' = [approval EXCEPT ![m.approval].consumed = TRUE]
      BY <2>1, <3>2, ApprovalConsumed
    <3>3. QED
      BY <2>4, <3>1, <3>2
  <2>6. StoreTypeOK'
    BY <2>1, <2>2, <2>3, <2>5 DEF StoreTypeOK, Row, ApprovalRow, evidence
  <2>7. Idle.at \in PlainStage
    BY DEF Idle, PlainStage
  <2>8. QED
    BY <2>1, <2>5, <2>6, <2>7, IdleCall, TableStep
<1>6. CASE Advance(p)
  <2> DEFINE a == SelectLastInSeq(approval, LAMBDA r : r.status = "APPROVED" /\ ~r.consumed)
             waits == [Idle EXCEPT !.at = "approved", !.approval = a]
             goes == [Idle EXCEPT !.at = "accept", !.approval = a]
  <2>1. /\ a # 0 /\ UNCHANGED <<row, tables>>
        /\ Continue(p, waits) \/ Continue(p, goes)
    BY <1>6 DEF Advance
  <2>2. a \in DOMAIN approval
    BY <2>1, ApprovalFinds
  <2> HIDE DEF a
  <2>3. /\ waits \in Call /\ waits.at = "approved" /\ waits.approval = a
        /\ goes \in Call /\ goes.at = "accept" /\ goes.approval = a
    BY <1>0, <2>2 DEF Idle, Call, Stage
  <2> HIDE DEF waits, goes
  <2>4. \/ Continue(p, waits) /\ call'[p] = waits
        \/ Continue(p, goes) /\ call'[p] = goes
    BY <2>1, <2>3, Continued DEF TablesInv, TypeOK
  <2>5. Recalls(p)'
    BY <2>1, <2>2, <2>3, <2>4 DEF Recalls, NamedApproval, tables
  <2>6. QED
    BY <2>1, <2>3, <2>5, ReadStep
<1>7. CASE ApprovalRecorded(p)
  <2> DEFINE next == [call[p] EXCEPT !.at = "accept"]
  <2>1. next \in Call /\ next.at = "accept" /\ next.approval = call[p].approval
    <3>1. "accept" \in Stage
      BY DEF Stage
    <3>2. QED
      BY <3>1, Kept
  <2>2. "NONE" \in ResumeState \cup {"NONE"}
    OBVIOUS
  <2>3. /\ row' \in Row /\ UNCHANGED tables /\ Continue(p, next)
        /\ call[p].approval \in DOMAIN approval
    BY <1>7, <2>2, RowMoves, States DEF ApprovalRecorded, Move, To, At, Recalls
  <2>4. StoreTypeOK'
    BY <2>3 DEF StoreTypeOK, Row, tables, evidence
  <2>5. TablesAgree' /\ Grows
    BY <2>3, TablesKept DEF tables
  <2> HIDE DEF next
  <2>6. call'[p] = next
    BY <2>1, <2>3, Continued DEF TablesInv, TypeOK
  <2>7. 0 \notin DOMAIN approval
    BY DEF StoreTypeOK
  <2>8. Recalls(p)'
    BY <2>1, <2>3, <2>6, <2>7 DEF Recalls, NamedApproval, tables
  <2>9. QED
    BY <2>1, <2>3, <2>4, <2>5, <2>8, TableStep
<1>8. CASE Abandon(p)
  BY <1>8, ReturnStep DEF Abandon
<1>9. QED
  BY <1>1, <1>2, <1>3, <1>4, <1>5, <1>6, <1>7, <1>8

\* resume_once: the lease, and what it does for a Maker or a verification.
LEMMA RecoveryStarts ==
  ASSUME TablesInv, NEW p \in Proc,
         Resume(p) \/ ResumeMaker(p) \/ LoseMaker(p) \/ ResumeVerification(p)
  PROVE  Proceeds(p)
<1> USE Remembered
<1> DEFINE c == call[p].commit
<1>0. Idle.at \in PlainStage /\ c \in Nat /\ call[p].resume \in ResumeState \cup {"NONE"}
  BY DEF Idle, PlainStage, Call
<1>1. CASE Resume(p)
  <2> DEFINE own == row.owner = Id[p] /\ row.live
             recovered == ~own /\ row.owner # NoOwner
             then(stage) == Resuming(stage, row', recovered)
  <2>1. row' \in Row /\ UNCHANGED tables
    BY <1>1, RowMoves DEF Resume
  <2>2. \/ Return(p)
        \/ \E stage \in {"resume_maker", "resume_verification", "resume_evaluation", "resume_approval"} :
             Continue(p, then(stage))
    BY <1>1 DEF Resume
  <2>3. ASSUME NEW stage \in {"resume_maker", "resume_verification", "resume_evaluation", "resume_approval"}
        PROVE then(stage) \in Call /\ then(stage).at \in PlainStage
    <3>1. recovered \in BOOLEAN
      OBVIOUS
    <3>2. /\ row'.version \in Nat /\ row'.gen \in Nat /\ row'.commit \in Nat /\ row'.reworks \in Nat
      BY <2>1, ExecutionAssumption DEF Row
    <3>3. stage \in Stage /\ stage \in PlainStage
      BY DEF Stage, PlainStage
    <3> HIDE DEF recovered
    <3>4. QED
      BY <3>1, <3>2, <3>3 DEF Resuming, Idle, Call
  <2> HIDE DEF then
  <2>4. QED
    BY <2>1, <2>2, <2>3, ReturnStep, RowStep
<1>2. CASE ResumeMaker(p)
  <2> DEFINE n == Len(maker)
             resume == MakerResume(n, call[p].reworks)
             register == [Idle EXCEPT !.at = "register", !.commit = maker[n].commit]
             made == [Idle EXCEPT !.at = "made"]
             lose == [Idle EXCEPT !.at = "lose_maker", !.attempt = n, !.resume = resume]
  <2>1. n \in Nat /\ (n # 0 => n \in DOMAIN maker)
    BY DEF StoreTypeOK
  <2>2. resume \in ResumeState
    BY DEF MakerResume, ResumeState
  <2>3. /\ UNCHANGED <<row, tables>>
        /\ \/ Continue(p, Blocking("READY"))
           \/ n # 0 /\ maker[n].status = "SUCCEEDED" /\ Continue(p, register)
           \/ Continue(p, made)
           \/ Return(p)
           \/ Continue(p, lose)
           \/ Continue(p, Blocking(resume))
    BY <1>2 DEF ResumeMaker
  <2> HIDE DEF resume
  <2>4. /\ Blocking("READY") \in Call /\ Blocking("READY").at \in PlainStage
        /\ Blocking(resume) \in Call /\ Blocking(resume).at \in PlainStage
    BY <2>2, BlockingCall DEF ResumeState, PlainStage
  <2>5. /\ made \in Call /\ made.at \in PlainStage
        /\ lose \in Call /\ lose.at \in PlainStage
    BY <2>1, <2>2 DEF Idle, Call, Stage, PlainStage
  <2>6. CASE n # 0 /\ maker[n].status = "SUCCEEDED" /\ Continue(p, register)
    <3>1. maker[n].commit \in Nat
      BY <2>1, <2>6, Typed
    <3>2. register \in Call /\ register.at = "register" /\ register.commit = maker[n].commit
      BY <3>1 DEF Idle, Call, Stage
    <3> HIDE DEF register
    <3>3. call'[p] = register
      BY <2>6, <3>2, Continued DEF TablesInv, TypeOK
    <3>4. Recalls(p)'
      BY <2>1, <2>3, <2>6, <3>2, <3>3 DEF Recalls, Made, tables, evidence
    <3>5. QED
      BY <2>3, <2>6, <3>2, <3>4, ReadStep
  <2>7. CASE Return(p)
    BY <2>3, <2>7, ReturnStep
  <2> HIDE DEF made, lose, register
  <2>8. QED
    BY <2>3, <2>4, <2>5, <2>6, <2>7, ReadStep
<1>3. CASE LoseMaker(p)
  <2> DEFINE next == Blocking(call[p].resume)
  <2>1. next \in Call /\ next.at \in PlainStage
    BY <1>0 DEF Blocking, Idle, Call, Stage, PlainStage
  <2>2. /\ FinishMakerTxn(call[p].attempt, "LOST", 0)
        /\ UNCHANGED <<row, evaluator, verification, evaluation, approval, registered, manifest>>
        /\ Continue(p, next)
    BY <1>3 DEF LoseMaker
  <2>3. maker' \in Seq(MakerRow) /\ TablesAgree' /\ Grows
    BY <2>2, MakerFinished DEF AttemptStatus
  <2>4. StoreTypeOK'
    BY <2>2, <2>3 DEF StoreTypeOK, MakerRow
  <2>5. QED
    BY <2>1, <2>2, <2>3, <2>4, TableStep
<1>4. CASE ResumeVerification(p)
  <2> DEFINE v == VerificationOf(c)
             next == [Idle EXCEPT !.at = "verified", !.verdict = verification[v].verdict]
  <2>1. CASE v = 0
    BY <1>4, <2>1, ReturnStep DEF ResumeVerification
  <2>2. CASE v # 0
    <3>1. v \in DOMAIN verification
      BY <2>2, BoundResultFinds
    <3>2. verification[v].verdict \in {"PASS", "FAIL"}
      BY <3>1, Typed
    <3>3. verification[v].verdict \in Verdict \cup {"FAIL", "NONE"}
      BY <3>2 DEF Verdict
    <3>4. next \in Call /\ next.at \in PlainStage
      BY <3>3 DEF Idle, Call, Stage, PlainStage
    <3>5. QED
      BY <1>4, <2>2, <3>4, ReadStep DEF ResumeVerification
  <2>3. QED
    BY <2>1, <2>2
<1>5. QED
  BY <1>1, <1>2, <1>3, <1>4

\* resume_once on an evaluator, its verdict, and a missing or given approval.
LEMMA RecoveryEvaluates ==
  ASSUME TablesInv, NEW p \in Proc,
         ResumeEvaluation(p) \/ LoseEvaluator(p) \/ RecoverEvaluator(p)
  PROVE  Proceeds(p)
<1> USE Remembered
<1> DEFINE c == call[p].commit
           blocking == Blocking("EVALUATING")
<1>0. c \in Nat /\ blocking \in Call /\ blocking.at \in PlainStage
  BY BlockingCall DEF ResumeState, PlainStage, Call
<1>1. CASE ResumeEvaluation(p)
  <2> DEFINE e == EvaluationOf(c)
             n == Len(evaluator)
             next(stage) == WithAttempt(call[p], stage, n)
             decide == WithEvaluation(call[p], "decide", e)
  <2>1. n \in Nat /\ (n # 0 => n \in DOMAIN evaluator)
    BY DEF StoreTypeOK
  <2>2. /\ UNCHANGED <<row, tables>>
        /\ \/ e # 0 /\ Continue(p, decide)
           \/ Return(p)
           \/ Continue(p, blocking)
           \/ Continue(p, next("lose_evaluator"))
           \/ n # 0 /\ evaluator[n].verdict # "NONE" /\ Continue(p, next("recover_evaluator"))
           \/ n # 0 /\ evaluator[n].commit = c /\ Continue(p, next("recover_evaluation"))
    BY <1>1, Zenon DEF ResumeEvaluation, WithEvaluation, WithAttempt
  <2>3. e \in Nat /\ (e # 0 => e \in DOMAIN evaluation /\ evaluation[e].commit = c)
    BY BoundResultFinds
  <2>4. /\ "decide" \in Stage
        /\ \A s \in {"lose_evaluator", "recover_evaluator", "recover_evaluation"} : s \in Stage
    BY DEF Stage
  <2> HIDE DEF e, n
  <2>5. ASSUME NEW s \in {"lose_evaluator", "recover_evaluator", "recover_evaluation"}
        PROVE next(s) \in Call /\ next(s).at = s /\ next(s).attempt = n /\ next(s).commit = c
    <3>1. s \in Stage /\ call[p] \in Call /\ n \in Nat
      BY <2>1, <2>4
    <3>2. QED
      BY <3>1, KeptWith
  <2>6. CASE e # 0 /\ Continue(p, decide)
    <3>1. decide \in Call /\ decide.at = "decide" /\ decide.evaluation = e /\ decide.commit = c
      <4>1. "decide" \in Stage /\ call[p] \in Call /\ e \in Nat
        BY <2>3, <2>4
      <4>2. QED
        BY <4>1, KeptWith
    <3> HIDE DEF decide
    <3>2. call'[p] = decide
      BY <2>6, <3>1, Continued DEF TablesInv, TypeOK
    <3>3. Recalls(p)'
      BY <2>2, <2>3, <2>6, <3>1, <3>2 DEF Recalls, tables, evidence
    <3>4. QED
      BY <2>2, <2>6, <3>1, <3>3, ReadStep
  <2>7. CASE n # 0 /\ evaluator[n].verdict # "NONE" /\ Continue(p, next("recover_evaluator"))
    <3> DEFINE m == next("recover_evaluator")
    <3>1. m \in Call /\ m.at = "recover_evaluator" /\ m.attempt = n
      BY <2>5
    <3>2. Continue(p, m)
      BY <2>7
    <3> HIDE DEF m
    <3>3. call'[p] = m
      BY <3>1, <3>2, Continued DEF TablesInv, TypeOK
    <3>4. Recalls(p)'
      BY <2>1, <2>2, <2>7, <3>1, <3>3 DEF Recalls, Sealed, tables, evidence
    <3>5. QED
      BY <2>2, <3>1, <3>2, <3>4, ReadStep
  <2>8. CASE n # 0 /\ evaluator[n].commit = c /\ Continue(p, next("recover_evaluation"))
    <3> DEFINE m == next("recover_evaluation")
    <3>1. m \in Call /\ m.at = "recover_evaluation" /\ m.attempt = n /\ m.commit = c
      BY <2>5
    <3>2. Continue(p, m)
      BY <2>8
    <3> HIDE DEF m
    <3>3. call'[p] = m
      BY <3>1, <3>2, Continued DEF TablesInv, TypeOK
    <3>4. Recalls(p)'
      BY <2>1, <2>2, <2>8, <3>1, <3>3 DEF Recalls, tables, evidence
    <3>5. QED
      BY <2>2, <3>1, <3>2, <3>4, ReadStep
  <2>9. CASE Continue(p, next("lose_evaluator"))
    <3>1. next("lose_evaluator") \in Call /\ next("lose_evaluator").at \in PlainStage
      BY <2>5 DEF PlainStage
    <3>2. QED
      BY <2>2, <2>9, <3>1, ReadStep
  <2>10. CASE Return(p) \/ Continue(p, blocking)
    BY <1>0, <2>2, <2>10, ReturnStep, ReadStep
  <2>11. QED
    BY <2>2, <2>6, <2>7, <2>8, <2>9, <2>10
<1>2. CASE LoseEvaluator(p)
  <2>1. /\ FinishEvaluatorTxn(call[p].attempt, "LOST") /\ Continue(p, blocking)
        /\ UNCHANGED <<row, maker, verification, evaluation, approval, registered, manifest>>
    BY <1>2 DEF LoseEvaluator
  <2>2. evaluator' \in Seq(EvaluatorRow) /\ TablesAgree' /\ Grows
    <3>1. "LOST" \in AttemptStatus /\ "LOST" # "SUCCEEDED"
      BY DEF AttemptStatus
    <3>2. QED
      BY <2>1, <3>1, EvaluatorFinished
  <2>3. StoreTypeOK'
    BY <2>1, <2>2 DEF StoreTypeOK, EvaluatorRow
  <2>4. QED
    BY <1>0, <2>1, <2>2, <2>3, TableStep
<1>3. CASE RecoverEvaluator(p)
  <2> DEFINE n == call[p].attempt
             next == [call[p] EXCEPT !.at = "recover_evaluation"]
  <2>1. /\ Sealed(n)
        /\ UNCHANGED <<row, maker, verification, evaluation, approval, registered, manifest>>
        /\ \/ /\ FinishEvaluatorTxn(n, "SUCCEEDED") /\ evaluator[n].commit = c
              /\ Continue(p, next) \/ Continue(p, blocking)
           \/ UNCHANGED evaluator /\ Continue(p, blocking)
    BY <1>3 DEF RecoverEvaluator, At, To, Recalls
  <2>2. next \in Call /\ next.at = "recover_evaluation" /\ next.attempt = n /\ next.commit = c
    <3>1. "recover_evaluation" \in Stage
      BY DEF Stage
    <3>2. QED
      BY <3>1, Kept
  <2> HIDE DEF next
  <2>3. CASE /\ FinishEvaluatorTxn(n, "SUCCEEDED") /\ evaluator[n].commit = c
             /\ Continue(p, next) \/ Continue(p, blocking)
    <3>1. evaluator' \in Seq(EvaluatorRow) /\ TablesAgree' /\ Grows
      BY <2>1, <2>3, EvaluatorFinished DEF AttemptStatus
    <3>2. StoreTypeOK'
      BY <2>1, <3>1 DEF StoreTypeOK, EvaluatorRow
    <3>3. CASE Continue(p, next)
      <4>1. call'[p] = next
        BY <2>2, <3>3, Continued DEF TablesInv, TypeOK
      <4>2. Recalls(p)'
        BY <2>1, <2>2, <2>3, <3>1, <4>1 DEF Recalls, Sealed, Grows
      <4>3. QED
        BY <2>2, <3>1, <3>2, <3>3, <4>2, TableStep
    <3>4. CASE Continue(p, blocking)
      BY <1>0, <3>1, <3>2, <3>4, TableStep
    <3>5. QED
      BY <2>3, <3>3, <3>4
  <2>4. CASE UNCHANGED evaluator /\ Continue(p, blocking)
    BY <1>0, <2>1, <2>4, ReadStep DEF tables, evidence
  <2>5. QED
    BY <2>1, <2>3, <2>4
<1>4. QED
  BY <1>1, <1>2, <1>3

\* Recovery's decision on a verdict, and on the approval.
LEMMA RecoveryDecides ==
  ASSUME TablesInv, NEW p \in Proc,
         Decide(p) \/ Ensure(p) \/ ResumeApproval(p)
  PROVE  Proceeds(p)
<1> USE Remembered
<1> DEFINE c == call[p].commit
<1>0. c \in Nat /\ (approval # <<>> => 1 \in DOMAIN approval) /\ (Len(approval) = 1 => 1 \in DOMAIN approval)
  BY DEF StoreTypeOK, Call
<1>1. "NONE" \in ResumeState \cup {"NONE"} /\ "EVALUATING" \in ResumeState \cup {"NONE"}
  BY DEF ResumeState
<1>2. CASE Decide(p)
  <2> DEFINE accept(a) == [Idle EXCEPT !.at = "accept", !.approval = a]
             ensure == WithFence(call[p], "ensure", row'.version, row.gen)
  <2>1. \/ \E v, k : NotPassed(p, v, k)
        \/ \E a \in {0, 1} : NamedApproval(a) /\ Continue(p, accept(a)) /\ UNCHANGED <<row, tables>>
        \/ Move(p, "WAITING_APPROVAL", "EVALUATING") /\ Continue(p, ensure)
    <3> DEFINE e == call[p].evaluation
    <3>1. \/ NotPassed(p, evaluation[e].verdict, call[p].reworks)
          \/ approval # <<>> /\ Continue(p, accept(1)) /\ UNCHANGED <<row, tables>>
          \/ ~ApprovalRequired /\ Continue(p, accept(0)) /\ UNCHANGED <<row, tables>>
          \/ Move(p, "WAITING_APPROVAL", "EVALUATING") /\ Continue(p, ensure)
      BY <1>2, Zenon DEF Decide, WithFence
    <3> HIDE DEF accept, ensure
    <3>2. (approval # <<>> => NamedApproval(1)) /\ (~ApprovalRequired => NamedApproval(0))
      BY <1>0 DEF NamedApproval
    <3>3. QED
      BY <3>1, <3>2
  <2>2. ASSUME NEW v, NEW k, NotPassed(p, v, k) PROVE Proceeds(p)
    <3>1. row' \in Row /\ UNCHANGED tables /\ Return(p)
      BY <1>1, <2>2, RowMoves, States DEF NotPassed, Move
    <3>2. QED
      BY <3>1, ReturnStep
  <2>3. ASSUME NEW a \in {0, 1}, NamedApproval(a), Continue(p, accept(a)), UNCHANGED <<row, tables>>
        PROVE Proceeds(p)
    <3>1. accept(a) \in Call /\ accept(a).at = "accept" /\ accept(a).approval = a
      <4>1. a \in Nat
        OBVIOUS
      <4>2. QED
        BY <4>1 DEF Idle, Call, Stage
    <3> HIDE DEF accept
    <3>2. call'[p] = accept(a)
      BY <2>3, <3>1, Continued DEF TablesInv, TypeOK
    <3>3. Recalls(p)'
      BY <2>3, <3>1, <3>2 DEF Recalls, NamedApproval, tables
    <3>4. QED
      BY <2>3, <3>1, <3>3, ReadStep
  <2>4. CASE Move(p, "WAITING_APPROVAL", "EVALUATING") /\ Continue(p, ensure)
    <3>1. row' \in Row /\ UNCHANGED tables
      BY <1>1, <2>4, RowMoves, States DEF Move
    <3>2. row'.version \in Nat /\ row.gen \in Nat /\ "ensure" \in Stage /\ "ensure" \in PlainStage
      BY <3>1 DEF Row, Stage, PlainStage
    <3>3. ensure \in Call /\ ensure.at \in PlainStage
      BY <3>2, KeptWithFence
    <3> HIDE DEF ensure
    <3>4. QED
      BY <2>4, <3>1, <3>3, RowStep
  <2>5. QED
    BY <2>1, <2>2, <2>3, <2>4
<1>3. CASE Ensure(p)
  <2> DEFINE next == [Idle EXCEPT !.at = "request", !.version = call[p].version, !.gen = call[p].gen,
                        !.commit = call[p].commit, !.evaluation = call[p].evaluation]
  <2>1. next \in Call /\ next.at \in PlainStage
    <3>1. call[p].version \in Nat /\ call[p].gen \in Nat /\ call[p].evaluation \in Nat
      BY DEF Call
    <3>2. QED
      BY <1>0, <3>1 DEF Idle, Call, Stage, PlainStage
  <2>2. Continue(p, next) /\ UNCHANGED <<row, tables>>
    BY <1>3 DEF Ensure
  <2>3. QED
    BY <2>1, <2>2, ReadStep
<1>4. CASE ResumeApproval(p)
  <2> DEFINE e == EvaluationOf(c)
             ensure == WithEvaluation(call[p], "ensure", e)
             approved == [Idle EXCEPT !.at = "approved", !.approval = 1]
             resolved == [Idle EXCEPT !.at = "resolved", !.verdict = "FAIL"]
  <2>1. /\ UNCHANGED <<row, tables>>
        /\ \/ Continue(p, ensure)
           \/ Return(p)
           \/ Len(approval) = 1 /\ Continue(p, approved)
           \/ Continue(p, resolved)
    BY <1>4, Zenon DEF ResumeApproval, WithEvaluation
  <2>2. ensure \in Call /\ ensure.at \in PlainStage
    <3>1. e \in Nat
      BY BoundResultFinds
    <3>2. "ensure" \in Stage /\ "ensure" \in PlainStage
      BY DEF Stage, PlainStage
    <3>3. QED
      BY <3>1, <3>2, KeptWith
  <2>3. approved \in Call /\ approved.at = "approved" /\ approved.approval = 1
    BY DEF Idle, Call, Stage
  <2>4. resolved \in Call /\ resolved.at \in PlainStage
    BY DEF Idle, Call, Stage, PlainStage
  <2> HIDE DEF ensure, approved, resolved
  <2>5. CASE Len(approval) = 1 /\ Continue(p, approved)
    <3>1. call'[p] = approved
      BY <2>3, <2>5, Continued DEF TablesInv, TypeOK
    <3>2. Recalls(p)'
      BY <1>0, <2>1, <2>3, <2>5, <3>1 DEF Recalls, tables
    <3>3. QED
      BY <2>1, <2>3, <2>5, <3>2, ReadStep
  <2>6. CASE Return(p)
    BY <2>1, <2>6, ReturnStep
  <2>7. QED
    BY <2>1, <2>2, <2>4, <2>5, <2>6, ReadStep
<1>5. QED
  BY <1>2, <1>3, <1>4

-----------------------------------------------------------------------------
(* The tables invariant, and what follows from it alone. *)

\* Every step of a process does what is to be shown of it.
LEMMA AnyStep ==
  ASSUME TablesInv, NEW p \in Proc, Controls(p) \/ Recovers(p) \/ Abandon(p)
  PROVE  Proceeds(p)
BY MakerHandlers, EvaluatorHandlers, EvaluationHandlers, AcceptanceHandlers,
   RecoveryStarts, RecoveryEvaluates, RecoveryDecides
   DEF Controls, Recovers

\* What another handler recalls stays, because the tables only grow.
LEMMA OthersRecall ==
  ASSUME Grows, NEW q \in Proc, Recalls(q), call'[q] = call[q]
  PROVE  Recalls(q)'
BY DEF Recalls, Grows, Made, Sealed, Judged, NamedApproval

\* The lease's expiry changes no table and no handler.
LEMMA Expiry ==
  ASSUME TablesInv, LeaseExpires
  PROVE  TypeOK' /\ TablesAgree' /\ Grows /\ call' = call
<1>1. row \in Row
  BY DEF TablesInv, TypeOK, StoreTypeOK, Row
<1>2. row' \in Row
  BY <1>1, Zenon DEF LeaseExpires, Row
<1>3. UNCHANGED tables /\ call' = call
  BY DEF LeaseExpires
<1>4. TypeOK'
  BY <1>2, <1>3 DEF TablesInv, TypeOK, StoreTypeOK, Row, tables, evidence
<1>5. TablesAgree' /\ Grows
  BY <1>3, TablesKept DEF TablesInv, tables
<1>6. QED
  BY <1>3, <1>4, <1>5

\* Any step keeps the tables in agreement, and only makes them grow.
LEMMA TablesStep ==
  ASSUME TablesInv, [Next]_vars
  PROVE  TablesInv' /\ Grows
<1>1. CASE LeaseExpires
  <2>1. \A q \in Proc : Recalls(q)'
    BY <1>1, Expiry, OthersRecall DEF TablesInv
  <2>2. QED
    BY <1>1, <2>1, Expiry DEF TablesInv
<1>2. ASSUME NEW p \in Proc, Controls(p) \/ Recovers(p) \/ Abandon(p)
      PROVE TablesInv' /\ Grows
  <2>1. Proceeds(p)
    BY <1>2, AnyStep
  <2>2. \A q \in Proc \ {p} : Recalls(q)'
    BY <2>1, OthersRecall DEF Proceeds, TablesInv
  <2>3. QED
    BY <2>1, <2>2 DEF Proceeds, TablesInv
<1>3. CASE UNCHANGED vars
  <2>1. TypeOK' /\ TablesAgree' /\ Grows
    BY <1>3, TablesKept DEF TablesInv, TypeOK, StoreTypeOK, vars, tables, evidence
  <2>2. \A q \in Proc : Recalls(q)'
    BY <1>3, <2>1, OthersRecall DEF TablesInv, vars
  <2>3. QED
    BY <2>1, <2>2 DEF TablesInv
<1>4. QED
  BY <1>1, <1>2, <1>3 DEF Next

\* The empty tables agree, and an idle handler recalls nothing.
LEMMA TablesInitially ==
  ASSUME Init
  PROVE  TablesInv
<1>1. StoreTypeOK
  BY ExecutionAssumption DEF Init, StoreInit, StoreTypeOK, ExecutionState, Terminal, Manifest, NoManifest
<1>2. call \in [Proc -> Call] /\ \A p \in Proc : call[p] = Idle
  BY IdleCall DEF Init
<1>3. \A p \in Proc : Recalls(p)
  BY <1>2 DEF Recalls, Idle
<1>4. TablesAgree
  BY DEF Init, StoreInit, TablesAgree
<1>5. QED
  BY <1>1, <1>2, <1>3, <1>4 DEF TablesInv, TypeOK

(* In every reachable state everything is well typed, the evidence tables  *)
(* agree with each other, and every handler remembers rows that exist;     *)
(* also where processes share a controller id.                             *)
THEOREM TablesInvariant == Spec => []TablesInv
<1>1. Init => TablesInv
  BY TablesInitially
<1>2. TablesInv /\ [Next]_vars => TablesInv'
  BY TablesStep
<1>3. QED
  BY <1>1, <1>2, PTL DEF Spec

\* Every variable keeps its type, whatever is done to the execution.
THEOREM TypeCorrect == Spec => []TypeOK
<1>1. TablesInv => TypeOK
  BY DEF TablesInv
<1>2. QED
  BY <1>1, TablesInvariant, PTL

\* The steps into a state that claims evidence for the row's commit.
Claims(p) == \/ MakerSucceeded(p) \/ Verified(p) \/ Resolved(p) \/ ApprovalRecorded(p)
             \/ Evaluated(p) \/ Decide(p)

(* What a step of p does to the row: nothing, one of the transactions on   *)
(* it, or the acceptance.                                                  *)
RowEffect(p) ==
  \/ UNCHANGED row
  \/ \E to \in ExecutionState \ {"ACCEPTED"} : \E resume :
       /\ Transition(Id[p], to, resume)
       /\ to \in {"VERIFYING", "EVALUATING", "WAITING_APPROVAL"} => Claims(p)
  \/ ScheduleRework(Id[p])
  \/ AcquireLease(Id[p])
  \/ RegisterCommit(p)
  \/ AcceptExecution(p)

\* Every state but ACCEPTED is reached by an ordinary transition.
LEMMA OtherStates ==
  {"READY", "MAKER_RUNNING", "VERIFYING", "EVALUATING", "REWORK_READY", "WAITING_APPROVAL", "BLOCKED",
   "CANCELLED", "DESIGN_ESCALATION"} \subseteq ExecutionState \ {"ACCEPTED"}
BY DEF ExecutionState, Terminal

\* Every step of a process has one of these effects on the row.
LEMMA RowEffects ==
  ASSUME NEW p \in Proc, Controls(p) \/ Recovers(p) \/ Abandon(p)
  PROVE  RowEffect(p)
<1> USE OtherStates DEF RowEffect
<1>1. ASSUME NEW v, NEW k, NotPassed(p, v, k) PROVE RowEffect(p)
  BY <1>1 DEF NotPassed, Move
<1>2. CASE \/ Acquire(p) \/ RegisterMaker(p) \/ MakerFails(p) \/ CommitCandidate(p) \/ FinishMaker(p)
           \/ RegisterCommit(p) \/ RecordVerification(p) \/ RegisterVerification(p) \/ BeginEvaluator(p)
           \/ RegisterEvaluator(p) \/ SealEvaluator(p) \/ FailEvaluator(p) \/ CompleteEvaluator(p)
           \/ FinishEvaluator(p) \/ RegisterEvaluation(p) \/ RequestApproval(p) \/ Resolve(p)
           \/ ResolveApproval(p) \/ AcceptExecution(p) \/ Advance(p) \/ Abandon(p)
  BY <1>2 DEF Acquire, RegisterMaker, MakerFails, CommitCandidate, FinishMaker,
     RecordVerification, RegisterVerification, BeginEvaluator, RegisterEvaluator, SealEvaluator,
     FailEvaluator, CompleteEvaluator, FinishEvaluator, RegisterEvaluation, RequestApproval, Resolve,
     ResolveApproval, Advance, Abandon
<1>3. CASE Schedule(p)
  BY <1>3 DEF Schedule
<1>4. CASE Block(p) \/ Cancel(p)
  BY <1>4 DEF Block, Cancel, Move
<1>5. CASE MakerSucceeded(p) \/ Verified(p) \/ Resolved(p) \/ ApprovalRecorded(p)
  <2>1. Claims(p)
    BY <1>5 DEF Claims
  <2>2. \E to \in ExecutionState \ {"ACCEPTED"} : \E resume : Transition(Id[p], to, resume)
    BY <1>5 DEF MakerSucceeded, Verified, Resolved, ApprovalRecorded, Move
  <2>3. QED
    BY <2>1, <2>2
<1>6. CASE Evaluated(p)
  <2>1. Claims(p)
    BY <1>6 DEF Claims
  <2>2. QED
    BY <1>1, <1>6, <2>1 DEF Evaluated, Move
<1>7. CASE Accept(p)
  BY <1>7 DEF Accept, ReadEvidence
<1>8. CASE Decide(p)
  <2>1. Claims(p)
    BY <1>8 DEF Claims
  <2>2. QED
    BY <1>1, <1>8, <2>1 DEF Decide, Move
<1>9. CASE Resume(p)
  BY <1>9 DEF Resume
<1>10. CASE \/ ResumeMaker(p) \/ LoseMaker(p) \/ ResumeVerification(p) \/ ResumeEvaluation(p)
            \/ LoseEvaluator(p) \/ RecoverEvaluator(p) \/ Ensure(p) \/ ResumeApproval(p)
  BY <1>10 DEF ResumeMaker, LoseMaker, ResumeVerification, ResumeEvaluation, LoseEvaluator,
     RecoverEvaluator, Ensure, ResumeApproval
<1>11. QED
  BY <1>2, <1>3, <1>4, <1>5, <1>6, <1>7, <1>8, <1>9, <1>10 DEF Controls, Recovers

\* What each transaction leaves in the fields of the row.
LEMMA RowFields ==
  ASSUME row \in Row, NEW id \in Controller
  PROVE  /\ \A to, resume : Transition(id, to, resume) =>
              /\ row.owner = id /\ Legal(row.state, to)
              /\ row'.state = to /\ row'.resume = resume /\ row'.commit = row.commit
              /\ row'.owner = row.owner /\ row'.version = row.version + 1
         /\ ScheduleRework(id) =>
              /\ row.owner = id /\ row.state = "REWORK_READY"
              /\ row'.state = "MAKER_RUNNING" /\ row'.commit = row.commit /\ row'.owner = row.owner
         /\ AcquireLease(id) =>
              /\ row.state \notin Terminal
              /\ row'.state = row.state /\ row'.commit = row.commit /\ row'.owner = id
              /\ row'.resume = row.resume
         /\ \A c : RegisterCommitTxn(id, c) =>
              /\ row.owner = id
              /\ row'.state = row.state /\ row'.commit = c /\ row'.owner = row.owner
         /\ \A gen, version, m : AcceptTxn(id, gen, version, m) =>
              /\ row.owner = id
              /\ row'.state = "ACCEPTED" /\ row'.commit = row.commit /\ row'.owner = row.owner
<1>1. ASSUME NEW to, NEW resume, Transition(id, to, resume)
      PROVE  /\ row.owner = id /\ Legal(row.state, to)
             /\ row'.state = to /\ row'.resume = resume /\ row'.commit = row.commit
             /\ row'.owner = row.owner /\ row'.version = row.version + 1
  BY <1>1 DEF Transition, Fenced, Row
<1>2. ASSUME ScheduleRework(id)
      PROVE  /\ row.owner = id /\ row.state = "REWORK_READY"
             /\ row'.state = "MAKER_RUNNING" /\ row'.commit = row.commit /\ row'.owner = row.owner
  BY <1>2 DEF ScheduleRework, Fenced, Row
<1>3. ASSUME AcquireLease(id)
      PROVE  /\ row.state \notin Terminal
             /\ row'.state = row.state /\ row'.commit = row.commit /\ row'.owner = id
             /\ row'.resume = row.resume
  BY <1>3 DEF AcquireLease, Row
<1>4. ASSUME NEW c, RegisterCommitTxn(id, c)
      PROVE  row.owner = id /\ row'.state = row.state /\ row'.commit = c /\ row'.owner = row.owner
  BY <1>4 DEF RegisterCommitTxn, Fenced, Row
<1>5. ASSUME NEW gen, NEW version, NEW m, AcceptTxn(id, gen, version, m)
      PROVE  /\ row.owner = id
             /\ row'.state = "ACCEPTED" /\ row'.commit = row.commit /\ row'.owner = row.owner
  BY <1>5 DEF AcceptTxn, Fenced, Row
<1>6. QED
  BY <1>1, <1>2, <1>3, <1>4, <1>5

\* The accepting transaction leaves a manifest that covers the row's commit.
LEMMA AcceptanceCovers ==
  ASSUME TablesInv, NEW p \in Proc, AcceptExecution(p)
  PROVE  Covered' /\ row.state = "EVALUATING"
<1> DEFINE m == [commit |-> call[p].commit, maker |-> call[p].attempt,
                 verification |-> call[p].verification, evaluation |-> call[p].evaluation,
                 approval |-> call[p].approval]
<1>1. AcceptTxn(Id[p], call[p].gen, call[p].version, m) /\ UNCHANGED evidence
  BY DEF AcceptExecution
<1> HIDE DEF m
<1>2. row'.commit = row.commit
  BY <1>1, Remembered, RowFields
<1>3. /\ row.state = "EVALUATING" /\ manifest' = m /\ m.commit = row.commit
      /\ maker[m.maker].status = "SUCCEEDED" /\ maker[m.maker].commit = row.commit
      /\ verification[m.verification] = [commit |-> row.commit, verdict |-> "PASS"]
      /\ evaluation[m.evaluation].commit = row.commit /\ evaluation[m.evaluation].verdict = "PASS"
      /\ evaluator[evaluation[m.evaluation].attempt].commit = row.commit
  BY <1>1, Zenon DEF AcceptTxn
<1>4. QED
  BY <1>1, <1>2, <1>3 DEF Covered, evidence

(* The step into ACCEPTED finds evidence that covers the commit, for any   *)
(* number of processes and also where they share one controller id, since  *)
(* accept_execution revalidates everything in its own transaction.         *)
THEOREM EvidenceWhenAccepted == Spec => AcceptsOnEvidence
<1>1. TablesInv /\ [Next]_vars => [row.state # "ACCEPTED" /\ row'.state = "ACCEPTED" => Covered']_vars
  <2> SUFFICES ASSUME TablesInv, [Next]_vars, row.state # "ACCEPTED", row'.state = "ACCEPTED"
               PROVE  Covered'
    OBVIOUS
  <2>1. row \in Row
    BY DEF TablesInv, TypeOK, StoreTypeOK, Row
  <2>2. CASE LeaseExpires
    BY <2>1, <2>2 DEF LeaseExpires, Row
  <2>3. CASE UNCHANGED vars
    BY <2>3 DEF vars
  <2>4. ASSUME NEW p \in Proc, Controls(p) \/ Recovers(p) \/ Abandon(p) PROVE Covered'
    <3>1. RowEffect(p) /\ Id[p] \in Controller
      BY <2>4, RowEffects, Remembered
    <3>2. AcceptExecution(p)
      BY <2>1, <3>1, RowFields DEF RowEffect, RegisterCommit
    <3>3. QED
      BY <3>2, AcceptanceCovers
  <2>5. QED
    BY <2>2, <2>3, <2>4 DEF Next
<1>2. QED
  BY <1>1, TablesInvariant, PTL DEF Spec, AcceptsOnEvidence

-----------------------------------------------------------------------------
(* Acceptance on evidence.                                                *)

(* The fence separates processes only if each has a controller id of its   *)
(* own: what the theorems below need, and what the run execution_shared_id *)
(* shows to be needed.                                                     *)
OwnId == \A p, q \in Proc : Id[p] = Id[q] => p = q

\* Evidence for a commit.
Verifies(c) == \E i \in DOMAIN verification : verification[i] = [commit |-> c, verdict |-> "PASS"]
Evaluates(c) == \E i \in DOMAIN evaluation : evaluation[i].commit = c /\ evaluation[i].verdict = "PASS"

\* Where the row stands, in terms of the evidence itself.
RowHasEvidence ==
  /\ row.commit # 0 => Made(row.commit)
  /\ row.state \in {"VERIFYING", "EVALUATING", "WAITING_APPROVAL"} => row.commit # 0
  /\ row.state \in {"EVALUATING", "WAITING_APPROVAL"} => Verifies(row.commit)
  /\ row.state = "WAITING_APPROVAL" => Evaluates(row.commit)

(* What handler p remembers of the row is still true.  Most of it holds    *)
(* only while p owns the row: a handler that lost the lease may remember   *)
(* anything, but it cannot get the lease back without starting anew.       *)
Trusts(p) ==
  LET at == call[p].at
      c == call[p].commit
      own == row.owner = Id[p]
  IN
  /\ at \in {"scheduled", "making", "candidate", "register", "resume_maker"} /\ own
       => row.state = "MAKER_RUNNING"
  /\ at = "made" => row.commit # 0
  /\ at = "resume_maker" /\ c # 0 => row.commit # 0
  /\ at \in {"record", "verified", "resume_verification"} => row.commit # 0
  /\ at \in {"record", "resume_verification", "resume_evaluation", "finish_evaluator",
             "register_evaluation", "evaluated", "recover_evaluator", "recover_evaluation",
             "decide"} /\ own => c = row.commit
  /\ at = "verified" /\ call[p].verdict = "PASS" /\ own => Verifies(row.commit)
  /\ (\/ at \in {"resume_approval", "approved"}
      \/ at = "resolve" /\ call[p].flag
      \/ at = "resolved" /\ call[p].verdict = "PASS") /\ own
       => row.state \in {"WAITING_APPROVAL", "ACCEPTED"}
  /\ row.state = "ACCEPTED" /\ own => at \in {"idle", "resolve", "resolved"}

\* The evidence an accepted execution names is there and covers its commit.
StaysCovered ==
  row.state = "ACCEPTED" =>
    /\ manifest.maker \in DOMAIN maker /\ manifest.verification \in DOMAIN verification
    /\ manifest.evaluation \in DOMAIN evaluation
    /\ Covered

\* Approvals are consumed by the acceptance, and only the one it names.
Consumption ==
  /\ \A i \in DOMAIN approval : approval[i].consumed => row.state = "ACCEPTED" /\ i = manifest.approval
  /\ ApprovalRequired /\ row.state = "ACCEPTED" =>
       /\ manifest.approval \in DOMAIN approval
       /\ LET a == approval[manifest.approval] IN
            /\ a.consumed /\ a.status = "APPROVED"
            /\ a.commit = row.commit /\ a.evaluation = manifest.evaluation

ExecutionInv ==
  /\ TablesInv /\ RowHasEvidence /\ StaysCovered /\ Consumption
  /\ \A p \in Proc : Trusts(p)

-----------------------------------------------------------------------------
(* The other handlers: only the owner changes what they trust. *)

\* What the invariant says of process p, and that the tables only grow.
LEMMA Trusted ==
  ASSUME ExecutionInv, NEW p \in Proc
  PROVE  /\ TablesInv /\ Trusts(p) /\ RowHasEvidence
         /\ StoreTypeOK /\ TablesAgree /\ Recalls(p) /\ Id[p] \in Controller
         /\ call[p] \in Call /\ row \in Row
BY Remembered DEF ExecutionInv

\* A commit, once the row names one, never vanishes from it.
LEMMA CommitStays ==
  ASSUME ExecutionInv, NEW p \in Proc, RowEffect(p)
  PROVE  row.commit # 0 => row'.commit # 0
<1>1. CASE RegisterCommit(p)
  <2>1. Made(call[p].commit)
    BY <1>1, Trusted DEF RegisterCommit, Recalls, At
  <2>2. call[p].commit # 0
    BY <2>1, Trusted DEF Made, TablesAgree
  <2>3. QED
    BY <1>1, <2>2, Trusted, RowFields DEF RegisterCommit
<1>2. CASE AcceptExecution(p)
  BY <1>2, Trusted, RowFields DEF AcceptExecution
<1>3. QED
  BY <1>1, <1>2, Trusted, RowFields DEF RowEffect

\* Only its owner changes the state or the commit of the row; taking the lease changes neither.
LEMMA OwnersRow ==
  ASSUME OwnId, ExecutionInv, NEW p \in Proc, RowEffect(p), NEW q \in Proc, q # p
  PROVE  row'.owner = Id[q] => /\ row.owner = Id[q]
                               /\ row'.state = row.state /\ row'.commit = row.commit
<1>1. Id[p] # Id[q]
  BY DEF OwnId
<1>2. CASE RegisterCommit(p) \/ AcceptExecution(p)
  BY <1>1, <1>2, Trusted, RowFields DEF RegisterCommit, AcceptExecution
<1>3. QED
  BY <1>1, <1>2, Trusted, RowFields DEF RowEffect

\* What another handler trusts stays true.
LEMMA OthersTrust ==
  ASSUME OwnId, ExecutionInv, NEW p \in Proc, RowEffect(p), Grows,
         NEW q \in Proc, q # p, call'[q] = call[q]
  PROVE  Trusts(q)'
<1>1. row'.owner = Id[q] => /\ row.owner = Id[q]
                            /\ row'.state = row.state /\ row'.commit = row.commit
  BY OwnersRow
<1>2. row.commit # 0 => row'.commit # 0
  BY CommitStays
<1>3. Trusts(q)
  BY Trusted
<1>4. \A c : Verifies(c) => Verifies(c)'
  BY DEF Verifies, Grows
<1>5. QED
  BY <1>1, <1>2, <1>3, <1>4 DEF Trusts

-----------------------------------------------------------------------------
(* The handler that runs. *)

\* Stages at which a handler trusts nothing of the row.
FreeStage == {"idle", "block", "start_evaluator", "evaluating", "sealed", "request", "accept", "accepting",
              "lose_maker", "lose_evaluator", "ensure"}

\* An accepted execution stays as it is: nobody but the acceptance leads there.
LEMMA StaysOpen ==
  ASSUME ExecutionInv, NEW p \in Proc, RowEffect(p), ~AcceptExecution(p),
         row.state # "ACCEPTED" \/ row.owner # Id[p]
  PROVE  row'.state = "ACCEPTED" => row'.owner # Id[p]
<1>1. CASE RegisterCommit(p)
  BY <1>1, Trusted, RowFields DEF RegisterCommit
<1>2. QED
  BY <1>1, Trusted, RowFields DEF RowEffect, Terminal

\* What a handler remembers after it has continued.
LEMMA NextCall ==
  ASSUME TablesInv, NEW p \in Proc, NEW next, Continue(p, next)
  PROVE  call'[p] = next
BY DEF TablesInv, TypeOK, Continue

\* A handler that returned trusts nothing.
LEMMA Returned ==
  ASSUME TablesInv, NEW p \in Proc, Return(p) \/ (UNCHANGED call /\ At(p, "idle"))
  PROVE  call'[p].at = "idle" /\ Trusts(p)'
<1>1. call'[p].at = "idle"
  BY NextCall DEF Return, Idle, At
<1>2. QED
  BY <1>1 DEF Trusts

(* A step to a stage at which the handler trusts nothing, by a handler     *)
(* that is busy or sees that the execution is not accepted.                *)
LEMMA FreeStep ==
  ASSUME ExecutionInv, NEW p \in Proc, RowEffect(p), call'[p].at \in FreeStage,
         call[p].at \notin {"idle", "resolve", "resolved"} \/ row.state # "ACCEPTED"
  PROVE  Trusts(p)'
<1>1. CASE AcceptExecution(p)
  BY <1>1, Returned, Trusted DEF AcceptExecution
<1>2. CASE ~AcceptExecution(p)
  <2>1. row'.state = "ACCEPTED" => row'.owner # Id[p]
    BY <1>2, Trusted, StaysOpen DEF Trusts
  <2>2. QED
    BY <2>1 DEF Trusts, FreeStage
<1>3. QED
  BY <1>1, <1>2

\* A busy handler that blocks trusts nothing.
LEMMA BlockingStep ==
  ASSUME ExecutionInv, NEW p \in Proc, RowEffect(p), NEW resume, Continue(p, Blocking(resume)),
         call[p].at \notin {"idle", "resolve", "resolved"}
  PROVE  Trusts(p)'
<1>1. call'[p] = Blocking(resume)
  BY NextCall, Trusted
<1>2. call'[p].at \in FreeStage
  BY <1>1 DEF Blocking, Idle, FreeStage
<1>3. QED
  BY <1>2, FreeStep

\* The handlers that return, or go on to such a stage.
LEMMA FreeSteps ==
  ASSUME ExecutionInv, NEW p \in Proc, RowEffect(p),
         \/ Acquire(p) \/ MakerFails(p) \/ Block(p) \/ MakerSucceeded(p) \/ Verified(p)
         \/ BeginEvaluator(p) \/ RegisterEvaluator(p) \/ SealEvaluator(p) \/ FailEvaluator(p)
         \/ Evaluated(p) \/ RequestApproval(p) \/ Resolved(p) \/ Accept(p) \/ AcceptExecution(p)
         \/ ApprovalRecorded(p) \/ Cancel(p) \/ Abandon(p)
         \/ LoseMaker(p) \/ LoseEvaluator(p) \/ Decide(p) \/ Ensure(p)
  PROVE  Trusts(p)'
<1> USE Trusted
<1>1. CASE \/ Acquire(p) \/ Block(p) \/ MakerSucceeded(p) \/ Verified(p) \/ RequestApproval(p)
           \/ Resolved(p) \/ AcceptExecution(p) \/ Cancel(p) \/ Abandon(p)
  BY <1>1, Returned DEF Acquire, Block, MakerSucceeded, Verified, RequestApproval, Resolved,
     AcceptExecution, Cancel, Abandon
<1>2. CASE MakerFails(p) \/ FailEvaluator(p) \/ LoseMaker(p) \/ LoseEvaluator(p)
  BY <1>2, BlockingStep DEF MakerFails, FailEvaluator, LoseMaker, LoseEvaluator, At
<1>3. CASE BeginEvaluator(p) \/ RegisterEvaluator(p) \/ Accept(p) \/ Ensure(p)
  <2>1. row.state # "ACCEPTED" \/ call[p].at \in {"start_evaluator", "ensure"}
    BY <1>3 DEF BeginEvaluator, RegisterEvaluator, Accept, ReadEvidence, Ensure, At
  <2>2. CASE BeginEvaluator(p)
    BY <2>1, <2>2, NextCall, FreeStep DEF BeginEvaluator, Idle, FreeStage
  <2>3. CASE RegisterEvaluator(p)
    BY <2>1, <2>3, NextCall, FreeStep DEF RegisterEvaluator, Idle, FreeStage
  <2>4. CASE Accept(p)
    <3>1. PICK a : ReadEvidence(p, a)
      BY <2>4 DEF Accept
    <3>2. call'[p].at = "accepting"
      <4> DEFINE next == [Idle EXCEPT !.at = "accepting", !.version = row.version, !.gen = row.gen,
                            !.commit = row.commit, !.attempt = MakerOf(row.commit),
                            !.verification = VerificationPass(row.commit),
                            !.evaluation = EvaluationPass(row.commit), !.approval = a]
      <4>1. call'[p] = next
        BY <3>1, NextCall DEF ReadEvidence
      <4>2. next.at = "accepting"
        BY DEF Idle
      <4>3. QED
        BY <4>1, <4>2
    <3>3. QED
      BY <2>1, <3>2, FreeStep DEF FreeStage
  <2>5. CASE Ensure(p)
    <3>1. call'[p].at = "request"
      BY <2>5, NextCall DEF Ensure, Idle
    <3>2. QED
      BY <2>1, <3>1, FreeStep DEF FreeStage
  <2>6. QED
    BY <1>3, <2>2, <2>3, <2>4, <2>5
<1>4. CASE SealEvaluator(p) \/ ApprovalRecorded(p)
  <2>1. call[p].at \in {"evaluating", "approved"} /\ (To(p, "sealed") \/ To(p, "accept"))
    BY <1>4 DEF SealEvaluator, ApprovalRecorded, At
  <2>2. call'[p].at \in {"sealed", "accept"}
    BY <2>1, NextCall DEF To, Call
  <2>3. QED
    BY <2>1, <2>2, FreeStep DEF FreeStage
<1>5. CASE Evaluated(p)
  <2>1. /\ call[p].at = "evaluated"
        /\ \/ Return(p)
           \/ \E c, v, g, e : Continue(p, [Idle EXCEPT !.at = "request", !.commit = c, !.version = v,
                                             !.gen = g, !.evaluation = e])
    BY <1>5, Zenon DEF Evaluated, NotPassed, At
  <2>2. ASSUME NEW c, NEW v, NEW g, NEW e,
               Continue(p, [Idle EXCEPT !.at = "request", !.commit = c, !.version = v, !.gen = g,
                              !.evaluation = e])
        PROVE call'[p].at = "request"
    BY <2>2, NextCall DEF Idle
  <2>3. QED
    BY <2>1, <2>2, Returned, FreeStep DEF FreeStage
<1>6. CASE Decide(p)
  <2>1. /\ call[p].at = "decide"
        /\ Return(p) \/ \E next : Continue(p, next) /\ next.at \in {"accept", "ensure"}
    <3>1. \A v, g : WithFence(call[p], "ensure", v, g).at = "ensure"
      BY DEF Call, WithFence
    <3>2. \A a : [Idle EXCEPT !.at = "accept", !.approval = a].at = "accept"
      BY DEF Idle
    <3>3. \/ Return(p) \/ \E a : Continue(p, [Idle EXCEPT !.at = "accept", !.approval = a])
          \/ \E v, g : Continue(p, WithFence(call[p], "ensure", v, g))
      BY <1>6, Zenon DEF Decide, NotPassed, WithFence
    <3>4. call[p].at = "decide"
      BY <1>6 DEF Decide, At
    <3>5. QED
      BY <3>1, <3>2, <3>3, <3>4
  <2>2. QED
    BY <2>1, Returned, NextCall, FreeStep DEF FreeStage
<1>7. QED
  BY <1>1, <1>2, <1>3, <1>4, <1>5, <1>6

\* The handlers of the Maker: while they own the row it stays MAKER_RUNNING.
LEMMA MakerSteps ==
  ASSUME ExecutionInv, NEW p \in Proc, RowEffect(p),
         \/ Schedule(p) \/ RegisterMaker(p) \/ CommitCandidate(p) \/ FinishMaker(p)
         \/ RegisterCommit(p) \/ ResumeMaker(p)
  PROVE  Trusts(p)'
<1> USE Trusted
<1>1. CASE Schedule(p)
  <2>1. row'.state = "MAKER_RUNNING"
    BY <1>1, RowFields DEF Schedule
  <2>2. call'[p].at = "scheduled"
    BY <1>1, NextCall DEF Schedule, Idle
  <2>3. QED
    BY <2>1, <2>2 DEF Trusts
<1>2. CASE RegisterMaker(p) \/ CommitCandidate(p) \/ FinishMaker(p)
  <2>1. call[p].at \in {"scheduled", "making", "candidate"} /\ UNCHANGED row
    BY <1>2 DEF RegisterMaker, CommitCandidate, FinishMaker, At
  <2>2. call'[p].at \in {"making", "candidate", "register"}
    <3>1. RegisterMaker(p) => call'[p].at = "making"
      BY NextCall DEF RegisterMaker, Idle
    <3>2. CommitCandidate(p) => call'[p].at = "candidate"
      BY NextCall DEF CommitCandidate, To, Call
    <3>3. FinishMaker(p) => call'[p].at = "register"
      BY NextCall DEF FinishMaker, Idle
    <3>4. QED
      BY <1>2, <3>1, <3>2, <3>3
  <2>3. QED
    BY <2>1, <2>2 DEF Trusts
<1>3. CASE RegisterCommit(p)
  <2>1. call[p].at = "register" /\ RegisterCommitTxn(Id[p], call[p].commit) /\ call'[p].at = "made"
    BY <1>3, NextCall DEF RegisterCommit, At, Idle
  <2>2. call[p].commit # 0
    BY <2>1 DEF Recalls, Made, TablesAgree
  <2>3. row'.commit = call[p].commit /\ row'.state = "MAKER_RUNNING"
    BY <2>1, RowFields DEF Trusts
  <2>4. QED
    BY <2>1, <2>2, <2>3 DEF Trusts
<1>4. CASE ResumeMaker(p)
  <2> DEFINE c == call[p].commit
  <2>1. /\ call[p].at = "resume_maker" /\ UNCHANGED row
        /\ \/ \E resume : Continue(p, Blocking(resume))
           \/ \E k : Continue(p, [Idle EXCEPT !.at = "register", !.commit = k])
           \/ c # 0 /\ Continue(p, [Idle EXCEPT !.at = "made"])
           \/ Return(p)
           \/ \E n, resume : Continue(p, [Idle EXCEPT !.at = "lose_maker", !.attempt = n, !.resume = resume])
    BY <1>4, Zenon DEF ResumeMaker, At
  <2>2. ASSUME NEW k, Continue(p, [Idle EXCEPT !.at = "register", !.commit = k]) PROVE Trusts(p)'
    <3>1. call'[p].at = "register"
      BY <2>2, NextCall DEF Idle
    <3>2. QED
      BY <2>1, <3>1 DEF Trusts
  <2>3. CASE c # 0 /\ Continue(p, [Idle EXCEPT !.at = "made"])
    <3>1. call'[p].at = "made"
      BY <2>3, NextCall DEF Idle
    <3>2. QED
      BY <2>1, <2>3, <3>1 DEF Trusts
  <2>4. ASSUME NEW n, NEW resume,
               Continue(p, [Idle EXCEPT !.at = "lose_maker", !.attempt = n, !.resume = resume])
        PROVE  Trusts(p)'
    <3>1. call'[p].at = "lose_maker"
      BY <2>4, NextCall DEF Idle
    <3>2. QED
      BY <2>1, <3>1, FreeStep DEF FreeStage
  <2>5. QED
    BY <2>1, <2>2, <2>3, <2>4, BlockingStep, Returned
<1>5. QED
  BY <1>1, <1>2, <1>3, <1>4

\* The handlers of the verification.
LEMMA VerificationSteps ==
  ASSUME ExecutionInv, NEW p \in Proc, RowEffect(p),
         RecordVerification(p) \/ RegisterVerification(p) \/ ResumeVerification(p)
  PROVE  Trusts(p)'
<1> USE Trusted
<1>1. CASE RecordVerification(p)
  <2>1. row.state = "VERIFYING" /\ UNCHANGED row
    BY <1>1 DEF RecordVerification
  <2>2. call'[p].at = "record" /\ call'[p].commit = row.commit
    <3>1. PICK v : Continue(p, [Idle EXCEPT !.at = "record", !.commit = row.commit, !.verdict = v])
      BY <1>1 DEF RecordVerification
    <3>2. QED
      BY <3>1, NextCall DEF Idle
  <2>3. QED
    BY <2>1, <2>2 DEF Trusts, RowHasEvidence
<1>2. CASE RegisterVerification(p)
  <2> DEFINE c == call[p].commit
             v == call[p].verdict
  <2>1. /\ call[p].at = "record" /\ UNCHANGED <<row, maker, evaluator, evaluation, approval>>
        /\ verification' = Append(verification, [commit |-> c, verdict |-> v])
        /\ Continue(p, [Idle EXCEPT !.at = "verified", !.verdict = v])
    BY <1>2 DEF RegisterVerification, At
  <2>2. \E i \in DOMAIN verification' : verification'[i] = [commit |-> c, verdict |-> v]
    BY <2>1, VerificationInserted DEF Recalls, Call
  <2>3. call'[p].at = "verified" /\ call'[p].verdict = v
    BY <2>1, NextCall DEF Idle
  <2>4. v = "PASS" /\ row.owner = Id[p] => Verifies(row.commit)'
    BY <2>1, <2>2 DEF Trusts, Verifies
  <2>5. QED
    BY <2>1, <2>3, <2>4 DEF Trusts
<1>3. CASE ResumeVerification(p)
  <2> DEFINE v == VerificationOf(call[p].commit)
  <2>1. /\ call[p].at = "resume_verification" /\ UNCHANGED <<row, verification>>
        /\ \/ Return(p)
           \/ v # 0 /\ Continue(p, [Idle EXCEPT !.at = "verified", !.verdict = verification[v].verdict])
    BY <1>3 DEF ResumeVerification, At, tables, evidence
  <2>2. CASE v # 0 /\ Continue(p, [Idle EXCEPT !.at = "verified", !.verdict = verification[v].verdict])
    <3>1. call'[p].at = "verified" /\ call'[p].verdict = verification[v].verdict
      BY <2>2, NextCall DEF Idle
    <3>2. /\ v \in DOMAIN verification /\ verification[v].commit = call[p].commit
          /\ verification[v] \in [commit: Nat, verdict: {"PASS", "FAIL"}]
      BY <2>2, BoundResultFinds, Typed
    <3>3. verification[v].verdict = "PASS" /\ row.owner = Id[p] => Verifies(row.commit)'
      BY <2>1, <3>2 DEF Trusts, Verifies
    <3>4. QED
      BY <2>1, <3>1, <3>3 DEF Trusts
  <2>3. QED
    BY <2>1, <2>2, Returned
<1>4. QED
  BY <1>1, <1>2, <1>3

\* The handlers of the evaluator: while they own the row it keeps their commit.
LEMMA EvaluatorSteps ==
  ASSUME ExecutionInv, NEW p \in Proc, RowEffect(p),
         \/ CompleteEvaluator(p) \/ FinishEvaluator(p) \/ RegisterEvaluation(p)
         \/ RecoverEvaluator(p) \/ ResumeEvaluation(p)
  PROVE  Trusts(p)'
<1> USE Trusted
<1> DEFINE Working == {"finish_evaluator", "register_evaluation", "evaluated", "recover_evaluator",
                       "recover_evaluation", "decide"}
<1>1. ASSUME UNCHANGED row, call[p].at \in Working \cup {"resume_evaluation"},
             call'[p].at \in Working, call'[p].commit = call[p].commit
      PROVE  Trusts(p)'
  BY <1>1 DEF Trusts
<1>2. /\ \A s : [call[p] EXCEPT !.at = s].at = s /\ [call[p] EXCEPT !.at = s].commit = call[p].commit
      /\ \A s, k : /\ WithEvaluation(call[p], s, k).at = s /\ WithEvaluation(call[p], s, k).commit = call[p].commit
                   /\ WithAttempt(call[p], s, k).at = s /\ WithAttempt(call[p], s, k).commit = call[p].commit
  BY DEF Call, WithEvaluation, WithAttempt
<1>3. ASSUME UNCHANGED row, call[p].at \in Working \cup {"resume_evaluation"}, NEW s \in Working,
             \/ To(p, s)
             \/ \E k : Continue(p, WithEvaluation(call[p], s, k)) \/ Continue(p, WithAttempt(call[p], s, k))
      PROVE  Trusts(p)'
  <2> HIDE DEF Working
  <2>1. PICK next : Continue(p, next) /\ next.at = s /\ next.commit = call[p].commit
    <3>1. CASE To(p, s)
      <4> DEFINE next == [call[p] EXCEPT !.at = s]
      <4>1. next.at = s /\ next.commit = call[p].commit
        BY <1>2
      <4>2. Continue(p, next)
        BY <3>1 DEF To
      <4>3. QED
        BY <4>1, <4>2, Zenon
    <3>2. CASE \E k : Continue(p, WithEvaluation(call[p], s, k)) \/ Continue(p, WithAttempt(call[p], s, k))
      BY <1>2, <3>2
    <3>3. QED
      BY <1>3, <3>1, <3>2
  <2>2. call'[p].at = s /\ call'[p].commit = call[p].commit
    BY <2>1, NextCall
  <2>3. QED
    BY <1>1, <1>3, <2>2
<1>4. CASE CompleteEvaluator(p)
  <2>1. row.state = "EVALUATING" /\ UNCHANGED row
    BY <1>4 DEF CompleteEvaluator
  <2>2. \E n, g, r, f : Continue(p, [Idle EXCEPT !.at = "finish_evaluator", !.attempt = n,
                               !.commit = row.commit, !.gen = g, !.reworks = r, !.flag = f])
    BY <1>4, Zenon DEF CompleteEvaluator
  <2>3. PICK n, g, r, f : Continue(p, [Idle EXCEPT !.at = "finish_evaluator", !.attempt = n,
                               !.commit = row.commit, !.gen = g, !.reworks = r, !.flag = f])
    BY <2>2
  <2>4. call'[p].at = "finish_evaluator" /\ call'[p].commit = row.commit
    <3> DEFINE next == [Idle EXCEPT !.at = "finish_evaluator", !.attempt = n,
                          !.commit = row.commit, !.gen = g, !.reworks = r, !.flag = f]
    <3>1. next.at = "finish_evaluator" /\ next.commit = row.commit
      BY DEF Idle
    <3> HIDE DEF next
    <3>2. call'[p] = next
      BY <2>3, NextCall DEF next
    <3>3. QED
      BY <3>1, <3>2
  <2>5. QED
    BY <2>1, <2>4 DEF Trusts
<1>5. CASE FinishEvaluator(p)
  <2>1. call[p].at = "finish_evaluator" /\ UNCHANGED row /\ To(p, "register_evaluation")
    BY <1>5 DEF FinishEvaluator, At
  <2>2. QED
    BY <1>3, <2>1
<1>6. CASE RegisterEvaluation(p)
  <2>1. /\ call[p].at \in {"register_evaluation", "recover_evaluation"} /\ UNCHANGED row
        /\ \/ To(p, "evaluated")
           \/ \E k : Continue(p, WithEvaluation(call[p], "decide", k))
    BY <1>6, Zenon DEF RegisterEvaluation, WithEvaluation
  <2>2. QED
    BY <1>3, <2>1
<1>7. CASE RecoverEvaluator(p)
  <2>1. /\ call[p].at = "recover_evaluator" /\ UNCHANGED row
        /\ To(p, "recover_evaluation") \/ Continue(p, Blocking("EVALUATING"))
    BY <1>7, Zenon DEF RecoverEvaluator, At
  <2>2. QED
    BY <1>3, <2>1, BlockingStep
<1>8. CASE ResumeEvaluation(p)
  <2>1. /\ call[p].at = "resume_evaluation" /\ UNCHANGED row
        /\ \/ Return(p)
           \/ Continue(p, Blocking("EVALUATING"))
           \/ \E k : Continue(p, WithEvaluation(call[p], "decide", k))
           \/ \E k : Continue(p, WithAttempt(call[p], "lose_evaluator", k))
           \/ \E k : Continue(p, WithAttempt(call[p], "recover_evaluator", k))
           \/ \E k : Continue(p, WithAttempt(call[p], "recover_evaluation", k))
    BY <1>8, Zenon DEF ResumeEvaluation, WithEvaluation, WithAttempt, At
  <2>2. ASSUME NEW k, Continue(p, WithAttempt(call[p], "lose_evaluator", k)) PROVE Trusts(p)'
    <3>1. call'[p].at = "lose_evaluator"
      BY <1>2, <2>2, NextCall
    <3>2. QED
      BY <2>1, <3>1, FreeStep DEF FreeStage
  <2>3. QED
    BY <1>3, <2>1, <2>2, Returned, BlockingStep
<1>9. QED
  BY <1>4, <1>5, <1>6, <1>7, <1>8

\* The handlers of the approval: a decision that counts was asked for by a waiting execution.
LEMMA ApprovalSteps ==
  ASSUME ExecutionInv, NEW p \in Proc, RowEffect(p),
         Resolve(p) \/ ResolveApproval(p) \/ Advance(p) \/ ResumeApproval(p)
  PROVE  Trusts(p)'
<1> USE Trusted
<1>1. CASE Resolve(p)
  <2>1. UNCHANGED row /\ \E a, v : Continue(p, [Idle EXCEPT !.at = "resolve", !.approval = a, !.verdict = v,
                                                  !.flag = (row.state = "WAITING_APPROVAL")])
    BY <1>1, Zenon DEF Resolve
  <2>2. PICK a, v : Continue(p, [Idle EXCEPT !.at = "resolve", !.approval = a, !.verdict = v,
                                   !.flag = (row.state = "WAITING_APPROVAL")])
    BY <2>1
  <2>3. call'[p].at = "resolve" /\ (call'[p].flag => row.state = "WAITING_APPROVAL")
    <3> DEFINE flag == (row.state = "WAITING_APPROVAL")
               next == [Idle EXCEPT !.at = "resolve", !.approval = a, !.verdict = v, !.flag = flag]
    <3>1. call'[p] = next
      BY <2>2, NextCall
    <3> HIDE DEF flag
    <3>2. next.at = "resolve" /\ next.flag = flag
      BY DEF Idle
    <3>3. QED
      BY <3>1, <3>2 DEF flag
  <2>4. QED
    BY <2>1, <2>3 DEF Trusts
<1>2. CASE ResolveApproval(p)
  <2>1. /\ call[p].at = "resolve" /\ UNCHANGED row
        /\ \/ call[p].flag /\ Continue(p, [Idle EXCEPT !.at = "resolved", !.verdict = call[p].verdict])
           \/ Return(p)
    BY <1>2 DEF ResolveApproval, At
  <2>2. CASE call[p].flag /\ Continue(p, [Idle EXCEPT !.at = "resolved", !.verdict = call[p].verdict])
    <3>1. PICK v : Continue(p, [Idle EXCEPT !.at = "resolved", !.verdict = v])
      BY <2>2
    <3>2. call'[p].at = "resolved"
      BY <3>1, NextCall DEF Idle
    <3>3. QED
      BY <2>1, <2>2, <3>2 DEF Trusts
  <2>3. QED
    BY <2>1, <2>2, Returned
<1>3. CASE Advance(p)
  <2>1. /\ UNCHANGED row
        /\ \/ row.state = "WAITING_APPROVAL" /\ \E a : Continue(p, [Idle EXCEPT !.at = "approved", !.approval = a])
           \/ row.state = "EVALUATING" /\ \E a : Continue(p, [Idle EXCEPT !.at = "accept", !.approval = a])
    BY <1>3, Zenon DEF Advance
  <2>2. ASSUME NEW a, Continue(p, [Idle EXCEPT !.at = "approved", !.approval = a])
        PROVE  call'[p].at = "approved"
    BY <2>2, NextCall DEF Idle
  <2>3. ASSUME NEW a, Continue(p, [Idle EXCEPT !.at = "accept", !.approval = a])
        PROVE  call'[p].at = "accept"
    BY <2>3, NextCall DEF Idle
  <2>4. QED
    BY <2>1, <2>2, <2>3 DEF Trusts
<1>4. CASE ResumeApproval(p)
  <2> DEFINE e == EvaluationOf(call[p].commit)
  <2>1. /\ call[p].at = "resume_approval" /\ UNCHANGED row
        /\ \/ Continue(p, WithEvaluation(call[p], "ensure", e))
           \/ Return(p)
           \/ Continue(p, [Idle EXCEPT !.at = "approved", !.approval = 1])
           \/ Continue(p, [Idle EXCEPT !.at = "resolved", !.verdict = "FAIL"])
    BY <1>4, Zenon DEF ResumeApproval, WithEvaluation, At
  <2>2. CASE Continue(p, WithEvaluation(call[p], "ensure", e))
    <3>1. call'[p].at = "ensure"
      BY <2>2, NextCall DEF Call, WithEvaluation
    <3>2. QED
      BY <2>1, <3>1, FreeStep DEF FreeStage
  <2>3. CASE Continue(p, [Idle EXCEPT !.at = "approved", !.approval = 1])
    <3>1. call'[p].at = "approved"
      BY <2>3, NextCall DEF Idle
    <3>2. QED
      BY <2>1, <3>1 DEF Trusts
  <2>4. CASE Continue(p, [Idle EXCEPT !.at = "resolved", !.verdict = "FAIL"])
    <3>1. call'[p].at = "resolved" /\ call'[p].verdict = "FAIL"
      BY <2>4, NextCall DEF Idle
    <3>2. QED
      BY <2>1, <3>1 DEF Trusts
  <2>5. QED
    BY <2>1, <2>2, <2>3, <2>4, Returned
<1>5. QED
  BY <1>1, <1>2, <1>3, <1>4

\* resume_once trusts what it reads in the row once it has the lease.
LEMMA ResumeSteps ==
  ASSUME ExecutionInv, NEW p \in Proc, Resume(p)
  PROVE  Trusts(p)'
<1> USE Trusted
<1>1. /\ row.state \notin Terminal
      /\ row'.state = row.state /\ row'.commit = row.commit
  BY RowFields DEF Resume
<1>2. \/ Return(p)
      \/ /\ row.state = "MAKER_RUNNING"
         /\ \E f : Continue(p, Resuming("resume_maker", row', f))
      \/ /\ row.state = "VERIFYING"
         /\ \E f : Continue(p, Resuming("resume_verification", row', f))
      \/ /\ row.state = "EVALUATING"
         /\ \E f : Continue(p, Resuming("resume_evaluation", row', f))
      \/ /\ row.state = "WAITING_APPROVAL"
         /\ \E f : Continue(p, Resuming("resume_approval", row', f))
  BY Zenon DEF Resume
<1>3. ASSUME NEW s, NEW f, Continue(p, Resuming(s, row', f))
      PROVE  call'[p].at = s /\ call'[p].commit = row'.commit
  <2> DEFINE next == Resuming(s, row', f)
  <2>1. next.at = s /\ next.commit = row'.commit
    BY DEF Resuming, Idle
  <2> HIDE DEF next
  <2>2. call'[p] = next
    BY <1>3, NextCall DEF next
  <2>3. QED
    BY <2>1, <2>2
<1>4. QED
  BY <1>1, <1>2, <1>3, Returned DEF Trusts, RowHasEvidence, Terminal

\* Whatever step a process takes, what it trusts then is true.
LEMMA OwnTrust ==
  ASSUME ExecutionInv, NEW p \in Proc, Controls(p) \/ Recovers(p) \/ Abandon(p)
  PROVE  Trusts(p)'
BY RowEffects, FreeSteps, MakerSteps, VerificationSteps, EvaluatorSteps, ApprovalSteps, ResumeSteps
   DEF Controls, Recovers

-----------------------------------------------------------------------------
(* The row: its state and its commit have their evidence. *)

\* Evidence, once there, stays.
LEMMA EvidenceStays ==
  ASSUME Grows
  PROVE  \A c : (Made(c) => Made(c)') /\ (Verifies(c) => Verifies(c)') /\ (Evaluates(c) => Evaluates(c)')
<1>1. ASSUME NEW c, Made(c) PROVE Made(c)'
  BY <1>1 DEF Grows, Made
<1>2. ASSUME NEW c, Verifies(c) PROVE Verifies(c)'
  BY <1>2 DEF Grows, Verifies
<1>3. ASSUME NEW c, Evaluates(c) PROVE Evaluates(c)'
  BY <1>3 DEF Grows, Evaluates
<1>4. QED
  BY <1>1, <1>2, <1>3

(* Where the state may come from: nothing leaves ACCEPTED, and an          *)
(* execution waits for approval only after it was evaluated.               *)
LEMMA LegalMoves ==
  ASSUME row \in Row, NEW to, Legal(row.state, to)
  PROVE  /\ row.state # "ACCEPTED"
         /\ to = "WAITING_APPROVAL" => row.state = "EVALUATING"
<1>1. row.state \in ExecutionState /\ row.resume \in ResumeState \cup {"NONE"}
  BY DEF Row
<1>2. row.state # "ACCEPTED"
  BY <1>1 DEF Legal, Successors, ExecutionState, Terminal
<1>3. to = "WAITING_APPROVAL" => row.state = "EVALUATING"
  BY <1>1 DEF Legal, Successors, ExecutionState, Terminal, ResumeState
<1>4. QED
  BY <1>2, <1>3

\* A handler moves the row into a state that claims evidence only if there is that evidence.
LEMMA ClaimedEvidence ==
  ASSUME ExecutionInv, NEW p \in Proc, Claims(p),
         NEW to \in {"VERIFYING", "EVALUATING", "WAITING_APPROVAL"}, NEW resume,
         Transition(Id[p], to, resume)
  PROVE  /\ row.commit # 0
         /\ to \in {"EVALUATING", "WAITING_APPROVAL"} => Verifies(row.commit)
         /\ to = "WAITING_APPROVAL" => Evaluates(row.commit)
<1> USE Trusted
<1>0. /\ row.owner = Id[p] /\ row.state # "ACCEPTED" /\ row'.state = to
      /\ to = "WAITING_APPROVAL" => row.state = "EVALUATING"
  BY RowFields, LegalMoves
<1>1. ASSUME NEW t, NEW r, Move(p, t, r) PROVE t = to
  BY <1>0, <1>1, RowFields DEF Move
<1>2. ASSUME NEW v, NEW k, NotPassed(p, v, k) PROVE FALSE
  <2>1. \/ Move(p, "DESIGN_ESCALATION", "NONE") \/ Move(p, "REWORK_READY", "NONE")
        \/ Move(p, "BLOCKED", "EVALUATING")
    BY <1>2 DEF NotPassed
  <2>2. QED
    BY <1>1, <2>1
<1>3. CASE MakerSucceeded(p)
  <2>1. call[p].at = "made" /\ to = "VERIFYING"
    BY <1>1, <1>3 DEF MakerSucceeded, At
  <2>2. QED
    BY <2>1 DEF Trusts
<1>4. CASE Verified(p)
  <2>1. call[p].at = "verified" /\ to = "EVALUATING" /\ call[p].verdict = "PASS"
    BY <1>1, <1>4 DEF Verified, At
  <2>2. QED
    BY <1>0, <2>1 DEF Trusts
<1>5. CASE Resolved(p) \/ ApprovalRecorded(p)
  <2>1. to = "EVALUATING"
    BY <1>1, <1>5 DEF Resolved, ApprovalRecorded
  <2>2. call[p].at = "approved" \/ (call[p].at = "resolved" /\ call[p].verdict = "PASS")
    BY <1>1, <1>5, <2>1 DEF Resolved, ApprovalRecorded, At
  <2>3. row.state = "WAITING_APPROVAL"
    BY <1>0, <2>2 DEF Trusts
  <2>4. QED
    BY <2>1, <2>3 DEF RowHasEvidence
<1>6. CASE Evaluated(p)
  <2> DEFINE n == call[p].attempt
  <2>1. /\ call[p].at = "evaluated" /\ evaluator[n].verdict = "PASS"
        /\ \/ Return(p) /\ UNCHANGED <<row, tables>>
           \/ to = "WAITING_APPROVAL"
    BY <1>1, <1>2, <1>6 DEF Evaluated, At
  <2>2. row' # row
    <3>1. row'.version = row.version + 1 /\ row.version \in Nat
      BY RowFields DEF Row
    <3>2. QED
      BY <3>1
  <2>3. row.state = "EVALUATING" /\ to = "WAITING_APPROVAL"
    BY <1>0, <2>1, <2>2
  <2>4. evaluator[n].commit = row.commit
    BY <1>0, <2>1 DEF Recalls, Trusts
  <2>5. Evaluates(row.commit)
    BY <2>1, <2>4 DEF Recalls, Judged, Evaluates, TablesAgree
  <2>6. QED
    BY <2>3, <2>5 DEF RowHasEvidence
<1>7. CASE Decide(p)
  <2> DEFINE e == call[p].evaluation
  <2>1. /\ call[p].at = "decide" /\ evaluation[e].verdict = "PASS"
        /\ UNCHANGED row \/ to = "WAITING_APPROVAL"
    BY <1>1, <1>2, <1>7 DEF Decide, At
  <2>2. row' # row
    <3>1. row'.version = row.version + 1 /\ row.version \in Nat
      BY RowFields DEF Row
    <3>2. QED
      BY <3>1
  <2>3. row.state = "EVALUATING" /\ to = "WAITING_APPROVAL"
    BY <1>0, <2>1, <2>2
  <2>4. Evaluates(row.commit)
    BY <1>0, <2>1 DEF Recalls, Trusts, Evaluates
  <2>5. QED
    BY <2>3, <2>4 DEF RowHasEvidence
<1>8. QED
  BY <1>3, <1>4, <1>5, <1>6, <1>7 DEF Claims

\* Every step of a process leaves the row its evidence.
LEMMA RowStepHasEvidence ==
  ASSUME ExecutionInv, NEW p \in Proc, RowEffect(p), Grows
  PROVE  RowHasEvidence'
<1> USE Trusted
<1>1. ASSUME row'.commit = row.commit,
             \/ row'.state = row.state
             \/ row'.state \notin {"VERIFYING", "EVALUATING", "WAITING_APPROVAL"}
             \/ /\ row.commit # 0
                /\ row'.state \in {"EVALUATING", "WAITING_APPROVAL"} => Verifies(row.commit)
                /\ row'.state = "WAITING_APPROVAL" => Evaluates(row.commit)
      PROVE  RowHasEvidence'
  BY <1>1, EvidenceStays DEF RowHasEvidence
<1>2. ASSUME NEW to \in ExecutionState \ {"ACCEPTED"}, NEW resume, Transition(Id[p], to, resume),
             to \in {"VERIFYING", "EVALUATING", "WAITING_APPROVAL"} => Claims(p)
      PROVE  RowHasEvidence'
  BY <1>1, <1>2, RowFields, ClaimedEvidence
<1>3. CASE RegisterCommit(p)
  <2>1. call[p].at = "register" /\ RegisterCommitTxn(Id[p], call[p].commit)
    BY <1>3 DEF RegisterCommit, At
  <2>2. row'.commit = call[p].commit /\ row'.state = "MAKER_RUNNING"
    BY <2>1, RowFields DEF Trusts
  <2>3. Made(row.commit)'
    BY <2>1, <2>2 DEF Recalls, Made, Grows
  <2>4. QED
    BY <2>2, <2>3 DEF RowHasEvidence
<1>4. QED
  BY <1>1, <1>2, <1>3, RowFields DEF RowEffect, AcceptExecution

-----------------------------------------------------------------------------
(* The acceptance: its manifest and its approval. *)

\* Only the acceptance writes the manifest.
LEMMA ManifestKept ==
  ASSUME NEW p \in Proc, Controls(p) \/ Recovers(p) \/ Abandon(p), ~AcceptExecution(p)
  PROVE  UNCHANGED manifest
<1>1. CASE Controls(p)
  BY <1>1 DEF Controls, Acquire, Schedule, RegisterMaker, MakerFails, Block, CommitCandidate, FinishMaker,
     RegisterCommit, MakerSucceeded, RecordVerification, RegisterVerification, Verified, BeginEvaluator,
     RegisterEvaluator, SealEvaluator, FailEvaluator, CompleteEvaluator, FinishEvaluator,
     RegisterEvaluation, Evaluated, NotPassed, RequestApproval, Resolve, ResolveApproval, Resolved,
     Accept, ReadEvidence, Advance, ApprovalRecorded, Cancel, Move, tables
<1>2. CASE Recovers(p)
  BY <1>2 DEF Recovers, Resume, ResumeMaker, LoseMaker, ResumeVerification, ResumeEvaluation,
     LoseEvaluator, RecoverEvaluator, Decide, NotPassed, Ensure, ResumeApproval, Move, tables
<1>3. CASE Abandon(p)
  BY <1>3 DEF Abandon, tables
<1>4. QED
  BY <1>1, <1>2, <1>3

\* What a step of p does to the approvals.
ApprovalEffect(p) ==
  \/ UNCHANGED approval
  \/ \E gen, version, c, e : RequestApprovalTxn(Id[p], gen, version, c, e)
  \/ \E a, status : ResolveApprovalTxn(a, status)
  \/ AcceptExecution(p)

\* Every step of a process has one of these effects.
LEMMA ApprovalEffects ==
  ASSUME NEW p \in Proc, Controls(p) \/ Recovers(p) \/ Abandon(p)
  PROVE  ApprovalEffect(p)
<1>1. CASE RequestApproval(p) \/ ResolveApproval(p) \/ AcceptExecution(p)
  BY <1>1, Zenon DEF RequestApproval, ResolveApproval, ApprovalEffect
<1>2. CASE Controls(p) /\ ~(RequestApproval(p) \/ ResolveApproval(p) \/ AcceptExecution(p))
  <2>1. UNCHANGED approval
    BY <1>2 DEF Controls, Acquire, Schedule, RegisterMaker, MakerFails, Block, CommitCandidate, FinishMaker,
       RegisterCommit, MakerSucceeded, RecordVerification, RegisterVerification, Verified, BeginEvaluator,
       RegisterEvaluator, SealEvaluator, FailEvaluator, CompleteEvaluator, FinishEvaluator,
       RegisterEvaluation, Evaluated, NotPassed, Resolve, Resolved,
       Accept, ReadEvidence, Advance, ApprovalRecorded, Cancel, Move, tables
  <2>2. QED
    BY <2>1 DEF ApprovalEffect
<1>3. CASE Recovers(p) \/ Abandon(p)
  <2>1. UNCHANGED approval
    BY <1>3 DEF Recovers, Resume, ResumeMaker, LoseMaker, ResumeVerification, ResumeEvaluation,
       LoseEvaluator, RecoverEvaluator, Decide, NotPassed, Ensure, ResumeApproval, Move, Abandon, tables
  <2>2. QED
    BY <2>1 DEF ApprovalEffect
<1>4. QED
  BY <1>1, <1>2, <1>3

\* Except for the acceptance itself, an execution is accepted only if it was, at the same commit.
LEMMA AcceptedStays ==
  ASSUME ExecutionInv, NEW p \in Proc, RowEffect(p), ~AcceptExecution(p)
  PROVE  (row'.state = "ACCEPTED" <=> row.state = "ACCEPTED")
         /\ (row.state = "ACCEPTED" => row'.commit = row.commit)
<1> USE Trusted
<1>1. CASE RegisterCommit(p)
  <2>1. call[p].at = "register" /\ RegisterCommitTxn(Id[p], call[p].commit)
    BY <1>1 DEF RegisterCommit, At
  <2>2. row.state = "MAKER_RUNNING" /\ row'.state = row.state
    BY <2>1, RowFields DEF Trusts
  <2>3. QED
    BY <2>2
<1>2. CASE AcquireLease(Id[p])
  BY <1>2, RowFields
<1>3. QED
  BY <1>1, <1>2, RowFields, LegalMoves DEF RowEffect

\* An accepted execution stays covered by the evidence its manifest names.
LEMMA CoveredStays ==
  ASSUME TablesInv, StaysCovered, Grows, row.state = "ACCEPTED",
         row'.commit = row.commit, UNCHANGED manifest
  PROVE  StaysCovered'
<1> DEFINE m == manifest.maker
           v == manifest.verification
           e == manifest.evaluation
           n == evaluation[e].attempt
<1>1. m \in DOMAIN maker /\ v \in DOMAIN verification /\ e \in DOMAIN evaluation /\ Covered
  BY DEF StaysCovered
<1>2. n \in DOMAIN evaluator
  BY <1>1 DEF TablesInv, TablesAgree
<1>3. m \in DOMAIN maker' /\ maker'[m] = maker[m]
  BY <1>1 DEF Covered, Grows
<1>4. v \in DOMAIN verification' /\ verification'[v] = verification[v]
  BY <1>1 DEF Grows
<1>5. e \in DOMAIN evaluation' /\ evaluation'[e] = evaluation[e] /\ evaluator'[n].commit = evaluator[n].commit
  BY <1>1, <1>2 DEF Grows
<1>6. QED
  BY <1>1, <1>3, <1>4, <1>5 DEF StaysCovered, Covered

\* Every step of a process leaves an accepted execution covered.
LEMMA CoverageStep ==
  ASSUME ExecutionInv, NEW p \in Proc, Controls(p) \/ Recovers(p) \/ Abandon(p), Grows
  PROVE  StaysCovered'
<1> USE Trusted
<1>1. CASE AcceptExecution(p)
  <2> DEFINE m == [commit |-> call[p].commit, maker |-> call[p].attempt,
                   verification |-> call[p].verification, evaluation |-> call[p].evaluation,
                   approval |-> call[p].approval]
  <2>1. /\ call[p].at = "accepting" /\ UNCHANGED evidence
        /\ AcceptTxn(Id[p], call[p].gen, call[p].version, m)
    BY <1>1 DEF AcceptExecution, At
  <2>2. manifest' = m
    BY <2>1, Zenon DEF AcceptTxn
  <2>3. Covered'
    BY <1>1, AcceptanceCovers
  <2>4. QED
    BY <2>1, <2>2, <2>3 DEF Recalls, StaysCovered, evidence
<1>2. CASE ~AcceptExecution(p)
  <2>1. UNCHANGED manifest
    BY <1>2, ManifestKept
  <2>2. /\ row'.state = "ACCEPTED" <=> row.state = "ACCEPTED"
        /\ row.state = "ACCEPTED" => row'.commit = row.commit
    BY <1>2, RowEffects, AcceptedStays
  <2>3. CASE row.state = "ACCEPTED"
    BY <2>1, <2>2, <2>3, CoveredStays DEF ExecutionInv
  <2>4. CASE row.state # "ACCEPTED"
    BY <2>2, <2>4 DEF StaysCovered
  <2>5. QED
    BY <2>3, <2>4
<1>3. QED
  BY <1>1, <1>2

\* What a request, a decision and the acceptance leave of each approval.
LEMMA ApprovalsAfter ==
  ASSUME StoreTypeOK
  PROVE  /\ \A id, gen, version, c, e : RequestApprovalTxn(id, gen, version, c, e) =>
              /\ row.state = "WAITING_APPROVAL"
              /\ \A i \in DOMAIN approval : i \in DOMAIN approval' /\ approval'[i] = approval[i]
              /\ \A i \in DOMAIN approval' \ DOMAIN approval : approval'[i].consumed = FALSE
         /\ \A a, status : ResolveApprovalTxn(a, status) =>
              /\ DOMAIN approval' = DOMAIN approval
              /\ \A i \in DOMAIN approval : approval'[i].consumed = approval[i].consumed
              /\ \A i \in DOMAIN approval : approval[i].consumed = TRUE => approval'[i] = approval[i]
         /\ \A a : approval' = [approval EXCEPT ![a].consumed = TRUE] =>
              /\ DOMAIN approval' = DOMAIN approval
              /\ \A i \in DOMAIN approval : i # a => approval'[i] = approval[i]
              /\ a \in DOMAIN approval =>
                   /\ approval'[a].consumed = TRUE /\ approval'[a].status = approval[a].status
                   /\ approval'[a].commit = approval[a].commit
                   /\ approval'[a].evaluation = approval[a].evaluation
<1>1. approval \in Seq(ApprovalRow) /\ \A i \in DOMAIN approval : approval[i] \in ApprovalRow
  BY Typed DEF StoreTypeOK, ApprovalRow
<1>2. ASSUME NEW id, NEW gen, NEW version, NEW c, NEW e, RequestApprovalTxn(id, gen, version, c, e)
      PROVE  /\ row.state = "WAITING_APPROVAL"
             /\ \A i \in DOMAIN approval : i \in DOMAIN approval' /\ approval'[i] = approval[i]
             /\ \A i \in DOMAIN approval' \ DOMAIN approval : approval'[i].consumed = FALSE
  <2> DEFINE r == [version |-> version, commit |-> c, evaluation |-> e, status |-> "PENDING", consumed |-> FALSE]
  <2>1. approval' = Append(approval, r) /\ row.state = "WAITING_APPROVAL" /\ r.consumed = FALSE
    BY <1>2 DEF RequestApprovalTxn
  <2> HIDE DEF r
  <2>2. QED
    BY <1>1, <2>1
<1>3. ASSUME NEW a, NEW status, ResolveApprovalTxn(a, status)
      PROVE  /\ DOMAIN approval' = DOMAIN approval
             /\ \A i \in DOMAIN approval : approval'[i].consumed = approval[i].consumed
             /\ \A i \in DOMAIN approval : approval[i].consumed = TRUE => approval'[i] = approval[i]
  <2> DEFINE r == [approval[a] EXCEPT !.status = status]
  <2>1. approval' = [approval EXCEPT ![a] = r] /\ approval[a].consumed # TRUE
    BY <1>3 DEF ResolveApprovalTxn
  <2>2. a \in DOMAIN approval => r.consumed = approval[a].consumed
    BY <1>1 DEF ApprovalRow
  <2> HIDE DEF r
  <2>3. /\ DOMAIN approval' = DOMAIN approval
        /\ \A i \in DOMAIN approval : approval'[i] = IF i = a THEN r ELSE approval[i]
    BY <1>1, <2>1
  <2>4. QED
    BY <2>1, <2>2, <2>3
<1>4. ASSUME NEW a, approval' = [approval EXCEPT ![a].consumed = TRUE]
      PROVE  /\ DOMAIN approval' = DOMAIN approval
             /\ \A i \in DOMAIN approval : i # a => approval'[i] = approval[i]
             /\ a \in DOMAIN approval =>
                  /\ approval'[a].consumed = TRUE /\ approval'[a].status = approval[a].status
                  /\ approval'[a].commit = approval[a].commit
                  /\ approval'[a].evaluation = approval[a].evaluation
  <2> DEFINE r == [approval[a] EXCEPT !.consumed = TRUE]
  <2>1. approval' = [approval EXCEPT ![a] = r]
    BY <1>4
  <2>2. a \in DOMAIN approval => /\ r.consumed = TRUE /\ r.status = approval[a].status
                                /\ r.commit = approval[a].commit /\ r.evaluation = approval[a].evaluation
    BY <1>1 DEF ApprovalRow
  <2> HIDE DEF r
  <2>3. /\ DOMAIN approval' = DOMAIN approval
        /\ \A i \in DOMAIN approval : approval'[i] = IF i = a THEN r ELSE approval[i]
    BY <1>1, <2>1
  <2>4. QED
    BY <2>2, <2>3
<1>5. QED
  BY <1>2, <1>3, <1>4

(* Every step of a process consumes an approval only for the acceptance,   *)
(* and only the one the manifest names.                                    *)
LEMMA ConsumptionStep ==
  ASSUME ExecutionInv, NEW p \in Proc, Controls(p) \/ Recovers(p) \/ Abandon(p)
  PROVE  Consumption'
<1> USE Trusted
<1>0. Consumption
  BY DEF ExecutionInv
<1>1. CASE AcceptExecution(p)
  <2> DEFINE a == call[p].approval
             m == [commit |-> call[p].commit, maker |-> call[p].attempt,
                   verification |-> call[p].verification, evaluation |-> call[p].evaluation,
                   approval |-> a]
  <2>1. call[p].at = "accepting" /\ AcceptTxn(Id[p], call[p].gen, call[p].version, m)
    BY <1>1 DEF AcceptExecution, At
  <2>2. m.approval = a
    OBVIOUS
  <2> HIDE DEF m
  <2>3. /\ row.state = "EVALUATING" /\ manifest' = m
        /\ \/ approval = <<>> /\ a = 0 /\ UNCHANGED approval
           \/ /\ a # 0 /\ Refers(a, call[p].version - 1, row.commit, m.evaluation)
              /\ approval[a].status = "APPROVED"
              /\ approval' = [approval EXCEPT ![a].consumed = TRUE]
    BY <2>1, <2>2, Zenon DEF AcceptTxn
  <2>4. row'.state = "ACCEPTED" /\ row'.commit = row.commit
    BY <2>1, RowFields
  <2>5. NamedApproval(a)
    BY <2>1 DEF Recalls
  <2>6. \A i \in DOMAIN approval : ~approval[i].consumed
    BY <1>0, <2>3 DEF Consumption
  <2>7. CASE approval = <<>> /\ a = 0 /\ UNCHANGED approval
    BY <2>5, <2>6, <2>7 DEF Consumption, NamedApproval
  <2>8. CASE /\ a # 0 /\ Refers(a, call[p].version - 1, row.commit, m.evaluation)
             /\ approval[a].status = "APPROVED"
             /\ approval' = [approval EXCEPT ![a].consumed = TRUE]
    <3>1. a \in DOMAIN approval /\ approval[a].commit = row.commit /\ approval[a].evaluation = m.evaluation
      BY <2>5, <2>8 DEF NamedApproval, Refers
    <3>2. /\ DOMAIN approval' = DOMAIN approval
          /\ \A i \in DOMAIN approval : i # a => approval'[i] = approval[i]
          /\ approval'[a].consumed = TRUE /\ approval'[a].status = approval[a].status
          /\ approval'[a].commit = approval[a].commit /\ approval'[a].evaluation = approval[a].evaluation
      BY <2>8, <3>1, ApprovalsAfter
    <3>3. \A i \in DOMAIN approval' : approval'[i].consumed => i = a
      BY <2>6, <3>2
    <3>4. QED
      BY <2>2, <2>3, <2>4, <2>8, <3>1, <3>2, <3>3 DEF Consumption
  <2>9. QED
    BY <2>3, <2>7, <2>8
<1>2. CASE ~AcceptExecution(p)
  <2>1. /\ row'.state = "ACCEPTED" <=> row.state = "ACCEPTED"
        /\ row.state = "ACCEPTED" => row'.commit = row.commit
        /\ UNCHANGED manifest
    BY <1>2, RowEffects, AcceptedStays, ManifestKept
  <2>2. CASE UNCHANGED approval
    BY <1>0, <2>1, <2>2 DEF Consumption
  <2>3. ASSUME NEW gen, NEW version, NEW c, NEW e, RequestApprovalTxn(Id[p], gen, version, c, e)
        PROVE  Consumption'
    <3>1. /\ row.state # "ACCEPTED"
          /\ \A i \in DOMAIN approval : i \in DOMAIN approval' /\ approval'[i] = approval[i]
          /\ \A i \in DOMAIN approval' \ DOMAIN approval : approval'[i].consumed = FALSE
      BY <2>3, ApprovalsAfter
    <3>2. \A i \in DOMAIN approval' : ~approval'[i].consumed
      BY <1>0, <3>1 DEF Consumption
    <3>3. QED
      BY <2>1, <3>1, <3>2 DEF Consumption
  <2>4. ASSUME NEW a, NEW status, ResolveApprovalTxn(a, status)
        PROVE  Consumption'
    <3>1. /\ DOMAIN approval' = DOMAIN approval
          /\ \A i \in DOMAIN approval : approval'[i].consumed = approval[i].consumed
          /\ \A i \in DOMAIN approval : approval[i].consumed = TRUE => approval'[i] = approval[i]
      BY <2>4, ApprovalsAfter
    <3>2. \A i \in DOMAIN approval : approval[i].consumed \in BOOLEAN
      BY Typed
    <3>3. QED
      BY <1>0, <2>1, <3>1, <3>2 DEF Consumption
  <2>5. QED
    BY <1>2, <2>2, <2>3, <2>4, ApprovalEffects DEF ApprovalEffect
<1>3. QED
  BY <1>1, <1>2

-----------------------------------------------------------------------------
(* The invariant is inductive. *)

\* The end of the lease, or nothing, leaves everything the invariant speaks of.
LEMMA QuietStep ==
  ASSUME ExecutionInv, TablesInv', LeaseExpires \/ UNCHANGED vars
  PROVE  ExecutionInv'
<1>1. row \in Row
  BY DEF ExecutionInv, TablesInv, TypeOK, StoreTypeOK, Row
<1>2. /\ row'.state = row.state /\ row'.commit = row.commit /\ row'.owner = row.owner
      /\ UNCHANGED <<maker, evaluator, verification, evaluation, approval, manifest, call>>
  BY <1>1 DEF LeaseExpires, vars, tables, evidence, Row
<1>3. RowHasEvidence' /\ StaysCovered' /\ Consumption'
  BY <1>2 DEF ExecutionInv, RowHasEvidence, Made, Verifies, Evaluates, StaysCovered, Covered, Consumption
<1>4. \A p \in Proc : Trusts(p)'
  BY <1>2 DEF ExecutionInv, Trusts, Verifies
<1>5. QED
  BY <1>3, <1>4 DEF ExecutionInv

\* Every step keeps the invariant.
LEMMA ExecutionStep ==
  ASSUME OwnId, ExecutionInv, [Next]_vars
  PROVE  ExecutionInv'
<1>1. TablesInv' /\ Grows
  BY TablesStep DEF ExecutionInv
<1>2. ASSUME NEW p \in Proc, Controls(p) \/ Recovers(p) \/ Abandon(p)
      PROVE  ExecutionInv'
  <2>1. RowEffect(p)
    BY <1>2, RowEffects
  <2>2. \A q \in Proc \ {p} : call'[q] = call[q]
    BY <1>2, AnyStep DEF ExecutionInv, Proceeds
  <2>3. \A q \in Proc : Trusts(q)'
    BY <1>1, <1>2, <2>1, <2>2, OwnTrust, OthersTrust
  <2>4. RowHasEvidence' /\ StaysCovered' /\ Consumption'
    BY <1>1, <1>2, <2>1, RowStepHasEvidence, CoverageStep, ConsumptionStep
  <2>5. QED
    BY <1>1, <2>3, <2>4 DEF ExecutionInv
<1>3. QED
  BY <1>1, <1>2, QuietStep DEF Next

(* Where every process has a controller id of its own, the state of the    *)
(* execution never runs ahead of the evidence, what each handler remembers *)
(* while it owns the row is still so, and an accepted execution stays      *)
(* covered by its manifest and by the one approval it consumed.            *)
THEOREM ExecutionInvariant ==
  ASSUME OwnId
  PROVE  Spec => []ExecutionInv
<1>1. Init => ExecutionInv
  <2> SUFFICES ASSUME Init PROVE ExecutionInv
    OBVIOUS
  <2>1. TablesInv
    BY TablesInitially
  <2>2. row.state = "READY" /\ row.commit = 0 /\ row.owner = NoOwner /\ approval = <<>>
    BY DEF Init, StoreInit
  <2>3. \A p \in Proc : call[p].at = "idle"
    BY DEF Init, Idle
  <2>4. RowHasEvidence /\ StaysCovered /\ Consumption
    BY <2>2 DEF RowHasEvidence, StaysCovered, Consumption
  <2>5. \A p \in Proc : Trusts(p)
    BY <2>3 DEF Trusts
  <2>6. QED
    BY <2>1, <2>4, <2>5 DEF ExecutionInv
<1>2. ExecutionInv /\ [Next]_vars => ExecutionInv'
  BY ExecutionStep
<1>3. QED
  BY <1>1, <1>2, PTL DEF Spec

(* Wherever the state says that a step of the work has been done, the      *)
(* evidence for the commit of the row is found by the very reads the       *)
(* handlers make.                                                          *)
THEOREM EvidenceForState ==
  ASSUME OwnId
  PROVE  Spec => []StateHasEvidence
<1>1. ExecutionInv => StateHasEvidence
  <2> SUFFICES ASSUME ExecutionInv PROVE StateHasEvidence
    OBVIOUS
  <2>1. StoreTypeOK /\ TablesAgree /\ RowHasEvidence
    BY DEF ExecutionInv, TablesInv, TypeOK
  <2>2. row.state \in {"VERIFYING", "EVALUATING", "WAITING_APPROVAL"} => MakerOf(row.commit) # 0
    BY <2>1, MakerOfFinds DEF RowHasEvidence, Made
  <2>3. row.state \in {"EVALUATING", "WAITING_APPROVAL"} => VerificationPass(row.commit) # 0
    BY <2>1, VerificationPassFinds DEF RowHasEvidence, Verifies
  <2>4. row.state = "WAITING_APPROVAL" => EvaluationPass(row.commit) # 0
    BY <2>1, EvaluationPassFinds DEF RowHasEvidence, Evaluates, TablesAgree
  <2>5. QED
    BY <2>2, <2>3, <2>4 DEF StateHasEvidence
<1>2. QED
  BY <1>1, ExecutionInvariant, PTL

(* An execution is accepted on the evidence its manifest names, and stays  *)
(* so: no late handler leaves an accepted row its evidence does not cover. *)
THEOREM AcceptanceCovered ==
  ASSUME OwnId
  PROVE  Spec => []AcceptedOnEvidence
<1>1. ExecutionInv => AcceptedOnEvidence
  BY DEF ExecutionInv, StaysCovered, AcceptedOnEvidence
<1>2. QED
  BY <1>1, ExecutionInvariant, PTL

(* Where approval is required, an execution is accepted only by consuming  *)
(* an approval given for its commit and its evaluation, and no other       *)
(* approval is ever consumed.                                              *)
THEOREM AcceptanceApproved ==
  ASSUME OwnId
  PROVE  Spec => []AcceptedAsApproved
<1>1. ExecutionInv => AcceptedAsApproved
  <2> SUFFICES ASSUME ExecutionInv, ApprovalRequired, row.state = "ACCEPTED"
               PROVE  /\ manifest.approval # 0
                      /\ LET a == approval[manifest.approval] IN
                           /\ a.consumed /\ a.status = "APPROVED"
                           /\ a.commit = row.commit /\ a.evaluation = manifest.evaluation
                      /\ \A i \in DOMAIN approval : approval[i].consumed => i = manifest.approval
    BY DEF AcceptedAsApproved
  <2>1. Consumption /\ DOMAIN approval = 1..Len(approval) /\ Len(approval) \in Nat
    BY DEF ExecutionInv, TablesInv, TypeOK, StoreTypeOK
  <2>2. QED
    BY <2>1 DEF Consumption
<1>2. QED
  BY <1>1, ExecutionInvariant, PTL
=============================================================================
