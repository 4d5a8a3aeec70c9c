-------------------------- MODULE SliceBindingProofs --------------------------
(***************************************************************************)
(* The slice row and the execution rows tell one story, a slice stays with *)
(* an execution that has a Maker, a bound execution has its worktree and   *)
(* branch, and a human's branch and worktree are left alone: for any       *)
(* executions, controller processes and bounds.                            *)
(***************************************************************************)
EXTENDS SliceBinding, WellFoundedInduction, TLAPS

-----------------------------------------------------------------------------
(* The invariant. *)

Executions == Execution \cup {NoExecution}
States == OpenState \cup ClosedState \cup {"ABSENT"}
SliceRow == [version: Nat, elig: Eligibility, active: Executions, head: 0..2, result: 0..2]
ExecutionRow == [state: States, version: Nat, leased: BOOLEAN, attempt: AttemptStatus, result: 0..2]

StartedCalls == {"register", "run", "commit", "failed", "finish", "finalize", "verifying"}
MakerCalls == {"launch"} \cup StartedCalls
Stage == {"idle"} \cup BindingCalls \cup ReleaseCalls \cup MakerCalls
CallRow == [pc: Stage, exec: Executions, ver: Int, xver: Int, wc: BOOLEAN, bc: BOOLEAN, made: BOOLEAN]

Types ==
  /\ slice \in SliceRow /\ events \in Seq(SliceEvent) /\ execution \in [Execution -> ExecutionRow]
  /\ branch \in 0..2 /\ worktree \in Executions /\ foreign \subseteq {"branch", "worktree"}
  /\ call \in [Caller -> CallRow]

(* What the rows of the store say of each other.  An execution that is     *)
(* open or accepted is the one the slice row names, a verified one has its *)
(* result, and one that no binding has made yet has no attempt and no      *)
(* result.  A cancelled execution may be the one named, or not.            *)
RowsFit ==
  /\ slice.elig = "INELIGIBLE_UNTIL_PREFLIGHT" <=> slice.active = NoExecution
  /\ slice.elig = "ELIGIBLE_PREEXECUTION_BOUND" => slice.head = 1 /\ slice.result = 0
  /\ slice.elig = "ELIGIBLE_BOUND" => slice.head = 2 /\ slice.result = 2
  /\ \A e \in Execution :
       /\ execution[e].state \in OpenState \cup {"ACCEPTED"} => slice.active = e
       /\ execution[e].state \in {"VERIFYING", "ACCEPTED"} => execution[e].result # 0
       /\ slice.active = e => execution[e].state # "ABSENT" /\ execution[e].result = slice.result
       /\ execution[e].state = "ABSENT" => execution[e].attempt = "NONE" /\ execution[e].result = 0

\* An execution has a bind event unless it is yet to be made.  A released one is
\* cancelled and off the slice row; one that was only cancelled is still on it.
EventsFit ==
  /\ \A e \in Execution :
       execution[e].state # "ABSENT" <=>
         \E i \in DOMAIN events : events[i].reason = "BIND" /\ events[i].exec = e
  /\ \A i \in DOMAIN events :
       events[i].reason = "RELEASE" =>
         /\ events[i].exec \in Execution /\ execution[events[i].exec].state = "CANCELLED"
         /\ slice.active # events[i].exec

\* What a process knows of its execution and of Git, whatever the others do:
\* once the Maker is started, a cancel may end the execution under it, but
\* nothing takes the slice from it.
Knows(c) ==
  LET pc == call[c].pc
      e == call[c].exec
  IN
  /\ pc # "idle" => e \in Execution
  /\ pc = "launch" => execution[e].state # "ABSENT"
  /\ pc \in StartedCalls => execution[e].state \notin {"ABSENT", "READY"} /\ slice.active = e
  /\ pc \in {"run", "commit"} => execution[e].attempt # "NONE"
  /\ pc \in {"finish", "finalize"} => branch = 2
  /\ pc = "verifying" => execution[e].result # 0
  /\ pc = "cleanup" => Released(e)
  /\ pc = "inspect" => ~call[c].made
  /\ pc = "unbranch" => call[c].bc

BookInv == Types /\ RowsFit /\ EventsFit /\ \A c \in Caller : Knows(c)

(* No process and no event claims a branch or a worktree a human made, and *)
(* the human's stay.                                                       *)
ForeignFit ==
  /\ "branch" \in foreign =>
       /\ branch # 0
       /\ \A c \in Caller : ~call[c].bc
       /\ \A i \in DOMAIN events : ~events[i].bc
  /\ "worktree" \in foreign =>
       /\ worktree \in Execution
       /\ \A c \in Caller : ~call[c].wc
       /\ \A i \in DOMAIN events : ~events[i].wc

\* A process that has made something in Git and not yet bound it.
Making(c) ==
  \/ call[c].pc \in {"branch", "add", "compensate", "unbranch"}
  \/ call[c].pc = "persist" /\ call[c].made

\* What a process has made is not bound, and what it is about to bind is made.
Fits(c) ==
  /\ Making(c) => slice.active = NoExecution
  /\ call[c].pc = "persist" /\ execution[call[c].exec].state = "ABSENT"
       => worktree = call[c].exec /\ branch = 1

\* With one binding call at a time.
OneBinds == \A c, d \in Caller : call[c].pc \in BindingCalls /\ call[d].pc \in BindingCalls => c = d

GitFits == OneBinds /\ (\A c \in Caller : Fits(c)) /\ BoundHasWorktree

-----------------------------------------------------------------------------
(* Rows, events and calls. *)

\* A nonempty set of indices has a least element, and Min chooses it.
LEMMA MinIn ==
  ASSUME NEW n \in Nat, NEW I \in SUBSET (1..n), I # {}
  PROVE  Min(I) \in I
<1> DEFINE R == {ss \in Nat \X Nat : ss[1] < ss[2]}
<1>1. IsWellFoundedOn(R, Nat)
  BY NatLessThanWellFounded DEF OpToRel
<1>2. I \subseteq Nat
  OBVIOUS
<1>3. PICK x \in I : \A y \in I : ~ (<<y, x>> \in R)
  <2>1. PICK i \in I : TRUE
    OBVIOUS
  <2> HIDE DEF R
  <2>2. QED
    BY <1>1, <1>2, <2>1, WFMin
<1>4. ASSUME NEW y \in I PROVE x <= y
  <2>1. x \in Nat /\ y \in Nat /\ ~ (y < x)
    BY <1>2, <1>3
  <2>2. QED
    BY <2>1
<1>5. QED
  BY <1>4 DEF Min

\* Binding finds a bind event of e, if it finds one.
LEMMA BindingFinds ==
  ASSUME Types, NEW e
  PROVE  /\ Binding(e) \in Int
         /\ Binding(e) # 0 => /\ Binding(e) \in DOMAIN events
                              /\ events[Binding(e)].reason = "BIND" /\ events[Binding(e)].exec = e
         /\ Binding(e) = 0 => \A i \in DOMAIN events : ~(events[i].reason = "BIND" /\ events[i].exec = e)
<1> DEFINE I == {i \in 1..Len(events) : events[i].reason = "BIND" /\ events[i].exec = e}
<1>1. DOMAIN events = 1..Len(events) /\ Len(events) \in Nat
  BY DEF Types
<1>2. I # {} => Min(I) \in I
  BY <1>1, MinIn
<1>3. Binding(e) = IF I # {} THEN Min(I) ELSE 0
  BY DEF Binding, SelectInSeq
<1>4. QED
  BY <1>1, <1>2, <1>3

\* The release event that a retry looks for.
ReleaseOf(e) == SelectInSeq(events, LAMBDA ev : ev.reason = "RELEASE" /\ ev.exec = e)

LEMMA ReleaseFinds ==
  ASSUME Types, NEW e
  PROVE  ReleaseOf(e) \in Int
<1> DEFINE I == {i \in 1..Len(events) : events[i].reason = "RELEASE" /\ events[i].exec = e}
<1>1. DOMAIN events = 1..Len(events) /\ Len(events) \in Nat
  BY DEF Types
<1>2. I # {} => Min(I) \in I
  BY <1>1, MinIn
<1>3. ReleaseOf(e) = IF I # {} THEN Min(I) ELSE 0
  BY DEF ReleaseOf, SelectInSeq
<1>4. QED
  BY <1>1, <1>2, <1>3

\* The fields of an event.
LEMMA EventFields ==
  ASSUME Types, NEW i \in DOMAIN events
  PROVE  /\ events[i].wc \in BOOLEAN /\ events[i].bc \in BOOLEAN
         /\ events[i].exec \in Executions
<1>1. events[i] \in SliceEvent
  BY DEF Types
<1>2. QED
  BY <1>1 DEF SliceEvent, Executions

\* A recorded event is added to the others.
LEMMA Recorded ==
  ASSUME Types, NEW reason \in {"RECONCILE", "BIND", "RELEASE", "RESULT"}, NEW e \in Executions,
         NEW wc \in BOOLEAN, NEW bc \in BOOLEAN, Record(reason, e, wc, bc)
  PROVE  /\ events' \in Seq(SliceEvent)
         /\ \A i \in DOMAIN events : i \in DOMAIN events' /\ events'[i] = events[i]
         /\ \E i \in DOMAIN events' : events'[i] = [reason |-> reason, exec |-> e, wc |-> wc, bc |-> bc]
         /\ \A i \in DOMAIN events' :
              \/ i \in DOMAIN events /\ events'[i] = events[i]
              \/ events'[i] = [reason |-> reason, exec |-> e, wc |-> wc, bc |-> bc]
<1>1. [reason |-> reason, exec |-> e, wc |-> wc, bc |-> bc] \in SliceEvent
  BY DEF SliceEvent, Executions
<1>2. events \in Seq(SliceEvent)
  BY DEF Types
<1>3. events' = Append(events, [reason |-> reason, exec |-> e, wc |-> wc, bc |-> bc])
  BY DEF Record
<1>4. Len(events) + 1 \in DOMAIN events'
      /\ events'[Len(events) + 1] = [reason |-> reason, exec |-> e, wc |-> wc, bc |-> bc]
  BY <1>1, <1>2, <1>3
<1>5. QED
  BY <1>1, <1>2, <1>3, <1>4

\* The step of a process changes its own call only.
LEMMA CallChanged ==
  ASSUME Types, NEW c \in Caller, NEW m \in CallRow, call' = [call EXCEPT ![c] = m]
  PROVE  /\ call' \in [Caller -> CallRow] /\ call'[c] = m
         /\ \A d \in Caller \ {c} : call'[d] = call[d]
BY DEF Types

LEMMA NoCallRow == NoCall \in CallRow
BY DEF NoCall, CallRow, Stage, Executions

\* What no step undoes.
Onward ==
  /\ \A e \in Execution :
       /\ execution[e].state # "ABSENT" => execution'[e].state # "ABSENT"
       /\ execution[e].state \notin {"ABSENT", "READY"} =>
            /\ execution'[e].state \notin {"ABSENT", "READY"}
            /\ slice.active = e => slice'.active = e
       /\ execution[e].attempt # "NONE" => execution'[e].attempt # "NONE"
       /\ execution[e].result # 0 => execution'[e].result # 0
  /\ \A i \in DOMAIN events : i \in DOMAIN events' /\ events'[i] = events[i]
  /\ branch = 2 => branch' = 2

\* What the others know stays true.
LEMMA OthersKnow ==
  ASSUME NEW d \in Caller, Knows(d), call'[d] = call[d], Onward
  PROVE  Knows(d)'
<1>1. ASSUME NEW e, Released(e) PROVE Released(e)'
  BY <1>1 DEF Onward, Released
<1>2. QED
  BY <1>1 DEF Knows, Onward, StartedCalls

\* A transition the state machine has: out of an open state, never back to
\* READY, and to verification and acceptance with a result only.
Moves(e, state) ==
  /\ execution[e].state \in OpenState /\ state \in (OpenState \ {"READY"}) \cup ClosedState
  /\ state \in {"VERIFYING", "ACCEPTED"} => execution[e].result # 0

\* An execution row changes within its life.
LEMMA RowChanged ==
  ASSUME Types, RowsFit, EventsFit, NEW e \in Execution, NEW x \in ExecutionRow,
         execution' = [execution EXCEPT ![e] = x], UNCHANGED <<slice, events, branch>>,
         x.state = execution[e].state \/ Moves(e, x.state),
         x.attempt = execution[e].attempt
           \/ (execution[e].state # "ABSENT" /\ x.attempt # "NONE"),
         x.result = execution[e].result
  PROVE  /\ execution' \in [Execution -> ExecutionRow] /\ execution'[e] = x
         /\ RowsFit' /\ EventsFit' /\ Onward
<1>1. /\ execution' \in [Execution -> ExecutionRow] /\ execution'[e] = x
      /\ \A y \in Execution \ {e} : execution'[y] = execution[y]
  BY DEF Types
<1>2. /\ x.state # execution[e].state =>
           execution[e].state \in OpenState /\ x.state \notin {"ABSENT", "READY"}
      /\ "ABSENT" \notin OpenState /\ "CANCELLED" \notin OpenState
  BY DEF Moves, OpenState, ClosedState
<1>3. Onward
  BY <1>1, <1>2 DEF Onward
<1>4. RowsFit'
  BY <1>1, <1>2 DEF RowsFit, Moves
<1>5. EventsFit'
  BY <1>1, <1>2 DEF EventsFit
<1>6. QED
  BY <1>1, <1>3, <1>4, <1>5

-----------------------------------------------------------------------------
(* Steps that keep the books. *)

\* The fields of a call.
LEMMA CallFields ==
  ASSUME Types, NEW c \in Caller
  PROVE  /\ call[c].pc \in Stage /\ call[c].exec \in Executions /\ call[c].ver \in Int /\ call[c].xver \in Int
         /\ call[c].wc \in BOOLEAN /\ call[c].bc \in BOOLEAN /\ call[c].made \in BOOLEAN
BY DEF Types, CallRow

LEMMA Proceeds ==
  ASSUME Types, NEW c \in Caller, NEW pc \in Stage, Proceed(c, pc)
  PROVE  \E m \in CallRow :
           /\ call' = [call EXCEPT ![c] = m] /\ m = [call[c] EXCEPT !.pc = pc]
<1> DEFINE m == [call[c] EXCEPT !.pc = pc]
<1>1. m \in CallRow
  BY DEF Types, CallRow
<1>2. call' = [call EXCEPT ![c] = m]
  BY DEF Proceed
<1>3. QED
  BY <1>1, <1>2

\* A process whose step leaves the store alone.
LEMMA GitStep ==
  ASSUME BookInv, NEW c \in Caller, NEW m \in CallRow, call' = [call EXCEPT ![c] = m],
         UNCHANGED <<store, foreign>>, branch' \in 0..2, worktree' \in Executions,
         branch = 2 => branch' = 2,
         call'[c] = m => Knows(c)'
  PROVE  BookInv' /\ Onward
<1>1. /\ call' \in [Caller -> CallRow] /\ call'[c] = m
      /\ \A d \in Caller \ {c} : call'[d] = call[d]
  BY CallChanged DEF BookInv
<1>2. Onward /\ Types'
  BY <1>1 DEF BookInv, Types, store, Onward
<1>3. RowsFit' /\ EventsFit'
  BY DEF BookInv, RowsFit, EventsFit, store
<1>4. ASSUME NEW d \in Caller PROVE Knows(d)'
  BY <1>1, <1>2, OthersKnow DEF BookInv
<1>5. QED
  BY <1>2, <1>3, <1>4 DEF BookInv

\* A process whose call ends.
LEMMA EndStep ==
  ASSUME BookInv, NEW c \in Caller, EndCall(c),
         UNCHANGED <<store, foreign>>, branch' \in 0..2, worktree' \in Executions,
         branch = 2 => branch' = 2
  PROVE  BookInv' /\ Onward
<1>1. call'[c] = NoCall => Knows(c)'
  BY DEF Knows, NoCall, StartedCalls
<1>2. QED
  BY <1>1, GitStep, NoCallRow DEF EndCall

\* A process that goes on.
LEMMA ProceedStep ==
  ASSUME BookInv, NEW c \in Caller, NEW pc \in Stage, Proceed(c, pc),
         UNCHANGED <<store, foreign>>, branch' \in 0..2, worktree' \in Executions,
         branch = 2 => branch' = 2,
         call'[c] = [call[c] EXCEPT !.pc = pc] => Knows(c)'
  PROVE  BookInv' /\ Onward
<1>1. Types
  BY DEF BookInv
<1>2. PICK m \in CallRow : call' = [call EXCEPT ![c] = m] /\ m = [call[c] EXCEPT !.pc = pc]
  BY <1>1, Proceeds
<1>3. QED
  BY <1>2, GitStep

\* The same when the step changes one execution row.
LEMMA ExecutionStep ==
  ASSUME BookInv, NEW e \in Execution, NEW x \in ExecutionRow,
         execution' = [execution EXCEPT ![e] = x], UNCHANGED <<slice, events, git>>,
         x.state = execution[e].state \/ Moves(e, x.state),
         x.attempt = execution[e].attempt
           \/ (execution[e].state # "ABSENT" /\ x.attempt # "NONE"),
         x.result = execution[e].result,
         \/ UNCHANGED call
         \/ \E c \in Caller, m \in CallRow :
              /\ call' = [call EXCEPT ![c] = m]
              /\ execution'[e] = x /\ call'[c] = m => Knows(c)'
  PROVE  BookInv' /\ Onward
<1>1. Types /\ RowsFit /\ EventsFit
  BY DEF BookInv
<1>2. /\ execution' \in [Execution -> ExecutionRow] /\ execution'[e] = x
      /\ RowsFit' /\ EventsFit' /\ Onward
  <2> UNCHANGED <<slice, events, branch>>
    BY DEF git
  <2> QED
    BY <1>1, RowChanged
<1>3. CASE UNCHANGED call
  <2>1. Types'
    BY <1>1, <1>2, <1>3 DEF Types, git
  <2>2. \A d \in Caller : Knows(d)'
    BY <1>2, <1>3, OthersKnow DEF BookInv
  <2>3. QED
    BY <1>2, <2>1, <2>2 DEF BookInv
<1>4. ASSUME NEW c \in Caller, NEW m \in CallRow, call' = [call EXCEPT ![c] = m],
             execution'[e] = x /\ call'[c] = m => Knows(c)'
      PROVE  BookInv'
  <2>1. /\ call' \in [Caller -> CallRow] /\ call'[c] = m
        /\ \A d \in Caller \ {c} : call'[d] = call[d]
    BY <1>1, <1>4, CallChanged
  <2>2. Types'
    BY <1>1, <1>2, <2>1 DEF Types, git
  <2>3. \A d \in Caller : Knows(d)'
    BY <1>2, <1>4, <2>1, OthersKnow DEF BookInv
  <2>4. QED
    BY <1>2, <2>2, <2>3 DEF BookInv
<1>5. QED
  BY <1>2, <1>3, <1>4

LEMMA ExecutionCallStep ==
  ASSUME BookInv, NEW e \in Execution, NEW x \in ExecutionRow, NEW c \in Caller, NEW m \in CallRow,
         execution' = [execution EXCEPT ![e] = x], UNCHANGED <<slice, events, git>>,
         x.state = execution[e].state \/ Moves(e, x.state),
         x.attempt = execution[e].attempt
           \/ (execution[e].state # "ABSENT" /\ x.attempt # "NONE"),
         x.result = execution[e].result,
         call' = [call EXCEPT ![c] = m],
         execution'[e] = x /\ call'[c] = m => Knows(c)'
  PROVE  BookInv' /\ Onward
<1>1. \E d \in Caller, n \in CallRow :
        /\ call' = [call EXCEPT ![d] = n]
        /\ execution'[e] = x /\ call'[d] = n => Knows(d)'
  OBVIOUS
<1>2. QED
  BY <1>1, ExecutionStep

-----------------------------------------------------------------------------
(* Binding calls. *)

LEMMA BooksStartBind ==
  ASSUME BookInv, NEW c \in Caller, NEW e \in Execution, StartBind(c, e)
  PROVE  BookInv' /\ Onward
<1>1. /\ UNCHANGED <<store, git, foreign>> /\ branch' \in 0..2 /\ worktree' \in Executions /\ branch' = branch
      /\ slice.version \in Int /\ Types /\ NoCall.made = FALSE
  BY DEF StartBind, git, BookInv, Types, SliceRow, NoCall
<1>2. CASE Binding(e) = 0 /\ Start(c, [NoCall EXCEPT !.pc = "inspect", !.exec = e, !.ver = slice.version])
  <2> DEFINE m == [NoCall EXCEPT !.pc = "inspect", !.exec = e, !.ver = slice.version]
  <2>1. m \in CallRow /\ m.pc = "inspect" /\ m.exec = e /\ ~m.made
    BY <1>1, NoCallRow DEF CallRow, Stage, BindingCalls, Executions
  <2>2. call' = [call EXCEPT ![c] = m]
    BY <1>2 DEF Start
  <2>3. call'[c] = m => Knows(c)'
    BY <2>1 DEF Knows, StartedCalls
  <2> HIDE DEF m
  <2>4. QED
    BY <1>1, <2>1, <2>2, <2>3, GitStep
<1>3. CASE Binding(e) # 0 /\
             Start(c, [NoCall EXCEPT !.pc = "persist", !.exec = e, !.ver = Binding(e) - 2,
                                     !.wc = events[Binding(e)].wc, !.bc = events[Binding(e)].bc])
  <2> DEFINE m == [NoCall EXCEPT !.pc = "persist", !.exec = e, !.ver = Binding(e) - 2,
                                 !.wc = events[Binding(e)].wc, !.bc = events[Binding(e)].bc]
  <2>1. /\ Binding(e) - 2 \in Int
        /\ events[Binding(e)].wc \in BOOLEAN /\ events[Binding(e)].bc \in BOOLEAN
    BY <1>1, <1>3, BindingFinds, EventFields
  <2>2. m \in CallRow /\ m.pc = "persist" /\ m.exec = e
    BY <2>1, NoCallRow DEF CallRow, Stage, BindingCalls, Executions
  <2>3. call' = [call EXCEPT ![c] = m]
    BY <1>3 DEF Start
  <2>4. call'[c] = m => Knows(c)'
    BY <2>2 DEF Knows, StartedCalls
  <2> HIDE DEF m
  <2>5. QED
    BY <1>1, <2>2, <2>3, <2>4, GitStep
<1>4. QED
  BY <1>2, <1>3 DEF StartBind

LEMMA BooksInspectGit ==
  ASSUME BookInv, NEW c \in Caller, InspectGit(c)
  PROVE  BookInv' /\ Onward
<1>1. /\ UNCHANGED <<store, foreign>> /\ branch' \in 0..2 /\ worktree' \in Executions /\ branch' = branch
      /\ Knows(c) /\ call[c].pc = "inspect" /\ call \in [Caller -> CallRow]
  BY DEF InspectGit, git, BookInv, Types
<1>2. ASSUME NEW pc \in {"persist", "branch", "add"}, Proceed(c, pc)
      PROVE  BookInv' /\ Onward
  <2>1. pc \in Stage
    BY DEF Stage, BindingCalls
  <2>2. call'[c] = [call[c] EXCEPT !.pc = pc] => Knows(c)'
    BY <1>1 DEF Knows, StartedCalls, CallRow
  <2>3. QED
    BY <1>1, <1>2, <2>1, <2>2, ProceedStep
<1>3. CASE EndCall(c)
  BY <1>1, <1>3, EndStep
<1>4. QED
  BY <1>2, <1>3 DEF InspectGit

LEMMA BooksMakeBranch ==
  ASSUME BookInv, NEW c \in Caller, MakeBranch(c)
  PROVE  BookInv' /\ Onward
<1>1. /\ UNCHANGED <<store, foreign>> /\ branch \in 0..2 /\ worktree' \in Executions
      /\ Knows(c) /\ call[c].pc = "branch" /\ call[c] \in CallRow
  BY DEF MakeBranch, BookInv, Types
<1>2. CASE branch = 0 /\ branch' = 1
           /\ call' = [call EXCEPT ![c].pc = "add", ![c].bc = TRUE, ![c].made = TRUE]
  <2> DEFINE m == [call[c] EXCEPT !.pc = "add", !.bc = TRUE, !.made = TRUE]
  <2>1. m \in CallRow /\ m.pc = "add" /\ m.exec = call[c].exec
    BY <1>1 DEF CallRow, Stage, BindingCalls
  <2>2. call' = [call EXCEPT ![c] = m]
    BY <1>2
  <2>3. call'[c] = m => Knows(c)'
    BY <1>1, <2>1 DEF Knows, StartedCalls
  <2>4. branch' \in 0..2 /\ (branch = 2 => branch' = 2)
    BY <1>2
  <2> HIDE DEF m
  <2>5. QED
    BY <1>1, <2>1, <2>2, <2>3, <2>4, GitStep
<1>3. CASE EndCall(c) /\ UNCHANGED branch
  BY <1>1, <1>3, EndStep
<1>4. QED
  BY <1>2, <1>3 DEF MakeBranch

LEMMA BooksAddWorktree ==
  ASSUME BookInv, NEW c \in Caller, AddWorktree(c)
  PROVE  BookInv' /\ Onward
<1>1. /\ UNCHANGED <<store, foreign>> /\ branch \in 0..2 /\ worktree \in Executions
      /\ Knows(c) /\ call[c].pc = "add" /\ call[c] \in CallRow
  BY DEF AddWorktree, BookInv, Types
<1>2. CASE worktree' = call[c].exec /\ UNCHANGED branch
           /\ call' = [call EXCEPT ![c].pc = "persist", ![c].wc = TRUE, ![c].made = TRUE]
  <2> DEFINE m == [call[c] EXCEPT !.pc = "persist", !.wc = TRUE, !.made = TRUE]
  <2>1. m \in CallRow /\ m.pc = "persist" /\ m.exec = call[c].exec /\ call[c].exec \in Executions
    BY <1>1 DEF CallRow, Stage, BindingCalls
  <2>2. call' = [call EXCEPT ![c] = m]
    BY <1>2
  <2>3. call'[c] = m => Knows(c)'
    BY <1>1, <2>1 DEF Knows, StartedCalls
  <2> HIDE DEF m
  <2>4. QED
    BY <1>1, <1>2, <2>1, <2>2, <2>3, GitStep
<1>3. CASE EndCall(c) /\ branch' = (IF call[c].bc /\ branch = 1 THEN 0 ELSE branch) /\ UNCHANGED worktree
  BY <1>1, <1>3, EndStep
<1>4. QED
  BY <1>2, <1>3 DEF AddWorktree

LEMMA BooksPersist ==
  ASSUME BookInv, NEW c \in Caller, Persist(c)
  PROVE  BookInv' /\ Onward
<1> DEFINE e == call[c].exec
<1>1. /\ UNCHANGED <<git, foreign>> /\ branch' \in 0..2 /\ worktree' \in Executions /\ branch' = branch
      /\ Types /\ RowsFit /\ EventsFit /\ e \in Execution /\ call[c].pc = "persist" /\ Knows(c)
  BY DEF Persist, BookInv, Types, git, Knows
<1>2. call[c].wc \in BOOLEAN /\ call[c].bc \in BOOLEAN /\ e \in Executions
  BY <1>1, CallFields
<1>3. CASE BindDeferred(e, call[c].ver, call[c].wc, call[c].bc) /\ EndCall(c)
  <2>1. /\ events' \in Seq(SliceEvent)
        /\ \A i \in DOMAIN events : i \in DOMAIN events' /\ events'[i] = events[i]
        /\ \E i \in DOMAIN events' : events'[i] = [reason |-> "BIND", exec |-> e, wc |-> call[c].wc, bc |-> call[c].bc]
        /\ \A i \in DOMAIN events' :
             \/ i \in DOMAIN events /\ events'[i] = events[i]
             \/ events'[i] = [reason |-> "BIND", exec |-> e, wc |-> call[c].wc, bc |-> call[c].bc]
    BY <1>1, <1>2, <1>3, Recorded DEF BindDeferred
  <2>2. /\ slice' = [version |-> slice.version + 1, elig |-> "ELIGIBLE_PREEXECUTION_BOUND", active |-> e,
                     head |-> 1, result |-> 0]
        /\ slice.active = NoExecution
        /\ execution[e].state = "ABSENT"
        /\ \A y \in Execution : execution[y].state \notin OpenState
        /\ execution' = [execution EXCEPT ![e].state = "READY"]
    BY <1>3 DEF BindDeferred
  <2> DEFINE x == [execution[e] EXCEPT !.state = "READY"]
  <2>3. /\ execution' \in [Execution -> ExecutionRow] /\ execution'[e] = x
        /\ \A y \in Execution \ {e} : execution'[y] = execution[y]
    <3>1. x \in ExecutionRow
      BY <1>1 DEF Types, ExecutionRow, States, OpenState
    <3>2. execution' = [execution EXCEPT ![e] = x] /\ execution \in [Execution -> ExecutionRow]
      BY <1>1, <2>2 DEF Types
    <3> HIDE DEF x
    <3>3. QED
      BY <1>1, <3>1, <3>2
  <2>4. /\ execution'[e].state = "READY" /\ execution'[e].attempt = execution[e].attempt
        /\ execution'[e].result = execution[e].result
    BY <1>1, <2>3 DEF Types, ExecutionRow
  <2>5. slice' \in SliceRow
    BY <1>1, <1>2, <2>2 DEF Types, SliceRow, Eligibility
  <2>6. Onward
    BY <1>1, <2>1, <2>2, <2>3, <2>4, StoreAssumption DEF Onward
  <2>7. RowsFit'
    BY <1>1, <2>2, <2>3, <2>4, StoreAssumption DEF RowsFit, OpenState
  <2>8. EventsFit'
    BY <1>1, <2>1, <2>2, <2>3, <2>4 DEF EventsFit
  <2>9. /\ call' \in [Caller -> CallRow] /\ call'[c] = NoCall
        /\ \A d \in Caller \ {c} : call'[d] = call[d]
    BY <1>1, <1>3, CallChanged, NoCallRow DEF EndCall
  <2>10. Types'
    BY <1>1, <2>1, <2>3, <2>5, <2>9 DEF Types, git
  <2>11. ASSUME NEW d \in Caller PROVE Knows(d)'
    <3>1. CASE d = c
      BY <2>9, <3>1 DEF Knows, NoCall, StartedCalls
    <3>2. CASE d # c
      BY <2>6, <2>9, <3>2, OthersKnow DEF BookInv
    <3>3. QED
      BY <3>1, <3>2
  <2>12. QED
    BY <2>6, <2>7, <2>8, <2>10, <2>11 DEF BookInv
<1>4. CASE EndCall(c) /\ UNCHANGED store
  BY <1>1, <1>4, EndStep
<1>5. CASE Proceed(c, "compensate") /\ UNCHANGED store
  <2>1. call'[c] = [call[c] EXCEPT !.pc = "compensate"] => Knows(c)'
    BY <1>1 DEF Knows, StartedCalls, Types, CallRow
  <2>2. "compensate" \in Stage
    BY DEF Stage, BindingCalls
  <2>3. QED
    BY <1>1, <1>5, <2>1, <2>2, ProceedStep
<1>6. QED
  BY <1>3, <1>4, <1>5 DEF Persist

LEMMA BooksCompensate ==
  ASSUME BookInv, NEW c \in Caller, Compensate(c)
  PROVE  BookInv' /\ Onward
<1>1. /\ UNCHANGED <<store, foreign>> /\ branch' \in 0..2 /\ worktree \in Executions /\ branch' = branch
      /\ Types /\ call[c].pc = "compensate" /\ Knows(c) /\ NoExecution \in Executions
  BY DEF Compensate, BookInv, Types, Executions
<1>2. worktree' \in Executions
  BY <1>1 DEF Compensate
<1>3. CASE Proceed(c, "unbranch") /\ call[c].bc
  <2>1. call'[c] = [call[c] EXCEPT !.pc = "unbranch"] => Knows(c)'
    BY <1>1, <1>3 DEF Knows, StartedCalls, Types, CallRow
  <2>2. "unbranch" \in Stage
    BY DEF Stage, BindingCalls
  <2>3. QED
    BY <1>1, <1>2, <1>3, <2>1, <2>2, ProceedStep
<1>4. CASE EndCall(c)
  BY <1>1, <1>2, <1>4, EndStep
<1>5. QED
  BY <1>3, <1>4 DEF Compensate

LEMMA BooksDeleteBranch ==
  ASSUME BookInv, NEW c \in Caller, DeleteBranch(c)
  PROVE  BookInv' /\ Onward
<1>1. /\ UNCHANGED <<store, foreign>> /\ branch' \in 0..2 /\ worktree' \in Executions
      /\ (branch = 2 => branch' = 2) /\ EndCall(c)
  BY DEF DeleteBranch, BookInv, Types
<1>2. QED
  BY <1>1, EndStep

-----------------------------------------------------------------------------
(* Releases. *)

LEMMA BooksStartRelease ==
  ASSUME BookInv, NEW c \in Caller, NEW e \in Execution, StartRelease(c, e)
  PROVE  BookInv' /\ Onward
<1> DEFINE b == events[Binding(e)]
           m == [NoCall EXCEPT !.pc = "release", !.exec = e, !.ver = slice.version,
                               !.xver = execution[e].version, !.wc = b.wc, !.bc = b.bc]
<1>1. /\ UNCHANGED <<store, foreign>> /\ branch' \in 0..2 /\ worktree' \in Executions /\ branch' = branch
      /\ slice.version \in Int /\ execution[e].version \in Int /\ Types /\ Binding(e) # 0
      /\ call' = [call EXCEPT ![c] = m]
  BY DEF StartRelease, Start, git, BookInv, Types, SliceRow, ExecutionRow
<1>2. b.wc \in BOOLEAN /\ b.bc \in BOOLEAN
  BY <1>1, BindingFinds, EventFields
<1>3. m \in CallRow /\ m.pc = "release" /\ m.exec = e
  BY <1>1, <1>2, NoCallRow DEF CallRow, Stage, ReleaseCalls, Executions
<1>4. call'[c] = m => Knows(c)'
  BY <1>3 DEF Knows, StartedCalls
<1> HIDE DEF m
<1>5. QED
  BY <1>1, <1>3, <1>4, GitStep

LEMMA BooksRetryRelease ==
  ASSUME BookInv, NEW c \in Caller, NEW e \in Execution, RetryRelease(c, e)
  PROVE  BookInv' /\ Onward
<1> DEFINE b == events[Binding(e)]
           r == ReleaseOf(e)
           m == [NoCall EXCEPT !.pc = "release", !.exec = e, !.ver = r - 2,
                               !.xver = execution[e].version - 1, !.wc = b.wc, !.bc = b.bc]
<1>1. /\ UNCHANGED <<store, foreign>> /\ branch' \in 0..2 /\ worktree' \in Executions /\ branch' = branch
      /\ execution[e].version \in Int /\ Types /\ EventsFit /\ Released(e)
      /\ call' = [call EXCEPT ![c] = m]
  BY DEF RetryRelease, ReleaseOf, Start, git, BookInv, Types, ExecutionRow
<1>2. PICK i \in DOMAIN events : events[i].reason = "RELEASE" /\ events[i].exec = e
  BY <1>1 DEF Released
<1>3. r - 2 \in Int /\ execution[e].version - 1 \in Int
  BY <1>1, ReleaseFinds
<1> HIDE DEF r
<1>4. b.wc \in BOOLEAN /\ b.bc \in BOOLEAN
  <2>1. execution[e].state = "CANCELLED"
    BY <1>1, <1>2 DEF EventsFit
  <2>2. Binding(e) # 0
    BY <1>1, <2>1, BindingFinds DEF EventsFit
  <2>3. QED
    BY <1>1, <2>2, BindingFinds, EventFields
<1>5. m \in CallRow /\ m.pc = "release" /\ m.exec = e
  BY <1>1, <1>3, <1>4, NoCallRow DEF CallRow, Stage, ReleaseCalls, Executions
<1>6. call'[c] = m => Knows(c)'
  BY <1>5 DEF Knows, StartedCalls
<1> HIDE DEF m
<1>7. QED
  BY <1>1, <1>5, <1>6, GitStep

LEMMA BooksReleaseBinding ==
  ASSUME BookInv, NEW c \in Caller, ReleaseBinding(c)
  PROVE  BookInv' /\ Onward
<1> DEFINE e == call[c].exec
<1>1. /\ UNCHANGED <<git, foreign>> /\ branch' \in 0..2 /\ worktree' \in Executions /\ branch' = branch
      /\ Types /\ RowsFit /\ EventsFit /\ e \in Execution /\ call[c].pc = "release" /\ Knows(c)
  BY DEF ReleaseBinding, BookInv, Types, git, Knows
<1>2. "cleanup" \in Stage /\ e \in Executions
  BY <1>1 DEF Stage, ReleaseCalls, Executions
<1>3. CASE ReleaseDeferred(e, call[c].xver, call[c].ver) /\ Proceed(c, "cleanup")
  <2>1. /\ events' \in Seq(SliceEvent)
        /\ \A i \in DOMAIN events : i \in DOMAIN events' /\ events'[i] = events[i]
        /\ \E i \in DOMAIN events' : events'[i] = [reason |-> "RELEASE", exec |-> e, wc |-> FALSE, bc |-> FALSE]
        /\ \A i \in DOMAIN events' :
             \/ i \in DOMAIN events /\ events'[i] = events[i]
             \/ events'[i] = [reason |-> "RELEASE", exec |-> e, wc |-> FALSE, bc |-> FALSE]
    BY <1>1, <1>2, <1>3, Recorded DEF ReleaseDeferred
  <2>2. /\ slice' = [version |-> slice.version + 1, elig |-> "INELIGIBLE_UNTIL_PREFLIGHT",
                     active |-> NoExecution, head |-> 0, result |-> 0]
        /\ slice.active = e
        /\ execution[e].state = "READY"
        /\ execution' = [execution EXCEPT ![e].state = "CANCELLED", ![e].version = @ + 1]
    BY <1>3 DEF ReleaseDeferred, Untouched
  <2> DEFINE x == [execution[e] EXCEPT !.state = "CANCELLED", !.version = @ + 1]
  <2>3. /\ execution' \in [Execution -> ExecutionRow] /\ execution'[e] = x
        /\ \A y \in Execution \ {e} : execution'[y] = execution[y]
    <3>0. execution[e] \in ExecutionRow /\ execution[e].version + 1 \in Nat
      BY <1>1 DEF Types, ExecutionRow
    <3>1. x \in ExecutionRow
      BY <3>0 DEF ExecutionRow, States, ClosedState
    <3>2. execution' = [execution EXCEPT ![e] = x] /\ execution \in [Execution -> ExecutionRow]
      BY <1>1, <2>2 DEF Types
    <3> HIDE DEF x
    <3>3. QED
      BY <1>1, <3>1, <3>2
  <2>4. /\ execution'[e].state = "CANCELLED" /\ execution'[e].attempt = execution[e].attempt
        /\ execution'[e].result = execution[e].result
    BY <1>1, <2>3 DEF Types, ExecutionRow
  <2>5. slice' \in SliceRow
    BY <1>1, <1>2, <2>2 DEF Types, SliceRow, Eligibility, Executions
  <2>6. Onward
    BY <1>1, <2>1, <2>2, <2>3, <2>4 DEF Onward
  <2>7. RowsFit'
    <3>1. \A y \in Execution :
            /\ execution'[y].state \notin OpenState \cup {"ACCEPTED"}
            /\ execution'[y].state = "ABSENT" => execution'[y].attempt = "NONE" /\ execution'[y].result = 0
      BY <1>1, <2>2, <2>3, <2>4 DEF RowsFit, OpenState
    <3>2. /\ slice'.elig = "INELIGIBLE_UNTIL_PREFLIGHT" /\ slice'.active = NoExecution
          /\ slice'.active \notin Execution
      BY <2>2, StoreAssumption
    <3>3. QED
      BY <3>1, <3>2 DEF RowsFit, OpenState
  <2>8. EventsFit'
    <3>1. \A i \in DOMAIN events' : events'[i].reason = "BIND" => i \in DOMAIN events /\ events'[i] = events[i]
      BY <2>1
    <3>2. ASSUME NEW y \in Execution
          PROVE  execution'[y].state # "ABSENT" <=>
                   \E i \in DOMAIN events' : events'[i].reason = "BIND" /\ events'[i].exec = y
      BY <1>1, <2>1, <2>2, <2>3, <2>4, <3>1 DEF EventsFit
    <3>3. ASSUME NEW i \in DOMAIN events', events'[i].reason = "RELEASE"
          PROVE  /\ events'[i].exec \in Execution /\ execution'[events'[i].exec].state = "CANCELLED"
                 /\ slice'.active # events'[i].exec
      BY <1>1, <2>1, <2>2, <2>3, <2>4, <3>3, StoreAssumption DEF EventsFit
    <3>4. QED
      BY <3>2, <3>3 DEF EventsFit
  <2>9. PICK m \in CallRow : call' = [call EXCEPT ![c] = m] /\ m = [call[c] EXCEPT !.pc = "cleanup"]
    BY <1>1, <1>2, <1>3, Proceeds
  <2>10. /\ call' \in [Caller -> CallRow] /\ call'[c] = m
         /\ \A d \in Caller \ {c} : call'[d] = call[d]
    BY <1>1, <2>9, CallChanged
  <2>11. Types'
    BY <1>1, <2>1, <2>3, <2>5, <2>10 DEF Types, git
  <2>12. ASSUME NEW d \in Caller PROVE Knows(d)'
    <3>1. CASE d = c
      <4>1. call'[c].pc = "cleanup" /\ call'[c].exec = e
        BY <1>1, <2>9, <2>10 DEF Types, CallRow
      <4>2. QED
        BY <1>1, <2>1, <3>1, <4>1 DEF Knows, StartedCalls, Released
    <3>2. CASE d # c
      BY <2>6, <2>10, <3>2, OthersKnow DEF BookInv
    <3>3. QED
      BY <3>1, <3>2
  <2>13. QED
    BY <2>6, <2>7, <2>8, <2>11, <2>12 DEF BookInv
<1>4. CASE ReleaseReplays(e, call[c].ver) /\ Proceed(c, "cleanup") /\ UNCHANGED store
  <2>1. /\ Len(events) \in DOMAIN events
        /\ events[Len(events)].reason = "RELEASE" /\ events[Len(events)].exec = e
    <3>1. /\ Len(events) = call[c].ver + 2 /\ slice.version = call[c].ver + 1
          /\ events[call[c].ver + 2].reason = "RELEASE" /\ events[call[c].ver + 2].exec = e
      BY <1>4 DEF ReleaseReplays
    <3>2. call[c].ver \in Int /\ slice.version \in Nat /\ events \in Seq(SliceEvent)
      BY <1>1, CallFields DEF Types, SliceRow
    <3>3. QED
      BY <3>1, <3>2
  <2>2. call'[c] = [call[c] EXCEPT !.pc = "cleanup"] => Knows(c)'
    BY <1>1, <1>4, <2>1 DEF Knows, StartedCalls, Released, Types, CallRow, store
  <2>3. QED
    BY <1>1, <1>2, <1>4, <2>2, ProceedStep
<1>5. CASE EndCall(c) /\ UNCHANGED store
  BY <1>1, <1>5, EndStep
<1>6. QED
  BY <1>3, <1>4, <1>5 DEF ReleaseBinding

LEMMA BooksCleanup ==
  ASSUME BookInv, NEW c \in Caller, Cleanup(c)
  PROVE  BookInv' /\ Onward
<1>1. /\ UNCHANGED <<store, foreign>> /\ branch' \in 0..2 /\ worktree' \in Executions
      /\ (branch = 2 => branch' = 2) /\ EndCall(c)
  BY DEF Cleanup, BookInv, Types, Executions
<1>2. QED
  BY <1>1, EndStep

-----------------------------------------------------------------------------
(* The Maker and its recovery. *)

\* A fenced transition, as ExecutionStep wants it.
LEMMA Moved ==
  ASSUME BookInv, NEW e \in Execution, NEW s, MoveExecution(e, s), Moves(e, s)
  PROVE  \E x \in ExecutionRow :
           /\ execution' = [execution EXCEPT ![e] = x]
           /\ x.state = s /\ Moves(e, x.state)
           /\ x.attempt = execution[e].attempt /\ x.result = execution[e].result
<1> DEFINE x == [execution[e] EXCEPT !.state = s, !.version = @ + 1]
<1>1. /\ execution[e] \in ExecutionRow /\ execution[e].version + 1 \in Nat
      /\ s \in States
  BY DEF BookInv, Types, ExecutionRow, Moves, States
<1>2. /\ x \in ExecutionRow /\ x.state = s
      /\ x.attempt = execution[e].attempt /\ x.result = execution[e].result
  BY <1>1 DEF ExecutionRow
<1>3. execution' = [execution EXCEPT ![e] = x]
  BY DEF MoveExecution
<1>4. QED
  BY <1>2, <1>3

\* A change of the attempt, as ExecutionStep wants it.
LEMMA AttemptChanged ==
  ASSUME BookInv, NEW e \in Execution, NEW s \in AttemptStatus,
         execution' = [execution EXCEPT ![e].attempt = s]
  PROVE  \E x \in ExecutionRow :
           /\ execution' = [execution EXCEPT ![e] = x]
           /\ x.state = execution[e].state /\ x.attempt = s /\ x.result = execution[e].result
<1> DEFINE x == [execution[e] EXCEPT !.attempt = s]
<1>1. execution[e] \in ExecutionRow
  BY DEF BookInv, Types
<1>2. /\ x \in ExecutionRow /\ x.state = execution[e].state
      /\ x.attempt = s /\ x.result = execution[e].result
  BY <1>1 DEF ExecutionRow
<1>3. execution' = [execution EXCEPT ![e] = x]
  OBVIOUS
<1>4. QED
  BY <1>1, <1>2, <1>3

LEMMA BooksLease ==
  ASSUME BookInv, NEW e \in Execution, AcquireLease(e) \/ LapseLease(e)
  PROVE  BookInv' /\ Onward
<1>1. execution[e] \in ExecutionRow /\ UNCHANGED <<slice, events, git, call>>
  BY DEF BookInv, Types, AcquireLease, LapseLease
<1>2. CASE AcquireLease(e)
  <2> DEFINE x == [execution[e] EXCEPT !.leased = TRUE, !.version = @ + 1]
  <2>0. execution[e].version + 1 \in Nat
    BY <1>1 DEF ExecutionRow
  <2>1. /\ x \in ExecutionRow /\ x.state = execution[e].state
        /\ x.attempt = execution[e].attempt /\ x.result = execution[e].result
    BY <1>1, <2>0 DEF ExecutionRow
  <2>2. execution' = [execution EXCEPT ![e] = x]
    BY <1>2 DEF AcquireLease
  <2> HIDE DEF x
  <2>3. QED
    BY <1>1, <2>1, <2>2, ExecutionStep
<1>3. CASE LapseLease(e)
  <2> DEFINE x == [execution[e] EXCEPT !.leased = FALSE]
  <2>1. /\ x \in ExecutionRow /\ x.state = execution[e].state
        /\ x.attempt = execution[e].attempt /\ x.result = execution[e].result
    BY <1>1 DEF ExecutionRow
  <2>2. execution' = [execution EXCEPT ![e] = x]
    BY <1>3 DEF LapseLease
  <2> HIDE DEF x
  <2>3. QED
    BY <1>1, <2>1, <2>2, ExecutionStep
<1>4. QED
  BY <1>2, <1>3

LEMMA BooksStartMaker ==
  ASSUME BookInv, NEW c \in Caller, NEW e \in Execution, StartMaker(c, e)
  PROVE  BookInv' /\ Onward
<1> DEFINE m == [NoCall EXCEPT !.pc = "launch", !.exec = e]
<1>1. /\ UNCHANGED <<store, foreign>> /\ branch' \in 0..2 /\ worktree' \in Executions /\ branch' = branch
      /\ execution[e].state = "READY" /\ call' = [call EXCEPT ![c] = m]
  BY DEF StartMaker, Start, git, BookInv, Types
<1>2. m \in CallRow /\ m.pc = "launch" /\ m.exec = e
  BY NoCallRow DEF CallRow, Stage, MakerCalls, StartedCalls, Executions
<1>3. call'[c] = m => Knows(c)'
  BY <1>1, <1>2 DEF Knows, StartedCalls, store
<1> HIDE DEF m
<1>4. QED
  BY <1>1, <1>2, <1>3, GitStep

LEMMA BooksRecoverResult ==
  ASSUME BookInv, NEW c \in Caller, NEW e \in Execution, RecoverResult(c, e)
  PROVE  BookInv' /\ Onward
<1>1. /\ UNCHANGED <<store, foreign>> /\ branch' \in 0..2 /\ worktree' \in Executions /\ branch' = branch
      /\ execution[e].state = "MAKER_RUNNING" /\ slice.active = e
      /\ slice.version \in Int /\ execution[e].version \in Int
  BY DEF RecoverResult, Orphaned, git, BookInv, Types, SliceRow, ExecutionRow
<1>2. CASE branch = 2 /\ Start(c, [NoCall EXCEPT !.pc = "finalize", !.exec = e, !.ver = slice.version,
                                                 !.xver = execution[e].version])
  <2> DEFINE m == [NoCall EXCEPT !.pc = "finalize", !.exec = e, !.ver = slice.version,
                                 !.xver = execution[e].version]
  <2>1. m \in CallRow /\ m.pc = "finalize" /\ m.exec = e
    BY <1>1, NoCallRow DEF CallRow, Stage, MakerCalls, StartedCalls, Executions
  <2>2. call' = [call EXCEPT ![c] = m]
    BY <1>2 DEF Start
  <2>3. call'[c] = m => Knows(c)'
    BY <1>1, <1>2, <2>1 DEF Knows, StartedCalls, store
  <2> HIDE DEF m
  <2>4. QED
    BY <1>1, <2>1, <2>2, <2>3, GitStep
<1>3. CASE execution[e].result # 0 /\ Start(c, [NoCall EXCEPT !.pc = "verifying", !.exec = e])
  <2> DEFINE m == [NoCall EXCEPT !.pc = "verifying", !.exec = e]
  <2>1. m \in CallRow /\ m.pc = "verifying" /\ m.exec = e
    BY <1>1, NoCallRow DEF CallRow, Stage, MakerCalls, StartedCalls, Executions
  <2>2. call' = [call EXCEPT ![c] = m]
    BY <1>3 DEF Start
  <2>3. call'[c] = m => Knows(c)'
    BY <1>1, <1>3, <2>1 DEF Knows, StartedCalls, store
  <2> HIDE DEF m
  <2>4. QED
    BY <1>1, <2>1, <2>2, <2>3, GitStep
<1>4. QED
  BY <1>2, <1>3 DEF RecoverResult

LEMMA BooksLaunch ==
  ASSUME BookInv, NEW c \in Caller, Launch(c)
  PROVE  BookInv' /\ Onward
<1> DEFINE e == call[c].exec
<1>1. /\ UNCHANGED <<slice, events, git, foreign>> /\ branch' \in 0..2 /\ worktree' \in Executions /\ branch' = branch
      /\ Types /\ RowsFit /\ Knows(c) /\ call[c].pc = "launch" /\ e \in Execution
  BY DEF Launch, git, BookInv, Types, Knows
<1>2. CASE execution[e].state = "READY" /\ MoveExecution(e, "MAKER_RUNNING") /\ Proceed(c, "register")
  <2>1. Moves(e, "MAKER_RUNNING") /\ slice.active = e
    BY <1>1, <1>2 DEF Moves, OpenState, RowsFit
  <2>2. PICK x \in ExecutionRow :
          /\ execution' = [execution EXCEPT ![e] = x]
          /\ x.state = "MAKER_RUNNING" /\ Moves(e, x.state)
          /\ x.attempt = execution[e].attempt /\ x.result = execution[e].result
    BY <1>1, <1>2, <2>1, Moved
  <2>3. "register" \in Stage
    BY DEF Stage, MakerCalls, StartedCalls
  <2>4. PICK m \in CallRow : call' = [call EXCEPT ![c] = m] /\ m = [call[c] EXCEPT !.pc = "register"]
    BY <1>1, <1>2, <2>3, Proceeds
  <2>5. m.pc = "register" /\ m.exec = e
    BY <1>1, <2>4 DEF Types, CallRow
  <2>6. execution'[e] = x /\ call'[c] = m => Knows(c)'
    BY <1>1, <2>1, <2>2, <2>5 DEF Knows, StartedCalls
  <2>7. QED
    BY <1>1, <2>2, <2>4, <2>6, ExecutionCallStep
<1>3. CASE EndCall(c) /\ UNCHANGED execution
  BY <1>1, <1>3, EndStep DEF store
<1>4. QED
  BY <1>2, <1>3 DEF Launch

LEMMA BooksRegisterAttempt ==
  ASSUME BookInv, NEW c \in Caller, RegisterAttempt(c)
  PROVE  BookInv' /\ Onward
<1> DEFINE e == call[c].exec
<1>1. /\ UNCHANGED <<slice, events, git>> /\ Types /\ Knows(c) /\ call[c].pc = "register" /\ e \in Execution
      /\ execution[e].state \notin {"ABSENT", "READY"} /\ slice.active = e /\ Proceed(c, "run")
      /\ execution' = [execution EXCEPT ![e].attempt = "RUNNING"]
  BY DEF RegisterAttempt, BookInv, Knows, StartedCalls
<1>2. "RUNNING" \in AttemptStatus /\ "run" \in Stage
  BY DEF AttemptStatus, Stage, MakerCalls, StartedCalls
<1>3. PICK x \in ExecutionRow :
        /\ execution' = [execution EXCEPT ![e] = x]
        /\ x.state = execution[e].state /\ x.attempt = "RUNNING" /\ x.result = execution[e].result
  BY <1>1, <1>2, AttemptChanged
<1>4. PICK m \in CallRow : call' = [call EXCEPT ![c] = m] /\ m = [call[c] EXCEPT !.pc = "run"]
  BY <1>1, <1>2, Proceeds
<1>5. m.pc = "run" /\ m.exec = e
  BY <1>1, <1>4 DEF Types, CallRow
<1>6. execution'[e] = x /\ call'[c] = m => Knows(c)'
  BY <1>1, <1>3, <1>5 DEF Knows, StartedCalls
<1>7. QED
  BY <1>1, <1>3, <1>4, <1>6, ExecutionCallStep

LEMMA BooksCompleteMaker ==
  ASSUME BookInv, NEW c \in Caller, CompleteMaker(c)
  PROVE  BookInv' /\ Onward
<1>1. /\ UNCHANGED <<store, foreign>> /\ branch' \in 0..2 /\ worktree' \in Executions /\ branch' = branch
      /\ Types /\ Knows(c) /\ call[c].pc = "run" /\ Proceed(c, "commit")
  BY DEF CompleteMaker, BookInv, Types, git
<1>2. "commit" \in Stage
  BY DEF Stage, MakerCalls, StartedCalls
<1>3. call'[c] = [call[c] EXCEPT !.pc = "commit"] => Knows(c)'
  BY <1>1 DEF Knows, StartedCalls, Types, CallRow, store
<1>4. QED
  BY <1>1, <1>2, <1>3, ProceedStep

LEMMA BooksCommit ==
  ASSUME BookInv, NEW c \in Caller, Commit(c)
  PROVE  BookInv' /\ Onward
<1>1. /\ UNCHANGED <<store, foreign>> /\ branch' = 2 /\ worktree' \in Executions /\ Proceed(c, "finish")
      /\ Types /\ Knows(c) /\ call[c].pc = "commit"
  BY DEF Commit, BookInv, Types
<1>2. branch' \in 0..2 /\ "finish" \in Stage
  BY <1>1 DEF Stage, MakerCalls, StartedCalls
<1>3. call'[c] = [call[c] EXCEPT !.pc = "finish"] => Knows(c)'
  BY <1>1 DEF Knows, StartedCalls, Types, CallRow, store
<1>4. QED
  BY <1>1, <1>2, <1>3, ProceedStep

LEMMA BooksReject ==
  ASSUME BookInv, NEW c \in Caller, Reject(c)
  PROVE  BookInv' /\ Onward
<1> DEFINE e == call[c].exec
<1>1. /\ UNCHANGED <<slice, events, git>> /\ Types /\ Knows(c) /\ call[c].pc = "commit" /\ e \in Execution
      /\ execution[e].state \notin {"ABSENT", "READY"} /\ slice.active = e /\ Proceed(c, "failed")
      /\ execution' = [execution EXCEPT ![e].attempt = "FAILED"]
  BY DEF Reject, BookInv, Knows, StartedCalls
<1>2. "FAILED" \in AttemptStatus /\ "failed" \in Stage
  BY DEF AttemptStatus, Stage, MakerCalls, StartedCalls
<1>3. PICK x \in ExecutionRow :
        /\ execution' = [execution EXCEPT ![e] = x]
        /\ x.state = execution[e].state /\ x.attempt = "FAILED" /\ x.result = execution[e].result
  BY <1>1, <1>2, AttemptChanged
<1>4. PICK m \in CallRow : call' = [call EXCEPT ![c] = m] /\ m = [call[c] EXCEPT !.pc = "failed"]
  BY <1>1, <1>2, Proceeds
<1>5. m.pc = "failed" /\ m.exec = e
  BY <1>1, <1>4 DEF Types, CallRow
<1>6. execution'[e] = x /\ call'[c] = m => Knows(c)'
  BY <1>1, <1>3, <1>5 DEF Knows, StartedCalls
<1>7. QED
  BY <1>1, <1>3, <1>4, <1>6, ExecutionCallStep

\* The two transitions that end a Maker's call.
LEMMA BooksMakerEnds ==
  ASSUME BookInv, NEW c \in Caller, BlockMaker(c) \/ Verifying(c)
  PROVE  BookInv' /\ Onward
<1> DEFINE e == call[c].exec
<1>1. PICK s \in {"BLOCKED", "VERIFYING"} :
        /\ MoveExecution(e, s) /\ EndCall(c) /\ execution[e].state = "MAKER_RUNNING"
        /\ UNCHANGED <<slice, events, git>> /\ e \in Execution
        /\ s = "VERIFYING" => execution[e].result # 0
  BY DEF BlockMaker, Verifying, BookInv, Knows
<1>2. Moves(e, s)
  BY <1>1 DEF Moves, OpenState
<1>3. PICK x \in ExecutionRow :
        /\ execution' = [execution EXCEPT ![e] = x]
        /\ x.state = s /\ Moves(e, x.state)
        /\ x.attempt = execution[e].attempt /\ x.result = execution[e].result
  BY <1>1, <1>2, Moved
<1>4. call' = [call EXCEPT ![c] = NoCall] /\ NoCall \in CallRow
  BY <1>1, NoCallRow DEF EndCall
<1>5. call'[c] = NoCall => Knows(c)'
  BY DEF Knows, NoCall, StartedCalls
<1>6. QED
  BY <1>1, <1>3, <1>4, <1>5, ExecutionCallStep

LEMMA BooksFinishAttempt ==
  ASSUME BookInv, NEW c \in Caller, FinishAttempt(c)
  PROVE  BookInv' /\ Onward
<1> DEFINE e == call[c].exec
           m == [call[c] EXCEPT !.pc = "finalize", !.ver = slice.version, !.xver = execution[e].version]
<1>1. /\ UNCHANGED <<slice, events, git>> /\ Types /\ Knows(c) /\ call[c].pc = "finish" /\ e \in Execution
      /\ execution[e].state \notin {"ABSENT", "READY"} /\ slice.active = e /\ branch = 2
      /\ execution' = [execution EXCEPT ![e].attempt = "SUCCEEDED"]
      /\ call' = [call EXCEPT ![c] = m]
  BY DEF FinishAttempt, BookInv, Knows, StartedCalls
<1>2. "SUCCEEDED" \in AttemptStatus
  BY DEF AttemptStatus
<1>3. PICK x \in ExecutionRow :
        /\ execution' = [execution EXCEPT ![e] = x]
        /\ x.state = execution[e].state /\ x.attempt = "SUCCEEDED" /\ x.result = execution[e].result
  BY <1>1, <1>2, AttemptChanged
<1>4. slice.version \in Int /\ execution[e].version \in Int /\ call[c] \in CallRow
  BY <1>1 DEF Types, SliceRow, ExecutionRow
<1>5. m \in CallRow /\ m.pc = "finalize" /\ m.exec = e
  BY <1>4 DEF CallRow, Stage, MakerCalls, StartedCalls
<1>6. execution'[e] = x /\ call'[c] = m => Knows(c)'
  BY <1>1, <1>3, <1>5 DEF Knows, StartedCalls, git
<1> HIDE DEF m
<1>7. QED
  BY <1>1, <1>3, <1>5, <1>6, ExecutionCallStep

LEMMA BooksFinalize ==
  ASSUME BookInv, NEW c \in Caller, Finalize(c)
  PROVE  BookInv' /\ Onward
<1> DEFINE e == call[c].exec
<1>1. /\ UNCHANGED <<git, foreign>> /\ branch' \in 0..2 /\ worktree' \in Executions /\ branch' = branch
      /\ Types /\ RowsFit /\ EventsFit /\ e \in Execution /\ call[c].pc = "finalize" /\ Knows(c)
  BY DEF Finalize, BookInv, Types, git, Knows
<1>2. CASE FinalizeDeferred(e, call[c].xver, call[c].ver, 1) /\ Proceed(c, "verifying")
  <2>1. /\ events' \in Seq(SliceEvent)
        /\ \A i \in DOMAIN events : i \in DOMAIN events' /\ events'[i] = events[i]
        /\ \A i \in DOMAIN events' :
             \/ i \in DOMAIN events /\ events'[i] = events[i]
             \/ events'[i] = [reason |-> "RESULT", exec |-> e, wc |-> FALSE, bc |-> FALSE]
    <3>1. e \in Executions
      BY <1>1 DEF Executions
    <3>2. QED
      BY <1>1, <1>2, <3>1, Recorded DEF FinalizeDeferred
  <2>2. /\ slice' = [slice EXCEPT !.version = @ + 1, !.elig = "ELIGIBLE_BOUND", !.head = 2, !.result = 2]
        /\ slice.active = e /\ execution[e].state = "MAKER_RUNNING"
        /\ execution' = [execution EXCEPT ![e].result = 2, ![e].version = @ + 1]
    BY <1>2 DEF FinalizeDeferred
  <2> DEFINE x == [execution[e] EXCEPT !.result = 2, !.version = @ + 1]
  <2>3. /\ execution' \in [Execution -> ExecutionRow] /\ execution'[e] = x
        /\ \A y \in Execution \ {e} : execution'[y] = execution[y]
    <3>1. execution[e] \in ExecutionRow /\ execution[e].version + 1 \in Nat /\ 2 \in 0..2
      BY <1>1 DEF Types, ExecutionRow
    <3>2. x \in ExecutionRow
      BY <3>1 DEF ExecutionRow
    <3>3. execution' = [execution EXCEPT ![e] = x] /\ execution \in [Execution -> ExecutionRow]
      BY <1>1, <2>2 DEF Types
    <3> HIDE DEF x
    <3>4. QED
      BY <1>1, <3>2, <3>3
  <2>4. /\ execution'[e].state = execution[e].state /\ execution'[e].attempt = execution[e].attempt
        /\ execution'[e].result = 2
    BY <1>1, <2>3 DEF Types, ExecutionRow
  <2>5. slice' \in SliceRow /\ slice'.elig = "ELIGIBLE_BOUND" /\ slice'.head = 2 /\ slice'.result = 2
        /\ slice'.active = e
    <3>1. /\ slice \in SliceRow /\ slice.version + 1 \in Nat /\ 2 \in 0..2
          /\ "ELIGIBLE_BOUND" \in Eligibility
      BY <1>1 DEF Types, SliceRow, Eligibility
    <3>2. QED
      BY <2>2, <3>1 DEF SliceRow
  <2>6. ASSUME NEW y \in Execution
        PROVE  /\ execution'[y].state = execution[y].state /\ execution'[y].attempt = execution[y].attempt
               /\ IF y = e THEN execution'[y].result = 2 ELSE execution'[y].result = execution[y].result
               /\ slice'.active = y <=> slice.active = y
    BY <2>2, <2>3, <2>4, <2>5
  <2>7. Onward /\ EventsFit'
    <3>1. Onward
      BY <1>1, <2>1, <2>6 DEF Onward
    <3>2. \A i \in DOMAIN events' : events'[i].reason \in {"BIND", "RELEASE"} => i \in DOMAIN events /\ events'[i] = events[i]
      BY <2>1
    <3>3. QED
      BY <1>1, <2>1, <2>6, <3>1, <3>2 DEF EventsFit
  <2>8. RowsFit'
    <3>1. ASSUME NEW y \in Execution
          PROVE  /\ execution'[y].state \in OpenState \cup {"ACCEPTED"} => slice'.active = y
                 /\ execution'[y].state \in {"VERIFYING", "ACCEPTED"} => execution'[y].result # 0
                 /\ slice'.active = y => execution'[y].state # "ABSENT" /\ execution'[y].result = slice'.result
                 /\ execution'[y].state = "ABSENT" => execution'[y].attempt = "NONE" /\ execution'[y].result = 0
      <4>1. CASE y = e
        BY <2>2, <2>5, <2>6, <4>1
      <4>2. CASE y # e
        BY <1>1, <2>5, <2>6, <4>2 DEF RowsFit
      <4>3. QED
        BY <4>1, <4>2
    <3>2. slice'.active # NoExecution
      BY <1>1, <2>5, StoreAssumption
    <3>3. QED
      BY <2>5, <3>1, <3>2 DEF RowsFit
  <2>9. "verifying" \in Stage
    BY DEF Stage, MakerCalls, StartedCalls
  <2>10. PICK m \in CallRow : call' = [call EXCEPT ![c] = m] /\ m = [call[c] EXCEPT !.pc = "verifying"]
    BY <1>1, <1>2, <2>9, Proceeds
  <2>11. /\ call' \in [Caller -> CallRow] /\ call'[c] = m
         /\ \A d \in Caller \ {c} : call'[d] = call[d]
    BY <1>1, <2>10, CallChanged
  <2>12. Types'
    BY <1>1, <2>1, <2>3, <2>5, <2>11 DEF Types, git
  <2>13. ASSUME NEW d \in Caller PROVE Knows(d)'
    <3>1. CASE d = c
      <4>1. call'[c].pc = "verifying" /\ call'[c].exec = e
        BY <1>1, <2>10, <2>11 DEF Types, CallRow
      <4>2. QED
        BY <1>1, <2>2, <2>4, <2>5, <3>1, <4>1 DEF Knows, StartedCalls
    <3>2. CASE d # c
      BY <2>7, <2>11, <3>2, OthersKnow DEF BookInv
    <3>3. QED
      BY <3>1, <3>2
  <2>14. QED
    BY <2>7, <2>8, <2>12, <2>13 DEF BookInv
<1>3. CASE EndCall(c) /\ UNCHANGED store
  BY <1>1, <1>3, EndStep
<1>4. QED
  BY <1>2, <1>3 DEF Finalize

LEMMA BooksLoseMaker ==
  ASSUME BookInv, NEW e \in Execution, LoseMaker(e)
  PROVE  BookInv' /\ Onward
<1>1. /\ UNCHANGED <<slice, events, git, call>> /\ execution[e].state # "ABSENT"
      /\ execution' = [execution EXCEPT ![e].attempt = "FAILED"]
  BY DEF LoseMaker, Orphaned
<1>2. "FAILED" \in AttemptStatus
  BY DEF AttemptStatus
<1>3. PICK x \in ExecutionRow :
        /\ execution' = [execution EXCEPT ![e] = x]
        /\ x.state = execution[e].state /\ x.attempt = "FAILED" /\ x.result = execution[e].result
  BY <1>1, <1>2, AttemptChanged
<1>4. QED
  BY <1>1, <1>3, ExecutionStep

\* The transitions of the recovery, of the operator and of the acceptance.
LEMMA BooksMoves ==
  ASSUME BookInv, NEW e \in Execution, BlockOrphan(e) \/ CancelExecution(e) \/ Conclude(e)
  PROVE  BookInv' /\ Onward
<1>1. RowsFit
  BY DEF BookInv
<1>2. PICK s \in {"BLOCKED", "CANCELLED", "ACCEPTED"} :
        /\ MoveExecution(e, s) /\ UNCHANGED <<slice, events, git, call>>
        /\ Moves(e, s)
  BY <1>1 DEF BlockOrphan, Orphaned, CancelExecution, Conclude, Moves, OpenState, ClosedState, RowsFit
<1>3. PICK x \in ExecutionRow :
        /\ execution' = [execution EXCEPT ![e] = x]
        /\ Moves(e, x.state)
        /\ x.attempt = execution[e].attempt /\ x.result = execution[e].result
  BY <1>2, Moved
<1>4. QED
  BY <1>2, <1>3, ExecutionStep

LEMMA BooksReconcile ==
  ASSUME BookInv, Reconcile
  PROVE  BookInv' /\ Onward
<1>1. /\ slice' = [slice EXCEPT !.version = @ + 1] /\ UNCHANGED <<execution, git, call>>
      /\ Record("RECONCILE", NoExecution, FALSE, FALSE)
      /\ Types /\ RowsFit /\ EventsFit
  BY DEF Reconcile, ReconcileSlice, BookInv
<1>2. /\ events' \in Seq(SliceEvent)
      /\ \A i \in DOMAIN events : i \in DOMAIN events' /\ events'[i] = events[i]
      /\ \A i \in DOMAIN events' :
           \/ i \in DOMAIN events /\ events'[i] = events[i]
           \/ events'[i] = [reason |-> "RECONCILE", exec |-> NoExecution, wc |-> FALSE, bc |-> FALSE]
  <2>1. NoExecution \in Executions
    BY DEF Executions
  <2>2. QED
    BY <1>1, <2>1, Recorded
<1>3. /\ slice' \in SliceRow /\ slice'.elig = slice.elig /\ slice'.active = slice.active
      /\ slice'.head = slice.head /\ slice'.result = slice.result
  <2>1. slice \in SliceRow /\ slice.version + 1 \in Nat
    BY <1>1 DEF Types, SliceRow
  <2>2. QED
    BY <1>1, <2>1 DEF SliceRow
<1>4. Types' /\ Onward
  BY <1>1, <1>2, <1>3 DEF Types, git, Onward
<1>5. RowsFit'
  BY <1>1, <1>3 DEF RowsFit
<1>6. EventsFit'
  <2>1. \A i \in DOMAIN events' : events'[i].reason \in {"BIND", "RELEASE"} => i \in DOMAIN events /\ events'[i] = events[i]
    BY <1>2
  <2>2. QED
    BY <1>1, <1>2, <1>3, <2>1 DEF EventsFit
<1>7. \A d \in Caller : Knows(d)'
  BY <1>1, <1>4, OthersKnow DEF BookInv
<1>8. QED
  BY <1>4, <1>5, <1>6, <1>7 DEF BookInv

LEMMA BooksCrashCall ==
  ASSUME BookInv, NEW c \in Caller, CrashCall(c)
  PROVE  BookInv' /\ Onward
<1>1. /\ UNCHANGED <<store, foreign>> /\ branch' \in 0..2 /\ worktree' \in Executions /\ branch' = branch
      /\ EndCall(c)
  BY DEF CrashCall, BookInv, Types, git
<1>2. QED
  BY <1>1, EndStep

LEMMA BooksStep ==
  ASSUME BookInv, BindingNext
  PROVE  BookInv' /\ Onward
BY BooksReconcile, BooksLease, BooksLoseMaker, BooksMoves, BooksStartBind, BooksStartRelease,
   BooksRetryRelease, BooksStartMaker, BooksRecoverResult, BooksInspectGit, BooksMakeBranch,
   BooksAddWorktree, BooksPersist, BooksCompensate, BooksDeleteBranch, BooksReleaseBinding,
   BooksCleanup, BooksLaunch, BooksRegisterAttempt, BooksCompleteMaker, BooksCommit, BooksReject, BooksMakerEnds,
   BooksFinishAttempt, BooksFinalize, BooksCrashCall, ZenonT(60) DEF BindingNext

LEMMA BooksInitially == BindingInit => BookInv
<1> SUFFICES ASSUME BindingInit PROVE BookInv
  OBVIOUS
<1> DEFINE first == [reason |-> "REGISTER", exec |-> NoExecution, wc |-> FALSE, bc |-> FALSE]
<1>1. /\ slice = [version |-> 0, elig |-> "INELIGIBLE_UNTIL_PREFLIGHT", active |-> NoExecution,
                  head |-> 0, result |-> 0]
      /\ events = <<first>>
      /\ execution = [e \in Execution |->
           [state |-> "ABSENT", version |-> 0, leased |-> FALSE, attempt |-> "NONE", result |-> 0]]
      /\ call = [c \in Caller |-> NoCall]
      /\ branch \in 0..2 /\ worktree \in Executions /\ foreign \subseteq {"branch", "worktree"}
  BY DEF BindingInit, StoreInit, Executions
<1>2. first \in SliceEvent
  BY DEF SliceEvent
<1>3. events \in Seq(SliceEvent) /\ \A i \in DOMAIN events : events[i].reason = "REGISTER"
  BY <1>1, <1>2
<1>4. Types
  BY <1>1, <1>3, NoCallRow
     DEF Types, SliceRow, ExecutionRow, Executions, States, AttemptStatus, Eligibility
<1>5. RowsFit
  BY <1>1, StoreAssumption DEF RowsFit, OpenState
<1>6. EventsFit
  BY <1>1, <1>3 DEF EventsFit
<1>7. \A c \in Caller : Knows(c)
  BY <1>1 DEF Knows, NoCall, StartedCalls
<1>8. QED
  BY <1>4, <1>5, <1>6, <1>7 DEF BookInv

-----------------------------------------------------------------------------
(* The books, for every behaviour. *)

\* The strengthened invariant: types, rows, events and what processes know.
THEOREM BookInvariant == BindingSpec => []BookInv
<1>1. ASSUME BookInv, [BindingNext]_bindingVars PROVE BookInv'
  <2>1. CASE BindingNext
    BY <1>1, <2>1, BooksStep
  <2>2. CASE UNCHANGED bindingVars
    BY <1>1, <2>2
       DEF bindingVars, store, git, BookInv, Types, RowsFit, EventsFit, Knows, Released
  <2>3. QED
    BY <1>1, <2>1, <2>2
<1>2. QED
  BY <1>1, BooksInitially, PTL DEF BindingSpec

\* The type invariant of the module.
THEOREM BindingTypes == BindingSpec => []BindingTypeOK
<1>1. ASSUME BookInv PROVE BindingTypeOK
  <2>1. Types
    BY <1>1 DEF BookInv
  <2>2. StoreTypeOK
    BY <2>1 DEF Types, StoreTypeOK, SliceRow, ExecutionRow, Executions, States
  <2>3. ASSUME NEW c \in Caller
        PROVE  /\ call[c].pc \in Stage
               /\ call[c].exec \in Execution \cup {NoExecution}
               /\ call[c].wc \in BOOLEAN /\ call[c].bc \in BOOLEAN
    BY <2>1, CallFields DEF Executions
  <2>4. QED
    BY <2>1, <2>2, <2>3
       DEF Types, BindingTypeOK, Executions, Stage, BindingCalls, ReleaseCalls, MakerCalls, StartedCalls
<1>2. QED
  BY <1>1, BookInvariant, PTL

(* Slice row and execution row never tell two stories: whatever calls race *)
(* or die, an open or accepted execution is the active one of the slice, a *)
(* cancelled one may stay so but a released one is not, and the result of  *)
(* finalize_deferred_result_commit is on both rows or neither.             *)
THEOREM RowsAlwaysAgree == BindingSpec => []RowsAgree
<1>1. ASSUME BookInv PROVE RowsAgree
  <2>1. RowsFit /\ EventsFit /\ slice.elig \in Eligibility
    BY <1>1 DEF BookInv, Types, SliceRow
  <2>2. \A e \in Execution : slice.active = e => ~Released(e)
    BY <2>1 DEF EventsFit, Released
  <2>3. QED
    BY <2>1, <2>2, StoreAssumption DEF RowsFit, RowsAgree, Eligibility
<1>2. QED
  BY <1>1, BookInvariant, PTL

(* No step takes the slice from an execution that has a Maker's attempt or *)
(* has left READY: release_deferred_preexecution_binding asks for one that *)
(* is untouched, and bind_deferred_execution for a slice that is free.     *)
THEOREM SliceIsKept == BindingSpec => MakerKeepsSlice
<1>1. ASSUME BookInv, [BindingNext]_bindingVars, ~KeepsSlice
      PROVE  FALSE
  <2>1. PICK e \in Execution : /\ slice.active = e /\ slice'.active # e
                               /\ execution[e].attempt # "NONE" \/ execution[e].state # "READY"
    BY <1>1 DEF KeepsSlice
  <2>2. slice' # slice
    BY <2>1
  <2>3. BindingNext
    BY <1>1, <2>2 DEF bindingVars, store
  <2>4. \/ ReconcileSlice(slice.version)
        \/ \E c \in Caller :
             \/ BindDeferred(call[c].exec, call[c].ver, call[c].wc, call[c].bc)
             \/ ReleaseDeferred(call[c].exec, call[c].xver, call[c].ver)
             \/ FinalizeDeferred(call[c].exec, call[c].xver, call[c].ver, 1)
    <3>1. ASSUME NEW x \in Execution,
                 \/ AcquireLease(x) \/ LapseLease(x) \/ LoseMaker(x) \/ BlockOrphan(x)
                 \/ CancelExecution(x) \/ Conclude(x)
          PROVE  FALSE
      BY <2>2, <3>1
         DEF AcquireLease, LapseLease, LoseMaker, BlockOrphan, CancelExecution, Conclude
    <3>2. ASSUME NEW c \in Caller, NEW x \in Execution,
                 \/ StartBind(c, x) \/ StartRelease(c, x) \/ RetryRelease(c, x)
                 \/ StartMaker(c, x) \/ RecoverResult(c, x)
          PROVE  FALSE
      BY <2>2, <3>2 DEF StartBind, StartRelease, RetryRelease, StartMaker, RecoverResult, store
    <3>3. ASSUME NEW c \in Caller,
                 \/ InspectGit(c) \/ MakeBranch(c) \/ AddWorktree(c) \/ Compensate(c) \/ DeleteBranch(c)
                 \/ Cleanup(c) \/ Launch(c) \/ RegisterAttempt(c) \/ CompleteMaker(c) \/ Commit(c)
                 \/ Reject(c) \/ BlockMaker(c) \/ FinishAttempt(c) \/ Verifying(c) \/ CrashCall(c)
          PROVE  FALSE
      BY <2>2, <3>3
         DEF InspectGit, MakeBranch, AddWorktree, Compensate, DeleteBranch, Cleanup, Launch,
             RegisterAttempt, CompleteMaker, Commit, Reject, BlockMaker, FinishAttempt, Verifying,
             CrashCall, store
    <3>4. Reconcile => ReconcileSlice(slice.version)
      BY DEF Reconcile
    <3>5. ASSUME NEW c \in Caller, Persist(c) \/ ReleaseBinding(c) \/ Finalize(c)
          PROVE  \/ BindDeferred(call[c].exec, call[c].ver, call[c].wc, call[c].bc)
                 \/ ReleaseDeferred(call[c].exec, call[c].xver, call[c].ver)
                 \/ FinalizeDeferred(call[c].exec, call[c].xver, call[c].ver, 1)
      BY <2>2, <3>5 DEF Persist, ReleaseBinding, Finalize, store
    <3>6. QED
      BY <2>3, <3>1, <3>2, <3>3, <3>4, <3>5, Zenon DEF BindingNext
  <2>5. slice \in SliceRow
    BY <1>1 DEF BookInv, Types
  <2>6. QED
    BY <2>1, <2>4, <2>5, StoreAssumption
       DEF ReconcileSlice, BindDeferred, ReleaseDeferred, Untouched, FinalizeDeferred, SliceRow
<1>2. QED
  BY <1>1, BookInvariant, PTL DEF BindingSpec, MakerKeepsSlice

-----------------------------------------------------------------------------
(* A human's branch and worktree. *)

(* Where a claim on an artifact comes from: a process or an event claims   *)
(* what one claimed before, or what was not there; and only what some      *)
(* process claims is removed.                                              *)
Claimed(kind) ==
  IF kind = "branch"
  THEN branch = 0 \/ (\E c \in Caller : call[c].bc) \/ (\E i \in DOMAIN events : events[i].bc)
  ELSE worktree = NoExecution \/ (\E c \in Caller : call[c].wc) \/ (\E i \in DOMAIN events : events[i].wc)

RespectsBranch ==
  Claimed("branch") \/
    /\ \A c \in Caller : ~call'[c].bc
    /\ \A i \in DOMAIN events' : ~events'[i].bc
    /\ branch' # 0

RespectsWorktree ==
  Claimed("worktree") \/
    /\ \A c \in Caller : ~call'[c].wc
    /\ \A i \in DOMAIN events' : ~events'[i].wc
    /\ worktree' = worktree

Respects == RespectsBranch /\ RespectsWorktree

\* A call that does not change, ends, goes on or claims no more than before.
Unclaiming ==
  \/ UNCHANGED call
  \/ \E c \in Caller : \/ EndCall(c)
                       \/ \E pc \in Stage : Proceed(c, pc)
                       \/ \E m \in CallRow : /\ call' = [call EXCEPT ![c] = m]
                                             /\ (m.wc => call[c].wc) /\ (m.bc => call[c].bc)

LEMMA ClaimsKept ==
  ASSUME Types, Unclaiming, NEW d \in Caller
  PROVE  (call'[d].wc => call[d].wc) /\ (call'[d].bc => call[d].bc)
<1>1. CASE UNCHANGED call
  BY <1>1
<1>2. ASSUME NEW c \in Caller, NEW m \in CallRow, call' = [call EXCEPT ![c] = m],
             (m.wc => call[c].wc) /\ (m.bc => call[c].bc)
      PROVE  (call'[d].wc => call[d].wc) /\ (call'[d].bc => call[d].bc)
  BY <1>2, CallChanged
<1>3. ASSUME NEW c \in Caller, EndCall(c)
      PROVE  (call'[d].wc => call[d].wc) /\ (call'[d].bc => call[d].bc)
  <2>1. ~NoCall.wc /\ ~NoCall.bc
    BY DEF NoCall
  <2>2. QED
    BY <1>2, <1>3, <2>1, NoCallRow DEF EndCall
<1>4. ASSUME NEW c \in Caller, NEW pc \in Stage, Proceed(c, pc)
      PROVE  (call'[d].wc => call[d].wc) /\ (call'[d].bc => call[d].bc)
  <2>1. PICK m \in CallRow : call' = [call EXCEPT ![c] = m] /\ m = [call[c] EXCEPT !.pc = pc]
    BY <1>4, Proceeds
  <2>2. m.wc = call[c].wc /\ m.bc = call[c].bc
    BY <2>1 DEF Types, CallRow
  <2>3. QED
    BY <1>2, <2>1, <2>2
<1>5. QED
  BY <1>1, <1>2, <1>3, <1>4 DEF Unclaiming

\* A step that leaves Git and the events alone and makes no claim.
LEMMA RespectsQuietly ==
  ASSUME Types, UNCHANGED <<events, worktree>>, branch' = 0 => branch = 0, Unclaiming
  PROVE  Respects
<1>1. \A d \in Caller : (call'[d].wc => call[d].wc) /\ (call'[d].bc => call[d].bc)
  BY ClaimsKept
<1>2. RespectsBranch
  BY <1>1 DEF RespectsBranch, Claimed
<1>3. RespectsWorktree
  BY <1>1 DEF RespectsWorktree, Claimed
<1>4. QED
  BY <1>2, <1>3 DEF Respects

\* A step that leaves Git and the events alone and claims what event i claims.
LEMMA RespectsEvent ==
  ASSUME Types, UNCHANGED <<events, branch, worktree>>, NEW c \in Caller, NEW m \in CallRow,
         call' = [call EXCEPT ![c] = m], NEW i \in DOMAIN events,
         m.wc = events[i].wc, m.bc = events[i].bc
  PROVE  Respects
<1>1. call'[c] = m /\ \A d \in Caller \ {c} : call'[d] = call[d]
  BY CallChanged
<1>2. RespectsBranch
  BY <1>1 DEF RespectsBranch, Claimed
<1>3. RespectsWorktree
  BY <1>1 DEF RespectsWorktree, Claimed
<1>4. QED
  BY <1>2, <1>3 DEF Respects

\* A transaction that records an event with the claims of a call, if any.
LEMMA RespectsRecord ==
  ASSUME Types, UNCHANGED git, NEW reason \in {"RECONCILE", "BIND", "RELEASE", "RESULT"},
         NEW e \in Executions, NEW wc \in BOOLEAN, NEW bc \in BOOLEAN, Record(reason, e, wc, bc),
         wc => \E c \in Caller : call[c].wc,
         bc => \E c \in Caller : call[c].bc,
         Unclaiming
  PROVE  Respects
<1>1. \A d \in Caller : (call'[d].wc => call[d].wc) /\ (call'[d].bc => call[d].bc)
  BY ClaimsKept
<1>2. \A i \in DOMAIN events' :
        \/ i \in DOMAIN events /\ events'[i] = events[i]
        \/ events'[i].wc = wc /\ events'[i].bc = bc
  BY Recorded
<1>3. RespectsBranch
  BY <1>1, <1>2 DEF RespectsBranch, Claimed, git
<1>4. RespectsWorktree
  BY <1>1, <1>2 DEF RespectsWorktree, Claimed, git
<1>5. QED
  BY <1>3, <1>4 DEF Respects

\* The calls that change Git.
LEMMA RespectsGit ==
  ASSUME BookInv, NEW c \in Caller,
         MakeBranch(c) \/ AddWorktree(c) \/ Compensate(c) \/ DeleteBranch(c) \/ Cleanup(c)
  PROVE  Respects
<1>1. Types /\ Knows(c) /\ UNCHANGED events
  BY DEF BookInv, MakeBranch, AddWorktree, Compensate, DeleteBranch, Cleanup, store
<1>2. call[c] \in CallRow /\ NoCall \in CallRow /\ ~NoCall.wc /\ ~NoCall.bc
  BY <1>1, NoCallRow DEF Types, NoCall
<1>3. CASE /\ EndCall(c)
           /\ branch' = 0 => branch = 0 \/ call[c].bc
           /\ worktree' # worktree => call[c].wc
  <2>1. \A d \in Caller : (call'[d].wc => call[d].wc) /\ (call'[d].bc => call[d].bc)
    BY <1>1, <1>3, ClaimsKept DEF Unclaiming
  <2>2. RespectsBranch
    BY <1>1, <1>3, <2>1 DEF RespectsBranch, Claimed
  <2>3. RespectsWorktree
    BY <1>1, <1>3, <2>1 DEF RespectsWorktree, Claimed
  <2>4. QED
    BY <2>2, <2>3 DEF Respects
<1>4. CASE MakeBranch(c) /\ branch = 0 /\ UNCHANGED worktree
           /\ call' = [call EXCEPT ![c].pc = "add", ![c].bc = TRUE, ![c].made = TRUE]
  <2> DEFINE m == [call[c] EXCEPT !.pc = "add", !.bc = TRUE, !.made = TRUE]
  <2>1. m \in CallRow /\ m.wc = call[c].wc
    BY <1>2 DEF CallRow, Stage, BindingCalls
  <2>2. call' = [call EXCEPT ![c] = m]
    BY <1>4
  <2> HIDE DEF m
  <2>3. call'[c] = m /\ \A d \in Caller \ {c} : call'[d] = call[d]
    BY <1>1, <2>1, <2>2, CallChanged
  <2>4. RespectsBranch
    BY <1>4 DEF RespectsBranch, Claimed
  <2>5. RespectsWorktree
    BY <1>1, <1>4, <2>1, <2>3 DEF RespectsWorktree, Claimed
  <2>6. QED
    BY <2>4, <2>5 DEF Respects
<1>5. CASE AddWorktree(c) /\ worktree = NoExecution /\ UNCHANGED branch
           /\ call' = [call EXCEPT ![c].pc = "persist", ![c].wc = TRUE, ![c].made = TRUE]
  <2> DEFINE m == [call[c] EXCEPT !.pc = "persist", !.wc = TRUE, !.made = TRUE]
  <2>1. m \in CallRow /\ m.bc = call[c].bc
    BY <1>2 DEF CallRow, Stage, BindingCalls
  <2>2. call' = [call EXCEPT ![c] = m]
    BY <1>5
  <2> HIDE DEF m
  <2>3. call'[c] = m /\ \A d \in Caller \ {c} : call'[d] = call[d]
    BY <1>1, <2>1, <2>2, CallChanged
  <2>4. RespectsBranch
    BY <1>1, <1>5, <2>1, <2>3 DEF RespectsBranch, Claimed
  <2>5. RespectsWorktree
    BY <1>5 DEF RespectsWorktree, Claimed
  <2>6. QED
    BY <2>4, <2>5 DEF Respects
<1>6. CASE Compensate(c) /\ Proceed(c, "unbranch") /\ call[c].bc
  <2>1. "unbranch" \in Stage /\ UNCHANGED branch
    BY <1>6 DEF Stage, BindingCalls, Compensate
  <2>2. \A d \in Caller : (call'[d].wc => call[d].wc) /\ (call'[d].bc => call[d].bc)
    BY <1>1, <1>6, <2>1, ClaimsKept DEF Unclaiming
  <2>3. worktree' # worktree => call[c].wc
    BY <1>6 DEF Compensate
  <2>4. RespectsBranch
    BY <1>6 DEF RespectsBranch, Claimed
  <2>5. RespectsWorktree
    BY <1>1, <2>2, <2>3 DEF RespectsWorktree, Claimed
  <2>6. QED
    BY <2>4, <2>5 DEF Respects
<1>7. CASE MakeBranch(c) \/ AddWorktree(c)
  BY <1>1, <1>3, <1>4, <1>5, <1>7 DEF MakeBranch, AddWorktree
<1>8. CASE Compensate(c)
  BY <1>1, <1>3, <1>6, <1>8 DEF Compensate
<1>9. CASE DeleteBranch(c) \/ Cleanup(c)
  BY <1>1, <1>3, <1>9 DEF DeleteBranch, Cleanup, Knows
<1>10. QED
  BY <1>7, <1>8, <1>9

\* The calls that start.
LEMMA RespectsStarts ==
  ASSUME BookInv, NEW c \in Caller, NEW e \in Execution,
         \/ StartBind(c, e) \/ StartRelease(c, e) \/ RetryRelease(c, e)
         \/ StartMaker(c, e) \/ RecoverResult(c, e)
  PROVE  Respects
<1>1. /\ BookInv' /\ Types /\ EventsFit /\ UNCHANGED <<events, branch, worktree>>
      /\ NoCall \in CallRow /\ ~NoCall.wc /\ ~NoCall.bc
      /\ \E m : call' = [call EXCEPT ![c] = m]
  BY BooksStartBind, BooksStartRelease, BooksRetryRelease, BooksStartMaker, BooksRecoverResult, NoCallRow
     DEF BookInv, StartBind, StartRelease, RetryRelease, StartMaker, RecoverResult, Start, store, git, NoCall
<1>2. PICK m : call' = [call EXCEPT ![c] = m]
  BY <1>1
<1>3. m = call'[c] /\ m \in CallRow
  BY <1>1, <1>2 DEF BookInv, Types
<1>4. CASE ~m.wc /\ ~m.bc
  BY <1>1, <1>2, <1>3, <1>4, RespectsQuietly DEF Unclaiming
<1>5. CASE Binding(e) # 0 /\ m.wc = events[Binding(e)].wc /\ m.bc = events[Binding(e)].bc
  <2>1. Binding(e) \in DOMAIN events
    BY <1>1, <1>5, BindingFinds
  <2>2. QED
    BY <1>1, <1>2, <1>3, <1>5, <2>1, RespectsEvent
<1>6. Binding(e) # 0 \/ ~Released(e)
  <2>1. Released(e) => execution[e].state = "CANCELLED"
    BY <1>1 DEF Released, EventsFit
  <2>2. QED
    BY <1>1, <2>1, BindingFinds DEF EventsFit
<1>7. \/ ~m.wc /\ ~m.bc
      \/ Binding(e) # 0 /\ m.wc = events[Binding(e)].wc /\ m.bc = events[Binding(e)].bc
  <2>0. \A n : call' = [call EXCEPT ![c] = n] => m = n
    BY <1>1, <1>3 DEF Types
  <2>1. CASE StartBind(c, e)
    <3>1. \/ m = [NoCall EXCEPT !.pc = "inspect", !.exec = e, !.ver = slice.version]
          \/ \E v : Binding(e) # 0 /\
               m = [NoCall EXCEPT !.pc = "persist", !.exec = e, !.ver = v,
                                  !.wc = events[Binding(e)].wc, !.bc = events[Binding(e)].bc]
      BY <2>0, <2>1 DEF StartBind, Start
    <3>2. QED
      BY <1>1, <3>1 DEF CallRow
  <2>2. CASE StartRelease(c, e)
    BY <1>1, <1>3, <2>2 DEF StartRelease, Start, CallRow, Types
  <2>3. CASE RetryRelease(c, e)
    BY <1>1, <1>3, <1>6, <2>3 DEF RetryRelease, Start, CallRow, Types
  <2>4. CASE StartMaker(c, e) \/ RecoverResult(c, e)
    <3>1. \/ m = [NoCall EXCEPT !.pc = "launch", !.exec = e]
          \/ m = [NoCall EXCEPT !.pc = "finalize", !.exec = e, !.ver = slice.version,
                                !.xver = execution[e].version]
          \/ m = [NoCall EXCEPT !.pc = "verifying", !.exec = e]
      BY <2>0, <2>4 DEF StartMaker, RecoverResult, Start
    <3>2. QED
      BY <1>1, <3>1 DEF CallRow
  <2>5. QED
    BY <2>1, <2>2, <2>3, <2>4
<1>8. QED
  BY <1>4, <1>5, <1>7

\* The steps that leave Git and the events as they are, or commit.
LEMMA RespectsRest ==
  ASSUME BookInv,
         \/ \E e \in Execution : \/ AcquireLease(e) \/ LapseLease(e)
                                 \/ LoseMaker(e) \/ BlockOrphan(e)
                                 \/ CancelExecution(e) \/ Conclude(e)
         \/ \E c \in Caller : \/ InspectGit(c) \/ Launch(c) \/ RegisterAttempt(c) \/ CompleteMaker(c) \/ Commit(c) \/ Reject(c)
                              \/ BlockMaker(c) \/ FinishAttempt(c) \/ Verifying(c) \/ CrashCall(c)
  PROVE  Respects
<1>1. Types
  BY DEF BookInv
<1>2. ASSUME NEW c \in Caller, FinishAttempt(c) PROVE Respects
  <2> DEFINE m == [call[c] EXCEPT !.pc = "finalize", !.ver = slice.version,
                                  !.xver = execution[call[c].exec].version]
  <2>1. m.wc = call[c].wc /\ m.bc = call[c].bc /\ call' = [call EXCEPT ![c] = m]
    BY <1>1, <1>2 DEF FinishAttempt, Types, CallRow
  <2>2. m = call'[c]
    BY <1>1, <2>1 DEF Types
  <2>3. m \in CallRow
    BY <1>2, <2>2, BooksFinishAttempt DEF BookInv, Types
  <2> HIDE DEF m
  <2>4. Unclaiming
    BY <2>1, <2>3 DEF Unclaiming
  <2>5. QED
    BY <1>1, <1>2, <2>4, RespectsQuietly DEF FinishAttempt, git
<1>3. ASSUME NEW c \in Caller,
             \/ InspectGit(c) \/ Launch(c) \/ RegisterAttempt(c) \/ CompleteMaker(c) \/ Commit(c) \/ Reject(c)
             \/ BlockMaker(c) \/ Verifying(c) \/ CrashCall(c)
      PROVE  Respects
  <2>1. {"persist", "branch", "add", "register", "run", "commit", "finish", "failed"} \subseteq Stage
    BY DEF Stage, BindingCalls, MakerCalls, StartedCalls
  <2>2. EndCall(c) \/ \E pc \in Stage : Proceed(c, pc)
    BY <1>3, <2>1
       DEF InspectGit, Launch, RegisterAttempt, CompleteMaker, Commit, Reject, BlockMaker, Verifying, CrashCall
  <2>3. UNCHANGED <<events, worktree>> /\ (branch' = 0 => branch = 0)
    BY <1>3 DEF InspectGit, Launch, RegisterAttempt, CompleteMaker, Commit, Reject, BlockMaker, Verifying, CrashCall,
                store, git
  <2>4. QED
    BY <1>1, <2>2, <2>3, RespectsQuietly DEF Unclaiming
<1>4. ASSUME NEW e \in Execution,
             \/ AcquireLease(e) \/ LapseLease(e) \/ LoseMaker(e) \/ BlockOrphan(e)
                                 \/ CancelExecution(e) \/ Conclude(e)
      PROVE  Respects
  <2>1. UNCHANGED <<events, worktree, branch, call>>
    BY <1>4 DEF AcquireLease, LapseLease, LoseMaker, BlockOrphan, CancelExecution, Conclude, git
  <2>2. QED
    BY <1>1, <2>1, RespectsQuietly DEF Unclaiming
<1>5. QED
  BY <1>2, <1>3, <1>4

\* The transactions of the slice.
LEMMA RespectsTransactions ==
  ASSUME BookInv,
         \/ Reconcile
         \/ \E c \in Caller : Persist(c) \/ ReleaseBinding(c) \/ Finalize(c)
  PROVE  Respects
<1>1. Types /\ NoExecution \in Executions
  BY DEF BookInv, Executions
<1>2. CASE Reconcile
  BY <1>1, <1>2, RespectsRecord DEF Reconcile, ReconcileSlice, Unclaiming
<1>3. ASSUME NEW c \in Caller, Persist(c) \/ ReleaseBinding(c) \/ Finalize(c)
      PROVE  Respects
  <2> DEFINE e == call[c].exec
  <2>1. e \in Executions /\ call[c].wc \in BOOLEAN /\ call[c].bc \in BOOLEAN /\ UNCHANGED git
    BY <1>1, <1>3, CallFields DEF Persist, ReleaseBinding, Finalize
  <2>2. Unclaiming
    <3>1. {"compensate", "cleanup", "verifying"} \subseteq Stage
      BY DEF Stage, BindingCalls, ReleaseCalls, MakerCalls, StartedCalls
    <3>2. EndCall(c) \/ \E pc \in Stage : Proceed(c, pc)
      BY <1>3, <3>1 DEF Persist, ReleaseBinding, Finalize
    <3>3. QED
      BY <3>2 DEF Unclaiming
  <2>3. \/ UNCHANGED events
        \/ Record("BIND", e, call[c].wc, call[c].bc)
        \/ Record("RELEASE", e, FALSE, FALSE)
        \/ Record("RESULT", e, FALSE, FALSE)
    BY <1>3 DEF Persist, ReleaseBinding, Finalize, BindDeferred, ReleaseDeferred, FinalizeDeferred, store
  <2>4. CASE UNCHANGED events
    BY <1>1, <2>1, <2>2, <2>4, RespectsQuietly DEF git
  <2>5. CASE Record("BIND", e, call[c].wc, call[c].bc)
    BY <1>1, <2>1, <2>2, <2>5, RespectsRecord
  <2>6. CASE Record("RELEASE", e, FALSE, FALSE) \/ Record("RESULT", e, FALSE, FALSE)
    BY <1>1, <2>1, <2>2, <2>6, RespectsRecord
  <2>7. QED
    BY <2>3, <2>4, <2>5, <2>6
<1>4. QED
  BY <1>2, <1>3

LEMMA RespectsStep ==
  ASSUME BookInv, BindingNext
  PROVE  Respects /\ UNCHANGED foreign
<1>1. Respects
  BY RespectsGit, RespectsStarts, RespectsRest, RespectsTransactions, ZenonT(60) DEF BindingNext
<1>2. UNCHANGED foreign
  <2>1. ASSUME NEW e \in Execution,
               \/ AcquireLease(e) \/ LapseLease(e) \/ LoseMaker(e) \/ BlockOrphan(e)
               \/ CancelExecution(e) \/ Conclude(e)
        PROVE  UNCHANGED foreign
    BY <2>1 DEF AcquireLease, LapseLease, LoseMaker, BlockOrphan, CancelExecution, Conclude, git
  <2>2. Reconcile => UNCHANGED foreign
    BY DEF Reconcile, git
  <2>3. ASSUME NEW c \in Caller, NEW e \in Execution,
               \/ StartBind(c, e) \/ StartRelease(c, e) \/ RetryRelease(c, e)
               \/ StartMaker(c, e) \/ RecoverResult(c, e)
        PROVE  UNCHANGED foreign
    BY <2>3 DEF StartBind, StartRelease, RetryRelease, StartMaker, RecoverResult, git
  <2>4. ASSUME NEW c \in Caller,
               \/ InspectGit(c) \/ MakeBranch(c) \/ AddWorktree(c) \/ Persist(c) \/ Compensate(c)
               \/ DeleteBranch(c) \/ ReleaseBinding(c) \/ Cleanup(c)
        PROVE  UNCHANGED foreign
    BY <2>4
       DEF InspectGit, MakeBranch, AddWorktree, Persist, Compensate, DeleteBranch, ReleaseBinding,
           Cleanup, git
  <2>5. ASSUME NEW c \in Caller,
               \/ Launch(c) \/ RegisterAttempt(c) \/ CompleteMaker(c) \/ Commit(c) \/ Reject(c)
               \/ BlockMaker(c) \/ FinishAttempt(c) \/ Finalize(c) \/ Verifying(c) \/ CrashCall(c)
        PROVE  UNCHANGED foreign
    BY <2>5
       DEF Launch, RegisterAttempt, CompleteMaker, Commit, Reject, BlockMaker, FinishAttempt, Finalize,
           Verifying, CrashCall, git
  <2>6. QED
    BY <2>1, <2>2, <2>3, <2>4, <2>5, Zenon DEF BindingNext
<1>3. QED
  BY <1>1, <1>2

\* What a human made is claimed by nobody, and so stays.
LEMMA ForeignStays ==
  ASSUME BookInv, ForeignFit, [BindingNext]_bindingVars
  PROVE  ForeignFit' /\ RemovesOwn
<1>1. CASE BindingNext
  <2>1. RespectsBranch /\ RespectsWorktree /\ UNCHANGED foreign
    BY <1>1, RespectsStep DEF Respects
  <2>2. /\ "branch" \in foreign => ~Claimed("branch")
        /\ "worktree" \in foreign => ~Claimed("worktree")
    BY StoreAssumption DEF ForeignFit, Claimed
  <2>3. QED
    BY <2>1, <2>2 DEF RespectsBranch, RespectsWorktree, ForeignFit, RemovesOwn
<1>2. CASE UNCHANGED bindingVars
  BY <1>2 DEF bindingVars, store, git, ForeignFit, RemovesOwn
<1>3. QED
  BY <1>1, <1>2

LEMMA ForeignInitially == BindingInit => ForeignFit
<1> SUFFICES ASSUME BindingInit PROVE ForeignFit
  OBVIOUS
<1>1. /\ \A c \in Caller : ~call[c].wc /\ ~call[c].bc
      /\ \A i \in DOMAIN events : ~events[i].wc /\ ~events[i].bc
  BY DEF BindingInit, StoreInit, NoCall
<1>2. QED
  BY <1>1 DEF BindingInit, ForeignFit

(* compensate_bound and cleanup_released, whatever crashed before them and *)
(* whatever calls race, remove only what the controller created.           *)
THEOREM OwnArtifacts == BindingSpec => OwnArtifactsOnly
<1>1. BindingSpec => [](BookInv /\ ForeignFit)
  <2>1. BookInv /\ ForeignFit /\ BookInv' /\ [BindingNext]_bindingVars => ForeignFit'
    BY ForeignStays
  <2>2. QED
    BY <2>1, BookInvariant, ForeignInitially, PTL DEF BindingSpec
<1>2. BookInv /\ ForeignFit /\ [BindingNext]_bindingVars => [RemovesOwn]_bindingVars
  BY ForeignStays
<1>3. QED
  BY <1>1, <1>2, PTL DEF BindingSpec, OwnArtifactsOnly

-----------------------------------------------------------------------------
(* The worktree of a bound execution, with one binding call at a time.     *)

\* The step of c changes no other call, and takes c to no stage of a binding call.
Only(c) == \A d \in Caller \ {c} : call'[d] = call[d]
Outside(c) == call'[c].pc \notin BindingCalls /\ Only(c)

LEMMA OnlyProceeds ==
  ASSUME Types, NEW c \in Caller, NEW pc \in Stage, Proceed(c, pc)
  PROVE  Only(c) /\ call'[c] = [call[c] EXCEPT !.pc = pc] /\ call'[c].pc = pc
<1>1. PICK m \in CallRow : call' = [call EXCEPT ![c] = m] /\ m = [call[c] EXCEPT !.pc = pc]
  BY Proceeds
<1>2. m.pc = pc
  BY <1>1 DEF Types, CallRow
<1>3. QED
  BY <1>1, <1>2, CallChanged DEF Only

LEMMA OnlyEnds ==
  ASSUME Types, NEW c \in Caller, EndCall(c)
  PROVE  Only(c) /\ Outside(c)
<1>1. NoCall.pc \notin BindingCalls
  BY DEF NoCall, BindingCalls
<1>2. QED
  BY <1>1, CallChanged, NoCallRow DEF Only, Outside, EndCall

\* A step that leaves the binding as it is.
Steady ==
  /\ UNCHANGED <<worktree, branch>>
  /\ slice'.active = slice.active /\ slice'.head = slice.head
  /\ \A e \in Execution : execution'[e].result = execution[e].result

LEMMA SteadyBound ==
  ASSUME Types, BoundHasWorktree, Steady, Onward
  PROVE  BoundHasWorktree'
<1>1. slice.active # NoExecution => slice.active \in Execution
  BY DEF Types, SliceRow, Executions
<1>2. QED
  BY <1>1 DEF BoundHasWorktree, Steady, Onward

\* What fits of another process stays so, unless two bind at a time.
LEMMA OthersFit ==
  ASSUME BookInv, GitFits, Onward, NEW c \in Caller, Only(c), NEW d \in Caller \ {c},
         \/ call[c].pc \in BindingCalls
         \/ /\ slice'.active \in {slice.active, NoExecution}
            /\ \/ UNCHANGED <<worktree, branch>>
               \/ worktree = call[c].exec /\ execution[call[c].exec].state # "ABSENT"
  PROVE  Fits(d)'
<1>1. call'[d] = call[d] /\ Fits(d) /\ Types /\ Knows(d)
  BY DEF Only, GitFits, BookInv
<1>2. call[d].pc \in BindingCalls \/ Fits(d)'
  BY <1>1 DEF Fits, Making, BindingCalls
<1>3. CASE call[d].pc \in BindingCalls
  <2>1. call[c].pc \notin BindingCalls
    BY <1>3 DEF GitFits, OneBinds
  <2>2. call[d].exec \in Execution
    BY <1>1, <1>3 DEF Knows, BindingCalls
  <2>3. execution'[call[d].exec].state = "ABSENT" => execution[call[d].exec].state = "ABSENT"
    BY <2>2 DEF Onward
  <2>4. QED
    BY <1>1, <2>1, <2>3 DEF Fits, Making
<1>4. QED
  BY <1>2, <1>3

\* A call that is outside binding fits.
LEMMA OutsideFits ==
  ASSUME GitFits, NEW c \in Caller, Outside(c)
  PROVE  OneBinds' /\ Fits(c)'
BY DEF GitFits, OneBinds, Outside, Only, Fits, Making, BindingCalls

LEMMA SteadyStep ==
  ASSUME BookInv, GitFits, Onward, Steady,
         UNCHANGED call \/ \E c \in Caller : Outside(c)
  PROVE  GitFits'
<1>1. BoundHasWorktree' /\ Types
  BY SteadyBound DEF GitFits, BookInv
<1>2. CASE UNCHANGED call
  <2>1. ASSUME NEW d \in Caller PROVE Fits(d)'
    <3>1. Fits(d) /\ Knows(d)
      BY DEF GitFits, BookInv
    <3>2. call[d].pc = "persist" /\ execution'[call[d].exec].state = "ABSENT"
            => execution[call[d].exec].state = "ABSENT"
      BY <3>1 DEF Knows, Onward
    <3>3. QED
      BY <1>2, <3>1, <3>2 DEF Fits, Making, Steady
  <2>2. OneBinds'
    BY <1>2 DEF GitFits, OneBinds
  <2>3. QED
    BY <1>1, <2>1, <2>2 DEF GitFits
<1>3. ASSUME NEW c \in Caller, Outside(c) PROVE GitFits'
  <2>1. OneBinds' /\ Fits(c)'
    BY <1>3, OutsideFits
  <2>2. \A d \in Caller \ {c} : Fits(d)'
    BY <1>3, OthersFit DEF Outside, Steady
  <2>3. QED
    BY <1>1, <2>1, <2>2 DEF GitFits
<1>4. QED
  BY <1>2, <1>3

\* The step of a binding call fits if it fits for the process itself.
LEMMA BindingStep ==
  ASSUME BookInv, GitFits, Onward, NEW c \in Caller, Only(c), call[c].pc \in BindingCalls,
         Fits(c)', BoundHasWorktree'
  PROVE  GitFits'
<1>1. OneBinds'
  BY DEF GitFits, OneBinds, Only
<1>2. \A d \in Caller \ {c} : Fits(d)'
  BY OthersFit
<1>3. QED
  BY <1>1, <1>2 DEF GitFits

\* What is in the making is not bound, whatever happens to it in Git.
LEMMA FreeStep ==
  ASSUME BookInv, GitFits, Onward, NEW c \in Caller, Only(c), call[c].pc \in BindingCalls,
         Making(c), UNCHANGED slice, Fits(c)'
  PROVE  GitFits'
<1>1. slice.active = NoExecution
  BY DEF GitFits, Fits
<1>2. BoundHasWorktree'
  BY <1>1 DEF BoundHasWorktree
<1>3. QED
  BY <1>2, BindingStep

\* The steps that leave Git and the binding as they are.
LEMMA GitSteady ==
  ASSUME BookInv, GitFits, Onward,
         \/ Reconcile
         \/ \E e \in Execution : \/ AcquireLease(e) \/ LapseLease(e)
                                 \/ LoseMaker(e) \/ BlockOrphan(e)
                                 \/ CancelExecution(e) \/ Conclude(e)
         \/ \E c \in Caller :
              \/ \E e \in Execution : \/ StartRelease(c, e) \/ RetryRelease(c, e)
                                      \/ StartMaker(c, e) \/ RecoverResult(c, e)
              \/ Launch(c) \/ RegisterAttempt(c) \/ CompleteMaker(c) \/ Reject(c)
              \/ BlockMaker(c) \/ FinishAttempt(c) \/ Verifying(c) \/ CrashCall(c)
  PROVE  GitFits'
<1>1. Types /\ slice \in SliceRow /\ execution \in [Execution -> ExecutionRow]
  BY DEF BookInv, Types
<1>2. CASE Reconcile
  <2>1. Steady /\ UNCHANGED call
    BY <1>1, <1>2 DEF Reconcile, ReconcileSlice, Steady, git, SliceRow
  <2>2. QED
    BY <2>1, SteadyStep
<1>3. ASSUME NEW e \in Execution,
             \/ AcquireLease(e) \/ LapseLease(e) \/ LoseMaker(e) \/ BlockOrphan(e)
                                 \/ CancelExecution(e) \/ Conclude(e)
      PROVE  GitFits'
  <2>1. UNCHANGED <<slice, git, call>>
    BY <1>3 DEF AcquireLease, LapseLease, LoseMaker, BlockOrphan, CancelExecution, Conclude
  <2>2. \A y \in Execution : execution'[y].result = execution[y].result
    BY <1>1, <1>3 DEF AcquireLease, LapseLease, LoseMaker, BlockOrphan, CancelExecution, Conclude, MoveExecution, ExecutionRow
  <2>3. Steady
    BY <2>1, <2>2 DEF Steady, git
  <2>4. QED
    BY <2>1, <2>3, SteadyStep
<1>4. ASSUME NEW c \in Caller, NEW e \in Execution,
             \/ StartRelease(c, e) \/ RetryRelease(c, e) \/ StartMaker(c, e) \/ RecoverResult(c, e)
      PROVE  GitFits'
  <2>1. Steady
    BY <1>4 DEF StartRelease, RetryRelease, StartMaker, RecoverResult, Steady, store, git
  <2>2. NoCall \in CallRow
    BY NoCallRow
  <2>3. Outside(c)
    <3>1. ASSUME NEW m, call' = [call EXCEPT ![c] = m],
                 m.pc \in {"release", "launch", "finalize", "verifying"}
          PROVE  Outside(c)
      BY <1>1, <3>1 DEF Outside, Only, Types, BindingCalls
    <3>2. CASE StartRelease(c, e)
      BY <2>2, <3>1, <3>2 DEF StartRelease, Start, CallRow
    <3>3. CASE RetryRelease(c, e)
      BY <2>2, <3>1, <3>3 DEF RetryRelease, Start, CallRow
    <3>4. CASE StartMaker(c, e)
      BY <2>2, <3>1, <3>4 DEF StartMaker, Start, CallRow
    <3>5. CASE RecoverResult(c, e)
      BY <2>2, <3>1, <3>5 DEF RecoverResult, Start, CallRow
    <3>6. QED
      BY <1>4, <3>2, <3>3, <3>4, <3>5
  <2>4. QED
    BY <2>1, <2>3, SteadyStep
<1>5. ASSUME NEW c \in Caller, Launch(c) \/ RegisterAttempt(c) \/ CompleteMaker(c) \/ Reject(c) \/ BlockMaker(c) \/ Verifying(c)
      PROVE  GitFits'
  <2>1. UNCHANGED <<slice, git>>
    BY <1>5 DEF Launch, RegisterAttempt, CompleteMaker, Reject, BlockMaker, Verifying, store
  <2>2. \A y \in Execution : execution'[y].result = execution[y].result
    <3>1. \/ UNCHANGED execution
          \/ \E s : MoveExecution(call[c].exec, s)
          \/ \E s : execution' = [execution EXCEPT ![call[c].exec].attempt = s]
      BY <1>5 DEF Launch, RegisterAttempt, CompleteMaker, Reject, BlockMaker, Verifying, store
    <3>2. ASSUME NEW s, MoveExecution(call[c].exec, s), NEW y \in Execution
          PROVE  execution'[y].result = execution[y].result
      BY <1>1, <3>2 DEF MoveExecution, ExecutionRow
    <3>3. ASSUME NEW s, execution' = [execution EXCEPT ![call[c].exec].attempt = s], NEW y \in Execution
          PROVE  execution'[y].result = execution[y].result
      BY <1>1, <3>3 DEF ExecutionRow
    <3>4. QED
      BY <3>1, <3>2, <3>3
  <2>3. Steady
    BY <2>1, <2>2 DEF Steady, git
  <2>4. EndCall(c) \/ \E pc \in {"register", "run", "commit", "failed"} : Proceed(c, pc)
    BY <1>5 DEF Launch, RegisterAttempt, CompleteMaker, Reject, BlockMaker, Verifying
  <2>5. {"register", "run", "commit", "failed"} \subseteq Stage \ BindingCalls
    BY DEF Stage, MakerCalls, StartedCalls, BindingCalls
  <2>6. Outside(c)
    BY <1>1, <2>4, <2>5, OnlyEnds, OnlyProceeds DEF Outside
  <2>7. QED
    BY <2>3, <2>6, SteadyStep
<1>6. ASSUME NEW c \in Caller, FinishAttempt(c)
      PROVE  GitFits'
  <2>1. \A y \in Execution : execution'[y].result = execution[y].result
    BY <1>1, <1>6 DEF FinishAttempt, ExecutionRow
  <2>2. Steady
    BY <1>6, <2>1 DEF Steady, git, FinishAttempt
  <2>3. Outside(c)
    <3> DEFINE m == [call[c] EXCEPT !.pc = "finalize", !.ver = slice.version,
                                    !.xver = execution[call[c].exec].version]
    <3>1. call' = [call EXCEPT ![c] = m]
      BY <1>6 DEF FinishAttempt
    <3>2. call \in [Caller -> CallRow] /\ m.pc = "finalize"
      BY <1>1 DEF Types, CallRow
    <3> HIDE DEF m
    <3>3. call'[c].pc = "finalize" /\ \A d \in Caller \ {c} : call'[d] = call[d]
      BY <3>1, <3>2
    <3>4. QED
      BY <3>3 DEF Outside, Only, BindingCalls
  <2>4. QED
    BY <2>2, <2>3, SteadyStep
<1>7. ASSUME NEW c \in Caller, CrashCall(c)
      PROVE  GitFits'
  BY <1>1, <1>7, OnlyEnds, SteadyStep DEF CrashCall, Steady, store, git
<1>8. QED
  BY <1>2, <1>3, <1>4, <1>5, <1>6, <1>7

LEMMA GitStartBind ==
  ASSUME Serial, BookInv, BookInv', GitFits, Onward, NEW c \in Caller, NEW e \in Execution, StartBind(c, e)
  PROVE  GitFits'
<1>1. /\ \A d \in Caller : call[d].pc \notin BindingCalls
      /\ Types /\ EventsFit /\ Steady /\ UNCHANGED <<store, git>>
  BY DEF StartBind, BookInv, Steady, store, git
<1>2. PICK m : /\ call' = [call EXCEPT ![c] = m]
               /\ \/ m = [NoCall EXCEPT !.pc = "inspect", !.exec = e, !.ver = slice.version]
                  \/ \E v : Binding(e) # 0 /\
                       m = [NoCall EXCEPT !.pc = "persist", !.exec = e, !.ver = v,
                                          !.wc = events[Binding(e)].wc, !.bc = events[Binding(e)].bc]
  BY DEF StartBind, Start
<1>3. call'[c] = m /\ Only(c)
  BY <1>1, <1>2 DEF Types, Only
<1>4. /\ ~m.made
      /\ m.pc = "inspect" \/ (m.pc = "persist" /\ m.exec = e /\ Binding(e) # 0)
  <2>1. NoCall \in CallRow /\ ~NoCall.made
    BY NoCallRow DEF NoCall
  <2>2. QED
    BY <1>2, <2>1 DEF CallRow
<1>5. Binding(e) # 0 => execution[e].state # "ABSENT"
  BY <1>1, BindingFinds DEF EventsFit
<1>6. OneBinds'
  BY <1>1, <1>3 DEF OneBinds, Only
<1>7. Fits(c)'
  BY <1>1, <1>3, <1>4, <1>5 DEF Fits, Making, store
<1>8. \A d \in Caller \ {c} : Fits(d)'
  BY <1>1, <1>3 DEF Fits, Making, Only, BindingCalls
<1>9. BoundHasWorktree'
  BY <1>1, SteadyBound DEF GitFits
<1>10. QED
  BY <1>6, <1>7, <1>8, <1>9 DEF GitFits

LEMMA GitInspect ==
  ASSUME BookInv, GitFits, Onward, NEW c \in Caller, InspectGit(c)
  PROVE  GitFits'
<1>1. /\ Types /\ Steady /\ call[c].pc \in BindingCalls /\ ~call[c].made
      /\ slice.active \in Executions /\ UNCHANGED <<store, git>>
      /\ BoundHasWorktree
  BY DEF InspectGit, BookInv, Steady, store, git, BindingCalls, Knows, Types, SliceRow, GitFits
<1>2. CASE EndCall(c)
  BY <1>1, <1>2, OnlyEnds, SteadyStep
<1>3. ASSUME NEW pc \in {"persist", "branch", "add"}, Proceed(c, pc),
             pc = "persist" => worktree = call[c].exec /\ branch = 1,
             pc # "persist" => worktree = NoExecution
      PROVE  GitFits'
  <2>1. pc \in Stage
    BY DEF Stage, BindingCalls
  <2>2. Only(c) /\ call'[c] = [call[c] EXCEPT !.pc = pc]
    BY <1>1, <1>3, <2>1, OnlyProceeds
  <2>3. call'[c].pc = pc /\ call'[c].exec = call[c].exec /\ ~call'[c].made
    BY <1>1, <2>2 DEF Types, CallRow
  <2>4. worktree = NoExecution => slice.active = NoExecution
    BY <1>1, StoreAssumption DEF BoundHasWorktree, Executions
  <2>5. Fits(c)'
    BY <1>1, <1>3, <2>3, <2>4 DEF Fits, Making, store, git
  <2>6. BoundHasWorktree'
    BY <1>1, SteadyBound
  <2>7. QED
    BY <1>1, <2>2, <2>5, <2>6, BindingStep
<1>4. QED
  BY <1>2, <1>3 DEF InspectGit

\* The steps that make or take away what is not bound.
LEMMA GitMakes ==
  ASSUME BookInv, GitFits, Onward, NEW c \in Caller,
         MakeBranch(c) \/ AddWorktree(c) \/ Compensate(c) \/ DeleteBranch(c)
  PROVE  GitFits'
<1>1. /\ Types /\ call[c].pc \in BindingCalls /\ Making(c) /\ UNCHANGED store
      /\ slice.active = NoExecution
  BY DEF MakeBranch, AddWorktree, Compensate, DeleteBranch, BookInv, BindingCalls, Making, GitFits, Fits
<1>2. CASE EndCall(c)
  <2>1. Only(c) /\ OneBinds' /\ Fits(c)'
    BY <1>1, <1>2, OnlyEnds, OutsideFits
  <2>2. QED
    BY <1>1, <2>1, FreeStep DEF store
<1>3. CASE MakeBranch(c) /\ call' = [call EXCEPT ![c].pc = "add", ![c].bc = TRUE, ![c].made = TRUE]
  <2>1. Only(c) /\ call'[c].pc = "add"
    BY <1>1, <1>3 DEF Types, CallRow, Only
  <2>2. Fits(c)'
    BY <1>1, <2>1 DEF Fits, store
  <2>3. QED
    BY <1>1, <2>1, <2>2, FreeStep DEF store
<1>4. CASE /\ AddWorktree(c) /\ worktree' = call[c].exec /\ branch = 1 /\ UNCHANGED branch
           /\ call' = [call EXCEPT ![c].pc = "persist", ![c].wc = TRUE, ![c].made = TRUE]
  <2>1. Only(c) /\ call'[c].pc = "persist" /\ call'[c].exec = call[c].exec
    BY <1>1, <1>4 DEF Types, CallRow, Only
  <2>2. Fits(c)'
    BY <1>1, <1>4, <2>1 DEF Fits, store
  <2>3. QED
    BY <1>1, <2>1, <2>2, FreeStep DEF store
<1>5. CASE Compensate(c) /\ Proceed(c, "unbranch")
  <2>1. "unbranch" \in Stage
    BY DEF Stage, BindingCalls
  <2>2. Only(c) /\ call'[c].pc = "unbranch"
    BY <1>1, <1>5, <2>1, OnlyProceeds
  <2>3. Fits(c)'
    BY <1>1, <2>2 DEF Fits, store
  <2>4. QED
    BY <1>1, <2>2, <2>3, FreeStep DEF store
<1>6. QED
  BY <1>2, <1>3, <1>4, <1>5 DEF MakeBranch, AddWorktree, Compensate, DeleteBranch

LEMMA GitPersist ==
  ASSUME BookInv, GitFits, Onward, NEW c \in Caller, Persist(c)
  PROVE  GitFits'
<1>1. /\ Types /\ call[c].pc = "persist" /\ call[c].pc \in BindingCalls /\ UNCHANGED git /\ Fits(c)
  BY DEF Persist, BookInv, BindingCalls, GitFits
<1>2. CASE BindDeferred(call[c].exec, call[c].ver, call[c].wc, call[c].bc) /\ EndCall(c)
  <2>1. Only(c) /\ Fits(c)'
    BY <1>1, <1>2, OnlyEnds, OutsideFits
  <2>2. worktree = call[c].exec /\ branch = 1
    BY <1>1, <1>2 DEF Fits, BindDeferred
  <2>3. slice'.active = call[c].exec /\ slice'.head = 1
    BY <1>2 DEF BindDeferred
  <2>4. BoundHasWorktree'
    BY <1>1, <2>2, <2>3 DEF BoundHasWorktree, git
  <2>5. QED
    BY <1>1, <2>1, <2>4, BindingStep
<1>3. CASE EndCall(c) /\ UNCHANGED store
  BY <1>1, <1>3, OnlyEnds, SteadyStep DEF Steady, store, git
<1>4. CASE call[c].made /\ Proceed(c, "compensate") /\ UNCHANGED store
  <2>1. "compensate" \in Stage /\ Making(c)
    BY <1>1, <1>4 DEF Stage, BindingCalls, Making
  <2>2. Only(c) /\ call'[c].pc = "compensate"
    BY <1>1, <1>4, <2>1, OnlyProceeds
  <2>3. Fits(c)'
    BY <1>1, <1>4, <2>1, <2>2 DEF Fits, store
  <2>4. QED
    BY <1>1, <1>4, <2>1, <2>2, <2>3, FreeStep DEF store
<1>5. QED
  BY <1>2, <1>3, <1>4 DEF Persist

\* The other steps that change the binding or Git.
LEMMA GitOthers ==
  ASSUME BookInv, GitFits, Onward, NEW c \in Caller,
         ReleaseBinding(c) \/ Cleanup(c) \/ Commit(c) \/ Finalize(c)
  PROVE  GitFits'
<1> DEFINE e == call[c].exec
<1>1. /\ Types /\ RowsFit /\ EventsFit /\ Knows(c) /\ BoundHasWorktree /\ e \in Execution
      /\ slice \in SliceRow /\ execution \in [Execution -> ExecutionRow]
  BY DEF BookInv, Types, GitFits, Knows, ReleaseBinding, Cleanup, Commit, Finalize
<1>2. {"cleanup", "finish", "verifying"} \subseteq Stage \ BindingCalls
  BY DEF Stage, ReleaseCalls, MakerCalls, StartedCalls, BindingCalls
<1>3. Outside(c)
  <2>1. EndCall(c) \/ \E pc \in {"cleanup", "finish", "verifying"} : Proceed(c, pc)
    BY DEF ReleaseBinding, Cleanup, Commit, Finalize
  <2>2. QED
    BY <1>1, <1>2, <2>1, OnlyEnds, OnlyProceeds DEF Outside
<1>4. OneBinds' /\ Fits(c)'
  BY <1>3, OutsideFits
<1>5. CASE BoundHasWorktree' /\ slice'.active \in {slice.active, NoExecution} /\
           (UNCHANGED <<worktree, branch>> \/ (worktree = e /\ execution[e].state # "ABSENT"))
  <2>1. \A d \in Caller \ {c} : Fits(d)'
    BY <1>3, <1>5, OthersFit DEF Outside
  <2>2. QED
    BY <1>4, <1>5, <2>1 DEF GitFits
<1>6. CASE UNCHANGED <<store, git>>
  <2>1. Steady
    BY <1>6 DEF Steady, store, git
  <2>2. QED
    BY <1>3, <2>1, SteadyStep
<1>7. CASE ReleaseBinding(c)
  <2>1. CASE ReleaseDeferred(e, call[c].xver, call[c].ver)
    <3>1. slice'.active = NoExecution /\ UNCHANGED <<worktree, branch>>
      BY <1>7, <2>1 DEF ReleaseDeferred, ReleaseBinding, git
    <3>2. BoundHasWorktree'
      BY <3>1 DEF BoundHasWorktree
    <3>3. QED
      BY <1>5, <3>1, <3>2
  <2>2. QED
    BY <1>6, <1>7, <2>1 DEF ReleaseBinding
<1>8. CASE Cleanup(c)
  <2>1. execution[e].state = "CANCELLED" /\ UNCHANGED <<store, branch>> /\ slice.active # e
    BY <1>1, <1>8 DEF Cleanup, Knows, EventsFit, Released
  <2>2. worktree' = worktree \/ worktree = e
    BY <1>8 DEF Cleanup
  <2>3. BoundHasWorktree'
    BY <1>1, <2>1, <2>2 DEF BoundHasWorktree, store
  <2>4. QED
    BY <1>5, <2>1, <2>2, <2>3 DEF store
<1>9. CASE Commit(c)
  <2>1. /\ execution[e].state # "ABSENT" /\ worktree = e /\ branch = 1 /\ branch' = 2
        /\ UNCHANGED <<store, worktree>> /\ execution[e].attempt # "NONE"
    BY <1>1, <1>9 DEF Commit, Knows, StartedCalls
  <2>2. slice.active = e
    BY <1>1, <1>9 DEF Commit, Knows, StartedCalls
  <2>3. slice.head = 1
    BY <1>1, <2>1, <2>2, StoreAssumption DEF BoundHasWorktree
  <2>4. slice.elig # "ELIGIBLE_BOUND" /\ slice.elig \in Eligibility /\ slice.elig # "INELIGIBLE_UNTIL_PREFLIGHT"
    BY <1>1, <2>2, <2>3, StoreAssumption DEF RowsFit, SliceRow
  <2>5. execution[e].result = 0
    BY <1>1, <2>2, <2>4 DEF RowsFit, Eligibility
  <2>6. BoundHasWorktree'
    BY <2>1, <2>2, <2>5 DEF BoundHasWorktree, store
  <2>7. QED
    BY <1>5, <2>1, <2>6 DEF store
<1>10. CASE Finalize(c)
  <2>1. CASE FinalizeDeferred(e, call[c].xver, call[c].ver, 1)
    <3>1. /\ slice.active = e /\ slice'.active = e /\ slice'.head = 2 /\ UNCHANGED <<worktree, branch>>
          /\ branch = 2
      BY <1>1, <1>10, <2>1 DEF FinalizeDeferred, Finalize, Knows, git, SliceRow
    <3>2. BoundHasWorktree'
      BY <1>1, <3>1 DEF BoundHasWorktree
    <3>3. QED
      BY <1>5, <3>1, <3>2
  <2>2. QED
    BY <1>6, <1>10, <2>1 DEF Finalize
<1>11. QED
  BY <1>7, <1>8, <1>9, <1>10

LEMMA GitStepFits ==
  ASSUME Serial, BookInv, GitFits, BindingNext
  PROVE  GitFits'
<1>1. BookInv' /\ Onward
  BY BooksStep
<1>2. QED
  BY <1>1, GitSteady, GitStartBind, GitInspect, GitMakes, GitPersist, GitOthers, ZenonT(60) DEF BindingNext

LEMMA GitInitially == BindingInit => GitFits
BY DEF BindingInit, StoreInit, NoCall, GitFits, OneBinds, Fits, Making, BoundHasWorktree, BindingCalls

(* bind_deferred_execution provisions and persists a binding that stands:  *)
(* with one binding call at a time, a bound execution has its worktree and *)
(* the branch stands where the rows say, whatever else runs or dies.       *)
THEOREM BoundAlwaysHasWorktree ==
  ASSUME Serial PROVE BindingSpec => []BoundHasWorktree
<1>1. BookInv /\ GitFits /\ [BindingNext]_bindingVars => GitFits'
  <2> SUFFICES ASSUME BookInv, GitFits, [BindingNext]_bindingVars PROVE GitFits'
    OBVIOUS
  <2>1. CASE BindingNext
    BY <2>1, GitStepFits
  <2>2. CASE UNCHANGED bindingVars
    BY <2>2 DEF bindingVars, store, git, GitFits, OneBinds, Fits, Making, BoundHasWorktree
  <2>3. QED
    BY <2>1, <2>2
<1>2. GitFits => BoundHasWorktree
  BY DEF GitFits
<1>3. QED
  BY <1>1, <1>2, BookInvariant, GitInitially, PTL DEF BindingSpec

=============================================================================
