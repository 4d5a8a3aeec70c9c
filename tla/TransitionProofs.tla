-------------------------- MODULE TransitionProofs --------------------------
(***************************************************************************)
(* The transitions an operator drives.  The control authority: the row and *)
(* its events agree, a slice is registered only under the store's          *)
(* authority, and a transition is answered only while it is in force, for  *)
(* any tools, cutover ids, manifest and bound.  The move to schema 10: the *)
(* new schema meets only new clients, a lost lease costs one more effect,  *)
(* the release comes after the restart and a compensation is exact, for    *)
(* any writers and any number of lease events.  The Cleaner cutover: a     *)
(* writer is started only for the authority in force, for any number of    *)
(* acquisitions.                                                           *)
(***************************************************************************)
EXTENDS ControlAuthority, Schema10Transition, CleanerCutover, SequenceTheorems, TLAPS

\* Generations of the events increase, and the row is past the last of them.
GenerationsGrow ==
  /\ \A i \in DOMAIN transitions : i > 1 => transitions[i].gen > transitions[i - 1].gen
  /\ transitions # <<>> => authority.gen > Last(transitions).gen

AuthorityInv == AuthorityTypeOK /\ AuthorityLedger /\ GenerationsGrow /\ RegisteredUnderStore

-----------------------------------------------------------------------------
(* What a step does to the row and the events: nothing, a transition with  *)
(* arguments of the right type, or a later snapshot while no cutover is in *)
(* force.                                                                  *)

Snapshots ==
  /\ authority.mode = "TRANSITIONAL_AUTHORITY" /\ transitions' = transitions
  /\ authority' = [mode |-> authority.mode, gen |-> authority.gen + 1, snapshot |-> Slices,
                   cutover |-> authority.cutover]

LedgerStep ==
  \/ UNCHANGED <<authority, transitions>>
  \/ \E ev \in AuthorityEvent : Transition(ev)
  \/ Snapshots

\* An asked transition is an event, a new one or one read from the table.
LEMMA AskedIsEvent ==
  ASSUME AuthorityTypeOK, NEW t \in Tool, At(t, "transition")
  PROVE  task[t].ev \in AuthorityEvent
<1>1. task[t].pc = "transition"
  BY DEF At
<1>2. QED
  BY <1>1 DEF AuthorityTypeOK, Work

\* A step of any tool does no more than that to the row and the events.
LEMMA StepIsLedgerStep ==
  ASSUME AuthorityTypeOK, [AuthorityNext]_authorityVars
  PROVE  LedgerStep
<1>1. CASE UNCHANGED authorityVars
  BY <1>1 DEF authorityVars, LedgerStep
<1>2. ASSUME NEW t \in Tool, DoTransition(t)
      PROVE  LedgerStep
  BY <1>2, AskedIsEvent DEF DoTransition, LedgerStep
<1>3. ASSUME NEW t \in Tool, ReconcileAuthority(t)
      PROVE  LedgerStep
  BY <1>3 DEF ReconcileAuthority, LedgerStep, Snapshots
<1>4. ASSUME NEW t \in Tool,
             \/ \E type \in {"SWITCH", "ROLLBACK"}, x \in Cutover : AskTransition(t, type, x)
             \/ Answered(t) \/ AskRegister(t) \/ Register(t)
             \/ StartSeed(t) \/ SeedExecution(t) \/ SeedRow(t) \/ Die(t)
      PROVE  LedgerStep
  BY <1>4 DEF LedgerStep, AskTransition, Answered, AskRegister, Register, StartSeed,
              SeedExecution, SeedRow, Die
<1>5. QED
  BY <1>1, <1>2, <1>3, <1>4 DEF AuthorityNext

-----------------------------------------------------------------------------
(* Types. *)

\* Giving a tool work of the right type keeps the type of all.
LEMMA DoKeepsTypes ==
  ASSUME task \in [Tool -> Work], NEW t \in Tool, NEW w \in Work, Do(t, w)
  PROVE  task' \in [Tool -> Work]
BY DEF Do

\* So does letting it rest.
LEMMA StopKeepsTypes ==
  ASSUME task \in [Tool -> Work], NEW t \in Tool, Stop(t)
  PROVE  task' \in [Tool -> Work]
<1>1. Resting \in Work
  BY DEF Resting, Work
<1>2. QED
  BY <1>1, DoKeepsTypes DEF Stop

\* So does remembering the generation just read.
LEMMA AwaitKeepsTypes ==
  ASSUME AuthorityTypeOK, NEW t \in Tool, Await(t, "rows") \/ Await(t, "snapshot") \/ Await(t, "register")
  PROVE  task' \in [Tool -> Work]
<1>1. authority.gen \in Nat
  BY DEF AuthorityTypeOK
<1>2. \A pc \in {"rows", "snapshot", "register"} : [pc |-> pc, gen |-> authority.gen] \in Work
  BY <1>1 DEF Work
<1>3. PICK pc \in {"rows", "snapshot", "register"} : Await(t, pc)
  OBVIOUS
<1>4. QED
  BY <1>2, <1>3, DoKeepsTypes DEF Await, AuthorityTypeOK

\* The row and the events keep their types, whatever the step.
LEMMA LedgerKeepsTypes ==
  ASSUME Slices \in Nat, AuthorityTypeOK, LedgerStep
  PROVE  /\ authority' \in [mode: Mode, gen: Nat, snapshot: Int, cutover: Cutover \cup {NoCutover}]
         /\ transitions' \in Seq(AuthorityEvent)
<1>1. CASE UNCHANGED <<authority, transitions>>
  BY <1>1 DEF AuthorityTypeOK
<1>2. ASSUME NEW ev \in AuthorityEvent, Transition(ev)
      PROVE  /\ authority' \in [mode: Mode, gen: Nat, snapshot: Int, cutover: Cutover \cup {NoCutover}]
             /\ transitions' \in Seq(AuthorityEvent)
  <2>1. transitions' \in Seq(AuthorityEvent)
    BY <1>2, AppendProperties DEF AuthorityTypeOK, Transition
  <2>2. ev.gen \in Nat /\ ev.snapshot \in Int /\ ev.cutover \in Cutover
    BY DEF AuthorityEvent
  <2>3. ToMode(ev.type) \in Mode /\ CutoverAfter(ev) \in Cutover \cup {NoCutover}
    BY <2>2 DEF ToMode, Mode, CutoverAfter
  <2>4. QED
    BY <1>2, <2>1, <2>2, <2>3 DEF Transition
<1>3. CASE Snapshots
  BY <1>3 DEF Snapshots, AuthorityTypeOK
<1>4. QED
  BY <1>1, <1>2, <1>3 DEF LedgerStep

\* Every step of every tool keeps the type invariant.
LEMMA TypesKept ==
  ASSUME Slices \in Nat, AuthorityTypeOK, [AuthorityNext]_authorityVars
  PROVE  AuthorityTypeOK'
<1> USE DEF AuthorityTypeOK
<1>1. /\ authority' \in [mode: Mode, gen: Nat, snapshot: Int, cutover: Cutover \cup {NoCutover}]
      /\ transitions' \in Seq(AuthorityEvent)
  BY LedgerKeepsTypes, StepIsLedgerStep
<1> DEFINE RestOK == /\ rows' \in 0..Slices /\ registered' \in Int /\ seed' \in 0..4
                     /\ task' \in [Tool -> Work]
<1>2. CASE UNCHANGED authorityVars
  BY <1>1, <1>2 DEF authorityVars
<1>3. ASSUME NEW t \in Tool, NEW type \in {"SWITCH", "ROLLBACK"}, NEW x \in Cutover,
             AskTransition(t, type, x)
      PROVE  RestOK
  <2>1. [type |-> type, gen |-> authority.gen, snapshot |-> authority.snapshot, cutover |-> x]
           \in AuthorityEvent
    BY DEF AuthorityEvent
  <2>2. \A i \in DOMAIN transitions : transitions[i] \in AuthorityEvent
    BY ElementOfSeq
  <2>3. \A ev \in AuthorityEvent : [pc |-> "transition", ev |-> ev] \in Work
    BY DEF Work
  <2>4. task' \in [Tool -> Work]
    <3>1. CASE Do(t, [pc |-> "transition",
                      ev |-> [type |-> type, gen |-> authority.gen,
                              snapshot |-> authority.snapshot, cutover |-> x]])
      BY <2>1, <2>3, <3>1, DoKeepsTypes
    <3>2. ASSUME NEW i \in DOMAIN transitions, Do(t, [pc |-> "transition", ev |-> transitions[i]])
          PROVE  task' \in [Tool -> Work]
      BY <2>2, <2>3, <3>2, DoKeepsTypes
    <3>3. QED
      BY <1>3, <3>1, <3>2 DEF AskTransition
  <2>5. QED
    BY <1>3, <2>4 DEF AskTransition
<1>4. ASSUME NEW t \in Tool, DoTransition(t)
      PROVE  RestOK
  <2>1. task[t].ev \in AuthorityEvent /\ task[t] \in [pc: {"transition", "answered"}, ev: AuthorityEvent]
    BY <1>4, AskedIsEvent DEF DoTransition, Work, At
  <2>2. [task[t] EXCEPT !.pc = "answered"] \in Work
    BY <2>1 DEF Work
  <2>3. task' \in [Tool -> Work]
    BY <1>4, <2>2, DoKeepsTypes, StopKeepsTypes DEF DoTransition
  <2>4. QED
    BY <1>4, <2>3 DEF DoTransition
<1>5. ASSUME NEW t \in Tool, Answered(t) \/ Die(t) \/ ReconcileAuthority(t)
      PROVE  RestOK
  BY <1>5, StopKeepsTypes DEF Answered, Die, ReconcileAuthority
<1>6. ASSUME NEW t \in Tool, AskRegister(t)
      PROVE  RestOK
  BY <1>6, AwaitKeepsTypes DEF AskRegister
<1>7. ASSUME NEW t \in Tool, Register(t)
      PROVE  RestOK
  <2>1. registered' \in Int
    BY <1>7 DEF Register
  <2>2. QED
    BY <1>7, <2>1, StopKeepsTypes DEF Register
<1>8. ASSUME NEW t \in Tool, StartSeed(t)
      PROVE  RestOK
  <2>1. [pc |-> "seed", gen |-> 0] \in Work
    BY DEF Work
  <2>2. task' \in [Tool -> Work]
    BY <1>8, <2>1, DoKeepsTypes, AwaitKeepsTypes DEF StartSeed
  <2>3. QED
    BY <1>8, <2>2 DEF StartSeed
<1>9. ASSUME NEW t \in Tool, SeedExecution(t)
      PROVE  RestOK
  <2>1. PICK i \in 1..4 :
          IF i = 1 \/ task[t].gen = i - 1
          THEN /\ seed' = IF seed < i THEN i ELSE seed
               /\ IF i < 4 THEN Do(t, [pc |-> <<"lease", "result", "release">>[i], gen |-> seed'])
                          ELSE Await(t, "rows")
          ELSE seed' = seed /\ Stop(t)
    BY <1>9 DEF SeedExecution
  <2>2. seed' \in 0..4
    BY <2>1
  <2>3. i < 4 => <<"lease", "result", "release">>[i] \in {"lease", "result", "release"}
    BY <2>1
  <2>4. i < 4 => [pc |-> <<"lease", "result", "release">>[i], gen |-> seed'] \in Work
    BY <2>2, <2>3 DEF Work
  <2>5. task' \in [Tool -> Work]
    <3>1. CASE i < 4 /\ Do(t, [pc |-> <<"lease", "result", "release">>[i], gen |-> seed'])
      BY <2>4, <3>1, DoKeepsTypes
    <3>2. CASE Await(t, "rows")
      BY <3>2, AwaitKeepsTypes
    <3>3. CASE Stop(t)
      BY <3>3, StopKeepsTypes
    <3>4. QED
      BY <2>1, <3>1, <3>2, <3>3
  <2>6. QED
    BY <1>9, <2>2, <2>5 DEF SeedExecution
<1>10. ASSUME NEW t \in Tool, SeedRow(t)
       PROVE  RestOK
  <2>1. rows' \in 0..Slices
    BY <1>10 DEF SeedRow
  <2>2. task' \in [Tool -> Work]
    BY <1>10, AwaitKeepsTypes, StopKeepsTypes DEF SeedRow
  <2>3. QED
    BY <1>10, <2>1, <2>2 DEF SeedRow
<1>11. CASE AuthorityNext
  <2>1. RestOK
    BY <1>3, <1>4, <1>5, <1>6, <1>7, <1>8, <1>9, <1>10, <1>11 DEF AuthorityNext
  <2>2. QED
    BY <1>1, <2>1
<1>12. QED
  BY <1>2, <1>11

\* The row, the events and every tool's work keep their types.
THEOREM AuthorityTypes == ASSUME Slices \in Nat PROVE AuthoritySpec => []AuthorityTypeOK
<1>1. AuthorityInit => AuthorityTypeOK
  BY DEF AuthorityInit, AuthorityTypeOK, Mode, Resting, Work
<1>2. AuthorityTypeOK /\ [AuthorityNext]_authorityVars => AuthorityTypeOK'
  BY TypesKept
<1>3. QED
  BY <1>1, <1>2, PTL DEF AuthoritySpec

-----------------------------------------------------------------------------
(* Row and events. *)

\* What the events are after a transition.
LEMMA EventsAfter ==
  ASSUME AuthorityTypeOK, NEW ev \in AuthorityEvent, Transition(ev)
  PROVE  /\ transitions' \in Seq(AuthorityEvent) /\ Len(transitions') = Len(transitions) + 1
         /\ DOMAIN transitions' = 1..(Len(transitions) + 1)
         /\ \A i \in 1..Len(transitions) : transitions'[i] = transitions[i]
         /\ transitions'[Len(transitions) + 1] = ev
BY AppendProperties DEF AuthorityTypeOK, Transition

\* A transition is the next of the alternation, past every generation before,
\* and the new row is where it leaves it.
LEMMA NextInTurn ==
  ASSUME AuthorityInv, NEW ev \in AuthorityEvent, Transition(ev)
  PROVE  LET n == Len(transitions) IN
         /\ ev.type = IF n % 2 = 0 THEN "SWITCH" ELSE "ROLLBACK"
         /\ n % 2 = 1 => /\ ev.cutover = transitions[n].cutover
                         /\ ev.gen = transitions[n].gen + 1
                         /\ ev.snapshot = transitions[n].snapshot
         /\ n > 0 => ev.gen > transitions[n].gen
<1> DEFINE n == Len(transitions)
<1>1. n \in Nat /\ (transitions # <<>> <=> n > 0)
  BY EmptySeq DEF AuthorityInv, AuthorityTypeOK
<1>2. n % 2 = 0 \/ n % 2 = 1
  BY <1>1
<1>3. /\ authority.mode = FromMode(ev.type) /\ authority.gen = ev.gen
      /\ authority.snapshot = ev.snapshot
      /\ authority.cutover = IF ev.type = "SWITCH" THEN NoCutover ELSE ev.cutover
  BY DEF Transition
<1>4. ev.type \in {"SWITCH", "ROLLBACK"}
  BY DEF AuthorityEvent
<1>5. n > 0 => ev.gen > transitions[n].gen
  BY <1>1, <1>3 DEF AuthorityInv, GenerationsGrow, Last
<1>6. CASE n % 2 = 0
  <2>1. authority.mode = "TRANSITIONAL_AUTHORITY"
    BY <1>6 DEF AuthorityInv, AuthorityLedger
  <2>2. ev.type = "SWITCH"
    BY <1>3, <1>4, <2>1 DEF FromMode
  <2>3. QED
    BY <1>5, <1>6, <2>2
<1>7. CASE n % 2 = 1
  <2>1. InForce(transitions[n])
    BY <1>7 DEF AuthorityInv, AuthorityLedger, Last
  <2>2. n \in DOMAIN transitions
    BY <1>1, <1>7 DEF AuthorityInv, AuthorityTypeOK
  <2>3. transitions[n].type = "SWITCH"
    BY <1>7, <2>2 DEF AuthorityInv, AuthorityLedger
  <2>4. authority.mode = "CONTROL_STORE_AUTHORITY" /\ authority.gen = transitions[n].gen + 1
        /\ authority.cutover = transitions[n].cutover /\ authority.snapshot = transitions[n].snapshot
    BY <2>1, <2>3 DEF InForce, ToMode, CutoverAfter
  <2>5. ev.type = "ROLLBACK"
    BY <1>3, <1>4, <2>4 DEF FromMode
  <2>6. QED
    BY <1>3, <1>5, <1>7, <2>4, <2>5
<1>8. QED
  BY <1>2, <1>6, <1>7

\* A switch or rollback leaves row and events in agreement.
LEMMA LedgerKept ==
  ASSUME AuthorityInv, NEW ev \in AuthorityEvent, Transition(ev)
  PROVE  AuthorityLedger' /\ GenerationsGrow'
<1> DEFINE n == Len(transitions)
<1>1. n \in Nat /\ DOMAIN transitions = 1..n
  BY DEF AuthorityInv, AuthorityTypeOK
<1>2. /\ Len(transitions') = n + 1 /\ DOMAIN transitions' = 1..(n + 1)
      /\ \A i \in 1..n : transitions'[i] = transitions[i]
      /\ transitions'[n + 1] = ev
  BY EventsAfter DEF AuthorityInv
<1>3. /\ ev.type = IF n % 2 = 0 THEN "SWITCH" ELSE "ROLLBACK"
      /\ n % 2 = 1 => /\ ev.cutover = transitions[n].cutover
                      /\ ev.gen = transitions[n].gen + 1
                      /\ ev.snapshot = transitions[n].snapshot
      /\ n > 0 => ev.gen > transitions[n].gen
  BY NextInTurn
<1>4. \A i \in 1..n : transitions[i].gen \in Nat
  <2>1. \A i \in 1..n : transitions[i] \in AuthorityEvent
    BY ElementOfSeq DEF AuthorityInv, AuthorityTypeOK
  <2>2. QED
    BY <2>1 DEF AuthorityEvent
<1>5. (n % 2 = 0 \/ n % 2 = 1) /\ (n % 2 = 0 <=> (n + 1) % 2 = 1)
  BY <1>1
<1>6. \A i \in 1..n : i > 1 => transitions[i].gen > transitions[i - 1].gen
  BY <1>1 DEF AuthorityInv, GenerationsGrow
<1>7. InForce(ev)' /\ authority'.gen = ev.gen + 1
      /\ authority'.mode = ToMode(ev.type) /\ authority'.cutover = CutoverAfter(ev)
  BY DEF Transition, InForce
<1>8. GenerationsGrow'
  <2>1. \A i \in 1..(n + 1) : i > 1 => transitions'[i].gen > transitions'[i - 1].gen
    <3> SUFFICES ASSUME NEW i \in 1..(n + 1), i > 1
                 PROVE  transitions'[i].gen > transitions'[i - 1].gen
      OBVIOUS
    <3>1. CASE i \in 1..n
      <4>1. i - 1 \in 1..n
        BY <1>1, <3>1
      <4>2. QED
        BY <1>2, <1>6, <3>1, <4>1
    <3>2. CASE i = n + 1
      <4>1. i - 1 = n /\ n \in 1..n
        BY <1>1, <3>2
      <4>2. QED
        BY <1>2, <1>3, <3>2, <4>1
    <3>3. QED
      BY <1>1, <3>1, <3>2
  <2>2. ev.gen \in Nat
    BY DEF AuthorityEvent
  <2>3. authority'.gen > Last(transitions').gen
    BY <1>2, <1>7, <2>2 DEF Last
  <2>4. QED
    BY <1>2, <2>1, <2>3 DEF GenerationsGrow
<1> DEFINE Entry(s, i) ==
      /\ s[i].type = IF i % 2 = 1 THEN "SWITCH" ELSE "ROLLBACK"
      /\ i % 2 = 0 => /\ s[i].cutover = s[i - 1].cutover
                      /\ s[i].gen = s[i - 1].gen + 1
                      /\ s[i].snapshot = s[i - 1].snapshot
      /\ i > 2 => s[i].gen > s[i - 2].gen
      Fresh(s, i) == \A j \in DOMAIN s : j < i /\ s[j].type = s[i].type => s[j].cutover # s[i].cutover
<1>9. \A i \in 1..n : Entry(transitions, i) /\ Fresh(transitions, i)
  BY <1>1 DEF AuthorityInv, AuthorityLedger
<1>10. \A i \in 1..n : Entry(transitions', i)
  <2> SUFFICES ASSUME NEW i \in 1..n
               PROVE  Entry(transitions', i)
    OBVIOUS
  <2>1. transitions'[i] = transitions[i]
    BY <1>2
  <2>2. i > 1 => transitions'[i - 1] = transitions[i - 1]
    BY <1>1, <1>2
  <2>3. i > 2 => transitions'[i - 2] = transitions[i - 2]
    BY <1>1, <1>2
  <2>4. i % 2 = 0 => i > 1
    BY <1>1
  <2>5. QED
    BY <1>9, <2>1, <2>2, <2>3, <2>4
<1>11. Entry(transitions', n + 1)
  <2>1. ev.type = IF (n + 1) % 2 = 1 THEN "SWITCH" ELSE "ROLLBACK"
    BY <1>3, <1>5
  <2>2. n > 0 => transitions'[(n + 1) - 1] = transitions[n]
    BY <1>1, <1>2
  <2>3. (n + 1) % 2 = 0 => n % 2 = 1 /\ n > 0
    BY <1>1
  <2>4. ASSUME n + 1 > 2
        PROVE  ev.gen > transitions[n - 1].gen
    <3>1. n \in 1..n /\ n - 1 \in 1..n /\ n > 1
      BY <1>1, <2>4
    <3>2. transitions[n].gen > transitions[n - 1].gen /\ ev.gen > transitions[n].gen
      BY <1>1, <1>3, <1>6, <3>1
    <3>3. transitions[n - 1].gen \in Nat /\ transitions[n].gen \in Nat /\ ev.gen \in Nat
      BY <1>4, <3>1 DEF AuthorityEvent
    <3>4. QED
      BY <3>2, <3>3
  <2>5. n + 1 > 2 => transitions'[(n + 1) - 2] = transitions[n - 1]
    BY <1>1, <1>2
  <2>6. QED
    BY <1>2, <1>3, <2>1, <2>2, <2>3, <2>4, <2>5
<1>12. IF Len(transitions') % 2 = 1
       THEN InForce(Last(transitions))'
       ELSE authority'.mode = "TRANSITIONAL_AUTHORITY" /\ authority'.cutover = NoCutover
  <2>1. CASE n % 2 = 0
    <3>1. InForce(transitions[Len(transitions)])'
      BY <1>2, <1>7
    <3>2. QED
      BY <1>2, <1>5, <2>1, <3>1 DEF Last
  <2>2. CASE n % 2 = 1
    <3>1. ev.type = "ROLLBACK" /\ (n + 1) % 2 # 1
      BY <1>3, <1>5, <2>2
    <3>2. QED
      BY <1>2, <1>7, <3>1 DEF ToMode, CutoverAfter
  <2>3. QED
    BY <1>5, <2>1, <2>2
<1>13. \A i \in DOMAIN transitions' : Fresh(transitions', i)
  <2> SUFFICES ASSUME NEW i \in 1..(n + 1), NEW j \in 1..(n + 1), j < i,
                      transitions'[j].type = transitions'[i].type
               PROVE  transitions'[j].cutover # transitions'[i].cutover
    BY <1>2
  <2>1. j \in 1..n /\ transitions'[j] = transitions[j]
    BY <1>1, <1>2
  <2>2. CASE i \in 1..n
    <3>1. Fresh(transitions, i)
      BY <1>9, <2>2
    <3>2. transitions'[i] = transitions[i] /\ j \in DOMAIN transitions
      BY <1>1, <1>2, <2>1, <2>2
    <3>3. QED
      BY <2>1, <3>1, <3>2
  <2>3. CASE i = n + 1
    BY <1>1, <1>2, <2>1, <2>3 DEF Transition
  <2>4. QED
    BY <1>1, <2>2, <2>3
<1>14. \A i \in DOMAIN transitions' : Entry(transitions', i)
  <2> HIDE DEF Entry
  <2>1. \A i \in 1..(n + 1) : i \in 1..n \/ i = n + 1
    BY <1>1
  <2>2. QED
    BY <1>2, <1>10, <1>11, <2>1
<1>15. QED
  BY <1>8, <1>12, <1>13, <1>14 DEF AuthorityLedger

\* A later snapshot is taken only while no cutover is in force.
LEMMA LedgerKeptBySnapshot ==
  ASSUME AuthorityInv, Snapshots
  PROVE  AuthorityLedger' /\ GenerationsGrow'
<1> DEFINE n == Len(transitions)
<1>1. n \in Nat /\ DOMAIN transitions = 1..n /\ authority.gen \in Nat
  BY DEF AuthorityInv, AuthorityTypeOK
<1>2. \A i \in 1..n : transitions[i].gen \in Nat /\ transitions[i].type \in {"SWITCH", "ROLLBACK"}
  <2>1. \A i \in 1..n : transitions[i] \in AuthorityEvent
    BY ElementOfSeq DEF AuthorityInv, AuthorityTypeOK
  <2>2. QED
    BY <2>1 DEF AuthorityEvent
<1>3. n % 2 # 1
  <2> SUFFICES ASSUME n % 2 = 1
               PROVE  FALSE
    OBVIOUS
  <2>1. n \in 1..n
    BY <1>1
  <2>2. InForce(transitions[n]) /\ transitions[n].type = "SWITCH"
    BY <1>1, <2>1 DEF AuthorityInv, AuthorityLedger, Last
  <2>3. QED
    BY <2>2 DEF InForce, ToMode, Snapshots
<1>4. authority.mode = "TRANSITIONAL_AUTHORITY" /\ authority.cutover = NoCutover
  BY <1>3 DEF AuthorityInv, AuthorityLedger
<1>5. /\ transitions' = transitions /\ authority'.mode = "TRANSITIONAL_AUTHORITY"
      /\ authority'.cutover = NoCutover /\ authority'.gen = authority.gen + 1
  BY <1>4 DEF Snapshots
<1>6. AuthorityLedger'
  BY <1>3, <1>5 DEF AuthorityInv, AuthorityLedger
<1>7. GenerationsGrow'
  <2>1. transitions # <<>> => authority'.gen > Last(transitions).gen
    <3>1. transitions # <<>> => n \in 1..n
      BY <1>1, EmptySeq DEF AuthorityInv, AuthorityTypeOK
    <3>2. transitions # <<>> => authority.gen > Last(transitions).gen /\ Last(transitions).gen \in Nat
      BY <1>2, <3>1 DEF AuthorityInv, GenerationsGrow, Last
    <3>3. QED
      BY <1>1, <1>5, <3>2
  <2>2. QED
    BY <1>5, <2>1 DEF AuthorityInv, GenerationsGrow
<1>8. QED
  BY <1>6, <1>7

\* While the store is the authority, the last event is the switch to it.
LEMMA SwitchInForce ==
  ASSUME AuthorityInv, authority.mode = "CONTROL_STORE_AUTHORITY"
  PROVE  \E i \in DOMAIN transitions :
           transitions[i].type = "SWITCH" /\ transitions[i].gen + 1 = authority.gen
<1> DEFINE n == Len(transitions)
<1>1. n \in Nat /\ DOMAIN transitions = 1..n
  BY DEF AuthorityInv, AuthorityTypeOK
<1>2. n % 2 = 1 /\ InForce(transitions[n])
  BY DEF AuthorityInv, AuthorityLedger, Last
<1>3. n \in DOMAIN transitions
  BY <1>1, <1>2
<1>4. transitions[n].type = "SWITCH"
  BY <1>2, <1>3 DEF AuthorityInv, AuthorityLedger
<1>5. QED
  BY <1>2, <1>3, <1>4 DEF InForce

\* Only register_slice changes the registration, and no event is ever lost.
LEMMA RegistrationKept ==
  ASSUME AuthorityInv, [AuthorityNext]_authorityVars
  PROVE  RegisteredUnderStore'
<1> DEFINE Covered(gen, s) == \E i \in DOMAIN s : s[i].type = "SWITCH" /\ s[i].gen + 1 = gen
<1>1. \A gen : Covered(gen, transitions) => Covered(gen, transitions')
  <2>1. CASE transitions' = transitions
    BY <2>1
  <2>2. ASSUME NEW ev \in AuthorityEvent, Transition(ev)
        PROVE  \A gen : Covered(gen, transitions) => Covered(gen, transitions')
    <3>1. DOMAIN transitions = 1..Len(transitions) /\ Len(transitions) \in Nat
      BY DEF AuthorityInv, AuthorityTypeOK
    <3>2. \A i \in DOMAIN transitions : i \in DOMAIN transitions' /\ transitions'[i] = transitions[i]
      BY <2>2, <3>1, EventsAfter DEF AuthorityInv
    <3>3. QED
      BY <3>2
  <2>3. LedgerStep
    BY StepIsLedgerStep DEF AuthorityInv
  <2>4. QED
    BY <2>1, <2>2, <2>3 DEF LedgerStep, Snapshots
<1>2. CASE registered' = registered
  BY <1>1, <1>2 DEF AuthorityInv, RegisteredUnderStore
<1>3. ASSUME NEW t \in Tool, Register(t), registered' # registered
      PROVE  RegisteredUnderStore'
  <2>1. Authorised(task[t].gen) /\ registered' = authority.gen /\ transitions' = transitions
    BY <1>3 DEF Register
  <2>2. Covered(authority.gen, transitions)
    BY <2>1, SwitchInForce DEF Authorised
  <2>3. QED
    BY <2>1, <2>2 DEF RegisteredUnderStore
<1>4. registered' = registered \/ \E t \in Tool : Register(t)
  BY DEF AuthorityNext, authorityVars, AskTransition, DoTransition, Answered, AskRegister, StartSeed,
         SeedExecution, SeedRow, ReconcileAuthority, Die
<1>5. QED
  BY <1>2, <1>3, <1>4

\* The inductive invariant of the authority holds in every reachable state.
THEOREM AuthorityInvariant == ASSUME Slices \in Nat PROVE AuthoritySpec => []AuthorityInv
<1>1. AuthorityInit => AuthorityInv
  <2> SUFFICES ASSUME AuthorityInit
               PROVE  AuthorityInv
    OBVIOUS
  <2>1. AuthorityTypeOK
    BY DEF AuthorityInit, AuthorityTypeOK, Mode, Resting, Work
  <2>2. transitions = <<>> /\ Len(transitions) = 0 /\ DOMAIN transitions = {}
    BY DEF AuthorityInit
  <2>3. AuthorityLedger
    BY <2>2 DEF AuthorityInit, AuthorityLedger
  <2>4. GenerationsGrow /\ RegisteredUnderStore
    BY <2>2 DEF AuthorityInit, GenerationsGrow, RegisteredUnderStore
  <2>5. QED
    BY <2>1, <2>3, <2>4 DEF AuthorityInv
<1>2. AuthorityInv /\ [AuthorityNext]_authorityVars => AuthorityInv'
  <2> SUFFICES ASSUME AuthorityInv, [AuthorityNext]_authorityVars
               PROVE  AuthorityInv'
    OBVIOUS
  <2>1. AuthorityTypeOK' /\ RegisteredUnderStore'
    BY TypesKept, RegistrationKept DEF AuthorityInv
  <2>2. LedgerStep
    BY StepIsLedgerStep DEF AuthorityInv
  <2>3. CASE UNCHANGED <<authority, transitions>>
    BY <2>1, <2>3 DEF AuthorityInv, AuthorityLedger, GenerationsGrow, InForce
  <2>4. CASE Snapshots
    BY <2>1, <2>4, LedgerKeptBySnapshot DEF AuthorityInv
  <2>5. ASSUME NEW ev \in AuthorityEvent, Transition(ev)
        PROVE  AuthorityInv'
    BY <2>1, <2>5, LedgerKept DEF AuthorityInv
  <2>6. QED
    BY <2>2, <2>3, <2>4, <2>5 DEF LedgerStep
<1>3. QED
  BY <1>1, <1>2, PTL DEF AuthoritySpec

\* Switches and rollbacks alternate, each rollback undoes the switch before
\* it, and the row is where the last of them, or a later snapshot, left it.
THEOREM LedgerAlwaysAgrees == ASSUME Slices \in Nat PROVE AuthoritySpec => []AuthorityLedger
<1>1. AuthorityInv => AuthorityLedger
  BY DEF AuthorityInv
<1>2. QED
  BY <1>1, AuthorityInvariant, PTL

\* register_slice records a slice only under the authority of the store.
THEOREM RegistrationUnderStore ==
  ASSUME Slices \in Nat PROVE AuthoritySpec => []RegisteredUnderStore
<1>1. AuthorityInv => RegisteredUnderStore
  BY DEF AuthorityInv
<1>2. QED
  BY <1>1, AuthorityInvariant, PTL

\* switch_control_authority and its rollback are confirmed, the first time or
\* on a retry, only with the row standing where they put it.
THEOREM AnswersAreInForce == ASSUME Slices \in Nat PROVE AuthoritySpec => AnsweredInForce
<1>1. AuthorityTypeOK /\ [AuthorityNext]_authorityVars => [AnswersInForce]_authorityVars
  <2> SUFFICES ASSUME AuthorityTypeOK, AuthorityNext,
                      NEW t \in Tool, At(t, "transition"), task'[t].pc = "answered"
               PROVE  InForce(task[t].ev)'
    BY DEF AnswersInForce
  <2> DEFINE ev == task[t].ev
  <2>1. task[t].pc = "transition" /\ task'[t].pc = "answered" /\ task \in [Tool -> Work]
    BY DEF At, AuthorityTypeOK
  <2>2. ASSUME NEW u \in Tool, NEW w, Do(u, w)
        PROVE  u = t /\ task'[t] = w
    BY <2>1, <2>2 DEF Do
  <2>3. ASSUME NEW u \in Tool, Stop(u)
        PROVE  FALSE
    <3>1. task'[t] = Resting
      BY <2>2, <2>3 DEF Stop
    <3>2. QED
      BY <2>1, <3>1 DEF Resting
  <2>4. ASSUME NEW u \in Tool, NEW pc, Await(u, pc)
        PROVE  u = t
    BY <2>2, <2>4 DEF Await
  <2>5. DoTransition(t)
    <3>1. ASSUME NEW u \in Tool, DoTransition(u)
          PROVE  u = t
      BY <2>2, <2>3, <3>1 DEF DoTransition
    <3>2. ASSUME NEW u \in Tool, NEW type, NEW x, AskTransition(u, type, x)
          PROVE  FALSE
      BY <2>1, <2>2, <3>2 DEF AskTransition, At
    <3>3. ASSUME NEW u \in Tool, Answered(u) \/ Register(u) \/ ReconcileAuthority(u) \/ Die(u)
          PROVE  FALSE
      BY <2>3, <3>3 DEF Answered, Register, ReconcileAuthority, Die
    <3>4. ASSUME NEW u \in Tool, AskRegister(u)
          PROVE  FALSE
      BY <2>1, <2>4, <3>4 DEF AskRegister, At
    <3>5. ASSUME NEW u \in Tool, StartSeed(u)
          PROVE  FALSE
      BY <2>1, <2>2, <2>4, <3>5 DEF StartSeed, At
    <3>6. ASSUME NEW u \in Tool, SeedRow(u)
          PROVE  FALSE
      <4>1. task[u].pc = "rows" /\ (UNCHANGED task \/ Await(u, "snapshot") \/ Stop(u))
        BY <3>6 DEF SeedRow, At
      <4>2. QED
        BY <2>1, <2>3, <2>4, <4>1
    <3>7. ASSUME NEW u \in Tool, SeedExecution(u)
          PROVE  FALSE
      <4>1. PICK i \in 1..4 :
              /\ At(u, <<"seed", "lease", "result", "release">>[i])
              /\ IF i = 1 \/ task[u].gen = i - 1
                 THEN /\ seed' = IF seed < i THEN i ELSE seed
                      /\ IF i < 4 THEN Do(u, [pc |-> <<"lease", "result", "release">>[i], gen |-> seed'])
                                 ELSE Await(u, "rows")
                 ELSE seed' = seed /\ Stop(u)
        BY <3>7 DEF SeedExecution
      <4>2. <<"seed", "lease", "result", "release">>[i] \in {"seed", "lease", "result", "release"}
        BY <4>1
      <4>3. u = t
        BY <2>2, <2>3, <2>4, <4>1
      <4>4. QED
        BY <2>1, <4>1, <4>2, <4>3 DEF At
    <3>8. QED
      BY <3>1, <3>2, <3>3, <3>4, <3>5, <3>6, <3>7 DEF AuthorityNext
  <2>6. /\ task'[t] = [task[t] EXCEPT !.pc = "answered"]
        /\ Transition(task[t].ev) \/ (Replays(task[t].ev) /\ UNCHANGED authority)
    BY <2>2, <2>3, <2>5 DEF DoTransition
  <2>7. task'[t].ev = task[t].ev
    <3>1. task[t] \in [pc: {"transition", "answered"}, ev: AuthorityEvent]
      BY <2>1 DEF Work
    <3>2. QED
      BY <2>6, <3>1
  <2>8. CASE Transition(task[t].ev)
    BY <2>7, <2>8 DEF Transition, InForce
  <2>9. CASE Replays(task[t].ev) /\ UNCHANGED authority
    BY <2>7, <2>9 DEF Replays, InForce, CutoverAfter
  <2>10. QED
    BY <2>6, <2>8, <2>9
<1>2. QED
  BY <1>1, AuthorityTypes, PTL DEF AuthoritySpec, AnsweredInForce

-----------------------------------------------------------------------------
(* The move of the schema: the invariant. *)

\* The calls that write identity files.
Writing == {"project", "compensate"}

\* At schema 10 every writer has the v0.5 client and file, whether it serves or
\* not, and no call that began with v0.4 goes on; a migration finds the writers
\* down.
SchemaFit ==
  /\ dcsSchema = 10 =>
       /\ InventoryOf("v05")
       /\ effect.op \notin Writing \cup {"quiesce"}
       /\ transition.phase \notin {"QUIESCED_V04", "AUTHORIZED_V05"}
  /\ effect.op = "migrate" => Quiesced("v05") /\ transition.phase = "BACKED_UP"
  /\ held.schema = 10 => dcsSchema = 10

\* What a call found when it began still holds while it is in progress.
CallFit ==
  /\ effect.op = "quiesce" => transition.phase = "INITIAL"
  /\ effect.op = "project" /\ effect.target = "v05" =>
       transition.phase \in {"QUIESCED_V04", "AUTHORIZED_V05"}
  /\ effect.op \in {"project", "resume"} /\ effect.target = "v04" /\ effect.guard = "held" =>
       held.schema = 9
  /\ effect.op \in {"project", "resume"} /\ effect.target = "v04" => effect.guard # "none"
  /\ effect.op = "resume" =>
       IF effect.target = "v04" THEN dcsSchema = 9 ELSE held.schema = 10

\* Outside the entries replaced, or yet to be put back, the files are as found.
EntriesFit ==
  \A w \in Client :
    /\ effect.op = "project" /\ w \notin effect.wrote => projection[w] = effect.entry[w]
    /\ effect.op = "compensate" /\ w \notin effect.todo => projection[w] = effect.entry[w]

\* No event is ahead of the row; a late effect used up its assertion, and the
\* guard it was given under is lost.
LateFit ==
  /\ effect.event <= w08.event /\ held.event <= w08.event
  /\ effect.late # 0 =>
       effect.late = 1 /\ ~effect.fresh /\ ~Guarded /\ effect.op \in Writing \cup {"resume"}

\* The writers taken down serve again, with client v.
Serves(v) ==
  serving = transition.before /\ \A w \in serving : installed[w] = v /\ projection[w] = v

\* What the mark for the release says of the writers is still so.
ProofFit ==
  /\ held.proof = 9 =>
       /\ transition.phase = "ROLLED_BACK_V04_SCHEMA9" /\ dcsSchema = 9 /\ held.schema = 9
       /\ HeldCurrent => effect.op = "none" /\ Serves("v04")
  /\ held.proof = 10 =>
       /\ transition.phase = "RESTORED_SCHEMA10" /\ dcsSchema = 10
       /\ effect.op = "none" /\ serving = transition.before

\* The inductive invariant.
TransitionInv ==
  /\ TransitionTypeOK /\ Client # {}
  /\ SchemaFit /\ CallFit /\ EntriesFit /\ LateFit /\ ProofFit

\* The rows of the transition's state.
LeaseRow == [holder : {"free", "own", "other"}, live : BOOLEAN, event : 0..MaxEvent]
MoveRow == [phase : Phases, before : SUBSET Client, backup : BOOLEAN,
            outcome : {"none", "restored", "recovery"}]
HeldRow == [state : {"none", "open", "closed", "released"}, schema : {9, 10},
            rebound : BOOLEAN, proof : {0, 9, 10}, event : 0..MaxEvent]
EffectRow == [op : {"none", "quiesce", "project", "compensate", "resume", "acquire", "migrate"},
              guard : {"none", "free", "held"}, event : 0..MaxEvent, target : Versions,
              entry : [Client -> Versions], todo : SUBSET Client, wrote : SUBSET Client,
              fresh : BOOLEAN, late : Nat]

\* The type invariant, in these terms.
LEMMA TransitionKinds ==
  TransitionTypeOK <=>
    /\ installed \in [Client -> Versions] /\ projection \in [Client -> Versions]
    /\ serving \subseteq Client /\ dcsSchema \in {9, 10}
    /\ w08 \in LeaseRow /\ transition \in MoveRow /\ held \in HeldRow /\ effect \in EffectRow
BY DEF TransitionTypeOK, LeaseRow, MoveRow, HeldRow, EffectRow

\* A new phase or outcome leaves the writers to bring back.
LEMMA PhaseRow ==
  ASSUME transition \in MoveRow, NEW p \in Phases, Phase(p)
  PROVE  /\ transition' \in MoveRow /\ transition'.phase = p
         /\ transition'.before = transition.before
BY DEF Phase, MoveRow

LEMMA OutcomeRow ==
  ASSUME transition \in MoveRow, NEW o \in {"none", "restored", "recovery"},
         transition' = [transition EXCEPT !.outcome = o]
  PROVE  /\ transition' \in MoveRow /\ transition'.phase = transition.phase
         /\ transition'.before = transition.before /\ transition'.outcome = o
BY DEF MoveRow

\* No call is in progress.
LEMMA NoCallInProgress ==
  /\ NoEffect \in EffectRow /\ NoEffect.op = "none" /\ NoEffect.guard = "none"
  /\ NoEffect.event = 0 /\ NoEffect.late = 0 /\ NoEffect.target = "v04" /\ ~NoEffect.fresh
BY EventAssumption DEF NoEffect, EffectRow, Versions

\* The same call, further on.
SameCall(n, e) ==
  /\ n.guard = e.guard /\ n.event = e.event /\ n.target = e.target /\ n.entry = e.entry

\* A call that is asserted, that has less to do or more written, that compensates
\* or brings the writers back.
LEMMA FreshCall ==
  ASSUME NEW e \in EffectRow, NEW b \in BOOLEAN
  PROVE  LET n == [e EXCEPT !.fresh = b] IN
         /\ n \in EffectRow /\ SameCall(n, e) /\ n.op = e.op /\ n.todo = e.todo
         /\ n.wrote = e.wrote /\ n.fresh = b /\ n.late = e.late
BY DEF EffectRow, SameCall

LEMMA TodoCall ==
  ASSUME NEW e \in EffectRow, NEW t \in SUBSET Client
  PROVE  LET n == [e EXCEPT !.todo = t] IN
         /\ n \in EffectRow /\ SameCall(n, e) /\ n.op = e.op /\ n.todo = t
         /\ n.wrote = e.wrote /\ n.fresh = e.fresh /\ n.late = e.late
BY DEF EffectRow, SameCall

LEMMA CompensatingCall ==
  ASSUME NEW e \in EffectRow
  PROVE  LET n == Compensating(e) IN
         /\ n \in EffectRow /\ SameCall(n, e) /\ n.op = "compensate" /\ n.todo = e.wrote
         /\ n.fresh = FALSE /\ n.late = e.late
BY DEF EffectRow, SameCall, Compensating

LEMMA ResumingCall ==
  ASSUME NEW e \in EffectRow, NEW t \in SUBSET Client
  PROVE  LET n == [e EXCEPT !.op = "resume", !.fresh = FALSE, !.todo = t] IN
         /\ n \in EffectRow /\ SameCall(n, e) /\ n.op = "resume"
         /\ n.fresh = FALSE /\ n.late = e.late
BY DEF EffectRow, SameCall

\* An effect is given.
LEMMA GivenCall ==
  ASSUME NEW e \in EffectRow
  PROVE  LET n == Given(e) IN
         /\ n \in EffectRow /\ SameCall(n, e) /\ n.op = e.op /\ n.todo = e.todo
         /\ n.wrote = e.wrote /\ n.fresh = FALSE
         /\ n.late = IF Guarded THEN e.late ELSE e.late + 1
<1> DEFINE m == IF Guarded THEN e.late ELSE e.late + 1
<1>1. m \in Nat
  BY DEF EffectRow
<1>2. Given(e) = [e EXCEPT !.fresh = FALSE, !.late = m]
  BY Zenon DEF Given
<1> HIDE DEF m
<1>3. LET n == [e EXCEPT !.fresh = FALSE, !.late = m] IN
      /\ n \in EffectRow /\ SameCall(n, e) /\ n.op = e.op /\ n.todo = e.todo
      /\ n.wrote = e.wrote /\ n.fresh = FALSE /\ n.late = m
  BY <1>1 DEF EffectRow, SameCall
<1>4. LET n == Given(e) IN
      /\ n \in EffectRow /\ SameCall(n, e) /\ n.op = e.op /\ n.todo = e.todo
      /\ n.wrote = e.wrote /\ n.fresh = FALSE /\ n.late = m
  BY <1>2, <1>3
<1>5. QED
  BY <1>4 DEF m

\* The guard is that of the call, and says the same of the same lease.
LEMMA GuardKept ==
  ASSUME SameCall(effect', effect), UNCHANGED <<w08, held>>
  PROVE  Guarded' <=> Guarded
BY DEF SameCall, Guarded

\* A guard that has failed does not come back.
LEMMA GuardLost ==
  ASSUME TransitionInv, OtherLease \/ ExpireW08, ~Guarded
  PROVE  ~Guarded'
<1>1. /\ w08 \in LeaseRow /\ effect \in EffectRow /\ held \in HeldRow /\ MaxEvent \in Nat
      /\ effect.event <= w08.event
  BY TransitionKinds, EventAssumption DEF TransitionInv, LateFit
<1>2. UNCHANGED <<effect, held>>
  BY DEF OtherLease, ExpireW08
<1>3. /\ w08'.holder = "own" /\ w08'.live => w08.holder = "own" /\ w08.live /\ w08'.event = w08.event
      /\ w08'.holder = "free" /\ w08'.event = effect.event =>
           w08.holder = "free" /\ w08.event = effect.event
  <2>1. w08.event \in Nat /\ effect.event \in Nat
    BY <1>1 DEF LeaseRow, EffectRow
  <2>2. CASE OtherLease
    <3>1. /\ w08' \in {[holder |-> "other", live |-> TRUE, event |-> w08.event + 1],
                       [holder |-> "free", live |-> FALSE, event |-> w08.event + 1]}
      BY <2>2 DEF OtherLease
    <3>2. w08'.holder # "own" /\ w08'.event = w08.event + 1
      BY <3>1
    <3>3. QED
      BY <1>1, <2>1, <3>2
  <2>3. CASE ExpireW08
    <3>1. w08'.holder = w08.holder /\ w08'.event = w08.event /\ ~w08'.live
      BY <2>3 DEF ExpireW08
    <3>2. QED
      BY <3>1
  <2>4. QED
    BY <2>2, <2>3
<1>4. effect.guard \in {"none", "free", "held"}
  BY <1>1 DEF EffectRow
<1>5. QED
  BY <1>2, <1>3, <1>4 DEF Guarded, HeldCurrent, LeaseIntact

\* The types of the next state.
LEMMA TransitionKept ==
  ASSUME installed' \in [Client -> Versions], projection' \in [Client -> Versions],
         serving' \subseteq Client, dcsSchema' \in {9, 10},
         w08' \in LeaseRow, transition' \in MoveRow, held' \in HeldRow, effect' \in EffectRow
  PROVE  TransitionTypeOK'
BY DEF TransitionTypeOK, LeaseRow, MoveRow, HeldRow, EffectRow

-----------------------------------------------------------------------------
(* Every action keeps the invariant. *)

\* The writers to take down are noted; there is no guard to lose yet.
LEMMA QuiesceStep ==
  ASSUME TransitionInv, Quiesce
  PROVE  TransitionInv'
<1>1. /\ effect' \in EffectRow /\ effect'.op = "quiesce" /\ effect'.late = 0 /\ effect'.event = 0
  BY NoCallInProgress, TransitionKinds DEF TransitionInv, Quiesce, EffectRow
<1>2. transition' \in MoveRow /\ transition'.phase = "INITIAL"
  BY TransitionKinds DEF TransitionInv, Quiesce, NewTransition, MoveRow
<1>3. TransitionTypeOK'
  BY <1>1, <1>2, TransitionKept, TransitionKinds DEF TransitionInv, Quiesce
<1>4. SchemaFit'
  BY DEF TransitionInv, Quiesce, SchemaFit, InventoryOf
<1>5. CallFit'
  BY <1>1, <1>2 DEF CallFit
<1>6. EntriesFit'
  BY <1>1 DEF EntriesFit
<1>7. LateFit'
  BY <1>1, TransitionKinds DEF TransitionInv, Quiesce, LateFit, LeaseRow
<1>8. ProofFit'
  BY DEF TransitionInv, Quiesce, ProofFit
<1>9. QED
  BY <1>3, <1>4, <1>5, <1>6, <1>7, <1>8 DEF TransitionInv

\* A writer goes down at schema 9, before any mark is made.
LEMMA TakeDownStep ==
  ASSUME TransitionInv, NEW w \in Client, TakeDown(w)
  PROVE  TransitionInv'
<1>1. /\ effect' \in EffectRow /\ SameCall(effect', effect) /\ effect'.op = effect.op
      /\ effect'.late = effect.late /\ effect'.fresh = effect.fresh
  <2>1. effect.todo \ {w} \in SUBSET Client
    BY TransitionKinds DEF TransitionInv, EffectRow
  <2>2. QED
    BY <2>1, TodoCall, TransitionKinds DEF TransitionInv, TakeDown
<1>2. TransitionTypeOK'
  BY <1>1, TransitionKept, TransitionKinds DEF TransitionInv, TakeDown
<1>3. SchemaFit'
  BY DEF TransitionInv, TakeDown, SchemaFit
<1>4. CallFit'
  BY DEF TransitionInv, TakeDown, CallFit
<1>5. EntriesFit'
  BY DEF TakeDown, EntriesFit
<1>6. LateFit'
  BY <1>1, GuardKept DEF TransitionInv, TakeDown, LateFit
<1>7. ProofFit'
  BY DEF TransitionInv, TakeDown, ProofFit, HeldCurrent, LeaseIntact
<1>8. QED
  BY <1>2, <1>3, <1>4, <1>5, <1>6, <1>7 DEF TransitionInv

\* Some writers are brought back, and a new transition begins.
LEMMA QuiesceFailsStep ==
  ASSUME TransitionInv, QuiesceFails
  PROVE  TransitionInv'
<1>1. effect' \in EffectRow /\ effect'.op = "none" /\ effect'.late = 0 /\ effect'.event = 0
  BY NoCallInProgress DEF QuiesceFails
<1>2. transition' \in MoveRow /\ transition'.phase = "INITIAL"
  BY DEF QuiesceFails, NewTransition, MoveRow, Phases
<1>3. serving' \subseteq Client
  BY TransitionKinds DEF TransitionInv, QuiesceFails, MoveRow
<1>4. TransitionTypeOK'
  BY <1>1, <1>2, <1>3, TransitionKept, TransitionKinds DEF TransitionInv, QuiesceFails
<1>5. SchemaFit'
  BY <1>1 DEF TransitionInv, QuiesceFails, SchemaFit
<1>6. CallFit'
  BY <1>1 DEF CallFit
<1>7. EntriesFit'
  BY <1>1 DEF EntriesFit
<1>8. LateFit'
  BY <1>1, TransitionKinds DEF TransitionInv, QuiesceFails, LateFit, LeaseRow
<1>9. ProofFit'
  BY DEF TransitionInv, QuiesceFails, ProofFit, CallFit
<1>10. QED
  BY <1>4, <1>5, <1>6, <1>7, <1>8, <1>9 DEF TransitionInv

\* All are down with v0.4 in place.
LEMMA QuiesceEndsStep ==
  ASSUME TransitionInv, QuiesceEnds
  PROVE  TransitionInv'
<1>1. effect' \in EffectRow /\ effect'.op = "none" /\ effect'.late = 0 /\ effect'.event = 0
  BY NoCallInProgress DEF QuiesceEnds
<1>2. /\ transition' \in MoveRow /\ transition'.phase = "QUIESCED_V04"
      /\ transition'.before = transition.before
  BY PhaseRow, TransitionKinds DEF TransitionInv, QuiesceEnds, Phases
<1>3. TransitionTypeOK'
  BY <1>1, <1>2, TransitionKept, TransitionKinds DEF TransitionInv, QuiesceEnds
<1>4. SchemaFit'
  BY <1>1 DEF TransitionInv, QuiesceEnds, SchemaFit
<1>5. CallFit'
  BY <1>1 DEF CallFit
<1>6. EntriesFit'
  BY <1>1 DEF EntriesFit
<1>7. LateFit'
  BY <1>1, TransitionKinds DEF TransitionInv, QuiesceEnds, LateFit, LeaseRow
<1>8. ProofFit'
  BY DEF TransitionInv, QuiesceEnds, ProofFit, CallFit
<1>9. QED
  BY <1>3, <1>4, <1>5, <1>6, <1>7, <1>8 DEF TransitionInv

\* The forward writes begin, from the files as they are.
LEMMA ApplyV05ProjectionStep ==
  ASSUME TransitionInv, ApplyV05Projection
  PROVE  TransitionInv'
<1>1. /\ effect' \in EffectRow /\ effect'.op = "project" /\ effect'.late = 0
      /\ effect'.target = "v05" /\ effect'.guard = "none" /\ effect'.event = w08.event
      /\ effect'.entry = projection
  BY NoCallInProgress, TransitionKinds
     DEF TransitionInv, ApplyV05Projection, EffectRow, LeaseRow, Versions, Project
<1>2. /\ transition' \in MoveRow /\ transition'.phase = transition.phase
      /\ transition'.before = transition.before
  BY OutcomeRow, TransitionKinds DEF TransitionInv, ApplyV05Projection, Project
<1>3. UNCHANGED <<installed, projection, serving, dcsSchema, w08, held>>
  BY DEF ApplyV05Projection, Project
<1>4. TransitionTypeOK'
  BY <1>1, <1>2, <1>3, TransitionKept, TransitionKinds DEF TransitionInv
<1>5. SchemaFit'
  BY <1>1, <1>3 DEF TransitionInv, ApplyV05Projection, SchemaFit
<1>6. CallFit'
  BY <1>1, <1>2 DEF ApplyV05Projection, CallFit
<1>7. EntriesFit'
  BY <1>1, <1>3 DEF EntriesFit
<1>8. LateFit'
  BY <1>1, <1>3 DEF TransitionInv, LateFit, EffectRow
<1>9. ProofFit'
  BY <1>3 DEF TransitionInv, ApplyV05Projection, ProofFit
<1>10. QED
  BY <1>4, <1>5, <1>6, <1>7, <1>8, <1>9 DEF TransitionInv

\* The writes back begin, under the lease held or over a free row.
LEMMA RollbackToV04Step ==
  ASSUME TransitionInv, RollbackToV04
  PROVE  TransitionInv'
<1>1. PICK g \in {"held", "free"} :
        Project("v04", g) /\ (g = "held" => held.schema = 9) /\ (g = "free" => w08.holder = "free")
  BY DEF RollbackToV04
<1>2. /\ effect' \in EffectRow /\ effect'.op = "project" /\ effect'.late = 0
      /\ effect'.target = "v04" /\ effect'.event = w08.event /\ effect'.entry = projection
      /\ effect'.guard # "none" /\ (effect'.guard = "held" => held.schema = 9)
  BY <1>1, NoCallInProgress, TransitionKinds DEF TransitionInv, Project, EffectRow, LeaseRow
<1>3. /\ transition' \in MoveRow /\ transition'.phase = transition.phase
      /\ transition'.before = transition.before
  BY <1>1, OutcomeRow, TransitionKinds DEF TransitionInv, Project
<1>4. UNCHANGED <<installed, projection, serving, dcsSchema, w08, held>>
  BY <1>1 DEF Project
<1>5. TransitionTypeOK'
  BY <1>2, <1>3, <1>4, TransitionKept, TransitionKinds DEF TransitionInv
<1>6. SchemaFit'
  BY <1>2, <1>4 DEF TransitionInv, RollbackToV04, SchemaFit
<1>7. CallFit'
  BY <1>2, <1>4 DEF CallFit
<1>8. EntriesFit'
  BY <1>2, <1>4 DEF EntriesFit
<1>9. LateFit'
  BY <1>2, <1>4 DEF TransitionInv, LateFit, EffectRow
<1>10. ProofFit'
  BY <1>4 DEF TransitionInv, RollbackToV04, ProofFit
<1>11. QED
  BY <1>5, <1>6, <1>7, <1>8, <1>9, <1>10 DEF TransitionInv

\* An assertion before a write: it passes, or compensation begins with what was
\* written.
LEMMA AssertWriteStep ==
  ASSUME TransitionInv, AssertWrite
  PROVE  TransitionInv'
<1>1. /\ effect' \in EffectRow /\ SameCall(effect', effect) /\ effect'.late = effect.late
      /\ \/ effect'.op = "project" /\ effect'.wrote = effect.wrote /\ Guarded
         \/ effect'.op = "compensate" /\ effect'.todo = effect.wrote /\ effect'.fresh = FALSE
  BY FreshCall, CompensatingCall, TransitionKinds DEF TransitionInv, AssertWrite
<1>2. TransitionTypeOK'
  BY <1>1, TransitionKept, TransitionKinds DEF TransitionInv, AssertWrite
<1>3. SchemaFit'
  BY <1>1 DEF TransitionInv, AssertWrite, SchemaFit, Writing
<1>4. CallFit'
  BY <1>1 DEF TransitionInv, AssertWrite, CallFit
<1>5. EntriesFit'
  BY <1>1 DEF TransitionInv, AssertWrite, SameCall, EntriesFit
<1>6. LateFit'
  BY <1>1, GuardKept DEF TransitionInv, AssertWrite, SameCall, LateFit, Writing
<1>7. ProofFit'
  BY DEF TransitionInv, AssertWrite, ProofFit, HeldCurrent, LeaseIntact
<1>8. QED
  BY <1>2, <1>3, <1>4, <1>5, <1>6, <1>7 DEF TransitionInv

\* An entry at its target needs no write.
LEMMA SkipWriteStep ==
  ASSUME TransitionInv, NEW w \in Client, SkipWrite(w)
  PROVE  TransitionInv'
<1>1. /\ effect' \in EffectRow /\ SameCall(effect', effect) /\ effect'.op = effect.op
      /\ effect'.late = effect.late /\ effect'.fresh = effect.fresh /\ effect'.wrote = effect.wrote
  <2>1. effect.todo \ {w} \in SUBSET Client
    BY TransitionKinds DEF TransitionInv, EffectRow
  <2>2. QED
    BY <2>1, TodoCall, TransitionKinds DEF TransitionInv, SkipWrite
<1>2. TransitionTypeOK'
  BY <1>1, TransitionKept, TransitionKinds DEF TransitionInv, SkipWrite
<1>3. SchemaFit'
  BY DEF TransitionInv, SkipWrite, SchemaFit, Writing
<1>4. CallFit'
  BY DEF TransitionInv, SkipWrite, CallFit
<1>5. EntriesFit'
  BY DEF TransitionInv, SkipWrite, EntriesFit
<1>6. LateFit'
  BY <1>1, GuardKept DEF TransitionInv, SkipWrite, LateFit
<1>7. ProofFit'
  BY DEF TransitionInv, SkipWrite, ProofFit, HeldCurrent, LeaseIntact
<1>8. QED
  BY <1>2, <1>3, <1>4, <1>5, <1>6, <1>7 DEF TransitionInv

\* One write: done and recorded, failed after the replace and recorded, or failed
\* before it.
LEMMA WriteStep ==
  ASSUME TransitionInv, NEW w \in Client, Write(w)
  PROVE  TransitionInv'
<1> DEFINE given == Given(effect)
           done == [given EXCEPT !.todo = @ \ {w}, !.wrote = @ \cup {w}]
<1>1. /\ effect \in EffectRow /\ effect.op = "project" /\ effect.fresh /\ effect.target \in Versions
      /\ effect.wrote \in SUBSET Client /\ effect.todo \in SUBSET Client
      /\ projection \in [Client -> Versions]
  BY TransitionKinds DEF TransitionInv, Write, EffectRow
<1>2. /\ given \in EffectRow /\ SameCall(given, effect) /\ given.op = "project"
      /\ given.todo = effect.todo /\ given.wrote = effect.wrote /\ given.fresh = FALSE
      /\ given.late = IF Guarded THEN effect.late ELSE effect.late + 1
  BY <1>1, GivenCall
<1>3. \/ Replace(w, effect.target) /\ effect' \in {done, Compensating(done)}
      \/ UNCHANGED projection /\ effect' = Compensating(given)
  BY Zenon DEF Write
<1> HIDE DEF given
<1>4. /\ done \in EffectRow /\ SameCall(done, effect) /\ done.op = "project"
      /\ done.wrote = effect.wrote \cup {w} /\ done.fresh = FALSE /\ done.late = given.late
  <2> DEFINE n == [given EXCEPT !.todo = given.todo \ {w}, !.wrote = given.wrote \cup {w}]
  <2>1. /\ n \in EffectRow /\ SameCall(n, given) /\ n.op = given.op
        /\ n.wrote = given.wrote \cup {w} /\ n.fresh = given.fresh /\ n.late = given.late
    BY <1>2 DEF EffectRow, SameCall
  <2> HIDE DEF n
  <2>2. done = n
    BY DEF n
  <2> HIDE DEF done
  <2>3. QED
    BY <1>2, <2>1, <2>2 DEF SameCall
<1> HIDE DEF done
<1>5. /\ effect' \in EffectRow /\ SameCall(effect', effect) /\ effect'.fresh = FALSE
      /\ effect'.late = IF Guarded THEN effect.late ELSE effect.late + 1
      /\ \/ /\ Replace(w, effect.target)
            /\ \/ effect'.op = "project" /\ effect'.wrote = effect.wrote \cup {w}
               \/ effect'.op = "compensate" /\ effect'.todo = effect.wrote \cup {w}
         \/ UNCHANGED projection /\ effect'.op = "compensate" /\ effect'.todo = effect.wrote
  <2>1. /\ Compensating(done) \in EffectRow /\ SameCall(Compensating(done), done)
        /\ Compensating(done).op = "compensate" /\ Compensating(done).todo = done.wrote
        /\ Compensating(done).fresh = FALSE /\ Compensating(done).late = done.late
    BY <1>4, CompensatingCall
  <2>2. /\ Compensating(given) \in EffectRow /\ SameCall(Compensating(given), given)
        /\ Compensating(given).op = "compensate" /\ Compensating(given).todo = given.wrote
        /\ Compensating(given).fresh = FALSE /\ Compensating(given).late = given.late
    BY <1>2, CompensatingCall
  <2>3. CASE Replace(w, effect.target) /\ effect' = done
    BY <1>2, <1>4, <2>3
  <2>4. CASE Replace(w, effect.target) /\ effect' = Compensating(done)
    BY <1>2, <1>4, <2>1, <2>4 DEF SameCall
  <2>5. CASE UNCHANGED projection /\ effect' = Compensating(given)
    BY <1>2, <2>2, <2>5 DEF SameCall
  <2>6. QED
    BY <1>3, <2>3, <2>4, <2>5
<1>6. projection' \in [Client -> Versions] /\ \A x \in Client : x # w => projection'[x] = projection[x]
  BY <1>1, <1>5 DEF Replace
<1>7. TransitionTypeOK'
  BY <1>5, <1>6, TransitionKept, TransitionKinds DEF TransitionInv, Write
<1>8. SchemaFit'
  BY <1>5 DEF TransitionInv, Write, SchemaFit, Writing
<1>9. CallFit'
  BY <1>5 DEF TransitionInv, Write, SameCall, CallFit
<1>10. EntriesFit'
  BY <1>1, <1>5, <1>6 DEF TransitionInv, SameCall, EntriesFit
<1>11. LateFit'
  BY <1>5, GuardKept DEF TransitionInv, Write, SameCall, LateFit, Writing
<1>12. ProofFit'
  BY DEF TransitionInv, Write, ProofFit, HeldCurrent, LeaseIntact
<1>13. QED
  BY <1>7, <1>8, <1>9, <1>10, <1>11, <1>12 DEF TransitionInv

\* All is written: the forward call ends, the rollback goes on to the restart or
\* compensates.
LEMMA ProjectEndsStep ==
  ASSUME TransitionInv, ProjectEnds
  PROVE  TransitionInv'
<1> DEFINE resumed == [effect EXCEPT !.op = "resume", !.fresh = FALSE, !.todo = transition.before]
<1>1. /\ effect \in EffectRow /\ effect.op = "project" /\ transition \in MoveRow
      /\ transition.before \in SUBSET Client
  BY TransitionKinds DEF TransitionInv, ProjectEnds, MoveRow
<1>2. /\ resumed \in EffectRow /\ SameCall(resumed, effect) /\ resumed.op = "resume"
      /\ resumed.fresh = FALSE /\ resumed.late = effect.late
  BY <1>1, ResumingCall
<1>3. UNCHANGED <<installed, projection, serving, dcsSchema, w08, held>>
  BY DEF ProjectEnds
<1>4. CASE effect.target = "v05" /\ Phase("AUTHORIZED_V05") /\ effect' = NoEffect
  <2>1. transition' \in MoveRow /\ transition'.phase = "AUTHORIZED_V05"
    BY <1>1, <1>4, PhaseRow DEF Phases
  <2>2. TransitionTypeOK'
    BY <1>3, <1>4, <2>1, NoCallInProgress, TransitionKept, TransitionKinds DEF TransitionInv
  <2>3. SchemaFit' /\ CallFit' /\ EntriesFit'
    BY <1>1, <1>3, <1>4, NoCallInProgress DEF TransitionInv, SchemaFit, CallFit, EntriesFit
  <2>4. LateFit'
    BY <1>3, <1>4, NoCallInProgress, TransitionKinds DEF TransitionInv, LateFit, LeaseRow
  <2>5. ProofFit'
    BY <1>4 DEF TransitionInv, CallFit, ProofFit, ProjectEnds
  <2>6. QED
    BY <2>2, <2>3, <2>4, <2>5 DEF TransitionInv
<1>5. CASE effect.target = "v04" /\ effect' \in {resumed, Compensating(effect)} /\ UNCHANGED transition
  <2> HIDE DEF resumed
  <2>1. /\ effect' \in EffectRow /\ SameCall(effect', effect) /\ effect'.fresh = FALSE
        /\ effect'.late = effect.late
        /\ \/ effect'.op = "resume"
           \/ effect'.op = "compensate" /\ effect'.todo = effect.wrote
    BY <1>1, <1>2, <1>5, CompensatingCall
  <2>2. TransitionTypeOK'
    BY <1>3, <1>5, <2>1, TransitionKept, TransitionKinds DEF TransitionInv
  <2>3. dcsSchema = 9
    BY <1>1, TransitionKinds DEF TransitionInv, SchemaFit, Writing
  <2>4. SchemaFit' /\ CallFit' /\ EntriesFit'
    BY <1>1, <1>3, <1>5, <2>1, <2>3
       DEF TransitionInv, SchemaFit, CallFit, EntriesFit, SameCall
  <2>5. LateFit'
    BY <1>3, <2>1, GuardKept DEF TransitionInv, LateFit, Writing, SameCall
  <2>6. ProofFit'
    BY <1>1, <1>3, <1>5 DEF TransitionInv, ProofFit, HeldCurrent, LeaseIntact
  <2>7. QED
    BY <2>2, <2>4, <2>5, <2>6 DEF TransitionInv
<1>6. QED
  BY <1>4, <1>5, Zenon DEF ProjectEnds

\* An assertion before an entry is put back; without a guard, recovery is left to
\* the operator.
LEMMA AssertUndoStep ==
  ASSUME TransitionInv, AssertUndo
  PROVE  TransitionInv'
<1>1. /\ effect' \in EffectRow /\ transition' \in MoveRow
      /\ transition'.phase = transition.phase /\ transition'.before = transition.before
      /\ \/ effect'.op = "none" /\ effect'.late = 0 /\ effect'.event = 0
         \/ /\ SameCall(effect', effect) /\ effect'.op = effect.op /\ effect'.todo = effect.todo
            /\ effect'.late = effect.late /\ Guarded
  BY FreshCall, OutcomeRow, NoCallInProgress, TransitionKinds
     DEF TransitionInv, AssertUndo, Concludes
<1>2. TransitionTypeOK'
  BY <1>1, TransitionKept, TransitionKinds DEF TransitionInv, AssertUndo
<1>3. SchemaFit'
  BY <1>1 DEF TransitionInv, AssertUndo, SchemaFit, Writing
<1>4. CallFit'
  BY <1>1 DEF AssertUndo, CallFit
<1>5. EntriesFit'
  BY <1>1 DEF TransitionInv, AssertUndo, SameCall, EntriesFit
<1>6. LateFit'
  BY <1>1, TransitionKinds DEF TransitionInv, AssertUndo, SameCall, LateFit, LeaseRow
<1>7. ProofFit'
  BY <1>1 DEF TransitionInv, AssertUndo, ProofFit, HeldCurrent, LeaseIntact
<1>8. QED
  BY <1>2, <1>3, <1>4, <1>5, <1>6, <1>7 DEF TransitionInv

\* One entry is put back, or the attempt fails and recovery is left to the operator.
LEMMA UndoStep ==
  ASSUME TransitionInv, NEW w \in Client, Undo(w)
  PROVE  TransitionInv'
<1> DEFINE given == Given(effect)
           less == [given EXCEPT !.todo = @ \ {w}]
<1>1. /\ effect \in EffectRow /\ effect.op = "compensate" /\ effect.fresh
      /\ effect.entry \in [Client -> Versions] /\ effect.todo \in SUBSET Client
      /\ projection \in [Client -> Versions]
  BY TransitionKinds DEF TransitionInv, Undo, EffectRow
<1>2. /\ given \in EffectRow /\ SameCall(given, effect) /\ given.op = "compensate"
      /\ given.todo = effect.todo /\ given.fresh = FALSE
      /\ given.late = IF Guarded THEN effect.late ELSE effect.late + 1
  BY <1>1, GivenCall
<1>3. \/ Replace(w, effect.entry[w]) /\ effect' = less /\ UNCHANGED transition
      \/ (Replace(w, effect.entry[w]) \/ UNCHANGED projection) /\ Concludes("recovery")
  BY Zenon DEF Undo
<1> HIDE DEF given
<1>4. /\ less \in EffectRow /\ SameCall(less, effect) /\ less.op = "compensate"
      /\ less.todo = effect.todo \ {w} /\ less.fresh = FALSE /\ less.late = given.late
  <2>1. given.todo \ {w} \in SUBSET Client
    BY <1>1, <1>2
  <2>2. QED
    BY <1>2, <2>1, TodoCall DEF SameCall
<1> HIDE DEF less
<1>5. /\ projection' \in [Client -> Versions]
      /\ \A x \in Client : x # w => projection'[x] = projection[x]
      /\ Replace(w, effect.entry[w]) => projection'[w] = effect.entry[w]
  BY <1>1, <1>3 DEF Replace
<1>6. UNCHANGED <<installed, serving, dcsSchema, w08, held>>
  BY DEF Undo
<1>7. dcsSchema = 9
  BY <1>1, TransitionKinds DEF TransitionInv, SchemaFit, Writing
<1>8. CASE Replace(w, effect.entry[w]) /\ effect' = less /\ UNCHANGED transition
  <2>1. TransitionTypeOK'
    BY <1>4, <1>5, <1>6, <1>8, TransitionKept, TransitionKinds DEF TransitionInv
  <2>2. SchemaFit' /\ CallFit'
    BY <1>4, <1>6, <1>7, <1>8 DEF TransitionInv, SchemaFit, CallFit
  <2>3. EntriesFit'
    BY <1>1, <1>4, <1>5, <1>8 DEF TransitionInv, EntriesFit, SameCall
  <2>4. LateFit'
    BY <1>1, <1>2, <1>4, <1>6, <1>8, GuardKept DEF TransitionInv, LateFit, Writing, SameCall
  <2>5. ProofFit'
    BY <1>1, <1>6, <1>8 DEF TransitionInv, ProofFit, HeldCurrent, LeaseIntact
  <2>6. QED
    BY <2>1, <2>2, <2>3, <2>4, <2>5 DEF TransitionInv
<1>9. CASE Concludes("recovery")
  <2>1. /\ effect' = NoEffect /\ transition' \in MoveRow /\ transition'.phase = transition.phase
        /\ transition'.before = transition.before
    BY <1>9, OutcomeRow, TransitionKinds DEF TransitionInv, Concludes
  <2>2. TransitionTypeOK'
    BY <1>5, <1>6, <2>1, NoCallInProgress, TransitionKept, TransitionKinds DEF TransitionInv
  <2>3. SchemaFit' /\ CallFit' /\ EntriesFit'
    BY <1>6, <1>7, <2>1, NoCallInProgress DEF TransitionInv, SchemaFit, CallFit, EntriesFit
  <2>4. LateFit'
    BY <1>6, <2>1, NoCallInProgress, TransitionKinds DEF TransitionInv, LateFit, LeaseRow
  <2>5. ProofFit'
    BY <1>1, <1>6, <2>1 DEF TransitionInv, ProofFit, HeldCurrent, LeaseIntact
  <2>6. QED
    BY <2>2, <2>3, <2>4, <2>5 DEF TransitionInv
<1>10. QED
  BY <1>3, <1>8, <1>9

\* Nothing is left to put back.
LEMMA CompensationEndsStep ==
  ASSUME TransitionInv, CompensationEnds
  PROVE  TransitionInv'
<1>1. effect' \in EffectRow /\ effect'.op = "none" /\ effect'.late = 0 /\ effect'.event = 0
  BY NoCallInProgress DEF CompensationEnds, Concludes
<1>2. /\ transition' \in MoveRow /\ transition'.phase = transition.phase
      /\ transition'.before = transition.before
  BY OutcomeRow, TransitionKinds DEF TransitionInv, CompensationEnds, Concludes
<1>3. TransitionTypeOK'
  BY <1>1, <1>2, TransitionKept, TransitionKinds DEF TransitionInv, CompensationEnds
<1>4. SchemaFit'
  BY <1>1 DEF TransitionInv, CompensationEnds, SchemaFit, Writing
<1>5. CallFit'
  BY <1>1 DEF CallFit
<1>6. EntriesFit'
  BY <1>1 DEF EntriesFit
<1>7. LateFit'
  BY <1>1, TransitionKinds DEF TransitionInv, CompensationEnds, LateFit, LeaseRow
<1>8. ProofFit'
  BY <1>2 DEF TransitionInv, CompensationEnds, ProofFit, HeldCurrent, LeaseIntact
<1>9. QED
  BY <1>3, <1>4, <1>5, <1>6, <1>7, <1>8 DEF TransitionInv

\* The restart stops; what was started serves on.
LEMMA ResumeFailsStep ==
  ASSUME TransitionInv, ResumeFails
  PROVE  TransitionInv'
<1>1. effect' \in EffectRow /\ effect'.op = "none" /\ effect'.late = 0 /\ effect'.event = 0
  BY NoCallInProgress DEF ResumeFails
<1>2. /\ transition' \in MoveRow /\ transition'.before = transition.before
      /\ \/ effect.target = "v04" /\ transition'.phase = transition.phase
         \/ effect.target # "v04" /\ transition'.phase = "RECONCILIATION_REQUIRED"
  BY PhaseRow, OutcomeRow, TransitionKinds DEF TransitionInv, ResumeFails, Phases
<1>3. TransitionTypeOK'
  BY <1>1, <1>2, TransitionKept, TransitionKinds DEF TransitionInv, ResumeFails
<1>4. SchemaFit'
  BY <1>1, <1>2 DEF TransitionInv, ResumeFails, SchemaFit, Writing, InventoryOf
<1>5. CallFit'
  BY <1>1 DEF CallFit
<1>6. EntriesFit'
  BY <1>1 DEF EntriesFit
<1>7. LateFit'
  BY <1>1, TransitionKinds DEF TransitionInv, ResumeFails, LateFit, LeaseRow
<1>8. ProofFit'
  BY <1>2 DEF TransitionInv, ResumeFails, ProofFit, HeldCurrent, LeaseIntact, CallFit
<1>9. QED
  BY <1>3, <1>4, <1>5, <1>6, <1>7, <1>8 DEF TransitionInv

\* An assertion before a writer is started.
LEMMA AssertStartStep ==
  ASSUME TransitionInv, AssertStart
  PROVE  TransitionInv'
<1>1. /\ effect' \in EffectRow /\ SameCall(effect', effect) /\ effect'.op = effect.op
      /\ effect'.late = effect.late
  BY FreshCall, TransitionKinds DEF TransitionInv, AssertStart
<1>2. TransitionTypeOK'
  BY <1>1, TransitionKept, TransitionKinds DEF TransitionInv, AssertStart
<1>3. SchemaFit'
  BY DEF TransitionInv, AssertStart, SchemaFit, InventoryOf
<1>4. CallFit'
  BY DEF TransitionInv, AssertStart, CallFit
<1>5. EntriesFit'
  BY DEF AssertStart, EntriesFit
<1>6. LateFit'
  BY DEF TransitionInv, AssertStart, LateFit
<1>7. ProofFit'
  BY DEF TransitionInv, AssertStart, ProofFit, HeldCurrent, LeaseIntact
<1>8. QED
  BY <1>2, <1>3, <1>4, <1>5, <1>6, <1>7 DEF TransitionInv

\* One writer is started.
LEMMA StartWriterStep ==
  ASSUME TransitionInv, NEW w \in Client, StartWriter(w)
  PROVE  TransitionInv'
<1>1. /\ effect' \in EffectRow /\ SameCall(effect', effect) /\ effect'.op = effect.op /\ effect'.fresh = FALSE
      /\ effect'.late = IF Guarded THEN effect.late ELSE effect.late + 1
  <2>1. Given(effect) \in EffectRow /\ SameCall(Given(effect), effect) /\ Given(effect).op = effect.op
        /\ Given(effect).todo = effect.todo /\ Given(effect).fresh = FALSE
        /\ Given(effect).late = IF Guarded THEN effect.late ELSE effect.late + 1
    BY GivenCall, TransitionKinds DEF TransitionInv
  <2>2. effect.todo \ {w} \in SUBSET Client
    BY TransitionKinds DEF TransitionInv, EffectRow
  <2>3. QED
    BY <2>1, <2>2, TodoCall DEF StartWriter, SameCall
<1>2. TransitionTypeOK'
  BY <1>1, TransitionKept, TransitionKinds DEF TransitionInv, StartWriter
<1>3. SchemaFit'
  BY <1>1 DEF TransitionInv, StartWriter, SchemaFit, InventoryOf
<1>4. CallFit'
  BY <1>1 DEF TransitionInv, StartWriter, SameCall, CallFit
<1>5. EntriesFit'
  BY <1>1 DEF StartWriter, EntriesFit
<1>6. LateFit'
  BY <1>1, GuardKept DEF TransitionInv, StartWriter, SameCall, LateFit
<1>7. ProofFit'
  BY DEF TransitionInv, StartWriter, ProofFit, HeldCurrent, LeaseIntact
<1>8. QED
  BY <1>2, <1>3, <1>4, <1>5, <1>6, <1>7 DEF TransitionInv

\* All serve as before: the mark is made, unless a rollback ran over a free row.
LEMMA ResumeEndsStep ==
  ASSUME TransitionInv, ResumeEnds
  PROVE  TransitionInv'
<1>1. /\ effect' = NoEffect /\ effect.op = "resume" /\ Guarded /\ Restored(effect.target)
      /\ UNCHANGED <<installed, projection, serving, dcsSchema, w08>>
      /\ held \in HeldRow /\ effect \in EffectRow /\ w08 \in LeaseRow
  BY TransitionKinds DEF TransitionInv, ResumeEnds
<1>2. ASSUME NEW n \in {9, 10}, Proven(n)
      PROVE  /\ held' \in HeldRow /\ held'.proof = n /\ held'.schema = held.schema
             /\ held'.event = held.event
  BY <1>1, <1>2 DEF Proven, HeldRow
<1>3. CASE effect.target = "v04"
  <2>1. /\ transition' \in MoveRow /\ transition'.phase = "ROLLED_BACK_V04_SCHEMA9"
        /\ transition'.before = transition.before
    BY <1>3, PhaseRow, TransitionKinds DEF TransitionInv, ResumeEnds, Phases
  <2>2. dcsSchema = 9 /\ (effect.guard = "held" => held.schema = 9)
    BY <1>1, <1>3 DEF TransitionInv, CallFit
  <2>3. /\ held' \in HeldRow /\ held'.schema = held.schema /\ held'.event = held.event
        /\ \/ held' = held /\ effect.guard = "free"
           \/ held'.proof = 9 /\ held.schema = 9
    <3>1. effect.guard # "none"
      BY <1>1, <1>3 DEF TransitionInv, CallFit
    <3>2. QED
      BY <1>1, <1>2, <1>3, <2>2, <3>1 DEF ResumeEnds, EffectRow
  <2>4. TransitionTypeOK'
    BY <1>1, <2>1, <2>3, NoCallInProgress, TransitionKept, TransitionKinds DEF TransitionInv
  <2>5. SchemaFit' /\ CallFit' /\ EntriesFit'
    BY <1>1, <2>2, <2>3, NoCallInProgress DEF TransitionInv, SchemaFit, CallFit, EntriesFit
  <2>6. LateFit'
    BY <1>1, <2>3, NoCallInProgress DEF TransitionInv, LateFit, LeaseRow
  <2>7. ProofFit'
    <3>1. CASE held' = held /\ effect.guard = "free"
      <4>1. w08'.holder = "free"
        BY <1>1, <3>1 DEF Guarded
      <4>2. held.proof # 10 /\ (held.proof = 9 => held.schema = 9)
        BY <2>2 DEF TransitionInv, ProofFit
      <4>3. QED
        BY <1>1, <2>1, <2>2, <3>1, <4>1, <4>2 DEF ProofFit, HeldCurrent, LeaseIntact
    <3>2. CASE held'.proof = 9 /\ held.schema = 9
      <4>1. Serves("v04")'
        BY <1>1, <1>3, <2>1, TransitionKinds
           DEF TransitionInv, Serves, Restored, InventoryOf
      <4>2. QED
        BY <1>1, <2>1, <2>2, <2>3, <3>2, <4>1, NoCallInProgress DEF ProofFit
    <3>3. QED
      BY <2>3, <3>1, <3>2
  <2>8. QED
    BY <2>4, <2>5, <2>6, <2>7 DEF TransitionInv
<1>4. CASE effect.target # "v04"
  <2>1. /\ transition' \in MoveRow /\ transition'.phase = "RESTORED_SCHEMA10"
        /\ transition'.before = transition.before
    BY <1>4, PhaseRow, TransitionKinds DEF TransitionInv, ResumeEnds, Phases
  <2>2. held.schema = 10 /\ dcsSchema = 10
    BY <1>1, <1>4 DEF TransitionInv, CallFit, SchemaFit
  <2>3. /\ held' \in HeldRow /\ held'.schema = held.schema /\ held'.event = held.event
        /\ held'.proof = 10
    BY <1>2, <1>4 DEF ResumeEnds
  <2>4. TransitionTypeOK'
    BY <1>1, <2>1, <2>3, NoCallInProgress, TransitionKept, TransitionKinds DEF TransitionInv
  <2>5. SchemaFit' /\ CallFit' /\ EntriesFit'
    BY <1>1, <2>1, <2>2, NoCallInProgress
       DEF TransitionInv, SchemaFit, CallFit, EntriesFit, Writing, InventoryOf
  <2>6. LateFit'
    BY <1>1, <2>3, NoCallInProgress DEF TransitionInv, LateFit, LeaseRow
  <2>7. ProofFit'
    BY <1>1, <2>1, <2>2, <2>3, NoCallInProgress DEF ProofFit, Restored
  <2>8. QED
    BY <2>4, <2>5, <2>6, <2>7 DEF TransitionInv
<1>5. QED
  BY <1>3, <1>4

\* The v0.5 clients found installed are bound.
LEMMA BindInstalledV05Step ==
  ASSUME TransitionInv, BindInstalledV05
  PROVE  TransitionInv'
<1>1. /\ transition' \in MoveRow /\ transition'.phase = "BOUND_V05"
      /\ transition'.before = transition.before
  BY PhaseRow, TransitionKinds DEF TransitionInv, BindInstalledV05, Phases
<1>2. TransitionTypeOK'
  BY <1>1, TransitionKept, TransitionKinds DEF TransitionInv, BindInstalledV05
<1>3. SchemaFit'
  BY <1>1 DEF TransitionInv, BindInstalledV05, SchemaFit, InventoryOf
<1>4. CallFit'
  BY DEF BindInstalledV05, Unoccupied, CallFit
<1>5. EntriesFit'
  BY DEF TransitionInv, BindInstalledV05, EntriesFit
<1>6. LateFit'
  BY DEF TransitionInv, BindInstalledV05, Unoccupied, LateFit, Writing
<1>7. ProofFit'
  BY DEF TransitionInv, BindInstalledV05, ProofFit
<1>8. QED
  BY <1>2, <1>3, <1>4, <1>5, <1>6, <1>7 DEF TransitionInv

\* The database is backed up at schema 9.
LEMMA CreateSchema9BackupStep ==
  ASSUME TransitionInv, CreateSchema9Backup
  PROVE  TransitionInv'
<1>1. /\ transition' \in MoveRow /\ transition'.phase = "BACKED_UP"
      /\ transition'.before = transition.before
  BY TransitionKinds DEF TransitionInv, CreateSchema9Backup, MoveRow, Phases
<1>2. TransitionTypeOK'
  BY <1>1, TransitionKept, TransitionKinds DEF TransitionInv, CreateSchema9Backup
<1>3. SchemaFit'
  BY DEF TransitionInv, CreateSchema9Backup, SchemaFit
<1>4. CallFit'
  BY DEF TransitionInv, CreateSchema9Backup, CallFit
<1>5. EntriesFit'
  BY DEF TransitionInv, CreateSchema9Backup, EntriesFit
<1>6. LateFit'
  BY DEF TransitionInv, CreateSchema9Backup, Unoccupied, LateFit, Writing
<1>7. ProofFit'
  BY DEF TransitionInv, CreateSchema9Backup, ProofFit
<1>8. QED
  BY <1>2, <1>3, <1>4, <1>5, <1>6, <1>7 DEF TransitionInv

\* The row was seen free and the lease is asked for.
LEMMA AcquireSchema9W08Step ==
  ASSUME TransitionInv, AcquireSchema9W08
  PROVE  TransitionInv'
<1>1. /\ effect' \in EffectRow /\ effect'.op = "acquire" /\ effect'.late = 0 /\ effect'.event = 0
  BY NoCallInProgress DEF AcquireSchema9W08, EffectRow
<1>2. TransitionTypeOK'
  BY <1>1, TransitionKept, TransitionKinds DEF TransitionInv, AcquireSchema9W08
<1>3. SchemaFit'
  BY DEF TransitionInv, AcquireSchema9W08, SchemaFit
<1>4. CallFit'
  BY <1>1 DEF CallFit
<1>5. EntriesFit'
  BY <1>1 DEF EntriesFit
<1>6. LateFit'
  BY <1>1, TransitionKinds DEF TransitionInv, AcquireSchema9W08, LateFit, LeaseRow
<1>7. ProofFit'
  BY DEF TransitionInv, AcquireSchema9W08, ProofFit, HeldCurrent, LeaseIntact
<1>8. QED
  BY <1>2, <1>3, <1>4, <1>5, <1>6, <1>7 DEF TransitionInv

\* A new event is ahead of every object; only a grant of the free row makes one.
LEMMA LeaseGrantedStep ==
  ASSUME TransitionInv, LeaseGranted
  PROVE  TransitionInv'
<1>1. effect' \in EffectRow /\ effect'.op = "none" /\ effect'.late = 0 /\ effect'.event = 0
  BY NoCallInProgress DEF LeaseGranted
<1>2. /\ w08' \in LeaseRow /\ w08'.event = w08.event + 1
  BY EventAssumption, TransitionKinds DEF TransitionInv, LeaseGranted, LeaseRow
<1>3. /\ held' \in HeldRow
      /\ \/ held'.proof = 0 /\ held'.schema = 9 /\ held'.event = w08.event + 1
         \/ held' = held
  BY <1>2, TransitionKinds DEF TransitionInv, LeaseGranted, NoHeld, HeldRow, LeaseRow
<1>4. TransitionTypeOK'
  BY <1>1, <1>2, <1>3, TransitionKept, TransitionKinds DEF TransitionInv, LeaseGranted
<1>5. SchemaFit'
  BY <1>1, <1>3 DEF TransitionInv, LeaseGranted, SchemaFit, Writing, InventoryOf
<1>6. CallFit'
  BY <1>1 DEF CallFit
<1>7. EntriesFit'
  BY <1>1 DEF EntriesFit
<1>8. LateFit'
  BY <1>1, <1>2, <1>3, TransitionKinds DEF TransitionInv, LateFit, HeldRow, LeaseRow
<1>9. ProofFit'
  <2>1. CASE held'.proof = 0
    BY <2>1 DEF ProofFit
  <2>2. CASE held' = held
    <3>1. held.event <= w08.event /\ held.event \in Nat /\ w08.event \in Nat
      BY TransitionKinds DEF TransitionInv, LateFit, HeldRow, LeaseRow
    <3>2. ~HeldCurrent'
      BY <1>2, <2>2, <3>1 DEF HeldCurrent, LeaseIntact
    <3>3. QED
      BY <2>2, <3>2 DEF TransitionInv, LeaseGranted, ProofFit
  <2>3. QED
    BY <1>3, <2>1, <2>2
<1>10. QED
  BY <1>4, <1>5, <1>6, <1>7, <1>8, <1>9 DEF TransitionInv

\* The lease went to somebody else.
LEMMA LeaseRefusedStep ==
  ASSUME TransitionInv, LeaseRefused
  PROVE  TransitionInv'
<1>1. effect' \in EffectRow /\ effect'.op = "none" /\ effect'.late = 0 /\ effect'.event = 0
  BY NoCallInProgress DEF LeaseRefused
<1>2. TransitionTypeOK'
  BY <1>1, TransitionKept, TransitionKinds DEF TransitionInv, LeaseRefused
<1>3. SchemaFit'
  BY <1>1 DEF TransitionInv, LeaseRefused, SchemaFit, Writing, InventoryOf
<1>4. CallFit'
  BY <1>1 DEF CallFit
<1>5. EntriesFit'
  BY <1>1 DEF EntriesFit
<1>6. LateFit'
  BY <1>1, TransitionKinds DEF TransitionInv, LeaseRefused, LateFit, LeaseRow
<1>7. ProofFit'
  BY DEF TransitionInv, LeaseRefused, ProofFit, HeldCurrent, LeaseIntact
<1>8. QED
  BY <1>2, <1>3, <1>4, <1>5, <1>6, <1>7 DEF TransitionInv

\* The checks of the migration find every writer down on v0.5.
LEMMA ApplyExactMigration10Step ==
  ASSUME TransitionInv, ApplyExactMigration10
  PROVE  TransitionInv'
<1>1. /\ effect' \in EffectRow /\ effect'.op = "migrate" /\ effect'.late = 0 /\ effect'.event = 0
  BY NoCallInProgress DEF ApplyExactMigration10, EffectRow
<1>2. TransitionTypeOK'
  BY <1>1, TransitionKept, TransitionKinds DEF TransitionInv, ApplyExactMigration10
<1>3. SchemaFit'
  BY DEF ApplyExactMigration10, SchemaFit, Writing, InventoryOf, Quiesced
<1>4. CallFit'
  BY <1>1 DEF CallFit
<1>5. EntriesFit'
  BY <1>1 DEF EntriesFit
<1>6. LateFit'
  BY <1>1, TransitionKinds DEF TransitionInv, ApplyExactMigration10, LateFit, LeaseRow
<1>7. ProofFit'
  BY DEF TransitionInv, ApplyExactMigration10, ProofFit
<1>8. QED
  BY <1>2, <1>3, <1>4, <1>5, <1>6, <1>7 DEF TransitionInv

\* The transaction commits, and its caller knows it or not.
LEMMA MigratedStep ==
  ASSUME TransitionInv, Migrated
  PROVE  TransitionInv'
<1>1. effect' \in EffectRow /\ effect'.op = "none" /\ effect'.late = 0 /\ effect'.event = 0
  BY NoCallInProgress DEF Migrated
<1>2. /\ transition' \in MoveRow /\ transition'.before = transition.before
      /\ transition'.phase \in {"MIGRATED_SCHEMA10", transition.phase}
  BY PhaseRow, OutcomeRow, TransitionKinds DEF TransitionInv, Migrated, Concludes, Phases
<1>3. /\ held' \in HeldRow /\ held'.event = held.event /\ held'.proof = held.proof
  BY TransitionKinds DEF TransitionInv, Migrated, HeldRow
<1>4. TransitionTypeOK'
  BY <1>1, <1>2, <1>3, TransitionKept, TransitionKinds DEF TransitionInv, Migrated
<1>5. SchemaFit'
  BY <1>1, <1>2 DEF TransitionInv, Migrated, SchemaFit, Writing, InventoryOf, Quiesced
<1>6. CallFit'
  BY <1>1 DEF CallFit
<1>7. EntriesFit'
  BY <1>1 DEF EntriesFit
<1>8. LateFit'
  BY <1>1, <1>3, TransitionKinds DEF TransitionInv, Migrated, LateFit, LeaseRow
<1>9. ProofFit'
  BY <1>3 DEF TransitionInv, Migrated, ProofFit, SchemaFit
<1>10. QED
  BY <1>4, <1>5, <1>6, <1>7, <1>8, <1>9 DEF TransitionInv

\* The transaction rolls back, and its caller knows it or not.
LEMMA NotMigratedStep ==
  ASSUME TransitionInv, NotMigrated
  PROVE  TransitionInv'
<1>1. effect' \in EffectRow /\ effect'.op = "none" /\ effect'.late = 0 /\ effect'.event = 0
  BY NoCallInProgress DEF NotMigrated
<1>2. /\ held' \in HeldRow /\ held'.event = held.event /\ held'.proof = held.proof
      /\ held'.schema = held.schema
  BY TransitionKinds DEF TransitionInv, NotMigrated, HeldRow
<1>3. TransitionTypeOK'
  BY <1>1, <1>2, TransitionKept, TransitionKinds DEF TransitionInv, NotMigrated
<1>4. SchemaFit'
  BY <1>1, <1>2 DEF TransitionInv, NotMigrated, SchemaFit, Writing, InventoryOf
<1>5. CallFit'
  BY <1>1 DEF CallFit
<1>6. EntriesFit'
  BY <1>1 DEF EntriesFit
<1>7. LateFit'
  BY <1>1, <1>2, TransitionKinds DEF TransitionInv, NotMigrated, LateFit, LeaseRow
<1>8. ProofFit'
  BY <1>2 DEF TransitionInv, NotMigrated, ProofFit, SchemaFit
<1>9. QED
  BY <1>3, <1>4, <1>5, <1>6, <1>7, <1>8 DEF TransitionInv

\* The object opens the schema 10 database.
LEMMA RebindSchema10Step ==
  ASSUME TransitionInv, RebindSchema10
  PROVE  TransitionInv'
<1>1. /\ held' \in HeldRow /\ held'.event = held.event /\ held'.proof = held.proof
      /\ held'.schema = held.schema
  BY TransitionKinds DEF TransitionInv, RebindSchema10, HeldRow
<1>2. TransitionTypeOK'
  BY <1>1, TransitionKept, TransitionKinds DEF TransitionInv, RebindSchema10
<1>3. SchemaFit'
  BY DEF TransitionInv, RebindSchema10, Unoccupied, SchemaFit, InventoryOf
<1>4. CallFit'
  BY DEF TransitionInv, RebindSchema10, CallFit
<1>5. EntriesFit'
  BY DEF TransitionInv, RebindSchema10, EntriesFit
<1>6. LateFit'
  BY DEF TransitionInv, RebindSchema10, Unoccupied, LateFit, Writing
<1>7. ProofFit'
  BY DEF TransitionInv, RebindSchema10, ProofFit
<1>8. QED
  BY <1>2, <1>3, <1>4, <1>5, <1>6, <1>7 DEF TransitionInv

\* The restart begins, or the writers are found serving and the mark is made.
LEMMA RestoreSchema10Step ==
  ASSUME TransitionInv, RestoreSchema10
  PROVE  TransitionInv'
<1>1. /\ effect.op = "none" /\ held.schema = 10 /\ dcsSchema = 10
      /\ transition.phase \in {"MIGRATED_SCHEMA10", "RECONCILIATION_REQUIRED"}
      /\ UNCHANGED <<installed, projection, serving, dcsSchema, w08>>
      /\ held \in HeldRow /\ effect \in EffectRow /\ w08 \in LeaseRow
  BY TransitionKinds DEF TransitionInv, RestoreSchema10, Unoccupied, SchemaFit
<1>2. held.proof = 0
  BY <1>1 DEF TransitionInv, ProofFit, HeldRow
<1>3. CASE Restored("v05") /\ Phase("RESTORED_SCHEMA10") /\ Proven(10) /\ UNCHANGED effect
  <2>1. /\ transition' \in MoveRow /\ transition'.phase = "RESTORED_SCHEMA10"
        /\ transition'.before = transition.before
    BY <1>3, PhaseRow, TransitionKinds DEF TransitionInv, Phases
  <2>2. /\ held' \in HeldRow /\ held'.proof = 10 /\ held'.schema = 10 /\ held'.event = held.event
    BY <1>1, <1>3 DEF Proven, HeldRow
  <2>3. TransitionTypeOK'
    BY <1>1, <1>3, <2>1, <2>2, TransitionKept, TransitionKinds DEF TransitionInv
  <2>4. SchemaFit' /\ CallFit' /\ EntriesFit'
    BY <1>1, <1>3, <2>1 DEF TransitionInv, SchemaFit, CallFit, EntriesFit, InventoryOf
  <2>5. LateFit'
    BY <1>1, <1>3, <2>2 DEF TransitionInv, LateFit, Writing
  <2>6. ProofFit'
    BY <1>1, <1>3, <2>1, <2>2 DEF ProofFit, Restored
  <2>7. QED
    BY <2>3, <2>4, <2>5, <2>6 DEF TransitionInv
<1>4. CASE /\ Phase("MIGRATED_SCHEMA10") /\ UNCHANGED held
           /\ effect' = [NoEffect EXCEPT !.op = "resume", !.guard = "held",
                                         !.target = "v05", !.todo = transition.before]
  <2>1. transition' \in MoveRow /\ transition'.phase = "MIGRATED_SCHEMA10"
    BY <1>4, PhaseRow, TransitionKinds DEF TransitionInv, Phases
  <2>2. /\ effect' \in EffectRow /\ effect'.op = "resume" /\ effect'.target = "v05"
        /\ effect'.late = 0 /\ effect'.event = 0
    <3>1. transition.before \in SUBSET Client
      BY TransitionKinds DEF TransitionInv, MoveRow
    <3>2. QED
      BY <1>4, <3>1, NoCallInProgress DEF EffectRow, Versions
  <2>3. TransitionTypeOK'
    BY <1>1, <1>4, <2>1, <2>2, TransitionKept, TransitionKinds DEF TransitionInv
  <2>4. SchemaFit' /\ CallFit' /\ EntriesFit'
    BY <1>1, <1>4, <2>1
       DEF TransitionInv, SchemaFit, CallFit, EntriesFit, Writing, InventoryOf
  <2>5. LateFit'
    BY <1>1, <1>4, <2>2 DEF TransitionInv, LateFit, LeaseRow
  <2>6. ProofFit'
    BY <1>2, <1>4 DEF ProofFit
  <2>7. QED
    BY <2>3, <2>4, <2>5, <2>6 DEF TransitionInv
<1>5. QED
  BY <1>3, <1>4, Zenon DEF RestoreSchema10

\* The release: its event is ahead of the object.
LEMMA ReleaseW08Step ==
  ASSUME TransitionInv, NEW s \in {9, 10}, ReleaseW08(s)
  PROVE  TransitionInv'
<1>1. /\ w08' \in LeaseRow /\ w08'.event = w08.event + 1
  BY EventAssumption, TransitionKinds DEF TransitionInv, ReleaseW08, LeaseRow
<1>2. /\ held' \in HeldRow /\ held'.event = held.event /\ held'.proof = held.proof
      /\ held'.schema = held.schema /\ held'.state = "released"
  BY TransitionKinds DEF TransitionInv, ReleaseW08, HeldRow
<1>3. TransitionTypeOK'
  BY <1>1, <1>2, TransitionKept, TransitionKinds DEF TransitionInv, ReleaseW08
<1>4. SchemaFit'
  BY DEF TransitionInv, ReleaseW08, Unoccupied, SchemaFit, InventoryOf
<1>5. CallFit'
  BY DEF TransitionInv, ReleaseW08, CallFit
<1>6. EntriesFit'
  BY DEF TransitionInv, ReleaseW08, EntriesFit
<1>7. LateFit'
  BY TransitionKinds
     DEF TransitionInv, ReleaseW08, Unoccupied, LateFit, Writing, EffectRow, HeldRow,
         LeaseRow
<1>8. ProofFit'
  BY DEF TransitionInv, ReleaseW08, ProofFit, HeldCurrent
<1>9. QED
  BY <1>3, <1>4, <1>5, <1>6, <1>7, <1>8 DEF TransitionInv

\* A client is installed at schema 9 under a writer that is down.
LEMMA InstallStep ==
  ASSUME TransitionInv, NEW w \in Client, NEW v \in Versions, Install(w, v)
  PROVE  TransitionInv'
<1>1. TransitionTypeOK'
  BY TransitionKept, TransitionKinds DEF TransitionInv, Install
<1>2. SchemaFit'
  BY DEF TransitionInv, Install, Unoccupied, SchemaFit
<1>3. CallFit'
  BY DEF TransitionInv, Install, CallFit
<1>4. EntriesFit'
  BY DEF TransitionInv, Install, EntriesFit
<1>5. LateFit'
  BY DEF TransitionInv, Install, Unoccupied, LateFit, Writing
<1>6. ProofFit'
  BY DEF TransitionInv, Install, ProofFit, HeldCurrent, LeaseIntact, Serves
<1>7. QED
  BY <1>1, <1>2, <1>3, <1>4, <1>5, <1>6 DEF TransitionInv

\* Another deployment takes the row or frees it, with an event of its own.
LEMMA OtherLeaseStep ==
  ASSUME TransitionInv, OtherLease
  PROVE  TransitionInv'
<1>1. /\ w08' \in LeaseRow /\ w08'.event = w08.event + 1 /\ w08'.holder # "own"
  <2>1. w08 \in LeaseRow /\ MaxEvent \in Nat /\ w08.event < MaxEvent
    BY EventAssumption, TransitionKinds DEF TransitionInv, OtherLease
  <2>2. w08.event + 1 \in 0..MaxEvent
    BY <2>1 DEF LeaseRow
  <2>3. w08' \in {[holder |-> "other", live |-> TRUE, event |-> w08.event + 1],
                 [holder |-> "free", live |-> FALSE, event |-> w08.event + 1]}
    BY DEF OtherLease
  <2>4. [holder |-> "other", live |-> TRUE, event |-> w08.event + 1] \in LeaseRow
    BY <2>2 DEF LeaseRow
  <2>5. [holder |-> "free", live |-> FALSE, event |-> w08.event + 1] \in LeaseRow
    BY <2>2 DEF LeaseRow
  <2>6. w08'.event = w08.event + 1 /\ w08'.holder # "own"
    BY <2>3
  <2>7. QED
    BY <2>3, <2>4, <2>5, <2>6
<1>2. TransitionTypeOK'
  BY <1>1, TransitionKept, TransitionKinds DEF TransitionInv, OtherLease
<1>3. SchemaFit'
  BY DEF TransitionInv, OtherLease, SchemaFit, InventoryOf, Quiesced
<1>4. CallFit'
  BY DEF TransitionInv, OtherLease, CallFit
<1>5. EntriesFit'
  BY DEF TransitionInv, OtherLease, EntriesFit
<1>6. LateFit'
  BY GuardLost, TransitionKinds
     DEF TransitionInv, OtherLease, LateFit, EffectRow, HeldRow, LeaseRow
<1>7. ProofFit'
  BY DEF TransitionInv, OtherLease, ProofFit, HeldCurrent, LeaseIntact
<1>8. QED
  BY <1>2, <1>3, <1>4, <1>5, <1>6, <1>7 DEF TransitionInv

\* The lease expires.
LEMMA ExpireW08Step ==
  ASSUME TransitionInv, ExpireW08
  PROVE  TransitionInv'
<1>1. /\ w08' \in LeaseRow /\ w08'.event = w08.event /\ w08'.holder = w08.holder /\ ~w08'.live
  BY TransitionKinds DEF TransitionInv, ExpireW08, LeaseRow
<1>2. TransitionTypeOK'
  BY <1>1, TransitionKept, TransitionKinds DEF TransitionInv, ExpireW08
<1>3. SchemaFit'
  BY DEF TransitionInv, ExpireW08, SchemaFit, InventoryOf, Quiesced
<1>4. CallFit'
  BY DEF TransitionInv, ExpireW08, CallFit
<1>5. EntriesFit'
  BY DEF TransitionInv, ExpireW08, EntriesFit
<1>6. LateFit'
  BY GuardLost DEF TransitionInv, ExpireW08, LateFit
<1>7. ProofFit'
  BY DEF TransitionInv, ExpireW08, ProofFit, HeldCurrent, LeaseIntact
<1>8. QED
  BY <1>2, <1>3, <1>4, <1>5, <1>6, <1>7 DEF TransitionInv

\* A new process knows no transition, no lease object and no call.
LEMMA RestartStep ==
  ASSUME TransitionInv, Restart
  PROVE  TransitionInv'
<1>1. effect' \in EffectRow /\ effect'.op = "none" /\ effect'.late = 0 /\ effect'.event = 0
  BY NoCallInProgress DEF Restart
<1>2. transition' \in MoveRow /\ transition'.phase = "INITIAL"
  BY DEF Restart, NewTransition, MoveRow, Phases
<1>3. held' \in HeldRow /\ held'.proof = 0 /\ held'.event = 0 /\ held'.schema = 9
  BY EventAssumption DEF Restart, NoHeld, HeldRow
<1>4. w08' \in LeaseRow /\ w08'.event = w08.event
  BY TransitionKinds DEF TransitionInv, Restart, LeaseRow
<1>5. TransitionTypeOK'
  BY <1>1, <1>2, <1>3, <1>4, TransitionKept, TransitionKinds DEF TransitionInv, Restart
<1>6. SchemaFit'
  BY <1>1, <1>2, <1>3 DEF TransitionInv, Restart, SchemaFit, Writing, InventoryOf
<1>7. CallFit'
  BY <1>1 DEF CallFit
<1>8. EntriesFit'
  BY <1>1 DEF EntriesFit
<1>9. LateFit'
  BY <1>1, <1>3, <1>4 DEF LateFit, LeaseRow
<1>10. ProofFit'
  BY <1>3 DEF ProofFit
<1>11. QED
  BY <1>5, <1>6, <1>7, <1>8, <1>9, <1>10 DEF TransitionInv

\* A move begins with the writers on v0.4 at schema 9, and no call made.
LEMMA TransitionInitially ==
  TransitionInit => TransitionInv
<1> SUFFICES ASSUME TransitionInit PROVE TransitionInv
  OBVIOUS
<1>1. /\ installed = [w \in Client |-> "v04"] /\ projection = [w \in Client |-> "v04"]
      /\ serving \subseteq Client /\ serving # {} /\ dcsSchema = 9
      /\ w08 = [holder |-> "free", live |-> FALSE, event |-> 0]
      /\ transition = NewTransition /\ held = NoHeld /\ effect = NoEffect
  BY Zenon DEF TransitionInit
<1>2. TransitionTypeOK
  <2>1. w08 \in LeaseRow
    BY <1>1, EventAssumption DEF LeaseRow
  <2>2. transition \in MoveRow
    BY <1>1 DEF NewTransition, MoveRow, Phases
  <2>3. held \in HeldRow
    BY <1>1, EventAssumption DEF NoHeld, HeldRow
  <2>4. QED
    BY <1>1, <2>1, <2>2, <2>3, NoCallInProgress, TransitionKinds DEF Versions
<1>3. SchemaFit /\ CallFit /\ EntriesFit
  BY <1>1, NoCallInProgress DEF NoHeld, SchemaFit, CallFit, EntriesFit
<1>4. LateFit
  BY <1>1, NoCallInProgress DEF NoHeld, LateFit
<1>5. ProofFit
  BY <1>1 DEF NoHeld, ProofFit
<1>6. QED
  BY <1>1, <1>2, <1>3, <1>4, <1>5 DEF TransitionInv

\* A step that leaves the whole state alone.
LEMMA TransitionStutters ==
  ASSUME TransitionInv, UNCHANGED transitionVars
  PROVE  TransitionInv'
<1>1. /\ UNCHANGED <<installed, projection, serving, dcsSchema>>
      /\ UNCHANGED <<w08, transition, held, effect>>
  BY DEF transitionVars
<1>2. TransitionTypeOK'
  BY <1>1 DEF TransitionInv, TransitionTypeOK
<1>3. SchemaFit' /\ CallFit' /\ EntriesFit'
  BY <1>1 DEF TransitionInv, SchemaFit, InventoryOf, Quiesced, CallFit, EntriesFit
<1>4. LateFit' /\ ProofFit'
  BY <1>1 DEF TransitionInv, LateFit, Guarded, ProofFit, HeldCurrent, LeaseIntact, Serves
<1>5. QED
  BY <1>2, <1>3, <1>4 DEF TransitionInv

\* Every action keeps the invariant.
LEMMA TransitionSteps ==
  TransitionInv /\ [TransitionNext]_transitionVars => TransitionInv'
<1> SUFFICES ASSUME TransitionInv, [TransitionNext]_transitionVars PROVE TransitionInv'
  OBVIOUS
<1>1. CASE Quiesce \/ QuiesceFails \/ QuiesceEnds
  BY <1>1, QuiesceStep, QuiesceFailsStep, QuiesceEndsStep
<1>2. CASE \/ ApplyV05Projection \/ RollbackToV04 \/ AssertWrite
          \/ ProjectEnds \/ AssertUndo \/ CompensationEnds
  BY <1>2, ApplyV05ProjectionStep, RollbackToV04Step, AssertWriteStep, ProjectEndsStep,
     AssertUndoStep, CompensationEndsStep
<1>3. CASE AssertStart \/ ResumeFails \/ ResumeEnds
  BY <1>3, AssertStartStep, ResumeFailsStep, ResumeEndsStep
<1>4. CASE \/ BindInstalledV05 \/ CreateSchema9Backup
          \/ AcquireSchema9W08 \/ LeaseGranted \/ LeaseRefused
  BY <1>4, BindInstalledV05Step, CreateSchema9BackupStep, AcquireSchema9W08Step,
     LeaseGrantedStep, LeaseRefusedStep
<1>5. CASE \/ ApplyExactMigration10 \/ Migrated
          \/ NotMigrated \/ RebindSchema10 \/ RestoreSchema10
  BY <1>5, ApplyExactMigration10Step, MigratedStep, NotMigratedStep, RebindSchema10Step,
     RestoreSchema10Step
<1>6. CASE OtherLease \/ ExpireW08 \/ Restart
  BY <1>6, OtherLeaseStep, ExpireW08Step, RestartStep
<1>7. CASE \E schema \in {9, 10} : ReleaseW08(schema)
  BY <1>7, ReleaseW08Step
<1>8. ASSUME NEW w \in Client,
             \/ TakeDown(w) \/ SkipWrite(w) \/ Write(w) \/ Undo(w) \/ StartWriter(w)
             \/ \E v \in Versions : Install(w, v)
      PROVE  TransitionInv'
  BY <1>8, TakeDownStep, SkipWriteStep, WriteStep, UndoStep, StartWriterStep, InstallStep
<1>9. CASE UNCHANGED transitionVars
  BY <1>9, TransitionStutters
<1>10. QED
  BY <1>1, <1>2, <1>3, <1>4, <1>5, <1>6, <1>7, <1>8, <1>9 DEF TransitionNext

-----------------------------------------------------------------------------
(* The theorems about the move of the schema. *)

\* The inductive invariant holds in every reachable state: a call in progress,
\* the phase, the lease object and the writers fit together, whatever fails,
\* expires or restarts between two steps
\* (production_schema10_operational.py:3863, 4216, 4433).
THEOREM TransitionInvariant == TransitionSpec => []TransitionInv
<1>1. TransitionInit => TransitionInv
  BY TransitionInitially
<1>2. TransitionInv /\ [TransitionNext]_transitionVars => TransitionInv'
  BY TransitionSteps
<1>3. QED
  BY <1>1, <1>2, PTL DEF TransitionSpec

\* Type correctness of the move of the schema and of the lease held over it.
THEOREM TransitionTypes == TransitionSpec => []TransitionTypeOK
<1>1. TransitionInv => TransitionTypeOK
  BY DEF TransitionInv
<1>2. QED
  BY <1>1, TransitionInvariant, PTL

\* No v0.4 writer, and none under a v0.4 identity file, serves the schema 10
\* database (production_schema10_operational.py:4433).
THEOREM NewSchemaAlwaysNewClient == TransitionSpec => []NewSchemaNewClient
<1>1. TransitionInv => NewSchemaNewClient
  BY DEF TransitionInv, TransitionTypeOK, SchemaFit, InventoryOf, NewSchemaNewClient
<1>2. QED
  BY <1>1, TransitionInvariant, PTL

\* A call whose guard is lost gives one more effect at most
\* (production_schema10_operational.py:4216).
THEOREM AlwaysOneLateEffect == TransitionSpec => []OneLateEffect
<1>1. TransitionInv => OneLateEffect
  BY DEF TransitionInv, LateFit, OneLateEffect
<1>2. QED
  BY <1>1, TransitionInvariant, PTL

\* The lease goes back only when every writer taken down serves again with the
\* client of the schema in force (production_schema10_operational.py:2345).
THEOREM ReleaseAlwaysRestores == TransitionSpec => ReleasedRestored
<1>1. TransitionInv /\ [TransitionNext]_transitionVars => [RestoresBeforeRelease]_transitionVars
  <2> SUFFICES ASSUME TransitionInv, [TransitionNext]_transitionVars,
                      w08.holder = "own", w08'.holder = "free"
               PROVE  /\ serving = transition.before
                      /\ \A w \in serving : {installed[w], projection[w]} = {ClientOf(dcsSchema)}
    BY DEF RestoresBeforeRelease
  <2>1. PICK schema \in {9, 10} : ReleaseW08(schema)
    <3>1. w08 \in LeaseRow /\ w08' # w08
      BY TransitionKinds DEF TransitionInv
    <3>2. OtherLease => FALSE
      BY DEF OtherLease
    <3>3. ~LeaseGranted /\ ~ExpireW08 /\ ~Restart
      BY <3>1 DEF LeaseGranted, ExpireW08, Restart, LeaseRow
    <3>4. QED
      BY <3>2, <3>3
         DEF TransitionNext, transitionVars, Quiesce, QuiesceFails, QuiesceEnds,
             ApplyV05Projection, RollbackToV04, Project, AssertWrite, ProjectEnds,
             AssertUndo, CompensationEnds, AssertStart, ResumeFails, ResumeEnds,
             BindInstalledV05, CreateSchema9Backup, AcquireSchema9W08, LeaseRefused,
             ApplyExactMigration10, Migrated, NotMigrated, RebindSchema10, RestoreSchema10,
             TakeDown, SkipWrite, Write, Undo, StartWriter, Install
  <2>2. held.proof = schema /\ dcsSchema = schema /\ HeldCurrent
    BY <2>1 DEF ReleaseW08
  <2>3. CASE schema = 9
    BY <2>2, <2>3 DEF TransitionInv, ProofFit, Serves, ClientOf
  <2>4. CASE schema = 10
    <3>1. serving = transition.before /\ InventoryOf("v05") /\ serving \subseteq Client
      BY <2>2, <2>4 DEF TransitionInv, TransitionTypeOK, ProofFit, SchemaFit
    <3>2. QED
      BY <2>2, <2>4, <3>1 DEF InventoryOf, ClientOf
  <2>5. QED
    BY <2>3, <2>4
<1>2. QED
  BY <1>1, TransitionInvariant, PTL DEF TransitionSpec, ReleasedRestored

\* A call that says it compensated leaves each identity file as it found it
\* (production_schema10_operational.py:3863).
THEOREM CompensatesAlwaysExactly == TransitionSpec => CompensationExact
<1>1. TransitionInv /\ [TransitionNext]_transitionVars => [CompensatesExactly]_transitionVars
  <2> SUFFICES ASSUME TransitionInv, [TransitionNext]_transitionVars, effect.op = "compensate",
                      effect'.op = "none", transition'.outcome = "restored"
               PROVE  projection' = effect.entry
    BY DEF CompensatesExactly
  <2>1. CASE CompensationEnds
    <3>1. \A w \in Client : projection[w] = effect.entry[w]
      BY <2>1 DEF TransitionInv, EntriesFit, CompensationEnds
    <3>2. projection \in [Client -> Versions] /\ effect.entry \in [Client -> Versions]
      BY TransitionKinds DEF TransitionInv, EffectRow
    <3>3. QED
      BY <2>1, <3>1, <3>2 DEF CompensationEnds
  <2>2. CASE AssertUndo
    <3>1. effect' # [effect EXCEPT !.fresh = TRUE] 
      BY FreshCall, TransitionKinds DEF TransitionInv
    <3>2. transition'.outcome = "recovery"
      BY <2>2, <3>1, TransitionKinds DEF TransitionInv, AssertUndo, Concludes, MoveRow
    <3>3. QED
      BY <3>2
  <2>3. ASSUME NEW w \in Client, Undo(w)
        PROVE  FALSE
    <3>1. effect \in EffectRow /\ transition \in MoveRow
      BY TransitionKinds DEF TransitionInv
    <3>2. effect' = [Given(effect) EXCEPT !.todo = @ \ {w}] => effect'.op = "compensate"
      BY <3>1, GivenCall DEF EffectRow
    <3>3. Concludes("recovery") => transition'.outcome = "recovery"
      BY DEF Concludes
    <3>4. QED
      BY <2>3, <3>2, <3>3 DEF Undo
  <2>4. CASE Restart
    BY <2>4 DEF Restart, NewTransition
  <2>5. QED
    BY <2>1, <2>2, <2>3, <2>4
       DEF TransitionNext, transitionVars, Unoccupied, Quiesce, QuiesceFails, QuiesceEnds,
           ApplyV05Projection, RollbackToV04, AssertWrite, ProjectEnds, AssertStart,
           ResumeFails, ResumeEnds, BindInstalledV05, CreateSchema9Backup,
           AcquireSchema9W08, LeaseGranted, LeaseRefused, ApplyExactMigration10, Migrated,
           NotMigrated, RebindSchema10, RestoreSchema10, ReleaseW08, TakeDown, SkipWrite,
           Write, StartWriter, Install, OtherLease, ExpireW08
<1>2. QED
  BY <1>1, TransitionInvariant, PTL DEF TransitionSpec, CompensationExact

-----------------------------------------------------------------------------
(* The Cleaner cutover.                                                    *)

\* The stages of a run: its own, and those that deal with its failure.
FitsCutover(r, stage) ==
    \/ stage \in {"idle", "done"} \cup DOMAIN Stages[r]
    \/ r \in {"execute", "prepare"} /\ stage \in DOMAIN Undoing
    \/ r = "execute" /\ stage \in {"judge", "reconcile"}
    \/ r = "recover" /\ stage = "reconcile"
    \/ r = "w07" /\ stage = "stopW07"

CutoverTypes == CutoverTypeOK /\ \A r \in CutoverRun : FitsCutover(r, cut[r].pc)

\* What follows a stage of a run, or its failure, is a stage of that run.
LEMMA AfterFits ==
  ASSUME NEW r \in CutoverRun, NEW stage, FitsCutover(r, stage),
         stage \notin {"idle", "done", "judge"}
  PROVE FitsCutover(r, After(r, stage).next) /\ FitsCutover(r, After(r, stage).failed)
<1>1. CASE r = "execute"
  BY <1>1 DEF FitsCutover, After, Stages, Execute, Undoing, Stopping, Then
<1>2. CASE r = "prepare"
  BY <1>2 DEF FitsCutover, After, Stages, PrepareOnly, Undoing, Stopping, Then
<1>3. CASE r = "recover"
  BY <1>3 DEF FitsCutover, After, Stages, Recover, Undoing, Stopping, Then
<1>4. CASE r = "stop"
  BY <1>4 DEF FitsCutover, After, Stages, StopAll, Undoing, Stopping, Then
<1>5. CASE r = "w07"
  BY <1>5 DEF FitsCutover, After, Stages, W07Only, Undoing, Stopping, Then
<1>6. QED
  BY <1>1, <1>2, <1>3, <1>4, <1>5 DEF CutoverRun

LEMMA FitsStage ==
  ASSUME NEW r \in CutoverRun, NEW stage, FitsCutover(r, stage)
  PROVE stage \in CutoverStage
BY DEF FitsCutover, CutoverStage, CutoverRun, Stages, Execute, PrepareOnly, Recover,
       StopAll, W07Only, Undoing

Members(seq) == {seq[i] : i \in 1..Len(seq)}

\* The writers of two lists, one after the other.
LEMMA MembersOfBoth ==
  ASSUME NEW S, NEW a \in Seq(S), NEW b \in Seq(S)
  PROVE  a \o b \in Seq(S) /\ Members(a \o b) = Members(a) \cup Members(b)
<1> DEFINE ab == a \o b
<1>1. /\ ab \in Seq(S) /\ Len(ab) = Len(a) + Len(b) /\ Len(a) \in Nat /\ Len(b) \in Nat
      /\ \A i \in 1..Len(ab) : ab[i] = IF i <= Len(a) THEN a[i] ELSE b[i - Len(a)]
  BY ConcatProperties
<1> HIDE DEF ab
<1>2. ASSUME NEW x \in Members(ab) PROVE x \in Members(a) \cup Members(b)
  <2>1. PICK i \in 1..Len(ab) : x = ab[i]
    BY DEF Members
  <2>2. CASE i <= Len(a)
    <3>1. i \in 1..Len(a) /\ x = a[i]
      BY <1>1, <2>1, <2>2
    <3>2. QED
      BY <3>1 DEF Members
  <2>3. CASE ~(i <= Len(a))
    <3>1. i - Len(a) \in 1..Len(b) /\ x = b[i - Len(a)]
      BY <1>1, <2>1, <2>3
    <3>2. QED
      BY <3>1 DEF Members
  <2>4. QED
    BY <2>2, <2>3
<1>3. ASSUME NEW x \in Members(a) PROVE x \in Members(ab)
  <2>1. PICK i \in 1..Len(a) : x = a[i]
    BY DEF Members
  <2>2. i \in 1..Len(ab) /\ ab[i] = a[i]
    BY <1>1
  <2>3. QED
    BY <2>1, <2>2 DEF Members
<1>4. ASSUME NEW x \in Members(b) PROVE x \in Members(ab)
  <2>1. PICK i \in 1..Len(b) : x = b[i]
    BY DEF Members
  <2> DEFINE n == Len(a) + i
  <2>2. n \in 1..Len(ab) /\ ~(n <= Len(a)) /\ n - Len(a) = i
    BY <1>1
  <2> HIDE DEF n
  <2>3. ab[n] = b[i]
    BY <1>1, <2>2
  <2>4. QED
    BY <2>1, <2>2, <2>3 DEF Members
<1>5. QED
  BY <1>2, <1>3, <1>4 DEF ab

LEMMA OnlyMembers ==
  ASSUME NEW w \in CutoverWriter, NEW set
  PROVE  Only(w, set) \in Seq(CutoverWriter) /\ Members(Only(w, set)) = {w} \cap set
<1>1. CASE w \in set
  <2>1. Only(w, set) = <<w>>
    BY <1>1 DEF Only
  <2>2. QED
    BY <1>1, <2>1 DEF Members
<1>2. CASE w \notin set
  BY DEF Only, Members
<1>3. QED
  BY <1>1, <1>2

\* The list of a set has the writers of the set.
LEMMA OfMembers ==
  ASSUME NEW set
  PROVE  Of(set) \in Seq(CutoverWriter) /\ Members(Of(set)) = CutoverWriter \cap set
<1> DEFINE a == Only("W06", set)
           b == Only("W04", set)
           c == Only("W07", set)
<1>1. /\ a \in Seq(CutoverWriter) /\ b \in Seq(CutoverWriter) /\ c \in Seq(CutoverWriter)
      /\ Members(a) = {"W06"} \cap set
      /\ Members(b) = {"W04"} \cap set
      /\ Members(c) = {"W07"} \cap set
  BY OnlyMembers DEF CutoverWriter
<1> DEFINE ab == a \o b
<1>2. Of(set) = ab \o c
  BY DEF Of
<1> HIDE DEF a, b, c
<1>3. ab \in Seq(CutoverWriter) /\ Members(ab) = ({"W06"} \cap set) \cup ({"W04"} \cap set)
  BY <1>1, MembersOfBoth
<1> HIDE DEF ab
<1>4. Of(set) \in Seq(CutoverWriter) /\ Members(Of(set)) = Members(ab) \cup ({"W07"} \cap set)
  BY <1>1, <1>2, <1>3, MembersOfBoth
<1>5. QED
  BY <1>3, <1>4 DEF CutoverWriter

\* A list is its head and the rest.
LEMMA TailMembers ==
  ASSUME NEW S, NEW seq \in Seq(S), seq # <<>>
  PROVE  /\ Head(seq) \in S /\ Head(seq) \in Members(seq) /\ Tail(seq) \in Seq(S)
         /\ Members(seq) = {Head(seq)} \cup Members(Tail(seq))
<1> DEFINE t == Tail(seq)
           h == Head(seq)
<1> HIDE DEF t, h
<1>1. /\ h = seq[1] /\ Len(seq) \in Nat \ {0} /\ Len(t) = Len(seq) - 1
      /\ \A i \in 1..(Len(seq) - 1) : t[i] = seq[i + 1]
  BY DEF t, h
<1>2. ASSUME NEW x \in Members(seq) PROVE x \in {h} \cup Members(t)
  <2>1. PICK i \in 1..Len(seq) : x = seq[i]
    BY DEF Members
  <2>2. CASE i = 1
    BY <1>1, <2>1, <2>2
  <2>3. CASE i # 1
    <3>1. i - 1 \in 1..Len(t) /\ x = t[i - 1]
      BY <1>1, <2>1, <2>3
    <3>2. QED
      BY <3>1 DEF Members
  <2>4. QED
    BY <2>2, <2>3
<1>3. ASSUME NEW x \in Members(t) PROVE x \in Members(seq)
  <2>1. PICK i \in 1..Len(t) : x = t[i]
    BY DEF Members
  <2>2. i + 1 \in 1..Len(seq) /\ x = seq[i + 1]
    BY <1>1, <2>1
  <2>3. QED
    BY <2>2 DEF Members
<1>4. h \in Members(seq)
  BY <1>1 DEF Members
<1>5. QED
  BY <1>2, <1>3, <1>4 DEF t, h

\* The writers a stage works on are a list of writers.
LEMMA WorksSequence ==
  ASSUME NEW r, NEW stage, NEW snapshot
  PROVE Works(r, stage, snapshot) \in Seq(CutoverWriter)
<1>1. \A set : Of(set) \in Seq(CutoverWriter)
  BY OfMembers
<1>2. /\ StopOrder \in Seq(CutoverWriter) /\ <<"W07">> \in Seq(CutoverWriter)
      /\ <<>> \in Seq(CutoverWriter)
  BY DEF StopOrder, CutoverWriter
<1>3. CASE stage = "fence" \/ stage = "reconcile"
  BY <1>1, <1>2 DEF Works
<1>4. CASE stage \in {"plists", "idents", "start"}
  BY <1>1, <1>4 DEF Works
<1>5. CASE stage \in {"undoPlists", "undoIdents", "unlink", "undoStart"}
  BY <1>1, <1>5 DEF Works
<1>6. CASE stage \in {"disable", "stopW07"}
  BY <1>2, <1>6 DEF Works
<1>7. CASE stage \notin {"fence", "reconcile", "plists", "idents", "start", "undoPlists",
                         "undoIdents", "unlink", "undoStart", "disable", "stopW07"}
  BY <1>7 DEF Works
<1>8. QED
  BY <1>3, <1>4, <1>5, <1>6, <1>7

LEMMA FreshRunTyped == FreshRun \in CutoverLocal
BY DEF FreshRun, CutoverLocal, CutoverStage, NoSnapshot, Snapshot, ServiceState, Build

\* What a run is when it enters a stage.
LEMMA EnterTyped ==
  ASSUME NEW local \in CutoverLocal, NEW r \in CutoverRun, NEW stage, FitsCutover(r, stage)
  PROVE /\ EnterStage(local, r, stage) \in CutoverLocal
        /\ EnterStage(local, r, stage).pc = stage
        /\ EnterStage(local, r, stage).todo = Works(r, stage, local.snapshot)
        /\ EnterStage(local, r, stage).snapshot = local.snapshot
        /\ EnterStage(local, r, stage).read = local.read
        /\ ~EnterStage(local, r, stage).fresh
<1>1. stage \in CutoverStage
  BY FitsStage
<1>2. Works(r, stage, local.snapshot) \in Seq(CutoverWriter)
  BY WorksSequence
<1>3. QED
  BY <1>1, <1>2 DEF EnterStage, CutoverLocal

\* A run that goes on to one of its stages, or is over, keeps the types.
LEMMA GoToTyped ==
  ASSUME CutoverTypes, NEW r \in CutoverRun, NEW stage, FitsCutover(r, stage), GoTo(r, stage)
  PROVE /\ hold' \in [holder : CutoverRun \cup {Nobody}, token : Nat, live : BOOLEAN]
        /\ released' \subseteq CutoverRun
        /\ cut' \in [CutoverRun -> CutoverLocal]
        /\ \A q \in CutoverRun : FitsCutover(q, cut'[q].pc)
<1>1. CASE stage = "done"
  <2>1. Over(r)
    BY <1>1 DEF GoTo
  <2>2. /\ [FreshRun EXCEPT !.pc = "done"] \in CutoverLocal
        /\ [FreshRun EXCEPT !.pc = "done"].pc = "done"
    BY FreshRunTyped DEF CutoverLocal, CutoverStage
  <2>3. hold' \in [holder : CutoverRun \cup {Nobody}, token : Nat, live : BOOLEAN]
    BY <2>1 DEF Over, Left, CutoverTypes, CutoverTypeOK
  <2>4. QED
    BY <2>1, <2>2, <2>3 DEF Over, CutoverTypes, CutoverTypeOK, FitsCutover
<1>2. CASE stage # "done"
  <2>1. Continue(r, stage)
    BY <1>2 DEF GoTo
  <2>2. /\ EnterStage(cut[r], r, stage) \in CutoverLocal
        /\ EnterStage(cut[r], r, stage).pc = stage
    BY EnterTyped DEF CutoverTypes, CutoverTypeOK
  <2>3. QED
    BY <2>1, <2>2 DEF Continue, CutoverTypes, CutoverTypeOK
<1>3. QED
  BY <1>1, <1>2

LEMMA CutoverTypesStart == CutoverInit => CutoverTypes
<1> SUFFICES ASSUME CutoverInit PROVE CutoverTypes
  OBVIOUS
<1>1. CutoverTypeOK
  <2>1. cut \in [CutoverRun -> CutoverLocal]
    BY FreshRunTyped DEF CutoverInit
  <2>2. plist \in [CutoverWriter -> Build] /\ topology \in [CutoverWriter -> ServiceState]
    BY DEF CutoverInit, Build, ServiceState
  <2>3. QED
    BY <2>1, <2>2 DEF CutoverTypeOK, CutoverInit, HoldInit
<1>2. \A r \in CutoverRun : cut[r].pc = "idle"
  BY DEF CutoverInit, FreshRun
<1>3. QED
  BY <1>1, <1>2 DEF CutoverTypes, FitsCutover

\* What an effect does to its run.
LEMMA LandsTyped ==
  ASSUME CutoverTypes, NEW r \in CutoverRun
  PROVE /\ Lands(r) => late' \in BOOLEAN
        /\ cut[r].todo # <<>> =>
             /\ Head(cut[r].todo) \in CutoverWriter
             /\ Worked(r) \/ cut' = [cut EXCEPT ![r].fresh = FALSE] =>
                  /\ cut' \in [CutoverRun -> CutoverLocal]
                  /\ \A q \in CutoverRun : cut'[q].pc = cut[q].pc
<1>1. cut[r] \in CutoverLocal /\ cut[r].todo \in Seq(CutoverWriter)
  BY DEF CutoverTypes, CutoverTypeOK, CutoverLocal
<1>2. Lands(r) => late' \in BOOLEAN
  BY DEF Lands
<1>3. ASSUME cut[r].todo # <<>>
      PROVE /\ Head(cut[r].todo) \in CutoverWriter
            /\ Tail(cut[r].todo) \in Seq(CutoverWriter)
  BY <1>1, <1>3
<1>4. ASSUME cut[r].todo # <<>>, Worked(r)
      PROVE cut' \in [CutoverRun -> CutoverLocal] /\ \A q \in CutoverRun : cut'[q].pc = cut[q].pc
  <2>1. [cut[r] EXCEPT !.fresh = FALSE, !.todo = Tail(cut[r].todo)] \in CutoverLocal
    BY <1>1, <1>3, <1>4 DEF CutoverLocal
  <2>2. cut' = [cut EXCEPT ![r] = [cut[r] EXCEPT !.fresh = FALSE, !.todo = Tail(cut[r].todo)]]
    BY <1>4, Zenon DEF Worked
  <2>3. QED
    BY <2>1, <2>2 DEF CutoverTypes, CutoverTypeOK
<1>5. ASSUME cut' = [cut EXCEPT ![r].fresh = FALSE]
      PROVE cut' \in [CutoverRun -> CutoverLocal] /\ \A q \in CutoverRun : cut'[q].pc = cut[q].pc
  BY <1>1, <1>5 DEF CutoverTypes, CutoverTypeOK, CutoverLocal
<1>6. QED
  BY <1>2, <1>3, <1>4, <1>5

CutoverStep(r) ==
    \/ AcquireCutover(r) \/ TakeSnapshot(r) \/ CheckGuards(r) \/ ReadEpoch(r)
    \/ ReadBackStage(r) \/ PersistResult(r) \/ Judge(r) \/ Revalidate(r)
    \/ AdvanceEpoch(r) \/ FenceWriter(r) \/ ReconcileWriter(r) \/ StopW07(r)
    \/ DisableW07(r) \/ StageFile(r) \/ StageIdentity(r)
    \/ PutBack(r) \/ StartCleaner(r) \/ StageEnds(r) \/ StageFails(r) \/ CrashRun(r)

\* A step of one run keeps the types.
LEMMA CutoverTypesRun ==
  ASSUME CutoverTypes, NEW r \in CutoverRun, CutoverStep(r)
  PROVE  CutoverTypes'
<1> DEFINE HoldType == [holder : CutoverRun \cup {Nobody}, token : Nat, live : BOOLEAN]
           AcquisitionType == [CutoverRun -> {"none", "ACQUIRE", "EXPIRED_TAKEOVER"}]
           TopologyType == [CutoverWriter -> ServiceState]
           FileType == [CutoverWriter -> Build]
           CutType == [CutoverRun -> CutoverLocal]
<1>1. /\ hold \in HoldType /\ acquisition \in AcquisitionType /\ released \subseteq CutoverRun
      /\ topology \in TopologyType /\ plist \in FileType /\ ident \in FileType
      /\ epoch \in {1, 2} /\ business \in BOOLEAN /\ late \in BOOLEAN /\ cut \in CutType
      /\ \A q \in CutoverRun : FitsCutover(q, cut[q].pc)
  BY Zenon DEF CutoverTypes, CutoverTypeOK
<1>2. cut[r] \in CutoverLocal /\ FitsCutover(r, cut[r].pc)
  BY <1>1
<1>3. \A stage : GoTo(r, stage) /\ FitsCutover(r, stage) =>
        /\ hold' \in HoldType /\ released' \subseteq CutoverRun /\ cut' \in CutType
        /\ \A q \in CutoverRun : FitsCutover(q, cut'[q].pc)
  BY GoToTyped
<1>4. Over(r) =>
        /\ hold' \in HoldType /\ released' \subseteq CutoverRun /\ cut' \in CutType
        /\ \A q \in CutoverRun : FitsCutover(q, cut'[q].pc)
  BY <1>3 DEF GoTo, FitsCutover
<1>5. \A stage : Continue(r, stage) /\ FitsCutover(r, stage) /\ stage # "done" =>
        /\ hold' \in HoldType /\ released' \subseteq CutoverRun /\ cut' \in CutType
        /\ \A q \in CutoverRun : FitsCutover(q, cut'[q].pc)
  BY <1>3 DEF GoTo
<1>6. cut[r].pc \notin {"idle", "done", "judge"} =>
        FitsCutover(r, After(r, cut[r].pc).next) /\ FitsCutover(r, After(r, cut[r].pc).failed)
  BY <1>2, AfterFits
<1>7. \/ Lands(r) /\ cut[r].todo # <<>> /\ Worked(r)
      \/ Lands(r) /\ cut[r].todo # <<>> /\ cut' = [cut EXCEPT ![r].fresh = FALSE]
      => /\ late' \in BOOLEAN /\ cut' \in CutType
         /\ \A q \in CutoverRun : FitsCutover(q, cut'[q].pc)
  BY <1>1, LandsTyped
<1>8. Lands(r) => late' \in BOOLEAN
  BY LandsTyped
<1> HIDE DEF HoldType, AcquisitionType, TopologyType, FileType, CutType
<1>9. SUFFICES
    /\ hold' \in HoldType /\ acquisition' \in AcquisitionType /\ released' \subseteq CutoverRun
    /\ topology' \in TopologyType /\ plist' \in FileType /\ ident' \in FileType
    /\ epoch' \in {1, 2} /\ business' \in BOOLEAN /\ late' \in BOOLEAN /\ cut' \in CutType
    /\ \A q \in CutoverRun : FitsCutover(q, cut'[q].pc)
  BY Zenon
     DEF CutoverTypes, CutoverTypeOK, HoldType, AcquisitionType, TopologyType, FileType,
         CutType
<1>10. CASE AcquireCutover(r)
  <2> DEFINE first == IF r \in {"execute", "prepare"} THEN "snapshot" ELSE "guards"
  <2>1. FitsCutover(r, first) /\ first \in CutoverStage
    BY DEF FitsCutover, CutoverRun, Stages, Execute, PrepareOnly, Recover, StopAll, W07Only,
           CutoverStage
  <2> HIDE DEF first
  <2>2. cut' = [cut EXCEPT ![r].pc = first]
    BY <1>10 DEF AcquireCutover, first
  <2>3. cut' \in CutType /\ \A q \in CutoverRun : FitsCutover(q, cut'[q].pc)
    BY <1>1, <2>1, <2>2 DEF CutType, CutoverLocal
  <2>4. hold' \in HoldType
    BY <1>1, <1>10 DEF AcquireCutover, Grant, HoldType
  <2>5. acquisition' \in AcquisitionType
    BY <1>1, <1>10 DEF AcquireCutover, AcquisitionType
  <2>6. QED
    BY <1>1, <1>10, <2>3, <2>4, <2>5 DEF AcquireCutover, cutoverFiles
<1>11. CASE TakeSnapshot(r)
  <2> DEFINE snapshot == [service |-> topology, plist |-> plist, ident |-> ident, epoch |-> epoch]
             local == [cut[r] EXCEPT !.snapshot = snapshot]
  <2>1. snapshot \in Snapshot
    BY <1>1 DEF Snapshot, TopologyType, FileType
  <2> HIDE DEF snapshot
  <2>2. local \in CutoverLocal
    BY <1>2, <2>1 DEF CutoverLocal
  <2>3. FitsCutover(r, "fence")
    BY <1>2, <1>11
       DEF TakeSnapshot, FitsCutover, CutoverRun, Stages, Execute, PrepareOnly, Recover,
           StopAll, W07Only
  <2>4. cut' = [cut EXCEPT ![r] = EnterStage(local, r, "fence")]
    BY <1>11, Zenon DEF TakeSnapshot, snapshot
  <2> HIDE DEF local
  <2>5. EnterStage(local, r, "fence") \in CutoverLocal /\ EnterStage(local, r, "fence").pc = "fence"
    BY <2>2, <2>3, EnterTyped
  <2>6. cut' \in CutType /\ \A q \in CutoverRun : FitsCutover(q, cut'[q].pc)
    BY <1>1, <2>3, <2>4, <2>5 DEF CutType
  <2>7. QED
    BY <1>1, <1>11, <2>6 DEF TakeSnapshot, cutoverFiles
<1>12. CASE CheckGuards(r)
  BY <1>1, <1>12, <1>6, <1>3 DEF CheckGuards, cutoverFiles
<1>13. CASE ReadEpoch(r)
  <2>1. FitsCutover(r, "cas") /\ FitsCutover(r, "undoPlists")
    BY <1>2, <1>13
       DEF ReadEpoch, FitsCutover, CutoverRun, Stages, Execute, PrepareOnly, Recover,
           StopAll, W07Only, Undoing
  <2>2. CASE /\ cut' = [cut EXCEPT ![r] = EnterStage([@ EXCEPT !.read = epoch], r, "cas")]
             /\ UNCHANGED <<hold, released>>
    <3> DEFINE local == [cut[r] EXCEPT !.read = epoch]
    <3>1. local \in CutoverLocal
      BY <1>1, <1>2 DEF CutoverLocal
    <3>2. cut' = [cut EXCEPT ![r] = EnterStage(local, r, "cas")]
      BY <2>2, Zenon
    <3> HIDE DEF local
    <3>3. EnterStage(local, r, "cas") \in CutoverLocal /\ EnterStage(local, r, "cas").pc = "cas"
      BY <2>1, <3>1, EnterTyped
    <3>4. cut' \in CutType /\ \A q \in CutoverRun : FitsCutover(q, cut'[q].pc)
      BY <1>1, <2>1, <3>2, <3>3 DEF CutType
    <3>5. QED
      BY <1>1, <1>13, <2>2, <3>4 DEF ReadEpoch, cutoverFiles
  <2>3. CASE Continue(r, "undoPlists")
    BY <1>1, <1>13, <1>5, <2>1, <2>3 DEF ReadEpoch, cutoverFiles
  <2>4. QED
    BY <1>13, <2>2, <2>3 DEF ReadEpoch
<1>14. CASE ReadBackStage(r)
  BY <1>1, <1>14, <1>6, <1>3 DEF ReadBackStage, cutoverFiles
<1>15. CASE PersistResult(r)
  BY <1>1, <1>15, <1>4 DEF PersistResult, cutoverFiles
<1>16. CASE Judge(r)
  <2>1. FitsCutover(r, "reconcile") /\ FitsCutover(r, "undoPlists")
    BY <1>2, <1>16
       DEF Judge, FitsCutover, CutoverRun, Stages, PrepareOnly, Recover, StopAll, W07Only,
           Undoing
  <2>2. QED
    BY <1>1, <1>16, <1>5, <2>1 DEF Judge, cutoverFiles
<1>17. CASE Revalidate(r)
  <2>1. cut' \in CutType /\ \A q \in CutoverRun : cut'[q].pc = cut[q].pc
    BY <1>1, <1>17 DEF Revalidate, CutType, CutoverLocal
  <2>2. QED
    BY <1>1, <1>17, <2>1 DEF Revalidate, cutoverFiles
<1>18. CASE AdvanceEpoch(r)
  <2>1. FitsCutover(r, "plists") /\ FitsCutover(r, After(r, "cas").failed)
    BY <1>2, <1>18, <1>6
       DEF AdvanceEpoch, FitsCutover, CutoverRun, Stages, Execute, PrepareOnly, Recover,
           StopAll, W07Only
  <2>2. QED
    BY <1>1, <1>18, <1>5, <1>3, <1>8, <2>1 DEF AdvanceEpoch, FailsFrom, cutoverFiles
<1>19. CASE cut[r].todo # <<>> /\ FenceOne(r)
  <2>1. topology' \in TopologyType
    BY <1>1, <1>19 DEF FenceOne, TopologyType, ServiceState
  <2>2. QED
    BY <1>1, <1>19, <1>7, <2>1 DEF FenceOne, cutoverFiles
<1>20. CASE DisableW07(r)
  <2>1. topology' \in TopologyType
    BY <1>1, <1>20 DEF DisableW07, TopologyType, ServiceState
  <2>2. QED
    BY <1>1, <1>20, <1>7, <2>1 DEF DisableW07, cutoverFiles
<1>21. TargetBuild(r) \in Build
  BY DEF TargetBuild, Build
<1>22. CASE StageFile(r)
  <2>1. plist' \in FileType
    BY <1>1, <1>22, <1>21 DEF StageFile, FileType
  <2>2. QED
    BY <1>1, <1>22, <1>7, <2>1 DEF StageFile
<1>23. CASE StageIdentity(r)
  <2>1. ident' \in FileType
    BY <1>1, <1>23, <1>21 DEF StageIdentity, FileType
  <2>2. QED
    BY <1>1, <1>23, <1>7, <2>1 DEF StageIdentity
<1>24. CASE PutBack(r)
  <2>1. cut[r].snapshot.plist \in FileType /\ cut[r].snapshot.ident \in FileType
    BY <1>2 DEF CutoverLocal, Snapshot, FileType
  <2>2. plist' \in FileType /\ ident' \in FileType
    BY <1>1, <1>24, <2>1 DEF PutBack, FileType
  <2>3. QED
    BY <1>1, <1>24, <1>7, <2>2 DEF PutBack
<1>25. CASE StartCleaner(r)
  <2>1. topology' \in TopologyType
    BY <1>1, <1>25 DEF StartCleaner, TopologyType, ServiceState
  <2>2. CASE Worked(r) /\ UNCHANGED <<hold, released>>
    BY <1>1, <1>25, <1>7, <2>1, <2>2 DEF StartCleaner, cutoverFiles
  <2>3. CASE FailsFrom(r, cut[r].pc)
    BY <1>1, <1>25, <1>6, <1>3, <1>8, <2>1, <2>3 DEF StartCleaner, FailsFrom, cutoverFiles
  <2>4. QED
    BY <1>25, <2>2, <2>3 DEF StartCleaner
<1>26. CASE StageEnds(r)
  BY <1>1, <1>26, <1>6, <1>3 DEF StageEnds, Effects, cutoverFiles
<1>27. CASE StageFails(r)
  BY <1>1, <1>27, <1>6, <1>3 DEF StageFails, FailsFrom, cutoverFiles
<1>28. CASE CrashRun(r)
  <2>1. cut' = [cut EXCEPT ![r] = [FreshRun EXCEPT !.pc = "done"]]
    BY <1>28 DEF CrashRun
  <2>2. /\ [FreshRun EXCEPT !.pc = "done"] \in CutoverLocal
        /\ [FreshRun EXCEPT !.pc = "done"].pc = "done"
    BY FreshRunTyped DEF CutoverLocal, CutoverStage
  <2>3. cut' \in CutType /\ \A q \in CutoverRun : FitsCutover(q, cut'[q].pc)
    BY <1>1, <2>1, <2>2 DEF CutType, FitsCutover
  <2>4. QED
    BY <1>1, <1>28, <2>3 DEF CrashRun, cutoverFiles
<1>29. QED
  BY <1>10, <1>11, <1>12, <1>13, <1>14, <1>15, <1>16, <1>17, <1>18, <1>19, <1>20, <1>22,
     <1>23, <1>24, <1>25, <1>26, <1>27, <1>28
     DEF CutoverStep, FenceWriter, ReconcileWriter, StopW07

LEMMA CutoverTypesStep == CutoverTypes /\ [CutoverNext]_cutoverVars => CutoverTypes'
<1> SUFFICES ASSUME CutoverTypes, [CutoverNext]_cutoverVars PROVE CutoverTypes'
  OBVIOUS
<1>1. CASE UNCHANGED cutoverVars
  BY <1>1 DEF cutoverVars, cutoverFiles, CutoverTypes, CutoverTypeOK
<1>2. CASE LoseHold
  <2>1. hold' \in [holder : CutoverRun \cup {Nobody}, token : Nat, live : BOOLEAN]
    BY <1>2 DEF LoseHold, Expire, CutoverTypes, CutoverTypeOK
  <2>2. QED
    BY <1>2, <2>1 DEF LoseHold, cutoverFiles, CutoverTypes, CutoverTypeOK
<1>3. CASE CommitEffect
  BY <1>3 DEF CommitEffect, cutoverFiles, CutoverTypes, CutoverTypeOK
<1>4. CASE CutoverNext /\ ~LoseHold /\ ~CommitEffect
  BY <1>4, CutoverTypesRun, Zenon DEF CutoverNext, CutoverStep
<1>5. QED
  BY <1>1, <1>2, <1>3, <1>4

\* Every variable of a cutover has its type, for any number of runs.
THEOREM CutoverTypesHold == CutoverSpec => []CutoverTypeOK
<1>1. CutoverTypes => CutoverTypeOK
  BY DEF CutoverTypes
<1>2. QED
  BY <1>1, CutoverTypesStart, CutoverTypesStep, PTL DEF CutoverSpec

-----------------------------------------------------------------------------
(***************************************************************************)
(* Which build a writer may run.  As long as no effect has landed without  *)
(* the lease, a writer that is not stopped has one build in its service    *)
(* file and its identity; what a run found was so; and the run that holds  *)
(* the lease is where its stage says it is.                                *)
(***************************************************************************)
RunningFits ==
    \A w \in CutoverWriter : topology[w] # "off" => plist[w] = ident[w] /\ plist[w] # "none"

FoundFits(r) ==
    LET found == cut[r].snapshot IN
    \A w \in CutoverWriter :
      found.service[w] = "on" => found.plist[w] = found.ident[w] /\ found.plist[w] # "none"

AllOff == \A w \in CutoverWriter : topology[w] = "off"

FilesAsFound(r) == plist = cut[r].snapshot.plist /\ ident = cut[r].snapshot.ident
AsFound(r) == FilesAsFound(r) /\ epoch = cut[r].snapshot.epoch

\* The cutovers fence every writer before they change anything.
FencesFirst(r) ==
    /\ cut[r].pc \in {"fence", "epoch", "cas"} => AsFound(r)
    /\ cut[r].pc = "fence" =>
         \A w \in CutoverWriter : topology[w] # "off" => w \in Members(cut[r].todo)
    /\ cut[r].pc \in {"epoch", "cas", "plists", "idents", "prepared"} => AllOff

\* execute undoes only what it did before the epoch moved: nothing but the fence.
ExecuteRestores(r) ==
    /\ cut[r].pc \in {"cas", "judge", "plists", "idents", "prepared", "start", "effective"} =>
         cut[r].read = 1
    /\ cut[r].pc \in {"plists", "idents", "prepared", "start", "effective"} => epoch = 2
    /\ cut[r].pc = "judge" /\ epoch = 1 => AsFound(r)
    /\ cut[r].pc \in DOMAIN Undoing => AsFound(r)

\* prepare undoes its service files too, and never touches an identity.
PrepareRestores(r) ==
    LET found == cut[r].snapshot
        undoing == cut[r].pc \in DOMAIN Undoing
    IN
    /\ cut[r].pc \in {"plists", "prepared"} \/ undoing => ident = found.ident
    /\ undoing => \A w \in CutoverWriter :
         /\ topology[w] # "off" => plist[w] = found.plist[w]
         /\ found.plist[w] # "none" =>
              \/ plist[w] = found.plist[w]
              \/ cut[r].pc = "undoPlists" /\ w \in Members(cut[r].todo)

\* The recoveries find the epoch moved, and w07 finds W07 stopped.
RecoversMoved(r) ==
    /\ cut[r].pc \in {"disable", "plists", "idents", "prepared", "start"} => epoch = 2
    /\ r = "w07" /\ cut[r].pc \in {"plists", "idents", "prepared"} =>
         topology["W07"] = "off" /\ Members(cut[r].todo) \subseteq {"W07"}

\* What a run is about to start.
StartsFit(r) ==
    /\ cut[r].pc = "undoStart" =>
         \A w \in Members(cut[r].todo) : cut[r].snapshot.service[w] = "on"
    /\ cut[r].pc = "start" =>
         \A w \in Members(cut[r].todo) : plist[w] = TargetBuild(r) /\ ident[w] = TargetBuild(r)

RunSound(r) ==
    /\ StartsFit(r)
    /\ r \in {"execute", "prepare"} => FencesFirst(r)
    /\ r = "execute" => ExecuteRestores(r)
    /\ r = "prepare" => PrepareRestores(r)
    /\ r \in {"recover", "w07"} => RecoversMoved(r)

CutoverFaithful ==
    ~late => /\ RunningFits
             /\ \A r \in CutoverRun : FoundFits(r) /\ (Holds(r) => RunSound(r))

CutoverInductive == CutoverTypes /\ CutoverFaithful

\* The writers of the stages whose lists matter below.
LEMMA WorksMembers ==
  ASSUME NEW r \in CutoverRun, NEW found
  PROVE  /\ r # "stop" => Members(Works(r, "fence", found)) =
              {w \in CutoverWriter : found.plist[w] # "none"}
         /\ Members(Works(r, "undoPlists", found)) = {w \in CutoverWriter : found.plist[w] # "none"}
         /\ Members(Works(r, "undoStart", found)) = {w \in CutoverWriter : found.service[w] = "on"}
         /\ Members(Works("w07", "start", found)) = {"W07"}
         /\ r # "w07" => Members(Works(r, "start", found)) = Staged
         /\ Members(Works("w07", "plists", found)) = {"W07"}
         /\ Members(Works("w07", "idents", found)) = {"W07"}
         /\ Members(Works("w07", "prepared", found)) = {}
<1>1. \A set : set \subseteq CutoverWriter => Members(Of(set)) = set
  BY OfMembers
<1>2. Staged \subseteq CutoverWriter /\ {"W07"} \subseteq CutoverWriter
  BY DEF Staged, CutoverWriter
<1>3. r # "stop" => Works(r, "fence", found) = Of({w \in CutoverWriter : found.plist[w] # "none"})
  BY DEF Works
<1>4. Works(r, "undoPlists", found) = Of({w \in CutoverWriter : found.plist[w] # "none"})
  BY DEF Works
<1>5. Works(r, "undoStart", found) = Of({w \in CutoverWriter : found.service[w] = "on"})
  BY DEF Works
<1>6. /\ Works("w07", "start", found) = Of({"W07"})
      /\ r # "w07" => Works(r, "start", found) = Of(Staged)
  BY DEF Works
<1>7. Works("w07", "plists", found) = Of({"W07"}) /\ Works("w07", "idents", found) = Of({"W07"})
  BY DEF Works
<1>8. Works("w07", "prepared", found) = <<>>
  BY DEF Works
<1>9. Members(<<>>) = {}
  BY DEF Members
<1>10. QED
  BY <1>1, <1>2, <1>3, <1>4, <1>5, <1>6, <1>7, <1>8, <1>9

\* A run that goes on has entered the stage; one that is over holds nothing.
\* The others keep what they had.
LEMMA GoToFields ==
  ASSUME CutoverTypes, NEW r \in CutoverRun, NEW stage, FitsCutover(r, stage), GoTo(r, stage)
  PROVE /\ \A q \in CutoverRun : q # r => cut'[q] = cut[q] /\ (Holds(q)' => Holds(q))
        /\ \/ cut'[r].snapshot = NoSnapshot /\ ~Holds(r)'
           \/ /\ stage # "done" /\ UNCHANGED hold
              /\ cut'[r].pc = stage /\ cut'[r].todo = Works(r, stage, cut[r].snapshot)
              /\ cut'[r].snapshot = cut[r].snapshot /\ cut'[r].read = cut[r].read
<1>1. CASE stage = "done"
  <2>1. Over(r)
    BY <1>1 DEF GoTo
  <2>2. /\ cut' = [cut EXCEPT ![r] = [FreshRun EXCEPT !.pc = "done"]]
        /\ cut \in [CutoverRun -> CutoverLocal]
    BY <2>1 DEF Over, CutoverTypes, CutoverTypeOK
  <2>3. [FreshRun EXCEPT !.pc = "done"].snapshot = NoSnapshot
    BY DEF FreshRun
  <2>4. ~Holds(r)' /\ \A q : Holds(q)' => Holds(q)
    BY <2>1 DEF Over, Left, Holds
  <2>5. QED
    BY <2>2, <2>3, <2>4
<1>2. CASE stage # "done"
  <2>1. cut' = [cut EXCEPT ![r] = EnterStage(cut[r], r, stage)] /\ UNCHANGED hold
    BY <1>2 DEF GoTo, Continue
  <2>2. cut[r] \in CutoverLocal /\ cut \in [CutoverRun -> CutoverLocal]
    BY DEF CutoverTypes, CutoverTypeOK
  <2>3. QED
    BY <1>2, <2>1, <2>2, EnterTyped DEF Holds
<1>3. QED
  BY <1>1, <1>2

\* The files, the services and the epoch are as they were.
SameScene == UNCHANGED <<topology, plist, ident, epoch>>

\* A run whose own state and whose surroundings do not change stays sound.
LEMMA SoundKept ==
  ASSUME NEW r, RunSound(r), cut'[r].pc = cut[r].pc, cut'[r].todo = cut[r].todo,
         cut'[r].snapshot = cut[r].snapshot, cut'[r].read = cut[r].read, SameScene
  PROVE  RunSound(r)'
BY DEF RunSound, StartsFit, FencesFirst, ExecuteRestores, PrepareRestores, RecoversMoved,
       AsFound, FilesAsFound, AllOff, SameScene

\* What leads where.
FailsTo(r, stage, failed) ==
    /\ failed \in {"done", "undoPlists", "judge", "reconcile", "stopW07"}
    /\ failed = "undoPlists" =>
         \/ r = "execute" /\ stage \in {"fence", "epoch"}
         \/ r = "prepare" /\ stage \in {"fence", "cas", "plists"}
    /\ failed = "judge" =>
         r = "execute" /\ stage \in {"cas", "plists", "idents", "prepared", "start", "effective"}

LEMMA FailuresLead ==
  ASSUME NEW r \in CutoverRun, NEW stage, FitsCutover(r, stage),
         stage \notin {"idle", "done", "judge"}
  PROVE  FailsTo(r, stage, After(r, stage).failed)
<1>1. CASE r = "execute"
  BY <1>1 DEF FailsTo, FitsCutover, After, Stages, Execute, Undoing, Stopping, Then
<1>2. CASE r = "prepare"
  BY <1>2 DEF FailsTo, FitsCutover, After, Stages, PrepareOnly, Undoing, Stopping, Then
<1>3. CASE r = "recover"
  BY <1>3 DEF FailsTo, FitsCutover, After, Stages, Recover, Undoing, Stopping, Then
<1>4. CASE r = "stop"
  BY <1>4 DEF FailsTo, FitsCutover, After, Stages, StopAll, Undoing, Stopping, Then
<1>5. CASE r = "w07"
  BY <1>5 DEF FailsTo, FitsCutover, After, Stages, W07Only, Undoing, Stopping, Then
<1>6. QED
  BY <1>1, <1>2, <1>3, <1>4, <1>5 DEF CutoverRun

Succeeds(r, stage, next) ==
    /\ next \in {"fence", "epoch", "cas", "plists", "idents", "prepared", "start", "effective",
                 "persist", "done", "disable", "undoIdents", "unlink", "undoStart"}
    /\ r \in {"execute", "prepare"} =>
         /\ next = "fence" => stage = "snapshot"
         /\ next = "epoch" => stage = "fence"
         /\ next = "cas" => stage = "epoch"
         /\ next = "plists" => stage = "cas"
         /\ next = "idents" => stage = "plists"
         /\ next = "prepared" => stage \in {"plists", "idents"}
         /\ next = "undoIdents" => stage = "undoPlists"
         /\ next = "unlink" => stage = "undoIdents"
         /\ next = "undoStart" => stage = "unlink"
    /\ r = "execute" /\ next = "effective" => stage = "start"
    /\ next \in {"cas", "undoIdents", "unlink", "undoStart"} => r \in {"execute", "prepare"}
    /\ next = "start" => stage = "prepared" /\ r \in {"execute", "recover", "w07"}
    /\ r = "recover" =>
         /\ next = "disable" => stage = "guards"
         /\ next = "prepared" => stage = "disable"
         /\ next \notin {"plists", "idents"}
    /\ r = "w07" =>
         /\ next = "plists" => stage = "guards"
         /\ next = "idents" => stage = "plists"
         /\ next = "prepared" => stage = "idents"
         /\ next # "disable"

LEMMA SuccessesLead ==
  ASSUME NEW r \in CutoverRun, NEW stage, FitsCutover(r, stage),
         stage \notin {"idle", "done", "judge"}
  PROVE  Succeeds(r, stage, After(r, stage).next)
<1>1. CASE r = "execute"
  BY <1>1 DEF Succeeds, FitsCutover, After, Stages, Execute, Undoing, Stopping, Then
<1>2. CASE r = "prepare"
  BY <1>2 DEF Succeeds, FitsCutover, After, Stages, PrepareOnly, Undoing, Stopping, Then
<1>3. CASE r = "recover"
  BY <1>3 DEF Succeeds, FitsCutover, After, Stages, Recover, Undoing, Stopping, Then
<1>4. CASE r = "stop"
  BY <1>4 DEF Succeeds, FitsCutover, After, Stages, StopAll, Undoing, Stopping, Then
<1>5. CASE r = "w07"
  BY <1>5 DEF Succeeds, FitsCutover, After, Stages, W07Only, Undoing, Stopping, Then
<1>6. QED
  BY <1>1, <1>2, <1>3, <1>4, <1>5 DEF CutoverRun

\* What each run may be doing.
LEMMA RunStages ==
  ASSUME NEW r \in CutoverRun, NEW stage, FitsCutover(r, stage)
  PROVE  /\ stage \in {"snapshot", "fence", "epoch", "cas"} =>
              r \in {"execute", "prepare"} \/ (r = "stop" /\ stage = "fence")
         /\ stage \in {"undoPlists", "undoIdents", "unlink", "undoStart"} =>
              r \in {"execute", "prepare"}
         /\ stage = "judge" => r = "execute"
         /\ stage = "guards" => r \in {"recover", "stop", "w07"}
         /\ stage \in {"plists", "prepared"} => r # "stop"
         /\ stage = "idents" => r \in {"execute", "w07"}
         /\ stage = "plists" => r # "recover"
         /\ stage = "start" => r \in {"execute", "recover", "w07"}
         /\ stage = "disable" => r = "recover"
         /\ stage = "stopW07" => r = "w07"
<1>1. CASE r = "execute"
  BY <1>1 DEF FitsCutover, Stages, Execute, Undoing
<1>2. CASE r = "prepare"
  BY <1>2 DEF FitsCutover, Stages, PrepareOnly, Undoing
<1>3. CASE r = "recover"
  BY <1>3 DEF FitsCutover, Stages, Recover
<1>4. CASE r = "stop"
  BY <1>4 DEF FitsCutover, Stages, StopAll
<1>5. CASE r = "w07"
  BY <1>5 DEF FitsCutover, Stages, W07Only
<1>6. QED
  BY <1>1, <1>2, <1>3, <1>4, <1>5 DEF CutoverRun

-----------------------------------------------------------------------------
\* A stage that fails leaves its run where its failure is dealt with.
LEMMA FailureSound ==
  ASSUME CutoverTypes, NEW r \in CutoverRun, NEW stage, FitsCutover(r, stage),
         stage \notin {"idle", "done", "judge"},
         cut[r].pc = stage, RunSound(r), SameScene, FailsFrom(r, stage), Holds(r)'
  PROVE  RunSound(r)'
<1> DEFINE failed == After(r, stage).failed
<1>1. /\ failed # "done" /\ cut'[r].pc = failed
      /\ cut'[r].todo = Works(r, failed, cut[r].snapshot)
      /\ cut'[r].snapshot = cut[r].snapshot /\ cut'[r].read = cut[r].read
  BY AfterFits, GoToFields DEF FailsFrom
<1>2. FailsTo(r, stage, failed)
  BY FailuresLead
<1> HIDE DEF failed
<1>3. DOMAIN Undoing = {"undoPlists", "undoIdents", "unlink", "undoStart"}
  BY DEF Undoing
<1>4. CASE failed \in {"reconcile", "stopW07"}
  BY <1>1, <1>4, <1>3
     DEF RunSound, StartsFit, FencesFirst, ExecuteRestores, PrepareRestores, RecoversMoved
<1>5. CASE failed = "judge"
  BY <1>1, <1>2, <1>5, <1>3
     DEF FailsTo, RunSound, StartsFit, FencesFirst, ExecuteRestores, AsFound, FilesAsFound,
         SameScene
<1>6. CASE failed = "undoPlists"
  <2>1. Members(cut'[r].todo) = {w \in CutoverWriter : cut[r].snapshot.plist[w] # "none"}
    BY <1>1, <1>6, WorksMembers
  <2>2. CASE r = "execute"
    BY <1>1, <1>2, <1>6, <2>2
       DEF FailsTo, RunSound, StartsFit, FencesFirst, ExecuteRestores, AsFound,
           FilesAsFound, SameScene
  <2>3. CASE r = "prepare" /\ stage \in {"fence", "cas"}
    BY <1>1, <1>6, <2>3
       DEF RunSound, StartsFit, FencesFirst, PrepareRestores, AsFound, FilesAsFound,
           SameScene
  <2>4. CASE r = "prepare" /\ stage = "plists"
    BY <1>1, <1>6, <2>1, <2>4
       DEF RunSound, StartsFit, FencesFirst, PrepareRestores, AllOff, SameScene
  <2>5. QED
    BY <1>2, <1>6, <2>2, <2>3, <2>4 DEF FailsTo
<1>7. QED
  BY <1>1, <1>2, <1>4, <1>5, <1>6 DEF FailsTo

\* A stage that ends leaves its run where the next one starts; what a stage
\* that only reads has checked is in `ready'.
StageDone(r, stage) ==
    /\ stage = "fence" => AllOff
    /\ stage = "undoPlists" => cut[r].todo = <<>>
    /\ stage = "prepared" => Prepared(r)
    /\ stage = "guards" /\ r \in {"recover", "w07"} => epoch = 2
    /\ stage = "guards" /\ r = "w07" => AllOff
    /\ stage \notin {"snapshot", "epoch", "cas"}

LEMMA SuccessSound ==
  ASSUME CutoverTypes, NEW r \in CutoverRun, NEW stage, FitsCutover(r, stage),
         stage \notin {"idle", "done", "judge"},
         cut[r].pc = stage, RunSound(r), SameScene, StageDone(r, stage),
         GoTo(r, After(r, stage).next), Holds(r)'
  PROVE  RunSound(r)'
<1> DEFINE next == After(r, stage).next
<1>1. /\ next # "done" /\ cut'[r].pc = next
      /\ cut'[r].todo = Works(r, next, cut[r].snapshot)
      /\ cut'[r].snapshot = cut[r].snapshot /\ cut'[r].read = cut[r].read
  BY AfterFits, GoToFields
<1>2. Succeeds(r, stage, next)
  BY SuccessesLead
<1> HIDE DEF next
<1>3. DOMAIN Undoing = {"undoPlists", "undoIdents", "unlink", "undoStart"}
  BY DEF Undoing
<1>4. StartsFit(r)'
  <2>1. ASSUME next = "undoStart"
        PROVE  Members(cut'[r].todo) =
                 {w \in CutoverWriter : cut'[r].snapshot.service[w] = "on"}
    BY <1>1, <2>1, WorksMembers
  <2>2. ASSUME next = "start"
        PROVE  \A w \in Members(cut'[r].todo) :
                 plist[w] = TargetBuild(r) /\ ident[w] = TargetBuild(r)
    <3>1. /\ r = "w07" => Members(cut'[r].todo) = {"W07"}
          /\ r # "w07" => Members(cut'[r].todo) = Staged
      BY <1>1, <2>2, WorksMembers
    <3>2. Prepared(r) /\ r # "prepare"
      BY <1>2, <2>2 DEF Succeeds, StageDone
    <3>3. QED
      BY <3>1, <3>2 DEF Prepared
  <2>3. QED
    BY <1>1, <2>1, <2>2 DEF StartsFit, SameScene
<1>5. ASSUME r \in {"execute", "prepare"} PROVE FencesFirst(r)'
  BY <1>1, <1>2, <1>5
     DEF Succeeds, RunSound, FencesFirst, AsFound, FilesAsFound, AllOff, SameScene,
         StageDone
<1>6. ASSUME r = "execute" PROVE ExecuteRestores(r)'
  BY <1>1, <1>2, <1>6, <1>3
     DEF Succeeds, RunSound, ExecuteRestores, AsFound, FilesAsFound, SameScene, StageDone
<1>7. ASSUME r = "prepare" PROVE PrepareRestores(r)'
  <2>1. Members(<<>>) = {}
    BY DEF Members
  <2>2. CASE next \in {"undoIdents", "unlink", "undoStart"}
    BY <1>1, <1>2, <1>7, <1>3, <2>1, <2>2
       DEF Succeeds, RunSound, PrepareRestores, SameScene, StageDone
  <2>3. CASE next \notin {"undoIdents", "unlink", "undoStart"}
    <3>1. stage # "idents"
      BY <1>7, RunStages
    <3>2. QED
      BY <1>1, <1>2, <1>7, <1>3, <2>3, <3>1
         DEF Succeeds, RunSound, PrepareRestores, SameScene, StageDone
  <2>4. QED
    BY <2>2, <2>3
<1>8. ASSUME r \in {"recover", "w07"} PROVE RecoversMoved(r)'
  <2>1. ASSUME r = "w07", next \in {"plists", "idents", "prepared"}
        PROVE  Members(cut'[r].todo) \subseteq {"W07"}
    BY <1>1, <2>1, WorksMembers
  <2>2. CASE r = "recover"
    BY <1>1, <1>2, <2>2 DEF Succeeds, RunSound, RecoversMoved, SameScene, StageDone
  <2>3. CASE r = "w07"
    BY <1>1, <1>2, <2>1, <2>3
       DEF Succeeds, RunSound, RecoversMoved, AllOff, SameScene, StageDone, CutoverWriter
  <2>4. QED
    BY <1>8, <2>2, <2>3
<1>9. QED
  BY <1>4, <1>5, <1>6, <1>7, <1>8 DEF RunSound

-----------------------------------------------------------------------------
\* A step that changes nothing around the runs.
LEMMA ReadingStep ==
  ASSUME CutoverInductive, NEW r \in CutoverRun, SameScene, UNCHANGED late,
         \A q \in CutoverRun : q # r => cut'[q] = cut[q] /\ (Holds(q)' => Holds(q)),
         cut'[r].snapshot \in {cut[r].snapshot, NoSnapshot} \/ cut'[r].snapshot =
           [service |-> topology, plist |-> plist, ident |-> ident, epoch |-> epoch],
         ~late /\ Holds(r)' => RunSound(r)'
  PROVE  CutoverFaithful'
<1> SUFFICES ASSUME ~late'
             PROVE  /\ RunningFits'
                    /\ \A q \in CutoverRun : FoundFits(q)' /\ (Holds(q)' => RunSound(q)')
  BY DEF CutoverFaithful
<1>1. ~late /\ RunningFits /\ \A q \in CutoverRun : FoundFits(q) /\ (Holds(q) => RunSound(q))
  BY DEF CutoverInductive, CutoverFaithful
<1>2. RunningFits'
  BY <1>1 DEF RunningFits, SameScene
<1>3. ASSUME NEW q \in CutoverRun PROVE FoundFits(q)'
  <2>1. CASE cut'[q].snapshot = cut[q].snapshot
    BY <1>1, <2>1 DEF FoundFits
  <2>2. CASE cut'[q].snapshot = NoSnapshot
    BY <2>2 DEF FoundFits, NoSnapshot
  <2>3. CASE cut'[q].snapshot =
               [service |-> topology, plist |-> plist, ident |-> ident, epoch |-> epoch]
    BY <1>1, <2>3 DEF FoundFits, RunningFits
  <2>4. QED
    BY <2>1, <2>2, <2>3
<1>4. ASSUME NEW q \in CutoverRun, Holds(q)' PROVE RunSound(q)'
  <2>1. CASE q = r
    BY <1>4, <2>1
  <2>2. CASE q # r
    BY <1>1, <1>4, SoundKept
  <2>3. QED
    BY <2>1, <2>2
<1>5. QED
  BY <1>2, <1>3, <1>4

\* An effect of the run that holds the lease.
LEMMA EffectStep ==
  ASSUME CutoverInductive, NEW r \in CutoverRun, Lands(r),
         \A q \in CutoverRun : q # r => cut'[q] = cut[q] /\ (Holds(q)' => Holds(q)),
         cut'[r].snapshot \in {cut[r].snapshot, NoSnapshot},
         ~late /\ Holds(r) => RunningFits' /\ (Holds(r)' => RunSound(r)')
  PROVE  CutoverFaithful'
<1> SUFFICES ASSUME ~late'
             PROVE  /\ RunningFits'
                    /\ \A q \in CutoverRun : FoundFits(q)' /\ (Holds(q)' => RunSound(q)')
  BY DEF CutoverFaithful
<1>1. ~late /\ Holds(r)
  BY DEF Lands
<1>2. RunningFits /\ \A q \in CutoverRun : FoundFits(q) /\ (Holds(q) => RunSound(q))
  BY <1>1 DEF CutoverInductive, CutoverFaithful
<1>3. ASSUME NEW q \in CutoverRun PROVE FoundFits(q)'
  <2>1. CASE cut'[q].snapshot = cut[q].snapshot
    BY <1>2, <2>1 DEF FoundFits
  <2>2. CASE cut'[q].snapshot = NoSnapshot
    BY <2>2 DEF FoundFits, NoSnapshot
  <2>3. QED
    BY <2>1, <2>2
<1>4. \A q \in CutoverRun : q # r => ~Holds(q)'
  BY <1>1 DEF Holds
<1>5. QED
  BY <1>1, <1>3, <1>4

\* What Worked does to its run.
LEMMA WorkedFields ==
  ASSUME CutoverTypes, NEW r \in CutoverRun, cut[r].todo # <<>>, UNCHANGED hold,
         Worked(r) \/ cut' = [cut EXCEPT ![r].fresh = FALSE]
  PROVE  /\ \A q \in CutoverRun : q # r => cut'[q] = cut[q] /\ (Holds(q)' => Holds(q))
         /\ cut'[r].snapshot = cut[r].snapshot /\ cut'[r].pc = cut[r].pc
         /\ cut'[r].read = cut[r].read
         /\ Head(cut[r].todo) \in CutoverWriter /\ Head(cut[r].todo) \in Members(cut[r].todo)
         /\ Members(cut'[r].todo) \subseteq Members(cut[r].todo)
         /\ Members(cut[r].todo) \subseteq {Head(cut[r].todo)} \cup Members(cut'[r].todo)
         /\ ~Worked(r) => cut'[r].todo = cut[r].todo
<1>1. /\ cut \in [CutoverRun -> CutoverLocal] /\ cut[r] \in CutoverLocal
      /\ cut[r].todo \in Seq(CutoverWriter)
  BY DEF CutoverTypes, CutoverTypeOK, CutoverLocal
<1>2. /\ Head(cut[r].todo) \in CutoverWriter /\ Head(cut[r].todo) \in Members(cut[r].todo)
      /\ Members(cut[r].todo) = {Head(cut[r].todo)} \cup Members(Tail(cut[r].todo))
  BY <1>1, TailMembers
<1>3. CASE Worked(r)
  <2>1. cut' = [cut EXCEPT ![r] = [cut[r] EXCEPT !.fresh = FALSE, !.todo = Tail(cut[r].todo)]]
    BY <1>3, Zenon DEF Worked
  <2> DEFINE local == [cut[r] EXCEPT !.fresh = FALSE, !.todo = Tail(cut[r].todo)]
  <2>2. /\ local.snapshot = cut[r].snapshot /\ local.pc = cut[r].pc /\ local.read = cut[r].read
        /\ local.todo = Tail(cut[r].todo)
    BY <1>1
  <2> HIDE DEF local
  <2>3. cut'[r] = local /\ \A q \in CutoverRun : q # r => cut'[q] = cut[q]
    BY <1>1, <2>1 DEF local
  <2>4. QED
    BY <1>2, <1>3, <2>2, <2>3 DEF Holds
<1>4. CASE cut' = [cut EXCEPT ![r].fresh = FALSE] /\ ~Worked(r)
  BY <1>2, <1>4 DEF Holds
<1>5. QED
  BY <1>3, <1>4

-----------------------------------------------------------------------------
(* The steps, one by one: first those that only read. *)

\* run_controlled_deployment acquires: the new holder has done nothing yet.
LEMMA AcquireFaithful ==
  ASSUME CutoverInductive, NEW r \in CutoverRun, AcquireCutover(r)
  PROVE  CutoverFaithful'
<1> DEFINE first == IF r \in {"execute", "prepare"} THEN "snapshot" ELSE "guards"
<1>1. cut' = [cut EXCEPT ![r].pc = first]
  BY DEF AcquireCutover
<1>2. cut \in [CutoverRun -> CutoverLocal] /\ cut[r] \in CutoverLocal
  BY DEF CutoverInductive, CutoverTypes, CutoverTypeOK
<1>3. first \in {"guards", "snapshot"}
  OBVIOUS
<1> HIDE DEF first
<1>4. /\ cut'[r].pc = first /\ cut'[r].snapshot = cut[r].snapshot
      /\ \A q \in CutoverRun : q # r => cut'[q] = cut[q]
  BY <1>1, <1>2
<1>5. \A q \in CutoverRun : q # r => ~Holds(q)'
  BY DEF AcquireCutover, Grant, Holds
<1>6. SameScene /\ UNCHANGED late
  BY DEF AcquireCutover, SameScene, cutoverFiles
<1>7. RunSound(r)'
  BY <1>3, <1>4
     DEF RunSound, StartsFit, FencesFirst, ExecuteRestores, PrepareRestores, RecoversMoved,
         Undoing
<1>8. QED
  BY <1>4, <1>5, <1>6, <1>7, ReadingStep

\* The snapshot is of a topology that fits, and the fence gets every writer with
\* a service file, so every one that is not stopped.
LEMMA SnapshotFaithful ==
  ASSUME CutoverInductive, NEW r \in CutoverRun, TakeSnapshot(r)
  PROVE  CutoverFaithful'
<1> DEFINE found == [service |-> topology, plist |-> plist, ident |-> ident, epoch |-> epoch]
           local == [cut[r] EXCEPT !.snapshot = found]
<1>1. /\ CutoverTypes /\ cut \in [CutoverRun -> CutoverLocal] /\ cut[r] \in CutoverLocal
      /\ FitsCutover(r, "snapshot")
  BY DEF CutoverInductive, CutoverTypes, CutoverTypeOK, TakeSnapshot
<1>2. found \in Snapshot
  BY DEF CutoverInductive, CutoverTypes, CutoverTypeOK, Snapshot
<1>3. /\ found.service = topology /\ found.plist = plist /\ found.ident = ident
      /\ found.epoch = epoch
  OBVIOUS
<1>4. cut' = [cut EXCEPT ![r] = EnterStage(local, r, "fence")]
  BY Zenon DEF TakeSnapshot
<1> HIDE DEF found
<1>5. local \in CutoverLocal /\ local.snapshot = found
  BY <1>1, <1>2 DEF CutoverLocal
<1> HIDE DEF local
<1>6. r \in {"execute", "prepare"}
  BY <1>1, RunStages
<1>7. FitsCutover(r, "fence")
  BY <1>6 DEF FitsCutover, Stages, Execute, PrepareOnly
<1>8. /\ cut'[r].pc = "fence" /\ cut'[r].snapshot = found
      /\ cut'[r].todo = Works(r, "fence", found)
      /\ \A q \in CutoverRun : q # r => cut'[q] = cut[q]
  BY <1>1, <1>4, <1>5, <1>7, EnterTyped
<1>9. Members(cut'[r].todo) = {w \in CutoverWriter : plist[w] # "none"}
  BY <1>3, <1>6, <1>8, WorksMembers
<1>10. SameScene /\ UNCHANGED <<late, hold>>
  BY DEF TakeSnapshot, SameScene, cutoverFiles
<1>11. ASSUME ~late PROVE RunSound(r)'
  <2>1. RunningFits
    BY <1>11 DEF CutoverInductive, CutoverFaithful
  <2>2. FencesFirst(r)'
    BY <1>3, <1>8, <1>9, <1>10, <2>1
       DEF FencesFirst, AsFound, FilesAsFound, RunningFits, SameScene
  <2>3. QED
    BY <1>6, <1>8, <2>2 DEF RunSound, StartsFit, ExecuteRestores, PrepareRestores, Undoing
<1>12. QED
  BY <1>8, <1>10, <1>11, ReadingStep DEF Holds, found

\* The guards of a recovery find the epoch moved, and for w07 everything stopped.
LEMMA GuardsFaithful ==
  ASSUME CutoverInductive, NEW r \in CutoverRun, CheckGuards(r)
  PROVE  CutoverFaithful'
<1>1. CutoverTypes /\ FitsCutover(r, "guards") /\ cut[r].pc = "guards"
  BY DEF CutoverInductive, CutoverTypes, CheckGuards
<1>2. SameScene /\ UNCHANGED late /\ GoTo(r, After(r, "guards").next)
  BY DEF CheckGuards, SameScene, cutoverFiles
<1>3. StageDone(r, "guards")
  <2>1. r = "w07" => AllOff
    BY DEF CheckGuards, AllOff, Stopped
  <2>2. QED
    BY <2>1 DEF CheckGuards, Guards, StageDone
<1>4. FitsCutover(r, After(r, "guards").next)
  BY <1>1, AfterFits
<1>5. ASSUME ~late, Holds(r)' PROVE RunSound(r)'
  <2>1. Holds(r) /\ RunSound(r)
    BY <1>2, <1>4, <1>5, GoToFields DEF CutoverInductive, CutoverFaithful, Holds
  <2>2. QED
    BY <1>1, <1>2, <1>3, <1>5, <2>1, SuccessSound
<1>6. QED
  BY <1>1, <1>2, <1>4, <1>5, GoToFields, ReadingStep

\* The epoch is read when everything is fenced and nothing else has changed.
LEMMA ReadEpochFaithful ==
  ASSUME CutoverInductive, NEW r \in CutoverRun, ReadEpoch(r)
  PROVE  CutoverFaithful'
<1>1. /\ CutoverTypes /\ cut \in [CutoverRun -> CutoverLocal] /\ cut[r] \in CutoverLocal
      /\ FitsCutover(r, "epoch") /\ cut[r].pc = "epoch"
  BY DEF CutoverInductive, CutoverTypes, CutoverTypeOK, ReadEpoch
<1>2. SameScene /\ UNCHANGED <<late, hold>>
  BY DEF ReadEpoch, SameScene, cutoverFiles, Continue
<1>3. r \in {"execute", "prepare"}
  BY <1>1, RunStages
<1>4. FitsCutover(r, "cas") /\ FitsCutover(r, "undoPlists")
  BY <1>3 DEF FitsCutover, Stages, Execute, PrepareOnly, Undoing
<1>5. ASSUME ~late, Holds(r)' PROVE AsFound(r) /\ AllOff
  BY <1>1, <1>2, <1>3, <1>5
     DEF CutoverInductive, CutoverFaithful, RunSound, FencesFirst, Holds
<1>6. CASE epoch = 1 /\ cut' = [cut EXCEPT ![r] = EnterStage([@ EXCEPT !.read = epoch], r, "cas")]
  <2> DEFINE local == [cut[r] EXCEPT !.read = epoch]
  <2>1. cut' = [cut EXCEPT ![r] = EnterStage(local, r, "cas")]
    BY <1>6, Zenon
  <2>2. local \in CutoverLocal /\ local.snapshot = cut[r].snapshot /\ local.read = 1
    BY <1>1, <1>6 DEF CutoverLocal
  <2> HIDE DEF local
  <2>3. /\ cut'[r].pc = "cas" /\ cut'[r].snapshot = cut[r].snapshot /\ cut'[r].read = 1
        /\ \A q \in CutoverRun : q # r => cut'[q] = cut[q]
    BY <1>1, <1>4, <2>1, <2>2, EnterTyped
  <2>4. ASSUME ~late, Holds(r)' PROVE RunSound(r)'
    BY <1>2, <1>3, <1>5, <2>3, <2>4
       DEF RunSound, StartsFit, FencesFirst, ExecuteRestores, PrepareRestores, AsFound,
           FilesAsFound, AllOff, SameScene
  <2>5. QED
    BY <1>2, <2>3, <2>4, ReadingStep DEF Holds
<1>7. CASE Continue(r, "undoPlists")
  <2>1. GoTo(r, "undoPlists")
    BY <1>7 DEF GoTo
  <2>2. ASSUME ~late, Holds(r)' PROVE RunSound(r)'
    <3>1. /\ cut'[r].pc = "undoPlists" /\ cut'[r].snapshot = cut[r].snapshot
          /\ cut'[r].todo = Works(r, "undoPlists", cut[r].snapshot)
      BY <1>1, <1>4, <2>1, <2>2, GoToFields
    <3>2. QED
      BY <1>2, <1>3, <1>5, <2>2, <3>1
         DEF RunSound, StartsFit, FencesFirst, ExecuteRestores, PrepareRestores, AsFound,
             FilesAsFound, SameScene
  <2>3. QED
    BY <1>1, <1>2, <1>4, <2>1, <2>2, GoToFields, ReadingStep
<1>8. QED
  BY <1>6, <1>7 DEF ReadEpoch

\* readback_prepared checks what the activation is about to start.
LEMMA ReadBackFaithful ==
  ASSUME CutoverInductive, NEW r \in CutoverRun, ReadBackStage(r)
  PROVE  CutoverFaithful'
<1> DEFINE stage == cut[r].pc
<1>1. CutoverTypes /\ FitsCutover(r, stage) /\ stage \in {"prepared", "effective"}
  BY DEF CutoverInductive, CutoverTypes, ReadBackStage
<1>2. SameScene /\ UNCHANGED late /\ GoTo(r, After(r, stage).next)
  BY DEF ReadBackStage, SameScene, cutoverFiles
<1>3. StageDone(r, stage)
  BY DEF ReadBackStage, StageDone
<1>4. FitsCutover(r, After(r, stage).next)
  BY <1>1, AfterFits
<1> HIDE DEF stage
<1>5. ASSUME ~late, Holds(r)' PROVE RunSound(r)'
  <2>1. Holds(r) /\ RunSound(r)
    BY <1>2, <1>4, <1>5, GoToFields DEF CutoverInductive, CutoverFaithful, Holds
  <2>2. QED
    BY <1>1, <1>2, <1>3, <1>5, <2>1, SuccessSound DEF stage
<1>6. QED
  BY <1>1, <1>2, <1>4, <1>5, GoToFields, ReadingStep

LEMMA PersistFaithful ==
  ASSUME CutoverInductive, NEW r \in CutoverRun, PersistResult(r)
  PROVE  CutoverFaithful'
<1>1. CutoverTypes /\ GoTo(r, "done") /\ FitsCutover(r, "done") /\ SameScene /\ UNCHANGED late
  BY DEF CutoverInductive, PersistResult, GoTo, FitsCutover, SameScene, cutoverFiles
<1>2. /\ \A q \in CutoverRun : q # r => cut'[q] = cut[q] /\ (Holds(q)' => Holds(q))
      /\ cut'[r].snapshot = NoSnapshot /\ ~Holds(r)'
  BY <1>1, GoToFields
<1>3. QED
  BY <1>1, <1>2, ReadingStep

\* An epoch that is still the one read was not moved: nothing is to be undone but
\* the fence.
LEMMA JudgeFaithful ==
  ASSUME CutoverInductive, NEW r \in CutoverRun, Judge(r)
  PROVE  CutoverFaithful'
<1>1. CutoverTypes /\ FitsCutover(r, "judge") /\ cut[r].pc = "judge"
  BY DEF CutoverInductive, CutoverTypes, Judge
<1>2. SameScene /\ UNCHANGED <<late, hold>>
  BY DEF Judge, SameScene, cutoverFiles, Continue
<1>3. r = "execute"
  BY <1>1, RunStages
<1>4. FitsCutover(r, "undoPlists") /\ FitsCutover(r, "reconcile")
  BY <1>3 DEF FitsCutover, Undoing
<1>5. DOMAIN Undoing = {"undoPlists", "undoIdents", "unlink", "undoStart"}
  BY DEF Undoing
<1>6. CASE Continue(r, "reconcile")
  <2>1. GoTo(r, "reconcile")
    BY <1>6 DEF GoTo
  <2>2. ASSUME Holds(r)' PROVE RunSound(r)'
    <3>1. cut'[r].pc = "reconcile"
      BY <1>1, <1>4, <2>1, <2>2, GoToFields
    <3>2. QED
      BY <1>3, <3>1, <1>5 DEF RunSound, StartsFit, FencesFirst, ExecuteRestores
  <2>3. QED
    BY <1>1, <1>2, <1>4, <2>1, <2>2, GoToFields, ReadingStep
<1>7. CASE Continue(r, "undoPlists") /\ Unchanged(r)
  <2>1. GoTo(r, "undoPlists")
    BY <1>7 DEF GoTo
  <2>2. ASSUME ~late, Holds(r)' PROVE RunSound(r)'
    <3>1. /\ cut'[r].pc = "undoPlists" /\ cut'[r].snapshot = cut[r].snapshot
      BY <1>1, <1>4, <2>1, <2>2, GoToFields
    <3>2. AsFound(r)
      BY <1>1, <1>2, <1>3, <1>7, <2>2
         DEF CutoverInductive, CutoverFaithful, RunSound, ExecuteRestores, Unchanged, Holds
    <3>3. QED
      BY <1>2, <1>3, <3>1, <3>2
         DEF RunSound, StartsFit, FencesFirst, ExecuteRestores, AsFound, FilesAsFound,
             SameScene
  <2>3. QED
    BY <1>1, <1>2, <1>4, <2>1, <2>2, GoToFields, ReadingStep
<1>8. QED
  BY <1>6, <1>7 DEF Judge

LEMMA RevalidateFaithful ==
  ASSUME CutoverInductive, NEW r \in CutoverRun, Revalidate(r)
  PROVE  CutoverFaithful'
<1>1. cut \in [CutoverRun -> CutoverLocal] /\ cut[r] \in CutoverLocal
  BY DEF CutoverInductive, CutoverTypes, CutoverTypeOK
<1> DEFINE local == [cut[r] EXCEPT !.fresh = TRUE]
<1>2. cut' = [cut EXCEPT ![r] = local]
  BY Zenon DEF Revalidate
<1>3. /\ local.pc = cut[r].pc /\ local.todo = cut[r].todo
      /\ local.snapshot = cut[r].snapshot /\ local.read = cut[r].read
  BY <1>1
<1> HIDE DEF local
<1>4. cut'[r] = local /\ \A q \in CutoverRun : q # r => cut'[q] = cut[q]
  BY <1>1, <1>2
<1>5. SameScene /\ UNCHANGED <<late, hold>> /\ Holds(r)
  BY DEF Revalidate, SameScene, cutoverFiles
<1>6. ASSUME ~late PROVE RunSound(r)'
  <2>1. RunSound(r)
    BY <1>5, <1>6 DEF CutoverInductive, CutoverFaithful
  <2>2. QED
    BY <1>3, <1>4, <1>5, <2>1, SoundKept
<1>7. QED
  BY <1>3, <1>4, <1>5, <1>6, ReadingStep DEF Holds

\* A stage whose writers are done.
LEMMA StageEndsFaithful ==
  ASSUME CutoverInductive, NEW r \in CutoverRun, StageEnds(r)
  PROVE  CutoverFaithful'
<1> DEFINE stage == cut[r].pc
<1>1. /\ CutoverTypes /\ FitsCutover(r, stage) /\ stage \in Effects \ {"cas"}
      /\ cut[r].todo = <<>>
  BY DEF CutoverInductive, CutoverTypes, StageEnds
<1>2. SameScene /\ UNCHANGED late /\ GoTo(r, After(r, stage).next)
  BY DEF StageEnds, SameScene, cutoverFiles
<1>3. FitsCutover(r, After(r, stage).next)
  BY <1>1, AfterFits DEF Effects
<1> HIDE DEF stage
<1>4. ASSUME ~late, Holds(r)' PROVE RunSound(r)'
  <2>1. Holds(r) /\ RunSound(r)
    BY <1>2, <1>3, <1>4, GoToFields DEF CutoverInductive, CutoverFaithful, Holds
  <2>2. CASE r = "stop" /\ stage = "fence"
    <3>1. FitsCutover(r, "effective")
      BY <2>2 DEF FitsCutover, Stages, StopAll
    <3>2. After(r, stage).next = "effective"
      BY <2>2 DEF After, Stages, StopAll, Undoing, Stopping, Then
    <3>3. cut'[r].pc = "effective"
      BY <1>1, <1>2, <1>4, <3>1, <3>2, GoToFields
    <3>4. QED
      BY <2>2, <3>3 DEF RunSound, StartsFit
  <2>3. CASE ~(r = "stop" /\ stage = "fence")
    <3>1. ASSUME stage = "fence" PROVE AllOff
      <4>1. r \in {"execute", "prepare"}
        BY <1>1, <2>3, <3>1, RunStages
      <4>2. Members(<<>>) = {}
        BY DEF Members
      <4>3. QED
        BY <1>1, <2>1, <3>1, <4>1, <4>2 DEF RunSound, FencesFirst, AllOff, stage
    <3>2. StageDone(r, stage)
      BY <1>1, <3>1 DEF StageDone, Effects
    <3>3. QED
      BY <1>1, <1>2, <1>4, <2>1, <3>2, SuccessSound DEF stage, Effects
  <2>4. QED
    BY <2>2, <2>3
<1>5. QED
  BY <1>1, <1>2, <1>3, <1>4, GoToFields, ReadingStep

LEMMA StageFailsFaithful ==
  ASSUME CutoverInductive, NEW r \in CutoverRun, StageFails(r)
  PROVE  CutoverFaithful'
<1> DEFINE stage == cut[r].pc
<1>1. CutoverTypes /\ FitsCutover(r, stage) /\ stage \notin {"idle", "done", "judge"}
  BY DEF CutoverInductive, CutoverTypes, StageFails
<1>2. SameScene /\ UNCHANGED late /\ FailsFrom(r, stage)
  BY DEF StageFails, SameScene, cutoverFiles
<1>3. FitsCutover(r, After(r, stage).failed) /\ GoTo(r, After(r, stage).failed)
  BY <1>1, <1>2, AfterFits DEF FailsFrom
<1> HIDE DEF stage
<1>4. ASSUME ~late, Holds(r)' PROVE RunSound(r)'
  <2>1. Holds(r) /\ RunSound(r)
    BY <1>3, <1>4, GoToFields DEF CutoverInductive, CutoverFaithful, Holds
  <2>2. QED
    BY <1>1, <1>2, <1>4, <2>1, FailureSound DEF stage
<1>5. QED
  BY <1>1, <1>2, <1>3, <1>4, GoToFields, ReadingStep

LEMMA CrashFaithful ==
  ASSUME CutoverInductive, NEW r \in CutoverRun, CrashRun(r)
  PROVE  CutoverFaithful'
<1>1. cut \in [CutoverRun -> CutoverLocal]
  BY DEF CutoverInductive, CutoverTypes, CutoverTypeOK
<1>2. /\ [FreshRun EXCEPT !.pc = "done"].pc = "done"
      /\ [FreshRun EXCEPT !.pc = "done"].snapshot = NoSnapshot
  BY DEF FreshRun
<1>3. /\ cut'[r].pc = "done" /\ cut'[r].snapshot = NoSnapshot
      /\ \A q \in CutoverRun : q # r => cut'[q] = cut[q]
  BY <1>1, <1>2 DEF CrashRun
<1>4. SameScene /\ UNCHANGED <<late, hold>>
  BY DEF CrashRun, SameScene, cutoverFiles
<1>5. RunSound(r)'
  BY <1>3
     DEF RunSound, StartsFit, FencesFirst, ExecuteRestores, PrepareRestores, RecoversMoved,
         Undoing
<1>6. QED
  BY <1>3, <1>4, <1>5, ReadingStep DEF Holds

(* The steps that have an effect. *)

\* The compare-and-swap, whether its answer arrives or not.
LEMMA AdvanceFaithful ==
  ASSUME CutoverInductive, NEW r \in CutoverRun, AdvanceEpoch(r)
  PROVE  CutoverFaithful'
<1>1. CutoverTypes /\ FitsCutover(r, "cas") /\ cut[r].pc = "cas" /\ Lands(r)
  BY DEF CutoverInductive, CutoverTypes, AdvanceEpoch
<1>2. UNCHANGED <<topology, plist, ident>> /\ epoch' = 2
  BY DEF AdvanceEpoch, cutoverFiles
<1>3. r \in {"execute", "prepare"}
  BY <1>1, RunStages
<1>4. PICK stage \in {"plists", "judge", "undoPlists"} :
        /\ GoTo(r, stage) /\ FitsCutover(r, stage)
        /\ r = "execute" => stage \in {"plists", "judge"}
        /\ r = "prepare" => stage \in {"plists", "undoPlists"}
  <2>1. CASE Continue(r, "plists")
    <3>1. GoTo(r, "plists") /\ FitsCutover(r, "plists")
      BY <1>3, <2>1 DEF GoTo, FitsCutover, Stages, Execute, PrepareOnly
    <3>2. QED
      BY <3>1
  <2>2. CASE FailsFrom(r, "cas")
    <3>1. FitsCutover(r, After(r, "cas").failed)
      BY <1>1, AfterFits
    <3>2. /\ r = "execute" => After(r, "cas").failed = "judge"
          /\ r = "prepare" => After(r, "cas").failed = "undoPlists"
      BY DEF After, Stages, Execute, PrepareOnly, Undoing, Stopping, Then
    <3>3. QED
      BY <1>3, <2>2, <3>1, <3>2 DEF FailsFrom
  <2>3. QED
    BY <2>1, <2>2 DEF AdvanceEpoch
<1>5. /\ \A q \in CutoverRun : q # r => cut'[q] = cut[q] /\ (Holds(q)' => Holds(q))
      /\ \/ cut'[r].snapshot = NoSnapshot /\ ~Holds(r)'
         \/ /\ UNCHANGED hold /\ cut'[r].pc = stage
            /\ cut'[r].todo = Works(r, stage, cut[r].snapshot)
            /\ cut'[r].snapshot = cut[r].snapshot /\ cut'[r].read = cut[r].read
  BY <1>1, <1>4, GoToFields
<1>6. DOMAIN Undoing = {"undoPlists", "undoIdents", "unlink", "undoStart"}
  BY DEF Undoing
<1>7. ASSUME ~late, Holds(r) PROVE RunningFits' /\ (Holds(r)' => RunSound(r)')
  <2>1. RunningFits /\ RunSound(r)
    BY <1>7 DEF CutoverInductive, CutoverFaithful
  <2>2. AsFound(r) /\ AllOff
    BY <1>1, <1>3, <2>1 DEF RunSound, FencesFirst
  <2>3. CASE r = "execute"
    <3>1. cut[r].read = 1
      BY <1>1, <2>1, <2>3 DEF RunSound, ExecuteRestores
    <3>2. QED
      BY <1>2, <1>4, <1>5, <1>6, <2>2, <2>3, <3>1
         DEF RunSound, RunningFits, StartsFit, FencesFirst, ExecuteRestores, AllOff
  <2>4. CASE r = "prepare"
    BY <1>2, <1>5, <2>2, <2>4
       DEF RunSound, RunningFits, StartsFit, FencesFirst, PrepareRestores, AsFound,
           FilesAsFound, AllOff
  <2>5. QED
    BY <1>3, <2>3, <2>4
<1>8. QED
  BY <1>1, <1>5, <1>7, EffectStep

\* Fencing stops writers, and takes one off the list when it is stopped.
LEMMA FenceFaithful ==
  ASSUME CutoverInductive, NEW r \in CutoverRun, cut[r].todo # <<>>, FenceOne(r),
         cut[r].pc \in {"fence", "reconcile", "stopW07"}
  PROVE  CutoverFaithful'
<1> DEFINE w == Head(cut[r].todo)
<1>1. CutoverTypes /\ topology \in [CutoverWriter -> ServiceState] /\ FitsCutover(r, cut[r].pc)
  BY DEF CutoverInductive, CutoverTypes, CutoverTypeOK
<1>2. /\ Lands(r) /\ UNCHANGED <<plist, ident, epoch, hold>>
      /\ topology' = [topology EXCEPT ![w] = IF @ = "on" THEN "disabled" ELSE "off"]
      /\ topology[w] = "on" => cut' = [cut EXCEPT ![r].fresh = FALSE]
      /\ topology[w] # "on" => Worked(r)
  BY DEF FenceOne, cutoverFiles
<1>3. /\ \A q \in CutoverRun : q # r => cut'[q] = cut[q] /\ (Holds(q)' => Holds(q))
      /\ cut'[r].snapshot = cut[r].snapshot /\ cut'[r].pc = cut[r].pc
      /\ w \in CutoverWriter
      /\ Members(cut[r].todo) \subseteq {w} \cup Members(cut'[r].todo)
      /\ ~Worked(r) => cut'[r].todo = cut[r].todo
      /\ w \in Members(cut[r].todo)
  BY <1>1, <1>2, WorkedFields
<1>4. topology'[w] # "off" => topology[w] = "on" /\ topology'[w] = "disabled"
  BY <1>1, <1>2, <1>3
<1>5. topology[w] = "on" => w \in Members(cut'[r].todo)
  <2>1. ASSUME topology[w] = "on" PROVE cut'[r].todo = cut[r].todo
    <3>1. cut' = [cut EXCEPT ![r].fresh = FALSE]
      BY <1>2, <2>1
    <3>2. QED
      BY <3>1
  <2>2. QED
    BY <1>3, <2>1
<1> HIDE DEF w
<1>6. DOMAIN Undoing = {"undoPlists", "undoIdents", "unlink", "undoStart"}
  BY DEF Undoing
<1>7. ASSUME ~late, Holds(r) PROVE RunningFits' /\ (Holds(r)' => RunSound(r)')
  <2>1. RunningFits /\ RunSound(r)
    BY <1>7 DEF CutoverInductive, CutoverFaithful
  <2>2. RunningFits'
    BY <1>2, <2>1 DEF RunningFits
  <2>3. CASE cut[r].pc \in {"reconcile", "stopW07"}
    BY <1>3, <1>6, <2>2, <2>3
       DEF RunSound, StartsFit, FencesFirst, ExecuteRestores, PrepareRestores, RecoversMoved
  <2>4. CASE cut[r].pc = "fence" /\ r = "stop"
    BY <1>3, <2>2, <2>4 DEF RunSound, StartsFit
  <2>5. CASE cut[r].pc = "fence" /\ r \in {"execute", "prepare"}
    <3>1. FencesFirst(r)'
      BY <1>2, <1>3, <1>4, <1>5, <2>1, <2>5 DEF RunSound, FencesFirst, AsFound, FilesAsFound
    <3>2. QED
      BY <1>3, <1>6, <2>2, <2>5, <3>1
         DEF RunSound, StartsFit, ExecuteRestores, PrepareRestores
  <2>6. QED
    BY <1>1, <2>3, <2>4, <2>5, RunStages
<1>8. QED
  BY <1>2, <1>3, <1>7, EffectStep

LEMMA DisableFaithful ==
  ASSUME CutoverInductive, NEW r \in CutoverRun, DisableW07(r)
  PROVE  CutoverFaithful'
<1>1. /\ CutoverTypes /\ topology \in [CutoverWriter -> ServiceState]
      /\ FitsCutover(r, "disable") /\ cut[r].pc = "disable"
  BY DEF CutoverInductive, CutoverTypes, CutoverTypeOK, DisableW07
<1>2. Lands(r) /\ UNCHANGED <<plist, ident, epoch, hold>> /\ cut[r].todo # <<>> /\ Worked(r)
  BY DEF DisableW07, cutoverFiles
<1>3. /\ \A q \in CutoverRun : q # r => cut'[q] = cut[q] /\ (Holds(q)' => Holds(q))
      /\ cut'[r].snapshot = cut[r].snapshot /\ cut'[r].pc = "disable"
  BY <1>1, <1>2, WorkedFields
<1>4. \A x \in CutoverWriter : topology'[x] # "off" => topology[x] # "off"
  BY DEF DisableW07
<1>5. r = "recover"
  BY <1>1, RunStages
<1>6. ASSUME ~late, Holds(r) PROVE RunningFits' /\ (Holds(r)' => RunSound(r)')
  <2>1. RunningFits /\ RunSound(r)
    BY <1>6 DEF CutoverInductive, CutoverFaithful
  <2>2. RunningFits'
    BY <1>2, <1>4, <2>1 DEF RunningFits
  <2>3. QED
    BY <1>1, <1>2, <1>3, <1>5, <2>1, <2>2 DEF RunSound, StartsFit, RecoversMoved
<1>7. QED
  BY <1>2, <1>3, <1>6, EffectStep

\* The stages that write a new file or identity do it to a stopped writer.
LEMMA StagedIsOff ==
  ASSUME CutoverTypes, NEW r \in CutoverRun, cut[r].pc \in {"plists", "idents"}, RunSound(r),
         cut[r].todo # <<>>
  PROVE  topology[Head(cut[r].todo)] = "off"
<1>1. Head(cut[r].todo) \in CutoverWriter /\ Head(cut[r].todo) \in Members(cut[r].todo)
  BY TailMembers DEF CutoverTypes, CutoverTypeOK, CutoverLocal
<1>2. r \in {"execute", "prepare", "w07"}
  BY RunStages DEF CutoverTypes, CutoverRun
<1>3. QED
  BY <1>1, <1>2 DEF RunSound, FencesFirst, RecoversMoved, AllOff

\* A new service file, of a stopped writer.
LEMMA StageFileFaithful ==
  ASSUME CutoverInductive, NEW r \in CutoverRun, StageFile(r)
  PROVE  CutoverFaithful'
<1> DEFINE w == Head(cut[r].todo)
<1>1. /\ CutoverTypes /\ plist \in [CutoverWriter -> Build]
      /\ FitsCutover(r, "plists") /\ cut[r].pc = "plists"
  BY DEF CutoverInductive, CutoverTypes, CutoverTypeOK, StageFile
<1>2. /\ Lands(r) /\ UNCHANGED <<topology, ident, epoch, hold>> /\ cut[r].todo # <<>> /\ Worked(r)
      /\ plist' = [plist EXCEPT ![w] = TargetBuild(r)]
  BY DEF StageFile
<1>3. /\ \A q \in CutoverRun : q # r => cut'[q] = cut[q] /\ (Holds(q)' => Holds(q))
      /\ cut'[r].snapshot = cut[r].snapshot /\ cut'[r].pc = "plists" /\ cut'[r].read = cut[r].read
      /\ w \in CutoverWriter /\ Members(cut'[r].todo) \subseteq Members(cut[r].todo)
  BY <1>1, <1>2, WorkedFields
<1>4. DOMAIN Undoing = {"undoPlists", "undoIdents", "unlink", "undoStart"}
  BY DEF Undoing
<1>5. ASSUME ~late, Holds(r) PROVE RunningFits' /\ (Holds(r)' => RunSound(r)')
  <2>1. RunningFits /\ RunSound(r)
    BY <1>5 DEF CutoverInductive, CutoverFaithful
  <2>2. topology[w] = "off"
    BY <1>1, <1>2, <2>1, StagedIsOff
  <2>3. RunningFits'
    BY <1>2, <2>1, <2>2 DEF RunningFits
  <2>4. RunSound(r)'
    BY <1>1, <1>2, <1>3, <1>4, <2>1
       DEF RunSound, StartsFit, FencesFirst, ExecuteRestores, PrepareRestores,
           RecoversMoved, AllOff
  <2>5. QED
    BY <2>3, <2>4
<1>6. QED
  BY <1>2, <1>3, <1>5, EffectStep

\* A new identity, of a stopped writer.
LEMMA StageIdentityFaithful ==
  ASSUME CutoverInductive, NEW r \in CutoverRun, StageIdentity(r)
  PROVE  CutoverFaithful'
<1> DEFINE w == Head(cut[r].todo)
<1>1. /\ CutoverTypes /\ ident \in [CutoverWriter -> Build]
      /\ FitsCutover(r, "idents") /\ cut[r].pc = "idents"
  BY DEF CutoverInductive, CutoverTypes, CutoverTypeOK, StageIdentity
<1>2. /\ Lands(r) /\ UNCHANGED <<topology, plist, epoch, hold>> /\ cut[r].todo # <<>> /\ Worked(r)
      /\ ident' = [ident EXCEPT ![w] = TargetBuild(r)]
  BY DEF StageIdentity
<1>3. /\ \A q \in CutoverRun : q # r => cut'[q] = cut[q] /\ (Holds(q)' => Holds(q))
      /\ cut'[r].snapshot = cut[r].snapshot /\ cut'[r].pc = "idents" /\ cut'[r].read = cut[r].read
      /\ w \in CutoverWriter /\ Members(cut'[r].todo) \subseteq Members(cut[r].todo)
  BY <1>1, <1>2, WorkedFields
<1>4. DOMAIN Undoing = {"undoPlists", "undoIdents", "unlink", "undoStart"}
  BY DEF Undoing
<1>5. ASSUME ~late, Holds(r) PROVE RunningFits' /\ (Holds(r)' => RunSound(r)')
  <2>1. RunningFits /\ RunSound(r)
    BY <1>5 DEF CutoverInductive, CutoverFaithful
  <2>2. topology[w] = "off" /\ r # "prepare"
    BY <1>1, <1>2, <2>1, StagedIsOff, RunStages
  <2>3. RunningFits'
    BY <1>2, <2>1, <2>2 DEF RunningFits
  <2>4. RunSound(r)'
    BY <1>1, <1>2, <1>3, <1>4, <2>1, <2>2
       DEF RunSound, StartsFit, FencesFirst, ExecuteRestores, RecoversMoved, AllOff
  <2>5. QED
    BY <2>3, <2>4
<1>6. QED
  BY <1>2, <1>3, <1>5, EffectStep

\* Putting back changes nothing for execute, and for prepare only files of stopped
\* writers.
LEMMA PutBackFaithful ==
  ASSUME CutoverInductive, NEW r \in CutoverRun, PutBack(r)
  PROVE  CutoverFaithful'
<1> DEFINE w == Head(cut[r].todo)
           found == cut[r].snapshot
<1>1. /\ CutoverTypes /\ plist \in [CutoverWriter -> Build] /\ ident \in [CutoverWriter -> Build]
      /\ FitsCutover(r, cut[r].pc) /\ cut[r].pc \in {"undoPlists", "undoIdents", "unlink"}
  BY DEF CutoverInductive, CutoverTypes, CutoverTypeOK, PutBack
<1>2. /\ Lands(r) /\ UNCHANGED <<topology, epoch, hold>> /\ cut[r].todo # <<>> /\ Worked(r)
      /\ cut[r].pc = "undoIdents" =>
           ident' = [ident EXCEPT ![w] = found.ident[w]] /\ UNCHANGED plist
      /\ cut[r].pc # "undoIdents" =>
           plist' = [plist EXCEPT ![w] = found.plist[w]] /\ UNCHANGED ident
  BY DEF PutBack
<1>3. /\ \A q \in CutoverRun : q # r => cut'[q] = cut[q] /\ (Holds(q)' => Holds(q))
      /\ cut'[r].snapshot = found /\ cut'[r].pc = cut[r].pc
      /\ w \in CutoverWriter
      /\ Members(cut[r].todo) \subseteq {w} \cup Members(cut'[r].todo)
  BY <1>1, <1>2, WorkedFields
<1>4. DOMAIN Undoing = {"undoPlists", "undoIdents", "unlink", "undoStart"}
  BY DEF Undoing
<1>5. r \in {"execute", "prepare"}
  BY <1>1, RunStages
<1> HIDE DEF w, found
<1>6. ASSUME ~late, Holds(r) PROVE RunningFits' /\ (Holds(r)' => RunSound(r)')
  <2>1. RunningFits /\ RunSound(r)
    BY <1>6 DEF CutoverInductive, CutoverFaithful
  <2>2. UNCHANGED ident
    <3>1. ident = found.ident
      BY <1>1, <1>5, <1>4, <2>1
         DEF RunSound, ExecuteRestores, PrepareRestores, AsFound, FilesAsFound, found
    <3>2. [ident EXCEPT ![w] = ident[w]] = ident
      BY <1>1
    <3>3. QED
      BY <1>2, <3>1, <3>2
  <2>3. CASE r = "execute"
    BY <1>1, <1>2, <1>3, <1>4, <2>1, <2>3
       DEF RunSound, RunningFits, StartsFit, FencesFirst, ExecuteRestores, AsFound,
           FilesAsFound, found
  <2>4. CASE r = "prepare"
    <3>1. \A x \in CutoverWriter : plist'[x] = plist[x] \/ (x = w /\ plist'[x] = found.plist[x])
      BY <1>1, <1>2
    <3>2. \A x \in CutoverWriter : topology[x] # "off" => plist[x] = found.plist[x]
      BY <1>1, <1>4, <2>1, <2>4 DEF RunSound, PrepareRestores, found
    <3>3. \A x \in CutoverWriter : topology[x] # "off" => plist'[x] = plist[x]
      BY <3>1, <3>2
    <3>4. RunningFits'
      BY <1>2, <2>1, <2>2, <3>3 DEF RunningFits
    <3>5. PrepareRestores(r)'
      BY <1>1, <1>2, <1>3, <2>1, <2>4 DEF RunSound, PrepareRestores, found
    <3>6. QED
      BY <1>1, <1>3, <2>4, <3>4, <3>5 DEF RunSound, StartsFit, FencesFirst
  <2>5. QED
    BY <1>5, <2>3, <2>4
<1>7. QED
  BY <1>2, <1>3, <1>6, EffectStep DEF found

\* What a run that starts a writer knows of it.
LEMMA StartedFits ==
  ASSUME CutoverInductive, NEW r \in CutoverRun, StartCleaner(r), ~late, Holds(r)
  PROVE  LET w == Head(cut[r].todo) IN
         /\ w \in CutoverWriter /\ plist[w] = ident[w] /\ plist[w] # "none"
         /\ cut[r].pc = "undoStart" =>
              /\ plist[w] = cut[r].snapshot.plist[w]
              /\ r # "prepare" => epoch = cut[r].snapshot.epoch
         /\ cut[r].pc = "start" => plist[w] \in {"pg", "next"} /\ epoch = 2
<1> DEFINE w == Head(cut[r].todo)
<1>1. /\ CutoverTypes /\ cut[r].todo \in Seq(CutoverWriter) /\ cut[r].todo # <<>>
      /\ cut[r].pc \in {"start", "undoStart"} /\ FitsCutover(r, cut[r].pc)
  BY DEF CutoverInductive, CutoverTypes, CutoverTypeOK, CutoverLocal, StartCleaner
<1>2. w \in CutoverWriter /\ w \in Members(cut[r].todo)
  BY <1>1, TailMembers
<1> HIDE DEF w
<1>3. RunSound(r) /\ FoundFits(r)
  BY DEF CutoverInductive, CutoverFaithful
<1>4. CASE cut[r].pc = "start"
  <2>1. r \in {"execute", "recover", "w07"}
    BY <1>1, <1>4, RunStages
  <2>2. plist[w] = TargetBuild(r) /\ ident[w] = TargetBuild(r)
    BY <1>2, <1>3, <1>4 DEF RunSound, StartsFit
  <2>3. epoch = 2
    BY <1>3, <1>4, <2>1 DEF RunSound, ExecuteRestores, RecoversMoved
  <2>4. QED
    BY <1>2, <1>4, <2>2, <2>3 DEF TargetBuild, w
<1>5. CASE cut[r].pc = "undoStart"
  <2>1. r \in {"execute", "prepare"}
    BY <1>1, <1>5, RunStages
  <2>2. cut[r].snapshot.service[w] = "on"
    BY <1>2, <1>3, <1>5 DEF RunSound, StartsFit
  <2>3. cut[r].snapshot.plist[w] = cut[r].snapshot.ident[w] /\ cut[r].snapshot.plist[w] # "none"
    BY <1>2, <1>3, <2>2 DEF FoundFits
  <2>4. "undoStart" \in DOMAIN Undoing
    BY DEF Undoing
  <2>5. ident = cut[r].snapshot.ident /\ plist[w] = cut[r].snapshot.plist[w]
    BY <1>2, <1>3, <1>5, <2>1, <2>3, <2>4
       DEF RunSound, ExecuteRestores, PrepareRestores, AsFound, FilesAsFound
  <2>6. r # "prepare" => epoch = cut[r].snapshot.epoch
    BY <1>3, <1>5, <2>1, <2>4 DEF RunSound, ExecuteRestores, AsFound
  <2>7. QED
    BY <1>2, <1>5, <2>3, <2>5, <2>6 DEF w
<1>6. QED
  BY <1>1, <1>4, <1>5

\* A start, or one that stops half way.
LEMMA StartFaithful ==
  ASSUME CutoverInductive, NEW r \in CutoverRun, StartCleaner(r)
  PROVE  CutoverFaithful'
<1> DEFINE w == Head(cut[r].todo)
           stage == cut[r].pc
           failed == After(r, stage).failed
<1>1. /\ CutoverTypes /\ topology \in [CutoverWriter -> ServiceState] /\ FitsCutover(r, stage)
      /\ stage \in {"start", "undoStart"} /\ cut[r].todo # <<>> /\ Lands(r)
  BY DEF CutoverInductive, CutoverTypes, CutoverTypeOK, StartCleaner
<1>2. UNCHANGED <<plist, ident, epoch>>
  BY DEF StartCleaner, cutoverFiles
<1>3. DOMAIN Undoing = {"undoPlists", "undoIdents", "unlink", "undoStart"}
  BY DEF Undoing
<1>4. r \in {"execute", "prepare", "recover", "w07"} /\ (stage = "start" => r # "prepare")
      /\ (stage = "undoStart" => r \in {"execute", "prepare"})
  BY <1>1, RunStages
<1>5. ASSUME ~late, Holds(r)
      PROVE  /\ RunningFits /\ RunSound(r)
             /\ w \in CutoverWriter /\ plist[w] = ident[w] /\ plist[w] # "none"
             /\ stage = "undoStart" => plist[w] = cut[r].snapshot.plist[w]
  BY <1>5, StartedFits DEF CutoverInductive, CutoverFaithful
<1>6. \A x \in CutoverWriter : x # w => topology'[x] = topology[x]
  BY <1>1 DEF StartCleaner
<1> HIDE DEF w
<1>7. ASSUME ~late, Holds(r) PROVE RunningFits'
  BY <1>2, <1>5, <1>6, <1>7 DEF RunningFits
<1>8. CASE Worked(r) /\ UNCHANGED <<hold, released>>
  <2>1. /\ \A q \in CutoverRun : q # r => cut'[q] = cut[q] /\ (Holds(q)' => Holds(q))
        /\ cut'[r].snapshot = cut[r].snapshot /\ cut'[r].pc = stage /\ cut'[r].read = cut[r].read
        /\ Members(cut'[r].todo) \subseteq Members(cut[r].todo)
    BY <1>1, <1>8, WorkedFields
  <2> HIDE DEF stage
  <2>2. ASSUME ~late, Holds(r) PROVE RunSound(r)'
    <3>1. RunSound(r)
      BY <1>5, <2>2
    <3>2. StartsFit(r)'
      BY <1>2, <2>1, <3>1 DEF RunSound, StartsFit, stage
    <3>3. CASE stage = "start"
      BY <1>2, <1>4, <1>3, <2>1, <3>1, <3>2, <3>3
         DEF RunSound, FencesFirst, ExecuteRestores, RecoversMoved, stage
    <3>4. CASE stage = "undoStart" /\ r = "execute"
      BY <1>2, <2>1, <3>1, <3>2, <3>4
         DEF RunSound, FencesFirst, ExecuteRestores, AsFound, FilesAsFound, stage
    <3>5. CASE stage = "undoStart" /\ r = "prepare"
      <4>1. PrepareRestores(r)'
        BY <1>2, <1>5, <1>6, <2>1, <2>2, <3>5 DEF RunSound, PrepareRestores, stage
      <4>2. QED
        BY <2>1, <3>2, <3>5, <4>1 DEF RunSound, FencesFirst
    <3>6. QED
      BY <1>1, <1>4, <3>3, <3>4, <3>5
  <2>3. QED
    BY <1>1, <1>7, <2>1, <2>2, EffectStep
<1>9. CASE FailsFrom(r, stage)
  <2>1. FitsCutover(r, failed) /\ GoTo(r, failed)
    BY <1>1, <1>9, AfterFits DEF FailsFrom
  <2>2. FailsTo(r, stage, failed)
    BY <1>1, FailuresLead
  <2> HIDE DEF failed
  <2>3. /\ \A q \in CutoverRun : q # r => cut'[q] = cut[q] /\ (Holds(q)' => Holds(q))
        /\ \/ cut'[r].snapshot = NoSnapshot /\ ~Holds(r)'
           \/ /\ failed # "done" /\ cut'[r].pc = failed
              /\ cut'[r].snapshot = cut[r].snapshot /\ cut'[r].read = cut[r].read
    BY <1>1, <2>1, GoToFields
  <2>4. ASSUME ~late, Holds(r), Holds(r)' PROVE RunSound(r)'
    <3>1. RunSound(r) /\ cut'[r].pc = failed /\ cut'[r].read = cut[r].read
      BY <1>5, <2>3, <2>4
    <3>2. CASE failed \in {"reconcile", "stopW07"}
      BY <1>3, <3>1, <3>2
         DEF RunSound, StartsFit, FencesFirst, ExecuteRestores, PrepareRestores,
             RecoversMoved
    <3>3. CASE failed = "judge"
      BY <1>1, <1>2, <1>3, <2>2, <3>1, <3>3
         DEF FailsTo, RunSound, StartsFit, FencesFirst, ExecuteRestores
    <3>4. QED
      BY <1>1, <2>2, <2>3, <2>4, <3>2, <3>3 DEF FailsTo
  <2>5. QED
    BY <1>1, <1>7, <2>3, <2>4, EffectStep
<1>10. QED
  BY <1>8, <1>9 DEF StartCleaner

-----------------------------------------------------------------------------
LEMMA CutoverInductiveStart == CutoverInit => CutoverInductive
<1> SUFFICES ASSUME CutoverInit PROVE CutoverInductive
  OBVIOUS
<1>1. CutoverTypes
  BY CutoverTypesStart
<1>2. RunningFits
  BY DEF CutoverInit, RunningFits
<1>3. \A r \in CutoverRun : cut[r].snapshot = NoSnapshot /\ ~Holds(r)
  BY DEF CutoverInit, FreshRun, HoldInit, Holds
<1>4. \A r \in CutoverRun : FoundFits(r)
  BY <1>3 DEF FoundFits, NoSnapshot
<1>5. QED
  BY <1>1, <1>2, <1>3, <1>4 DEF CutoverInductive, CutoverFaithful

\* A step of no run: a lost lease, a business effect, or nothing.
LEMMA NoRunSteps ==
  ASSUME CutoverInductive, SameScene, UNCHANGED <<late, cut>>,
         \A q \in CutoverRun : Holds(q)' => Holds(q)
  PROVE  CutoverFaithful'
<1>1. "stop" \in CutoverRun
  BY DEF CutoverRun
<1>2. ASSUME ~late, Holds("stop")' PROVE RunSound("stop")'
  BY <1>1, <1>2, SoundKept DEF CutoverInductive, CutoverFaithful
<1>3. QED
  BY <1>1, <1>2, ReadingStep

LEMMA CutoverInductiveStep ==
  CutoverInductive /\ [CutoverNext]_cutoverVars => CutoverInductive'
<1> SUFFICES ASSUME CutoverInductive, [CutoverNext]_cutoverVars PROVE CutoverInductive'
  OBVIOUS
<1>1. CutoverTypes'
  BY CutoverTypesStep DEF CutoverInductive
<1>2. CASE UNCHANGED cutoverVars
  <2>1. SameScene /\ UNCHANGED <<late, cut, hold>>
    BY <1>2 DEF cutoverVars, cutoverFiles, SameScene
  <2>2. CutoverFaithful'
    BY <2>1, NoRunSteps DEF Holds
  <2>3. QED
    BY <1>1, <2>2 DEF CutoverInductive
<1>3. CASE LoseHold
  <2>1. SameScene /\ UNCHANGED <<late, cut>>
    BY <1>3 DEF LoseHold, cutoverFiles, SameScene
  <2>2. \A q \in CutoverRun : ~Holds(q)'
    BY <1>3 DEF LoseHold, Expire, Holds
  <2>3. CutoverFaithful'
    BY <2>1, <2>2, NoRunSteps
  <2>4. QED
    BY <1>1, <2>3 DEF CutoverInductive
<1>4. CASE CommitEffect
  <2>1. SameScene /\ UNCHANGED <<late, cut, hold>>
    BY <1>4 DEF CommitEffect, cutoverFiles, SameScene
  <2>2. CutoverFaithful'
    BY <2>1, NoRunSteps DEF Holds
  <2>3. QED
    BY <1>1, <2>2 DEF CutoverInductive
<1>5. CASE \E r \in CutoverRun : CutoverStep(r)
  <2> PICK r \in CutoverRun : CutoverStep(r)
    BY <1>5
  <2>1. FenceWriter(r) \/ ReconcileWriter(r) \/ StopW07(r) => CutoverFaithful'
    BY FenceFaithful DEF FenceWriter, ReconcileWriter, StopW07
  <2>2. CutoverFaithful'
    BY <2>1, AcquireFaithful, SnapshotFaithful, GuardsFaithful, ReadEpochFaithful,
       ReadBackFaithful, PersistFaithful, JudgeFaithful, RevalidateFaithful,
       AdvanceFaithful, DisableFaithful, StageFileFaithful, StageIdentityFaithful,
       PutBackFaithful, StartFaithful, StageEndsFaithful, StageFailsFaithful, CrashFaithful
       DEF CutoverStep
  <2>3. QED
    BY <1>1, <2>2 DEF CutoverInductive
<1>6. QED
  BY <1>2, <1>3, <1>4, <1>5 DEF CutoverNext, CutoverStep

\* As long as no effect has landed without the lease, a writer that is not stopped
\* has one build in its file and its identity, and the holder is where it thinks.
THEOREM CutoverInductiveHolds == CutoverSpec => []CutoverInductive
BY CutoverInductiveStart, CutoverInductiveStep, PTL DEF CutoverSpec

\* Only StartCleaner makes a stopped writer run.
LEMMA OnlyStartsRun ==
  ASSUME CutoverInductive, CutoverNext, NEW w \in CutoverWriter,
         topology[w] \notin Running, topology'[w] \in Running
  PROVE  \E r \in CutoverRun : StartCleaner(r) /\ w = Head(cut[r].todo)
<1>1. topology \in [CutoverWriter -> ServiceState] /\ CutoverTypes
  BY DEF CutoverInductive, CutoverTypes, CutoverTypeOK
<1>2. ASSUME NEW r \in CutoverRun, FenceWriter(r) \/ ReconcileWriter(r) \/ StopW07(r) PROVE FALSE
  BY <1>1, <1>2 DEF FenceWriter, ReconcileWriter, StopW07, FenceOne, Running
<1>3. ASSUME NEW r \in CutoverRun, DisableW07(r) PROVE FALSE
  BY <1>3 DEF DisableW07, Running
<1>4. ASSUME NEW r \in CutoverRun, StartCleaner(r) PROVE w = Head(cut[r].todo)
  BY <1>1, <1>4 DEF StartCleaner
<1>5. ~LoseHold /\ ~CommitEffect
  BY DEF LoseHold, CommitEffect
<1>6. ASSUME NEW r \in CutoverRun,
         \/ AcquireCutover(r) \/ TakeSnapshot(r) \/ CheckGuards(r) \/ ReadEpoch(r)
         \/ ReadBackStage(r) \/ PersistResult(r) \/ Judge(r) \/ Revalidate(r)
         \/ AdvanceEpoch(r) \/ StageFile(r) \/ StageIdentity(r)
         \/ PutBack(r) \/ StageEnds(r) \/ StageFails(r) \/ CrashRun(r)
      PROVE FALSE
  BY <1>6
     DEF AcquireCutover, TakeSnapshot, CheckGuards, ReadEpoch, ReadBackStage, PersistResult,
         Judge, Revalidate, AdvanceEpoch, StageFile, StageIdentity, PutBack, StageEnds,
         StageFails, CrashRun
<1>7. QED
  BY <1>2, <1>3, <1>4, <1>5, <1>6 DEF CutoverNext

\* A step that starts a writer starts the right build of it.
LEMMA StartsForEpochStep ==
  CutoverInductive /\ [CutoverNext]_cutoverVars => [StartsForEpoch]_cutoverVars
<1> SUFFICES ASSUME CutoverInductive, CutoverNext, NEW w \in CutoverWriter,
                    topology[w] \notin Running, topology'[w] \in Running, ~late',
                    hold.holder # "prepare"
             PROVE  StartsRight(w)
  BY DEF StartsForEpoch
<1>1. PICK r \in CutoverRun : StartCleaner(r) /\ w = Head(cut[r].todo)
  BY OnlyStartsRun
<1>2. ~late /\ Holds(r) /\ hold.holder = r /\ cut[r].pc \in {"start", "undoStart"}
  BY <1>1 DEF StartCleaner, Lands, Holds
<1>3. UNCHANGED <<plist, ident, epoch>>
  BY <1>1 DEF StartCleaner, cutoverFiles
<1>4. QED
  BY <1>1, <1>2, <1>3, StartedFits DEF StartsRight

\* Whoever starts a writer under the lease starts it for the authority in force:
\* execute, recover, w07 and restore_pre_cutover, after any failures and crashes.
THEOREM RuntimeAlwaysFollowsEpoch == CutoverSpec => RuntimeFollowsEpoch
BY CutoverInductiveHolds, StartsForEpochStep, PTL DEF CutoverSpec, RuntimeFollowsEpoch

=============================================================================
