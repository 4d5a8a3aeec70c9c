---------------------------- MODULE ReceiptsProofs ----------------------------
(***************************************************************************)
(* What an operation under the lease of a controlled deployment writes     *)
(* down about its effect.  The typed operations: one effect per operation  *)
(* id, and receipts that say what happened, for any calls, operation ids,  *)
(* request fingerprints and any of the six operations; and that they       *)
(* implement OneEffect.  The credential of the worker: one file, and       *)
(* evidence that names it, for any operation ids and number of files.      *)
(***************************************************************************)
EXTENDS TypedReceipts, WorkerCredential, TLAPS

-----------------------------------------------------------------------------
(* The invariant. *)

\* The lease.
Lease == [holder : Call \cup {Nobody}, token : Nat, live : BOOLEAN]

\* The values of the fields of a call and of a receipt.
Stage == {"idle", "prior", "acquire", "read", "prepare", "dispatch", "psql",
          "readback", "assert", "final", "release", "orphan", "done"}
Operations == Operation \cup {Nobody}
Requests == Request \cup {0}
Befores == CatalogStates \cup {"none"}
Afters == CatalogStates \cup {"none", "exists", "proof"}
Statuses == {"PENDING", "APPLIED", "NOOP_EXACT"}
Answers == {"NONE", "PASS", "REFUSED", "RECONCILE"}

\* The local state of a call.
Local == [pc : Stage, op : Operations, request : Requests, before : Befores, after : Afters,
          status : Statuses, exit : {0, 1}, answer : Answers]

Receipt == [request : Requests, token : Nat, before : CatalogStates \cup {"none", "exists"},
            after : Afters, status : Statuses]

\* The stages of a call that has written PREPARED and may still act on it.
Acting == {"dispatch", "psql", "orphan", "readback", "final", "release"}
Acts(c) == typed[c].pc \in Acting

(* What the receipts of one operation id say by themselves: FINAL comes    *)
(* after PREPARED and repeats its request, no effect comes before          *)
(* PREPARED, there is at most one, and FINAL says whether there was.       *)
Tells(o) ==
  /\ applied[o] <= 1
  /\ prepared[o] = Unwritten => applied[o] = 0 /\ final[o] = Unwritten
  /\ prepared[o] # Unwritten => prepared[o].request \in Request
  /\ final[o] # Unwritten =>
       final[o].request = prepared[o].request /\ final[o].status \in {"APPLIED", "NOOP_EXACT"}
  /\ final[o].status = "APPLIED" => applied[o] = 1
  /\ final[o].status = "NOOP_EXACT" /\ kind # "PRINCIPAL" => applied[o] = 0

(* What a call with local state m knows of its receipts: until psql has    *)
(* ended there was no effect, afterwards its status and psql's exit say    *)
(* whether there was one, and it answers with success on FINAL only.       *)
Stands(m) ==
  LET o == m.op IN
  /\ m.pc \notin {"idle", "done"} => o \in Operation /\ m.request \in Request
  /\ m.pc \in Acting => prepared[o] # Unwritten
  /\ m.pc \in Acting \ {"release"} => final[o] = Unwritten
  /\ m.pc = "prepare" => m.before # "none"
  /\ m.pc \in {"dispatch", "psql", "orphan"} => applied[o] = 0
  /\ m.pc \in {"psql", "orphan"} => m.status = "APPLIED" \/ (m.status = "NOOP_EXACT" /\ kind = "PRINCIPAL")
  /\ m.pc \in {"readback", "final"} =>
       /\ m.status \in {"APPLIED", "NOOP_EXACT"}
       /\ m.status = "APPLIED" /\ m.exit = 0 => applied[o] = 1
       /\ m.status = "NOOP_EXACT" /\ kind # "PRINCIPAL" => applied[o] = 0
  /\ m.pc # "done" => m.answer = "NONE"
  /\ m.pc = "release" \/ m.answer = "PASS" =>
       o \in Operation /\ final[o] # Unwritten /\ final[o].request = m.request

\* An operation id has at most one call that may act on it.
Sole == \A c, d \in Call : Acts(c) /\ Acts(d) /\ typed[c].op = typed[d].op => c = d

ReceiptsInv ==
  /\ ReceiptsTypeOK /\ Sole
  /\ \A o \in Operation : Tells(o)
  /\ \A c \in Call : Stands(typed[c])

-----------------------------------------------------------------------------
(* What the steps of a call are made of. *)

\* The type invariant, in the terms used below.
LEMMA Types ==
  /\ ReceiptsTypeOK <=>
       /\ hold \in Lease
       /\ kind \in Kinds /\ catalog \in CatalogStates
       /\ prepared \in [Operation -> Receipt] /\ final \in [Operation -> Receipt]
       /\ acquired \subseteq Operation
       /\ applied \in [Operation -> Nat] /\ drifted \in BOOLEAN
       /\ typed \in [Call -> Local]
BY DEF ReceiptsTypeOK, Lease, Receipt, Local, Stage, Operations, Requests, Befores, Afters, Statuses, Answers

\* An empty receipt is a receipt, and what a read finds is one of the values a receipt may hold.
LEMMA Readings ==
  /\ Unwritten \in Receipt
  /\ \A state \in CatalogStates :
       /\ state # "none"
       /\ Fingerprint(state) \in CatalogStates \cup {"exists"} /\ Fingerprint(state) # "none"
       /\ ReadBack(state) \in CatalogStates \cup {"none", "exists", "proof"}
<1>1. Unwritten \in Receipt
  BY DEF Unwritten, Receipt, Requests, Afters, Statuses
<1>2. ASSUME NEW state \in CatalogStates
      PROVE  /\ state # "none"
             /\ Fingerprint(state) \in CatalogStates \cup {"exists"} /\ Fingerprint(state) # "none"
             /\ ReadBack(state) \in CatalogStates \cup {"none", "exists", "proof"}
  BY DEF Fingerprint, ReadBack, CatalogStates
<1>3. QED
  BY <1>1, <1>2

\* Leaving, gaining or losing the lease keeps its type.
LEMMA HoldKept ==
  ASSUME hold \in Lease, NEW c \in Call
  PROVE  /\ Left(c) \in Lease
         /\ Grant(c) => hold' \in Lease
<1>1. [hold EXCEPT !.holder = Nobody, !.live = FALSE] \in Lease
  BY DEF Lease
<1>2. [holder |-> c, token |-> hold.token + 1, live |-> TRUE] \in Lease
  <2>1. hold.token + 1 \in Nat
    BY DEF Lease
  <2>2. QED
    BY <2>1 DEF Lease
<1>3. QED
  BY <1>1, <1>2, Zenon DEF Left, Grant

\* A lease that has expired is still of a call.
LEMMA ExpiredKept ==
  ASSUME hold \in Lease, Expire
  PROVE  hold' \in Lease
BY DEF Expire, Lease

\* The state of a call that has ended.
LEMMA EndedState ==
  ASSUME NEW m \in Local, NEW a \in Answers
  PROVE  /\ Ended(m, a) \in Local /\ Ended(m, a).pc = "done" /\ Ended(m, a).answer = a
         /\ Ended(m, a).op = m.op /\ Ended(m, a).request = m.request
<1>1. Idle \in Local /\ "done" \in Stage
  BY DEF Idle, Local, Stage, Operations, Requests, Befores, Afters, Statuses, Answers
<1>2. m.op \in Operations /\ m.request \in Requests
  BY DEF Local
<1>3. ASSUME NEW i \in Local, NEW x \in Operations, NEW y \in Requests
      PROVE  [i EXCEPT !.pc = "done", !.op = x, !.request = y, !.answer = a] \in Local
  BY <1>1 DEF Local
<1>4. Ended(m, a) \in Local
  BY <1>1, <1>2, <1>3, Zenon DEF Ended
<1>5. Ended(m, a).pc = "done" /\ Ended(m, a).answer = a
  BY DEF Ended, Idle
<1>6. Ended(m, a).op = m.op /\ Ended(m, a).request = m.request
  BY DEF Ended, Idle
<1>7. QED
  BY <1>4, <1>5, <1>6

\* A call that goes to another stage and keeps the rest.
LEMMA AtStage ==
  ASSUME NEW m \in Local,
         NEW s \in {"acquire", "read", "dispatch", "release", "orphan"}
  PROVE  LET n == [m EXCEPT !.pc = s] IN
         /\ n \in Local /\ n.pc = s /\ n.op = m.op /\ n.request = m.request
         /\ n.before = m.before /\ n.after = m.after /\ n.status = m.status
         /\ n.exit = m.exit /\ n.answer = m.answer
<1>1. s \in Stage
  BY DEF Stage
<1>2. QED
  BY <1>1 DEF Local

(* A step of call c to local state m that leaves the receipts and the      *)
(* effects as they are.                                                    *)
LEMMA CallStep ==
  ASSUME ReceiptsInv, NEW c \in Call, NEW m \in Local, typed' = [typed EXCEPT ![c] = m],
         UNCHANGED <<kind, prepared, final, applied>>,
         hold' \in Lease,
         catalog' \in CatalogStates, acquired' \subseteq Operation, drifted' \in BOOLEAN,
         m.pc \in Acting => Acts(c) /\ m.op = typed[c].op,
         Stands(m)
  PROVE  ReceiptsInv'
<1>1. typed' \in [Call -> Local] /\ \A d \in Call : typed'[d] = IF d = c THEN m ELSE typed[d]
  BY Types DEF ReceiptsInv
<1>2. ReceiptsTypeOK'
  BY <1>1, Types DEF ReceiptsInv, ReceiptsTypeOK, Lease, Local, Stage, Operations, Requests, Befores,
                     Afters, Statuses, Answers
<1>3. \A o \in Operation : Tells(o)'
  BY DEF ReceiptsInv, Tells
<1>4. \A d \in Call : Stands(typed[d])'
  BY <1>1 DEF ReceiptsInv, Stands
<1>5. Sole'
  BY <1>1 DEF ReceiptsInv, Sole, Acts
<1>6. QED
  BY <1>2, <1>3, <1>4, <1>5 DEF ReceiptsInv

\* A call that ends without success.
LEMMA CallEnds ==
  ASSUME ReceiptsInv, NEW c \in Call, NEW a \in {"NONE", "REFUSED", "RECONCILE"},
         typed' = [typed EXCEPT ![c] = Ended(@, a)], hold' = hold \/ hold' = Left(c),
         UNCHANGED <<kind, catalog, receipts, applied, drifted>>
  PROVE  ReceiptsInv'
<1> DEFINE m == Ended(typed[c], a)
<1>1. m \in Local /\ m.pc = "done" /\ m.answer = a
  BY EndedState, Types DEF ReceiptsInv, Answers
<1>2. typed' = [typed EXCEPT ![c] = m]
  BY Zenon
<1> HIDE DEF m
<1>3. Stands(m)
  BY <1>1 DEF Stands, Acting
<1>4. m.pc \notin Acting
  BY <1>1 DEF Acting
<1>5. UNCHANGED <<kind, prepared, final, applied>> /\ UNCHANGED <<catalog, acquired, drifted>>
  BY DEF receipts
<1>6. hold' \in Lease
  BY HoldKept, Types DEF ReceiptsInv
<1>7. QED
  BY <1>1, <1>2, <1>3, <1>4, <1>5, <1>6, CallStep, Types DEF ReceiptsInv

\* What a failed check does.
LEMMA CallRaises ==
  ASSUME ReceiptsInv, NEW c \in Call, NEW a \in {"REFUSED", "RECONCILE"}, Raises(c, a)
  PROVE  ReceiptsInv'
BY CallEnds DEF Raises, Ends

-----------------------------------------------------------------------------
(* The steps that leave the receipts and the effects as they are. *)

\* A replay is answered with success only on the FINAL receipt of its own request.
LEMMA ReplayStep ==
  ASSUME ReceiptsInv, NEW c \in Call, NEW o \in Operation, NEW r \in Request, ReplayOrGoOn(c, o, r)
  PROVE  ReceiptsInv'
<1> DEFINE passes == ReceiptState(o) = "FINAL" /\ SameRequest(o, r)
           called == [typed[c] EXCEPT !.op = o, !.request = r]
           prior == [typed[c] EXCEPT !.pc = "prior", !.op = o, !.request = r]
<1>1. typed[c] \in Local /\ typed[c].pc = "idle" /\ Stands(typed[c])
  BY Types DEF ReceiptsInv, ReplayOrGoOn
<1>2. ASSUME NEW m \in Local
      PROVE  /\ LET n == [m EXCEPT !.op = o, !.request = r] IN
                n \in Local /\ n.op = o /\ n.request = r
             /\ LET n == [m EXCEPT !.pc = "prior", !.op = o, !.request = r] IN
                n \in Local /\ n.pc = "prior" /\ n.op = o /\ n.request = r /\ n.answer = m.answer
  <2>1. o \in Operations /\ r \in Requests /\ "prior" \in Stage
    BY DEF Operations, Requests, Stage
  <2>2. QED
    BY <2>1 DEF Local
<1>3. UNCHANGED <<hold, kind, catalog, receipts, applied, drifted>>
  BY DEF ReplayOrGoOn
<1>4. \/ typed' = [typed EXCEPT ![c] = prior]
      \/ \E a \in {"PASS", "REFUSED"} : /\ a = "PASS" => passes
                                       /\ typed' = [typed EXCEPT ![c] = Ended(called, a)]
  BY Zenon DEF ReplayOrGoOn
<1>5. CASE typed' = [typed EXCEPT ![c] = prior]
  <2>1. /\ prior \in Local /\ prior.pc = "prior" /\ prior.op = o /\ prior.request = r
      /\ prior.answer = typed[c].answer
    BY <1>1, <1>2
  <2>2. typed[c].answer = "NONE"
    BY <1>1 DEF Stands
  <2> HIDE DEF prior
  <2>3. Stands(prior)
    BY <2>1, <2>2 DEF Stands, Acting
  <2>4. QED
    BY <1>3, <1>5, <2>1, <2>3, CallStep, Types DEF ReceiptsInv, receipts, Acting
<1>6. ASSUME NEW a \in {"PASS", "REFUSED"}, a = "PASS" => passes,
             typed' = [typed EXCEPT ![c] = Ended(called, a)]
      PROVE  ReceiptsInv'
  <2> DEFINE m == Ended(called, a)
  <2>1. called \in Local /\ called.op = o /\ called.request = r
    BY <1>1, <1>2
  <2>2. m \in Local /\ m.pc = "done" /\ m.answer = a /\ m.op = o /\ m.request = r
    <3> HIDE DEF called
    <3>1. QED
      BY <2>1, EndedState DEF Answers
  <2> HIDE DEF called
  <2>6. typed' = [typed EXCEPT ![c] = m]
    BY <1>6
  <2> HIDE DEF m
  <2>3. a = "PASS" => final[o] # Unwritten /\ final[o].request = r
    BY <1>6 DEF ReceiptState, SameRequest, ReceiptsInv, Tells
  <2>4. Stands(m)
    BY <2>2, <2>3 DEF Stands, Acting
  <2>5. QED
    BY <1>3, <2>2, <2>4, <2>6, CallStep, Types DEF ReceiptsInv, receipts, Acting
<1>7. QED
  BY <1>4, <1>5, <1>6

\* An operation id whose deployment has acquired is refused, another goes on.
LEMMA CheckPriorStep ==
  ASSUME ReceiptsInv, NEW c \in Call, CheckPrior(c)
  PROVE  ReceiptsInv'
<1> DEFINE m == [typed[c] EXCEPT !.pc = "acquire"]
<1>1. typed[c] \in Local /\ typed[c].pc = "prior" /\ Stands(typed[c])
  BY Types DEF ReceiptsInv, CheckPrior
<1>2. UNCHANGED <<hold, kind, catalog, receipts, applied, drifted>>
  BY DEF CheckPrior
<1>3. typed' = [typed EXCEPT ![c] = Ended(@, "REFUSED")] \/ typed' = [typed EXCEPT ![c] = m]
  BY Zenon DEF CheckPrior
<1>4. CASE typed' = [typed EXCEPT ![c] = Ended(@, "REFUSED")]
  BY <1>2, <1>4, CallEnds
<1>5. CASE typed' = [typed EXCEPT ![c] = m]
  <2>1. /\ m \in Local /\ m.pc = "acquire" /\ m.op = typed[c].op /\ m.answer = typed[c].answer
        /\ m.request = typed[c].request
    BY <1>1, AtStage
  <2> HIDE DEF m
  <2>2. Stands(m)
    BY <1>1, <2>1 DEF Stands, Acting
  <2>3. QED
    BY <1>2, <1>5, <2>1, <2>2, CallStep, Types DEF ReceiptsInv, receipts, Acting
<1>6. QED
  BY <1>3, <1>4, <1>5

\* The lease is granted, or held by another.
LEMMA AcquireStep ==
  ASSUME ReceiptsInv, NEW c \in Call, AcquireHold(c)
  PROVE  ReceiptsInv'
<1> DEFINE m == [typed[c] EXCEPT !.pc = "read"]
<1>1. typed[c] \in Local /\ typed[c].pc = "acquire" /\ Stands(typed[c])
  BY Types DEF ReceiptsInv, AcquireHold
<1>2. UNCHANGED <<kind, catalog, prepared, final, applied, drifted>>
  BY DEF AcquireHold
<1>3. \/ Grant(c) /\ acquired' = acquired \cup {typed[c].op} /\ typed' = [typed EXCEPT ![c] = m]
      \/ typed' = [typed EXCEPT ![c] = Ended(@, "REFUSED")] /\ UNCHANGED <<hold, acquired>>
  BY Zenon DEF AcquireHold
<1>4. CASE typed' = [typed EXCEPT ![c] = Ended(@, "REFUSED")] /\ UNCHANGED <<hold, acquired>>
  BY <1>2, <1>4, CallEnds DEF receipts
<1>5. CASE Grant(c) /\ acquired' = acquired \cup {typed[c].op} /\ typed' = [typed EXCEPT ![c] = m]
  <2>1. /\ m \in Local /\ m.pc = "read" /\ m.op = typed[c].op /\ m.answer = typed[c].answer
        /\ m.request = typed[c].request
    BY <1>1, AtStage
  <2>2. typed' = [typed EXCEPT ![c] = m]
    BY <1>5
  <2> HIDE DEF m
  <2>3. Stands(m)
    BY <1>1, <2>1 DEF Stands, Acting
  <2>4. acquired' \subseteq Operation
    BY <1>1, <1>5, Types DEF ReceiptsInv, Stands
  <2>5. hold' \in Lease
    BY <1>5, HoldKept, Types DEF ReceiptsInv
  <2>6. catalog' \in CatalogStates /\ drifted' \in BOOLEAN
    BY <1>2, Types DEF ReceiptsInv
  <2>7. QED
    BY <1>2, <2>1, <2>2, <2>3, <2>4, <2>5, <2>6, CallStep DEF Acting
<1>6. QED
  BY <1>3, <1>4, <1>5

\* The state before, one the operation accepts, is read under the lease.
LEMMA ReadBeforeStep ==
  ASSUME ReceiptsInv, NEW c \in Call, ReadBefore(c)
  PROVE  ReceiptsInv'
<1> DEFINE m == [typed[c] EXCEPT !.pc = "prepare", !.before = catalog]
<1>1. typed[c] \in Local /\ typed[c].pc = "read" /\ Stands(typed[c]) /\ catalog \in CatalogStates
  BY Types DEF ReceiptsInv, ReadBefore
<1>2. \/ UNCHANGED <<hold, kind, catalog, receipts, applied, drifted>> /\ typed' = [typed EXCEPT ![c] = m]
      \/ Raises(c, "REFUSED")
  BY Zenon DEF ReadBefore
<1>3. CASE UNCHANGED <<hold, kind, catalog, receipts, applied, drifted>> /\ typed' = [typed EXCEPT ![c] = m]
  <2>1. \A l \in Local, b \in Befores :
          LET n == [l EXCEPT !.pc = "prepare", !.before = b] IN
          /\ n \in Local /\ n.pc = "prepare" /\ n.before = b /\ n.op = l.op
          /\ n.request = l.request /\ n.answer = l.answer
    <3>1. "prepare" \in Stage
      BY DEF Stage
    <3>2. QED
      BY <3>1 DEF Local
  <2>2. /\ m \in Local /\ m.pc = "prepare" /\ m.before = catalog /\ m.op = typed[c].op
        /\ m.request = typed[c].request /\ m.answer = typed[c].answer
    <3>1. catalog \in Befores
      BY <1>1 DEF Befores
    <3>2. QED
      BY <1>1, <2>1, <3>1
  <2>3. typed' = [typed EXCEPT ![c] = m]
    BY <1>3
  <2> HIDE DEF m
  <2>4. Stands(m)
    BY <1>1, <2>2, Readings DEF Stands, Acting
  <2>5. QED
    BY <1>3, <2>2, <2>3, <2>4, CallStep, Types DEF ReceiptsInv, receipts, Acting
<1>4. QED
  BY <1>2, <1>3, CallRaises

\* The call is dispatched: psql runs or the exact state is left alone.
LEMMA DispatchStep ==
  ASSUME ReceiptsInv, NEW c \in Call, Dispatch(c)
  PROVE  ReceiptsInv'
<1> DEFINE Next(p, s) == [typed[c] EXCEPT !.pc = p, !.status = s]
<1>1. typed[c] \in Local /\ typed[c].pc = "dispatch" /\ Stands(typed[c])
  BY Types DEF ReceiptsInv, Dispatch
<1>2. \/ /\ UNCHANGED <<hold, kind, catalog, receipts, applied, drifted>>
         /\ \/ typed' = [typed EXCEPT ![c] = Next("readback", "NOOP_EXACT")]
            \/ typed' = [typed EXCEPT ![c] = Next("psql", "APPLIED")]
            \/ kind = "PRINCIPAL" /\ typed' = [typed EXCEPT ![c] = Next("psql", "NOOP_EXACT")]
      \/ Raises(c, "REFUSED")
  BY Zenon DEF Dispatch
<1>3. ASSUME NEW p \in {"readback", "psql"}, NEW s \in {"NOOP_EXACT", "APPLIED"},
             p = "readback" => s = "NOOP_EXACT", p = "psql" => s = "APPLIED" \/ kind = "PRINCIPAL",
             UNCHANGED <<hold, kind, catalog, receipts, applied, drifted>>,
             typed' = [typed EXCEPT ![c] = Next(p, s)]
      PROVE  ReceiptsInv'
  <2> DEFINE m == Next(p, s)
  <2>1. ASSUME NEW l \in Local
        PROVE  LET n == [l EXCEPT !.pc = p, !.status = s] IN
               /\ n \in Local /\ n.pc = p /\ n.status = s /\ n.op = l.op
               /\ n.request = l.request /\ n.answer = l.answer
    <3>1. p \in Stage /\ s \in Statuses
      BY DEF Stage, Statuses
    <3>2. QED
      BY <3>1 DEF Local
  <2>2. /\ m \in Local /\ m.pc = p /\ m.status = s /\ m.op = typed[c].op
        /\ m.request = typed[c].request /\ m.answer = typed[c].answer
    BY <1>1, <2>1
  <2>3. typed' = [typed EXCEPT ![c] = m]
    BY <1>3
  <2> HIDE DEF m
  <2>4. Stands(m)
    BY <1>1, <1>3, <2>2 DEF Stands, Acting
  <2>5. Acts(c)
    BY <1>1 DEF Acts, Acting
  <2>6. QED
    BY <1>3, <2>2, <2>3, <2>4, <2>5, CallStep, Types DEF ReceiptsInv, receipts
<1> HIDE DEF Next
<1>4. QED
  BY <1>2, <1>3, CallRaises

\* psql is not started once the lease is lost.
LEMMA WorkerLosesLeaseStep ==
  ASSUME ReceiptsInv, NEW c \in Call, WorkerLosesLease(c)
  PROVE  ReceiptsInv'
BY CallRaises DEF WorkerLosesLease

\* The state after is read under the lease.
LEMMA ReadAfterStep ==
  ASSUME ReceiptsInv, NEW c \in Call, ReadAfter(c)
  PROVE  ReceiptsInv'
<1> DEFINE m == [typed[c] EXCEPT !.pc = "final", !.after = ReadBack(catalog)]
<1>1. typed[c] \in Local /\ typed[c].pc = "readback" /\ Stands(typed[c]) /\ catalog \in CatalogStates
  BY Types DEF ReceiptsInv, ReadAfter
<1>2. \/ UNCHANGED <<hold, kind, catalog, receipts, applied, drifted>> /\ typed' = [typed EXCEPT ![c] = m]
      \/ Raises(c, "REFUSED")
  BY Zenon DEF ReadAfter
<1>3. CASE UNCHANGED <<hold, kind, catalog, receipts, applied, drifted>> /\ typed' = [typed EXCEPT ![c] = m]
  <2>1. ASSUME NEW l \in Local, NEW a \in Afters
        PROVE  LET n == [l EXCEPT !.pc = "final", !.after = a] IN
               /\ n \in Local /\ n.pc = "final" /\ n.op = l.op /\ n.answer = l.answer
               /\ n.status = l.status /\ n.exit = l.exit /\ n.request = l.request
    <3>1. "final" \in Stage
      BY DEF Stage
    <3>2. QED
      BY <3>1 DEF Local
  <2>2. /\ m \in Local /\ m.pc = "final" /\ m.op = typed[c].op /\ m.answer = typed[c].answer
        /\ m.status = typed[c].status /\ m.exit = typed[c].exit
        /\ m.request = typed[c].request
    <3>1. ReadBack(catalog) \in Afters
      BY <1>1, Readings DEF Afters
    <3>2. QED
      BY <1>1, <2>1, <3>1
  <2>3. typed' = [typed EXCEPT ![c] = m]
    BY <1>3
  <2> HIDE DEF m
  <2>4. Stands(m)
    BY <1>1, <2>2 DEF Stands, Acting
  <2>5. Acts(c)
    BY <1>1 DEF Acts, Acting
  <2>6. QED
    BY <1>3, <2>2, <2>3, <2>4, <2>5, CallStep, Types DEF ReceiptsInv, receipts
<1>4. QED
  BY <1>2, <1>3, CallRaises

\* Success is answered while the lease is held, and FINAL is written by then.
LEMMA ReturnStep ==
  ASSUME ReceiptsInv, NEW c \in Call, Return(c)
  PROVE  ReceiptsInv'
<1>1. typed[c] \in Local /\ typed[c].pc = "release" /\ Stands(typed[c])
  BY Types DEF ReceiptsInv, Return
<1>2. UNCHANGED <<kind, catalog, receipts, applied, drifted>>
  BY DEF Return
<1>3. \E a \in {"PASS", "REFUSED"} : Ends(c, a)
  BY Zenon DEF Return
<1>4. CASE Ends(c, "REFUSED")
  BY <1>2, <1>4, CallEnds DEF Ends
<1>5. CASE Ends(c, "PASS")
  <2> DEFINE m == Ended(typed[c], "PASS")
  <2>1. /\ m \in Local /\ m.pc = "done" /\ m.op = typed[c].op /\ m.request = typed[c].request
    BY <1>1, EndedState DEF Answers
  <2>2. typed' = [typed EXCEPT ![c] = m]
    BY <1>5, Zenon DEF Ends
  <2> HIDE DEF m
  <2>3. Stands(m)
    BY <1>1, <2>1 DEF Stands, Acting
  <2>4. m.pc \notin Acting
    BY <2>1 DEF Acting
  <2>5. hold' \in Lease
    BY <1>5, HoldKept, Types DEF ReceiptsInv, Ends
  <2>6. UNCHANGED <<kind, prepared, final, applied>> /\ UNCHANGED <<catalog, acquired, drifted>>
    BY <1>2 DEF receipts
  <2>7. QED
    BY <2>1, <2>2, <2>3, <2>4, <2>5, <2>6, CallStep, Types DEF ReceiptsInv
<1>6. QED
  BY <1>3, <1>4, <1>5

\* A psql whose caller died goes on; any other call is over.
LEMMA CrashStep ==
  ASSUME ReceiptsInv, NEW c \in Call, Crash(c)
  PROVE  ReceiptsInv'
<1> DEFINE m == [typed[c] EXCEPT !.pc = "orphan"]
<1>1. typed[c] \in Local /\ Stands(typed[c])
  BY Types DEF ReceiptsInv
<1>2. UNCHANGED <<hold, kind, catalog, receipts, applied, drifted>>
  BY DEF Crash
<1>3. \/ typed[c].pc = "psql" /\ typed' = [typed EXCEPT ![c] = m]
      \/ typed' = [typed EXCEPT ![c] = Ended(@, "NONE")]
  BY Zenon DEF Crash
<1>4. CASE typed' = [typed EXCEPT ![c] = Ended(@, "NONE")]
  BY <1>2, <1>4, CallEnds
<1>5. CASE typed[c].pc = "psql" /\ typed' = [typed EXCEPT ![c] = m]
  <2>1. /\ m \in Local /\ m.pc = "orphan" /\ m.op = typed[c].op /\ m.answer = typed[c].answer
        /\ m.status = typed[c].status /\ m.request = typed[c].request
    BY <1>1, AtStage
  <2>2. typed' = [typed EXCEPT ![c] = m]
    BY <1>5
  <2> HIDE DEF m
  <2>3. Stands(m)
    BY <1>1, <1>5, <2>1 DEF Stands, Acting
  <2>4. Acts(c)
    BY <1>5 DEF Acts, Acting
  <2>5. QED
    BY <1>2, <2>1, <2>2, <2>3, <2>4, CallStep, Types DEF ReceiptsInv, receipts
<1>6. QED
  BY <1>3, <1>4, <1>5

\* The lease and the catalog are no part of what the receipts tell.
LEMMA OutsideStep ==
  ASSUME ReceiptsInv, ExpireHold \/ Drift
  PROVE  ReceiptsInv'
<1>1. UNCHANGED <<kind, receipts, applied, typed>>
  BY DEF ExpireHold, Drift
<1>2. hold' \in Lease
      /\ catalog' \in CatalogStates /\ drifted' \in BOOLEAN
  <2>1. CASE ExpireHold
    BY <2>1, ExpiredKept, Types DEF ReceiptsInv, ExpireHold
  <2>2. CASE Drift
    BY <2>2, Types DEF ReceiptsInv, Drift
  <2>3. QED
    BY <2>1, <2>2
<1>3. ReceiptsTypeOK'
  BY <1>1, <1>2 DEF ReceiptsInv, ReceiptsTypeOK, Lease, receipts
<1>4. QED
  BY <1>1, <1>3 DEF ReceiptsInv, Sole, Acts, Tells, Stands, receipts

-----------------------------------------------------------------------------
(* The steps that write a receipt or have an effect. *)

(* A step of call c to local state m after which every operation id and     *)
(* every other call is as the invariant says: c alone may act on its id.    *)
LEMMA TableStep ==
  ASSUME ReceiptsInv, NEW c \in Call, NEW m \in Local, typed' = [typed EXCEPT ![c] = m],
         UNCHANGED <<kind, acquired, drifted>>, hold' \in Lease, catalog' \in CatalogStates,
         prepared' \in [Operation -> Receipt], final' \in [Operation -> Receipt],
         applied' \in [Operation -> Nat],
         \A o \in Operation : Tells(o)',
         \A d \in Call \ {c} : Stands(typed[d])',
         Stands(typed[c])',
         m.pc \in Acting => \A d \in Call \ {c} : Acts(d) => typed[d].op # m.op
  PROVE  ReceiptsInv'
<1>1. typed' \in [Call -> Local] /\ \A d \in Call : typed'[d] = IF d = c THEN m ELSE typed[d]
  BY Types DEF ReceiptsInv
<1>2. ReceiptsTypeOK'
  BY <1>1, Types DEF ReceiptsInv, ReceiptsTypeOK, Lease, Receipt, Local, Stage, Operations, Requests,
                     Befores, Afters, Statuses, Answers
<1>3. Sole'
  BY <1>1 DEF ReceiptsInv, Sole, Acts
<1>4. QED
  BY <1>2, <1>3 DEF ReceiptsInv

\* The receipts a call writes: PREPARED for its request, FINAL with what psql did.
PreparedRow(c) ==
  [Unwritten EXCEPT !.request = typed[c].request, !.token = hold.token,
                    !.before = Fingerprint(typed[c].before)]
FinalRow(c) ==
  [prepared[typed[c].op] EXCEPT !.after = typed[c].after, !.status = typed[c].status]

Good(c) == typed[c].exit = 0 /\ Postcondition(typed[c].after)

LEMMA PreparedRowWritten ==
  ASSUME ReceiptsInv, NEW c \in Call, typed[c].pc = "prepare"
  PROVE  /\ PreparedRow(c) \in Receipt /\ PreparedRow(c) # Unwritten
         /\ PreparedRow(c).request = typed[c].request
<1>1. typed[c] \in Local /\ Stands(typed[c]) /\ hold \in Lease
  BY Types DEF ReceiptsInv
<1> DEFINE Row(r, t, b) == [Unwritten EXCEPT !.request = r, !.token = t, !.before = b]
<1>2. ASSUME NEW r \in Requests, NEW t \in Nat, NEW b \in CatalogStates \cup {"none", "exists"}
      PROVE  Row(r, t, b) \in Receipt /\ Row(r, t, b).request = r /\ Row(r, t, b).before = b
  BY Readings DEF Receipt
<1>3. typed[c].request \in Requests /\ hold.token \in Nat /\ typed[c].before \in CatalogStates
  BY <1>1 DEF Local, Lease, Stands, Befores
<1>4. /\ Fingerprint(typed[c].before) \in CatalogStates \cup {"none", "exists"}
      /\ Fingerprint(typed[c].before) # "none"
  BY <1>3, Readings
<1>5. PreparedRow(c) = Row(typed[c].request, hold.token, Fingerprint(typed[c].before))
  BY DEF PreparedRow
<1> HIDE DEF Row
<1>6. /\ PreparedRow(c) \in Receipt /\ PreparedRow(c).request = typed[c].request
      /\ PreparedRow(c).before # "none"
  BY <1>2, <1>3, <1>4, <1>5
<1>7. QED
  BY <1>6 DEF Unwritten

LEMMA FinalRowWritten ==
  ASSUME ReceiptsInv, NEW c \in Call, typed[c].pc = "final"
  PROVE  /\ FinalRow(c) \in Receipt /\ FinalRow(c).request = prepared[typed[c].op].request
         /\ FinalRow(c).after = typed[c].after /\ FinalRow(c).status = typed[c].status
         /\ Good(c) => FinalRow(c) # Unwritten
<1>1. typed[c] \in Local /\ typed[c].op \in Operation /\ prepared[typed[c].op] \in Receipt
  BY Types DEF ReceiptsInv, Stands
<1>2. typed[c].after \in Afters /\ typed[c].status \in Statuses
  BY <1>1 DEF Local
<1>3. ASSUME NEW r \in Receipt
      PROVE  LET w == [r EXCEPT !.after = typed[c].after, !.status = typed[c].status] IN
             /\ w \in Receipt /\ w.request = r.request
             /\ w.after = typed[c].after /\ w.status = typed[c].status
  BY <1>2 DEF Receipt
<1>4. /\ FinalRow(c) \in Receipt /\ FinalRow(c).request = prepared[typed[c].op].request
      /\ FinalRow(c).after = typed[c].after /\ FinalRow(c).status = typed[c].status
  BY <1>1, <1>3 DEF FinalRow
<1>5. Good(c) => typed[c].after # "none"
  BY DEF Good, Postcondition
<1>6. QED
  BY <1>4, <1>5 DEF Unwritten

\* PREPARED is the first receipt of its operation id, so no other call acts on the id.
LEMMA PersistPreparedStep ==
  ASSUME ReceiptsInv, NEW c \in Call, PersistPrepared(c)
  PROVE  ReceiptsInv'
<1> DEFINE o == typed[c].op
           row == PreparedRow(c)
           m == [typed[c] EXCEPT !.pc = "dispatch"]
           e == Ended(typed[c], "REFUSED")
<1>1. /\ typed[c] \in Local /\ typed[c].pc = "prepare" /\ Stands(typed[c]) /\ o \in Operation
      /\ typed[c].request \in Request /\ typed[c].answer = "NONE" /\ hold \in Lease
  BY Types DEF ReceiptsInv, PersistPrepared, Stands
<1>2. \/ /\ prepared[o] = Unwritten /\ prepared' = [prepared EXCEPT ![o] = row]
         /\ \/ typed' = [typed EXCEPT ![c] = m] /\ hold' = hold
            \/ typed' = [typed EXCEPT ![c] = e] /\ hold' = Left(c)
         /\ UNCHANGED <<kind, catalog, final, acquired, applied, drifted>>
      \/ Raises(c, "REFUSED")
  BY Zenon DEF PersistPrepared, PreparedRow, Appends, Ends
<1>3. row \in Receipt /\ row # Unwritten /\ row.request = typed[c].request
  BY <1>1, PreparedRowWritten
<1>4. ASSUME NEW n \in Local, n.op = o, n.request = typed[c].request,
             n.answer \in {"NONE", "REFUSED"}, n.pc \in {"dispatch", "done"},
             n.pc = "dispatch" => n.answer = "NONE",
             typed' = [typed EXCEPT ![c] = n], hold' \in Lease,
             prepared[o] = Unwritten, prepared' = [prepared EXCEPT ![o] = row],
             UNCHANGED <<kind, catalog, final, acquired, applied, drifted>>
      PROVE  ReceiptsInv'
  <2> HIDE DEF row, o
  <2>1. /\ prepared' \in [Operation -> Receipt]
        /\ \A q \in Operation : prepared'[q] = IF q = o THEN row ELSE prepared[q]
    BY <1>1, <1>3, <1>4, Types DEF ReceiptsInv
  <2>2. \A d \in Call : typed'[d] = IF d = c THEN n ELSE typed[d]
    BY <1>4, Types DEF ReceiptsInv
  <2>3. applied[o] = 0 /\ final[o] = Unwritten
    BY <1>1, <1>4 DEF ReceiptsInv, Tells
  <2>4. \A q \in Operation : Tells(q)'
    <3>1. Unwritten.status = "PENDING"
      BY DEF Unwritten
    <3>2. QED
      BY <1>1, <1>3, <1>4, <2>1, <2>3, <3>1 DEF ReceiptsInv, Tells
  <2>5. \A d \in Call \ {c} : Stands(typed[d])'
    BY <1>3, <1>4, <2>1, <2>2 DEF ReceiptsInv, Stands, Acting
  <2>6. Stands(typed[c])'
    BY <1>1, <1>3, <1>4, <2>1, <2>2, <2>3 DEF Stands, Acting
  <2>7. \A d \in Call : Acts(d) => typed[d].op # o
    BY <1>4 DEF ReceiptsInv, Stands, Acts
  <2>8. final' \in [Operation -> Receipt] /\ applied' \in [Operation -> Nat] /\ catalog' \in CatalogStates
    BY <1>4, Types DEF ReceiptsInv
  <2>9. QED
    BY <1>4, <2>1, <2>4, <2>5, <2>6, <2>7, <2>8, TableStep
<1>5. /\ m \in Local /\ m.pc = "dispatch" /\ m.op = o /\ m.answer = "NONE"
      /\ m.request = typed[c].request
  BY <1>1, AtStage
<1>6. /\ e \in Local /\ e.pc = "done" /\ e.op = o /\ e.answer = "REFUSED"
      /\ e.request = typed[c].request
  BY <1>1, EndedState DEF Answers
<1>7. Left(c) \in Lease
  BY <1>1, HoldKept
<1> HIDE DEF m, e, row, o
<1>8. QED
  BY <1>1, <1>2, <1>4, <1>5, <1>6, <1>7, CallRaises

\* psql ends, for a caller that waits for it or for one that died.
LEMMA RunStep ==
  ASSUME ReceiptsInv, NEW c \in Call, typed[c].pc \in {"psql", "orphan"},
         NEW ended \in Local, NEW failed \in Local, RunPsql(c, ended, failed),
         UNCHANGED <<hold, kind, receipts, drifted>>,
         ended.pc \in {"readback", "done"}, failed.pc \in {"readback", "done"},
         ended.op = typed[c].op, failed.op = typed[c].op,
         ended.request = typed[c].request, failed.request = typed[c].request,
         ended.answer = "NONE", failed.answer = "NONE",
         ended.pc = "readback" => ended.status = typed[c].status,
         failed.pc = "readback" => failed.status = typed[c].status /\ failed.exit = 1
  PROVE  ReceiptsInv'
<1> DEFINE o == typed[c].op
<1>1. /\ typed[c] \in Local /\ Stands(typed[c]) /\ Acts(c) /\ o \in Operation
      /\ prepared[o] # Unwritten /\ final[o] = Unwritten /\ applied[o] = 0
      /\ typed[c].status = "APPLIED" \/ (typed[c].status = "NOOP_EXACT" /\ kind = "PRINCIPAL")
  BY Types DEF ReceiptsInv, Stands, Acts, Acting
<1>2. \/ /\ catalog' = "desired" /\ applied' = [applied EXCEPT ![o] = @ + 1]
         /\ typed' = [typed EXCEPT ![c] = ended]
      \/ /\ catalog' = catalog \/ catalog' = "partial"
         /\ typed' = [typed EXCEPT ![c] = failed] /\ applied' = applied
  BY Zenon DEF RunPsql
<1>3. UNCHANGED <<kind, prepared, final, acquired, drifted>> /\ hold' = hold
  BY DEF receipts
<1> HIDE DEF o
<1>4. /\ catalog' \in CatalogStates /\ hold' \in Lease
      /\ prepared' \in [Operation -> Receipt] /\ final' \in [Operation -> Receipt]
  BY <1>2, <1>3, Types DEF ReceiptsInv, CatalogStates
<1>5. ASSUME NEW n \in Local, NEW k \in Nat, (k = 1 /\ n = ended) \/ (k = 0 /\ n = failed),
             typed' = [typed EXCEPT ![c] = n], applied' = [applied EXCEPT ![o] = k]
      PROVE  ReceiptsInv'
  <2>1. /\ applied' \in [Operation -> Nat]
        /\ \A q \in Operation : applied'[q] = IF q = o THEN k ELSE applied[q]
    BY <1>1, <1>5, Types DEF ReceiptsInv
  <2>2. n \in Local /\ n.op = o /\ \A d \in Call : typed'[d] = IF d = c THEN n ELSE typed[d]
    BY <1>5, Types DEF ReceiptsInv, o
  <2>3. Unwritten.status = "PENDING"
    BY DEF Unwritten
  <2>4. \A q \in Operation : Tells(q)'
    BY <1>1, <1>3, <1>5, <2>1, <2>3 DEF ReceiptsInv, Tells
  <2>5. \A d \in Call \ {c} : Acts(d) => typed[d].op # o
    BY <1>1 DEF ReceiptsInv, Sole, o
  <2>6. \A d \in Call \ {c} : Stands(typed[d])'
    <3>1. TAKE d \in Call \ {c}
    <3>2. typed'[d] = typed[d] /\ Stands(typed[d])
      BY <2>2 DEF ReceiptsInv
    <3>3. CASE Acts(d)
      <4>1. typed[d].op \in Operation /\ typed[d].op # o
        BY <2>5, <3>2, <3>3 DEF Stands, Acts, Acting
      <4>2. applied'[typed[d].op] = applied[typed[d].op]
        BY <2>1, <4>1
      <4>3. QED
        BY <1>3, <3>2, <4>2 DEF Stands
    <3>4. CASE ~Acts(d)
      BY <1>3, <3>2, <3>4 DEF Stands, Acts, Acting
    <3>5. QED
      BY <3>3, <3>4
  <2>7. Stands(typed[c])'
    BY <1>1, <1>3, <1>5, <2>1, <2>2 DEF Stands, Acting, o
  <2>8. QED
    BY <1>3, <1>4, <1>5, <2>1, <2>2, <2>4, <2>5, <2>6, <2>7, TableStep
<1>6. CASE catalog' = "desired" /\ applied' = [applied EXCEPT ![o] = @ + 1] /\ typed' = [typed EXCEPT ![c] = ended]
  <2>1. applied' = [applied EXCEPT ![o] = 1]
    BY <1>1, <1>6
  <2>2. QED
    BY <1>5, <1>6, <2>1, Zenon
<1>7. CASE typed' = [typed EXCEPT ![c] = failed] /\ applied' = applied
  <2>1. applied' = [applied EXCEPT ![o] = 0]
    BY <1>1, <1>7, Types DEF ReceiptsInv
  <2>2. QED
    BY <1>5, <1>7, <2>1, Zenon
<1>8. QED
  BY <1>2, <1>6, <1>7

\* psql ends while its caller waits.
LEMMA PsqlStep ==
  ASSUME ReceiptsInv, NEW c \in Call, Psql(c)
  PROVE  ReceiptsInv'
<1> DEFINE ended == [typed[c] EXCEPT !.pc = "readback", !.exit = 0]
           failed == [typed[c] EXCEPT !.pc = "readback", !.exit = 1]
<1>1. typed[c] \in Local /\ typed[c].pc = "psql" /\ typed[c].answer = "NONE"
  BY Types DEF ReceiptsInv, Psql, Stands
<1>2. ASSUME NEW l \in Local, NEW x \in {0, 1}
      PROVE  LET n == [l EXCEPT !.pc = "readback", !.exit = x] IN
             /\ n \in Local /\ n.pc = "readback" /\ n.exit = x /\ n.op = l.op
             /\ n.request = l.request /\ n.answer = l.answer /\ n.status = l.status
  <2>1. "readback" \in Stage
    BY DEF Stage
  <2>2. QED
    BY <2>1 DEF Local
<1>3. /\ ended \in Local /\ ended.pc = "readback" /\ ended.op = typed[c].op
      /\ ended.request = typed[c].request /\ ended.answer = "NONE" /\ ended.status = typed[c].status
  BY <1>1, <1>2
<1>4. /\ failed \in Local /\ failed.pc = "readback" /\ failed.op = typed[c].op
      /\ failed.request = typed[c].request /\ failed.answer = "NONE" /\ failed.status = typed[c].status /\ failed.exit = 1
  BY <1>1, <1>2
<1>5. RunPsql(c, ended, failed) /\ UNCHANGED <<hold, kind, receipts, drifted>>
  BY Zenon DEF Psql
<1> HIDE DEF ended, failed
<1>6. QED
  BY <1>1, <1>3, <1>4, <1>5, RunStep

\* psql ends after its caller died.
LEMMA OrphanStep ==
  ASSUME ReceiptsInv, NEW c \in Call, OrphanEnds(c)
  PROVE  ReceiptsInv'
<1> DEFINE m == Ended(typed[c], "NONE")
<1>1. typed[c] \in Local /\ typed[c].pc = "orphan"
  BY Types DEF ReceiptsInv, OrphanEnds
<1>2. /\ m \in Local /\ m.pc = "done" /\ m.op = typed[c].op /\ m.request = typed[c].request
      /\ m.answer = "NONE"
  BY <1>1, EndedState DEF Answers
<1>3. RunPsql(c, m, m) /\ UNCHANGED <<hold, kind, receipts, drifted>>
  BY Zenon DEF OrphanEnds
<1> HIDE DEF m
<1>4. QED
  BY <1>1, <1>2, <1>3, RunStep

\* FINAL repeats PREPARED and says what psql did.
LEMMA PersistFinalStep ==
  ASSUME ReceiptsInv, NEW c \in Call, PersistFinal(c)
  PROVE  ReceiptsInv'
<1> DEFINE o == typed[c].op
           row == FinalRow(c)
           m == [typed[c] EXCEPT !.pc = "release"]
           e == Ended(typed[c], "RECONCILE")
           good == Good(c)
<1>1. /\ typed[c] \in Local /\ typed[c].pc = "final" /\ Stands(typed[c]) /\ o \in Operation
      /\ typed[c].answer = "NONE" /\ hold \in Lease /\ prepared[o] \in Receipt
  BY Types DEF ReceiptsInv, PersistFinal, Stands
<1>2. \/ /\ good /\ final[o] = Unwritten /\ prepared[o].request = typed[c].request
         /\ final' = [final EXCEPT ![o] = row]
         /\ \/ typed' = [typed EXCEPT ![c] = m] /\ hold' = hold
            \/ typed' = [typed EXCEPT ![c] = e] /\ hold' = Left(c)
         /\ UNCHANGED <<kind, catalog, prepared, acquired, applied, drifted>>
      \/ \E a \in {"REFUSED", "RECONCILE"} : Raises(c, a)
  BY Zenon DEF PersistFinal, FinalRow, Good, Appends, Ends, BoundToPrepared
<1>3. /\ row \in Receipt /\ row.request = prepared[o].request
      /\ row.after = typed[c].after /\ row.status = typed[c].status
      /\ good => row # Unwritten
  BY <1>1, FinalRowWritten
<1>4. ASSUME NEW n \in Local, n.op = o, n.request = typed[c].request,
             (n.pc = "release" /\ n.answer = "NONE") \/ (n.pc = "done" /\ n.answer = "RECONCILE"),
             typed' = [typed EXCEPT ![c] = n], hold' \in Lease,
             good, final[o] = Unwritten, prepared[o].request = typed[c].request,
             final' = [final EXCEPT ![o] = row],
             UNCHANGED <<kind, catalog, prepared, acquired, applied, drifted>>
      PROVE  ReceiptsInv'
  <2>1. /\ typed[c].status \in {"APPLIED", "NOOP_EXACT"}
        /\ typed[c].status = "APPLIED" => applied[o] = 1
        /\ typed[c].status = "NOOP_EXACT" /\ kind # "PRINCIPAL" => applied[o] = 0
    BY <1>1, <1>4 DEF Stands, Good
  <2>2. prepared[o] # Unwritten
    BY <1>1 DEF Stands, Acting
  <2> HIDE DEF row, good, o
  <2>3. /\ final' \in [Operation -> Receipt]
        /\ \A q \in Operation : final'[q] = IF q = o THEN row ELSE final[q]
    BY <1>1, <1>3, <1>4, Types DEF ReceiptsInv
  <2>4. \A d \in Call : typed'[d] = IF d = c THEN n ELSE typed[d]
    BY <1>4, Types DEF ReceiptsInv
  <2>5. \A q \in Operation : Tells(q)'
    BY <1>1, <1>3, <1>4, <2>1, <2>2, <2>3 DEF ReceiptsInv, Tells
  <2>6. \A d \in Call \ {c} : Acts(d) => typed[d].op # o
    BY <1>1 DEF ReceiptsInv, Sole, Acts, Acting, o
  <2>7. \A d \in Call \ {c} : Stands(typed[d])'
    <3>1. TAKE d \in Call \ {c}
    <3>2. typed'[d] = typed[d] /\ Stands(typed[d])
      BY <2>4 DEF ReceiptsInv
    <3>3. CASE Acts(d) /\ typed[d].pc # "release"
      <4>1. typed[d].op \in Operation /\ typed[d].op # o
        BY <2>6, <3>2, <3>3 DEF Stands, Acts, Acting
      <4>2. final'[typed[d].op] = final[typed[d].op]
        BY <2>3, <4>1
      <4>3. QED
        BY <1>4, <3>2, <4>2 DEF Stands
    <3>4. CASE ~Acts(d) \/ typed[d].pc = "release"
      <4>1. typed[d].pc = "release" \/ typed[d].answer = "PASS"
              => typed[d].op \in Operation /\ typed[d].op # o
        BY <1>4, <3>2 DEF Stands
      <4>2. typed[d].pc = "release" \/ typed[d].answer = "PASS"
              => final'[typed[d].op] = final[typed[d].op]
        BY <2>3, <4>1
      <4>3. QED
        BY <1>4, <3>2, <3>4, <4>2 DEF Stands, Acts, Acting
    <3>5. QED
      BY <3>3, <3>4
  <2>8. Stands(typed[c])'
    BY <1>1, <1>3, <1>4, <2>2, <2>3, <2>4 DEF Stands, Acting
  <2>9. prepared' \in [Operation -> Receipt] /\ applied' \in [Operation -> Nat] /\ catalog' \in CatalogStates
    BY <1>4, Types DEF ReceiptsInv
  <2>10. QED
    BY <1>4, <2>3, <2>5, <2>6, <2>7, <2>8, <2>9, TableStep
<1>5. m \in Local /\ m.pc = "release" /\ m.op = o /\ m.request = typed[c].request /\ m.answer = "NONE"
  BY <1>1, AtStage
<1>6. e \in Local /\ e.pc = "done" /\ e.op = o /\ e.request = typed[c].request /\ e.answer = "RECONCILE"
  BY <1>1, EndedState DEF Answers
<1>7. Left(c) \in Lease
  BY <1>1, HoldKept
<1> HIDE DEF m, e, row, o, good
<1>8. CASE \E a \in {"REFUSED", "RECONCILE"} : Raises(c, a)
  BY <1>8, CallRaises
<1>9. CASE /\ good /\ final[o] = Unwritten /\ prepared[o].request = typed[c].request
            /\ final' = [final EXCEPT ![o] = row]
            /\ \/ typed' = [typed EXCEPT ![c] = m] /\ hold' = hold
               \/ typed' = [typed EXCEPT ![c] = e] /\ hold' = Left(c)
            /\ UNCHANGED <<kind, catalog, prepared, acquired, applied, drifted>>
  <2>1. CASE typed' = [typed EXCEPT ![c] = m] /\ hold' = hold
    <3>1. hold' \in Lease
      BY <1>1, <2>1
    <3>2. QED
      BY <1>4, <1>5, <1>9, <2>1, <3>1, Zenon
  <2>2. CASE typed' = [typed EXCEPT ![c] = e] /\ hold' = Left(c)
    <3>1. hold' \in Lease
      BY <1>7, <2>2
    <3>2. QED
      BY <1>4, <1>6, <1>9, <2>2, <3>1, Zenon
  <2>3. QED
    BY <1>9, <2>1, <2>2
<1>10. QED
  BY <1>2, <1>8, <1>9

-----------------------------------------------------------------------------
(* The theorems. *)

\* No call has begun and nothing is written.
LEMMA ReceiptsInitially == ReceiptsInit => ReceiptsInv
<1> SUFFICES ASSUME ReceiptsInit PROVE ReceiptsInv
  OBVIOUS
<1>1. kind \in Kinds /\ catalog \in CatalogStates
  <2>1. DOMAIN Profile = {"SQL_FILE", "OWNER", "PASSWORD", "LOGIN", "PRINCIPAL", "WORKER"}
    BY DEF Profile
  <2>2. /\ SqlFile.accepts = {"initial", "desired"} /\ Owner.accepts = {"initial", "desired"}
        /\ Password.accepts = {"initial", "desired"} /\ WorkerPassword.accepts = {"initial", "desired"}
        /\ Principal.accepts = {"initial", "partial", "desired"}
        /\ WorkerPrincipal.accepts = {"initial", "partial", "desired"}
    BY DEF SqlFile, Owner, Password, WorkerPassword, Principal, WorkerPrincipal
  <2>3. \A k \in DOMAIN Profile : Profile[k].accepts \subseteq {"initial", "partial", "desired"}
    BY <2>1, <2>2 DEF Profile
  <2>4. kind \in Kinds /\ kind \in DOMAIN Profile /\ catalog \in Profile[kind].accepts
    BY KindsAssumption DEF ReceiptsInit
  <2>5. catalog \in {"initial", "partial", "desired"}
    BY <2>3, <2>4
  <2>6. QED
    BY <2>4, <2>5 DEF CatalogStates
<1>2. hold \in Lease
  BY DEF ReceiptsInit, HoldInit, Lease
<1>3. Idle \in Local /\ Idle.pc = "idle" /\ Idle.answer = "NONE"
  BY DEF Idle, Local, Stage, Operations, Requests, Befores, Afters, Statuses, Answers
<1>4. ReceiptsTypeOK
  BY <1>1, <1>2, <1>3, Types, Readings DEF ReceiptsInit
<1>5. \A o \in Operation : Tells(o)
  <2>1. Unwritten.status = "PENDING"
    BY DEF Unwritten
  <2>2. QED
    BY <2>1 DEF ReceiptsInit, Tells
<1>6. \A c \in Call : Stands(typed[c])
  BY <1>3 DEF ReceiptsInit, Stands, Acting
<1>7. Sole
  BY <1>3 DEF ReceiptsInit, Sole, Acts, Acting
<1>8. QED
  BY <1>4, <1>5, <1>6, <1>7 DEF ReceiptsInv

\* Every step of a call keeps what the invariant says.
LEMMA ReceiptsStep == ReceiptsInv /\ [ReceiptsNext]_typedVars => ReceiptsInv'
<1> SUFFICES ASSUME ReceiptsInv, [ReceiptsNext]_typedVars PROVE ReceiptsInv'
  OBVIOUS
<1>1. CASE \E c \in Call, o \in Operation, request \in Request : ReplayOrGoOn(c, o, request)
  BY <1>1, ReplayStep
<1>2. ASSUME NEW c \in Call,
             \/ CheckPrior(c) \/ AcquireHold(c) \/ ReadBefore(c) \/ PersistPrepared(c)
             \/ Dispatch(c) \/ Psql(c) \/ OrphanEnds(c) \/ WorkerLosesLease(c)
             \/ ReadAfter(c) \/ PersistFinal(c) \/ Return(c) \/ Crash(c)
      PROVE  ReceiptsInv'
  BY <1>2, CheckPriorStep, AcquireStep, ReadBeforeStep, PersistPreparedStep, DispatchStep, PsqlStep,
     OrphanStep, WorkerLosesLeaseStep, ReadAfterStep, PersistFinalStep, ReturnStep, CrashStep
<1>3. CASE ExpireHold \/ Drift
  BY <1>3, OutsideStep
<1>4. CASE UNCHANGED typedVars
  BY <1>4 DEF typedVars, receipts, ReceiptsInv, ReceiptsTypeOK, Sole, Acts, Tells, Stands
<1>5. QED
  BY <1>1, <1>2, <1>3, <1>4 DEF ReceiptsNext

(* The invariant holds throughout: an operation id has at most one call     *)
(* that may act on it, and each call knows what its receipts say.           *)
THEOREM ReceiptsInvariant == ReceiptsSpec => []ReceiptsInv
BY ReceiptsInitially, ReceiptsStep, PTL DEF ReceiptsSpec

\* Every variable has its type.
THEOREM ReceiptsTypes == ReceiptsSpec => []ReceiptsTypeOK
<1>1. ReceiptsInv => ReceiptsTypeOK
  BY DEF ReceiptsInv
<1>2. QED
  BY <1>1, ReceiptsInvariant, PTL

(* One operation id has at most one effect, over every retry, takeover and  *)
(* crash; APPLIED had exactly one, NOOP_EXACT changed nothing, and success  *)
(* is answered on the FINAL receipt of the very request.                    *)
THEOREM ReceiptsAlwaysTell == ReceiptsSpec => []ReceiptsTell
<1>1. ReceiptsInv => ReceiptsTell
  BY DEF ReceiptsInv, Tells, Stands, ReceiptsTell
<1>2. QED
  BY <1>1, ReceiptsInvariant, PTL

-----------------------------------------------------------------------------
(* That the operations implement OneEffect: what is claimed, recorded and  *)
(* told there, read off the receipts and the answers.                      *)

LEMMA Mapped ==
  ASSUME ReceiptsInv, NEW o \in Operation
  PROVE  /\ \A q : <<o, q>> \in ClaimsMade <=> prepared[o] # Unwritten /\ q = prepared[o].request
         /\ \A s : <<o, s>> \in OutcomesRecorded <=> final[o] # Unwritten /\ s = final[o].status
         /\ Once!Claimed(o) <=> prepared[o] # Unwritten
         /\ Once!Recorded(o) <=> final[o] # Unwritten
<1>1. \A q : <<o, q>> \in ClaimsMade <=> prepared[o] # Unwritten /\ q = prepared[o].request
  BY DEF ClaimsMade
<1>2. \A s : <<o, s>> \in OutcomesRecorded <=> final[o] # Unwritten /\ s = final[o].status
  BY DEF OutcomesRecorded
<1>3. /\ prepared[o] # Unwritten => prepared[o].request \in Request
      /\ final[o] # Unwritten => final[o].status \in {"APPLIED", "NOOP_EXACT"}
  BY DEF ReceiptsInv, Tells
<1>4. Once!Claimed(o) <=> prepared[o] # Unwritten
  <2>1. ASSUME prepared[o] # Unwritten PROVE Once!Claimed(o)
    <3>1. <<o, prepared[o].request>> \in ClaimsMade
      BY <1>1, <2>1
    <3>2. QED
      BY <3>1 DEF Once!Claimed
  <2>2. ASSUME Once!Claimed(o) PROVE prepared[o] # Unwritten
    <3>1. PICK claim \in ClaimsMade : claim[1] = o
      BY <2>2 DEF Once!Claimed
    <3>2. PICK p \in Operation : prepared[p] # Unwritten /\ claim = <<p, prepared[p].request>>
      BY <3>1, Zenon DEF ClaimsMade
    <3>3. QED
      BY <3>1, <3>2
  <2>3. QED
    BY <2>1, <2>2
<1>5. QED
  BY <1>1, <1>2, <1>3, <1>4 DEF Once!Recorded, Once!Outcome

\* A step of call c that answers nothing with success, and that of a call which ends so.
LEMMA Untold ==
  ASSUME ReceiptsInv, NEW c \in Call, NEW m, typed' = [typed EXCEPT ![c] = m],
         typed[c].answer = "NONE"
  PROVE  /\ m.answer # "PASS" => UNCHANGED SuccessesTold
         /\ m.answer = "PASS" =>
              /\ SuccessesTold' = SuccessesTold \cup {<<c, m.op, m.request>>}
              /\ \A t \in SuccessesTold : t[1] # c
<1> DEFINE Winners == {d \in Call : typed[d].answer = "PASS"}
           Win(d) == <<d, typed[d].op, typed[d].request>>
<1>1. \A d \in Call : typed'[d] = IF d = c THEN m ELSE typed[d]
  BY Types DEF ReceiptsInv
<1>2. SuccessesTold = {Win(d) : d \in Winners} /\ SuccessesTold' = {Win(d)' : d \in Winners'}
  BY DEF SuccessesTold
<1>3. \A d \in Winners : d # c /\ d \in Winners' /\ Win(d)' = Win(d)
  BY <1>1
<1>4. ASSUME m.answer # "PASS" PROVE UNCHANGED SuccessesTold
  <2>1. Winners' = Winners
    BY <1>1, <1>4
  <2> HIDE DEF Winners, Win
  <2>2. QED
    BY <1>2, <1>3, <2>1
<1>5. ASSUME m.answer = "PASS"
      PROVE  /\ SuccessesTold' = SuccessesTold \cup {<<c, m.op, m.request>>}
             /\ \A t \in SuccessesTold : t[1] # c
  <2>1. Winners' = Winners \cup {c} /\ Win(c)' = <<c, m.op, m.request>>
    BY <1>1, <1>5
  <2>2. \A t \in SuccessesTold : t[1] # c
    BY <1>2, <1>3
  <2> HIDE DEF Winners, Win
  <2>3. QED
    BY <1>2, <1>3, <2>1, <2>2
<1>6. QED
  BY <1>4, <1>5

\* A step of call c to local state m that shows neither in a receipt nor in an answer.
LEMMA Hidden ==
  ASSUME ReceiptsInv, NEW c \in Call, NEW m, typed' = [typed EXCEPT ![c] = m],
         typed[c].answer = "NONE", m.answer # "PASS", UNCHANGED <<kind, prepared, final, applied>>
  PROVE  UNCHANGED Once!vars
<1>1. UNCHANGED SuccessesTold
  BY Untold
<1>2. UNCHANGED ClaimsMade /\ UNCHANGED OutcomesRecorded
  BY DEF ClaimsMade, OutcomesRecorded
<1>3. QED
  BY <1>1, <1>2 DEF Once!vars

\* What a call does when it ends without success.
LEMMA HiddenEnd ==
  ASSUME ReceiptsInv, NEW c \in Call, NEW a \in {"NONE", "REFUSED", "RECONCILE"},
         typed' = [typed EXCEPT ![c] = Ended(@, a)], typed[c].answer = "NONE"
  PROVE  /\ UNCHANGED SuccessesTold
         /\ UNCHANGED <<kind, prepared, final, applied>> => UNCHANGED Once!vars
<1>1. typed[c] \in Local /\ a \in Answers
  BY Types DEF ReceiptsInv, Answers
<1> DEFINE m == Ended(typed[c], a)
<1>2. m.answer = a
  BY <1>1, EndedState
<1>3. typed' = [typed EXCEPT ![c] = m]
  BY Zenon
<1> HIDE DEF m
<1>4. QED
  BY <1>2, <1>3, Untold, Hidden

\* The steps between the receipts: nothing shows until the call returns.
LEMMA QuietStep ==
  ASSUME ReceiptsInv, NEW c \in Call,
         \/ CheckPrior(c) \/ AcquireHold(c) \/ ReadBefore(c) \/ Dispatch(c)
         \/ WorkerLosesLease(c) \/ ReadAfter(c) \/ Crash(c)
  PROVE  UNCHANGED Once!vars
<1>1. typed[c] \in Local /\ typed[c].answer = "NONE"
  <2>1. typed[c].pc # "done"
    BY DEF CheckPrior, AcquireHold, ReadBefore, Dispatch, WorkerLosesLease, ReadAfter, Crash
  <2>2. QED
    BY <2>1, Types DEF ReceiptsInv, Stands
<1>2. UNCHANGED <<kind, prepared, final, applied>>
  BY DEF CheckPrior, AcquireHold, ReadBefore, Dispatch, WorkerLosesLease, ReadAfter, Crash, Raises,
         receipts
<1>3. \/ \E a \in {"NONE", "REFUSED"} : typed' = [typed EXCEPT ![c] = Ended(@, a)]
      \/ \E s \in {"acquire", "read", "orphan"} : typed' = [typed EXCEPT ![c].pc = s]
      \/ \E b \in CatalogStates : typed' = [typed EXCEPT ![c] = [@ EXCEPT !.pc = "prepare", !.before = b]]
      \/ \E p \in {"readback", "psql"}, s \in Statuses :
           typed' = [typed EXCEPT ![c] = [@ EXCEPT !.pc = p, !.status = s]]
      \/ \E a \in Afters : typed' = [typed EXCEPT ![c] = [@ EXCEPT !.pc = "final", !.after = a]]
  <2>1. CASE CheckPrior(c)
    BY <2>1, Zenon DEF CheckPrior
  <2>2. CASE AcquireHold(c)
    BY <2>2, Zenon DEF AcquireHold
  <2>3. CASE ReadBefore(c)
    <3>1. catalog \in CatalogStates
      BY Types DEF ReceiptsInv
    <3>2. QED
      BY <2>3, <3>1, Zenon DEF ReadBefore, Raises, Ends
  <2>4. CASE Dispatch(c)
    BY <2>4, Zenon DEF Dispatch, Raises, Ends, Statuses
  <2>5. CASE WorkerLosesLease(c)
    BY <2>5, Zenon DEF WorkerLosesLease, Raises, Ends
  <2>6. CASE ReadAfter(c)
    <3>1. ReadBack(catalog) \in Afters
      BY Types, Readings DEF ReceiptsInv, Afters
    <3>2. QED
      BY <2>6, <3>1, Zenon DEF ReadAfter, Raises, Ends
  <2>7. CASE Crash(c)
    BY <2>7, Zenon DEF Crash
  <2>8. QED
    BY <2>1, <2>2, <2>3, <2>4, <2>5, <2>6, <2>7
<1>4. \A a, b, s :
        /\ [typed[c] EXCEPT !.pc = s].answer = "NONE"
        /\ [typed[c] EXCEPT !.pc = s, !.before = b].answer = "NONE"
        /\ [typed[c] EXCEPT !.pc = s, !.status = b].answer = "NONE"
        /\ [typed[c] EXCEPT !.pc = s, !.after = a].answer = "NONE"
  BY <1>1 DEF Local
<1>5. CASE \E a \in {"NONE", "REFUSED"} : typed' = [typed EXCEPT ![c] = Ended(@, a)]
  BY <1>1, <1>2, <1>5, HiddenEnd
<1>6. CASE \E m : m.answer = "NONE" /\ typed' = [typed EXCEPT ![c] = m]
  BY <1>1, <1>2, <1>6, Hidden
<1>7. QED
  BY <1>3, <1>4, <1>5, <1>6, Zenon

\* A replay that finds its request recorded is told so; any other is not.
LEMMA ReplayTells ==
  ASSUME ReceiptsInv, NEW c \in Call, NEW o \in Operation, NEW r \in Request, ReplayOrGoOn(c, o, r)
  PROVE  Once!Tell(c, o, r) \/ UNCHANGED Once!vars
<1> DEFINE called == [typed[c] EXCEPT !.op = o, !.request = r]
           prior == [typed[c] EXCEPT !.pc = "prior", !.op = o, !.request = r]
           passes == ReceiptState(o) = "FINAL" /\ SameRequest(o, r)
<1>1. typed[c] \in Local /\ typed[c].answer = "NONE"
  BY Types DEF ReceiptsInv, ReplayOrGoOn, Stands
<1>2. UNCHANGED <<kind, prepared, final, applied>>
  BY DEF ReplayOrGoOn, receipts
<1>3. \/ typed' = [typed EXCEPT ![c] = prior]
      \/ \E a \in {"PASS", "REFUSED"} : /\ a = "PASS" => passes
                                       /\ typed' = [typed EXCEPT ![c] = Ended(called, a)]
  BY Zenon DEF ReplayOrGoOn
<1>4. CASE typed' = [typed EXCEPT ![c] = prior]
  <2>1. prior.answer = "NONE"
    BY <1>1 DEF Local
  <2> HIDE DEF prior
  <2>2. QED
    BY <1>1, <1>2, <1>4, <2>1, Hidden
<1>5. ASSUME NEW a \in {"PASS", "REFUSED"}, a = "PASS" => passes,
             typed' = [typed EXCEPT ![c] = Ended(called, a)]
      PROVE  Once!Tell(c, o, r) \/ UNCHANGED Once!vars
  <2> DEFINE m == Ended(called, a)
  <2>1. called \in Local /\ called.op = o /\ called.request = r
    BY <1>1 DEF Local, Operations, Requests
  <2> HIDE DEF called
  <2>2. m.answer = a /\ m.op = o /\ m.request = r
    BY <2>1, EndedState DEF Answers
  <2>3. typed' = [typed EXCEPT ![c] = m]
    BY <1>5
  <2> HIDE DEF m
  <2>4. CASE a = "PASS"
    <3>1. <<o, r>> \in ClaimsMade /\ Once!Recorded(o)
      BY <1>5, <2>4, Mapped DEF ReceiptState, SameRequest
    <3>2. /\ SuccessesTold' = SuccessesTold \cup {<<c, o, r>>}
          /\ \A t \in SuccessesTold : t[1] # c
      BY <1>1, <2>2, <2>3, <2>4, Untold
    <3>3. UNCHANGED ClaimsMade /\ UNCHANGED OutcomesRecorded
      BY <1>2 DEF ClaimsMade, OutcomesRecorded
    <3>4. QED
      BY <1>2, <3>1, <3>2, <3>3 DEF Once!Tell
  <2>5. CASE a # "PASS"
    BY <1>1, <1>2, <2>2, <2>3, <2>5, Hidden
  <2>6. QED
    BY <2>4, <2>5
<1>6. QED
  BY <1>3, <1>4, <1>5

\* The call returns: its FINAL is of its own request.
LEMMA ReturnTells ==
  ASSUME ReceiptsInv, NEW c \in Call, Return(c)
  PROVE  UNCHANGED Once!vars \/ \E o \in Operation, q \in Request : Once!Tell(c, o, q)
<1> DEFINE o == typed[c].op
           q == typed[c].request
<1>1. /\ typed[c] \in Local /\ typed[c].answer = "NONE" /\ o \in Operation /\ q \in Request
      /\ final[o] # Unwritten /\ final[o].request = q
  BY Types DEF ReceiptsInv, Return, Stands
<1>2. UNCHANGED <<kind, prepared, final, applied>>
  BY DEF Return, receipts
<1>3. CASE typed' = [typed EXCEPT ![c] = Ended(@, "REFUSED")]
  BY <1>1, <1>2, <1>3, HiddenEnd
<1>4. CASE typed' = [typed EXCEPT ![c] = Ended(@, "PASS")]
  <2> DEFINE m == Ended(typed[c], "PASS")
  <2>1. m.answer = "PASS" /\ m.op = o /\ m.request = q
    BY <1>1, EndedState DEF Answers
  <2>2. typed' = [typed EXCEPT ![c] = m]
    BY <1>4, Zenon
  <2> HIDE DEF m, o, q
  <2>3. /\ SuccessesTold' = SuccessesTold \cup {<<c, o, q>>}
        /\ \A t \in SuccessesTold : t[1] # c
    BY <1>1, <2>1, <2>2, Untold
  <2>4. Tells(o)
    BY <1>1 DEF ReceiptsInv
  <2>5. <<o, q>> \in ClaimsMade /\ Once!Recorded(o)
    BY <1>1, <2>4, Mapped DEF Tells
  <2>6. UNCHANGED ClaimsMade /\ UNCHANGED OutcomesRecorded
    BY <1>2 DEF ClaimsMade, OutcomesRecorded
  <2>7. Once!Tell(c, o, q)
    BY <1>2, <2>3, <2>5, <2>6 DEF Once!Tell
  <2>8. QED
    BY <1>1, <2>7
<1>5. QED
  BY <1>3, <1>4, Zenon DEF Return, Ends

\* PREPARED claims the operation id for its request.
LEMMA PreparedClaims ==
  ASSUME ReceiptsInv, NEW c \in Call, PersistPrepared(c)
  PROVE  UNCHANGED Once!vars \/ \E o \in Operation, q \in Request : Once!Claim(o, q)
<1> DEFINE o == typed[c].op
           q == typed[c].request
<1>1. /\ typed[c] \in Local /\ typed[c].pc = "prepare" /\ typed[c].answer = "NONE"
      /\ o \in Operation /\ q \in Request
  BY Types DEF ReceiptsInv, PersistPrepared, Stands
<1>2. \/ /\ prepared[o] = Unwritten /\ prepared' = [prepared EXCEPT ![o] = PreparedRow(c)]
         /\ UNCHANGED <<kind, final, applied>>
         /\ \/ typed' = [typed EXCEPT ![c] = [typed[c] EXCEPT !.pc = "dispatch"]]
            \/ typed' = [typed EXCEPT ![c] = Ended(@, "REFUSED")]
      \/ Raises(c, "REFUSED")
  BY Zenon DEF PersistPrepared, PreparedRow, Appends, Ends
<1>3. CASE Raises(c, "REFUSED")
  BY <1>1, <1>3, HiddenEnd DEF Raises, Ends, receipts
<1>4. CASE /\ prepared[o] = Unwritten /\ prepared' = [prepared EXCEPT ![o] = PreparedRow(c)]
           /\ UNCHANGED <<kind, final, applied>>
           /\ \/ typed' = [typed EXCEPT ![c] = [typed[c] EXCEPT !.pc = "dispatch"]]
              \/ typed' = [typed EXCEPT ![c] = Ended(@, "REFUSED")]
  <2>1. PreparedRow(c) # Unwritten /\ PreparedRow(c).request = q
    BY <1>1, PreparedRowWritten
  <2>2. UNCHANGED SuccessesTold
    <3>1. [typed[c] EXCEPT !.pc = "dispatch"].answer = "NONE"
      BY <1>1, AtStage
    <3>2. QED
      BY <1>1, <1>4, <3>1, Untold, HiddenEnd
  <2> HIDE DEF o, q
  <2>3. \A p \in Operation : prepared'[p] = IF p = o THEN PreparedRow(c) ELSE prepared[p]
    BY <1>1, <1>4, Types DEF ReceiptsInv
  <2>4. ClaimsMade' = ClaimsMade \cup {<<o, q>>}
    BY <1>1, <1>4, <2>1, <2>3 DEF ClaimsMade
  <2>5. UNCHANGED OutcomesRecorded
    BY <1>4 DEF OutcomesRecorded
  <2>6. Once!Claim(o, q)
    BY <1>1, <1>4, <2>2, <2>4, <2>5, Mapped DEF Once!Claim
  <2>7. QED
    BY <1>1, <2>6
<1>5. QED
  BY <1>2, <1>3, <1>4

\* psql that succeeds is the effect, also when its caller is dead by then.
LEMMA PsqlHasEffect ==
  ASSUME ReceiptsInv, NEW c \in Call, Psql(c) \/ OrphanEnds(c)
  PROVE  UNCHANGED Once!vars \/ \E o \in Operation : Once!Effect(o)
<1> DEFINE o == typed[c].op
<1>1. /\ typed[c] \in Local /\ typed[c].answer = "NONE" /\ o \in Operation
      /\ prepared[o] # Unwritten /\ final[o] = Unwritten /\ applied[o] = 0
  BY Types DEF ReceiptsInv, Psql, OrphanEnds, Stands, Acting
<1>2. UNCHANGED <<kind, prepared, final>>
  BY DEF Psql, OrphanEnds, receipts
<1>3. applied' = [applied EXCEPT ![o] = @ + 1] \/ UNCHANGED applied
  BY Zenon DEF Psql, OrphanEnds, RunPsql
<1>4. \/ \E x \in {0, 1} : typed' = [typed EXCEPT ![c] = [typed[c] EXCEPT !.pc = "readback", !.exit = x]]
      \/ typed' = [typed EXCEPT ![c] = Ended(@, "NONE")]
  BY Zenon DEF Psql, OrphanEnds, RunPsql
<1>5. UNCHANGED SuccessesTold
  <2>1. \A x : [typed[c] EXCEPT !.pc = "readback", !.exit = x].answer = "NONE"
    BY <1>1 DEF Local
  <2>2. QED
    BY <1>1, <1>4, <2>1, Untold, HiddenEnd
<1>6. UNCHANGED ClaimsMade /\ UNCHANGED OutcomesRecorded
  BY <1>2 DEF ClaimsMade, OutcomesRecorded
<1> HIDE DEF o
<1>7. CASE applied' = [applied EXCEPT ![o] = @ + 1]
  <2>1. applied' = [applied EXCEPT ![o] = 1]
    BY <1>1, <1>7
  <2>2. Once!Effect(o)
    BY <1>1, <1>2, <1>5, <1>6, <2>1, Mapped DEF Once!Effect
  <2>3. QED
    BY <1>1, <2>2
<1>8. CASE UNCHANGED applied
  BY <1>2, <1>5, <1>6, <1>8 DEF Once!vars
<1>9. QED
  BY <1>3, <1>7, <1>8

\* FINAL records the outcome.
LEMMA FinalRecords ==
  ASSUME ReceiptsInv, NEW c \in Call, PersistFinal(c)
  PROVE  \/ UNCHANGED Once!vars
         \/ \E o \in Operation, result \in Once!Outcome : Once!Record(o, result)
<1> DEFINE o == typed[c].op
           result == typed[c].status
<1>1. /\ typed[c] \in Local /\ typed[c].pc = "final" /\ typed[c].answer = "NONE"
      /\ o \in Operation /\ prepared[o] # Unwritten
      /\ result \in Once!Outcome
      /\ result = "APPLIED" /\ typed[c].exit = 0 => applied[o] = 1
      /\ result = "NOOP_EXACT" /\ kind # "PRINCIPAL" => applied[o] = 0
  BY Types DEF ReceiptsInv, PersistFinal, Stands, Acting, Once!Outcome
<1>2. \/ /\ Good(c) /\ final[o] = Unwritten /\ final' = [final EXCEPT ![o] = FinalRow(c)]
         /\ UNCHANGED <<kind, prepared, applied>>
         /\ \/ typed' = [typed EXCEPT ![c] = [typed[c] EXCEPT !.pc = "release"]]
            \/ typed' = [typed EXCEPT ![c] = Ended(@, "RECONCILE")]
      \/ \E a \in {"REFUSED", "RECONCILE"} : Raises(c, a)
  BY Zenon DEF PersistFinal, FinalRow, Good, Appends, Ends
<1>3. CASE \E a \in {"REFUSED", "RECONCILE"} : Raises(c, a)
  BY <1>1, <1>3, HiddenEnd DEF Raises, Ends, receipts
<1>4. CASE /\ Good(c) /\ final[o] = Unwritten /\ final' = [final EXCEPT ![o] = FinalRow(c)]
           /\ UNCHANGED <<kind, prepared, applied>>
           /\ \/ typed' = [typed EXCEPT ![c] = [typed[c] EXCEPT !.pc = "release"]]
              \/ typed' = [typed EXCEPT ![c] = Ended(@, "RECONCILE")]
  <2>1. FinalRow(c) # Unwritten /\ FinalRow(c).status = result
    BY <1>1, <1>4, FinalRowWritten
  <2>2. UNCHANGED SuccessesTold
    <3>1. [typed[c] EXCEPT !.pc = "release"].answer = "NONE"
      BY <1>1, AtStage
    <3>2. QED
      BY <1>1, <1>4, <3>1, Untold, HiddenEnd
  <2>3. result = "APPLIED" => applied[o] = 1
    BY <1>1, <1>4 DEF Good
  <2> HIDE DEF o, result
  <2>4. \A p \in Operation : final'[p] = IF p = o THEN FinalRow(c) ELSE final[p]
    BY <1>1, <1>4, Types DEF ReceiptsInv
  <2>5. OutcomesRecorded' = OutcomesRecorded \cup {<<o, result>>}
    BY <1>1, <1>4, <2>1, <2>4 DEF OutcomesRecorded
  <2>6. UNCHANGED ClaimsMade
    BY <1>4 DEF ClaimsMade
  <2>7. Once!Record(o, result)
    BY <1>1, <1>4, <2>2, <2>3, <2>5, <2>6, Mapped DEF Once!Record
  <2>8. QED
    BY <1>1, <2>7
<1>5. QED
  BY <1>2, <1>3, <1>4

LEMMA InitImplements == ReceiptsInit => Once!Init
<1> SUFFICES ASSUME ReceiptsInit PROVE Once!Init
  OBVIOUS
<1>1. \A c \in Call : typed[c].answer # "PASS"
  BY DEF ReceiptsInit, Idle
<1>2. ClaimsMade = {} /\ OutcomesRecorded = {} /\ SuccessesTold = {}
  BY <1>1 DEF ReceiptsInit, ClaimsMade, OutcomesRecorded, SuccessesTold
<1>3. QED
  BY <1>2 DEF Once!Init, ReceiptsInit

\* The steps of OneEffect after a claim, which its Next has for the claims made.
LEMMA StepsOfClaims ==
  /\ \A c \in Call, o \in Operation, q \in Request : Once!Tell(c, o, q) => Once!Next
  /\ \A o \in Operation : Once!Effect(o) => Once!Next
  /\ \A o \in Operation, result \in Once!Outcome : Once!Record(o, result) => Once!Next
<1>1. ASSUME NEW c \in Call, NEW o \in Operation, NEW q \in Request, Once!Tell(c, o, q)
      PROVE  Once!Next
  <2>1. <<o, q>> \in ClaimsMade
    BY <1>1 DEF Once!Tell
  <2>2. QED
    BY <1>1, <2>1 DEF Once!Next
<1>2. ASSUME NEW o \in Operation, Once!Effect(o) PROVE Once!Next
  <2>1. PICK claim \in ClaimsMade : claim[1] = o
    BY <1>2 DEF Once!Effect, Once!Claimed
  <2>2. QED
    BY <1>2, <2>1 DEF Once!Next
<1>3. ASSUME NEW o \in Operation, NEW result \in Once!Outcome, Once!Record(o, result)
      PROVE  Once!Next
  <2>1. PICK claim \in ClaimsMade : claim[1] = o
    BY <1>3 DEF Once!Record, Once!Claimed
  <2>2. QED
    BY <1>3, <2>1 DEF Once!Next
<1>4. QED
  BY <1>1, <1>2, <1>3

LEMMA StepImplements == ReceiptsInv /\ [ReceiptsNext]_typedVars => [Once!Next]_(Once!vars)
<1> SUFFICES ASSUME ReceiptsInv, [ReceiptsNext]_typedVars PROVE [Once!Next]_(Once!vars)
  OBVIOUS
<1>1. CASE \E c \in Call, o \in Operation, r \in Request : ReplayOrGoOn(c, o, r)
  BY <1>1, ReplayTells, StepsOfClaims
<1>2. ASSUME NEW c \in Call, PersistPrepared(c)
      PROVE  [Once!Next]_(Once!vars)
  BY <1>2, PreparedClaims DEF Once!Next
<1>3. ASSUME NEW c \in Call, Psql(c) \/ OrphanEnds(c)
      PROVE  [Once!Next]_(Once!vars)
  BY <1>3, PsqlHasEffect, StepsOfClaims
<1>4. ASSUME NEW c \in Call, PersistFinal(c)
      PROVE  [Once!Next]_(Once!vars)
  BY <1>4, FinalRecords, StepsOfClaims
<1>5. ASSUME NEW c \in Call, Return(c)
      PROVE  [Once!Next]_(Once!vars)
  BY <1>5, ReturnTells, StepsOfClaims
<1>6. ASSUME NEW c \in Call,
             \/ CheckPrior(c) \/ AcquireHold(c) \/ ReadBefore(c) \/ Dispatch(c)
             \/ WorkerLosesLease(c) \/ ReadAfter(c) \/ Crash(c)
      PROVE  UNCHANGED Once!vars
  BY <1>6, QuietStep
<1>7. CASE ExpireHold \/ Drift \/ UNCHANGED typedVars
  BY <1>7 DEF ExpireHold, Drift, typedVars, receipts, Once!vars, ClaimsMade, OutcomesRecorded,
              SuccessesTold
<1>8. QED
  BY <1>1, <1>2, <1>3, <1>4, <1>5, <1>6, <1>7 DEF ReceiptsNext

(* The typed operations implement OneEffect: an operation id stands for     *)
(* one request, has at most one effect and none once its outcome is         *)
(* recorded, whatever is retried, taken over, or lives on after a crash.    *)
THEOREM ReceiptsImplementOneEffect == ReceiptsSpec => ImplementsOneEffect
BY InitImplements, StepImplements, ReceiptsInvariant, PTL
DEF ReceiptsSpec, ImplementsOneEffect, Once!Spec

-----------------------------------------------------------------------------
(* The credential: what its files and its tasks say of each other. *)

Files == 0..MaxFile
Entry == [prepared : BOOLEAN, effect : Files, final : Files]
JobStage == {"idle", "acquire", "prepare", "secret", "effect", "recheck", "readback",
             "final", "release", "done"}
Job == [pc : JobStage, file : Files]

\* A task that has the file that EFFECT names, or that is about to settle it.
Knowing == {"recheck", "readback", "final", "release"}

Names(t) ==
  LET entry == proof[t[1]] IN
  /\ entry.prepared /\ entry.effect # 0 /\ entry.effect = job[t].file

\* What a task knows of its evidence: it has written PREPARED, or it has found it
\* there, and from then on holds the file that EFFECT names.
Recalls(t) ==
  /\ job[t].pc \in {"secret", "effect"} => proof[t[1]].prepared
  /\ job[t].pc \in Knowing => Names(t)
  /\ job[t].pc = "acquire" /\ t[2] # "create" => Names(t)

\* A FINAL repeats its EFFECT.
Settled(o) == proof[o].final # 0 => proof[o].prepared /\ proof[o].final = proof[o].effect

(* As long as nobody touches the place: the one file is still there, and   *)
(* either the task that made it has yet to record it, or one EFFECT may    *)
(* name it.                                                                *)
OneFile ==
  /\ secret = files /\ files <= 1
  /\ \A o \in CredentialId : proof[o].effect # 0 =>
       /\ files = 1
       /\ \A p \in CredentialId : proof[p].effect # 0 => o = p
       /\ \A t \in Task : job[t].pc # "effect"
  /\ \A t \in Task : job[t].pc = "effect" =>
       files = 1 /\ \A u \in Task : job[u].pc = "effect" => t = u

CredentialInv ==
  /\ CredentialTypeOK
  /\ \A o \in CredentialId : Settled(o)
  /\ \A t \in Task : Recalls(t)
  /\ ~tampered => OneFile

\* The type invariant, in the terms used below.
LEMMA CredentialKinds ==
  CredentialTypeOK <=>
    /\ hold \in [holder : Task \cup {Nobody}, token : Nat, live : BOOLEAN]
    /\ secret \in Files /\ files \in Files /\ tampered \in BOOLEAN
    /\ proof \in [CredentialId -> Entry] /\ job \in [Task -> Job]
BY DEF CredentialTypeOK, Files, Entry, JobStage, Job

\* Leaving, gaining or losing the lease keeps its type.
LEMMA JobHoldKept ==
  ASSUME CredentialTypeOK, NEW t \in Task
  PROVE  LET H == [holder : Task \cup {Nobody}, token : Nat, live : BOOLEAN] IN
         Left(t) \in H /\ (Grant(t) => hold' \in H) /\ (Expire => hold' \in H)
<1> DEFINE H == [holder : Task \cup {Nobody}, token : Nat, live : BOOLEAN]
<1>1. hold \in H
  BY DEF CredentialTypeOK
<1>2. [hold EXCEPT !.holder = Nobody, !.live = FALSE] \in H /\ [hold EXCEPT !.live = FALSE] \in H
  BY <1>1
<1>3. [holder |-> t, token |-> hold.token + 1, live |-> TRUE] \in H
  <2>1. hold.token + 1 \in Nat
    BY <1>1
  <2>2. QED
    BY <2>1
<1> HIDE DEF H
<1>4. Left(t) \in H /\ (Grant(t) => hold' \in H) /\ (Expire => hold' \in H)
  BY <1>1, <1>2, <1>3, Zenon DEF Left, Grant, Expire
<1>5. QED
  BY <1>4 DEF H

\* What FINAL_MISSING says of the evidence.
LEMMA Missing ==
  ASSUME CredentialTypeOK, NEW o \in CredentialId, Status(o) = "FINAL_MISSING"
  PROVE  proof[o].prepared /\ secret # 0 /\ proof[o].effect = secret
<1>1. proof[o].prepared \in BOOLEAN
  BY CredentialKinds DEF Entry
<1>2. CASE proof[o].final # 0
  BY <1>2 DEF Status
<1>3. CASE proof[o].final = 0 /\ ~proof[o].prepared
  BY <1>3 DEF Status
<1>4. CASE proof[o].final = 0 /\ proof[o].prepared /\ secret = 0
  BY <1>4 DEF Status
<1>5. CASE proof[o].final = 0 /\ proof[o].prepared /\ secret # 0
  BY <1>5 DEF Status
<1>6. QED
  BY <1>1, <1>2, <1>3, <1>4, <1>5

(* A step of task t to the local state n that leaves the file and the      *)
(* evidence as they are.                                                   *)
LEMMA JobStep ==
  ASSUME CredentialInv, NEW t \in Task, NEW n \in Job, job' = [job EXCEPT ![t] = n],
         hold' \in [holder : Task \cup {Nobody}, token : Nat, live : BOOLEAN],
         UNCHANGED <<place, proof>>,
         n.pc # "effect",
         n.pc = "secret" => proof[t[1]].prepared,
         n.pc \in Knowing \/ (n.pc = "acquire" /\ t[2] # "create") =>
           proof[t[1]].prepared /\ proof[t[1]].effect # 0 /\ proof[t[1]].effect = n.file
  PROVE  CredentialInv'
<1>1. job' \in [Task -> Job] /\ \A u \in Task : job'[u] = IF u = t THEN n ELSE job[u]
  BY CredentialKinds DEF CredentialInv
<1>2. CredentialTypeOK'
  BY <1>1, CredentialKinds DEF CredentialInv, place, CredentialTypeOK, Job, JobStage, Files
<1>3. \A o \in CredentialId : Settled(o)'
  BY DEF CredentialInv, Settled
<1>4. \A u \in Task : Recalls(u)'
  BY <1>1 DEF CredentialInv, Recalls, Names
<1>5. ~tampered' => OneFile'
  BY <1>1 DEF CredentialInv, OneFile, place
<1>6. QED
  BY <1>2, <1>3, <1>4, <1>5 DEF CredentialInv

\* A task that fails or ends has no claim left.
LEMMA JobFails ==
  ASSUME CredentialInv, NEW t \in Task, FailJob(t) \/ CrashJob(t)
  PROVE  CredentialInv'
<1> DEFINE n == [pc |-> "done", file |-> 0]
<1>1. n \in Job /\ n.pc = "done"
  BY FileAssumption DEF Job, JobStage, Files
<1>2. job' = [job EXCEPT ![t] = n] /\ UNCHANGED <<place, proof>> /\ hold' \in {hold, Left(t)}
  BY DEF FailJob, EndJob, CrashJob
<1> HIDE DEF n
<1>3. hold' \in [holder : Task \cup {Nobody}, token : Nat, live : BOOLEAN]
  BY <1>2, JobHoldKept DEF CredentialInv, CredentialTypeOK
<1>4. QED
  BY <1>1, <1>2, <1>3, JobStep DEF Knowing

\* A task that goes to another stage with the file it has.
LEMMA JobAt ==
  ASSUME NEW m \in Job, NEW pc \in JobStage
  PROVE  LET n == [m EXCEPT !.pc = pc] IN n \in Job /\ n.pc = pc /\ n.file = m.file
BY DEF Job

\* A settlement begins with the file that EFFECT names.
LEMMA BeginStep ==
  ASSUME CredentialInv, NEW t \in Task, BeginJob(t)
  PROVE  CredentialInv'
<1> DEFINE begun == [pc |-> "acquire", file |-> IF t[2] = "create" THEN 0 ELSE secret]
<1>1. t[1] \in CredentialId /\ job[t] \in Job /\ job[t].pc = "idle"
  BY CredentialKinds DEF CredentialInv, BeginJob, Task
<1>2. job' = [job EXCEPT ![t] =
        IF Status(t[1]) = IF t[2] = "create" THEN "PRISTINE" ELSE "FINAL_MISSING" THEN begun ELSE @]
      /\ job'[t].pc = "acquire" /\ UNCHANGED <<hold, place, proof>>
  BY Zenon DEF BeginJob
<1>3. begun \in Job /\ begun.pc = "acquire" /\ (t[2] # "create" => begun.file = secret)
  BY FileAssumption, CredentialKinds DEF CredentialInv, Job, JobStage, Files
<1> HIDE DEF begun
<1>4. CASE Status(t[1]) = IF t[2] = "create" THEN "PRISTINE" ELSE "FINAL_MISSING"
  <2>1. t[2] # "create" => proof[t[1]].prepared /\ secret # 0 /\ proof[t[1]].effect = secret
    BY <1>1, <1>4, Missing DEF CredentialInv
  <2>2. job' = [job EXCEPT ![t] = begun]
    BY <1>2, <1>4
  <2>3. QED
    BY <1>2, <1>3, <2>1, <2>2, JobStep DEF CredentialInv, CredentialTypeOK, Knowing
<1>5. CASE Status(t[1]) # IF t[2] = "create" THEN "PRISTINE" ELSE "FINAL_MISSING"
  <2>1. job' = [job EXCEPT ![t] = job[t]]
    BY <1>2, <1>5
  <2>2. job'[t].pc = "idle"
    BY <1>1, <2>1, CredentialKinds DEF CredentialInv
  <2>3. QED
    BY <1>2, <2>2
<1>6. QED
  BY <1>4, <1>5

\* The lease is granted.
LEMMA AcquireForStep ==
  ASSUME CredentialInv, NEW t \in Task, AcquireFor(t)
  PROVE  CredentialInv'
<1> DEFINE pc == IF t[2] = "create" THEN "prepare" ELSE "recheck"
           n == [job[t] EXCEPT !.pc = pc]
<1>1. job[t] \in Job /\ job[t].pc = "acquire" /\ Recalls(t)
  BY CredentialKinds DEF CredentialInv, AcquireFor
<1>2. n \in Job /\ n.pc = pc /\ n.file = job[t].file
  <2>1. pc \in JobStage
    BY DEF JobStage
  <2> HIDE DEF pc
  <2>2. QED
    BY <1>1, <2>1, JobAt
<1>3. Grant(t) /\ job' = [job EXCEPT ![t] = n] /\ UNCHANGED <<place, proof>>
  BY Zenon DEF AcquireFor, MoveJob
<1>4. hold' \in [holder : Task \cup {Nobody}, token : Nat, live : BOOLEAN]
  BY <1>3, JobHoldKept DEF CredentialInv
<1> HIDE DEF n
<1>5. QED
  BY <1>1, <1>2, <1>3, <1>4, JobStep DEF Recalls, Names, Knowing

\* A settlement and a deployment look again at what they have found.
LEMMA LookStep ==
  ASSUME CredentialInv, NEW t \in Task, RecheckFile(t) \/ ConfirmFile(t)
  PROVE  CredentialInv'
<1>1. job[t] \in Job /\ job[t].pc \in {"recheck", "readback"} /\ Recalls(t)
  BY CredentialKinds DEF CredentialInv, RecheckFile, ConfirmFile
<1>2. CASE FailJob(t)
  BY <1>2, JobFails
<1>3. CASE ~FailJob(t)
  <2>1. PICK pc \in {"readback", "final"} : MoveJob(t, pc) /\ UNCHANGED <<hold, place, proof>>
    BY <1>3, Zenon DEF RecheckFile, ConfirmFile
  <2> DEFINE n == [job[t] EXCEPT !.pc = pc]
  <2>2. n \in Job /\ n.pc = pc /\ n.file = job[t].file
    <3>1. pc \in JobStage
      BY DEF JobStage
    <3>2. QED
      BY <1>1, <3>1, JobAt
  <2>3. job' = [job EXCEPT ![t] = n]
    BY <2>1, Zenon DEF MoveJob
  <2> HIDE DEF n
  <2>4. QED
    BY <1>1, <2>1, <2>2, <2>3, JobStep DEF CredentialInv, CredentialTypeOK, Recalls, Names, Knowing
<1>4. QED
  BY <1>2, <1>3

\* A step that adds to the evidence of one operation id, and leaves the file.
LEMMA EntryChanged ==
  ASSUME CredentialTypeOK, NEW t \in Task, NEW e \in Entry, NEW n \in Job,
         proof' = [proof EXCEPT ![t[1]] = e], job' = [job EXCEPT ![t] = n],
         UNCHANGED <<hold, place>>
  PROVE  /\ CredentialTypeOK'
         /\ t[1] \in CredentialId
         /\ \A o \in CredentialId : proof'[o] = IF o = t[1] THEN e ELSE proof[o]
         /\ \A u \in Task : u[1] \in CredentialId /\ job'[u] = IF u = t THEN n ELSE job[u]
<1>1. \A u \in Task : u[1] \in CredentialId
  BY DEF Task
<1>2. proof' \in [CredentialId -> Entry]
      /\ \A o \in CredentialId : proof'[o] = IF o = t[1] THEN e ELSE proof[o]
  BY CredentialKinds
<1>3. job' \in [Task -> Job] /\ \A u \in Task : job'[u] = IF u = t THEN n ELSE job[u]
  BY CredentialKinds
<1>4. CredentialTypeOK'
  BY <1>2, <1>3, CredentialKinds DEF place, CredentialTypeOK, Entry, Job, JobStage, Files
<1>5. QED
  BY <1>1, <1>2, <1>3, <1>4

\* PREPARED is written once.
LEMMA PrepareStep ==
  ASSUME CredentialInv, NEW t \in Task, Prepare(t)
  PROVE  CredentialInv'
<1>1. CASE FailJob(t)
  BY <1>1, JobFails
<1>2. CASE ~FailJob(t)
  <2> DEFINE e == [proof[t[1]] EXCEPT !.prepared = TRUE]
             n == [job[t] EXCEPT !.pc = "secret"]
  <2>1. proof' = [proof EXCEPT ![t[1]] = e] /\ job' = [job EXCEPT ![t] = n] /\ UNCHANGED <<hold, place>>
    BY <1>2, Zenon DEF Prepare, MoveJob
  <2>2. proof[t[1]] \in Entry /\ job[t] \in Job
    BY CredentialKinds DEF CredentialInv, Task
  <2>3. e \in Entry /\ e.prepared /\ e.effect = proof[t[1]].effect /\ e.final = proof[t[1]].final
    BY <2>2 DEF Entry
  <2>4. n \in Job /\ n.pc = "secret"
    BY <2>2, JobAt DEF JobStage
  <2> HIDE DEF e, n
  <2>5. /\ CredentialTypeOK' /\ t[1] \in CredentialId
        /\ \A o \in CredentialId : proof'[o] = IF o = t[1] THEN e ELSE proof[o]
        /\ \A u \in Task : u[1] \in CredentialId /\ job'[u] = IF u = t THEN n ELSE job[u]
    BY <2>1, <2>3, <2>4, EntryChanged DEF CredentialInv
  <2>6. \A o \in CredentialId : Settled(o)'
    BY <2>3, <2>5 DEF CredentialInv, Settled
  <2>7. \A u \in Task : Recalls(u)'
    BY <2>3, <2>4, <2>5 DEF CredentialInv, Recalls, Names, Knowing
  <2>8. ~tampered' => OneFile'
    BY <2>1, <2>3, <2>4, <2>5 DEF CredentialInv, OneFile, place
  <2>9. QED
    BY <2>5, <2>6, <2>7, <2>8 DEF CredentialInv
<1>3. QED
  BY <1>1, <1>2

\* O_EXCL: the file is made only where there is none, so it is the only one
\* unless somebody else has removed one.
LEMMA MakeStep ==
  ASSUME CredentialInv, NEW t \in Task, MakeSecret(t)
  PROVE  CredentialInv'
<1>1. CASE FailJob(t)
  BY <1>1, JobFails
<1>2. CASE ~FailJob(t)
  <2> DEFINE n == [job[t] EXCEPT !.pc = "effect"]
  <2>1. /\ job[t].pc = "secret" /\ secret = 0 /\ files < MaxFile
        /\ files' = files + 1 /\ secret' = files + 1 /\ UNCHANGED <<hold, tampered, proof>>
        /\ job' = [job EXCEPT ![t] = n]
    BY <1>2, Zenon DEF MakeSecret, MoveJob, Exclusive
  <2>2. job[t] \in Job
    BY CredentialKinds DEF CredentialInv
  <2>3. n \in Job /\ n.pc = "effect"
    BY <2>2, JobAt DEF JobStage
  <2> HIDE DEF n
  <2>4. job' \in [Task -> Job] /\ \A u \in Task : job'[u] = IF u = t THEN n ELSE job[u]
    BY <2>1, <2>3, CredentialKinds DEF CredentialInv
  <2>5. files' \in Files /\ secret' \in Files
    BY <2>1, FileAssumption, CredentialKinds DEF CredentialInv, Files
  <2>6. CredentialTypeOK'
    BY <2>1, <2>4, <2>5, CredentialKinds DEF CredentialInv, CredentialTypeOK, Job, JobStage, Files
  <2>7. \A u \in Task : Recalls(u)'
    BY <2>1, <2>3, <2>4 DEF CredentialInv, Recalls, Names, Knowing
  <2>8. \A o \in CredentialId : Settled(o)'
    BY <2>1 DEF CredentialInv, Settled
  <2>9. ~tampered' => OneFile'
    <3> SUFFICES ASSUME ~tampered' PROVE OneFile'
      OBVIOUS
    <3>1. OneFile /\ files = 0
      BY <2>1 DEF CredentialInv, OneFile
    <3>2. files' = 1 /\ secret' = 1
      BY <2>1, <3>1
    <3>3. (\A o \in CredentialId : proof'[o].effect = 0) /\ \A u \in Task : job[u].pc # "effect"
      BY <2>1, <3>1 DEF OneFile
    <3>4. \A u \in Task : job'[u].pc = "effect" => u = t
      BY <2>4, <3>3
    <3>5. QED
      BY <3>2, <3>3, <3>4 DEF OneFile
  <2>10. QED
    BY <2>6, <2>7, <2>8, <2>9 DEF CredentialInv
<1>3. QED
  BY <1>1, <1>2

\* EFFECT is written once, before any FINAL.
LEMMA EffectStep ==
  ASSUME CredentialInv, NEW t \in Task, RecordEffect(t)
  PROVE  CredentialInv'
<1>1. CASE FailJob(t)
  BY <1>1, JobFails
<1>2. CASE ~FailJob(t)
  <2> DEFINE e == [proof[t[1]] EXCEPT !.effect = secret]
             n == [pc |-> "readback", file |-> secret]
  <2>1. /\ job[t].pc = "effect" /\ secret # 0 /\ proof[t[1]].effect = 0
        /\ proof' = [proof EXCEPT ![t[1]] = e] /\ job' = [job EXCEPT ![t] = n] /\ UNCHANGED <<hold, place>>
    BY <1>2, Zenon DEF RecordEffect
  <2>2. proof[t[1]] \in Entry /\ secret \in Files
    BY CredentialKinds DEF CredentialInv, Task
  <2>3. e \in Entry /\ e.prepared = proof[t[1]].prepared /\ e.effect = secret /\ e.final = proof[t[1]].final
    BY <2>2 DEF Entry
  <2>4. n \in Job /\ n.pc = "readback" /\ n.file = secret
    BY <2>2 DEF Job, JobStage
  <2> HIDE DEF e, n
  <2>5. /\ CredentialTypeOK' /\ t[1] \in CredentialId
        /\ \A o \in CredentialId : proof'[o] = IF o = t[1] THEN e ELSE proof[o]
        /\ \A u \in Task : u[1] \in CredentialId /\ job'[u] = IF u = t THEN n ELSE job[u]
    BY <2>1, <2>3, <2>4, EntryChanged DEF CredentialInv
  <2>6. \A o \in CredentialId : Settled(o)'
    BY <2>1, <2>3, <2>5 DEF CredentialInv, Settled
  <2>7. \A u \in Task : Recalls(u)'
    BY <2>1, <2>3, <2>4, <2>5 DEF CredentialInv, Recalls, Names, Knowing
  <2>8. ~tampered' => OneFile'
    <3> SUFFICES ASSUME ~tampered' PROVE OneFile'
      OBVIOUS
    <3>1. OneFile /\ UNCHANGED <<secret, files>>
      BY <2>1 DEF CredentialInv, place
    <3>2. files = 1 /\ (\A o \in CredentialId : proof[o].effect = 0)
          /\ \A u \in Task : job[u].pc = "effect" => u = t
      BY <2>1, <3>1 DEF OneFile
    <3>3. \A u \in Task : job'[u].pc # "effect"
      BY <2>4, <2>5, <3>2
    <3>4. \A o \in CredentialId : proof'[o].effect # 0 => o = t[1]
      BY <2>5, <3>2
    <3>5. QED
      BY <3>1, <3>2, <3>3, <3>4 DEF OneFile
  <2>9. QED
    BY <2>5, <2>6, <2>7, <2>8 DEF CredentialInv
<1>3. QED
  BY <1>1, <1>2

\* FINAL names the file the task has, which is the one EFFECT names.
LEMMA FinalStep ==
  ASSUME CredentialInv, NEW t \in Task, RecordFinal(t)
  PROVE  CredentialInv'
<1>1. CASE FailJob(t)
  BY <1>1, JobFails
<1>2. CASE ~FailJob(t)
  <2> DEFINE e == [proof[t[1]] EXCEPT !.final = job[t].file]
             n == [job[t] EXCEPT !.pc = "release"]
  <2>1. /\ job[t].pc = "final"
        /\ proof' = [proof EXCEPT ![t[1]] = e] /\ job' = [job EXCEPT ![t] = n] /\ UNCHANGED <<hold, place>>
    BY <1>2, Zenon DEF RecordFinal, MoveJob
  <2>2. proof[t[1]] \in Entry /\ job[t] \in Job /\ job[t].file \in Files
    BY CredentialKinds DEF CredentialInv, Task, Job
  <2>3. e \in Entry /\ e.prepared = proof[t[1]].prepared /\ e.effect = proof[t[1]].effect
        /\ e.final = job[t].file
    BY <2>2 DEF Entry
  <2>4. n \in Job /\ n.pc = "release" /\ n.file = job[t].file
    BY <2>2, JobAt DEF JobStage
  <2> HIDE DEF e, n
  <2>5. /\ CredentialTypeOK' /\ t[1] \in CredentialId
        /\ \A o \in CredentialId : proof'[o] = IF o = t[1] THEN e ELSE proof[o]
        /\ \A u \in Task : u[1] \in CredentialId /\ job'[u] = IF u = t THEN n ELSE job[u]
    BY <2>1, <2>3, <2>4, EntryChanged DEF CredentialInv
  <2>6. Names(t)
    BY <2>1 DEF CredentialInv, Recalls, Knowing
  <2>7. \A o \in CredentialId : Settled(o)'
    BY <2>3, <2>5, <2>6 DEF CredentialInv, Settled, Names
  <2>8. \A u \in Task : Recalls(u)'
    BY <2>3, <2>4, <2>5, <2>6 DEF CredentialInv, Recalls, Names, Knowing
  <2>9. ~tampered' => OneFile'
    BY <2>1, <2>3, <2>4, <2>5 DEF CredentialInv, OneFile, place
  <2>10. QED
    BY <2>5, <2>7, <2>8, <2>9 DEF CredentialInv
<1>3. QED
  BY <1>1, <1>2

\* The lease expires, or somebody touches the place: the evidence stays.
LEMMA OutsideJobStep ==
  ASSUME CredentialInv, ExpireJob \/ Tamper
  PROVE  CredentialInv'
<1>1. CASE ExpireJob
  <2>1. hold' \in [holder : Task \cup {Nobody}, token : Nat, live : BOOLEAN]
    BY <1>1 DEF ExpireJob, Expire, CredentialInv, CredentialTypeOK
  <2>2. UNCHANGED <<secret, files, tampered, proof, job>>
    BY <1>1 DEF ExpireJob, place
  <2>3. QED
    BY <2>1, <2>2 DEF CredentialInv, CredentialTypeOK, Settled, Recalls, Names, OneFile
<1>2. CASE Tamper
  <2>1. secret' \in Files /\ files' \in Files /\ tampered' /\ UNCHANGED <<hold, proof, job>>
    BY <1>2, FileAssumption, CredentialKinds DEF Tamper, CredentialInv, Files
  <2>2. CredentialTypeOK'
    BY <2>1, CredentialKinds DEF CredentialInv, CredentialTypeOK, Files
  <2>3. QED
    BY <2>1, <2>2 DEF CredentialInv, Settled, Recalls, Names
<1>3. QED
  BY <1>1, <1>2

\* No task has begun and there is no file.
LEMMA CredentialInitially == CredentialInit => CredentialInv
<1> SUFFICES ASSUME CredentialInit PROVE CredentialInv
  OBVIOUS
<1>1. 0 \in Files /\ Nothing \in Entry /\ Nothing.effect = 0 /\ Nothing.final = 0
  BY FileAssumption DEF Files, Nothing, Entry
<1>2. [pc |-> "idle", file |-> 0] \in Job
  BY <1>1 DEF Job, JobStage
<1>3. CredentialTypeOK
  BY <1>1, <1>2, CredentialKinds DEF CredentialInit, HoldInit
<1>4. \A t \in Task : job[t].pc = "idle"
  BY DEF CredentialInit
<1>5. \A o \in CredentialId : proof[o] = Nothing
  BY DEF CredentialInit
<1>6. (\A o \in CredentialId : Settled(o)) /\ \A t \in Task : Recalls(t)
  BY <1>1, <1>4, <1>5 DEF Settled, Recalls, Knowing
<1>7. OneFile
  BY <1>1, <1>4, <1>5 DEF OneFile, CredentialInit
<1>8. QED
  BY <1>3, <1>6, <1>7 DEF CredentialInv

\* Every step of a task keeps what the invariant says.
LEMMA CredentialStep == CredentialInv /\ [CredentialNext]_credentialVars => CredentialInv'
<1> SUFFICES ASSUME CredentialInv, [CredentialNext]_credentialVars PROVE CredentialInv'
  OBVIOUS
<1>1. ASSUME NEW t \in Task,
             \/ BeginJob(t) \/ AcquireFor(t) \/ Prepare(t) \/ MakeSecret(t) \/ RecordEffect(t)
             \/ RecheckFile(t) \/ ConfirmFile(t) \/ RecordFinal(t) \/ Finished(t) \/ CrashJob(t)
      PROVE  CredentialInv'
  BY <1>1, BeginStep, AcquireForStep, PrepareStep, MakeStep, EffectStep, LookStep, FinalStep, JobFails
     DEF Finished
<1>2. CASE ExpireJob \/ Tamper
  BY <1>2, OutsideJobStep
<1>3. CASE UNCHANGED credentialVars
  BY <1>3 DEF credentialVars, place, CredentialInv, CredentialTypeOK, Settled, Recalls, Names, OneFile
<1>4. QED
  BY <1>1, <1>2, <1>3 DEF CredentialNext

(* The invariant holds throughout: what a task knows of the file, and what *)
(* the three pieces of evidence say of each other.                         *)
THEOREM CredentialInvariant == CredentialSpec => []CredentialInv
BY CredentialInitially, CredentialStep, PTL DEF CredentialSpec

\* Every variable of the credential has its type.
THEOREM CredentialTypes == CredentialSpec => []CredentialTypeOK
<1>1. CredentialInv => CredentialTypeOK
  BY DEF CredentialInv
<1>2. QED
  BY <1>1, CredentialInvariant, PTL

(* The secret is made once while nobody else touches the place, and a      *)
(* FINAL names the very file that the EFFECT of its operation id names.    *)
THEOREM EvidenceAlwaysHolds == CredentialSpec => []EvidenceHolds
<1>1. CredentialInv => EvidenceHolds
  BY DEF CredentialInv, OneFile, Settled, EvidenceHolds
<1>2. QED
  BY <1>1, CredentialInvariant, PTL
=============================================================================
