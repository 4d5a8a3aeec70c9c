----------------------- MODULE GlobalWriterLeaseProofs -----------------------
(***************************************************************************)
(* Proofs about GlobalWriterLease, for every set of owners and operation   *)
(* keys, every TTL and every bound on the clock: what the lease guarantees *)
(* its users, and that the protocol implements the abstract FencedLock.    *)
(***************************************************************************)
EXTENDS GlobalWriterLease, TLAPS

(* TypeOK holds in every reachable state of the lease protocol. *)
THEOREM TypeInvariant == Spec => []TypeOK
<1>1. Init => TypeOK
  BY LeaseAssumption DEF Init, LeaseInit, TypeOK, LeaseTypeOK, FreeRow, Row, NoEvent,
     Event, Call, Op, Idle
<1>2. TypeOK /\ [Next]_vars => TypeOK'
  <2> SUFFICES ASSUME TypeOK, [Next]_vars
               PROVE  TypeOK'
    OBVIOUS
  <2> USE LeaseAssumption DEF TypeOK, LeaseTypeOK
  <2> DEFINE CallOK(f) == /\ f \in [Owner -> Call]
                          /\ \A c \in Owner : f[c].op \in {"acquire", "release", "revoke"}
                                                => f[c].key \in Key
  <2>ret. ASSUME NEW c \in Owner, Return(c)
          PROVE  CallOK(call')
    BY <2>ret DEF Return, Idle, Call, Op
  <2>readback. ASSUME NEW c \in Owner, NEW t \in Nat,
                      \/ ReadBack(c, "acquire_readback", t)
                      \/ ReadBack(c, "heartbeat_readback", t)
               PROVE  CallOK(call')
    BY <2>readback DEF ReadBack, Call, Op
  <2>start. ASSUME NEW c \in Owner, NEW op \in Op, NEW k \in Key \cup {NoKey},
                   op \in {"acquire", "release", "revoke"} => k \in Key,
                   NEW o \in Owner \cup {NoOwner}, NEW t \in Nat, Start(c, op, k, o, t)
            PROVE  TypeOK'
    BY <2>start DEF Start, Call
  <2>acquire. ASSUME NEW o \in Owner, NEW k \in Key \cup {NoKey}, NEW now \in Nat,
                     AcquireTxn(o, k, now)
              PROVE  LeaseTypeOK'
    <3>1. lease' \in Row /\ lease'.owner \in Owner
      BY <2>acquire DEF AcquireTxn, HeldRow, Row
    <3>2. log' \in [Key -> Event \cup {NoEvent}]
      BY <2>acquire DEF AcquireTxn, Record, Row, Event, EventType, GrantType
    <3>3. QED  BY <2>acquire, <3>1, <3>2 DEF AcquireTxn
  <2>free. ASSUME NEW o \in Owner, NEW t \in Nat, NEW k \in Key \cup {NoKey},
                  NEW now \in Nat, ReleaseTxn(o, t, k, now) \/ ForceRevokeTxn(o, t, k, now)
           PROVE  LeaseTypeOK'
    BY <2>free DEF ReleaseTxn, ForceRevokeTxn, Record, FreeRow, Row, Event, EventType
  <2>call. ASSUME NEW c \in Owner
           PROVE  /\ call[c].key \in Key \cup {NoKey}
                  /\ call[c].target \in Owner \cup {NoOwner}
                  /\ call[c].token \in Nat
                  /\ call[c].now \in Nat
    BY DEF Call
  <2>token. lease.token \in Nat /\ lease.owner \in Owner \cup {NoOwner}
    BY DEF Row
  <2>1. CASE TimePasses
    BY <2>1 DEF TimePasses, Tick
  <2>2. ASSUME NEW c \in Owner,
               StartAcquire(c) \/ StartHeartbeat(c) \/ StartRelease(c) \/ StartRevoke(c)
        PROVE  TypeOK'
    BY <2>2, <2>start, <2>token
       DEF StartAcquire, StartHeartbeat, StartRelease, StartRevoke, Op
  <2>3. ASSUME NEW c \in Owner, DoAcquire(c)
        PROVE  TypeOK'
    <3>1. LeaseTypeOK'
      BY <2>3, <2>acquire, <2>call DEF DoAcquire, AcquireReplay, leaseVars
    <3>2. lease'.token \in Nat
      BY <3>1 DEF Row
    <3>3. CallOK(call')
      BY <2>3, <3>2, <2>readback DEF DoAcquire, Op
    <3>4. QED  BY <2>3, <3>1, <3>3 DEF DoAcquire
  <2>4. ASSUME NEW c \in Owner, AcquireReturns(c)
        PROVE  TypeOK'
    BY <2>4, <2>ret, <2>call DEF AcquireReturns
  <2>5. ASSUME NEW c \in Owner, DoHeartbeat(c)
        PROVE  TypeOK'
    <3>1. lease' \in Row /\ lease'.owner \in Owner
      BY <2>5, <2>call DEF DoHeartbeat, HeartbeatTxn, HeldRow, Row
    <3>2. CallOK(call')
      BY <2>5, <2>call, <2>readback DEF DoHeartbeat, Op
    <3>3. QED  BY <2>5, <3>1, <3>2 DEF DoHeartbeat, HeartbeatTxn
  <2>6. ASSUME NEW c \in Owner, HeartbeatReturns(c)
        PROVE  TypeOK'
    BY <2>6, <2>ret DEF HeartbeatReturns
  <2>7. ASSUME NEW c \in Owner, DoRelease(c)
        PROVE  TypeOK'
    <3>1. CASE ReleaseTxn(c, call[c].token, call[c].key, call[c].now)
      BY <2>7, <2>free, <2>call, <2>ret, <3>1 DEF DoRelease
    <3>2. CASE FreeReplay("RELEASE", c, call[c].token, call[c].key)
      BY <2>7, <2>ret, <3>2 DEF DoRelease, FreeReplay, leaseVars
    <3>3. QED  BY <2>7, <3>1, <3>2 DEF DoRelease
  <2>8. ASSUME NEW c \in Owner, DoRevoke(c)
        PROVE  TypeOK'
    <3>1. CASE ForceRevokeTxn(call[c].target, call[c].token, call[c].key, call[c].now)
      <4>1. call[c].target \in Owner
        BY <3>1, <2>call DEF ForceRevokeTxn, Current, Row
      <4>2. QED  BY <2>8, <2>free, <2>call, <2>ret, <3>1, <4>1 DEF DoRevoke
    <3>2. CASE FreeReplay("FORCE_REVOKE", call[c].target, call[c].token, call[c].key)
      BY <2>8, <2>ret, <3>2 DEF DoRevoke, FreeReplay, leaseVars
    <3>3. QED  BY <2>8, <3>1, <3>2 DEF DoRevoke
  <2>9. ASSUME NEW c \in Owner, CallFails(c) \/ Crash(c)
        PROVE  TypeOK'
    BY <2>9, <2>ret DEF CallFails, Crash
  <2>10. ASSUME NEW c \in Owner, Bind(c) \/ Unbind(c) \/ OrdinaryWrite(c)
         PROVE  TypeOK'
    BY <2>10 DEF Bind, Unbind, OrdinaryWrite
  <2>11. CASE UNCHANGED vars
    BY <2>11 DEF vars
  <2>12. QED
    BY <2>1, <2>2, <2>3, <2>4, <2>5, <2>6, <2>7, <2>8, <2>9, <2>10, <2>11 DEF Next
<1>3. QED
  BY <1>1, <1>2, PTL DEF Spec

-----------------------------------------------------------------------------
(* Every step either leaves the row and the ledger alone, or is a          *)
(* heartbeat, or appends one event e under an unused key k and changes the *)
(* row accordingly.                                                        *)
Appends(k, e) ==
  /\ log[k] = NoEvent
  /\ log' = [log EXCEPT ![k] = e]
  /\ e.from = lease.token /\ e.to = lease'.token

Grants(e) == /\ e.type \in GrantType
             /\ lease'.token = lease.token + 1
             /\ lease'.state = "HELD" /\ lease'.owner = e.owner
             /\ \E c \in Owner :
                  /\ lease' = HeldRow(c, lease.token + 1, call[c].now)
                  /\ lease.state = "HELD" => lease.expires <= call[c].now

Frees(e) == /\ lease.state = "HELD" /\ lease' = FreeRow(lease'.token)
            /\ \/ e.type = "RELEASE" /\ lease'.token = lease.token
               \/ e.type = "FORCE_REVOKE" /\ lease'.token = lease.token + 1

Extends == \E c \in Owner : /\ call[c].op = "heartbeat" /\ call[c].token = lease.token
                            /\ HeartbeatTxn(c, lease.token, call[c].now)

StoreStep == \/ UNCHANGED <<lease, log>>
             \/ Extends
             \/ \E k \in Key, e \in Event : Appends(k, e) /\ (Grants(e) \/ Frees(e))

(* Whatever a process does, the row and the event table change as one of  *)
(* the store's transactions changes them.                                  *)
LEMMA StepIsStoreStep == TypeOK /\ [Next]_vars => StoreStep
<1> SUFFICES ASSUME TypeOK, [Next]_vars PROVE StoreStep
  OBVIOUS
<1> USE DEF TypeOK, LeaseTypeOK
<1>0. lease.token \in Nat /\ \A c \in Owner : call[c].token \in Nat /\ call[c].now \in Nat
  BY DEF Row, Call
<1>1. CASE TimePasses
  BY <1>1 DEF TimePasses, Tick, StoreStep
<1>2. ASSUME NEW c \in Owner,
             \/ StartAcquire(c) \/ StartHeartbeat(c) \/ StartRelease(c) \/ StartRevoke(c)
             \/ AcquireReturns(c) \/ HeartbeatReturns(c) \/ CallFails(c) \/ Crash(c)
             \/ Bind(c) \/ Unbind(c) \/ OrdinaryWrite(c)
      PROVE  StoreStep
  BY <1>2 DEF StartAcquire, StartHeartbeat, StartRelease, StartRevoke, Start,
     AcquireReturns, HeartbeatReturns, CallFails, Crash, Bind, Unbind, OrdinaryWrite,
     StoreStep
<1>3. ASSUME NEW c \in Owner, DoAcquire(c)
      PROVE  StoreStep
  <2>1. CASE AcquireReplay(c, call[c].key)
    BY <2>1 DEF AcquireReplay, leaseVars, StoreStep
  <2>2. CASE AcquireTxn(c, call[c].key, call[c].now)
    <3>1. PICK e \in Event : /\ e.type \in GrantType /\ e.owner = c
                             /\ e.from = lease.token /\ e.to = lease.token + 1
                             /\ log[call[c].key] = NoEvent
                             /\ log' = [log EXCEPT ![call[c].key] = e]
      BY <1>0, <2>2 DEF AcquireTxn, Record, Event, EventType, GrantType
    <3>2. /\ lease' = HeldRow(c, lease.token + 1, call[c].now)
          /\ lease'.token = lease.token + 1
          /\ lease'.state = "HELD" /\ lease'.owner = c
          /\ lease.state = "HELD" => lease.expires <= call[c].now
      BY <2>2 DEF AcquireTxn, HeldRow
    <3>3. call[c].key \in Key
      BY <1>3 DEF DoAcquire
    <3>4. Appends(call[c].key, e) /\ Grants(e)
      BY <3>1, <3>2 DEF Appends, Grants
    <3>5. QED  BY <3>3, <3>4 DEF StoreStep
  <2>3. QED  BY <1>3, <2>1, <2>2 DEF DoAcquire
<1>4. ASSUME NEW c \in Owner, DoHeartbeat(c)
      PROVE  StoreStep
  BY <1>4 DEF DoHeartbeat, HeartbeatTxn, Current, Extends, StoreStep
<1>5. ASSUME NEW o \in Owner, NEW k \in Key, NEW t \in Nat, NEW now \in Nat,
             ReleaseTxn(o, t, k, now) \/ ForceRevokeTxn(o, t, k, now)
      PROVE  StoreStep
  <2>1. PICK e \in Event : /\ log[k] = NoEvent /\ log' = [log EXCEPT ![k] = e]
                           /\ e.from = t
                           /\ lease' = FreeRow(e.to)
                           /\ \/ e.type = "RELEASE" /\ e.to = t
                              \/ e.type = "FORCE_REVOKE" /\ e.to = t + 1
    BY <1>5 DEF ReleaseTxn, ForceRevokeTxn, Record, Event, EventType
  <2>2. lease.state = "HELD" /\ lease.token = t /\ lease'.token = e.to
    BY <1>5, <2>1 DEF ReleaseTxn, ForceRevokeTxn, Current, FreeRow
  <2>3. Appends(k, e) /\ Frees(e)
    BY <2>1, <2>2 DEF Appends, Frees
  <2>4. QED  BY <2>3 DEF StoreStep
<1>6. ASSUME NEW c \in Owner, DoRelease(c)
      PROVE  StoreStep
  BY <1>0, <1>5, <1>6 DEF DoRelease, FreeReplay, leaseVars, StoreStep
<1>7. ASSUME NEW c \in Owner, DoRevoke(c)
      PROVE  StoreStep
  <2>1. CASE FreeReplay("FORCE_REVOKE", call[c].target, call[c].token, call[c].key)
    BY <2>1 DEF FreeReplay, leaseVars, StoreStep
  <2>2. CASE ForceRevokeTxn(call[c].target, call[c].token, call[c].key, call[c].now)
    <3>1. call[c].target \in Owner
      BY <2>2 DEF ForceRevokeTxn, Current
    <3>2. call[c].key \in Key
      BY <1>7 DEF DoRevoke
    <3>3. QED  BY <1>0, <1>5, <2>2, <3>1, <3>2
  <2>3. QED  BY <1>7, <2>1, <2>2 DEF DoRevoke
<1>8. CASE UNCHANGED vars
  BY <1>8 DEF vars, StoreStep
<1>9. QED
  BY <1>1, <1>2, <1>3, <1>4, <1>6, <1>7, <1>8 DEF Next

-----------------------------------------------------------------------------
(* The token never falls, and a recorded event never changes. *)
LEMMA TokenMonotone ==
  ASSUME TypeOK, TypeOK', StoreStep
  PROVE  /\ lease.token \in Nat /\ lease'.token \in Nat
         /\ lease.token <= lease'.token
         /\ \A k \in Key : log[k] # NoEvent => log'[k] = log[k]
<1> USE DEF TypeOK, LeaseTypeOK
<1>1. lease.token \in Nat /\ lease'.token \in Nat
  BY DEF Row
<1>2. CASE Extends
  BY <1>1, <1>2 DEF Extends, HeartbeatTxn, Current, HeldRow
<1>3. ASSUME NEW k \in Key, NEW e \in Event, Appends(k, e), Grants(e) \/ Frees(e)
      PROVE  /\ lease.token <= lease'.token
             /\ \A j \in Key : log[j] # NoEvent => log'[j] = log[j]
  BY <1>1, <1>3 DEF Appends, Grants, Frees
<1>4. QED
  BY <1>1, <1>2, <1>3 DEF StoreStep

(* What was granted stays granted: a belief is never retracted by the log. *)
LEMMA GrantStable ==
  ASSUME TypeOK, TypeOK', StoreStep, NEW c \in Owner, NEW t, GrantedTo(c, t)
  PROVE  GrantedTo(c, t)'
<1>1. PICK k \in Key : IsGrant(k) /\ log[k].to = t /\ log[k].owner = c
  BY DEF GrantedTo
<1>2. log[k] # NoEvent
  BY <1>1 DEF IsGrant, GrantType, NoEvent
<1>3. log'[k] = log[k]
  BY <1>2, TokenMonotone
<1>4. QED
  BY <1>1, <1>3 DEF GrantedTo, IsGrant

(* A grant or a revoke mints exactly the next token, a release none: every *)
(* store transaction keeps this of the events it appends.                  *)
LEMMA ShapePreserved ==
  ASSUME TypeOK, TypeOK', EventShape, StoreStep
  PROVE  EventShape'
<1> USE DEF TypeOK, LeaseTypeOK
<1>1. CASE UNCHANGED log
  BY <1>1 DEF EventShape
<1>2. ASSUME NEW k \in Key, NEW e \in Event, Appends(k, e), Grants(e) \/ Frees(e)
      PROVE  EventShape'
  <2>1. /\ e.type \in GrantType \cup {"FORCE_REVOKE"} => e.to = e.from + 1
        /\ e.type \in {"RELEASE", "NONE"} => e.to = e.from
    BY <1>2 DEF Appends, Grants, Frees, GrantType
  <2>2. QED  BY <1>2, <2>1 DEF Appends, EventShape
<1>3. QED
  BY <1>1, <1>2 DEF StoreStep, Extends, HeartbeatTxn

(* The row and its events are written by one transaction, so they go on    *)
(* agreeing after it: each token minted once, a HELD row granted and not   *)
(* given back.                                                             *)
LEMMA LedgerPreserved ==
  ASSUME TypeOK, TypeOK', NothingAhead, EventShape, LedgerAgrees, StoreStep
  PROVE  LedgerAgrees'
<1> USE DEF TypeOK, LeaseTypeOK
<1>0. lease.token \in Nat /\ lease'.token \in Nat
  BY TokenMonotone
<1>1. CASE UNCHANGED <<lease, log>>
  BY <1>1 DEF LedgerAgrees, MintedOnce, Mints, GrantedTo, IsGrant
<1>2. CASE Extends
  <2>1. /\ log' = log /\ lease'.token = lease.token /\ lease'.owner = lease.owner
        /\ lease.state = "HELD"
    BY <1>2 DEF Extends, HeartbeatTxn, Current, HeldRow
  <2>2. QED  BY <2>1 DEF LedgerAgrees, MintedOnce, Mints, GrantedTo, IsGrant
<1>3. ASSUME NEW k \in Key, NEW e \in Event, Appends(k, e), Grants(e) \/ Frees(e)
      PROVE  LedgerAgrees'
  <2>1. log'[k] = e /\ \A j \in Key : j # k => log'[j] = log[j]
    BY <1>3 DEF Appends
  <2>2. \A j \in Key : /\ log[j].from \in Nat /\ log[j].to \in Nat
                       /\ log[j].to <= lease.token
    BY DEF NothingAhead, Event, NoEvent
  <2>3. /\ e.from = lease.token /\ e.to = lease'.token
        /\ lease'.token = lease.token \/ lease'.token = lease.token + 1
    BY <1>3 DEF Appends, Grants, Frees
  <2>4. \A j \in Key, t \in Nat : j # k => (Mints(j, t)' <=> Mints(j, t))
    BY <2>1 DEF Mints
  <2>5. \A t \in Nat : Mints(k, t) => FALSE
    BY <1>3 DEF Appends, Mints, NoEvent
  <2>6. \A t \in Nat : Mints(k, t)' <=> t = lease'.token /\ lease'.token = lease.token + 1
    BY <1>0, <2>1, <2>3 DEF Mints
  <2>7. \A t \in 1..lease'.token : \E j \in Key : Mints(j, t)'
    <3>1. SUFFICES ASSUME NEW t \in 1..lease'.token
                   PROVE  \E j \in Key : Mints(j, t)'
      OBVIOUS
    <3>2. CASE t \in 1..lease.token
      <4>1. PICK j \in Key : Mints(j, t)
        BY <3>2 DEF LedgerAgrees, MintedOnce
      <4>2. j # k
        BY <2>5, <4>1
      <4>3. QED  BY <2>4, <4>1, <4>2
    <3>3. CASE t \notin 1..lease.token
      BY <1>0, <2>3, <2>6, <3>3
    <3>4. QED  BY <3>2, <3>3
  <2>8. \A i, j \in Key, t \in Nat : Mints(i, t)' /\ Mints(j, t)' => i = j
    <3>1. SUFFICES ASSUME NEW i \in Key, NEW j \in Key, NEW t \in Nat,
                          Mints(i, t)', Mints(j, t)', i # j
                   PROVE  FALSE
      OBVIOUS
    <3>2. i # k /\ j # k
      BY <1>0, <2>2, <2>4, <2>6, <3>1 DEF Mints
    <3>3. Mints(i, t) /\ Mints(j, t) /\ log[i].to = t
      BY <2>4, <3>1, <3>2 DEF Mints
    <3>4. QED  BY <3>1, <3>3 DEF LedgerAgrees, MintedOnce
  <2>9. MintedOnce'
    <3>1. \A j \in Key : log'[j].to \in Nat
      BY <1>0, <2>1, <2>2, <2>3
    <3>2. QED  BY <2>7, <2>8, <3>1 DEF MintedOnce
  <2>10. ASSUME lease'.state = "HELD"
         PROVE  /\ GrantedTo(lease.owner, lease.token)'
                /\ \A j \in Key : log'[j].type \in {"RELEASE", "FORCE_REVOKE"}
                                    => log'[j].from < lease'.token
    <3>1. Grants(e)
      BY <1>3, <2>10 DEF Frees, FreeRow
    <3>2. GrantedTo(lease.owner, lease.token)'
      BY <2>1, <2>3, <3>1 DEF Grants, GrantedTo, IsGrant
    <3>3. ASSUME NEW j \in Key, log'[j].type \in {"RELEASE", "FORCE_REVOKE"}
          PROVE  log'[j].from < lease'.token
      <4>1. j # k
        BY <2>1, <3>1, <3>3 DEF Grants, GrantType
      <4>2. log'[j] = log[j] /\ log[j].from <= log[j].to
        BY <2>1, <2>2, <3>3, <4>1 DEF EventShape
      <4>3. QED  BY <1>0, <2>2, <3>1, <4>2 DEF Grants
    <3>4. QED  BY <3>2, <3>3
  <2>11. QED  BY <2>9, <2>10 DEF LedgerAgrees
<1>4. QED
  BY <1>1, <1>2, <1>3 DEF StoreStep

-----------------------------------------------------------------------------
(* The processes' side of a step: a call is left alone, returns, starts at *)
(* the present clock, or moves on to its read-back; a process learns a     *)
(* token only from a read-back and binds only a token it holds.            *)
CallStep(c) ==
  \/ call'[c] = call[c]
  \/ call'[c] = Idle
  \/ /\ call'[c].now = clock /\ clock' = clock /\ lease' = lease
     /\ \/ call'[c].token = 0 /\ call'[c].op = "acquire"
        \/ call'[c].token = held[c] /\ call'[c].op \in {"heartbeat", "release"}
        \/ call'[c].token = lease.token /\ call'[c].op = "revoke"
  \/ /\ call'[c].now = call[c].now
     /\ \/ /\ call'[c].op = "acquire_readback" /\ call'[c].token = lease'.token
           /\ GrantedTo(c, lease.token)'
        \/ call'[c].op = "heartbeat_readback" /\ call'[c].token = call[c].token

ProcessStep ==
  /\ clock <= clock'
  /\ lastWrite' = lastWrite \/ \E c \in Owner : lastWrite' = authority[c] /\ lease' = lease
                                                /\ authority[c] = lease.token
  /\ \A c \in Owner :
       /\ CallStep(c)
       /\ \/ held'[c] \in {held[c], 0}
          \/ call[c].op = "acquire_readback" /\ held'[c] = call[c].token
       /\ \/ authority'[c] \in {authority[c], 0}
          \/ held[c] # 0 /\ authority'[c] = held[c]

(* What a step does to the calls, tokens and authorities of the processes: *)
(* at most one of them changes, and it learns only what the row says.      *)
LEMMA StepIsProcessStep == TypeOK /\ TypeOK' /\ [Next]_vars => ProcessStep
<1> SUFFICES ASSUME TypeOK, TypeOK', [Next]_vars PROVE ProcessStep
  OBVIOUS
<1> USE DEF TypeOK, LeaseTypeOK
<1>1. CASE TimePasses
  BY <1>1 DEF TimePasses, Tick, ProcessStep, CallStep
<1>2. ASSUME NEW c \in Owner,
             StartAcquire(c) \/ StartHeartbeat(c) \/ StartRelease(c) \/ StartRevoke(c)
      PROVE  ProcessStep
  BY <1>2 DEF StartAcquire, StartHeartbeat, StartRelease, StartRevoke, Start,
     ProcessStep, CallStep
<1>3. ASSUME NEW c \in Owner, DoAcquire(c)
      PROVE  ProcessStep
  <2>0. call[c].key \in Key
    BY <1>3 DEF DoAcquire
  <2>1. GrantedTo(c, lease.token)'
    <3>1. CASE AcquireReplay(c, call[c].key)
      BY <2>0, <3>1 DEF AcquireReplay, leaseVars, GrantedTo, IsGrant
    <3>2. CASE AcquireTxn(c, call[c].key, call[c].now)
      <4>1. /\ log'[call[c].key].type \in GrantType /\ log'[call[c].key].owner = c
            /\ log'[call[c].key].to = lease'.token
        BY <2>0, <3>2 DEF AcquireTxn, Record, HeldRow, GrantType
      <4>2. QED  BY <2>0, <4>1 DEF GrantedTo, IsGrant
    <3>3. QED  BY <1>3, <3>1, <3>2 DEF DoAcquire
  <2>2. clock' = clock
    BY <1>3 DEF DoAcquire, AcquireTxn, AcquireReplay, leaseVars
  <2>3. /\ call'[c].op = "acquire_readback" /\ call'[c].token = lease'.token
        /\ call'[c].now = call[c].now
        /\ \A d \in Owner : d # c => call'[d] = call[d]
    BY <1>3 DEF DoAcquire, ReadBack, Call
  <2>4. \A d \in Owner : CallStep(d)
    BY <2>1, <2>3 DEF CallStep
  <2>5. QED  BY <1>3, <2>2, <2>4 DEF DoAcquire, ProcessStep
<1>4. ASSUME NEW c \in Owner, DoHeartbeat(c)
      PROVE  ProcessStep
  <2>1. /\ call'[c].op = "heartbeat_readback" /\ call'[c].token = call[c].token
        /\ call'[c].now = call[c].now
        /\ \A d \in Owner : d # c => call'[d] = call[d]
    BY <1>4 DEF DoHeartbeat, ReadBack, Call
  <2>2. QED  BY <1>4, <2>1 DEF DoHeartbeat, HeartbeatTxn, ProcessStep, CallStep
<1>5. ASSUME NEW c \in Owner, AcquireReturns(c) \/ HeartbeatReturns(c) \/ CallFails(c) \/ Crash(c)
      PROVE  ProcessStep
  BY <1>5 DEF AcquireReturns, HeartbeatReturns, CallFails, Crash, Return,
     ProcessStep, CallStep
<1>6. ASSUME NEW c \in Owner, DoRelease(c) \/ DoRevoke(c)
      PROVE  ProcessStep
  <2>1. clock' = clock
    BY <1>6 DEF DoRelease, DoRevoke, ReleaseTxn, ForceRevokeTxn, FreeReplay, leaseVars
  <2>2. QED  BY <1>6, <2>1 DEF DoRelease, DoRevoke, Return, ProcessStep, CallStep
<1>7. ASSUME NEW c \in Owner, Bind(c) \/ Unbind(c) \/ OrdinaryWrite(c)
      PROVE  ProcessStep
  BY <1>7 DEF Bind, Unbind, OrdinaryWrite, Current, ProcessStep, CallStep
<1>8. CASE UNCHANGED vars
  BY <1>8 DEF vars, ProcessStep, CallStep
<1>9. QED
  BY <1>1, <1>2, <1>3, <1>4, <1>5, <1>6, <1>7, <1>8 DEF Next

(* A process learns a token only from a read-back of a grant of its own,   *)
(* and a grant, once recorded, is never lost.                              *)
LEMMA BeliefsPreserved ==
  ASSUME TypeOK, TypeOK', BeliefsGranted, StoreStep, ProcessStep
  PROVE  BeliefsGranted'
<1> SUFFICES ASSUME NEW c \in Owner
             PROVE  /\ held'[c] # 0 => GrantedTo(c, held[c])'
                    /\ authority'[c] # 0 => GrantedTo(c, authority[c])'
                    /\ call'[c].op = "acquire_readback" => GrantedTo(c, call[c].token)'
  BY DEF BeliefsGranted
<1>0. ASSUME NEW t, GrantedTo(c, t)
      PROVE  \E k \in Key : log'[k].type \in GrantType /\ log'[k].to = t /\ log'[k].owner = c
  <2>1. GrantedTo(c, t)'
    BY <1>0, GrantStable
  <2>2. QED  BY <2>1 DEF GrantedTo, IsGrant
<1>1. held'[c] # 0 => GrantedTo(c, held[c])'
  BY <1>0 DEF ProcessStep, BeliefsGranted, GrantedTo, IsGrant
<1>2. authority'[c] # 0 => GrantedTo(c, authority[c])'
  BY <1>0 DEF ProcessStep, BeliefsGranted, GrantedTo, IsGrant
<1>3. call'[c].op = "acquire_readback" => GrantedTo(c, call[c].token)'
  BY <1>0 DEF ProcessStep, CallStep, BeliefsGranted, Idle, GrantedTo, IsGrant
<1>4. QED
  BY <1>1, <1>2, <1>3

(* No token in flight is newer than the row's, no time is in the future:   *)
(* the clock and the token only go up.                                     *)
LEMMA AheadPreserved ==
  ASSUME TypeOK, TypeOK', NothingAhead, StoreStep, ProcessStep
  PROVE  NothingAhead'
<1> USE DEF TypeOK, LeaseTypeOK
<1>0. /\ lease.token \in Nat /\ lease'.token \in Nat /\ lease.token <= lease'.token
      /\ clock <= clock'
  BY TokenMonotone DEF ProcessStep
<1>1. lease'.acquired <= clock' /\ lease'.heartbeat <= clock'
  <2>1. CASE lease' = lease
    BY <1>0, <2>1 DEF NothingAhead, Row
  <2>2. \A c \in Owner : call[c].now \in Nat /\ call[c].now <= clock'
    BY <1>0 DEF NothingAhead, Call
  <2>3. CASE Extends
    BY <1>0, <2>2, <2>3 DEF Extends, HeartbeatTxn, HeldRow, NothingAhead, Row
  <2>4. ASSUME NEW e \in Event, Grants(e)
        PROVE  lease'.acquired <= clock' /\ lease'.heartbeat <= clock'
    BY <2>2, <2>4 DEF Grants, HeldRow
  <2>5. ASSUME NEW e \in Event, Frees(e)
        PROVE  lease'.acquired <= clock' /\ lease'.heartbeat <= clock'
    BY <2>5 DEF Frees, FreeRow
  <2>6. QED  BY <2>1, <2>3, <2>4, <2>5 DEF StoreStep
<1>2. ASSUME NEW k \in Key
      PROVE  log'[k].to <= lease'.token
  <2>0. log[k].to \in Nat /\ log[k].to <= lease.token
    BY DEF NothingAhead, Event, NoEvent
  <2>1. CASE log' = log
    BY <1>0, <2>0, <2>1
  <2>2. ASSUME NEW j \in Key, NEW e \in Event, Appends(j, e)
        PROVE  log'[k].to <= lease'.token
    BY <1>0, <2>0, <2>2 DEF Appends
  <2>3. QED  BY <2>1, <2>2 DEF StoreStep, Extends, HeartbeatTxn
<1>3. ASSUME NEW c \in Owner
      PROVE  /\ held'[c] <= lease'.token
             /\ authority'[c] <= lease'.token
             /\ call'[c].token <= lease'.token
             /\ call'[c].now <= clock'
  <2>1. /\ held[c] \in Nat /\ authority[c] \in Nat
        /\ call[c].token \in Nat /\ call[c].now \in Nat
        /\ held[c] <= lease.token /\ authority[c] <= lease.token
        /\ call[c].token <= lease.token /\ call[c].now <= clock
    BY DEF NothingAhead, Call
  <2>2. held'[c] <= lease'.token /\ authority'[c] <= lease'.token
    BY <1>0, <2>1 DEF ProcessStep
  <2>3. call'[c].token <= lease'.token /\ call'[c].now <= clock'
    BY <1>0, <2>1 DEF ProcessStep, CallStep, Idle
  <2>4. QED  BY <2>2, <2>3
<1>4. lastWrite' <= lease'.token
  BY <1>0 DEF ProcessStep, NothingAhead
<1>5. QED
  BY <1>1, <1>2, <1>3, <1>4 DEF NothingAhead

(* A heartbeat in flight for a new grant cannot exist yet: its token would *)
(* have to be newer than the row.                                          *)
LEMMA HeartbeatOrderPreserved ==
  ASSUME TypeOK, TypeOK', NothingAhead, HeartbeatAfterGrant, StoreStep, ProcessStep
  PROVE  HeartbeatAfterGrant'
<1> USE DEF TypeOK, LeaseTypeOK
<1> SUFFICES ASSUME NEW c \in Owner, call'[c].op = "heartbeat", lease'.state = "HELD",
                    call'[c].token = lease'.token
             PROVE  lease'.acquired <= call'[c].now
  BY DEF HeartbeatAfterGrant
<1>0. /\ lease.token \in Nat /\ lease.acquired \in Nat /\ lease.acquired <= clock
      /\ call[c].token \in Nat /\ call[c].token <= lease.token
      /\ held[c] \in Nat /\ held[c] <= lease.token
  BY DEF NothingAhead, Row, Call
<1>1. \/ call'[c] = call[c]
      \/ lease' = lease /\ call'[c].now = clock
  BY DEF ProcessStep, CallStep, Idle
<1>2. CASE lease' = lease
  BY <1>0, <1>1, <1>2 DEF HeartbeatAfterGrant
<1>3. CASE call'[c] = call[c] /\ Extends
  BY <1>3 DEF Extends, HeartbeatTxn, HeldRow, Current, HeartbeatAfterGrant
<1>4. ASSUME NEW e \in Event, Grants(e), call'[c] = call[c]
      PROVE  FALSE
  BY <1>0, <1>4 DEF Grants
<1>5. ASSUME NEW e \in Event, Frees(e)
      PROVE  FALSE
  BY <1>5 DEF Frees, FreeRow
<1>6. QED
  BY <1>1, <1>2, <1>3, <1>4, <1>5 DEF StoreStep

(* Each transaction leaves a row that passes the CHECK of schema v6; for a *)
(* late heartbeat this needs HeartbeatAfterGrant.                          *)
LEMMA RowPreserved ==
  ASSUME TypeOK, RowValid, HeartbeatAfterGrant, StoreStep
  PROVE  RowValid'
<1> USE LeaseAssumption DEF TypeOK, LeaseTypeOK
<1>1. CASE lease' = lease
  BY <1>1 DEF RowValid, FreeRow
<1>2. CASE Extends
  BY <1>2 DEF Extends, HeartbeatTxn, Current, HeldRow, RowValid, HeartbeatAfterGrant, Call
<1>3. ASSUME NEW e \in Event, Grants(e)
      PROVE  RowValid'
  BY <1>3 DEF Grants, HeldRow, RowValid, Call
<1>4. ASSUME NEW e \in Event, Frees(e)
      PROVE  RowValid'
  BY <1>4 DEF Frees, FreeRow, RowValid
<1>5. QED
  BY <1>1, <1>2, <1>3, <1>4 DEF StoreStep

-----------------------------------------------------------------------------
(* The inductive invariant holds in every reachable state. *)
THEOREM InductiveInvariant == Spec => []IInv
<1>1. Init => IInv
  <2> SUFFICES ASSUME Init PROVE IInv
    OBVIOUS
  <2>1. TypeOK
    BY LeaseAssumption DEF Init, LeaseInit, TypeOK, LeaseTypeOK, FreeRow, Row, NoEvent,
       Event, Call, Op, Idle
  <2>2. NothingAhead /\ EventShape
    BY DEF Init, LeaseInit, NothingAhead, EventShape, FreeRow, NoEvent, Idle, GrantType
  <2>3. LedgerAgrees
    BY DEF Init, LeaseInit, LedgerAgrees, MintedOnce, Mints, FreeRow, NoEvent
  <2>4. BeliefsGranted /\ HeartbeatAfterGrant /\ RowValid
    BY DEF Init, LeaseInit, BeliefsGranted, HeartbeatAfterGrant, RowValid, FreeRow, Idle
  <2>5. QED  BY <2>1, <2>2, <2>3, <2>4 DEF IInv
<1>2. IInv /\ TypeOK' /\ [Next]_vars => IInv'
  <2> SUFFICES ASSUME IInv, TypeOK', [Next]_vars PROVE IInv'
    OBVIOUS
  <2>1. TypeOK /\ StoreStep /\ ProcessStep
    BY StepIsStoreStep, StepIsProcessStep DEF IInv
  <2>2. NothingAhead'
    BY <2>1, AheadPreserved DEF IInv
  <2>3. EventShape'
    BY <2>1, ShapePreserved DEF IInv
  <2>4. LedgerAgrees'
    BY <2>1, LedgerPreserved DEF IInv
  <2>5. BeliefsGranted'
    BY <2>1, BeliefsPreserved DEF IInv
  <2>6. HeartbeatAfterGrant'
    BY <2>1, HeartbeatOrderPreserved DEF IInv
  <2>7. RowValid'
    BY <2>1, RowPreserved DEF IInv
  <2>8. QED  BY <2>2, <2>3, <2>4, <2>5, <2>6, <2>7 DEF IInv
<1>3. QED
  BY <1>1, <1>2, TypeInvariant, PTL DEF Spec

(* The row always satisfies the schema's CHECK, whichever transaction, late *)
(* or not, wrote it last.                                                   *)
THEOREM RowAlwaysValid == Spec => []RowValid
<1>1. IInv => RowValid
  BY DEF IInv
<1>2. QED
  BY <1>1, InductiveInvariant, PTL

(* The lease row and its audit trail never tell different stories.         *)
THEOREM LedgerAlwaysAgrees == Spec => []LedgerAgrees
<1>1. IInv => LedgerAgrees
  BY DEF IInv
<1>2. QED
  BY <1>1, InductiveInvariant, PTL

(* No two processes ever hold, or are bound to, the same fencing token. *)
THEOREM ExclusiveTokens == Spec => []TokenExclusive
<1>1. IInv => TokenExclusive
  <2> SUFFICES ASSUME IInv, NEW c \in Owner, NEW d \in Owner, c # d, held[c] # 0,
                      NEW t \in {held[d], authority[d]}, held[c] = t
               PROVE  FALSE
    BY DEF TokenExclusive
  <2>1. GrantedTo(c, t) /\ GrantedTo(d, t)
    BY DEF IInv, BeliefsGranted
  <2>2. PICK j \in Key : IsGrant(j) /\ log[j].to = t /\ log[j].owner = c
    BY <2>1 DEF GrantedTo
  <2>3. PICK k \in Key : IsGrant(k) /\ log[k].to = t /\ log[k].owner = d
    BY <2>1 DEF GrantedTo
  <2>4. Mints(j, t) /\ Mints(k, t)
    <3>1. /\ log[j].from \in Nat /\ log[j].to = log[j].from + 1
          /\ log[k].from \in Nat /\ log[k].to = log[k].from + 1
      BY <2>2, <2>3 DEF IInv, TypeOK, LeaseTypeOK, EventShape, IsGrant, Event, NoEvent
    <3>2. QED  BY <2>2, <2>3, <3>1 DEF Mints
  <2>5. j = k
    BY <2>2, <2>4 DEF IInv, LedgerAgrees, MintedOnce
  <2>6. QED  BY <2>2, <2>3, <2>5
<1>2. QED
  BY <1>1, InductiveInvariant, PTL

(* A token that stopped being held is never held again; an owner is        *)
(* displaced only after its lease expired; ordinary writes never go back   *)
(* to an older token.                                                      *)
THEOREM FencingHolds == Spec => NoRevival /\ TakeoverAfterExpiry /\ WritesFenced
<1> DEFINE Fenced == /\ lease'.state = "HELD" /\ (lease.state = "FREE" \/ lease'.token # lease.token)
                          => lease'.token > lease.token
                     /\ lease.state = "HELD" /\ lease'.state = "HELD" /\ lease'.token # lease.token
                          => lease.expires <= clock
                     /\ lastWrite' >= lastWrite
<1>1. IInv /\ TypeOK' /\ [Next]_vars => Fenced
  <2> SUFFICES ASSUME IInv, TypeOK', [Next]_vars PROVE Fenced
    OBVIOUS
  <2>1. TypeOK /\ StoreStep /\ ProcessStep
    BY StepIsStoreStep, StepIsProcessStep DEF IInv
  <2>2. lastWrite' >= lastWrite
    BY <2>1 DEF ProcessStep, IInv, NothingAhead, TypeOK
  <2>3. lease.token \in Nat /\ lease'.token \in Nat
    BY <2>1, TokenMonotone
  <2>4. /\ lease'.state = "HELD" /\ (lease.state = "FREE" \/ lease'.token # lease.token)
             => lease'.token > lease.token
        /\ lease.state = "HELD" /\ lease'.state = "HELD" /\ lease'.token # lease.token
             => lease.expires <= clock
    <3>1. CASE lease' = lease
      BY <3>1 DEF IInv, TypeOK, LeaseTypeOK, Row
    <3>2. CASE Extends
      BY <3>2 DEF Extends, HeartbeatTxn, Current, HeldRow
    <3>3. ASSUME NEW e \in Event, Grants(e)
          PROVE  /\ lease'.token > lease.token
                 /\ lease.state = "HELD" => lease.expires <= clock
      <4>1. \A c \in Owner : call[c].now \in Nat /\ call[c].now <= clock
        BY DEF IInv, TypeOK, NothingAhead, Call
      <4>2. lease.expires \in Nat /\ clock \in Nat
        BY DEF IInv, TypeOK, LeaseTypeOK, Row
      <4>3. PICK c \in Owner : lease.state = "HELD" => lease.expires <= call[c].now
        BY <3>3 DEF Grants
      <4>4. lease'.token > lease.token
        BY <2>3, <3>3 DEF Grants
      <4>5. QED  BY <4>1, <4>2, <4>3, <4>4
    <3>4. ASSUME NEW e \in Event, Frees(e)
          PROVE  lease'.state = "FREE"
      BY <3>4 DEF Frees, FreeRow
    <3>5. QED  BY <2>1, <3>1, <3>2, <3>3, <3>4 DEF StoreStep
  <2>5. QED  BY <2>2, <2>4
<1>2. IInv /\ TypeOK' /\ [Next]_vars => [Fenced]_vars
  BY <1>1
<1>3. QED
  BY <1>2, InductiveInvariant, TypeInvariant, PTL
     DEF Spec, NoRevival, TakeoverAfterExpiry, WritesFenced

-----------------------------------------------------------------------------
(* The lease protocol implements the abstract lock. *)

(* Each token has one minting event, found whichever way it is looked for. *)
LEMMA MinterFound ==
  ASSUME MintedOnce, NEW k \in Key, NEW t, Mints(k, t)
  PROVE  Minter(t) = k
<1>1. \A j \in Key : Mints(j, t) => j = k
  BY DEF MintedOnce, Mints
<1>2. QED
  BY <1>1 DEF Minter

(* Appending an event changes nothing of the tokens minted before: the     *)
(* audit trail is append-only.                                             *)
LEMMA GranteeKept ==
  ASSUME TypeOK, TypeOK', IInv, IInv', NEW k \in Key, log[k] = NoEvent,
         \A j \in Key : j # k => log'[j] = log[j],
         lease'.token >= lease.token,
         NEW t \in 1..lease.token
  PROVE  MintedFor(t)' = MintedFor(t)
<1> lease.token \in Nat /\ lease'.token \in Nat
  BY DEF TypeOK, LeaseTypeOK, Row
<1>1. PICK j \in Key : Mints(j, t)
  BY DEF IInv, LedgerAgrees, MintedOnce
<1>2. j # k
  BY <1>1 DEF Mints, NoEvent
<1>3. Mints(j, t)' /\ log'[j] = log[j]
  BY <1>1, <1>2 DEF Mints
<1>4. Minter(t) = j
  BY <1>1, MinterFound DEF IInv, LedgerAgrees
<1>5. Minter(t)' = j
  <2>1. \A i \in Key : Mints(i, t)' => i = j
    BY <1>3 DEF IInv, LedgerAgrees, MintedOnce, Mints
  <2>2. QED
    BY <1>3, <2>1 DEF Minter
<1>6. QED
  BY <1>3, <1>4, <1>5 DEF MintedFor, IsGrant

Grantees == [t \in 1..lease.token |-> MintedFor(t)]

(* An event that mints no token leaves the grantees as they are. *)
LEMMA NothingMinted ==
  ASSUME TypeOK, TypeOK', IInv, IInv', NEW k \in Key, log[k] = NoEvent,
         \A j \in Key : j # k => log'[j] = log[j],
         lease'.token = lease.token
  PROVE  Grantees' = Grantees
<1>1. lease'.token >= lease.token
  BY DEF TypeOK, LeaseTypeOK, Row
<1>2. \A t \in 1..lease.token : MintedFor(t)' = MintedFor(t)
  BY <1>1, GranteeKept
<1>3. QED
  BY <1>2 DEF Grantees

(* A grant gives the next token to the event's owner, a revocation burns   *)
(* it, and the older tokens keep their grantees.                           *)
LEMMA OneMinted ==
  ASSUME TypeOK, TypeOK', IInv, IInv', NEW k \in Key, log[k] = NoEvent,
         \A j \in Key : j # k => log'[j] = log[j],
         NEW n, n = lease.token + 1, lease'.token = n,
         log'[k].from = lease.token, log'[k].to = n,
         NEW o, o = IF log'[k].type \in GrantType THEN log'[k].owner ELSE NoOwner
  PROVE  Grantees' = [t \in 1..n |->
                        IF t = n THEN o ELSE Grantees[t]]
<1> lease.token \in Nat
  BY DEF TypeOK, LeaseTypeOK, Row
<1>1. ASSUME NEW t \in 1..lease.token PROVE MintedFor(t)' = Grantees[t]
  BY GranteeKept DEF Grantees
<1>2. MintedFor(n)' = o
  <2>1. Mints(k, n)'
    BY DEF Mints
  <2>2. \A i \in Key : Mints(i, n)' => i = k
    BY <2>1 DEF IInv, LedgerAgrees, MintedOnce, Mints
  <2>3. Minter(n)' = k
    BY <2>1, <2>2 DEF Minter
  <2>4. MintedFor(n)' = IF IsGrant(k)' THEN log'[k].owner ELSE NoOwner
    BY <2>3 DEF MintedFor, IsGrant
  <2>5. QED
    BY <2>4 DEF IsGrant, GrantType
<1>3. QED
  <2>1. Grantees' = [t \in 1..n |-> MintedFor(t)']
    BY DEF Grantees
  <2>2. \A t \in 1..n :
          MintedFor(t)' = IF t = n THEN o ELSE Grantees[t]
    BY <1>1, <1>2
  <2>3. QED
    BY <2>1, <2>2

-----------------------------------------------------------------------------
(* The initial row is the initial lock. *)
LEMMA InitImplements == Init => Lock!Init
  BY DEF Init, LeaseInit, FreeRow, Lock!Init

(* Each step of the protocol is a step of the lock or invisible to it.     *)
LEMMA StepImplements ==
  TypeOK /\ TypeOK' /\ IInv /\ IInv' /\ [Next]_vars => [Lock!Next]_(Lock!vars)
<1> SUFFICES ASSUME TypeOK, TypeOK', IInv, IInv', [Next]_vars
             PROVE  [Lock!Next]_(Lock!vars)
  OBVIOUS
<1> USE DEF Lock!Next, Lock!vars, Lock!lock
<1>0. /\ lease.token \in Nat /\ lease.expires \in Nat /\ lease'.expires \in Nat
      /\ clock \in Nat /\ clock' \in Nat
      /\ lease.state = "HELD" => lease.owner \in Owner /\ lease.owner # NoOwner
      /\ lease.state = "FREE" => lease.owner = NoOwner
      /\ lease.state \in {"FREE", "HELD"}
      /\ \A c \in Owner : call[c].now \in Nat /\ call[c].now <= clock
  BY LeaseAssumption DEF TypeOK, LeaseTypeOK, Row, Call, IInv, RowValid, FreeRow, NothingAhead
<1>same. ASSUME UNCHANGED <<lease, log>> PROVE Grantees' = Grantees
  BY <1>same DEF Grantees, MintedFor, Minter, Mints, IsGrant
<1>1. CASE TimePasses
  <2>1. Lock!Pass
    BY <1>0, <1>1, <1>same DEF TimePasses, Tick, Lock!Pass, Lock!lock, Grantees
  <2>2. QED
    BY <2>1
<1>2. ASSUME NEW c \in Owner,
             \/ StartAcquire(c) \/ StartHeartbeat(c) \/ StartRelease(c) \/ StartRevoke(c)
             \/ HeartbeatReturns(c) \/ CallFails(c) \/ Bind(c) \/ Unbind(c)
      PROVE  UNCHANGED Lock!vars
  <2>1. UNCHANGED <<clock, lease, log, held, lastWrite>>
    BY <1>2 DEF StartAcquire, StartHeartbeat, StartRelease, StartRevoke, Start,
       HeartbeatReturns, CallFails, Bind, Unbind
  <2>2. QED
    BY <2>1, <1>same DEF Grantees
<1>3. ASSUME NEW c \in Owner, DoAcquire(c)
      PROVE  [Lock!Next]_(Lock!vars)
  <2>1. CASE AcquireReplay(c, call[c].key)
    BY <1>3, <2>1, <1>same DEF AcquireReplay, DoAcquire, leaseVars, Grantees
  <2>2. CASE AcquireTxn(c, call[c].key, call[c].now)
    <3> DEFINE k == call[c].key
    <3>1. /\ k \in Key /\ log[k] = NoEvent
          /\ \A j \in Key : j # k => log'[j] = log[j]
          /\ lease' = HeldRow(c, lease.token + 1, call[c].now)
          /\ log'[k].type \in GrantType /\ log'[k].owner = c
          /\ log'[k].from = lease.token /\ log'[k].to = lease.token + 1
      BY <1>3, <2>2 DEF AcquireTxn, Record, DoAcquire, TypeOK, LeaseTypeOK, GrantType
    <3>2. lease'.token = lease.token + 1 /\ lease'.owner = c
      BY <3>1 DEF HeldRow
    <3>3. Grantees' = [t \in 1..lease.token + 1 |-> IF t = lease.token + 1 THEN c ELSE Grantees[t]]
      BY <3>1, <3>2, OneMinted
    <3>4. lease.owner = NoOwner \/ lease.expires <= clock
      BY <1>0, <2>2 DEF AcquireTxn
    <3>5. UNCHANGED <<clock, held, lastWrite>>
      BY <1>3, <2>2 DEF DoAcquire, AcquireTxn
    <3>6. Lock!Grant(c)
      BY <1>0, <3>2, <3>3, <3>4, <3>5 DEF Lock!Grant, Lock!Mint, Grantees
    <3>7. QED
      BY <3>6
  <2>3. QED
    BY <1>3, <2>1, <2>2 DEF DoAcquire
<1>4. ASSUME NEW c \in Owner, AcquireReturns(c)
      PROVE  Lock!Tell(c)
  BY <1>4, <1>same DEF AcquireReturns, Current, Lock!Tell, Lock!lock, Grantees
<1>5. ASSUME NEW c \in Owner, DoHeartbeat(c)
      PROVE  Lock!Extend
  <2>1. /\ lease'.owner = lease.owner /\ lease'.token = lease.token /\ lease.owner # NoOwner
        /\ UNCHANGED <<clock, log, held, lastWrite>>
    BY <1>0, <1>5 DEF DoHeartbeat, HeartbeatTxn, HeldRow, Current
  <2>2. Grantees' = Grantees
    BY <2>1 DEF Grantees, MintedFor, Minter, Mints, IsGrant
  <2>3. QED
    BY <1>0, <2>1, <2>2 DEF Lock!Extend, Lock!lock, Grantees
<1>6. ASSUME NEW c \in Owner, DoRelease(c)
      PROVE  Lock!Release(c) \/ Lock!Forget(c)
  <2>1. CASE FreeReplay("RELEASE", c, call[c].token, call[c].key)
    BY <1>6, <2>1, <1>same DEF FreeReplay, DoRelease, leaseVars, Lock!Forget, Lock!lock, Grantees
  <2>2. CASE ReleaseTxn(c, call[c].token, call[c].key, call[c].now)
    <3> DEFINE k == call[c].key
    <3>1. /\ k \in Key /\ log[k] = NoEvent
          /\ \A j \in Key : j # k => log'[j] = log[j]
          /\ lease' = FreeRow(lease.token) /\ lease.owner = c
      BY <1>6, <2>2 DEF ReleaseTxn, Record, Current, DoRelease, TypeOK, LeaseTypeOK
    <3>2. lease'.token = lease.token /\ lease'.owner = NoOwner /\ lease'.expires = 0
      BY <3>1 DEF FreeRow
    <3>3. Grantees' = Grantees
      BY <3>1, <3>2, NothingMinted
    <3>4. QED
      BY <1>6, <2>2, <3>1, <3>2, <3>3 DEF DoRelease, ReleaseTxn, Lock!Release, Grantees
  <2>3. QED
    BY <1>6, <2>1, <2>2 DEF DoRelease
<1>7. ASSUME NEW c \in Owner, DoRevoke(c)
      PROVE  [Lock!Next]_(Lock!vars)
  <2>1. CASE FreeReplay("FORCE_REVOKE", call[c].target, call[c].token, call[c].key)
    BY <1>7, <2>1, <1>same DEF FreeReplay, DoRevoke, leaseVars, Grantees
  <2>2. CASE ForceRevokeTxn(call[c].target, call[c].token, call[c].key, call[c].now)
    <3> DEFINE k == call[c].key
    <3>1. /\ k \in Key /\ log[k] = NoEvent
          /\ \A j \in Key : j # k => log'[j] = log[j]
          /\ lease' = FreeRow(lease.token + 1) /\ lease.owner # NoOwner
          /\ log'[k].type = "FORCE_REVOKE"
          /\ log'[k].from = lease.token /\ log'[k].to = lease.token + 1
      BY <1>0, <1>7, <2>2 DEF ForceRevokeTxn, Record, Current, DoRevoke, TypeOK, LeaseTypeOK
    <3>2. lease'.token = lease.token + 1 /\ lease'.owner = NoOwner /\ lease'.expires = 0
      BY <3>1 DEF FreeRow
    <3>3. Grantees' = [t \in 1..lease.token + 1 |-> IF t = lease.token + 1 THEN NoOwner ELSE Grantees[t]]
      BY <3>1, <3>2, OneMinted DEF GrantType
    <3>4. UNCHANGED <<clock, held, lastWrite>>
      BY <1>7, <2>2 DEF DoRevoke, ForceRevokeTxn
    <3>5. Lock!Revoke
      BY <3>1, <3>2, <3>3, <3>4 DEF Lock!Revoke, Lock!Mint, Grantees
    <3>6. QED
      BY <3>5
  <2>3. QED
    BY <1>7, <2>1, <2>2 DEF DoRevoke
<1>8. ASSUME NEW c \in Owner, Crash(c)
      PROVE  Lock!Forget(c)
  BY <1>8, <1>same DEF Crash, Lock!Forget, Lock!lock, Grantees
<1>9. ASSUME NEW c \in Owner, OrdinaryWrite(c)
      PROVE  Lock!Write
  BY <1>0, <1>9, <1>same DEF OrdinaryWrite, Current, Lock!Write, Lock!lock, Grantees
<1>10. CASE UNCHANGED vars
  BY <1>10, <1>same DEF vars, Grantees
<1>11. QED
  BY <1>1, <1>2, <1>3, <1>4, <1>5, <1>6, <1>7, <1>8, <1>9, <1>10 DEF Next

(* The writer lease implements the lock of FencedLock: every caller may    *)
(* reason with instantaneous grants, extensions, releases and revocations. *)
THEOREM LeaseImplementsLock == Spec => ImplementsLock
<1>1. Init => Lock!Init
  BY InitImplements
<1>2. TypeOK /\ TypeOK' /\ IInv /\ IInv' /\ [Next]_vars => [Lock!Next]_(Lock!vars)
  BY StepImplements
<1>3. QED
  BY <1>1, <1>2, TypeInvariant, InductiveInvariant, PTL DEF Spec, Lock!Spec, ImplementsLock

=============================================================================
