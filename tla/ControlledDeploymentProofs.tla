---------------------- MODULE ControlledDeploymentProofs ----------------------
(***************************************************************************)
(* Proofs about ControlledDeployment, for any number of runners, steps and *)
(* acquire attempts, and any TTL.                                          *)
(***************************************************************************)
EXTENDS ControlledDeployment, TLAPS

Types ==
  /\ LeaseTypeOK
  /\ unit \in Calls
  /\ sourceValid \in BOOLEAN
  /\ pc \in [Owner -> Stage]
  /\ now \in [Owner -> Nat]
  /\ attempts \in [Owner -> Nat]
  /\ token \in [Owner -> Nat]
  /\ ran \in [Owner -> Nat]
  /\ failed \in [Owner -> BOOLEAN]
  /\ beat \in [Owner -> {"off", "waiting", "beating", "dead"}]
  /\ beatNow \in [Owner -> Nat]
  /\ beatError \in [Owner -> BOOLEAN]
  /\ late \in [Owner -> Nat]
  /\ intruded \in [Owner -> BOOLEAN]

\* What happens to the lease row and the event table in a step of runner r or
\* of its heartbeat thread, or of an operator who revokes r's lease.
Grants(r) == AcquireTxn(r, <<r, "acquire">>, now[r])
Beats(r) == HeartbeatTxn(r, token[r], beatNow[r])
Releases(r) == ReleaseTxn(r, token[r], <<r, "release">>, now[r])
Revokes(r) == ForceRevokeTxn(r, lease.token, <<r, "revoke">>, clock)

(* The store's transactions keep the types of the row and of the events.   *)
LEMMA StoreTypes ==
  ASSUME Types, NEW r \in Owner,
         UNCHANGED <<lease, log>> \/ Grants(r) \/ Beats(r) \/ Releases(r) \/ Revokes(r),
         clock' \in Nat
  PROVE  LeaseTypeOK'
<1> USE DeploymentAssumption DEF Types, LeaseTypeOK, Row
<1>k. <<r, "acquire">> \in OpKey /\ <<r, "release">> \in OpKey /\ <<r, "revoke">> \in OpKey
  BY DEF OpKey
<1>1. CASE UNCHANGED <<lease, log>>
  BY <1>1
<1>2. CASE Grants(r)
  <2>1. PICK e \in Event : log' = [log EXCEPT ![<<r, "acquire">>] = e]
    BY <1>2 DEF Grants, AcquireTxn, Record, Event, EventType, GrantType
  <2>2. now[r] \in Nat /\ lease' = HeldRow(r, lease.token + 1, now[r])
    BY <1>2 DEF Grants, AcquireTxn
  <2>3. QED
    BY <2>1, <2>2, <1>k DEF HeldRow
<1>3. CASE Beats(r)
  BY <1>3 DEF Beats, HeartbeatTxn, Current, HeldRow
<1>4. CASE Releases(r)
  BY <1>4, <1>k DEF Releases, ReleaseTxn, Record, Current, FreeRow, Event, EventType
<1>5. CASE Revokes(r)
  BY <1>5, <1>k DEF Revokes, ForceRevokeTxn, Record, Current, FreeRow, Event, EventType
<1>6. QED
  BY <1>1, <1>2, <1>3, <1>4, <1>5

-----------------------------------------------------------------------------
(* Every variable keeps its type in every step. *)
LEMMA TypesKept == Types /\ [Next]_vars => Types'
<1> SUFFICES ASSUME Types, [Next]_vars PROVE Types'
  OBVIOUS
<1> USE DEF Types
<1>log. \A k \in OpKey : log[k].to \in Nat
  BY DEF LeaseTypeOK, Event, NoEvent
<1>time. clock \in Nat
  BY DEF LeaseTypeOK
<1>quiet. UNCHANGED storeVars => LeaseTypeOK'
  BY DEF storeVars, LeaseTypeOK
<1>1. ASSUME NEW r \in Owner, CheckPrior(r) PROVE Types'
  BY <1>1, <1>quiet, <1>time DEF CheckPrior, storeVars, runnerVars, beatVars, history, Stage, Go
<1>2. ASSUME NEW r \in Owner, SampleAcquire(r) PROVE Types'
  BY <1>2, <1>quiet, <1>time DEF SampleAcquire, storeVars, runnerVars, beatVars, history, Stage, Go
<1>3. ASSUME NEW r \in Owner, AcquireHeld(r) PROVE Types'
  BY <1>3, <1>quiet, <1>time DEF AcquireHeld, storeVars, runnerVars, beatVars, history, Stage, Go, CallEnds
<1>4. ASSUME NEW r \in Owner, AcquireReadback(r) PROVE Types'
  BY <1>4, <1>quiet, <1>time, <1>log DEF AcquireReadback, storeVars, runnerVars, beatVars, history, Stage, Go, OpKey
<1>5. ASSUME NEW r \in Owner, Enter(r) PROVE Types'
  BY <1>5, <1>quiet, <1>time DEF Enter, storeVars, runnerVars, beatVars, history, Stage, Go, Raise
<1>6. ASSUME NEW r \in Owner, AssertBefore(r) PROVE Types'
  BY <1>6, <1>quiet, <1>time DEF AssertBefore, storeVars, runnerVars, beatVars, history, Stage, Go, Raise
<1>7. ASSUME NEW r \in Owner, Effect(r) PROVE Types'
  BY <1>7, <1>quiet, <1>time DEF Effect, storeVars, runnerVars, beatVars, history, Stage, Go
<1>8. ASSUME NEW r \in Owner, EffectRaises(r) PROVE Types'
  BY <1>8, <1>quiet, <1>time DEF EffectRaises, storeVars, runnerVars, beatVars, history, Stage, Go, Raise
<1>9. ASSUME NEW r \in Owner, AssertAfter(r) PROVE Types'
  BY <1>9, <1>quiet, <1>time DEF AssertAfter, storeVars, runnerVars, beatVars, history, Stage, Go, Raise
<1>10. ASSUME NEW r \in Owner, PersistResult(r) PROVE Types'
  BY <1>10, <1>quiet, <1>time DEF PersistResult, storeVars, runnerVars, beatVars, history, Stage, Go
<1>11. ASSUME NEW r \in Owner, AssertFinal(r) PROVE Types'
  BY <1>11, <1>quiet, <1>time DEF AssertFinal, storeVars, runnerVars, beatVars, history, Stage, Go, Raise
<1>12. ASSUME NEW r \in Owner, Exit(r) PROVE Types'
  BY <1>12, <1>quiet, <1>time DEF Exit, storeVars, runnerVars, beatVars, history, Stage, Go
<1>13. ASSUME NEW r \in Owner, ReleaseFails(r) PROVE Types'
  BY <1>13, <1>quiet, <1>time DEF ReleaseFails, storeVars, runnerVars, beatVars, history, Stage, Go, CallEnds
<1>14. ASSUME NEW r \in Owner, Wake(r) PROVE Types'
  BY <1>14, <1>quiet, <1>time DEF Wake, storeVars, runnerVars, beatVars, history
<1>15. ASSUME NEW r \in Owner, HeartbeatFails(r) PROVE Types'
  BY <1>15, <1>quiet, <1>time DEF HeartbeatFails, storeVars, runnerVars, beatVars, history
<1>16. ASSUME NEW r \in Owner, Crash(r) PROVE Types'
  BY <1>16, <1>quiet, <1>time DEF Crash, storeVars, runnerVars, beatVars, history, Stage, CallEnds
<1>17. ASSUME NEW r \in Owner, Acquire(r) PROVE Types'
  <2>1. Grants(r)
    BY <1>17 DEF Acquire, Grants
  <2>2. LeaseTypeOK'
    BY <1>time, <2>1, StoreTypes DEF Grants, AcquireTxn
  <2>3. QED
    BY <1>17, <2>2 DEF Acquire, Go, CallEnds, Stage, beatVars, history
<1>18. ASSUME NEW r \in Owner, Release(r) PROVE Types'
  <2>1. Releases(r)
    BY <1>18 DEF Release, Releases
  <2>2. LeaseTypeOK'
    BY <1>time, <2>1, StoreTypes DEF Releases, ReleaseTxn
  <2>3. QED
    BY <1>18, <2>2 DEF Release, Go, CallEnds, Stage, beatVars, history
<1>19. ASSUME NEW r \in Owner, Heartbeat(r) PROVE Types'
  <2>1. Beats(r)
    BY <1>19 DEF Heartbeat, Beats
  <2>2. LeaseTypeOK'
    BY <1>time, <2>1, StoreTypes DEF Beats, HeartbeatTxn
  <2>3. QED
    BY <1>19, <2>2 DEF Heartbeat, runnerVars, history
<1>20. ASSUME NEW r \in Owner, OperatorRevokes(r) PROVE Types'
  <2>1. Revokes(r)
    BY <1>20 DEF OperatorRevokes, Revokes
  <2>2. LeaseTypeOK'
    BY <1>time, <2>1, StoreTypes DEF Revokes, ForceRevokeTxn
  <2>3. QED
    BY <1>20, <2>2 DEF OperatorRevokes, runnerVars, beatVars, history
<1>21. CASE SourceDrifts
  BY <1>21, <1>quiet DEF SourceDrifts, runnerVars, beatVars, history
<1>22. CASE TimePasses
  BY <1>22 DEF TimePasses, Tick, LeaseTypeOK, runnerVars, beatVars, history
<1>23. CASE UNCHANGED vars
  BY <1>23, <1>quiet DEF vars, storeVars, runnerVars, beatVars, history
<1>24. QED
  BY <1>1, <1>2, <1>3, <1>4, <1>5, <1>6, <1>7, <1>8, <1>9, <1>10, <1>11, <1>12, <1>13, <1>14,
     <1>15, <1>16, <1>17, <1>18, <1>19, <1>20, <1>21, <1>22, <1>23 DEF Next, Runner, HeartbeatThread

-----------------------------------------------------------------------------
Before == {"new", "acquire", "acquiring", "readback", "enter", "refused"}
Holding == {"enter", "before", "effect", "after", "persist", "final", "exit", "releasing"}

\* Where the main thread is says how many attempts and effects there were.
CountOK(r) ==
  /\ attempts[r] <= MaxAttempts /\ ran[r] <= Steps
  /\ pc[r] = "new" => attempts[r] = 0
  /\ pc[r] = "acquire" => attempts[r] < MaxAttempts
  /\ pc[r] \in Before => ran[r] = 0
  /\ pc[r] \in {"before", "effect"} => ran[r] < Steps
  /\ pc[r] \in {"persist", "final", "done"} => ran[r] = Steps
  /\ failed[r] => pc[r] \in {"exit", "releasing", "failed"}
  /\ pc[r] \in {"exit", "releasing"} => failed[r] \/ ran[r] = Steps

Counted == \A r \in Owner : CountOK(r)

(* Attempts stay within W08_ACQUIRE_MAX_ATTEMPTS, effects within the steps *)
(* of the deployment, and a run without a failure runs all of them.        *)
LEMMA CountsKept == Types /\ Counted /\ [Next]_vars => Counted'
<1> SUFFICES ASSUME Types, Counted, [Next]_vars, NEW q \in Owner PROVE CountOK(q)'
  BY DEF Counted
<1> USE DeploymentAssumption DEF Types, Counted, CountOK, Before, Ended
<1>1. ASSUME NEW r \in Owner, CheckPrior(r) PROVE CountOK(q)'
  BY <1>1 DEF CheckPrior, Go, runnerVars, history
<1>2. ASSUME NEW r \in Owner, SampleAcquire(r) PROVE CountOK(q)'
  BY <1>2 DEF SampleAcquire, Go, runnerVars, history
<1>3. ASSUME NEW r \in Owner, Acquire(r) PROVE CountOK(q)'
  BY <1>3 DEF Acquire, Go, CallEnds, runnerVars, history
<1>4. ASSUME NEW r \in Owner, AcquireHeld(r) PROVE CountOK(q)'
  BY <1>4 DEF AcquireHeld, Go, CallEnds, runnerVars, history
<1>5. ASSUME NEW r \in Owner, AcquireReadback(r) PROVE CountOK(q)'
  BY <1>5 DEF AcquireReadback, Go, runnerVars, history
<1>6. ASSUME NEW r \in Owner, Enter(r) PROVE CountOK(q)'
  BY <1>6 DEF Enter, Go, Raise, runnerVars, history
<1>7. ASSUME NEW r \in Owner, AssertBefore(r) PROVE CountOK(q)'
  BY <1>7 DEF AssertBefore, Go, Raise, runnerVars, history
<1>8. ASSUME NEW r \in Owner, Effect(r) PROVE CountOK(q)'
  BY <1>8 DEF Effect, Go, runnerVars, history
<1>9. ASSUME NEW r \in Owner, EffectRaises(r) PROVE CountOK(q)'
  BY <1>9 DEF EffectRaises, Go, Raise, runnerVars, history
<1>10. ASSUME NEW r \in Owner, AssertAfter(r) PROVE CountOK(q)'
  BY <1>10 DEF AssertAfter, Go, Raise, runnerVars, history
<1>11. ASSUME NEW r \in Owner, PersistResult(r) PROVE CountOK(q)'
  BY <1>11 DEF PersistResult, Go, runnerVars, history
<1>12. ASSUME NEW r \in Owner, AssertFinal(r) PROVE CountOK(q)'
  BY <1>12 DEF AssertFinal, Go, Raise, runnerVars, history
<1>13. ASSUME NEW r \in Owner, Exit(r) PROVE CountOK(q)'
  BY <1>13 DEF Exit, Go, runnerVars, history
<1>14. ASSUME NEW r \in Owner, Release(r) PROVE CountOK(q)'
  BY <1>14 DEF Release, Go, CallEnds, runnerVars, history
<1>15. ASSUME NEW r \in Owner, ReleaseFails(r) PROVE CountOK(q)'
  BY <1>15 DEF ReleaseFails, Go, CallEnds, runnerVars, history
<1>16. ASSUME NEW r \in Owner, Wake(r) PROVE CountOK(q)'
  BY <1>16 DEF Wake, runnerVars, history
<1>17. ASSUME NEW r \in Owner, Heartbeat(r) PROVE CountOK(q)'
  BY <1>17 DEF Heartbeat, runnerVars, history
<1>18. ASSUME NEW r \in Owner, HeartbeatFails(r) PROVE CountOK(q)'
  BY <1>18 DEF HeartbeatFails, runnerVars, history
<1>19. ASSUME NEW r \in Owner, Crash(r) PROVE CountOK(q)'
  BY <1>19 DEF Crash, CallEnds, runnerVars, history
<1>20. ASSUME NEW r \in Owner, OperatorRevokes(r) PROVE CountOK(q)'
  BY <1>20 DEF OperatorRevokes, runnerVars, history
<1>21. CASE SourceDrifts \/ TimePasses
  BY <1>21 DEF SourceDrifts, TimePasses, runnerVars
<1>22. CASE UNCHANGED vars
  BY <1>22 DEF vars, runnerVars
<1>23. QED
  BY <1>1, <1>2, <1>3, <1>4, <1>5, <1>6, <1>7, <1>8, <1>9, <1>10, <1>11, <1>12, <1>13, <1>14, <1>15, <1>16, <1>17, <1>18, <1>19, <1>20, <1>21, <1>22
     DEF Next, Runner, HeartbeatThread

-----------------------------------------------------------------------------
\* What a step does to the lease row and the event table.
StoreStep ==
  \/ UNCHANGED <<lease, log>>
  \/ \E r \in Owner : Acquire(r) \/ Beats(r) \/ Releases(r) \/ Revokes(r)

(* Whichever action of whichever thread it is, a step is a store step.     *)
LEMMA StepIsStoreStep == [Next]_vars => StoreStep
<1> SUFFICES ASSUME [Next]_vars PROVE StoreStep
  OBVIOUS
<1>1. ASSUME NEW r \in Owner,
             \/ CheckPrior(r) \/ SampleAcquire(r) \/ AcquireHeld(r) \/ Enter(r) \/ AssertBefore(r) \/ Effect(r) \/ EffectRaises(r) \/ AcquireReadback(r)
             \/ AssertAfter(r) \/ PersistResult(r) \/ AssertFinal(r) \/ Exit(r) \/ ReleaseFails(r) \/ Wake(r) \/ HeartbeatFails(r) \/ Crash(r)
      PROVE  StoreStep
  BY <1>1 DEF StoreStep, storeVars, CheckPrior, SampleAcquire, AcquireHeld, Enter, AssertBefore, Effect, EffectRaises, AssertAfter, PersistResult, AssertFinal, Exit, ReleaseFails, Wake, HeartbeatFails, Crash, AcquireReadback
<1>2. ASSUME NEW r \in Owner, Acquire(r) PROVE StoreStep
  BY <1>2 DEF StoreStep
<1>3. ASSUME NEW r \in Owner, Release(r) PROVE StoreStep
  BY <1>3 DEF Release, StoreStep, Releases
<1>4. ASSUME NEW r \in Owner, Heartbeat(r) PROVE StoreStep
  BY <1>4 DEF Heartbeat, StoreStep, Beats
<1>5. ASSUME NEW r \in Owner, OperatorRevokes(r) PROVE StoreStep
  BY <1>5 DEF OperatorRevokes, StoreStep, Revokes
<1>6. CASE SourceDrifts \/ TimePasses \/ UNCHANGED vars
  BY <1>6 DEF SourceDrifts, TimePasses, Tick, vars, storeVars, StoreStep
<1>7. QED
  BY <1>1, <1>2, <1>3, <1>4, <1>5, <1>6 DEF Next, Runner, HeartbeatThread

-----------------------------------------------------------------------------
AcquireKey(r) == <<r, "acquire">>

\* The grants in the event table, and what the row says of the last of them.
GrantOK(r) ==
  /\ log[AcquireKey(r)] # NoEvent =>
       /\ IsGrant(AcquireKey(r))
       /\ log[AcquireKey(r)].to \in 1..lease.token
       /\ log[AcquireKey(r)].owner = r
       /\ \A s \in Owner : s # r => log[AcquireKey(s)].to # log[AcquireKey(r)].to
  /\ lease.state = "HELD" /\ lease.owner = r =>
       log[AcquireKey(r)] # NoEvent /\ log[AcquireKey(r)].to = lease.token

(* Every attempt is granted the lease at most once, with a token of its    *)
(* own; a HELD row is the grant of its owner.                              *)
LEMMA GrantsKept ==
  ASSUME Types, \A r \in Owner : GrantOK(r), StoreStep, NEW q \in Owner
  PROVE  GrantOK(q)'
<1> USE DeploymentAssumption DEF Types, LeaseTypeOK, Row, GrantOK
<1>k. \A r, s \in Owner, a, b \in {"acquire", "release", "revoke"} :
        <<r, a>> \in OpKey /\ (<<r, a>> = <<s, b>> <=> r = s /\ a = b)
  BY DEF OpKey
<1>a. /\ \A r \in Owner : AcquireKey(r) \in OpKey
      /\ \A r, s \in Owner : r # s => AcquireKey(r) # AcquireKey(s)
      /\ \A r, s \in Owner : AcquireKey(r) # <<s, "release">> /\ AcquireKey(r) # <<s, "revoke">>
  BY <1>k DEF AcquireKey
<1>t. lease.token \in Nat
  OBVIOUS
<1>1. CASE UNCHANGED <<lease, log>>
  BY <1>1 DEF IsGrant
<1>2. ASSUME NEW r \in Owner, Acquire(r) PROVE GrantOK(q)'
  <2>0. PICK e \in Event :
          /\ e.type \in GrantType /\ e.owner = r /\ e.to = lease.token + 1
          /\ log[AcquireKey(r)] = NoEvent /\ log' = [log EXCEPT ![AcquireKey(r)] = e]
    BY <1>2 DEF Acquire, AcquireTxn, Record, AcquireKey, Event, EventType, GrantType
  <2>1. /\ log[AcquireKey(r)] = NoEvent
        /\ log'[AcquireKey(r)] = e /\ e # NoEvent
        /\ \A s \in Owner : s # r => log'[AcquireKey(s)] = log[AcquireKey(s)]
    BY <2>0, <1>a DEF GrantType, NoEvent
  <2>2. lease'.token = lease.token + 1 /\ lease'.owner = r /\ lease'.state = "HELD"
    BY <1>2 DEF Acquire, AcquireTxn, HeldRow
  <2>3. \A s \in Owner : log[AcquireKey(s)].to \in 0..lease.token
    BY <1>t DEF NoEvent
  <2>4. CASE q = r
    BY <1>t, <2>0, <2>1, <2>2, <2>3, <2>4 DEF IsGrant
  <2>5. CASE q # r
    BY <1>t, <2>0, <2>1, <2>2, <2>3, <2>5 DEF IsGrant
  <2>6. QED
    BY <2>4, <2>5
<1>3. ASSUME NEW r \in Owner, Beats(r) PROVE GrantOK(q)'
  <2>1. log' = log /\ lease'.token = lease.token /\ lease'.owner = lease.owner /\ lease.state = "HELD"
    BY <1>3 DEF Beats, HeartbeatTxn, Current, HeldRow
  <2>2. QED
    BY <2>1 DEF IsGrant
<1>4. ASSUME NEW r \in Owner, Releases(r) \/ Revokes(r) PROVE GrantOK(q)'
  <2>1. \A s \in Owner : log'[AcquireKey(s)] = log[AcquireKey(s)]
    <3>1. CASE Releases(r)
      BY <3>1, <1>a, <1>k DEF Releases, ReleaseTxn, Record
    <3>2. CASE Revokes(r)
      <4>1. log' = [log EXCEPT ![<<r, "revoke">>] =
                      [type |-> "FORCE_REVOKE", owner |-> r, from |-> lease.token, to |-> lease.token + 1]]
        BY <3>2 DEF Revokes, ForceRevokeTxn, Record
      <4>2. QED
        BY <4>1, <1>a, <1>k
    <3>3. QED
      BY <1>4, <3>1, <3>2
  <2>2. lease'.token \in {lease.token, lease.token + 1} /\ lease'.state = "FREE"
    BY <1>4 DEF Releases, Revokes, ReleaseTxn, ForceRevokeTxn, FreeRow, Current
  <2>3. QED
    BY <1>t, <2>1, <2>2 DEF IsGrant, GrantType
<1>5. QED
  BY <1>1, <1>2, <1>3, <1>4 DEF StoreStep

(* The event of an acquire key is written by that attempt's own acquire.   *)
LEMMA OwnKey ==
  ASSUME Types, StoreStep, NEW q \in Owner, ~Acquire(q)
  PROVE  log'[AcquireKey(q)] = log[AcquireKey(q)]
<1> USE DEF Types, LeaseTypeOK, AcquireKey
<1>k. \A r, s \in Owner, a, b \in {"acquire", "release", "revoke"} :
        <<r, a>> \in OpKey /\ (<<r, a>> = <<s, b>> <=> r = s /\ a = b)
  BY DEF OpKey
<1>1. CASE UNCHANGED <<lease, log>>
  BY <1>1
<1>2. ASSUME NEW r \in Owner, Acquire(r) PROVE log'[AcquireKey(q)] = log[AcquireKey(q)]
  BY <1>2, <1>k DEF Acquire, AcquireTxn, Record
<1>3. ASSUME NEW r \in Owner, Beats(r) PROVE log'[AcquireKey(q)] = log[AcquireKey(q)]
  BY <1>3 DEF Beats, HeartbeatTxn
<1>4. ASSUME NEW r \in Owner, Releases(r) PROVE log'[AcquireKey(q)] = log[AcquireKey(q)]
  BY <1>4, <1>k DEF Releases, ReleaseTxn, Record
<1>5. ASSUME NEW r \in Owner, Revokes(r) PROVE log'[AcquireKey(q)] = log[AcquireKey(q)]
  <2>1. log' = [log EXCEPT ![<<r, "revoke">>] =
                  [type |-> "FORCE_REVOKE", owner |-> r, from |-> lease.token, to |-> lease.token + 1]]
    BY <1>5 DEF Revokes, ForceRevokeTxn, Record
  <2>2. QED
    BY <2>1, <1>k
<1>6. QED
  BY <1>1, <1>2, <1>3, <1>4, <1>5 DEF StoreStep

-----------------------------------------------------------------------------
\* The token a runner asserts is the one its own acquire was granted.
TokenOK(r) ==
  /\ pc[r] \in {"new", "acquire", "acquiring", "refused"} => log[AcquireKey(r)] = NoEvent
  /\ pc[r] \in {"new", "acquire", "acquiring", "refused", "readback"} => token[r] = 0
  /\ pc[r] \in {"readback", "done"} => log[AcquireKey(r)] # NoEvent
  /\ pc[r] \in Holding => token[r] # 0
  /\ token[r] # 0 => log[AcquireKey(r)] # NoEvent /\ token[r] = log[AcquireKey(r)].to
  /\ ran[r] # 0 => log[AcquireKey(r)] # NoEvent

(* fencing_token is None until the read-back sets it to the granted token, *)
(* and only a granted runner has effects.                                  *)
LEMMA TokensKept ==
  ASSUME Types, \A r \in Owner : GrantOK(r), \A r \in Owner : TokenOK(r), [Next]_vars, NEW q \in Owner
  PROVE  TokenOK(q)'
<1> USE DEF Types, TokenOK, Holding, Ended
<1>store. StoreStep
  BY StepIsStoreStep
<1>own. ~Acquire(q) => log'[AcquireKey(q)] = log[AcquireKey(q)]
  BY <1>store, OwnKey
<1>1. ASSUME NEW r \in Owner, Acquire(r) PROVE TokenOK(q)'
  <2>1. CASE r = q
    <3>1. log'[AcquireKey(q)] # NoEvent
      <4>1. PICK e \in Event :
              /\ e.type \in GrantType /\ log' = [log EXCEPT ![AcquireKey(q)] = e]
        BY <1>1, <2>1 DEF Acquire, AcquireTxn, Record, AcquireKey, Event, EventType, GrantType, LeaseTypeOK, Row
      <4>2. QED
        BY <4>1 DEF AcquireKey, OpKey, LeaseTypeOK, NoEvent, GrantType
    <3>2. pc'[q] = "readback" /\ token'[q] = 0 /\ ran'[q] = ran[q]
      BY <1>1, <2>1 DEF Acquire, Go
    <3>3. QED
      BY <3>1, <3>2
  <2>2. CASE r # q
    <3>1. log'[AcquireKey(q)] = log[AcquireKey(q)]
      BY <1>1, <1>own, <2>2 DEF Acquire, Go
    <3>2. QED
      BY <1>1, <2>2, <3>1 DEF Acquire, Go
  <2>3. QED
    BY <2>1, <2>2
<1>2. ASSUME ~Acquire(q), NEW r \in Owner, AcquireReadback(r) PROVE TokenOK(q)'
  <2>1. r = q => log[AcquireKey(q)].to # 0
    BY <1>2 DEF AcquireReadback, Go, GrantOK, LeaseTypeOK, Row
  <2>2. QED
    BY <1>2, <1>own, <2>1 DEF AcquireReadback, Go, AcquireKey
<1>3. ASSUME ~Acquire(q), NEW r \in Owner,
             \/ CheckPrior(r) \/ SampleAcquire(r) \/ AcquireHeld(r) \/ Enter(r) \/ AssertBefore(r)
      PROVE TokenOK(q)'
  BY <1>3, <1>own DEF CheckPrior, SampleAcquire, AcquireHeld, Enter, AssertBefore, Go, Raise
<1>4. ASSUME ~Acquire(q), NEW r \in Owner, Effect(r) \/ EffectRaises(r) \/ AssertAfter(r) \/ PersistResult(r)
      PROVE TokenOK(q)'
  BY <1>4, <1>own DEF Effect, EffectRaises, AssertAfter, PersistResult, Go, Raise
<1>5. ASSUME ~Acquire(q), NEW r \in Owner, AssertFinal(r) \/ Exit(r) \/ Release(r) \/ ReleaseFails(r)
      PROVE TokenOK(q)'
  BY <1>5, <1>own DEF AssertFinal, Exit, Release, ReleaseFails, Go, Raise
<1>6. ASSUME ~Acquire(q), NEW r \in Owner, Crash(r) PROVE TokenOK(q)'
  BY <1>6, <1>own DEF Crash
<1>7. ASSUME ~Acquire(q), NEW r \in Owner, HeartbeatThread(r) \/ OperatorRevokes(r) PROVE TokenOK(q)'
  BY <1>7, <1>own DEF HeartbeatThread, Wake, Heartbeat, HeartbeatFails, OperatorRevokes, runnerVars
<1>8. ASSUME ~Acquire(q), SourceDrifts \/ TimePasses \/ UNCHANGED vars PROVE TokenOK(q)'
  BY <1>8, <1>own DEF SourceDrifts, TimePasses, vars, runnerVars
<1>9. QED
  BY <1>1, <1>2, <1>3, <1>4, <1>5, <1>6, <1>7, <1>8 DEF Next, Runner

-----------------------------------------------------------------------------
\* The row no longer carries the runner's token: the negation of `owned' in Effect.
Lost(r) == ~(lease.state = "HELD" /\ lease.token = token[r])

(* A lost lease stays lost: no transaction gives a token out again.        *)
LEMMA LostStays ==
  ASSUME Types, \A r \in Owner : GrantOK(r), \A r \in Owner : TokenOK(r), StoreStep,
         NEW q \in Owner, token[q] # 0, token'[q] = token[q], Lost(q)
  PROVE  Lost(q)'
<1> USE DEF Types, LeaseTypeOK, Row, Lost
<1>1. token[q] \in 1..lease.token /\ lease.token \in Nat
  BY DEF GrantOK, TokenOK
<1>2. CASE UNCHANGED <<lease, log>>
  BY <1>2
<1>3. ASSUME NEW r \in Owner, Acquire(r) PROVE Lost(q)'
  BY <1>1, <1>3 DEF Acquire, AcquireTxn, HeldRow
<1>4. ASSUME NEW r \in Owner, Beats(r) PROVE Lost(q)'
  BY <1>1, <1>4 DEF Beats, HeartbeatTxn, Current, HeldRow
<1>5. ASSUME NEW r \in Owner, Releases(r) \/ Revokes(r) PROVE Lost(q)'
  BY <1>5 DEF Releases, Revokes, ReleaseTxn, ForceRevokeTxn, FreeRow
<1>6. QED
  BY <1>2, <1>3, <1>4, <1>5 DEF StoreStep

(* Nobody but a new grant makes a runner the owner of the row again.       *)
LEMMA OwnerStays ==
  ASSUME Types, StoreStep, NEW q \in Owner, ~Acquire(q), lease.owner # q
  PROVE  lease'.owner # q
<1> USE DeploymentAssumption DEF Types, LeaseTypeOK, Row
<1>1. CASE UNCHANGED <<lease, log>>
  BY <1>1
<1>2. ASSUME NEW r \in Owner, Acquire(r) PROVE lease'.owner # q
  BY <1>2 DEF Acquire, AcquireTxn, HeldRow
<1>3. ASSUME NEW r \in Owner, Beats(r) PROVE lease'.owner # q
  BY <1>3 DEF Beats, HeartbeatTxn, Current, HeldRow
<1>4. ASSUME NEW r \in Owner, Releases(r) \/ Revokes(r) PROVE lease'.owner # q
  BY <1>4 DEF Releases, Revokes, ReleaseTxn, ForceRevokeTxn, FreeRow
<1>5. QED
  BY <1>1, <1>2, <1>3, <1>4 DEF StoreStep

\* A late or an intruding effect means that the runner's lease is lost, and
\* the assertions keep such a runner from another effect and from success.
LateOK(r) ==
  /\ late[r] <= 1
  /\ pc[r] \in Before \cup {"before", "effect"} => late[r] = 0
  /\ pc[r] \in Before \ {"enter"} => ~intruded[r]
  /\ pc[r] \in Holding /\ (late[r] # 0 \/ intruded[r]) => Lost(r)
  /\ pc[r] = "done" => late[r] = 0 /\ ~intruded[r] /\ lease.owner # r

(* Each assertion a runner passes finds its lease held, hence nothing late *)
(* and nobody else's effect before it.                                     *)
LEMMA LateKept ==
  ASSUME Types, \A r \in Owner : GrantOK(r), \A r \in Owner : TokenOK(r), \A r \in Owner : LateOK(r),
         [Next]_vars, NEW q \in Owner
  PROVE  LateOK(q)'
<1> USE DEF Types, LateOK, Holding, Ended, Before
<1>store. StoreStep
  BY StepIsStoreStep
<1>lost. pc[q] \in Holding /\ token'[q] = token[q] /\ Lost(q) => Lost(q)'
  BY <1>store, LostStays DEF TokenOK
<1>owner. pc[q] = "done" /\ lease.owner # q => lease'.owner # q
  <2>1. pc[q] = "done" => ~Acquire(q)
    BY DEF Acquire, Go
  <2>2. QED
    BY <2>1, <1>store, OwnerStays
<1>held. \A r \in Owner : Asserted(r) => ~Lost(r)
  BY DEF Asserted, Current, Lost
<1>1. ASSUME NEW r \in Owner, Effect(r) PROVE LateOK(q)'
  <2>1. lease' = lease /\ token' = token
    BY <1>1 DEF Effect, storeVars
  <2>2. r # q /\ token[q] # 0 /\ ~Lost(r) => Lost(q)
    <3>1. token[r] # 0
      BY <1>1 DEF Effect, Go, TokenOK
    <3>2. QED
      BY <3>1 DEF Lost, TokenOK, GrantOK
  <2>3. CASE r = q
    BY <1>1, <2>1, <2>3 DEF Effect, Go, Lost
  <2>4. CASE r # q
    <3>1. late'[q] = late[q] /\ pc'[q] = pc[q]
      BY <1>1, <2>4 DEF Effect, Go
    <3>2. intruded'[q] => intruded[q] \/ (~Lost(r) /\ token[q] # 0 /\ pc[q] \notin Ended)
      BY <1>1, <2>4 DEF Effect, Lost
    <3>3. pc[q] \in Before \ {"enter"} => token[q] = 0 \/ pc[q] \in Ended
      BY DEF TokenOK
    <3>4. QED
      BY <2>1, <2>2, <2>4, <3>1, <3>2, <3>3, <1>lost, <1>owner
  <2>5. QED
    BY <2>3, <2>4
<1>2. ASSUME NEW r \in Owner,
             \/ CheckPrior(r) \/ SampleAcquire(r) \/ AcquireHeld(r) \/ Enter(r) \/ AssertBefore(r)
      PROVE LateOK(q)'
  BY <1>2, <1>lost, <1>owner, <1>held DEF CheckPrior, SampleAcquire, AcquireHeld, Enter, AssertBefore, Go, Raise, history
<1>3. ASSUME NEW r \in Owner, Acquire(r) \/ AcquireReadback(r) PROVE LateOK(q)'
  BY <1>3, <1>lost, <1>owner DEF Acquire, AcquireReadback, Go, history
<1>4. ASSUME NEW r \in Owner, EffectRaises(r) \/ AssertAfter(r) \/ PersistResult(r) PROVE LateOK(q)'
  BY <1>4, <1>lost, <1>owner, <1>held DEF EffectRaises, AssertAfter, PersistResult, Go, Raise, history
<1>5. ASSUME NEW r \in Owner, AssertFinal(r) \/ Exit(r) \/ ReleaseFails(r) PROVE LateOK(q)'
  BY <1>5, <1>lost, <1>owner DEF AssertFinal, Exit, ReleaseFails, Go, Raise, history
<1>6. ASSUME NEW r \in Owner, Release(r) PROVE LateOK(q)'
  <2>1. ~Lost(r) /\ lease'.owner = NoOwner
    BY <1>6 DEF Release, ReleaseTxn, Current, Lost, FreeRow
  <2>2. QED
    BY <1>6, <2>1, <1>lost, <1>owner, DeploymentAssumption DEF Release, Go, history
<1>7. ASSUME NEW r \in Owner, Crash(r) PROVE LateOK(q)'
  BY <1>7, <1>lost, <1>owner DEF Crash, history
<1>8. ASSUME NEW r \in Owner, HeartbeatThread(r) \/ OperatorRevokes(r) PROVE LateOK(q)'
  BY <1>8, <1>lost, <1>owner DEF HeartbeatThread, Wake, Heartbeat, HeartbeatFails, OperatorRevokes, runnerVars, history
<1>9. CASE SourceDrifts \/ TimePasses \/ UNCHANGED vars
  BY <1>9, <1>lost, <1>owner DEF SourceDrifts, TimePasses, vars, runnerVars, history
<1>10. QED
  BY <1>1, <1>2, <1>3, <1>4, <1>5, <1>6, <1>7, <1>8, <1>9 DEF Next, Runner

-----------------------------------------------------------------------------
\* The inductive invariant behind the safety properties.
Inv ==
  /\ Types
  /\ Counted
  /\ \A r \in Owner : GrantOK(r)
  /\ \A r \in Owner : TokenOK(r)
  /\ \A r \in Owner : LateOK(r)

(* Initially nobody was granted anything and nothing has run.              *)
LEMMA InvInit == Init => Inv
<1> SUFFICES ASSUME Init PROVE Inv
  OBVIOUS
<1>k. \A r \in Owner : AcquireKey(r) \in OpKey
  BY DEF AcquireKey, OpKey
<1> USE DeploymentAssumption DEF Init, LeaseInit, FreeRow
<1>l. LeaseTypeOK
  <2>1. log \in [OpKey -> Event \cup {NoEvent}]
    OBVIOUS
  <2>2. QED
    BY <2>1 DEF LeaseTypeOK, Row
<1>1. Types
  <2>1. /\ token \in [Owner -> Nat] /\ late \in [Owner -> Nat] /\ ran \in [Owner -> Nat]
        /\ attempts \in [Owner -> Nat] /\ now \in [Owner -> Nat] /\ beatNow \in [Owner -> Nat]
    OBVIOUS
  <2>2. /\ pc \in [Owner -> Stage] /\ failed \in [Owner -> BOOLEAN] /\ intruded \in [Owner -> BOOLEAN]
        /\ beat \in [Owner -> {"off", "waiting", "beating", "dead"}] /\ beatError \in [Owner -> BOOLEAN]
    BY DEF Stage
  <2>3. unit \in Calls /\ sourceValid \in BOOLEAN
    OBVIOUS
  <2>4. QED
    BY ONLY <1>l, <2>1, <2>2, <2>3 DEF Types
<1>2. Counted
  <2> SUFFICES ASSUME NEW r \in Owner PROVE CountOK(r)
    BY DEF Counted
  <2>1. pc[r] = "new" /\ attempts[r] = 0 /\ ran[r] = 0 /\ failed[r] = FALSE
    OBVIOUS
  <2>2. QED
    BY ONLY <2>1, DeploymentAssumption DEF CountOK
<1>3. ASSUME NEW r \in Owner PROVE GrantOK(r) /\ TokenOK(r) /\ LateOK(r)
  BY <1>k DEF GrantOK, TokenOK, LateOK, Before, Holding
<1>4. QED
  BY <1>1, <1>2, <1>3 DEF Inv

(* Every step of every thread and of the environment keeps it.             *)
LEMMA InvNext == Inv /\ [Next]_vars => Inv'
<1> SUFFICES ASSUME Inv, [Next]_vars PROVE Inv'
  OBVIOUS
<1> USE DEF Inv
<1>1. Types' /\ Counted'
  BY TypesKept, CountsKept
<1>2. ASSUME NEW q \in Owner PROVE GrantOK(q)'
  BY StepIsStoreStep, GrantsKept
<1>3. ASSUME NEW q \in Owner PROVE TokenOK(q)'
  BY TokensKept
<1>4. ASSUME NEW q \in Owner PROVE LateOK(q)'
  BY LateKept
<1>5. QED
  BY <1>1, <1>2, <1>3, <1>4

(* The inductive invariant holds throughout every behaviour.               *)
LEMMA InvAlways == Spec => []Inv
  BY InvInit, InvNext, PTL DEF Spec

(* Every variable of the deployment run keeps its type, the attempts stay  *)
(* within W08_ACQUIRE_MAX_ATTEMPTS and the effects within the steps.       *)
THEOREM TypeCorrect == Spec => []TypeOK
<1>1. Inv => TypeOK
  <2> SUFFICES ASSUME Inv PROVE TypeOK
    OBVIOUS
  <2>1. Types /\ \A r \in Owner : attempts[r] \in 0..MaxAttempts /\ ran[r] \in 0..Steps /\ late[r] \in 0..Steps
    BY DeploymentAssumption DEF Inv, Types, Counted, CountOK, LateOK
  <2>2. /\ attempts \in [Owner -> 0..MaxAttempts] /\ ran \in [Owner -> 0..Steps]
        /\ late \in [Owner -> 0..Steps]
    BY <2>1 DEF Types
  <2>3. QED
    BY <2>1, <2>2 DEF Types, TypeOK
<1>2. QED
  BY <1>1, InvAlways, PTL

(* SC-13 for every number of runners and steps: after losing its lease a   *)
(* runner executes at most the effect it had already asserted.             *)
THEOREM LateEffectsBounded == Spec => []AtMostOneLateEffect
<1>1. Inv => AtMostOneLateEffect
  BY DEF Inv, LateOK, AtMostOneLateEffect
<1>2. QED
  BY <1>1, InvAlways, PTL

(* run_controlled_deployment returns success only when every step ran with *)
(* the lease held and no other holder's effect in between.                 *)
THEOREM SuccessExclusive == Spec => []SuccessWasExclusive
<1>1. Inv => SuccessWasExclusive
  BY DEF Inv, LateOK, Counted, CountOK, SuccessWasExclusive
<1>2. QED
  BY <1>1, InvAlways, PTL

(* A successful runner's lease is released, and its heartbeat thread never *)
(* brings the lease back.                                                  *)
THEOREM SuccessReleases == Spec => []SuccessReleased
<1>1. Inv => SuccessReleased
  BY DEF Inv, LateOK, SuccessReleased
<1>2. QED
  BY <1>1, InvAlways, PTL

-----------------------------------------------------------------------------
Active(r) == pc[r] \notin Ended \cup {"new"}
Twins(r, s) == r # s /\ unit[r] = unit[s]
Granted(r) == log[AcquireKey(r)] # NoEvent

\* Of the runners of one deployment_id, one is active and one was ever granted.
SerialOK ==
  \A r, s \in Owner : Twins(r, s) =>
    /\ ~(Active(r) /\ Active(s))
    /\ pc[r] \in {"acquire", "acquiring"} => ~Granted(s)
    /\ ~(Granted(r) /\ Granted(s))

(* A runner keeps the deployment_id it was called with.                    *)
LEMMA UnitKept == [Next]_vars => unit' = unit
<1> SUFFICES ASSUME [Next]_vars PROVE unit' = unit
  OBVIOUS
<1>1. ASSUME NEW r \in Owner, Runner(r) PROVE unit' = unit
  BY <1>1 DEF Runner, CheckPrior, SampleAcquire, Acquire, AcquireHeld, AcquireReadback, Enter, AssertBefore, Effect,
              EffectRaises, AssertAfter, PersistResult, AssertFinal, Exit, Release, ReleaseFails
<1>2. ASSUME NEW r \in Owner, HeartbeatThread(r) \/ Crash(r) \/ OperatorRevokes(r) PROVE unit' = unit
  BY <1>2 DEF HeartbeatThread, Wake, Heartbeat, HeartbeatFails, Crash, OperatorRevokes
<1>3. CASE SourceDrifts \/ TimePasses \/ UNCHANGED vars
  BY <1>3 DEF SourceDrifts, TimePasses, vars
<1>4. QED
  BY <1>1, <1>2, <1>3 DEF Next

(* When callers never run one deployment_id twice at a time, the           *)
(* prior-acquire check sees every earlier grant of that deployment_id.     *)
LEMMA SerialKept == Inv /\ Serial /\ SerialOK /\ [Next]_vars => SerialOK'
<1> SUFFICES ASSUME Inv, Serial, SerialOK, [Next]_vars PROVE SerialOK'
  OBVIOUS
<1> USE DEF Inv, Types, Ended, Active, Twins, Granted
<1>store. StoreStep
  BY StepIsStoreStep
<1>own. \A q \in Owner : ~Acquire(q) => log'[AcquireKey(q)] = log[AcquireKey(q)]
  BY <1>store, OwnKey
<1>frozen. unit' = unit
  BY UnitKept
<1>1. ASSUME NEW q \in Owner, Acquire(q) PROVE SerialOK'
  <2>1. \A s \in Owner : s # q => log'[AcquireKey(s)] = log[AcquireKey(s)] /\ pc'[s] = pc[s]
    BY <1>1, <1>own DEF Acquire, Go
  <2>2. pc[q] = "acquiring" /\ pc'[q] = "readback"
    BY <1>1 DEF Acquire, Go
  <2>3. QED
    BY <2>1, <2>2, <1>frozen DEF SerialOK
<1>quiet. (\A q \in Owner : ~Acquire(q)) => \A r \in Owner : Granted(r)' <=> Granted(r)
  BY <1>own
<1>2. ASSUME \A q \in Owner : ~Acquire(q), NEW q \in Owner, CheckPrior(q) PROVE SerialOK'
  <2>1. CASE pc'[q] = "acquire"
    <3>1. \A s \in Owner : Twins(q, s) => ~Active(s)
      BY <1>2 DEF CheckPrior
    <3>2. \A s \in Owner : Twins(q, s) => ~Granted(s)
      <4>1. ~PriorAcquire(q)
        BY <1>2, <2>1 DEF CheckPrior, Go
      <4>2. \A s \in Owner : AcquireKey(s) \in OpKey
        BY DEF AcquireKey, OpKey
      <4>3. QED
        BY <4>1, <4>2 DEF PriorAcquire, GrantOK
    <3>3. QED
      BY <1>2, <1>quiet, <1>frozen, <3>1, <3>2 DEF CheckPrior, Go, SerialOK
  <2>2. CASE pc'[q] = "refused"
    BY <1>2, <1>quiet, <1>frozen, <2>2 DEF CheckPrior, Go, SerialOK
  <2>3. QED
    BY <1>2, <2>1, <2>2 DEF CheckPrior, Go
<1>3. ASSUME \A q \in Owner : ~Acquire(q),
             \A r \in Owner : /\ pc'[r] \in {"acquire", "acquiring"} => pc[r] \in {"acquire", "acquiring"}
                              /\ Active(r)' => Active(r)
      PROVE SerialOK'
  BY <1>3, <1>quiet, <1>frozen DEF SerialOK
<1>4. ASSUME \A q \in Owner : ~Acquire(q), NEW r \in Owner,
             \/ SampleAcquire(r) \/ AcquireHeld(r) \/ AcquireReadback(r) \/ Enter(r) \/ AssertBefore(r)
             \/ Effect(r) \/ EffectRaises(r)
      PROVE SerialOK'
  BY <1>3, <1>4 DEF SampleAcquire, AcquireHeld, AcquireReadback, Enter, AssertBefore, Effect, EffectRaises, Go, Raise
<1>5. ASSUME \A q \in Owner : ~Acquire(q), NEW r \in Owner,
             \/ AssertAfter(r) \/ PersistResult(r) \/ AssertFinal(r) \/ Exit(r) \/ Release(r) \/ ReleaseFails(r)
             \/ Crash(r)
      PROVE SerialOK'
  BY <1>3, <1>5 DEF AssertAfter, PersistResult, AssertFinal, Exit, Release, ReleaseFails, Crash, Go, Raise
<1>6. ASSUME \A q \in Owner : ~Acquire(q), NEW r \in Owner, HeartbeatThread(r) \/ OperatorRevokes(r) PROVE SerialOK'
  BY <1>3, <1>6 DEF HeartbeatThread, Wake, Heartbeat, HeartbeatFails, OperatorRevokes, runnerVars
<1>7. ASSUME \A q \in Owner : ~Acquire(q), SourceDrifts \/ TimePasses \/ UNCHANGED vars PROVE SerialOK'
  BY <1>3, <1>7 DEF SourceDrifts, TimePasses, vars, runnerVars
<1>8. QED
  BY <1>1, <1>2, <1>4, <1>5, <1>6, <1>7 DEF Next, Runner

(* For callers that never run one deployment_id twice at a time, two calls *)
(* with that deployment_id never both execute effects, however often they  *)
(* fail, crash or lose the lease in between.                               *)
THEOREM SerialNoRepeat == ASSUME Serial PROVE Spec => []NoBlindRepeat
<1>1. Init => SerialOK
  BY DEF Init, SerialOK, Active, Twins, Ended, LeaseInit, AcquireKey, OpKey, Granted
<1>2. Inv /\ SerialOK /\ [Next]_vars => SerialOK'
  BY SerialKept
<1>3. Inv /\ SerialOK => NoBlindRepeat
  BY DEF Inv, SerialOK, Twins, Granted, TokenOK, NoBlindRepeat
<1>4. QED
  BY <1>1, <1>2, <1>3, InvAlways, PTL DEF Spec

=============================================================================
