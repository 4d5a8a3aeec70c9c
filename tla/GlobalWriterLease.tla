-------------------------- MODULE GlobalWriterLease --------------------------
(***************************************************************************)
(* Processes that call the GLOBAL_PRODUCTION writer primitives of one      *)
(* control store.  A call is three steps, as in the code: the clock is     *)
(* read, the transaction runs (perhaps much later), and acquire and        *)
(* heartbeat read the row back with a fresh clock after COMMIT.  Between   *)
(* any two of them other processes run, time passes, or the process dies.  *)
(***************************************************************************)
EXTENDS WriterLeaseStore

CONSTANT NoKey     \* a call without an operation key

ASSUME NoKeyAssumption == NoKey \notin Key

VARIABLES
  call,        \* the operation each process has in progress
  held,        \* the fencing token each process was given (0: none)
  authority,   \* the token bound by ordinary_global_writer_authority (0: none)
  lastWrite    \* the token under which the last ordinary write committed

vars == <<clock, lease, log, call, held, authority, lastWrite>>

Op == {"idle", "acquire", "heartbeat", "release", "revoke",
       "acquire_readback", "heartbeat_readback"}

Call == [op: Op, key: Key \cup {NoKey}, target: Owner \cup {NoOwner},
         token: Nat, now: Nat]

Idle == [op |-> "idle", key |-> NoKey, target |-> NoOwner, token |-> 0, now |-> 0]

TypeOK ==
  /\ LeaseTypeOK
  /\ call \in [Owner -> Call]
  /\ \A c \in Owner : call[c].op \in {"acquire", "release", "revoke"} => call[c].key \in Key
  /\ held \in [Owner -> Nat]
  /\ authority \in [Owner -> Nat]
  /\ lastWrite \in Nat

Init ==
  /\ LeaseInit
  /\ call = [c \in Owner |-> Idle]
  /\ held = [c \in Owner |-> 0]
  /\ authority = [c \in Owner |-> 0]
  /\ lastWrite = 0

-----------------------------------------------------------------------------
(* A process starts a call: it samples the clock before BEGIN IMMEDIATE.   *)
Start(c, op, k, o, t) ==
  /\ call[c] = Idle
  /\ call' = [call EXCEPT ![c] =
                [op |-> op, key |-> k, target |-> o, token |-> t, now |-> clock]]
  /\ UNCHANGED <<clock, lease, log, held, authority, lastWrite>>

\* Mutant: an acquire without an operation key.
StartUnkeyedAcquire(c) == Start(c, "acquire", NoKey, c, 0)

StartAcquire(c) == \E k \in Key : Start(c, "acquire", k, c, 0)

StartHeartbeat(c) == held[c] # 0 /\ Start(c, "heartbeat", NoKey, c, held[c])

StartRelease(c) == held[c] # 0 /\ \E k \in Key : Start(c, "release", k, c, held[c])

\* An operator revokes the holder it saw in the row; c need not be a holder.
StartRevoke(c) ==
  /\ lease.state = "HELD"
  /\ \E k \in Key : Start(c, "revoke", k, lease.owner, lease.token)

Return(c) == call' = [call EXCEPT ![c] = Idle]

ReadBack(c, op, t) == call' = [call EXCEPT ![c].op = op, ![c].token = t]

DoAcquire(c) ==
  /\ call[c].op = "acquire"
  /\ \/ AcquireTxn(c, call[c].key, call[c].now)
     \/ AcquireReplay(c, call[c].key)
  /\ ReadBack(c, "acquire_readback", lease'.token)
  /\ UNCHANGED <<held, authority, lastWrite>>

\* Mutant: the row read back after COMMIT is returned without the assertion.
UnassertedReturn(c) ==
  /\ call[c].op = "acquire_readback"
  /\ held' = [held EXCEPT ![c] = call[c].token]
  /\ Return(c)
  /\ UNCHANGED <<clock, lease, log, authority, lastWrite>>

\* assert_current_global_writer after COMMIT: only then has c its token.
AcquireReturns(c) ==
  /\ call[c].op = "acquire_readback"
  /\ Current(c, call[c].token, clock)
  /\ held' = [held EXCEPT ![c] = call[c].token]
  /\ Return(c)
  /\ UNCHANGED <<clock, lease, log, authority, lastWrite>>

DoHeartbeat(c) ==
  /\ call[c].op = "heartbeat"
  /\ HeartbeatTxn(c, call[c].token, call[c].now)
  /\ ReadBack(c, "heartbeat_readback", call[c].token)
  /\ UNCHANGED <<held, authority, lastWrite>>

HeartbeatReturns(c) ==
  /\ call[c].op = "heartbeat_readback"
  /\ Current(c, call[c].token, clock)
  /\ Return(c)
  /\ UNCHANGED <<clock, lease, log, held, authority, lastWrite>>

DoRelease(c) ==
  /\ call[c].op = "release"
  /\ \/ ReleaseTxn(c, call[c].token, call[c].key, call[c].now)
     \/ FreeReplay("RELEASE", c, call[c].token, call[c].key)
  /\ held' = [held EXCEPT ![c] = 0]
  /\ Return(c)
  /\ UNCHANGED <<authority, lastWrite>>

DoRevoke(c) ==
  /\ call[c].op = "revoke"
  /\ \/ ForceRevokeTxn(call[c].target, call[c].token, call[c].key, call[c].now)
     \/ FreeReplay("FORCE_REVOKE", call[c].target, call[c].token, call[c].key)
  /\ Return(c)
  /\ UNCHANGED <<held, authority, lastWrite>>

\* A StoreError, a busy database or a failed read-back: nothing is written.
CallFails(c) ==
  /\ call[c] # Idle
  /\ Return(c)
  /\ UNCHANGED <<clock, lease, log, held, authority, lastWrite>>

\* The process dies; its row, if any, stays until it expires.
Crash(c) ==
  /\ Return(c)
  /\ held' = [held EXCEPT ![c] = 0]
  /\ authority' = [authority EXCEPT ![c] = 0]
  /\ UNCHANGED <<clock, lease, log, lastWrite>>

-----------------------------------------------------------------------------
(* ordinary_global_writer_authority binds a current lease; each ordinary   *)
(* write checks it again inside its own transaction (_begin), reading the  *)
(* clock after BEGIN IMMEDIATE.                                            *)
Bind(c) ==
  /\ authority[c] = 0
  /\ held[c] # 0
  /\ Current(c, held[c], clock)
  /\ authority' = [authority EXCEPT ![c] = held[c]]
  /\ UNCHANGED <<clock, lease, log, call, held, lastWrite>>

Unbind(c) ==
  /\ authority[c] # 0
  /\ authority' = [authority EXCEPT ![c] = 0]
  /\ UNCHANGED <<clock, lease, log, call, held, lastWrite>>

\* Mutant: _begin trusts the authority it was bound to.
UnfencedWrite(c) ==
  /\ authority[c] # 0
  /\ lastWrite' = authority[c]
  /\ UNCHANGED <<clock, lease, log, call, held, authority>>

OrdinaryWrite(c) ==
  /\ authority[c] # 0
  /\ Current(c, authority[c], clock)
  /\ lastWrite' = authority[c]
  /\ UNCHANGED <<clock, lease, log, call, held, authority>>

TimePasses == Tick /\ UNCHANGED <<call, held, authority, lastWrite>>

Next ==
  \/ TimePasses
  \/ \E c \in Owner :
       \/ StartAcquire(c) \/ StartHeartbeat(c) \/ StartRelease(c) \/ StartRevoke(c)
       \/ DoAcquire(c) \/ AcquireReturns(c)
       \/ DoHeartbeat(c) \/ HeartbeatReturns(c)
       \/ DoRelease(c) \/ DoRevoke(c)
       \/ CallFails(c) \/ Crash(c)
       \/ Bind(c) \/ Unbind(c) \/ OrdinaryWrite(c)

Spec == Init /\ [][Next]_vars

-----------------------------------------------------------------------------
(* The row always passes the CHECK of schema v6 and                        *)
(* _validate_global_writer_row: a heartbeat carrying an old `now' never    *)
(* stores heartbeat_at before acquired_at, which would make the lease      *)
(* unreadable for every later caller.                                      *)
RowValid ==
  /\ lease.state = "FREE" => lease = FreeRow(lease.token)
  /\ lease.state = "HELD" =>
       /\ lease.acquired <= lease.heartbeat
       /\ lease.heartbeat < lease.expires

(* Each fencing token was minted by exactly one event, and a HELD row is   *)
(* the one its token's grant event describes: a crash, a replay or a late  *)
(* call never leaves the row and the audit trail telling different stories.*)
Mints(k, t) == log[k].from < log[k].to /\ log[k].to = t

GrantedTo(c, t) == \E k \in Key : IsGrant(k) /\ log[k].to = t /\ log[k].owner = c

MintedOnce ==
  /\ \A t \in 1..lease.token : \E k \in Key : Mints(k, t)
  /\ \A j, k \in Key : Mints(j, log[j].to) /\ Mints(k, log[j].to) => j = k

LedgerAgrees ==
  /\ MintedOnce
  /\ lease.state = "HELD" =>
       /\ GrantedTo(lease.owner, lease.token)
       /\ \A k \in Key : log[k].type \in {"RELEASE", "FORCE_REVOKE"} => log[k].from < lease.token

(* Two processes never act under the same fencing token, although a grant  *)
(* can be replayed, lost in a crash, and its row taken over or revoked.    *)
TokenExclusive ==
  \A c, d \in Owner : c # d /\ held[c] # 0 => held[c] # held[d] /\ held[c] # authority[d]

(* A token that has stopped being HELD (released, revoked, taken over) is  *)
(* never HELD again, whatever late call or replay still arrives.           *)
NoRevival ==
  [][lease'.state = "HELD" /\ (lease.state = "FREE" \/ lease'.token # lease.token)
       => lease'.token > lease.token]_vars

(* A lease passes from one owner to another without a release or a revoke  *)
(* only when its expiry is already in the past of the real clock, also     *)
(* when the taker sampled its clock long before its transaction.           *)
TakeoverAfterExpiry ==
  [][lease.state = "HELD" /\ lease'.state = "HELD" /\ lease'.token # lease.token
       => lease.expires <= clock]_vars

(* Ordinary control-store writes commit in fencing order: once a newer     *)
(* token has written, a process bound to an older one never writes again.  *)
WritesFenced == [][lastWrite' >= lastWrite]_vars

(* The lease implements the lock: each transaction is one of its steps or  *)
(* invisible, although calls are in flight for any time, are replayed, and *)
(* find the row taken over or revoked when they commit or read back.       *)
Minter(t) == CHOOSE k \in Key : Mints(k, t)
MintedFor(t) == IF IsGrant(Minter(t)) THEN log[Minter(t)].owner ELSE NoOwner

Lock == INSTANCE FencedLock WITH
  now     <- clock,
  holder  <- lease.owner,
  until   <- lease.expires,
  token   <- lease.token,
  grantee <- [t \in 1..lease.token |-> MintedFor(t)],
  knows   <- held,
  written <- lastWrite

ImplementsLock == Lock!Spec

(* What test_global_production_writer.py asserts of a heartbeat after      *)
(* expiry, for every interleaving: an expired grant is not extended.       *)
ExpiredStaysExpired ==
  [][lease.state = "HELD" /\ lease.expires <= clock /\ lease'.token = lease.token
       => lease'.expires <= clock]_vars

-----------------------------------------------------------------------------
(* The inductive strengthening from which the proofs derive the above. *)

\* Nothing in flight or bound is newer than the row, no time is in the future.
NothingAhead ==
  /\ lease.acquired <= clock /\ lease.heartbeat <= clock
  /\ \A k \in Key : log[k].to <= lease.token
  /\ \A c \in Owner :
       /\ held[c] <= lease.token
       /\ authority[c] <= lease.token
       /\ call[c].token <= lease.token
       /\ call[c].now <= clock
  /\ lastWrite <= lease.token

\* A grant or a revoke mints the next token; a release mints none.
EventShape ==
  \A k \in Key :
    /\ log[k].type \in GrantType \cup {"FORCE_REVOKE"} => log[k].to = log[k].from + 1
    /\ log[k].type \in {"RELEASE", "NONE"} => log[k].to = log[k].from

\* A process believes in a token only if some event granted it to that process.
BeliefsGranted ==
  \A c \in Owner :
    /\ held[c] # 0 => GrantedTo(c, held[c])
    /\ authority[c] # 0 => GrantedTo(c, authority[c])
    /\ call[c].op = "acquire_readback" => GrantedTo(c, call[c].token)

\* A heartbeat in flight for the row's token sampled its clock after the grant.
HeartbeatAfterGrant ==
  \A c \in Owner :
    call[c].op = "heartbeat" /\ lease.state = "HELD" /\ call[c].token = lease.token
      => lease.acquired <= call[c].now

IInv ==
  /\ TypeOK /\ NothingAhead /\ EventShape /\ LedgerAgrees
  /\ BeliefsGranted /\ HeartbeatAfterGrant /\ RowValid

=============================================================================
