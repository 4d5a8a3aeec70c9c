-------------------------- MODULE WriterLeaseStore --------------------------
(***************************************************************************)
(* The GLOBAL_PRODUCTION writer lease of the control store: one singleton  *)
(* row (schema v6, global_production_writer_lease), its append-only event  *)
(* table (global_production_writer_event, UNIQUE operation_key) and the    *)
(* transactions of ControlStore that change them.                          *)
(*                                                                         *)
(* Every operation runs in one BEGIN IMMEDIATE transaction, so it is one   *)
(* step here.  Its `now' is an ARGUMENT: the code reads the clock before   *)
(* BEGIN IMMEDIATE, which may block, so a transaction can carry a time     *)
(* older than the clock.  The modules that EXTEND this one decide who      *)
(* calls what, and when `now' was sampled.                                 *)
(***************************************************************************)
EXTENDS Naturals

CONSTANTS
  Owner,     \* owner ids (owner_id, unique per attempt)
  NoOwner,   \* the NULL of the owner columns
  Key,       \* operation keys
  TTL,       \* ttl_seconds, in clock units
  MaxTime    \* bound on the clock

ASSUME LeaseAssumption ==
  /\ NoOwner \notin Owner
  /\ TTL \in Nat \ {0}
  /\ MaxTime \in Nat

VARIABLES
  clock,     \* the wall clock every caller reads
  lease,     \* the singleton row
  log        \* the event stored under each operation key, or NoEvent

leaseVars == <<clock, lease, log>>

GrantType == {"ACQUIRE", "EXPIRED_TAKEOVER"}
EventType == GrantType \cup {"RELEASE", "FORCE_REVOKE"}

NoEvent == [type |-> "NONE", owner |-> NoOwner, from |-> 0, to |-> 0]

\* `owner' is the new owner of a grant and the prior owner of the others.
Event == [type: EventType, owner: Owner, from: Nat, to: Nat]

Row == [state: {"FREE", "HELD"}, owner: Owner \cup {NoOwner}, token: Nat,
        acquired: Nat, heartbeat: Nat, expires: Nat]

LeaseTypeOK ==
  /\ clock \in Nat
  /\ lease \in Row
  /\ lease.state = "HELD" => lease.owner \in Owner
  /\ log \in [Key -> Event \cup {NoEvent}]

\* A FREE row has NULL in every owner and time column (0 stands for NULL).
FreeRow(t) == [state |-> "FREE", owner |-> NoOwner, token |-> t,
               acquired |-> 0, heartbeat |-> 0, expires |-> 0]

HeldRow(o, t, now) == [state |-> "HELD", owner |-> o, token |-> t,
                       acquired |-> now, heartbeat |-> now,
                       expires |-> now + TTL]

LeaseInit ==
  /\ clock = 0
  /\ lease = FreeRow(0)
  /\ log = [k \in Key |-> NoEvent]

IsGrant(k) == log[k].type \in GrantType

(* _require_current_global_writer: token, state, owner and expiry. *)
Current(o, t, now) ==
  /\ lease.token = t
  /\ lease.state = "HELD"
  /\ lease.owner = o
  /\ lease.expires > now

\* _insert_global_writer_event: the operation key is new, the row is appended.
Record(k, type, o, from, to) ==
  /\ log[k] = NoEvent
  /\ log' = [log EXCEPT ![k] =
               [type |-> type, owner |-> o, from |-> from, to |-> to]]

-----------------------------------------------------------------------------
\* Mutant: a lease is taken over while it has one more unit to live.
AcquireEarly(o, k, now) ==
  /\ \/ lease.state = "FREE" /\ Record(k, "ACQUIRE", o, lease.token, lease.token + 1)
     \/ /\ lease.state = "HELD" /\ lease.expires <= now + 1
        /\ Record(k, "EXPIRED_TAKEOVER", o, lease.token, lease.token + 1)
  /\ lease' = HeldRow(o, lease.token + 1, now)
  /\ UNCHANGED clock

\* Mutant: only the first grant mints a token.
AcquireSameToken(o, k, now) ==
  LET t == IF lease.token = 0 THEN 1 ELSE lease.token IN
  /\ \/ lease.state = "FREE" /\ Record(k, "ACQUIRE", o, lease.token, t)
     \/ /\ lease.state = "HELD" /\ lease.expires <= now
        /\ Record(k, "EXPIRED_TAKEOVER", o, lease.token, t)
  /\ lease' = HeldRow(o, t, now)
  /\ UNCHANGED clock

(* acquire_global_production_writer, with a new operation key: a FREE row  *)
(* is granted, a HELD one only if it expired at `now'; token + 1.          *)
AcquireTxn(o, k, now) ==
  /\ \/ lease.state = "FREE" /\ Record(k, "ACQUIRE", o, lease.token, lease.token + 1)
     \/ /\ lease.state = "HELD"
        /\ lease.expires <= now
        /\ Record(k, "EXPIRED_TAKEOVER", o, lease.token, lease.token + 1)
  /\ lease' = HeldRow(o, lease.token + 1, now)
  /\ UNCHANGED clock

(* ... with a key already used: the same request is answered from the row  *)
(* only while the row is still the one that the key granted; otherwise it  *)
(* is IDEMPOTENCY_CONFLICT or OPERATION_REPLAY_STALE.                      *)
AcquireReplay(o, k) ==
  /\ IsGrant(k)
  /\ log[k].owner = o
  /\ lease.state = "HELD"
  /\ lease.token = log[k].to
  /\ lease.owner = o
  /\ UNCHANGED leaseVars

\* Mutant: a heartbeat that looks at the token only.
HeartbeatByToken(o, t, now) ==
  /\ lease.token = t
  /\ lease' = [HeldRow(o, t, now) EXCEPT !.acquired = lease.acquired]
  /\ UNCHANGED <<clock, log>>

(* heartbeat_global_production_writer: extends, writes no event. *)
HeartbeatTxn(o, t, now) ==
  /\ Current(o, t, now)
  /\ lease' = [HeldRow(o, t, now) EXCEPT !.acquired = lease.acquired]
  /\ UNCHANGED <<clock, log>>

\* Mutant: the time columns are not set to NULL.
ReleaseKeepsTimes(o, t, k, now) ==
  /\ Current(o, t, now)
  /\ Record(k, "RELEASE", o, t, t)
  /\ lease' = [lease EXCEPT !.state = "FREE", !.owner = NoOwner]
  /\ UNCHANGED clock

(* release_global_production_writer: the row becomes FREE, token kept. *)
ReleaseTxn(o, t, k, now) ==
  /\ Current(o, t, now)
  /\ Record(k, "RELEASE", o, t, t)
  /\ lease' = FreeRow(t)
  /\ UNCHANGED clock

\* Mutant: the event says that the token moved on, the row does not.
RevokeKeepsToken(o, t, k, now) ==
  /\ Current(o, t, now)
  /\ Record(k, "FORCE_REVOKE", o, t, t + 1)
  /\ lease' = FreeRow(t)
  /\ UNCHANGED clock

(* force_revoke_global_production_writer: FREE, token + 1, and only while  *)
(* the expected owner's lease has not expired.                             *)
ForceRevokeTxn(o, t, k, now) ==
  /\ Current(o, t, now)
  /\ Record(k, "FORCE_REVOKE", o, t, t + 1)
  /\ lease' = FreeRow(t + 1)
  /\ UNCHANGED clock

(* The replay of a release or a revoke: answered while the row is still    *)
(* FREE at the token the event left.                                       *)
FreeReplay(type, o, t, k) ==
  /\ log[k].type = type
  /\ log[k].owner = o
  /\ log[k].from = t
  /\ lease.state = "FREE"
  /\ lease.token = log[k].to
  /\ UNCHANGED leaseVars

Tick ==
  /\ clock < MaxTime
  /\ clock' = clock + 1
  /\ UNCHANGED <<lease, log>>

=============================================================================
