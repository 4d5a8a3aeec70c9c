------------------------------ MODULE FencedLock ------------------------------
(***************************************************************************)
(* What the GLOBAL_PRODUCTION writer lease promises: a lock with an expiry *)
(* whose every grant carries a new token.  No rows, events, operation keys *)
(* or calls in flight: a grant, an extension, a release and a revocation   *)
(* each happen at one instant.                                             *)
(***************************************************************************)
EXTENDS Naturals

CONSTANTS Owner, NoOwner

VARIABLES
  now,       \* real time
  holder,    \* who holds the lock, or NoOwner
  until,     \* when it may be taken from the holder
  token,     \* the newest token
  grantee,   \* to whom each token was granted; NoOwner if it was burnt
  knows,     \* the token each owner was told (0: none)
  written    \* the token of the last protected write

lock == <<holder, token, grantee>>
vars == <<now, lock, until, knows, written>>

Init ==
  /\ now = 0 /\ until = 0 /\ token = 0 /\ written = 0
  /\ holder = NoOwner
  /\ grantee = [t \in 1..0 |-> NoOwner]
  /\ knows = [o \in Owner |-> 0]

\* Token + 1 goes to o; NoOwner burns it.
Mint(o) ==
  /\ token' = token + 1
  /\ grantee' = [t \in 1..token + 1 |-> IF t = token + 1 THEN o ELSE grantee[t]]

\* To anybody while nobody holds it, or once the holder's time is over.
Grant(o) ==
  /\ holder = NoOwner \/ until <= now
  /\ holder' = o
  /\ Mint(o)
  /\ until' \in Nat
  /\ UNCHANGED <<now, knows, written>>

Extend ==
  /\ holder # NoOwner
  /\ until' \in Nat
  /\ UNCHANGED <<now, lock, knows, written>>

\* The holder gives the lock back.
Release(o) ==
  /\ holder = o /\ holder' = NoOwner
  /\ until' = 0
  /\ knows' = [knows EXCEPT ![o] = 0]
  /\ UNCHANGED <<now, token, grantee, written>>

Revoke ==
  /\ holder # NoOwner /\ holder' = NoOwner
  /\ Mint(NoOwner)
  /\ until' = 0
  /\ UNCHANGED <<now, knows, written>>

\* Only the holder is told its token, and only while its time is not over.
Tell(o) ==
  /\ holder = o /\ until > now
  /\ knows' = [knows EXCEPT ![o] = token]
  /\ UNCHANGED <<now, lock, until, written>>

Forget(o) ==
  /\ knows' = [knows EXCEPT ![o] = 0]
  /\ UNCHANGED <<now, lock, until, written>>

\* A protected write is made by the holder, under the newest token.
Write ==
  /\ holder # NoOwner /\ until > now
  /\ written' = token
  /\ UNCHANGED <<now, lock, until, knows>>

Pass ==
  /\ now' \in Nat /\ now' > now
  /\ UNCHANGED <<lock, until, knows, written>>

Next ==
  \/ \E o \in Owner : Grant(o) \/ Tell(o) \/ Forget(o) \/ Release(o)
  \/ Extend \/ Revoke \/ Write \/ Pass

Spec == Init /\ [][Next]_vars

=============================================================================
