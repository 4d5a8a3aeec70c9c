------------------------------- MODULE OneEffect -------------------------------
(***************************************************************************)
(* What the receipts of the typed PostgreSQL operations promise to those   *)
(* who call them: an operation id stands for one request, has at most one  *)
(* effect, and once its outcome is recorded has none any more; success is  *)
(* told only to callers of that request.  No lease, no retries, no crashes *)
(* and nothing in flight.                                                  *)
(***************************************************************************)
EXTENDS Naturals

CONSTANTS Caller, Operation, Request

VARIABLES
    repeats,   \* operations of this kind bring about an exact state once more
    claims,    \* the operation ids in use, each with its request
    effects,   \* the effects of each operation id
    outcomes,  \* the operation ids whose outcome is recorded, with the outcome
    told       \* the callers told of a success, with operation id and request

vars == <<repeats, claims, effects, outcomes, told>>

Outcome == {"APPLIED", "NOOP_EXACT"}

Claimed(o) == \E claim \in claims : claim[1] = o
Recorded(o) == \E result \in Outcome : <<o, result>> \in outcomes

Init ==
    /\ repeats \in BOOLEAN
    /\ claims = {} /\ outcomes = {} /\ told = {}
    /\ effects = [o \in Operation |-> 0]

\* The first request takes the operation id for good.
Claim(o, q) ==
    /\ ~Claimed(o)
    /\ claims' = claims \cup {<<o, q>>}
    /\ UNCHANGED <<repeats, effects, outcomes, told>>

Effect(o) ==
    /\ Claimed(o) /\ ~Recorded(o) /\ effects[o] = 0
    /\ effects' = [effects EXCEPT ![o] = 1]
    /\ UNCHANGED <<repeats, claims, outcomes, told>>

\* The outcome is recorded once, and says whether there was an effect.
Record(o, result) ==
    /\ Claimed(o) /\ ~Recorded(o)
    /\ result = "APPLIED" => effects[o] = 1
    /\ result = "NOOP_EXACT" => effects[o] = 0 \/ repeats
    /\ outcomes' = outcomes \cup {<<o, result>>}
    /\ UNCHANGED <<repeats, claims, effects, told>>

Tell(c, o, q) ==
    /\ <<o, q>> \in claims /\ Recorded(o)
    /\ \A t \in told : t[1] # c
    /\ told' = told \cup {<<c, o, q>>}
    /\ UNCHANGED <<repeats, claims, effects, outcomes>>

Next ==
  \/ \E o \in Operation, q \in Request : Claim(o, q)
  \/ \E claim \in claims :
       \/ Effect(claim[1])
       \/ \E result \in Outcome : Record(claim[1], result)
       \/ \E c \in Caller : Tell(c, claim[1], claim[2])

Spec == Init /\ [][Next]_vars

=============================================================================
