-------------------------- MODULE DeploymentLease --------------------------
(***************************************************************************)
(* The GLOBAL_PRODUCTION lease as run_controlled_deployment uses it, for   *)
(* operations that each acquire it at most once: the deployment_id is the  *)
(* identity of an operation, and an earlier acquisition refuses a second.  *)
(* GlobalWriterLease models the rows, events and calls behind it.          *)
(***************************************************************************)
EXTENDS Naturals

CONSTANT Nobody

VARIABLE hold  \* who holds the lease, its token, and whether it is in force

HoldInit == hold = [holder |-> Nobody, token |-> 0, live |-> FALSE]

\* assert_current: the lease is held by c and has not expired.
Holds(c) == hold.holder = c /\ hold.live

\* A free lease, or an expired one that is taken over.
Grant(c) ==
    /\ ~hold.live
    /\ hold' = [holder |-> c, token |-> hold.token + 1, live |-> TRUE]

\* What leaving the lease's context makes of it: a lost lease is not released.
Left(c) == IF Holds(c) THEN [hold EXCEPT !.holder = Nobody, !.live = FALSE] ELSE hold

\* The heartbeat fails or stops for as long as the lease lasts.
Expire == hold.live /\ hold' = [hold EXCEPT !.live = FALSE]
=============================================================================
