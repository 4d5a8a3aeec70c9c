--------------------------- MODULE TypedReceipts ---------------------------
(***************************************************************************)
(* The typed PostgreSQL operations: one effect through psql, bracketed by  *)
(* a PREPARED and a FINAL receipt in the control store, inside a           *)
(* controlled deployment.  A call replays a FINAL receipt against the      *)
(* catalog it finds, refuses a PREPARED one, and otherwise acquires the    *)
(* lease, reads the catalog, appends PREPARED, runs psql, reads back and   *)
(* appends FINAL.  A call may crash, and its lease expire, between any two *)
(* of these; a psql whose caller died still ends on its own.               *)
(*                                                                         *)
(* The six operations differ in what they accept before, whether the exact *)
(* state needs no psql, and what psql itself compares.                     *)
(***************************************************************************)
EXTENDS Naturals, DeploymentLease

CONSTANTS
    Call,       \* invocations
    Operation,  \* operation ids
    Request,    \* request fingerprints
    Kinds       \* the operations

VARIABLES
    kind,      \* the operation under study
    catalog,   \* what it is to change in PostgreSQL
    prepared,  \* the PREPARED receipt of each operation id
    final,     \* the FINAL receipt of each operation id
    acquired,  \* the operation ids whose deployment acquired the lease
    applied,   \* psql runs that succeeded, per operation id
    drifted,   \* an administrator has changed the catalog
    typed      \* the local state of each call

receipts == <<prepared, final, acquired>>
typedVars == <<hold, kind, catalog, receipts, applied, drifted, typed>>

Unwritten == [request |-> 0, before |-> "none", after |-> "none", status |-> "PENDING", token |-> 0]

CatalogStates == {"initial", "partial", "desired", "foreign"}

(***************************************************************************)
(* The operations: the before-states each accepts, whether the exact one   *)
(* needs no psql, whether the lease is asserted once more right before     *)
(* psql starts, and the states that psql itself turns into the desired one.*)
(***************************************************************************)
SqlFile ==
    [accepts |-> {"initial", "desired"}, skips |-> TRUE, reasserts |-> FALSE,
     turns |-> {"initial"}]

\* ALTER DATABASE ... OWNER TO compares nothing.
Owner ==
    [accepts |-> {"initial", "desired"}, skips |-> TRUE, reasserts |-> FALSE,
     turns |-> CatalogStates]

\* ALTER ROLE ... PASSWORD needs the role only.
Password ==
    [accepts |-> {"initial", "desired"}, skips |-> FALSE, reasserts |-> FALSE,
     turns |-> CatalogStates \ {"foreign"}]

WorkerPassword == [Password EXCEPT !.reasserts = TRUE]

Principal ==
    [accepts |-> {"initial", "partial", "desired"}, skips |-> FALSE, reasserts |-> FALSE,
     turns |-> {"initial", "partial", "desired"}]

WorkerPrincipal == [Principal EXCEPT !.skips = TRUE, !.reasserts = TRUE]

Profile ==
    [SQL_FILE |-> SqlFile, OWNER |-> Owner, PASSWORD |-> Password, LOGIN |-> WorkerPassword,
     PRINCIPAL |-> Principal, WORKER |-> WorkerPrincipal]

ASSUME KindsAssumption == Kinds \subseteq DOMAIN Profile

\* A role's attributes do not show its password.
Blind == {"PASSWORD", "LOGIN"}

Fingerprint(state) == IF kind \in Blind /\ state # "foreign" THEN "exists" ELSE state

\* The state read back after the effect; LOGIN logs in with the new password.
\* "none" is a read-back that raises.
ReadBack(state) ==
    CASE kind = "LOGIN" -> IF state = "desired" THEN "proof" ELSE "none"
      [] OTHER -> Fingerprint(state)

\* _validate_effect_postcondition and the final validator of a replay.
Postcondition(after) ==
    after = CASE kind = "LOGIN" -> "proof" [] kind = "PASSWORD" -> "exists" [] OTHER -> "desired"

Idle == [pc |-> "idle", op |-> Nobody, request |-> 0,
         before |-> "none", status |-> "PENDING", exit |-> 0, after |-> "none",
         answer |-> "NONE"]

ReceiptsInit ==
    /\ HoldInit
    /\ kind \in Kinds
    /\ catalog \in Profile[kind].accepts
    /\ prepared = [o \in Operation |-> Unwritten]
    /\ final = [o \in Operation |-> Unwritten]
    /\ acquired = {}
    /\ applied = [o \in Operation |-> 0]
    /\ drifted = FALSE
    /\ typed = [c \in Call |-> Idle]

ReceiptsTypeOK ==
    /\ hold \in [holder : Call \cup {Nobody}, token : Nat, live : BOOLEAN]
    /\ kind \in Kinds /\ catalog \in CatalogStates
    /\ \A written \in {prepared, final} : written \in [Operation ->
         [request : Request \cup {0}, token : Nat,
          before : CatalogStates \cup {"none", "exists"},
          after : CatalogStates \cup {"none", "exists", "proof"},
          status : {"PENDING", "APPLIED", "NOOP_EXACT"}]]
    /\ acquired \subseteq Operation
    /\ applied \in [Operation -> Nat] /\ drifted \in BOOLEAN
    /\ typed \in [Call ->
         [pc : {"idle", "prior", "acquire", "read", "prepare", "dispatch", "psql",
                "readback", "assert", "final", "release", "orphan", "done"},
          op : Operation \cup {Nobody}, request : Request \cup {0},
          before : CatalogStates \cup {"none"},
          after : CatalogStates \cup {"none", "exists", "proof"},
          status : {"PENDING", "APPLIED", "NOOP_EXACT"}, exit : {0, 1},
          answer : {"NONE", "PASS", "REFUSED", "RECONCILE"}]]

Ended(local, answer) ==
    [Idle EXCEPT !.pc = "done", !.op = local.op, !.request = local.request, !.answer = answer]

\* A call ends; leaving the lease's context releases it if it is still held.
Ends(c, answer) ==
    /\ typed' = [typed EXCEPT ![c] = Ended(@, answer)]
    /\ hold' = Left(c)

(***************************************************************************)
(* _replay_receipt_if_present.                                             *)
(***************************************************************************)
ReceiptState(o) ==
    CASE prepared[o] = Unwritten -> "ABSENT"
      [] final[o] = Unwritten -> "PREPARED_ONLY"
      [] OTHER -> "FINAL"

\* Any receipt of the operation id must carry the request's fingerprint.
SameRequest(o, request) == prepared[o].request = request

ReplayOrGoOn(c, o, request) ==
    /\ typed[c].pc = "idle"
    /\ LET answer ==
             IF /\ ReceiptState(o) = "FINAL" /\ SameRequest(o, request)
                /\ ReadBack(catalog) = final[o].after /\ Postcondition(final[o].after)
             THEN "PASS" ELSE "REFUSED"
       IN typed' = [typed EXCEPT ![c] =
            IF ReceiptState(o) = "ABSENT"
            THEN [@ EXCEPT !.pc = "prior", !.op = o, !.request = request]
            ELSE Ended([@ EXCEPT !.op = o, !.request = request], answer)]
    /\ UNCHANGED <<hold, kind, catalog, receipts, applied, drifted>>

(***************************************************************************)
(* run_controlled_deployment: no earlier acquisition, then one lease.      *)
(***************************************************************************)
CheckPrior(c) ==
    /\ typed[c].pc = "prior"
    /\ typed' = [typed EXCEPT ![c] = IF typed[c].op \in acquired
         THEN Ended(@, "REFUSED")
         ELSE [@ EXCEPT !.pc = "acquire"]]
    /\ UNCHANGED <<hold, kind, catalog, receipts, applied, drifted>>

AcquireHold(c) ==
    /\ typed[c].pc = "acquire"
    /\ \/ /\ Grant(c)
          /\ acquired' = acquired \cup {typed[c].op}
          /\ typed' = [typed EXCEPT ![c].pc = "read"]
       \/ /\ hold.live
          /\ typed' = [typed EXCEPT ![c] = Ended(@, "REFUSED")]
          /\ UNCHANGED <<hold, acquired>>
    /\ UNCHANGED <<kind, catalog, prepared, final, applied, drifted>>

\* A check of the call fails: its lease, a state, a file or a readback.
Raises(c, answer) ==
    /\ Ends(c, answer)
    /\ UNCHANGED <<kind, catalog, receipts, applied, drifted>>

ReadBefore(c) ==
    /\ typed[c].pc = "read"
    /\ \/ /\ Holds(c) /\ catalog \in Profile[kind].accepts
          /\ typed' = [typed EXCEPT ![c] = [@ EXCEPT !.pc = "prepare", !.before = catalog]]
          /\ UNCHANGED <<hold, kind, catalog, receipts, applied, drifted>>
       \/ Raises(c, "REFUSED")

(***************************************************************************)
(* append_typed_postgres_operation_receipt_event: under the lease, which   *)
(* the transaction checks once more, and once per operation id and phase.  *)
(***************************************************************************)
\* Mutant: the index is not unique.
AppendsOver(written, o) == TRUE

Appends(written, o) == written[o] = Unwritten

PersistPrepared(c) ==
    LET o == typed[c].op IN
    /\ typed[c].pc = "prepare"
    /\ \/ /\ Holds(c) /\ Appends(prepared, o)
          /\ prepared' = [prepared EXCEPT ![o] =
               [Unwritten EXCEPT !.request = typed[c].request, !.token = hold.token,
                                 !.before = Fingerprint(typed[c].before)]]
          \* the read-back after the COMMIT may fail
          /\ \/ typed' = [typed EXCEPT ![c].pc = "dispatch"] /\ UNCHANGED hold
             \/ Ends(c, "REFUSED")
          /\ UNCHANGED <<kind, catalog, final, acquired, applied, drifted>>
       \/ /\ ~Holds(c) \/ ~Appends(prepared, o)
          /\ Raises(c, "REFUSED")

\* After PREPARED the lease is asserted; an exact state is not changed again.
\* The checks of credential, binary and server before psql may fail.
Dispatch(c) ==
    /\ typed[c].pc = "dispatch"
    /\ \/ /\ Holds(c)
          /\ typed' = [typed EXCEPT ![c] =
               IF Profile[kind].skips /\ typed[c].before = "desired"
               THEN [@ EXCEPT !.pc = "readback", !.status = "NOOP_EXACT"]
               ELSE [@ EXCEPT !.pc = "psql",
                       !.status = IF kind = "PRINCIPAL" /\ typed[c].before = "desired"
                                  THEN "NOOP_EXACT" ELSE "APPLIED"]]
          /\ UNCHANGED <<hold, kind, catalog, receipts, applied, drifted>>
       \/ Raises(c, "REFUSED")

(***************************************************************************)
(* psql.  PRINCIPAL compares the state with the one read before, inside    *)
(* its transaction; the bootstrap is no transaction and may stop half way. *)
(***************************************************************************)
Succeeds(c) ==
    /\ catalog \in Profile[kind].turns
    /\ kind = "PRINCIPAL" => catalog = typed[c].before

\* What becomes of call c when psql has ended well, or not.
RunPsql(c, done, failed) ==
    \/ /\ Succeeds(c)
       /\ catalog' = "desired"
       /\ applied' = [applied EXCEPT ![typed[c].op] = @ + 1]
       /\ typed' = [typed EXCEPT ![c] = done]
    \/ /\ catalog' = catalog \/ (kind = "SQL_FILE" /\ catalog = "initial" /\ catalog' = "partial")
       /\ typed' = [typed EXCEPT ![c] = failed]
       /\ UNCHANGED applied

Psql(c) ==
    /\ typed[c].pc = "psql"
    /\ RunPsql(c, [typed[c] EXCEPT !.pc = "readback", !.exit = 0],
                  [typed[c] EXCEPT !.pc = "readback", !.exit = 1])
    /\ UNCHANGED <<hold, kind, receipts, drifted>>

\* The caller died while psql ran.
OrphanEnds(c) ==
    /\ typed[c].pc = "orphan"
    /\ RunPsql(c, Ended(typed[c], "NONE"), Ended(typed[c], "NONE"))
    /\ UNCHANGED <<hold, kind, receipts, drifted>>

\* The worker dispatches assert the lease between the checks and psql.
WorkerLosesLease(c) ==
    /\ typed[c].pc = "psql" /\ Profile[kind].reasserts /\ ~Holds(c)
    /\ Raises(c, "REFUSED")

ReadAfter(c) ==
    /\ typed[c].pc = "readback"
    /\ \/ /\ ReadBack(catalog) # "none" /\ Holds(c)
          /\ typed' = [typed EXCEPT ![c] = [@ EXCEPT !.pc = "final", !.after = ReadBack(catalog)]]
          /\ UNCHANGED <<hold, kind, catalog, receipts, applied, drifted>>
       \/ Raises(c, "REFUSED")

\* FINAL repeats the fields of PREPARED, token included.
BoundToPrepared(c) ==
    LET row == prepared[typed[c].op] IN
    /\ row.request = typed[c].request /\ row.token = hold.token
    /\ row.before = Fingerprint(typed[c].before)

PersistFinal(c) ==
    LET o == typed[c].op
        good == typed[c].exit = 0 /\ Postcondition(typed[c].after)
    IN
    /\ typed[c].pc = "final"
    /\ \/ /\ good /\ Holds(c) /\ Appends(final, o) /\ BoundToPrepared(c)
          /\ final' = [final EXCEPT ![o] =
               [prepared[o] EXCEPT !.after = typed[c].after, !.status = typed[c].status]]
          /\ \/ typed' = [typed EXCEPT ![c].pc = "release"] /\ UNCHANGED hold
             \/ Ends(c, "RECONCILE")
          /\ UNCHANGED <<kind, catalog, prepared, acquired, applied, drifted>>
       \/ /\ ~good \/ ~Holds(c)
          /\ Raises(c, "REFUSED")
       \/ /\ good /\ Holds(c) /\ ~(Appends(final, o) /\ BoundToPrepared(c))
          /\ Raises(c, "RECONCILE")

\* The lease is asserted after the result is durable, then released.
Return(c) ==
    /\ typed[c].pc = "release"
    /\ Ends(c, IF Holds(c) THEN "PASS" ELSE "REFUSED")
    /\ UNCHANGED <<kind, catalog, receipts, applied, drifted>>

\* The process of a call dies; a psql it started goes on.
Crash(c) ==
    /\ typed[c].pc \notin {"idle", "orphan", "done"}
    /\ typed' = [typed EXCEPT ![c] =
         IF @.pc = "psql" THEN [@ EXCEPT !.pc = "orphan"] ELSE Ended(@, "NONE")]
    /\ UNCHANGED <<hold, kind, catalog, receipts, applied, drifted>>

ExpireHold ==
    /\ Expire
    /\ UNCHANGED <<kind, catalog, receipts, applied, drifted, typed>>

\* An administrator changes the same object outside the controller, once.
Drift ==
    /\ ~drifted /\ drifted' = TRUE
    /\ catalog' \in CatalogStates \ {catalog}
    /\ kind \in Blind => catalog' # "partial"
    /\ UNCHANGED <<hold, kind, receipts, applied, typed>>

ReceiptsNext ==
    \/ \E c \in Call, o \in Operation, request \in Request : ReplayOrGoOn(c, o, request)
    \/ \E c \in Call :
         \/ CheckPrior(c) \/ AcquireHold(c) \/ ReadBefore(c) \/ PersistPrepared(c)
         \/ Dispatch(c) \/ Psql(c) \/ OrphanEnds(c) \/ WorkerLosesLease(c)
         \/ ReadAfter(c) \/ PersistFinal(c) \/ Return(c) \/ Crash(c)
    \/ ExpireHold \/ Drift

ReceiptsSpec == ReceiptsInit /\ [][ReceiptsNext]_typedVars

\* The receipts tell what happened: one operation id has at most one effect,
\* over every retry, takeover and crash; a FINAL receipt that says APPLIED had
\* exactly one, and NOOP_EXACT changed nothing; and who was answered with
\* success holds the FINAL receipt of the very request it made.
ReceiptsTell ==
    /\ \A o \in Operation :
         /\ applied[o] <= 1
         /\ final[o].status = "APPLIED" => applied[o] = 1
         /\ final[o].status = "NOOP_EXACT" /\ kind # "PRINCIPAL" => applied[o] = 0
    /\ \A c \in Call : typed[c].answer = "PASS" =>
         /\ final[typed[c].op] # Unwritten
         /\ final[typed[c].op].request = typed[c].request

(* All this is one step for the caller: the claim of the operation id with *)
(* PREPARED, the effect, the record of its outcome with FINAL and the      *)
(* answer.  Retries, takeovers, crashes, the psql of a dead caller and the *)
(* administrator are invisible to who goes by the receipts.                *)
ClaimsMade == {<<o, prepared[o].request>> : o \in {p \in Operation : prepared[p] # Unwritten}}
OutcomesRecorded == {<<o, final[o].status>> : o \in {p \in Operation : final[p] # Unwritten}}
SuccessesTold == {<<c, typed[c].op, typed[c].request>> : c \in {d \in Call : typed[d].answer = "PASS"}}

Once == INSTANCE OneEffect WITH
  Caller   <- Call,
  repeats  <- kind = "PRINCIPAL",
  claims   <- ClaimsMade,
  effects  <- applied,
  outcomes <- OutcomesRecorded,
  told     <- SuccessesTold

ImplementsOneEffect == Once!Spec
=============================================================================
