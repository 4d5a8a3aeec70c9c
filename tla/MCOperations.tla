---------------------------- MODULE MCOperations ----------------------------
(***************************************************************************)
(* Small instances, for TLC, of the operations around the execution store. *)
(* Every behaviour is one of one subsystem, chosen by the initial state:   *)
(* the state space is the disjoint union of those of the subsystems, and   *)
(* the variables of the others keep the value they start with.  They are   *)
(* extended, so that their properties are checked as their theorems state  *)
(* them.                                                                   *)
(***************************************************************************)
EXTENDS SliceBinding, ControlAuthority, CandidateClosure, DcsAdoption, TypedReceipts,
        WorkerCredential, Schema10Transition, CleanerCutover, TLC

CONSTANTS
  Actor,      \* processes, calls, runs or writers, by subsystem
  None,       \* the NULLs
  d1, p1      \* a daemon and a periodic service

Subsystem == {"binding", "authority", "closure", "moved closure", "adoption", "transition",
              "receipts", "credential", "cleaner"}

VARIABLE subsystem

\* p1 is started on an interval, d1 is a daemon; the adoption finds both up.
UpInventory == {d1 :> "A" @@ p1 :> "B"}

ASSUME OperationsAssumption ==
  None \notin Actor \cup Operation

\* The configuration gives the closure a rework and a second verification; here
\* it has a move of the authority instead.
MovedClosure == INSTANCE CandidateClosure WITH MaxMoves <- 2, MaxResults <- 1

receiptsVars == <<kind, catalog, prepared, final, acquired, applied, drifted, typed>>
fileVars == <<place, proof, job>>
cleanerVars ==
  <<acquisition, released, topology, plist, ident, epoch, business, late, cut>>

\* The variables of a subsystem while another runs: what its properties read has
\* an initial value, the rest none.
BindingUnused ==
  /\ slice = [active |-> None] /\ execution = [e \in Execution |-> [state |-> None]]
  /\ foreign = {} /\ events = None /\ branch = None /\ worktree = None /\ call = None

AuthorityUnused ==
  /\ authority = [mode |-> "TRANSITIONAL_AUTHORITY", cutover |-> NoCutover]
  /\ transitions = <<>> /\ registered = -1 /\ task = [t \in Tool |-> [pc |-> None]]
  /\ rows = None /\ seed = None

ClosureUnused ==
  /\ row = [commit |-> 0] /\ head = 0 /\ closure = 0 /\ approval = <<>>
  /\ generation = None /\ granted = None /\ work = None /\ makerOpen = None
  /\ provenance = None /\ verification = None /\ evaluator = None /\ evaluation = None
  /\ intent = None /\ step = None

AdoptionUnused ==
  /\ run = [r \in Run |-> [late |-> 0, outcome |-> "NONE"]]
  /\ service = None /\ schema = None /\ fence = None

TransitionUnused ==
  /\ dcsSchema = 9 /\ w08 = [holder |-> "free"] /\ effect = [op |-> "none", late |-> 0]
  /\ installed = None /\ projection = None /\ serving = None /\ transition = None /\ held = None

ReceiptsUnused ==
  /\ kind = "SQL_FILE" /\ applied = [o \in Operation |-> 0]
  /\ prepared = [o \in Operation |-> Unwritten] /\ final = prepared
  /\ typed = [c \in Call |-> [answer |-> None]]
  /\ catalog = None /\ acquired = None /\ drifted = None

CredentialUnused ==
  /\ files = 0 /\ tampered = FALSE /\ proof = [o \in CredentialId |-> Nothing]
  /\ secret = None /\ job = None

CutoverUnused ==
  /\ topology = [w \in CutoverWriter |-> "off"] /\ late = FALSE
  /\ acquisition = None /\ released = None /\ plist = None /\ ident = None
  /\ epoch = None /\ business = None /\ cut = None

Init ==
  /\ subsystem \in Subsystem
  /\ HoldInit
  /\ IF subsystem = "binding" THEN BindingInit ELSE BindingUnused
  /\ IF subsystem = "authority" THEN AuthorityInit ELSE AuthorityUnused
  /\ IF subsystem \in {"closure", "moved closure"} THEN ClosureInit ELSE ClosureUnused
  /\ IF subsystem = "adoption" THEN AdoptionInit ELSE AdoptionUnused
  /\ IF subsystem = "transition" THEN TransitionInit ELSE TransitionUnused
  /\ IF subsystem = "receipts" THEN ReceiptsInit ELSE ReceiptsUnused
  /\ IF subsystem = "credential" THEN CredentialInit ELSE CredentialUnused
  /\ IF subsystem = "cleaner" THEN CutoverInit ELSE CutoverUnused

\* The Cleaner's property says nothing once an effect has landed without the
\* lease, so nothing is explored after one.
Next ==
  /\ UNCHANGED subsystem
  /\ \/ /\ subsystem = "binding" /\ BindingNext
        /\ UNCHANGED <<authorityVars, closureVars, adoptionVars, transitionVars, receiptsVars,
                       fileVars, cleanerVars, hold>>
     \/ /\ subsystem = "authority" /\ AuthorityNext
        /\ UNCHANGED <<bindingVars, closureVars, adoptionVars, transitionVars, receiptsVars,
                       fileVars, cleanerVars, hold>>
     \/ /\ \/ subsystem = "closure" /\ ClosureNext
           \/ subsystem = "moved closure" /\ MovedClosure!ClosureNext
        /\ UNCHANGED <<bindingVars, authorityVars, adoptionVars, transitionVars, receiptsVars,
                       fileVars, cleanerVars, hold>>
     \/ /\ subsystem = "adoption" /\ AdoptionNext
        /\ UNCHANGED <<bindingVars, authorityVars, closureVars, transitionVars, receiptsVars,
                       fileVars, cleanerVars, hold>>
     \/ /\ subsystem = "transition" /\ TransitionNext
        /\ UNCHANGED <<bindingVars, authorityVars, closureVars, adoptionVars, receiptsVars,
                       fileVars, cleanerVars, hold>>
     \/ /\ subsystem = "receipts" /\ ReceiptsNext
        /\ UNCHANGED <<bindingVars, authorityVars, closureVars, adoptionVars, transitionVars,
                       fileVars, cleanerVars>>
     \/ /\ subsystem = "credential" /\ CredentialNext
        /\ UNCHANGED <<bindingVars, authorityVars, closureVars, adoptionVars, transitionVars,
                       receiptsVars, cleanerVars>>
     \/ /\ subsystem = "cleaner" /\ ~late /\ CutoverNext
        /\ UNCHANGED <<bindingVars, authorityVars, closureVars, adoptionVars, transitionVars,
                       receiptsVars, fileVars>>

vars == <<subsystem, bindingVars, authorityVars, closureVars, adoptionVars, transitionVars,
          hold, receiptsVars, fileVars, cleanerVars>>

Spec == Init /\ [][Next]_vars

\* Actors are interchangeable, and so are operation ids and cutover ids.
Symmetry == Permutations(Actor) \cup Permutations(Operation) \cup Permutations(Cutover)

-----------------------------------------------------------------------------
(* The properties, each of the subsystem that runs; what each is about and   *)
(* the code it speaks of are stated with its definition there.               *)

Runs(s) == subsystem = s

\* Every variable has its type.
TypeOK ==
  /\ Runs("binding") => BindingTypeOK
  /\ Runs("authority") => AuthorityTypeOK
  /\ Runs("closure") \/ Runs("moved closure") => ClosureTypeOK
  /\ Runs("adoption") => AdoptionTypeOK
  /\ Runs("transition") => TransitionTypeOK
  /\ Runs("receipts") => ReceiptsTypeOK
  /\ Runs("credential") => CredentialTypeOK
  /\ Runs("cleaner") => CutoverTypeOK
=============================================================================
