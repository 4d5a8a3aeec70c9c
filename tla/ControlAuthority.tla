--------------------------- MODULE ControlAuthority ---------------------------
(***************************************************************************)
(* The global control_authority_state: whether the registry outside or the *)
(* control store is the authority over the slices.  The isolated seed and  *)
(* the preparation tool fill the slice rows and record their snapshot; a   *)
(* human-authorised switch and its rollback move the authority; slices are *)
(* registered while the store holds it.  Each transaction is one step, and *)
(* every call may be repeated after its answer was lost.                   *)
(*                                                                         *)
(* Operation keys are hashes of the arguments, so an event is recognised   *)
(* by its arguments.  A snapshot fingerprint is the number of rows it was  *)
(* taken of; -1 is that of the empty store.                                *)
(***************************************************************************)
EXTENDS Integers, Sequences, SequencesExt

CONSTANTS
  Tool,     \* processes working on the store
  Cutover,  \* cutover ids of authority switches
  Slices,   \* how many slices the seed manifest has
  MaxGen    \* bound on the generations the seed adds

VARIABLES
  authority,    \* the control_authority_state row
  transitions,  \* authority_transition_event, in order
  rows,         \* how many rows of the manifest are seeded
  registered,   \* generation of the SLICE_REGISTERED event (-1: none)
  seed,         \* how far the seeded execution is: 1 created, 2 leased,
                \* 3 with its result commit, 4 released
  task          \* what each tool is doing

authorityVars == <<authority, transitions, rows, registered, seed, task>>

Mode == {"TRANSITIONAL_AUTHORITY", "CONTROL_STORE_AUTHORITY"}
NoCutover == "NONE"
AuthorityEvent == [type: {"SWITCH", "ROLLBACK"}, gen: Nat, snapshot: Int, cutover: Cutover]
Resting == [pc |-> "idle", gen |-> 0]
Work ==
  [pc: {"idle", "seed", "lease", "result", "release", "rows", "snapshot", "register"}, gen: Nat]
    \cup [pc: {"transition", "answered"}, ev: AuthorityEvent]

AuthorityTypeOK ==
  /\ authority \in [mode: Mode, gen: Nat, snapshot: Int, cutover: Cutover \cup {NoCutover}]
  /\ transitions \in Seq(AuthorityEvent)
  /\ rows \in 0..Slices /\ registered \in Int /\ seed \in 0..4
  /\ task \in [Tool -> Work]

AuthorityInit ==
  /\ authority = [mode |-> "TRANSITIONAL_AUTHORITY", gen |-> 0, snapshot |-> -1, cutover |-> NoCutover]
  /\ transitions = <<>> /\ rows = 0 /\ registered = -1 /\ seed = 0
  /\ task = [t \in Tool |-> Resting]

At(t, pc) == task[t].pc = pc
Do(t, next) == task' = [task EXCEPT ![t] = next]
Await(t, pc) == Do(t, [pc |-> pc, gen |-> authority.gen])
Stop(t) == Do(t, Resting)

-----------------------------------------------------------------------------
(* switch_control_authority, rollback_control_authority *)
FromMode(type) == IF type = "SWITCH" THEN "TRANSITIONAL_AUTHORITY" ELSE "CONTROL_STORE_AUTHORITY"
ToMode(type) == IF type = "SWITCH" THEN "CONTROL_STORE_AUTHORITY" ELSE "TRANSITIONAL_AUTHORITY"
CutoverAfter(ev) == IF ev.type = "SWITCH" THEN ev.cutover ELSE NoCutover

\* The row still stands where event ev left it.
InForce(ev) ==
  /\ authority.mode = ToMode(ev.type) /\ authority.gen = ev.gen + 1
  /\ authority.cutover = CutoverAfter(ev) /\ authority.snapshot = ev.snapshot

\* Mutant: the recorded event alone answers the retry.
ReplaysBlindly(ev) == Contains(transitions, ev)

\* How a key found among the events is answered.
Replays(ev) == Contains(transitions, ev) /\ InForce(ev)

\* Mutant: a cutover that was rolled back may be switched to again.
TransitionAgain(ev) ==
  /\ ~Contains(transitions, ev)
  /\ authority.mode = FromMode(ev.type) /\ authority.gen = ev.gen
  /\ authority.snapshot = ev.snapshot
  /\ transitions' = Append(transitions, ev)
  /\ authority' = [mode |-> ToMode(ev.type), gen |-> ev.gen + 1, snapshot |-> ev.snapshot,
                   cutover |-> CutoverAfter(ev)]

\* A new key: compare-and-swap on the whole row, applied by the trigger of
\* the event, once per cutover and direction.
Transition(ev) ==
  /\ ~Contains(transitions, ev)
  /\ authority.mode = FromMode(ev.type) /\ authority.gen = ev.gen
  /\ authority.snapshot = ev.snapshot
  /\ authority.cutover = IF ev.type = "SWITCH" THEN NoCutover ELSE ev.cutover
  /\ \A i \in DOMAIN transitions :
       transitions[i].type = ev.type => transitions[i].cutover # ev.cutover
  /\ transitions' = Append(transitions, ev)
  /\ authority' = [mode |-> ToMode(ev.type), gen |-> ev.gen + 1, snapshot |-> ev.snapshot,
                   cutover |-> CutoverAfter(ev)]

\* With the row as the caller has read it, or with the arguments of a call
\* made before.
AskTransition(t, type, cutover) ==
  /\ At(t, "idle")
  /\ \/ Do(t, [pc |-> "transition",
               ev |-> [type |-> type, gen |-> authority.gen, snapshot |-> authority.snapshot,
                       cutover |-> cutover]])
     \/ \E i \in DOMAIN transitions : Do(t, [pc |-> "transition", ev |-> transitions[i]])
  /\ UNCHANGED <<authority, transitions, rows, registered, seed>>

DoTransition(t) ==
  /\ At(t, "transition")
  /\ \/ Transition(task[t].ev) /\ Do(t, [task[t] EXCEPT !.pc = "answered"])
     \/ /\ Replays(task[t].ev) /\ Do(t, [task[t] EXCEPT !.pc = "answered"])
        /\ UNCHANGED <<authority, transitions>>
     \/ Stop(t) /\ UNCHANGED <<authority, transitions>>
  /\ UNCHANGED <<rows, registered, seed>>

Answered(t) ==
  /\ At(t, "answered") /\ Stop(t)
  /\ UNCHANGED <<authority, transitions, rows, registered, seed>>

-----------------------------------------------------------------------------
(* register_slice: the authority is read before and inside the transaction. *)
AskRegister(t) ==
  /\ At(t, "idle") /\ authority.mode = "CONTROL_STORE_AUTHORITY"
  /\ Await(t, "register")
  /\ UNCHANGED <<authority, transitions, rows, registered, seed>>

\* Mutant: only the check before the transaction.
AuthorisedBefore(gen) == TRUE

Authorised(gen) == authority.mode = "CONTROL_STORE_AUTHORITY" /\ authority.gen = gen

Register(t) ==
  /\ At(t, "register") /\ Stop(t)
  /\ \/ /\ Authorised(task[t].gen) /\ registered = -1
        /\ registered' = authority.gen
     \/ UNCHANGED registered
  /\ UNCHANGED <<authority, transitions, rows, seed>>

-----------------------------------------------------------------------------
(* seed_isolated_five_slice_control_state: the execution of the first      *)
(* slice in four transactions, the rows one by one, their snapshot.        *)

\* An execution without its result commit is a SEED_FINGERPRINT_CONFLICT.
StartSeed(t) ==
  /\ At(t, "idle")
  /\ \/ seed = 0 /\ Do(t, [pc |-> "seed", gen |-> 0])
     \/ seed >= 3 /\ Await(t, "rows")
  /\ UNCHANGED <<authority, transitions, rows, registered, seed>>

\* Create, lease, register the result, release.  Each answers the call that
\* finds its event with the current row; task[t].gen is the row the tool was
\* answered with, and with another version the event is a conflict.
SeedExecution(t) ==
  /\ \E i \in 1..4 :
       /\ At(t, <<"seed", "lease", "result", "release">>[i])
       /\ IF i = 1 \/ task[t].gen = i - 1
          THEN /\ seed' = IF seed < i THEN i ELSE seed
               /\ IF i < 4 THEN Do(t, [pc |-> <<"lease", "result", "release">>[i], gen |-> seed'])
                          ELSE Await(t, "rows")
          ELSE seed' = seed /\ Stop(t)
  /\ UNCHANGED <<authority, transitions, rows, registered>>

\* Mutant: a row that is there already is inserted again.
SeedRowAgain(t) ==
  /\ At(t, "rows")
  /\ \/ rows' = rows + 1 /\ UNCHANGED task
     \/ rows = Slices /\ registered = -1 /\ Await(t, "snapshot") /\ UNCHANGED rows
     \/ rows = Slices /\ registered # -1 /\ Stop(t) /\ UNCHANGED rows
  /\ UNCHANGED <<authority, transitions, registered, seed>>

\* reconcile_slice_control_state: a row that is there already is a replay.
\* There have to be exactly the rows of the manifest.
SeedRow(t) ==
  /\ At(t, "rows")
  /\ \/ rows < Slices /\ rows' = rows + 1 /\ UNCHANGED task
     \/ rows = Slices /\ registered = -1 /\ Await(t, "snapshot") /\ UNCHANGED rows
     \/ rows = Slices /\ registered # -1 /\ Stop(t) /\ UNCHANGED rows
  /\ UNCHANGED <<authority, transitions, registered, seed>>

\* reconcile_transitional_authority: the generation was read after the rows,
\* equal fingerprints are answered without a change.
ReconcileAuthority(t) ==
  /\ At(t, "snapshot") /\ Stop(t)
  /\ \/ /\ authority.mode = "TRANSITIONAL_AUTHORITY" /\ authority.gen = task[t].gen
        /\ authority.snapshot # Slices /\ authority.gen < MaxGen
        /\ authority' = [mode |-> authority.mode, gen |-> authority.gen + 1, snapshot |-> Slices,
                         cutover |-> authority.cutover]
     \/ UNCHANGED authority
  /\ UNCHANGED <<transitions, rows, registered, seed>>

Die(t) ==
  /\ ~At(t, "idle") /\ Stop(t)
  /\ UNCHANGED <<authority, transitions, rows, registered, seed>>

AuthorityNext ==
  \E t \in Tool :
    \/ \E type \in {"SWITCH", "ROLLBACK"}, x \in Cutover : AskTransition(t, type, x)
    \/ DoTransition(t) \/ Answered(t) \/ AskRegister(t) \/ Register(t)
    \/ StartSeed(t) \/ SeedExecution(t) \/ SeedRow(t) \/ ReconcileAuthority(t) \/ Die(t)

AuthoritySpec == AuthorityInit /\ [][AuthorityNext]_authorityVars

-----------------------------------------------------------------------------
(* Properties. *)

\* Row and events agree: switches and rollbacks alternate, a rollback undoes
\* the switch before it, no cutover is used twice in a direction, and the row
\* stands where the last event, or a later snapshot, left it.
AuthorityLedger ==
  /\ \A i \in DOMAIN transitions :
       /\ transitions[i].type = IF i % 2 = 1 THEN "SWITCH" ELSE "ROLLBACK"
       /\ i % 2 = 0 => /\ transitions[i].cutover = transitions[i - 1].cutover
                       /\ transitions[i].gen = transitions[i - 1].gen + 1
                       /\ transitions[i].snapshot = transitions[i - 1].snapshot
       /\ i > 2 => transitions[i].gen > transitions[i - 2].gen
       /\ \A j \in DOMAIN transitions :
            j < i /\ transitions[j].type = transitions[i].type
              => transitions[j].cutover # transitions[i].cutover
  /\ IF Len(transitions) % 2 = 1
     THEN InForce(Last(transitions))
     ELSE authority.mode = "TRANSITIONAL_AUTHORITY" /\ authority.cutover = NoCutover

\* A call is answered, for the first time or on a retry, only while what it
\* asked for is in force: a retried switch is not confirmed after its rollback.
AnswersInForce ==
  \A t \in Tool : At(t, "transition") /\ task'[t].pc = "answered" => InForce(task[t].ev)'

AnsweredInForce == [][AnswersInForce]_authorityVars

\* A slice is registered only under the store's authority, although the
\* authority may be rolled back between the first check and the transaction.
RegisteredUnderStore ==
  registered # -1 =>
    \E i \in DOMAIN transitions : transitions[i].type = "SWITCH" /\ transitions[i].gen + 1 = registered
=============================================================================
