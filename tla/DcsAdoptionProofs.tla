------------------------- MODULE DcsAdoptionProofs -------------------------
(***************************************************************************)
(* The adoption moves the schema only while no writer runs, gives at most  *)
(* one command without its lease, and ends in ADOPTED only with the        *)
(* writers restored: for any services, any number of runs and leases, and  *)
(* either schema at the start.                                             *)
(***************************************************************************)
EXTENDS DcsAdoption, TLAPS

-----------------------------------------------------------------------------
(* The invariant. *)

\* The values of the fields of a run and of the lease.
Stage == {"idle", "confirm", "acquire", "inspect", "off", "migrate", "rebind",
          "on", "release", "readback", "done"}
Stages == {7, 8}
Inventories == [Writer -> {"A", "B", "C"}]
Todos == SUBSET Writer
Places == Writer \cup {NoWriter}
Commands == {"disable", "bootout", "enable", "bootstrap", "kickstart"}
Touches == {"none", "disabled", "booted"}
Tokens == 0..MaxToken
Holders == Run \cup {NoRun}

Fence == [holder : Holders, token : Tokens, live : BOOLEAN]

LocalRun == [pc : Stage, stage : Stages, initial : Inventories, before : Inventories,
             todo : Todos, at : Places, next : Commands, fresh : BOOLEAN, touched : Touches,
             undo : BOOLEAN, token : Tokens, status : Outcomes, outcome : Outcomes, late : Nat]

Fields == {"pc", "stage", "initial", "before", "todo", "at", "next", "fresh", "touched", "undo",
           "token", "status", "outcome", "late"}

\* n differs from m in the given fields at most.
AgreesBut(n, m, changed) == \A f \in Fields \ changed : n[f] = m[f]

Types ==
  /\ service \in ServiceStates /\ schema \in 6..8 /\ fence \in Fence
  /\ run \in [Run -> LocalRun]

\* The stages in which a run's inventory is that of its own lease.
Working == {"off", "migrate", "rebind", "on"}

\* What the place of a run in the code says of its own state.
Shape(m) ==
  /\ m.todo \subseteq Targets(m.before) /\ m.at \in m.todo \cup {NoWriter}
  /\ m.pc \in {"idle", "confirm", "acquire", "inspect", "migrate", "rebind", "release", "done"} => m.todo = {}
  /\ m.pc = "readback" /\ ~m.undo => m.todo = {}
  /\ m.fresh => m.pc \in {"off", "migrate", "on"}
  /\ m.pc = "off" => m.next \in {"disable", "bootout"}
  /\ m.pc = "off" /\ m.next = "bootout" => m.at # NoWriter
  /\ m.pc = "on" /\ m.fresh => m.at # NoWriter
  /\ m.pc = "on" /\ m.at # NoWriter => m.next \in {"enable", "bootstrap", "kickstart"}
  /\ m.pc = "inspect" => m.stage = 8 /\ m.next = "disable"
  /\ m.undo => m.stage = 8 /\ m.pc \in {"on", "release", "readback"}
  /\ m.stage = 8 \/ m.pc \in {"rebind", "on", "release", "readback"} => schema >= 7
  /\ m.pc \in Working \cup {"inspect", "release", "readback"} => m.token # 0
  /\ m.status # "ADOPTED" /\ (m.pc # "done" => m.outcome = "NONE")

(* A run gives a command without its lease at most once: afterwards it has *)
(* lost the lease, and asserts it before the next.                         *)
Late(r) ==
  LET m == run[r] IN
  m.late # 0 =>
    /\ m.late = 1
    /\ m.pc # "done" => ~HoldsFence(r) /\ ~m.fresh /\ m.pc \in {"off", "rebind", "on"}

\* The lease's token is that of its holder, or of the run that gave it back.
OwnToken(r) ==
  /\ run[r].token <= fence.token
  /\ run[r].token = fence.token /\ run[r].token # 0 => fence.holder \in {r, NoRun}

AsFound(m, w) == Same(w, m.before[w]) /\ (m.initial[w] = "A" => Same(w, "A"))

(* Between a run's last look at the writers and its last at the lease they *)
(* stay as it saw them, unless another run was granted the lease.          *)
Restored(r) ==
  LET m == run[r] IN
  (/\ m.pc \in {"release", "readback"} /\ ~m.undo /\ m.stage = 8 /\ fence.token = m.token
   /\ \A s \in Run : run[s].late = 0)
  => \A w \in Writer : AsFound(m, w)

\* Run r is about to enable or bootstrap writer w, with or without its lease.
Pending(r, w) ==
  /\ run[r].pc = "on" /\ run[r].fresh
  /\ run[r].at = w /\ run[r].next \in {"enable", "bootstrap"}

\* Writer w is unloaded, and no command that is pending will load it.
Clear(w) == ~service[w].loaded /\ (service[w].enabled => \A r \in Run : ~Pending(r, w))

\* No two runs are about to bring back one writer, which is unloaded.
Bringing ==
  \A w \in Writer : \A r \in Run :
    Pending(r, w) => ~service[w].loaded /\ \A s \in Run : Pending(s, w) => s = r

(* The writers the holder has taken down and has to bring back are its own *)
(* and stay down; those it did not target are clear when it looks for the  *)
(* last time before it migrates.                                           *)
Owns(r) ==
  LET m == run[r] IN
  HoldsFence(r) /\ m.pc \in Working =>
    /\ \A w \in Targets(m.before) : \A s \in Run \ {r} : ~Pending(s, w)
    /\ m.pc \in {"migrate", "rebind"} => \A w \in Targets(m.before) : ~service[w].loaded
    /\ m.pc = "on" => \A w \in m.todo : ~service[w].loaded \/ (m.at = w /\ m.next = "kickstart")
    /\ m.pc = "off" /\ schema = m.stage - 1 => \A w \in Writer \ Targets(m.before) : Clear(w)

\* Run r may migrate to schema 7, or to schema 8.
ReadyFor(r, version) ==
  run[r].pc = "migrate" /\ run[r].stage = version /\ schema = version - 1

(* While a run may migrate, whether it still holds the lease or not, every *)
(* writer is clear, and a successor found nothing to bring back.           *)
Quieted(r) ==
  /\ ReadyFor(r, 7) \/ ReadyFor(r, 8) => \A w \in Writer : Clear(w)
  /\ ReadyFor(r, 8) => \A s \in Run \ {r} :
       HoldsFence(s) /\ run[s].pc \in Working => Targets(run[s].before) = {}

\* Until schema 7 nobody brings a writer back: what a preflight found off stays off.
FoundOff(r) ==
  schema = 6 /\ run[r].pc \in {"confirm", "acquire", "off", "migrate"}
    => \A w \in Writer : run[r].initial[w] = "C" => ~service[w].loaded

Sound(r) ==
  /\ Shape(run[r]) /\ Late(r) /\ OwnToken(r) /\ Restored(r)
  /\ Owns(r) /\ Quieted(r) /\ FoundOff(r)

AdoptionInv == Types /\ Bringing /\ \A r \in Run : Sound(r)

-----------------------------------------------------------------------------
(* Runs and services. *)

\* The step of a run changes its own state only.
LEMMA Moves ==
  ASSUME Types, NEW r \in Run, NEW n \in LocalRun, run' = [run EXCEPT ![r] = n]
  PROVE  /\ run' \in [Run -> LocalRun] /\ run'[r] = n
         /\ \A s \in Run \ {r} : run'[s] = run[s]
BY DEF Types

\* Between two steps of one run, the fence is as it was, free, or granted to it.
FenceMoves(r) ==
  \/ fence' = fence
  \/ fence' = Freed
  \/ fence' = [holder |-> r, token |-> fence.token + 1, live |-> TRUE] /\ fence.token < MaxToken

\* What a move of the fence means for the runs.
LEMMA FenceMoved ==
  ASSUME Types, NEW r \in Run, FenceMoves(r), \A s \in Run \ {r} : run'[s].token = run[s].token,
         \A s \in Run : OwnToken(s)
  PROVE  /\ fence' \in Fence
         /\ fence'.token >= fence.token
         /\ \A s \in Run \ {r} : (HoldsFence(s)' => HoldsFence(s)) /\ OwnToken(s)'
         /\ \A s \in Run \ {r} : run[s].token = fence'.token => fence'.token = fence.token
         /\ fence'.token = fence.token => fence'.holder \in {fence.holder, NoRun}
<1>1. /\ fence \in Fence /\ Run \subseteq Holders /\ NoRun \in Holders
      /\ \A s \in Run : run[s].token \in Nat /\ run[s].token <= fence.token
  BY DEF Types, Holders, LocalRun, Tokens, OwnToken
<1>2. fence.token \in Nat /\ fence.token <= MaxToken /\ MaxToken \in Nat /\ NoRun \notin Run
  BY <1>1, AdoptionAssumption DEF Fence, Tokens
<1>3. CASE fence' = fence
  BY <1>1, <1>2, <1>3 DEF HoldsFence, OwnToken
<1>4. CASE fence' = Freed
  <2>1. fence'.holder = NoRun /\ fence'.token = fence.token /\ fence'.live = FALSE /\ fence' \in Fence
    BY <1>1, <1>4 DEF Freed, Fence
  <2>2. QED
    BY <1>1, <1>2, <2>1 DEF HoldsFence, OwnToken
<1>5. CASE fence' = [holder |-> r, token |-> fence.token + 1, live |-> TRUE] /\ fence.token < MaxToken
  <2>1. fence'.holder = r /\ fence'.token = fence.token + 1
    BY <1>5
  <2>2. fence' \in Fence
    BY <1>1, <1>2, <1>5 DEF Fence, Tokens
  <2>3. QED
    BY <1>1, <1>2, <2>1, <2>2 DEF HoldsFence, OwnToken
<1>6. QED
  BY <1>3, <1>4, <1>5 DEF FenceMoves

\* A run holds the lease alone, and no other run's token is the current one.
LEMMA Holder ==
  ASSUME Types, NEW r \in Run, HoldsFence(r), OwnToken(r), Shape(run[r]),
         run[r].pc \in Working \cup {"inspect", "release", "readback"}
  PROVE  \A s \in Run \ {r} : ~HoldsFence(s) /\ (OwnToken(s) => run[s].token # fence.token)
BY AdoptionAssumption DEF HoldsFence, OwnToken, Shape

\* A writer whose class is known is in exactly one of the three conditions.
LEMMA Condition ==
  ASSUME Types, NEW w \in Writer
  PROVE  /\ service[w].enabled \in BOOLEAN /\ service[w].loaded \in BOOLEAN /\ service[w].running \in BOOLEAN
         /\ Class(w) \in Classes
         /\ Class(w) = "A" <=> service[w].enabled /\ service[w].loaded /\ service[w].running
         /\ Class(w) = "B" <=> service[w].enabled /\ service[w].loaded /\ ~service[w].running
         /\ Class(w) = "C" <=> ~service[w].enabled /\ ~service[w].loaded
BY DEF Types, ServiceStates, Class, Active, Classes

\* A pending command has a writer.
LEMMA PendingAt ==
  ASSUME Types, NEW r \in Run, Shape(run[r]), NEW w \in Writer, Pending(r, w)
  PROVE  w \in run[r].todo /\ schema >= 7 /\ w \in Targets(run[r].before)
BY AdoptionAssumption DEF Pending, Shape, Types

-----------------------------------------------------------------------------
(* What a run's step leaves of the others. *)

\* The commands that may become pending are those of the holder's own writers.
NewlyPending(r, w) ==
  /\ HoldsFence(r) /\ run[r].pc = "on" /\ w \in run[r].todo
  /\ ~(run[r].at = w /\ run[r].next = "kickstart")

\* A run at work under the lease was so before, with the same inventory, or found no writer.
StaysAtWork(r) ==
  HoldsFence(r)' /\ run'[r].pc \in Working =>
    \/ HoldsFence(r) /\ run[r].pc \in Working /\ run'[r].before = run[r].before
    \/ Targets(run'[r].before) = {}
    \/ \A s \in Run : ~ReadyFor(s, 8)

\* What holds of the other runs after a step that gives no command.
Frame(r) == Types' /\ Bringing' /\ \A s \in Run \ {r} : Sound(s)'

\* A step without a command leaves the other runs sound.
LEMMA QuietStep ==
  ASSUME AdoptionInv, NEW r \in Run, NEW n \in LocalRun, run' = [run EXCEPT ![r] = n],
         UNCHANGED <<service, schema>>, FenceMoves(r), n.late = run[r].late,
         \A w \in Writer : Pending(r, w)' => Pending(r, w) \/ NewlyPending(r, w),
         StaysAtWork(r)
  PROVE  Frame(r)
<1> USE DEF AdoptionInv
<1>1. /\ run' \in [Run -> LocalRun] /\ run'[r] = n
      /\ \A s \in Run \ {r} : run'[s] = run[s]
  BY Moves
<1>2. /\ Types /\ Bringing
      /\ \A s \in Run : /\ Shape(run[s]) /\ Late(s) /\ OwnToken(s) /\ Restored(s)
                        /\ Owns(s) /\ Quieted(s) /\ FoundOff(s)
  BY DEF Sound
<1>3. /\ fence' \in Fence
      /\ \A s \in Run \ {r} : (HoldsFence(s)' => HoldsFence(s)) /\ OwnToken(s)'
      /\ \A s \in Run \ {r} : run[s].token = fence'.token => fence'.token = fence.token
  BY <1>1, <1>2, FenceMoved
<1>4. service' = service /\ schema' = schema
  OBVIOUS
<1>5. Types'
  BY <1>1, <1>2, <1>3, <1>4 DEF Types
<1>6. \A s \in Run \ {r} : \A w \in Writer : Pending(s, w)' <=> Pending(s, w)
  BY <1>1 DEF Pending
<1>7. \A w \in Writer : NewlyPending(r, w) =>
        /\ ~service[w].loaded /\ w \in Targets(run[r].before) /\ schema >= 7
        /\ \A s \in Run \ {r} : ~Pending(s, w) /\ ~HoldsFence(s)
        /\ \A s \in Run : ~ReadyFor(s, 7) /\ ~ReadyFor(s, 8)
  <2> SUFFICES ASSUME NEW w \in Writer, NewlyPending(r, w)
      PROVE  /\ ~service[w].loaded /\ w \in Targets(run[r].before) /\ schema >= 7
             /\ \A s \in Run \ {r} : ~Pending(s, w) /\ ~HoldsFence(s)
             /\ \A s \in Run : ~ReadyFor(s, 7) /\ ~ReadyFor(s, 8)
    OBVIOUS
  <2>1. HoldsFence(r) /\ run[r].pc = "on" /\ run[r].pc \in Working /\ w \in run[r].todo
    BY DEF NewlyPending, Working
  <2>2. w \in Targets(run[r].before) /\ schema >= 7
    BY <1>2, <2>1 DEF Shape
  <2>3. ~service[w].loaded /\ \A s \in Run \ {r} : ~Pending(s, w)
    BY <1>2, <2>1, <2>2 DEF Owns, NewlyPending
  <2>4. \A s \in Run \ {r} : ~HoldsFence(s)
    BY <1>2, <2>1, Holder
  <2>5. \A s \in Run \ {r} : ~ReadyFor(s, 8)
    BY <1>2, <2>1, <2>2 DEF Quieted
  <2>6. \A s \in Run : ~ReadyFor(s, 7)
    BY <2>2 DEF ReadyFor
  <2>7. ~ReadyFor(r, 8)
    BY <2>1 DEF ReadyFor
  <2>8. QED
    BY <2>2, <2>3, <2>4, <2>5, <2>6, <2>7
<1>8. Bringing'
  BY <1>2, <1>4, <1>6, <1>7 DEF Bringing
<1>9. ASSUME NEW s \in Run \ {r} PROVE Sound(s)'
  <2>1. run'[s] = run[s] /\ Shape(run[s])'
    BY <1>1, <1>2, <1>4 DEF Shape
  <2>2. Late(s)'
    BY <1>2, <1>3, <2>1 DEF Late
  <2>3. OwnToken(s)'
    BY <1>3
  <2>4. Restored(s)'
    <3>1. \A t \in Run : run'[t].late = run[t].late
      BY <1>1
    <3>2. \A w \in Writer : AsFound(run[s], w)' <=> AsFound(run[s], w)
      BY <1>4 DEF AsFound, Same, Class, Active
    <3>3. QED
      BY <1>2, <1>3, <2>1, <3>1, <3>2 DEF Restored
  <2>5. \A w \in Writer : Clear(w) /\ (Pending(r, w)' => Pending(r, w)) => Clear(w)'
    BY <1>4, <1>6 DEF Clear
  <2>6. Owns(s)'
    <3> SUFFICES ASSUME HoldsFence(s)', run'[s].pc \in Working PROVE Owns(s)'
      BY DEF Owns
    <3>1. HoldsFence(s)
      BY <1>3
    <3>2. \A w \in Writer : Pending(r, w)' => Pending(r, w)
      BY <1>7, <3>1
    <3>3. QED
      BY <1>2, <1>4, <1>6, <2>1, <2>5, <3>1, <3>2 DEF Owns, Targets
  <2>7. Quieted(s)'
    <3>1. \A v \in {7, 8} : ReadyFor(s, v)' <=> ReadyFor(s, v)
      BY <1>4, <2>1 DEF ReadyFor
    <3>2. (ReadyFor(s, 7) \/ ReadyFor(s, 8)) => \A w \in Writer : Clear(w)'
      BY <1>2, <1>7, <2>5 DEF Quieted
    <3>3. ASSUME ReadyFor(s, 8), NEW t \in Run \ {s}, HoldsFence(t)', run'[t].pc \in Working
          PROVE  Targets(run'[t].before) = {}
      <4>1. CASE t = r
        <5>1. \/ HoldsFence(r) /\ run[r].pc \in Working /\ run'[r].before = run[r].before
              \/ Targets(run'[r].before) = {}
          BY <3>3, <4>1 DEF StaysAtWork
        <5>2. QED
          BY <1>2, <3>3, <4>1, <5>1 DEF Quieted
      <4>2. CASE t # r
        BY <1>1, <1>2, <1>3, <3>3, <4>2 DEF Quieted
      <4>3. QED
        BY <4>1, <4>2
    <3>4. QED
      BY <3>1, <3>2, <3>3 DEF Quieted
  <2>8. FoundOff(s)'
    BY <1>2, <1>4, <2>1 DEF FoundOff
  <2>9. QED
    BY <2>1, <2>2, <2>3, <2>4, <2>6, <2>7, <2>8 DEF Sound
<1>10. QED
  BY <1>5, <1>8, <1>9 DEF Frame

(* What a command may do: load a writer that is enabled, or enable one,    *)
(* only where that was pending.                                            *)
Commanded(r) ==
  \A w \in Writer :
    /\ service'[w].loaded => service[w].loaded \/ (Pending(r, w) /\ service[w].enabled)
    /\ service'[w].enabled => service[w].enabled \/ Pending(r, w)

\* A command keeps clear writers clear.
LEMMA ClearStays ==
  ASSUME Bringing, NEW r \in Run, Commanded(r), ~run'[r].fresh, NEW w \in Writer, Clear(w),
         \A s \in Run \ {r} : run'[s] = run[s]
  PROVE  Clear(w)'
<1>1. ~service'[w].loaded
  BY DEF Clear, Commanded
<1>2. ASSUME service'[w].enabled, NEW s \in Run, Pending(s, w)' PROVE FALSE
  <2>1. s # r /\ Pending(s, w)
    BY <1>2 DEF Pending
  <2>2. service[w].enabled \/ Pending(r, w)
    BY <1>2 DEF Commanded
  <2>3. QED
    BY <2>1, <2>2 DEF Clear, Bringing
<1>3. QED
  BY <1>1, <1>2 DEF Clear

\* A command leaves the other runs sound, whether its run still holds the lease or not.
LEMMA CommandStep ==
  ASSUME AdoptionInv, NEW r \in Run, NEW n \in LocalRun, run' = [run EXCEPT ![r] = n],
         UNCHANGED <<schema, fence>>, service' \in ServiceStates, Commanded(r),
         run[r].pc \in {"off", "on"}, ~n.fresh, n.before = run[r].before, n.token = run[r].token,
         n.late = IF HoldsFence(r) THEN run[r].late ELSE run[r].late + 1
  PROVE  Frame(r)
<1> USE DEF AdoptionInv
<1>1. /\ run' \in [Run -> LocalRun] /\ run'[r] = n
      /\ \A s \in Run \ {r} : run'[s] = run[s]
  BY Moves
<1>2. /\ Types /\ Bringing
      /\ \A s \in Run : /\ Shape(run[s]) /\ Late(s) /\ OwnToken(s) /\ Restored(s)
                        /\ Owns(s) /\ Quieted(s) /\ FoundOff(s)
  BY DEF Sound
<1>3. schema' = schema /\ fence' = fence /\ \A s \in Run \ {r} : HoldsFence(s)' <=> HoldsFence(s)
  BY <1>1 DEF HoldsFence
<1>4. Types'
  BY <1>1, <1>2, <1>3 DEF Types
<1>5. \A w \in Writer : ~Pending(r, w)' /\ \A s \in Run \ {r} : Pending(s, w)' <=> Pending(s, w)
  BY <1>1 DEF Pending
<1>6. ASSUME NEW s \in Run \ {r}, NEW w \in Writer, ~service[w].loaded, ~Pending(r, w)
      PROVE  ~service'[w].loaded
  BY <1>6 DEF Commanded
<1>7. Bringing'
  <2> SUFFICES ASSUME NEW w \in Writer, NEW s \in Run, Pending(s, w)'
      PROVE  ~service'[w].loaded /\ \A t \in Run : Pending(t, w)' => t = s
    BY DEF Bringing
  <2>1. s # r /\ Pending(s, w)
    BY <1>5
  <2>2. ~service[w].loaded /\ \A t \in Run : Pending(t, w) => t = s
    BY <1>2, <2>1 DEF Bringing
  <2>3. QED
    BY <1>5, <1>6, <2>1, <2>2
<1>8. ASSUME NEW s \in Run \ {r} PROVE Sound(s)'
  <2>1. run'[s] = run[s] /\ Shape(run[s])'
    BY <1>1, <1>2, <1>3 DEF Shape
  <2>2. Late(s)' /\ OwnToken(s)'
    BY <1>2, <1>3, <2>1 DEF Late, OwnToken
  <2>3. Restored(s)'
    <3> SUFFICES ASSUME run[s].pc \in {"release", "readback"}, fence.token = run[s].token, n.late = 0
        PROVE  FALSE
      BY <1>1, <1>3, <2>1 DEF Restored
    <3>1. run[r].late \in Nat
      BY <1>2 DEF Types, LocalRun
    <3>2. HoldsFence(r)
      BY <3>1
    <3>3. run[r].pc \in Working
      BY DEF Working
    <3>4. run[s].token # fence.token
      BY <1>2, <3>2, <3>3, Holder
    <3>5. QED
      BY <3>4
  <2>4. \A w \in Writer : Clear(w) => Clear(w)'
    BY <1>1, <1>2, ClearStays
  <2>5. Owns(s)'
    <3> SUFFICES ASSUME HoldsFence(s), run[s].pc \in Working PROVE Owns(s)'
      BY <1>3, <2>1 DEF Owns
    <3>1. \A w \in Targets(run[s].before) :
            /\ \A t \in Run \ {s} : ~Pending(t, w) /\ ~Pending(t, w)'
            /\ ~service[w].loaded => ~service'[w].loaded
      BY <1>2, <1>5, <1>6 DEF Owns, Targets
    <3>2. run[s].todo \subseteq Targets(run[s].before)
      BY <1>2 DEF Shape
    <3>3. QED
      BY <1>2, <1>3, <2>1, <2>4, <3>1, <3>2 DEF Owns, Targets
  <2>6. Quieted(s)'
    <3>1. \A v \in {7, 8} : ReadyFor(s, v)' <=> ReadyFor(s, v)
      BY <1>3, <2>1 DEF ReadyFor
    <3>2. \A t \in Run : HoldsFence(t)' /\ run'[t].pc \in Working =>
            HoldsFence(t) /\ run[t].pc \in Working /\ run'[t].before = run[t].before
      <4>1. HoldsFence(r)' => HoldsFence(r)
        BY <1>1, <1>3 DEF HoldsFence
      <4>2. QED
        BY <1>1, <1>3, <4>1 DEF Working
    <3>3. QED
      BY <1>2, <2>4, <3>1, <3>2 DEF Quieted
  <2>7. FoundOff(s)'
    <3>1. schema = 6 => \A w \in Writer : ~Pending(r, w)
      BY <1>2, PendingAt
    <3>2. QED
      BY <1>2, <1>3, <1>6, <2>1, <3>1 DEF FoundOff
  <2>8. QED
    BY <2>1, <2>2, <2>3, <2>5, <2>6, <2>7 DEF Sound
<1>9. QED
  BY <1>4, <1>7, <1>8 DEF Frame

\* A migration leaves the other runs sound.
LEMMA MigrationStep ==
  ASSUME AdoptionInv, NEW r \in Run, NEW n \in LocalRun, run' = [run EXCEPT ![r] = n],
         UNCHANGED <<service, fence>>, schema = run[r].stage - 1, schema' = schema + 1,
         n.pc = "rebind", run[r].pc = "migrate", n.before = run[r].before, n.token = run[r].token,
         n.late >= run[r].late
  PROVE  Frame(r)
<1> USE DEF AdoptionInv
<1>1. /\ run' \in [Run -> LocalRun] /\ run'[r] = n
      /\ \A s \in Run \ {r} : run'[s] = run[s]
  BY Moves
<1>2. /\ Types /\ Bringing
      /\ \A s \in Run : /\ Shape(run[s]) /\ Late(s) /\ OwnToken(s) /\ Restored(s)
                        /\ Owns(s) /\ Quieted(s) /\ FoundOff(s)
  BY DEF Sound
<1>3. /\ service' = service /\ fence' = fence
      /\ \A s \in Run : HoldsFence(s)' <=> HoldsFence(s)
  BY <1>1 DEF HoldsFence
<1>4. schema \in 6..7 /\ schema' \in 7..8 /\ \A s \in Run : run[s].stage \in {7, 8}
  BY <1>2 DEF Types, LocalRun, Stages
<1>5. Types'
  BY <1>1, <1>2, <1>3, <1>4 DEF Types
<1>6. \A w \in Writer : ~Pending(r, w)' /\ \A s \in Run \ {r} : Pending(s, w)' <=> Pending(s, w)
  BY <1>1 DEF Pending
<1>7. Bringing'
  BY <1>2, <1>3, <1>6 DEF Bringing
<1>8. ASSUME NEW s \in Run \ {r} PROVE Sound(s)'
  <2>1. run'[s] = run[s] /\ Shape(run[s])'
    BY <1>1, <1>2, <1>4 DEF Shape
  <2>2. Late(s)' /\ OwnToken(s)'
    BY <1>2, <1>3, <2>1 DEF Late, OwnToken
  <2>3. Restored(s)'
    <3>1. n.late \in Nat /\ run[r].late \in Nat
      BY <1>2 DEF Types, LocalRun
    <3>2. \A t \in Run : run'[t].late = 0 => run[t].late = 0
      BY <1>1, <3>1
    <3>3. \A w \in Writer : AsFound(run[s], w)' <=> AsFound(run[s], w)
      BY <1>3 DEF AsFound, Same, Class, Active
    <3>4. QED
      BY <1>2, <1>3, <2>1, <3>2, <3>3 DEF Restored
  <2>4. \A w \in Writer : Clear(w) => Clear(w)'
    BY <1>3, <1>6 DEF Clear
  <2>5. Owns(s)'
    <3> SUFFICES ASSUME HoldsFence(s), run[s].pc \in Working PROVE Owns(s)'
      BY <1>3, <2>1 DEF Owns
    <3>1. schema' # run[s].stage - 1 \/ run[s].pc # "off"
      <4>1. CASE schema = 7
        BY <1>4, <4>1
      <4>2. CASE schema = 6
        BY <1>2, <1>4, <4>2 DEF Shape
      <4>3. QED
        BY <1>4, <4>1, <4>2
    <3>2. QED
      BY <1>2, <1>3, <1>6, <2>1, <3>1 DEF Owns, Targets
  <2>6. Quieted(s)'
    <3>1. ~ReadyFor(s, 7)' /\ ~ReadyFor(s, 8)'
      BY <1>2, <1>4, <2>1 DEF ReadyFor, Shape
    <3>2. QED
      BY <3>1 DEF Quieted
  <2>7. FoundOff(s)'
    BY <1>4 DEF FoundOff
  <2>8. QED
    BY <2>1, <2>2, <2>3, <2>5, <2>6, <2>7 DEF Sound
<1>9. QED
  BY <1>5, <1>7, <1>8 DEF Frame

-----------------------------------------------------------------------------
(* What is true of the run that takes the step. *)

\* A command or a migration.
LEMMA HasActed ==
  ASSUME NEW r \in Run, NEW x \in LocalRun, NEW m,
         m = Acted(r, x)
  PROVE  /\ m \in LocalRun /\ ~m.fresh /\ m.late = (IF HoldsFence(r) THEN x.late ELSE x.late + 1)
         /\ AgreesBut(m, x, {"fresh", "late"})
<1>1. PICK l \in Nat : l = IF HoldsFence(r) THEN x.late ELSE x.late + 1
  BY DEF LocalRun
<1>2. Acted(r, x) = [x EXCEPT !.fresh = FALSE, !.late = l]
  BY <1>1 DEF Acted, LocalRun
<1>3. QED
  BY <1>1, <1>2 DEF LocalRun, AgreesBut, Fields

\* The state a run starts from.
LEMMA IdleTyped ==
  /\ IdleRun \in LocalRun /\ IdleRun.pc = "idle" /\ IdleRun.late = 0 /\ IdleRun.token = 0 /\ IdleRun.stage = 7
  /\ IdleRun.todo = {} /\ IdleRun.at = NoWriter /\ IdleRun.status = "NONE" /\ IdleRun.outcome = "NONE"
  /\ IdleRun.fresh = FALSE /\ IdleRun.undo = FALSE
<1>1. NoInventory \in Inventories /\ {} \in Todos /\ NoWriter \in Places /\ 0 \in Tokens
      /\ "idle" \in Stage /\ 7 \in Stages /\ "disable" \in Commands /\ "none" \in Touches /\ "NONE" \in Outcomes
  BY AdoptionAssumption DEF NoInventory, Inventories, Todos, Places, Tokens, Stage, Stages, Commands, Touches,
                            Outcomes
<1>2. QED
  BY <1>1 DEF IdleRun, LocalRun

\* The end.
LEMMA HasEnded ==
  ASSUME NEW x \in LocalRun, NEW t \in Outcomes, NEW m,
         m = Concluded(x, t)
  PROVE  /\ m \in LocalRun /\ m.pc = "done" /\ m.outcome = t /\ m.late = x.late /\ m.token = 0
         /\ m.stage = 7 /\ m.todo = {} /\ m.at = NoWriter /\ m.status = "NONE" /\ ~m.fresh /\ ~m.undo
<1>1. "done" \in Stage /\ x.late \in Nat
  BY DEF Stage, LocalRun
<1>2. QED
  BY <1>1, IdleTyped DEF Concluded, LocalRun
-----------------------------------------------------------------------------
(* The steps. *)

\* What the invariant says of run r, and of the statuses a failure may report.
LEMMA Facts ==
  ASSUME AdoptionInv, NEW r \in Run
  PROVE  /\ Types /\ Bringing /\ run[r] \in LocalRun /\ schema \in 6..8 /\ fence \in Fence
         /\ Shape(run[r]) /\ Late(r) /\ OwnToken(r) /\ Restored(r) /\ Owns(r) /\ Quieted(r) /\ FoundOff(r)
BY DEF AdoptionInv, Sound, Types

LEMMA Together ==
  ASSUME NEW r \in Run, Frame(r), Sound(r)'
  PROVE  AdoptionInv'
BY DEF Frame, AdoptionInv

\* The statuses of a failure.
Failure == {"NOT_REQUIRED", "FRESH_AUTHORITY", "RECOVERY_REQUIRED"}

\* A run that ends leaves nothing to be true of it.
LEMMA EndStep ==
  ASSUME AdoptionInv, NEW r \in Run, NEW t \in Outcomes, run' = [run EXCEPT ![r] = Concluded(run[r], t)],
         UNCHANGED <<service, schema>>, fence' = fence \/ fence' = Freed
  PROVE  AdoptionInv'
<1>1. /\ Types /\ Shape(run[r]) /\ Late(r) /\ OwnToken(r) /\ run[r] \in LocalRun
  BY Facts
<1>0. PICK n : n = Concluded(run[r], t)
  OBVIOUS
<1>2. /\ n \in LocalRun /\ n.pc = "done" /\ n.late = run[r].late /\ n.token = 0 /\ n.stage = 7 /\ n.todo = {}
      /\ n.at = NoWriter /\ n.status = "NONE" /\ ~n.fresh /\ ~n.undo
  BY <1>0, <1>1, HasEnded
<1>3. run' = [run EXCEPT ![r] = n]
  BY <1>0
<1>4. run'[r] = n
  BY <1>1, <1>2, <1>3, Moves
<1>5. Frame(r)
  <2>1. FenceMoves(r)
    BY DEF FenceMoves
  <2>2. \A w \in Writer : ~Pending(r, w)'
    BY <1>2, <1>4 DEF Pending
  <2>3. StaysAtWork(r)
    BY <1>2, <1>4 DEF StaysAtWork, Working
  <2>4. QED
    BY <1>2, <1>3, <2>1, <2>2, <2>3, QuietStep
<1>6. Sound(r)'
  <2>1. Shape(n)'
    BY <1>2 DEF Shape, Working
  <2>2. Late(r)'
    BY <1>1, <1>2, <1>4 DEF Late
  <2>3. OwnToken(r)'
    <3>1. fence'.token \in Nat
      <4>1. fence.token \in Tokens /\ Freed.token = fence.token
        BY <1>1 DEF Freed, Types, Fence
      <4>2. QED
        BY <4>1, AdoptionAssumption DEF Tokens
    <3>2. QED
      BY <1>2, <1>4, <3>1 DEF OwnToken
  <2>4. Restored(r)' /\ Owns(r)' /\ Quieted(r)' /\ FoundOff(r)'
    BY <1>2, <1>4 DEF Restored, Owns, Quieted, FoundOff, ReadyFor, Working
  <2>5. QED
    BY <1>4, <2>1, <2>2, <2>3, <2>4 DEF Sound
<1>7. QED
  BY <1>5, <1>6, Together

\* The fence keeps its token when nobody is granted it.
LEMMA FenceKept ==
  ASSUME Types, NEW r \in Run, fence' = fence \/ fence' = Freed, OwnToken(r), run'[r].token = run[r].token
  PROVE  /\ FenceMoves(r) /\ OwnToken(r)' /\ fence'.token = fence.token
         /\ HoldsFence(r)' => HoldsFence(r)
<1>1. fence \in Fence
  BY DEF Types
<1>2. CASE fence' = fence
  BY <1>2 DEF FenceMoves, OwnToken, HoldsFence
<1>3. CASE fence' = Freed
  <2>1. fence'.holder = NoRun /\ fence'.token = fence.token /\ fence'.live = FALSE
    BY <1>1, <1>3 DEF Freed, Fence
  <2>2. QED
    BY <1>3, <2>1 DEF FenceMoves, OwnToken, HoldsFence
<1>4. QED
  BY <1>2, <1>3

\* A run that has to give its writers back, or its lease, is sound.
LEMMA FailsStep ==
  ASSUME AdoptionInv, NEW r \in Run, NEW t \in Failure, Fails(r, t), UNCHANGED <<service, schema>>
  PROVE  AdoptionInv'
<1>1. /\ Types /\ Bringing /\ run[r] \in LocalRun /\ schema \in 6..8 /\ fence \in Fence
      /\ Shape(run[r]) /\ Late(r) /\ OwnToken(r) /\ Restored(r) /\ Owns(r) /\ Quieted(r) /\ FoundOff(r)
  BY Facts
<1>2. t \in Outcomes /\ t # "ADOPTED" /\ {"NOT_REQUIRED", "RECOVERY_REQUIRED"} \subseteq Outcomes
  BY DEF Failure, Outcomes
<1>3. CASE \/ run' = [run EXCEPT ![r] = Concluded(@, "NOT_REQUIRED")] /\ fence' \in {fence, Freed}
           \/ run' = [run EXCEPT ![r] = Concluded(@, "RECOVERY_REQUIRED")] /\ UNCHANGED fence
  BY <1>2, <1>3, EndStep
<1>4. CASE /\ run[r].stage = 8 /\ run[r].pc = "migrate"
           /\ run' = [run EXCEPT ![r] = [@ EXCEPT
                 !.pc = "on", !.undo = TRUE, !.fresh = FALSE, !.status = t,
                 !.todo = Targets(run[r].before), !.at = NoWriter]]
           /\ UNCHANGED fence
  <2>0. PICK n : n = [run[r] EXCEPT !.pc = "on", !.undo = TRUE, !.fresh = FALSE, !.status = t,
                                    !.todo = Targets(run[r].before), !.at = NoWriter]
    OBVIOUS
  <2>1. /\ n \in LocalRun /\ n.pc = "on" /\ n.undo /\ ~n.fresh /\ n.status = t
        /\ n.todo = Targets(run[r].before) /\ n.at = NoWriter
        /\ AgreesBut(n, run[r], {"pc", "undo", "fresh", "status", "todo", "at"})
    <3>1. Targets(run[r].before) \in Todos
      BY DEF Targets, Todos
    <3>2. QED
      BY <1>1, <1>2, <2>0, <3>1 DEF LocalRun, AgreesBut, Fields, Stage, Places
  <2>2. /\ n.stage = 8 /\ n.before = run[r].before /\ n.late = run[r].late /\ n.token = run[r].token
        /\ n.outcome = run[r].outcome
    BY <1>4, <2>1 DEF AgreesBut, Fields
  <2>3. run' = [run EXCEPT ![r] = n]
    BY <1>4, <2>0
  <2>4. run'[r] = n
    BY <1>1, <2>1, <2>3, Moves
  <2>5. FenceMoves(r) /\ OwnToken(r)' /\ (HoldsFence(r)' => HoldsFence(r))
    BY <1>1, <1>4, <2>2, <2>4, FenceKept
  <2>6. \A w \in Writer : ~Pending(r, w)'
    BY <2>1, <2>4 DEF Pending
  <2>7. Frame(r)
    <3>1. StaysAtWork(r)
      BY <1>4, <2>2, <2>4, <2>5 DEF StaysAtWork, Working
    <3>2. QED
      BY <2>1, <2>2, <2>3, <2>5, <2>6, <3>1, QuietStep
  <2>8. Shape(n)'
    BY <1>1, <1>2, <1>4, <2>1, <2>2 DEF Shape, Working
  <2>9. run[r].late = 0
    BY <1>1, <1>4 DEF Late
  <2>10. Owns(r)'
    <3> SUFFICES ASSUME HoldsFence(r)' PROVE Owns(r)'
      BY DEF Owns
    <3>1. /\ \A w \in Targets(run[r].before) : \A s \in Run \ {r} : ~Pending(s, w)
          /\ \A w \in Targets(run[r].before) : ~service[w].loaded
      BY <1>1, <1>4, <2>5 DEF Owns, Working
    <3>2. \A s \in Run \ {r} : \A w \in Writer : Pending(s, w)' => Pending(s, w)
      BY <1>1, <2>1, <2>3, Moves DEF Pending
    <3>3. QED
      BY <2>1, <2>2, <2>4, <3>1, <3>2 DEF Owns, Targets
  <2>11. Late(r)' /\ Restored(r)' /\ Quieted(r)' /\ FoundOff(r)'
    BY <2>1, <2>2, <2>4, <2>9 DEF Late, Restored, Quieted, FoundOff, ReadyFor
  <2>12. QED
    BY <2>4, <2>5, <2>7, <2>8, <2>10, <2>11, Together DEF Sound
<1>5. CASE /\ run[r].stage = 8 /\ run[r].pc \in {"inspect", "off"} /\ ~run[r].undo
           /\ HoldsFence(r)
           /\ run' = [run EXCEPT ![r] = [@ EXCEPT
                 !.pc = "readback", !.undo = TRUE, !.fresh = FALSE, !.status = t]]
           /\ fence' = Freed
  <2>0. PICK n : n = [run[r] EXCEPT !.pc = "readback", !.undo = TRUE, !.fresh = FALSE, !.status = t]
    OBVIOUS
  <2>1. /\ n \in LocalRun /\ n.pc = "readback" /\ n.undo /\ ~n.fresh /\ n.status = t
        /\ AgreesBut(n, run[r], {"pc", "undo", "fresh", "status"})
    BY <1>1, <1>2, <2>0 DEF LocalRun, AgreesBut, Fields, Stage
  <2>2. /\ n.stage = 8 /\ n.before = run[r].before /\ n.late = run[r].late /\ n.token = run[r].token
        /\ n.outcome = run[r].outcome /\ n.todo = run[r].todo /\ n.at = run[r].at
    BY <1>5, <2>1 DEF AgreesBut, Fields
  <2>3. run' = [run EXCEPT ![r] = n]
    BY <1>5, <2>0
  <2>4. run'[r] = n
    BY <1>1, <2>1, <2>3, Moves
  <2>5. FenceMoves(r) /\ OwnToken(r)'
    BY <1>1, <1>5, <2>2, <2>4, FenceKept
  <2>6. \A w \in Writer : ~Pending(r, w)'
    BY <2>1, <2>4 DEF Pending
  <2>7. Frame(r)
    <3>1. StaysAtWork(r)
      BY <2>1, <2>4 DEF StaysAtWork, Working
    <3>2. QED
      BY <2>1, <2>2, <2>3, <2>5, <2>6, <3>1, QuietStep
  <2>8. Shape(n)'
    BY <1>1, <1>2, <1>5, <2>1, <2>2 DEF Shape, Working
  <2>9. run[r].late = 0
    BY <1>1, <1>5 DEF Late
  <2>10. Late(r)' /\ Restored(r)' /\ Owns(r)' /\ Quieted(r)' /\ FoundOff(r)'
    BY <2>1, <2>2, <2>4, <2>9 DEF Late, Restored, Owns, Quieted, FoundOff, ReadyFor, Working
  <2>11. QED
    BY <2>4, <2>5, <2>7, <2>8, <2>10, Together DEF Sound
<1>6. QED
  BY <1>3, <1>4, <1>5, Zenon DEF Fails

\* Begin: what the preflight finds off is unloaded.
LEMMA BeginKeeps ==
  ASSUME AdoptionInv, NEW r \in Run, Begin(r)
  PROVE  AdoptionInv'
<1>1. /\ Types /\ run[r] \in LocalRun /\ Shape(run[r]) /\ Late(r) /\ OwnToken(r)
  BY Facts
<1>2. run[r].pc = "idle" /\ UNCHANGED <<service, schema, fence>>
  BY DEF Begin
<1>3. CASE ~Discoverable
  BY <1>2, <1>3, EndStep DEF Begin, Outcomes
<1>4. CASE Discoverable
  <2>1. PICK n : n = [run[r] EXCEPT !.pc = "confirm", !.initial = Inventory]
    OBVIOUS
  <2>2. Inventory \in Inventories
    BY <1>1, <1>4, Condition DEF Inventory, Inventories, Discoverable, Classes
  <2>3. n \in LocalRun /\ n.pc = "confirm" /\ n.initial = Inventory /\ AgreesBut(n, run[r], {"pc", "initial"})
    BY <1>1, <2>1, <2>2 DEF LocalRun, AgreesBut, Fields, Stage
  <2>4. /\ run' = [run EXCEPT ![r] = n] /\ run'[r] = n
        /\ n.late = run[r].late /\ n.token = run[r].token /\ ~n.fresh
    BY <1>1, <1>2, <1>4, <2>1, <2>3, Moves DEF Begin, AgreesBut, Fields, Shape
  <2>5. FenceMoves(r) /\ OwnToken(r)'
    BY <1>1, <1>2, <2>4, FenceKept
  <2>6. Frame(r)
    <3>1. (\A w \in Writer : ~Pending(r, w)') /\ StaysAtWork(r)
      BY <2>3, <2>4 DEF Pending, StaysAtWork, Working
    <3>2. QED
      BY <1>2, <2>3, <2>4, <2>5, <3>1, QuietStep
  <2>7. Shape(n)'
    BY <1>1, <1>2, <2>3 DEF Shape, AgreesBut, Fields, Working
  <2>8. FoundOff(r)'
    BY <1>1, <1>2, <2>3, <2>4, Condition DEF FoundOff, Inventory
  <2>9. Late(r)' /\ Restored(r)' /\ Owns(r)' /\ Quieted(r)'
    BY <1>1, <1>2, <2>3, <2>4 DEF Late, Restored, Owns, Quieted, ReadyFor, Working
  <2>10. QED
    BY <2>4, <2>5, <2>6, <2>7, <2>8, <2>9, Together DEF Sound
<1>5. QED
  BY <1>3, <1>4

\* Confirm: the migration to do follows from the schema.
LEMMA ConfirmKeeps ==
  ASSUME AdoptionInv, NEW r \in Run, Confirm(r)
  PROVE  AdoptionInv'
<1>1. /\ Types /\ run[r] \in LocalRun /\ Shape(run[r]) /\ Late(r) /\ OwnToken(r) /\ FoundOff(r) /\ schema \in 6..8
  BY Facts
<1>2. run[r].pc = "confirm" /\ UNCHANGED <<service, schema, fence>>
  BY DEF Confirm
<1>3. CASE ~SameActivity(r) \/ schema = 8
  <2>1. \E t \in Outcomes : run' = [run EXCEPT ![r] = Concluded(@, t)]
    BY <1>3 DEF Confirm, Outcomes
  <2>2. QED
    BY <1>2, <2>1, EndStep
<1>4. CASE SameActivity(r) /\ schema # 8
  <2>1. PICK n : n = [run[r] EXCEPT !.pc = "acquire", !.stage = schema + 1]
    OBVIOUS
  <2>2. schema + 1 \in Stages /\ (schema + 1 = 8 => schema = 7)
    BY <1>1, <1>4 DEF Stages
  <2>3. n \in LocalRun /\ n.pc = "acquire" /\ n.stage = schema + 1 /\ AgreesBut(n, run[r], {"pc", "stage"})
    BY <1>1, <2>1, <2>2 DEF LocalRun, AgreesBut, Fields, Stage
  <2>4. /\ run' = [run EXCEPT ![r] = n] /\ run'[r] = n
        /\ n.late = run[r].late /\ n.token = run[r].token /\ ~n.fresh
    BY <1>1, <1>2, <1>4, <2>1, <2>3, Moves DEF Confirm, AgreesBut, Fields, Shape
  <2>5. FenceMoves(r) /\ OwnToken(r)'
    BY <1>1, <1>2, <2>4, FenceKept
  <2>6. Frame(r)
    <3>1. (\A w \in Writer : ~Pending(r, w)') /\ StaysAtWork(r)
      BY <2>3, <2>4 DEF Pending, StaysAtWork, Working
    <3>2. QED
      BY <1>2, <2>3, <2>4, <2>5, <3>1, QuietStep
  <2>7. Shape(n)'
    BY <1>1, <1>2, <2>2, <2>3 DEF Shape, AgreesBut, Fields, Working
  <2>8. FoundOff(r)'
    BY <1>1, <1>2, <2>3, <2>4 DEF FoundOff, AgreesBut, Fields
  <2>9. Late(r)' /\ Restored(r)' /\ Owns(r)' /\ Quieted(r)'
    BY <1>1, <1>2, <2>3, <2>4 DEF Late, Restored, Owns, Quieted, ReadyFor, Working
  <2>10. QED
    BY <2>4, <2>5, <2>6, <2>7, <2>8, <2>9, Together DEF Sound
<1>5. QED
  BY <1>1, <1>3, <1>4

\* AcquireFence: under the first lease the writers to take down are those of
\* the preflight, and until schema 7 nothing is pending for any other.
LEMMA AcquireFenceKeeps ==
  ASSUME AdoptionInv, NEW r \in Run, AcquireFence(r)
  PROVE  AdoptionInv'
<1>1. /\ Types /\ run[r] \in LocalRun /\ Shape(run[r]) /\ Late(r) /\ OwnToken(r) /\ FoundOff(r)
      /\ fence \in Fence /\ run[r].stage \in {7, 8}
  BY Facts DEF LocalRun, Stages
<1>2. /\ run[r].pc = "acquire" /\ schema = run[r].stage - 1 /\ fence.token < MaxToken
      /\ fence' = [holder |-> r, token |-> fence.token + 1, live |-> TRUE] /\ UNCHANGED <<service, schema>>
  BY DEF AcquireFence
<1> DEFINE first == run[r].stage = 7
<1>3. PICK p, i, d : /\ p = (IF run[r].stage = 8 THEN "inspect" ELSE "off")
                     /\ i = (IF first THEN run[r].initial ELSE run[r].before)
                     /\ d = (IF first THEN Targets(run[r].initial) ELSE {})
  OBVIOUS
<1>4. PICK n : n = [run[r] EXCEPT !.token = fence.token + 1, !.touched = "none", !.next = "disable",
                                  !.pc = p, !.before = i, !.todo = d]
  OBVIOUS
<1>5. p \in Stage /\ i \in Inventories /\ d \in Todos
  BY <1>1, <1>3 DEF LocalRun, Stage, Todos, Targets
<1>6. fence.token \in Nat /\ fence.token + 1 \in Tokens /\ fence.token + 1 # 0
  BY <1>1, <1>2, AdoptionAssumption DEF Fence, Tokens
<1>7. /\ n \in LocalRun /\ n.token = fence.token + 1 /\ n.next = "disable" /\ n.pc = p /\ n.before = i /\ n.todo = d
      /\ AgreesBut(n, run[r], {"token", "touched", "next", "pc", "before", "todo"})
  BY <1>1, <1>4, <1>5, <1>6 DEF LocalRun, AgreesBut, Fields, Commands, Touches
<1>8. /\ n.late = run[r].late /\ n.stage = run[r].stage /\ n.initial = run[r].initial /\ n.at = run[r].at
      /\ ~n.fresh /\ n.undo = run[r].undo /\ n.status = run[r].status /\ n.outcome = run[r].outcome
  BY <1>1, <1>2, <1>7 DEF AgreesBut, Fields, Shape
<1>9. run' = [run EXCEPT ![r] = n]
  BY <1>3, <1>4 DEF AcquireFence
<1>10. run'[r] = n
  BY <1>1, <1>7, <1>9, Moves
<1>11. FenceMoves(r)
  BY <1>2 DEF FenceMoves
<1>12. OwnToken(r)'
  BY <1>2, <1>6, <1>7, <1>10 DEF OwnToken
<1>13. \A w \in Writer : ~Pending(r, w)'
  BY <1>3, <1>7, <1>10, <1>8 DEF Pending
<1>14. StaysAtWork(r)
  <2>1. n.pc \in Working => schema = 6
    BY <1>1, <1>2, <1>3, <1>7 DEF Working
  <2>2. QED
    BY <1>10, <2>1 DEF StaysAtWork, ReadyFor
<1>15. Frame(r)
  BY <1>2, <1>7, <1>8, <1>9, <1>11, <1>13, <1>14, QuietStep
<1>16. Shape(n)'
  <2>1. run[r].todo = {} /\ run[r].at = NoWriter
    BY <1>1, <1>2 DEF Shape
  <2>2. CASE first
    <3>1. p = "off" /\ i = run[r].initial /\ d = Targets(run[r].initial)
      BY <1>3, <2>2
    <3>2. QED
      BY <1>1, <1>2, <1>6, <1>7, <1>8, <2>1, <2>2, <3>1 DEF Shape, Working
  <2>3. CASE ~first
    <3>1. p = "inspect" /\ i = run[r].before /\ d = {} /\ run[r].stage = 8
      BY <1>1, <1>3, <2>3
    <3>2. QED
      BY <1>1, <1>2, <1>6, <1>7, <1>8, <2>1, <3>1 DEF Shape, Working
  <2>4. QED
    BY <2>2, <2>3
<1>17. Owns(r)'
  <2> SUFFICES ASSUME n.pc \in Working PROVE Owns(r)'
    BY <1>10 DEF Owns
  <2>1. n.pc = "off" /\ schema = 6 /\ n.before = run[r].initial
    BY <1>1, <1>2, <1>3, <1>7 DEF Working
  <2>2. \A s \in Run : \A w \in Writer : ~Pending(s, w)'
    <3>1. ASSUME NEW s \in Run \ {r} PROVE \A w \in Writer : ~Pending(s, w)'
      <4>1. Shape(run[s]) /\ run'[s] = run[s]
        BY <1>1, <1>7, <1>9, Moves, Facts
      <4>2. QED
        BY <2>1, <4>1 DEF Pending, Shape
    <3>2. QED
      BY <1>13, <3>1
  <2>3. \A w \in Writer \ Targets(n.before) : ~service[w].loaded
    <3>1. \A w \in Writer : run[r].initial[w] \in {"A", "B", "C"}
      BY <1>1 DEF LocalRun, Inventories
    <3>2. QED
      BY <1>1, <1>2, <2>1, <3>1 DEF FoundOff, Targets
  <2>4. Targets(n.before) \subseteq Writer
    BY DEF Targets
  <2>5. \A w \in Writer \ Targets(n.before) : Clear(w)'
    BY <1>2, <2>2, <2>3 DEF Clear
  <2>6. QED
    BY <1>2, <1>10, <2>1, <2>2, <2>4, <2>5 DEF Owns, Targets
<1>18. FoundOff(r)'
  BY <1>1, <1>2, <1>8, <1>10 DEF FoundOff
<1>19. Late(r)' /\ Restored(r)' /\ Quieted(r)'
  BY <1>1, <1>2, <1>3, <1>7, <1>8, <1>10 DEF Late, Restored, Quieted, ReadyFor
<1>20. QED
  BY <1>10, <1>12, <1>15, <1>16, <1>17, <1>18, <1>19, Together DEF Sound

\* NotGranted.
LEMMA NotGrantedKeeps ==
  ASSUME AdoptionInv, NEW r \in Run, NotGranted(r)
  PROVE  AdoptionInv'
BY EndStep DEF NotGranted, Outcomes

\* Inspect: what is found loaded is pending for nobody, and what is found off
\* is clear; where another run may migrate, everything is off.
LEMMA InspectKeeps ==
  ASSUME AdoptionInv, NEW r \in Run, Inspect(r)
  PROVE  AdoptionInv'
<1>1. /\ Types /\ Bringing /\ run[r] \in LocalRun /\ Shape(run[r]) /\ Late(r) /\ OwnToken(r)
  BY Facts
<1>2. run[r].pc = "inspect" /\ UNCHANGED <<service, schema>>
  BY DEF Inspect
<1>3. CASE ~(HoldsFence(r) /\ Discoverable)
  <2>1. Fails(r, "NOT_REQUIRED")
    BY <1>3 DEF Inspect
  <2>2. QED
    BY <1>2, <2>1, FailsStep DEF Failure
<1>4. CASE HoldsFence(r) /\ Discoverable
  <2>1. PICK n : n = [run[r] EXCEPT !.pc = "off", !.before = Inventory, !.todo = Targets(Inventory)]
    OBVIOUS
  <2>2. Inventory \in Inventories /\ Targets(Inventory) \in Todos
    BY <1>1, <1>4, Condition DEF Inventory, Inventories, Discoverable, Classes, Targets, Todos
  <2>3. /\ n \in LocalRun /\ n.pc = "off" /\ n.before = Inventory /\ n.todo = Targets(Inventory)
        /\ AgreesBut(n, run[r], {"pc", "before", "todo"})
    BY <1>1, <2>1, <2>2 DEF LocalRun, AgreesBut, Fields, Stage
  <2>4. /\ n.late = run[r].late /\ n.token = run[r].token /\ ~n.fresh /\ n.stage = 8 /\ n.at = NoWriter
        /\ n.next = run[r].next /\ n.undo = run[r].undo /\ n.status = run[r].status
        /\ n.outcome = run[r].outcome
    BY <1>1, <1>2, <2>3 DEF AgreesBut, Fields, Shape
  <2>5. run' = [run EXCEPT ![r] = n] /\ UNCHANGED fence
    BY <1>4, <2>1 DEF Inspect
  <2>6. run'[r] = n /\ \A s \in Run \ {r} : run'[s] = run[s]
    BY <1>1, <2>3, <2>5, Moves
  <2>7. FenceMoves(r) /\ OwnToken(r)'
    BY <1>1, <2>4, <2>5, <2>6, FenceKept
  <2>8. \A w \in Writer : ~Pending(r, w)' /\ \A s \in Run \ {r} : Pending(s, w)' <=> Pending(s, w)
    BY <2>3, <2>6 DEF Pending
  <2>9. StaysAtWork(r)
    <3> SUFFICES ASSUME NEW s \in Run, ReadyFor(s, 8) PROVE Targets(Inventory) = {}
      BY <2>3, <2>6 DEF StaysAtWork
    <3>1. \A w \in Writer : ~service[w].loaded
      BY Facts DEF Quieted, Clear
    <3>2. QED
      BY <1>1, <3>1, Condition DEF Targets, Inventory
  <2>10. Frame(r)
    BY <1>2, <2>3, <2>4, <2>5, <2>7, <2>8, <2>9, QuietStep
  <2>11. Shape(n)'
    BY <1>1, <1>2, <2>3, <2>4 DEF Shape, Working
  <2>12. Owns(r)'
    <3>1. ASSUME NEW w \in Writer, w \in Targets(Inventory) PROVE \A s \in Run : ~Pending(s, w)
      <4>1. service[w].loaded
        BY <1>1, <3>1, Condition DEF Targets, Inventory
      <4>2. QED
        BY <1>1, <4>1 DEF Bringing
    <3>2. ASSUME NEW w \in Writer, w \notin Targets(Inventory) PROVE Clear(w)'
      <4>1. ~service[w].loaded /\ ~service[w].enabled
        BY <1>1, <1>4, <3>2, Condition DEF Targets, Inventory, Discoverable, Classes
      <4>2. QED
        BY <1>2, <4>1 DEF Clear
    <3>3. Targets(Inventory) \subseteq Writer /\ Targets(Inventory)' = Targets(Inventory)
      BY <1>2 DEF Targets, Inventory, Class, Active
    <3>4. QED
      BY <2>3, <2>6, <2>8, <3>1, <3>2, <3>3 DEF Owns, Targets
  <2>13. Late(r)' /\ Restored(r)' /\ Quieted(r)' /\ FoundOff(r)'
    <3>1. schema >= 7 /\ schema # 6
      BY <1>1, <1>2 DEF Shape
    <3>2. QED
      BY <1>1, <1>2, <2>3, <2>4, <2>6, <3>1 DEF Late, Restored, Quieted, FoundOff, ReadyFor
  <2>14. QED
    BY <2>6, <2>7, <2>10, <2>11, <2>12, <2>13, Together DEF Sound
<1>5. QED
  BY <1>3, <1>4

\* AssertOff.
LEMMA AssertOffKeeps ==
  ASSUME AdoptionInv, NEW r \in Run, AssertOff(r)
  PROVE  AdoptionInv'
<1>1. /\ Types /\ run[r] \in LocalRun /\ Shape(run[r]) /\ Late(r) /\ OwnToken(r) /\ Owns(r) /\ FoundOff(r)
  BY Facts
<1>2. run[r].pc = "off" /\ UNCHANGED <<service, schema>>
  BY DEF AssertOff
<1>3. CASE ~(HoldsFence(r) /\ (run[r].next = "bootout" => ~service[run[r].at].enabled))
  <2>1. Fails(r, OffStatus(r, "RECOVERY_REQUIRED")) /\ OffStatus(r, "RECOVERY_REQUIRED") \in Failure
    BY <1>3 DEF AssertOff, OffStatus, Failure
  <2>2. QED
    BY <1>2, <2>1, FailsStep
<1>4. CASE HoldsFence(r) /\ (run[r].next = "bootout" => ~service[run[r].at].enabled)
  <2>1. PICK n : n = [run[r] EXCEPT !.fresh = TRUE]
    OBVIOUS
  <2>2. n \in LocalRun /\ n.fresh /\ AgreesBut(n, run[r], {"fresh"})
    BY <1>1, <2>1 DEF LocalRun, AgreesBut, Fields
  <2>3. /\ n.pc = "off" /\ n.late = run[r].late /\ n.token = run[r].token /\ n.stage = run[r].stage
        /\ n.initial = run[r].initial /\ n.before = run[r].before /\ n.todo = run[r].todo
    BY <1>2, <2>2 DEF AgreesBut, Fields
  <2>4. run' = [run EXCEPT ![r] = n] /\ UNCHANGED fence
    BY <1>4, <2>1 DEF AssertOff
  <2>5. run'[r] = n /\ \A s \in Run \ {r} : run'[s] = run[s]
    BY <1>1, <2>2, <2>4, Moves
  <2>6. FenceMoves(r) /\ OwnToken(r)'
    BY <1>1, <2>3, <2>4, <2>5, FenceKept
  <2>7. \A w \in Writer : ~Pending(r, w)' /\ \A s \in Run \ {r} : Pending(s, w)' <=> Pending(s, w)
    BY <2>3, <2>5 DEF Pending
  <2>8. Frame(r)
    <3>1. StaysAtWork(r)
      BY <1>2, <1>4, <2>3, <2>5 DEF StaysAtWork, Working
    <3>2. QED
      BY <1>2, <2>2, <2>3, <2>4, <2>6, <2>7, <3>1, QuietStep
  <2>9. Shape(n)'
    BY <1>1, <1>2, <2>2, <2>3 DEF Shape, AgreesBut, Fields, Working
  <2>10. Owns(r)'
    <3>1. \A w \in Writer : Clear(w) => Clear(w)'
      BY <1>2, <2>7 DEF Clear
    <3>2. QED
      BY <1>1, <1>2, <1>4, <2>3, <2>5, <2>7, <3>1 DEF Owns, Targets, Working
  <2>11. FoundOff(r)'
    BY <1>1, <1>2, <2>3, <2>5 DEF FoundOff
  <2>12. run[r].late = 0
    BY <1>1, <1>2, <1>4 DEF Late
  <2>13. Late(r)' /\ Restored(r)' /\ Quieted(r)'
    BY <2>3, <2>5, <2>12 DEF Late, Restored, Quieted, ReadyFor
  <2>14. QED
    BY <2>5, <2>6, <2>8, <2>9, <2>10, <2>11, <2>13, Together DEF Sound
<1>5. QED
  BY <1>3, <1>4

\* CommandFails.
LEMMA CommandFailsKeeps ==
  ASSUME AdoptionInv, NEW r \in Run, CommandFails(r)
  PROVE  AdoptionInv'
<1>1. \E t \in Failure : Fails(r, t)
  BY DEF CommandFails, OffStatus, Failure
<1>2. QED
  BY <1>1, FailsStep DEF CommandFails

\* Stabilise: the holder's targets are off, and the others stayed clear.
LEMMA StabiliseKeeps ==
  ASSUME AdoptionInv, NEW r \in Run, Stabilise(r)
  PROVE  AdoptionInv'
<1>1. /\ Types /\ run[r] \in LocalRun /\ Shape(run[r]) /\ Late(r) /\ OwnToken(r) /\ Owns(r) /\ FoundOff(r)
  BY Facts
<1>2. run[r].pc = "off" /\ run[r].todo = {} /\ UNCHANGED <<service, schema>>
  BY DEF Stabilise
<1>3. CASE ~(HoldsFence(r) /\ Quiet(r))
  <2>1. \E t \in Failure : Fails(r, t)
    BY <1>3 DEF Stabilise, Failure
  <2>2. QED
    BY <1>2, <2>1, FailsStep
<1>4. CASE HoldsFence(r) /\ Quiet(r)
  <2>1. PICK n : n = [run[r] EXCEPT !.pc = "migrate", !.fresh = TRUE]
    OBVIOUS
  <2>2. n \in LocalRun /\ n.pc = "migrate" /\ n.fresh /\ AgreesBut(n, run[r], {"pc", "fresh"})
    BY <1>1, <2>1 DEF LocalRun, AgreesBut, Fields, Stage
  <2>3. /\ n.late = run[r].late /\ n.token = run[r].token /\ n.stage = run[r].stage
        /\ n.initial = run[r].initial /\ n.before = run[r].before /\ n.todo = run[r].todo
    BY <2>2 DEF AgreesBut, Fields
  <2>4. run' = [run EXCEPT ![r] = n] /\ UNCHANGED fence
    BY <1>4, <2>1 DEF Stabilise
  <2>5. run'[r] = n /\ \A s \in Run \ {r} : run'[s] = run[s]
    BY <1>1, <2>2, <2>4, Moves
  <2>6. FenceMoves(r) /\ OwnToken(r)'
    BY <1>1, <2>3, <2>4, <2>5, FenceKept
  <2>7. \A w \in Writer : ~Pending(r, w)' /\ \A s \in Run \ {r} : Pending(s, w)' <=> Pending(s, w)
    BY <2>2, <2>5 DEF Pending
  <2>8. Frame(r)
    <3>1. StaysAtWork(r)
      BY <1>2, <1>4, <2>3, <2>5 DEF StaysAtWork, Working
    <3>2. QED
      BY <1>2, <2>2, <2>3, <2>4, <2>6, <2>7, <3>1, QuietStep
  <2>9. Shape(n)'
    BY <1>1, <1>2, <2>2, <2>3 DEF Shape, AgreesBut, Fields, Working
  <2>10. \A w \in Targets(run[r].before) : ~service[w].loaded /\ ~service[w].enabled
    BY <1>4 DEF Quiet, Off
  <2>11. Owns(r)'
    BY <1>1, <1>2, <1>4, <2>2, <2>3, <2>5, <2>7, <2>10 DEF Owns, Targets, Working
  <2>12. schema = run[r].stage - 1 => \A w \in Writer : Clear(w)'
    <3>1. \A w \in Targets(run[r].before) : Clear(w)'
      BY <1>2, <2>10 DEF Clear
    <3>2. schema = run[r].stage - 1 => \A w \in Writer \ Targets(run[r].before) : Clear(w)
      BY <1>1, <1>2, <1>4 DEF Owns, Working
    <3>3. \A w \in Writer : Clear(w) => Clear(w)'
      BY <1>2, <2>7 DEF Clear
    <3>4. QED
      BY <3>1, <3>2, <3>3
  <2>13. \A s \in Run \ {r} : ~HoldsFence(s)'
    <3>1. \A s \in Run \ {r} : ~HoldsFence(s)
      BY <1>1, <1>2, <1>4, Holder DEF Working
    <3>2. QED
      BY <2>4, <2>5, <3>1 DEF HoldsFence
  <2>14. Quieted(r)'
    <3>1. ReadyFor(r, 7)' \/ ReadyFor(r, 8)' => schema = run[r].stage - 1
      BY <1>2, <2>3, <2>5 DEF ReadyFor
    <3>2. QED
      BY <2>12, <2>13, <3>1 DEF Quieted
  <2>15. FoundOff(r)'
    BY <1>1, <1>2, <2>3, <2>5 DEF FoundOff
  <2>16. run[r].late = 0
    BY <1>1, <1>2, <1>4 DEF Late
  <2>17. Late(r)' /\ Restored(r)'
    BY <2>2, <2>3, <2>5, <2>16 DEF Late, Restored
  <2>18. QED
    BY <2>5, <2>6, <2>8, <2>9, <2>11, <2>14, <2>15, <2>17, Together DEF Sound
<1>5. QED
  BY <1>3, <1>4

(* A command that its run asserted first: its run is as it was but for the *)
(* services still to do, and holds no unloaded one for loaded.             *)
LEMMA CommandKeeps ==
  ASSUME AdoptionInv, NEW r \in Run, NEW n \in LocalRun, run' = [run EXCEPT ![r] = n],
         UNCHANGED <<schema, fence>>, service' \in ServiceStates, Commanded(r),
         run[r].pc \in {"off", "on"}, run[r].fresh, ~n.fresh,
         n.late = IF HoldsFence(r) THEN run[r].late ELSE run[r].late + 1,
         AgreesBut(n, run[r], {"todo", "at", "next", "fresh", "touched", "late"}),
         n.todo \subseteq run[r].todo, n.at \in n.todo \cup {NoWriter},
         run[r].pc = "off" => n.next \in {"disable", "bootout"} /\ (n.next = "bootout" => n.at # NoWriter),
         run[r].pc = "on" => (n.at # NoWriter => n.next \in {"enable", "bootstrap", "kickstart"}),
         HoldsFence(r) /\ run[r].pc = "on" =>
           \A w \in n.todo : ~service'[w].loaded \/ (n.at = w /\ n.next = "kickstart")
  PROVE  AdoptionInv'
<1>1. /\ Types /\ Bringing /\ run[r] \in LocalRun /\ Shape(run[r]) /\ Late(r) /\ OwnToken(r)
      /\ Owns(r) /\ FoundOff(r)
  BY Facts
<1>2. /\ n.pc = run[r].pc /\ n.stage = run[r].stage /\ n.initial = run[r].initial /\ n.before = run[r].before
      /\ n.undo = run[r].undo /\ n.token = run[r].token /\ n.status = run[r].status /\ n.outcome = run[r].outcome
  BY DEF AgreesBut, Fields
<1>3. run'[r] = n /\ \A s \in Run \ {r} : run'[s] = run[s]
  BY <1>1, Moves
<1>4. OwnToken(r)' /\ (HoldsFence(r)' <=> HoldsFence(r))
  BY <1>1, <1>2, <1>3 DEF OwnToken, HoldsFence
<1>5. Frame(r)
  BY <1>2, CommandStep
<1>6. Shape(n)'
  BY <1>1, <1>2 DEF Shape, Working
<1>7. Late(r)'
  <2>1. run[r].late = 0
    BY <1>1 DEF Late
  <2>2. n.late # 0 => ~HoldsFence(r) /\ n.late = 1
    BY <2>1
  <2>3. QED
    BY <1>2, <1>3, <1>4, <2>2 DEF Late
<1>8. Owns(r)'
  <2> SUFFICES ASSUME HoldsFence(r) PROVE Owns(r)'
    BY <1>4 DEF Owns
  <2>1. \A s \in Run \ {r} : \A w \in Writer : Pending(s, w)' <=> Pending(s, w)
    BY <1>3 DEF Pending
  <2>2. \A w \in Writer : Clear(w) => Clear(w)'
    BY <1>1, <1>3, ClearStays
  <2>3. QED
    BY <1>1, <1>2, <1>3, <2>1, <2>2 DEF Owns, Targets, Working
<1>9. FoundOff(r)'
  <2>1. schema = 6 => \A w \in Writer : ~Pending(r, w)
    BY <1>1, PendingAt
  <2>2. QED
    BY <1>1, <1>2, <1>3, <2>1 DEF FoundOff, Commanded
<1>10. Restored(r)' /\ Quieted(r)'
  BY <1>2, <1>3 DEF Restored, Quieted, ReadyFor
<1>11. QED
  BY <1>3, <1>4, <1>5, <1>6, <1>7, <1>8, <1>9, <1>10, Together DEF Sound

\* Disable.
LEMMA DisableKeeps ==
  ASSUME AdoptionInv, NEW r \in Run, Disable(r)
  PROVE  AdoptionInv'
<1>1. Types /\ run[r] \in LocalRun /\ Shape(run[r])
  BY Facts
<1>2. /\ run[r].pc = "off" /\ run[r].fresh /\ UNCHANGED <<schema, fence>>
  BY DEF Disable
<1>3. PICK x : x = Acted(r, run[r])
  OBVIOUS
<1>4. PICK t : t = IF run[r].touched = "none" THEN "disabled" ELSE run[r].touched
  BY Zenon
<1>5. PICK w \in FirstOff(r) : /\ DisableService(w)
                               /\ run' = [run EXCEPT ![r] = [x EXCEPT !.at = w, !.next = "bootout", !.touched = t]]
  BY <1>3, <1>4 DEF Disable
<1>6. w \in run[r].todo /\ w \in Writer /\ w # NoWriter
  BY <1>1, <1>5, AdoptionAssumption DEF FirstOff, LocalRun, Todos
<1>7. PICK n : n = [x EXCEPT !.at = w, !.next = "bootout", !.touched = t]
  OBVIOUS
<1>8. /\ x \in LocalRun /\ ~x.fresh /\ x.late = (IF HoldsFence(r) THEN run[r].late ELSE run[r].late + 1)
      /\ AgreesBut(x, run[r], {"fresh", "late"})
  BY <1>1, <1>3, HasActed
<1>9. t \in Touches
  BY <1>1, <1>4 DEF LocalRun, Touches
<1>10. n \in LocalRun /\ n.at = w /\ n.next = "bootout" /\ AgreesBut(n, x, {"at", "next", "touched"})
  BY <1>6, <1>7, <1>8, <1>9 DEF LocalRun, AgreesBut, Fields, Places, Commands
<1>11. /\ ~n.fresh /\ n.late = x.late /\ n.todo = run[r].todo
       /\ AgreesBut(n, run[r], {"todo", "at", "next", "fresh", "touched", "late"})
  BY <1>8, <1>10 DEF AgreesBut, Fields
<1>12. service' \in ServiceStates /\ Commanded(r)
  BY <1>1, <1>5, <1>6 DEF DisableService, Commanded, Types, ServiceStates
<1>13. run' = [run EXCEPT ![r] = n]
  BY <1>5, <1>7
<1>14. QED
  BY <1>2, <1>6, <1>8, <1>10, <1>11, <1>12, <1>13, CommandKeeps

\* BootOut.
LEMMA BootOutKeeps ==
  ASSUME AdoptionInv, NEW r \in Run, BootOut(r)
  PROVE  AdoptionInv'
<1>1. Types /\ run[r] \in LocalRun /\ Shape(run[r])
  BY Facts
<1>2. /\ run[r].pc = "off" /\ run[r].fresh /\ UNCHANGED <<schema, fence>> /\ run[r].next = "bootout"
  BY DEF BootOut
<1>3. PICK x : x = Acted(r, run[r])
  OBVIOUS
<1>4. PICK d : d = run[r].todo \ {run[r].at}
  OBVIOUS
<1>5. PICK n : n = [x EXCEPT !.todo = d, !.at = NoWriter, !.next = "disable", !.touched = "booted"]
  OBVIOUS
<1>6. BootOutService(run[r].at) /\ run' = [run EXCEPT ![r] = n]
  BY <1>3, <1>4, <1>5 DEF BootOut
<1>7. /\ x \in LocalRun /\ ~x.fresh /\ x.late = (IF HoldsFence(r) THEN run[r].late ELSE run[r].late + 1)
      /\ AgreesBut(x, run[r], {"fresh", "late"})
  BY <1>1, <1>3, HasActed
<1>8. d \in Todos /\ d \subseteq run[r].todo /\ NoWriter \in Places
  BY <1>1, <1>4 DEF LocalRun, Todos, Places
<1>9. /\ n \in LocalRun /\ n.todo = d /\ n.at = NoWriter /\ n.next = "disable"
      /\ AgreesBut(n, x, {"todo", "at", "next", "touched"})
  BY <1>5, <1>7, <1>8 DEF LocalRun, AgreesBut, Fields, Commands, Touches
<1>10. /\ ~n.fresh /\ n.late = x.late /\ AgreesBut(n, run[r], {"todo", "at", "next", "fresh", "touched", "late"})
  BY <1>7, <1>9 DEF AgreesBut, Fields
<1>11. service' \in ServiceStates /\ Commanded(r)
  <2>1. run[r].at \in Writer
    BY <1>1, <1>2 DEF Shape, LocalRun, Todos
  <2>2. PICK l \in BOOLEAN : service' = [service EXCEPT ![run[r].at].loaded = FALSE, ![run[r].at].running = l]
    BY <1>1, <1>6, <2>1 DEF BootOutService, Types, ServiceStates
  <2>3. PICK f : f = [service EXCEPT ![run[r].at].loaded = FALSE]
    OBVIOUS
  <2>4. f \in ServiceStates /\ \A w \in Writer : f[w].enabled = service[w].enabled /\ (f[w].loaded => service[w].loaded)
    BY <1>1, <2>1, <2>3 DEF Types, ServiceStates
  <2>5. service' = [f EXCEPT ![run[r].at].running = l]
    BY <2>2, <2>3
  <2>6. QED
    BY <2>1, <2>4, <2>5 DEF Commanded, ServiceStates
<1>12. QED
  BY <1>2, <1>6, <1>7, <1>8, <1>9, <1>10, <1>11, CommandKeeps

\* The writer that run r brings back.
LEMMA BroughtBack ==
  ASSUME AdoptionInv, NEW r \in Run, run[r].pc = "on", run[r].fresh
  PROVE  /\ run[r].at \in run[r].todo /\ run[r].at \in Writer /\ run[r].at # NoWriter
         /\ run[r].next \in {"enable", "bootstrap"} => Pending(r, run[r].at)
         /\ HoldsFence(r) => \A w \in run[r].todo \ {run[r].at} : ~service[w].loaded
<1>1. Types /\ run[r] \in LocalRun /\ Shape(run[r]) /\ Owns(r)
  BY Facts
<1>2. run[r].at # NoWriter /\ run[r].at \in run[r].todo /\ run[r].todo \subseteq Writer
  BY <1>1 DEF Shape, LocalRun, Todos
<1>3. QED
  BY <1>1, <1>2 DEF Pending, Owns, Working

\* Enable: the service is enabled, and not loaded yet.
LEMMA EnableKeeps ==
  ASSUME AdoptionInv, NEW r \in Run, Enable(r)
  PROVE  AdoptionInv'
<1>1. Types /\ run[r] \in LocalRun /\ Shape(run[r]) /\ Bringing
  BY Facts
<1>2. /\ run[r].pc = "on" /\ run[r].fresh /\ UNCHANGED <<schema, fence>> /\ run[r].next = "enable"
  BY DEF Enable
<1>3. PICK x : x = Acted(r, run[r])
  OBVIOUS
<1>4. PICK n : n = [x EXCEPT !.next = "bootstrap"]
  OBVIOUS
<1>5. EnableService(run[r].at) /\ run' = [run EXCEPT ![r] = n]
  BY <1>3, <1>4 DEF Enable
<1>6. /\ x \in LocalRun /\ ~x.fresh /\ x.late = (IF HoldsFence(r) THEN run[r].late ELSE run[r].late + 1)
      /\ AgreesBut(x, run[r], {"fresh", "late"})
  BY <1>1, <1>3, HasActed
<1>7. n \in LocalRun /\ n.next = "bootstrap" /\ AgreesBut(n, x, {"next"})
  BY <1>4, <1>6 DEF LocalRun, AgreesBut, Fields, Commands
<1>8. /\ ~n.fresh /\ n.late = x.late /\ n.todo = run[r].todo /\ n.at = run[r].at
      /\ AgreesBut(n, run[r], {"todo", "at", "next", "fresh", "touched", "late"})
  BY <1>6, <1>7 DEF AgreesBut, Fields
<1>9. /\ run[r].at \in run[r].todo /\ run[r].at \in Writer /\ run[r].at # NoWriter /\ Pending(r, run[r].at)
      /\ HoldsFence(r) => \A w \in run[r].todo \ {run[r].at} : ~service[w].loaded
  BY <1>2, BroughtBack
<1>10. /\ service' \in ServiceStates /\ Commanded(r)
       /\ \A w \in Writer : service'[w].loaded = service[w].loaded
  BY <1>1, <1>5, <1>9 DEF EnableService, Commanded, Types, ServiceStates
<1>11. HoldsFence(r) => \A w \in n.todo : ~service'[w].loaded
  BY <1>1, <1>8, <1>9, <1>10 DEF Bringing, LocalRun, Todos
<1>12. QED
  BY <1>2, <1>5, <1>6, <1>7, <1>8, <1>9, <1>10, <1>11, CommandKeeps

\* What Brought makes of a run.
LEMMA HasBrought ==
  ASSUME NEW r \in Run, run[r] \in LocalRun, NEW x \in LocalRun, AgreesBut(x, run[r], {"fresh", "late"}),
         NEW m, m = Brought(r, x)
  PROVE  /\ m \in LocalRun /\ m.todo = run[r].todo \ {run[r].at}
         /\ m.at = NoWriter /\ AgreesBut(m, x, {"todo", "at"})
<1>1. PICK d : d = x.todo \ {run[r].at}
  OBVIOUS
<1>2. m = [x EXCEPT !.todo = d, !.at = NoWriter]
  BY <1>1 DEF Brought
<1>3. d \in Todos /\ NoWriter \in Places /\ x.todo = run[r].todo
  BY <1>1 DEF LocalRun, Todos, Places, AgreesBut, Fields
<1>4. m \in LocalRun /\ m.todo = d /\ m.at = NoWriter /\ AgreesBut(m, x, {"todo", "at"})
  BY <1>2, <1>3 DEF LocalRun, AgreesBut, Fields
<1>5. QED
  BY <1>1, <1>3, <1>4

\* The last command for a writer: its run goes on with the others.
LEMMA BroughtKeeps ==
  ASSUME AdoptionInv, NEW r \in Run, run[r].pc = "on", run[r].fresh,
         run' = [run EXCEPT ![r] = Brought(r, Acted(r, run[r]))],
         UNCHANGED <<schema, fence>>, service' \in ServiceStates, Commanded(r),
         \A w \in Writer \ {run[r].at} : service'[w] = service[w]
  PROVE  AdoptionInv'
<1>1. Types /\ run[r] \in LocalRun /\ Shape(run[r])
  BY Facts
<1>2. PICK x : x = Acted(r, run[r])
  OBVIOUS
<1>3. /\ x \in LocalRun /\ ~x.fresh /\ x.late = (IF HoldsFence(r) THEN run[r].late ELSE run[r].late + 1)
      /\ AgreesBut(x, run[r], {"fresh", "late"})
  BY <1>1, <1>2, HasActed
<1>4. PICK n : n = Brought(r, x)
  OBVIOUS
<1>5. n \in LocalRun /\ n.todo = run[r].todo \ {run[r].at} /\ n.at = NoWriter /\ AgreesBut(n, x, {"todo", "at"})
  BY <1>1, <1>3, <1>4, HasBrought
<1>6. /\ ~n.fresh /\ n.late = x.late /\ AgreesBut(n, run[r], {"todo", "at", "next", "fresh", "touched", "late"})
  BY <1>3, <1>5 DEF AgreesBut, Fields
<1>7. HoldsFence(r) => \A w \in n.todo : ~service'[w].loaded
  BY <1>1, <1>5, BroughtBack DEF LocalRun, Todos
<1>8. run' = [run EXCEPT ![r] = n]
  BY <1>2, <1>4
<1>9. QED
  BY <1>3, <1>5, <1>6, <1>7, <1>8, CommandKeeps

\* Bootstrap: the only command that loads a service, and it was pending.
LEMMA BootstrapKeeps ==
  ASSUME AdoptionInv, NEW r \in Run, Bootstrap(r)
  PROVE  AdoptionInv'
<1>1. Types /\ run[r] \in LocalRun /\ Shape(run[r]) /\ Bringing
  BY Facts
<1>2. /\ run[r].pc = "on" /\ run[r].fresh /\ UNCHANGED <<schema, fence>> /\ run[r].next = "bootstrap"
      /\ BootstrapService(run[r].at)
  BY DEF Bootstrap
<1>3. /\ run[r].at \in run[r].todo /\ run[r].at \in Writer /\ run[r].at # NoWriter /\ Pending(r, run[r].at)
      /\ HoldsFence(r) => \A w \in run[r].todo \ {run[r].at} : ~service[w].loaded
  BY <1>2, BroughtBack
<1>4. /\ service' \in ServiceStates /\ Commanded(r)
      /\ \A w \in Writer \ {run[r].at} : service'[w] = service[w]
  <2>1. PICK l \in BOOLEAN : service' = [service EXCEPT ![run[r].at].loaded = TRUE, ![run[r].at].running = l]
    BY <1>1, <1>2, <1>3 DEF BootstrapService, Types, ServiceStates
  <2>2. PICK f : f = [service EXCEPT ![run[r].at].loaded = TRUE]
    OBVIOUS
  <2>3. /\ f \in ServiceStates /\ \A w \in Writer : f[w].enabled = service[w].enabled
        /\ \A w \in Writer \ {run[r].at} : f[w] = service[w]
    BY <1>1, <1>3, <2>2 DEF Types, ServiceStates
  <2>4. service' = [f EXCEPT ![run[r].at].running = l]
    BY <2>1, <2>2
  <2>5. /\ service' \in ServiceStates /\ \A w \in Writer : service'[w].enabled = service[w].enabled
        /\ \A w \in Writer \ {run[r].at} : service'[w] = service[w]
    BY <1>3, <2>3, <2>4 DEF ServiceStates
  <2>6. service[run[r].at].enabled
    BY <1>2 DEF BootstrapService
  <2>7. QED
    BY <1>3, <2>5, <2>6 DEF Commanded
<1>5. CASE run[r].before[run[r].at] = "A"
  <2>1. PICK x : x = Acted(r, run[r])
    OBVIOUS
  <2>2. PICK n : n = [x EXCEPT !.next = "kickstart"]
    OBVIOUS
  <2>3. run' = [run EXCEPT ![r] = n]
    BY <1>5, <2>1, <2>2 DEF Bootstrap
  <2>4. /\ x \in LocalRun /\ ~x.fresh /\ x.late = (IF HoldsFence(r) THEN run[r].late ELSE run[r].late + 1)
        /\ AgreesBut(x, run[r], {"fresh", "late"})
    BY <1>1, <2>1, HasActed
  <2>5. n \in LocalRun /\ n.next = "kickstart" /\ AgreesBut(n, x, {"next"})
    BY <2>2, <2>4 DEF LocalRun, AgreesBut, Fields, Commands
  <2>6. /\ ~n.fresh /\ n.late = x.late /\ n.todo = run[r].todo /\ n.at = run[r].at
        /\ AgreesBut(n, run[r], {"todo", "at", "next", "fresh", "touched", "late"})
    BY <2>4, <2>5 DEF AgreesBut, Fields
  <2>7. HoldsFence(r) => \A w \in n.todo \ {n.at} : ~service'[w].loaded
    BY <1>1, <1>3, <1>4, <2>6 DEF LocalRun, Todos
  <2>8. QED
    BY <1>2, <1>3, <1>4, <2>3, <2>4, <2>5, <2>6, <2>7, CommandKeeps
<1>6. CASE run[r].before[run[r].at] # "A"
  <2>1. run' = [run EXCEPT ![r] = Brought(r, Acted(r, run[r]))]
    BY <1>6 DEF Bootstrap
  <2>2. QED
    BY <1>2, <1>4, <2>1, BroughtKeeps
<1>7. QED
  BY <1>5, <1>6

\* Kickstart starts the process of a loaded service.
LEMMA KickstartKeeps ==
  ASSUME AdoptionInv, NEW r \in Run, Kickstart(r)
  PROVE  AdoptionInv'
<1>1. Types /\ run[r] \in LocalRun
  BY Facts
<1>2. /\ run[r].pc = "on" /\ run[r].fresh /\ UNCHANGED <<schema, fence>>
      /\ KickstartService(run[r].at) /\ run' = [run EXCEPT ![r] = Brought(r, Acted(r, run[r]))]
  BY DEF Kickstart
<1>3. run[r].at \in Writer
  BY <1>2, BroughtBack
<1>4. /\ service' \in ServiceStates /\ Commanded(r)
      /\ \A w \in Writer \ {run[r].at} : service'[w] = service[w]
  BY <1>1, <1>2, <1>3 DEF KickstartService, Commanded, Types, ServiceStates
<1>5. QED
  BY <1>2, <1>4, BroughtKeeps

\* Migrate: the run goes on with what it took down still down.
LEMMA MigrateKeeps ==
  ASSUME AdoptionInv, NEW r \in Run, Migrate(r)
  PROVE  AdoptionInv'
<1>1. /\ Types /\ run[r] \in LocalRun /\ Shape(run[r]) /\ Late(r) /\ OwnToken(r) /\ Owns(r) /\ schema \in 6..8
      /\ run[r].stage \in {7, 8}
  BY Facts DEF LocalRun, Stages
<1>2. /\ run[r].pc = "migrate" /\ run[r].fresh /\ schema = run[r].stage - 1 /\ schema' = run[r].stage
      /\ UNCHANGED <<service, fence>>
  BY DEF Migrate
<1>3. PICK x : x = Acted(r, run[r])
  OBVIOUS
<1>4. PICK n : n = [x EXCEPT !.pc = "rebind"]
  OBVIOUS
<1>5. run' = [run EXCEPT ![r] = n]
  BY <1>3, <1>4 DEF Migrate
<1>6. /\ x \in LocalRun /\ ~x.fresh /\ x.late = (IF HoldsFence(r) THEN run[r].late ELSE run[r].late + 1)
      /\ AgreesBut(x, run[r], {"fresh", "late"})
  BY <1>1, <1>3, HasActed
<1>7. n \in LocalRun /\ n.pc = "rebind" /\ AgreesBut(n, x, {"pc"})
  BY <1>4, <1>6 DEF LocalRun, AgreesBut, Fields, Stage
<1>8. ~n.fresh /\ n.late = x.late /\ AgreesBut(n, run[r], {"pc", "fresh", "late"})
  BY <1>6, <1>7 DEF AgreesBut, Fields
<1>9. /\ n.token = run[r].token /\ n.before = run[r].before /\ n.todo = run[r].todo /\ n.at = run[r].at
      /\ n.stage = run[r].stage /\ n.undo = run[r].undo
  BY <1>8 DEF AgreesBut, Fields
<1>10. run'[r] = n /\ \A s \in Run \ {r} : run'[s] = run[s]
  BY <1>1, <1>5, <1>7, Moves
<1>11. run[r].late = 0
  BY <1>1, <1>2 DEF Late
<1>12. schema' = schema + 1 /\ schema' >= 7
  BY <1>1, <1>2
<1>13. Frame(r)
  <2>1. n.late >= run[r].late
    BY <1>6, <1>8, <1>11
  <2>2. QED
    BY <1>2, <1>5, <1>7, <1>9, <1>12, <2>1, MigrationStep
<1>14. Shape(n)'
  BY <1>1, <1>2, <1>7, <1>8, <1>12 DEF Shape, AgreesBut, Fields, Working
<1>15. OwnToken(r)' /\ (HoldsFence(r)' <=> HoldsFence(r))
  BY <1>1, <1>2, <1>9, <1>10 DEF OwnToken, HoldsFence
<1>16. Late(r)'
  <2>1. n.late # 0 => ~HoldsFence(r) /\ n.late = 1
    BY <1>6, <1>8, <1>11
  <2>2. QED
    BY <1>7, <1>8, <1>10, <1>15, <2>1 DEF Late
<1>17. Owns(r)'
  <2>1. \A s \in Run \ {r} : \A w \in Writer : Pending(s, w)' <=> Pending(s, w)
    BY <1>10 DEF Pending
  <2>2. QED
    BY <1>1, <1>2, <1>7, <1>9, <1>10, <1>15, <2>1 DEF Owns, Targets, Working
<1>18. Restored(r)' /\ Quieted(r)' /\ FoundOff(r)'
  BY <1>7, <1>10 DEF Restored, Quieted, FoundOff, ReadyFor
<1>19. QED
  BY <1>10, <1>13, <1>14, <1>15, <1>16, <1>17, <1>18, Together DEF Sound

\* Rebind: what the holder took down is what it has to bring back.
LEMMA RebindKeeps ==
  ASSUME AdoptionInv, NEW r \in Run, Rebind(r)
  PROVE  AdoptionInv'
<1>1. /\ Types /\ run[r] \in LocalRun /\ Shape(run[r]) /\ Late(r) /\ OwnToken(r) /\ Owns(r)
  BY Facts
<1>2. run[r].pc = "rebind" /\ UNCHANGED <<service, schema>>
  BY DEF Rebind
<1>3. CASE ~HoldsFence(r)
  <2>1. Fails(r, "RECOVERY_REQUIRED")
    BY <1>3 DEF Rebind
  <2>2. QED
    BY <1>2, <2>1, FailsStep DEF Failure
<1>4. CASE HoldsFence(r)
  <2>1. PICK n : n = [run[r] EXCEPT !.pc = "on", !.todo = Targets(run[r].before), !.at = NoWriter]
    OBVIOUS
  <2>2. Targets(run[r].before) \in Todos
    BY DEF Targets, Todos
  <2>3. /\ n \in LocalRun /\ n.pc = "on" /\ n.todo = Targets(run[r].before) /\ n.at = NoWriter
        /\ AgreesBut(n, run[r], {"pc", "todo", "at"})
    BY <1>1, <2>1, <2>2 DEF LocalRun, AgreesBut, Fields, Stage, Places
  <2>4. /\ n.late = run[r].late /\ n.token = run[r].token /\ n.before = run[r].before /\ ~n.fresh
        /\ n.stage = run[r].stage
    BY <1>1, <1>2, <2>3 DEF AgreesBut, Fields, Shape
  <2>5. run' = [run EXCEPT ![r] = n] /\ UNCHANGED fence
    BY <1>4, <2>1 DEF Rebind
  <2>6. run'[r] = n /\ \A s \in Run \ {r} : run'[s] = run[s]
    BY <1>1, <2>3, <2>5, Moves
  <2>7. FenceMoves(r) /\ OwnToken(r)'
    BY <1>1, <2>4, <2>5, <2>6, FenceKept
  <2>8. \A w \in Writer : ~Pending(r, w)' /\ \A s \in Run \ {r} : Pending(s, w)' <=> Pending(s, w)
    BY <2>4, <2>6 DEF Pending
  <2>9. Frame(r)
    <3>1. StaysAtWork(r)
      BY <1>2, <1>4, <2>4, <2>6 DEF StaysAtWork, Working
    <3>2. QED
      BY <1>2, <2>3, <2>4, <2>5, <2>7, <2>8, <3>1, QuietStep
  <2>10. Shape(n)'
    BY <1>1, <1>2, <2>3, <2>4 DEF Shape, AgreesBut, Fields, Working
  <2>11. Owns(r)'
    BY <1>1, <1>2, <1>4, <2>3, <2>4, <2>6, <2>8 DEF Owns, Targets, Working
  <2>12. Late(r)' /\ Restored(r)' /\ Quieted(r)' /\ FoundOff(r)'
    BY <1>1, <1>2, <1>4, <2>3, <2>4, <2>6 DEF Late, Restored, Quieted, FoundOff, ReadyFor
  <2>13. QED
    BY <2>6, <2>7, <2>9, <2>10, <2>11, <2>12, Together DEF Sound
<1>5. QED
  BY <1>3, <1>4

\* Run r turns to one of its writers, goes on with it, or is through with one.
Turns(r, n) ==
  /\ AgreesBut(n, run[r], {"todo", "at", "next", "fresh"})
  /\ n.todo \subseteq run[r].todo /\ n.at \in n.todo \cup {NoWriter}
  /\ n.fresh => n.at # NoWriter
  /\ n.at # NoWriter => n.next \in {"enable", "bootstrap", "kickstart"}
  /\ \/ n.at = run[r].at /\ n.next = run[r].next
     \/ run[r].at = NoWriter /\ n.next = "enable"

\* AssertOn: what becomes pending is a writer of the holder that is down.
LEMMA AssertOnKeeps ==
  ASSUME AdoptionInv, NEW r \in Run, AssertOn(r)
  PROVE  AdoptionInv'
<1>1. /\ Types /\ run[r] \in LocalRun /\ Shape(run[r]) /\ Late(r) /\ OwnToken(r) /\ Owns(r)
  BY Facts
<1>2. run[r].pc = "on" /\ ~run[r].fresh /\ run[r].todo # {} /\ UNCHANGED <<service, schema>>
  BY DEF AssertOn
<1>3. CASE ~HoldsFence(r) /\ Fails(r, "RECOVERY_REQUIRED")
  BY <1>2, <1>3, FailsStep DEF Failure
<1>4. CASE HoldsFence(r) /\ UNCHANGED fence /\ \E n \in LocalRun :
             run' = [run EXCEPT ![r] = n] /\ Turns(r, n)
  <2>1. PICK n \in LocalRun : run' = [run EXCEPT ![r] = n] /\ Turns(r, n)
    BY <1>4
  <2>2. /\ n.pc = "on" /\ n.late = run[r].late /\ n.token = run[r].token /\ n.before = run[r].before
        /\ n.stage = run[r].stage /\ n.undo = run[r].undo /\ n.status = run[r].status /\ n.outcome = run[r].outcome
    BY <1>2, <2>1 DEF Turns, AgreesBut, Fields
  <2>3. run'[r] = n /\ \A s \in Run \ {r} : run'[s] = run[s]
    BY <1>1, <2>1, Moves
  <2>4. FenceMoves(r) /\ OwnToken(r)'
    BY <1>1, <1>4, <2>2, <2>3, FenceKept
  <2>5. \A w \in Writer : /\ Pending(r, w)' => NewlyPending(r, w)
                          /\ \A s \in Run \ {r} : Pending(s, w)' <=> Pending(s, w)
    <3>1. \A s \in Run \ {r} : \A w \in Writer : Pending(s, w)' <=> Pending(s, w)
      BY <2>3 DEF Pending
    <3>2. ASSUME NEW w \in Writer, Pending(r, w)' PROVE NewlyPending(r, w)
      <4>1. n.at = w /\ n.next \in {"enable", "bootstrap"} /\ w # NoWriter
        BY <2>1, <2>3, <3>2, AdoptionAssumption DEF Pending, Turns
      <4>2. w \in run[r].todo /\ ~(run[r].at = w /\ run[r].next = "kickstart")
        BY <2>1, <4>1 DEF Turns
      <4>3. QED
        BY <1>2, <1>4, <4>2 DEF NewlyPending
    <3>3. QED
      BY <3>1, <3>2
  <2>6. Frame(r)
    <3>1. StaysAtWork(r)
      BY <1>2, <1>4, <2>2, <2>3 DEF StaysAtWork, Working
    <3>2. QED
      BY <1>2, <2>1, <2>2, <2>4, <2>5, <3>1, QuietStep
  <2>7. Shape(n)'
    BY <1>1, <1>2, <2>1, <2>2 DEF Turns, Shape, Working
  <2>8. Owns(r)'
    <3>1. \A w \in n.todo : ~service[w].loaded \/ (n.at = w /\ n.next = "kickstart")
      <4>1. \A w \in run[r].todo : ~service[w].loaded \/ (run[r].at = w /\ run[r].next = "kickstart")
        BY <1>1, <1>2, <1>4 DEF Owns, Working
      <4>2. run[r].todo \subseteq Writer
        BY <1>1 DEF LocalRun, Todos
      <4>3. QED
        BY <2>1, <4>1, <4>2, AdoptionAssumption DEF Turns
    <3>2. QED
      BY <1>1, <1>2, <1>4, <2>2, <2>3, <2>5, <3>1 DEF Owns, Targets, Working
  <2>9. Late(r)' /\ Restored(r)' /\ Quieted(r)' /\ FoundOff(r)'
    BY <1>1, <1>4, <2>2, <2>3, <1>2 DEF Late, Restored, Quieted, FoundOff, ReadyFor
  <2>10. QED
    BY <2>3, <2>4, <2>6, <2>7, <2>8, <2>9, Together DEF Sound
<1>5. CASE HoldsFence(r) /\ run[r].at # NoWriter /\ run' = [run EXCEPT ![r].fresh = TRUE] /\ UNCHANGED fence
  <2>1. PICK n : n = [run[r] EXCEPT !.fresh = TRUE]
    OBVIOUS
  <2>2. n \in LocalRun /\ AgreesBut(n, run[r], {"fresh"})
    BY <1>1, <2>1 DEF LocalRun, AgreesBut, Fields
  <2>3. /\ n.todo = run[r].todo /\ n.at = run[r].at /\ n.next = run[r].next
        /\ AgreesBut(n, run[r], {"todo", "at", "next", "fresh"})
    BY <2>2 DEF AgreesBut, Fields
  <2>4. run' = [run EXCEPT ![r] = n]
    BY <1>5, <2>1
  <2>5. run[r].at \in run[r].todo \cup {NoWriter} /\ run[r].next \in {"enable", "bootstrap", "kickstart"}
    BY <1>1, <1>2, <1>5 DEF Shape
  <2>6. QED
    BY <1>4, <1>5, <2>2, <2>3, <2>4, <2>5 DEF Turns
<1>6. CASE HoldsFence(r) /\ run[r].at = NoWriter /\ UNCHANGED fence /\ \E w \in FirstOn(r) :
             /\ Class(w) = run[r].before[w]
             /\ run' = [run EXCEPT ![r] = [run[r] EXCEPT !.todo = run[r].todo \ {w}]]
  <2>1. PICK d : /\ d \subseteq run[r].todo
                 /\ run' = [run EXCEPT ![r] = [run[r] EXCEPT !.todo = d]]
    BY <1>6
  <2>2. PICK n : n = [run[r] EXCEPT !.todo = d]
    OBVIOUS
  <2>3. n \in LocalRun /\ n.todo = d /\ AgreesBut(n, run[r], {"todo"})
    BY <1>1, <2>1, <2>2 DEF LocalRun, AgreesBut, Fields, Todos
  <2>4. /\ n.at = NoWriter /\ n.next = run[r].next /\ ~n.fresh
        /\ AgreesBut(n, run[r], {"todo", "at", "next", "fresh"})
    BY <1>2, <1>6, <2>3 DEF AgreesBut, Fields
  <2>5. run' = [run EXCEPT ![r] = n]
    BY <2>1, <2>2
  <2>6. QED
    BY <1>4, <1>6, <2>1, <2>3, <2>4, <2>5 DEF Turns
<1>7. CASE HoldsFence(r) /\ run[r].at = NoWriter /\ UNCHANGED fence /\ \E w \in FirstOn(r) :
             run' = [run EXCEPT ![r] = [run[r] EXCEPT !.at = w, !.next = "enable", !.fresh = TRUE]]
  <2>1. PICK w \in FirstOn(r) :
             run' = [run EXCEPT ![r] = [run[r] EXCEPT !.at = w, !.next = "enable", !.fresh = TRUE]]
    BY <1>7
  <2>2. w \in run[r].todo /\ w \in Writer /\ w # NoWriter
    BY <1>1, AdoptionAssumption DEF FirstOn, LocalRun, Todos
  <2>3. PICK n : n = [run[r] EXCEPT !.at = w, !.next = "enable", !.fresh = TRUE]
    OBVIOUS
  <2>4. n \in LocalRun /\ n.at = w /\ n.next = "enable" /\ AgreesBut(n, run[r], {"at", "next", "fresh"})
    BY <1>1, <2>2, <2>3 DEF LocalRun, AgreesBut, Fields, Commands, Places
  <2>5. n.todo = run[r].todo /\ AgreesBut(n, run[r], {"todo", "at", "next", "fresh"})
    BY <2>4 DEF AgreesBut, Fields
  <2>6. run' = [run EXCEPT ![r] = n]
    BY <2>1, <2>3
  <2>7. QED
    BY <1>4, <1>7, <2>2, <2>4, <2>5, <2>6 DEF Turns
<1>8. QED
  BY <1>3, <1>5, <1>6, <1>7, Zenon DEF AssertOn

\* Settle: the run has looked at the writers, and has the lease.
LEMMA SettleKeeps ==
  ASSUME AdoptionInv, NEW r \in Run, Settle(r)
  PROVE  AdoptionInv'
<1>1. /\ Types /\ run[r] \in LocalRun /\ Shape(run[r]) /\ Late(r) /\ OwnToken(r)
  BY Facts
<1>2. run[r].pc = "on" /\ run[r].todo = {} /\ UNCHANGED <<service, schema>>
  BY DEF Settle
<1>3. CASE ~(HoldsFence(r) /\ AsBefore(r))
  <2>1. Fails(r, "RECOVERY_REQUIRED")
    BY <1>3 DEF Settle
  <2>2. QED
    BY <1>2, <2>1, FailsStep DEF Failure
<1>4. CASE HoldsFence(r) /\ AsBefore(r)
  <2>1. PICK n : n = [run[r] EXCEPT !.pc = "release"]
    OBVIOUS
  <2>2. n \in LocalRun /\ n.pc = "release" /\ AgreesBut(n, run[r], {"pc"})
    BY <1>1, <2>1 DEF LocalRun, AgreesBut, Fields, Stage
  <2>3. /\ n.late = run[r].late /\ n.token = run[r].token /\ n.before = run[r].before
        /\ n.initial = run[r].initial /\ n.stage = run[r].stage /\ n.undo = run[r].undo /\ ~n.fresh
    BY <1>1, <1>2, <2>2 DEF AgreesBut, Fields, Shape
  <2>4. run' = [run EXCEPT ![r] = n] /\ UNCHANGED fence
    BY <1>4, <2>1 DEF Settle, Goto
  <2>5. run'[r] = n
    BY <1>1, <2>2, <2>4, Moves
  <2>6. FenceMoves(r) /\ OwnToken(r)'
    BY <1>1, <2>3, <2>4, <2>5, FenceKept
  <2>7. Frame(r)
    <3>1. (\A w \in Writer : ~Pending(r, w)') /\ StaysAtWork(r)
      BY <2>2, <2>5 DEF Pending, StaysAtWork, Working
    <3>2. QED
      BY <1>2, <2>2, <2>3, <2>4, <2>6, <3>1, QuietStep
  <2>8. Shape(n)'
    BY <1>1, <1>2, <2>2, <2>3 DEF Shape, AgreesBut, Fields, Working
  <2>9. Restored(r)'
    <3> SUFFICES ASSUME ~run[r].undo, run[r].stage = 8, NEW w \in Writer PROVE AsFound(n, w)'
      BY <2>3, <2>5 DEF Restored
    <3>1. Committed(r)
      BY <1>2 DEF Committed
    <3>2. Class(w) = run[r].before[w] /\ (run[r].initial[w] = "A" => Active(w))
      BY <1>4, <3>1 DEF AsBefore
    <3>3. run[r].before[w] \in {"A", "B", "C"}
      BY <1>1 DEF LocalRun, Inventories
    <3>4. run[r].initial[w] = "A" => Class(w) = "A"
      BY <1>1, <3>2, <3>3, Condition DEF Active
    <3>5. AsFound(n, w)
      BY <2>3, <3>2, <3>4 DEF AsFound, Same
    <3>6. AsFound(n, w)' <=> AsFound(n, w)
      BY <1>2 DEF AsFound, Same, Class, Active
    <3>7. QED
      BY <3>5, <3>6
  <2>10. Late(r)' /\ Owns(r)' /\ Quieted(r)' /\ FoundOff(r)'
    BY <1>1, <1>4, <2>2, <2>3, <2>5, <1>2 DEF Late, Owns, Quieted, FoundOff, ReadyFor, Working
  <2>11. QED
    BY <2>5, <2>6, <2>7, <2>8, <2>9, <2>10, Together DEF Sound
<1>5. QED
  BY <1>3, <1>4

\* Release.
LEMMA ReleaseKeeps ==
  ASSUME AdoptionInv, NEW r \in Run, Release(r)
  PROVE  AdoptionInv'
<1>1. /\ Types /\ run[r] \in LocalRun /\ Shape(run[r]) /\ Late(r) /\ OwnToken(r) /\ Restored(r)
  BY Facts
<1>2. run[r].pc = "release" /\ UNCHANGED <<service, schema>>
  BY DEF Release
<1>3. CASE ~HoldsFence(r)
  <2>1. Fails(r, "RECOVERY_REQUIRED")
    BY <1>3 DEF Release
  <2>2. QED
    BY <1>2, <2>1, FailsStep DEF Failure
<1>4. CASE HoldsFence(r)
  <2>1. PICK n : n = [run[r] EXCEPT !.pc = "readback"]
    OBVIOUS
  <2>2. n \in LocalRun /\ n.pc = "readback" /\ AgreesBut(n, run[r], {"pc"})
    BY <1>1, <2>1 DEF LocalRun, AgreesBut, Fields, Stage
  <2>3. /\ n.late = run[r].late /\ n.token = run[r].token /\ n.before = run[r].before
        /\ n.initial = run[r].initial /\ n.stage = run[r].stage /\ n.undo = run[r].undo /\ ~n.fresh
    BY <1>1, <1>2, <2>2 DEF AgreesBut, Fields, Shape
  <2>4. run' = [run EXCEPT ![r] = n] /\ fence' = Freed
    BY <1>4, <2>1 DEF Release, Goto
  <2>5. run'[r] = n /\ \A s \in Run \ {r} : run'[s] = run[s]
    BY <1>1, <2>2, <2>4, Moves
  <2>6. FenceMoves(r) /\ OwnToken(r)' /\ fence'.token = fence.token
    BY <1>1, <2>3, <2>4, <2>5, FenceKept
  <2>7. Frame(r)
    <3>1. (\A w \in Writer : ~Pending(r, w)') /\ StaysAtWork(r)
      BY <2>2, <2>5 DEF Pending, StaysAtWork, Working
    <3>2. QED
      BY <1>2, <2>2, <2>3, <2>4, <2>6, <3>1, QuietStep
  <2>8. Shape(n)'
    BY <1>1, <1>2, <2>2, <2>3 DEF Shape, AgreesBut, Fields, Working
  <2>9. Restored(r)'
    <3>1. \A s \in Run : run'[s].late = run[s].late
      BY <2>3, <2>5
    <3>2. \A w \in Writer : AsFound(run[r], w) => AsFound(n, w)'
      BY <1>2, <2>3 DEF AsFound, Same, Class, Active
    <3>3. QED
      BY <1>1, <1>2, <2>3, <2>5, <2>6, <3>1, <3>2 DEF Restored
  <2>10. Late(r)' /\ Owns(r)' /\ Quieted(r)' /\ FoundOff(r)'
    BY <1>1, <1>2, <2>2, <2>3, <2>5 DEF Late, Owns, Quieted, FoundOff, ReadyFor, Working
  <2>11. QED
    BY <2>5, <2>6, <2>7, <2>8, <2>9, <2>10, Together DEF Sound
<1>5. QED
  BY <1>3, <1>4

\* Readback: the second migration has a lease of its own.
LEMMA ReadbackKeeps ==
  ASSUME AdoptionInv, NEW r \in Run, Readback(r)
  PROVE  AdoptionInv'
<1>1. /\ Types /\ run[r] \in LocalRun /\ Shape(run[r]) /\ Late(r) /\ OwnToken(r)
  BY Facts
<1>2. run[r].pc = "readback" /\ UNCHANGED <<service, schema>>
  BY DEF Readback
<1>3. CASE Fails(r, "RECOVERY_REQUIRED")
  BY <1>2, <1>3, FailsStep DEF Failure
<1>4. CASE fence' = fence /\ \E t \in Outcomes : run' = [run EXCEPT ![r] = Concluded(run[r], t)]
  BY <1>2, <1>4, EndStep
<1>5. CASE ~run[r].undo /\ fence' = fence
           /\ run' = [run EXCEPT ![r] = [run[r] EXCEPT !.pc = "acquire", !.stage = 8]]
  <2>1. PICK n : n = [run[r] EXCEPT !.pc = "acquire", !.stage = 8]
    OBVIOUS
  <2>2. n \in LocalRun /\ n.pc = "acquire" /\ n.stage = 8 /\ AgreesBut(n, run[r], {"pc", "stage"})
    BY <1>1, <2>1 DEF LocalRun, AgreesBut, Fields, Stage, Stages
  <2>3. /\ n.late = run[r].late /\ n.token = run[r].token /\ ~n.fresh
    BY <1>1, <1>2, <2>2 DEF AgreesBut, Fields, Shape
  <2>4. run' = [run EXCEPT ![r] = n]
    BY <1>5, <2>1
  <2>5. run'[r] = n
    BY <1>1, <2>2, <2>4, Moves
  <2>6. FenceMoves(r) /\ OwnToken(r)'
    BY <1>1, <1>5, <2>3, <2>5, FenceKept
  <2>7. Frame(r)
    <3>1. (\A w \in Writer : ~Pending(r, w)') /\ StaysAtWork(r)
      BY <2>2, <2>5 DEF Pending, StaysAtWork, Working
    <3>2. QED
      BY <1>2, <2>2, <2>3, <2>4, <2>6, <3>1, QuietStep
  <2>8. schema' >= 7 /\ schema' # 6
    BY <1>1, <1>2 DEF Shape
  <2>9. Shape(n)'
    BY <1>1, <1>2, <1>5, <2>2, <2>3, <2>8 DEF Shape, AgreesBut, Fields, Working
  <2>10. Late(r)' /\ Restored(r)' /\ Owns(r)' /\ Quieted(r)' /\ FoundOff(r)'
    BY <1>1, <1>2, <2>2, <2>3, <2>5, <2>8 DEF Late, Restored, Owns, Quieted, FoundOff, ReadyFor, Working
  <2>11. QED
    BY <2>5, <2>6, <2>7, <2>9, <2>10, Together DEF Sound
<1>6. QED
  <2>1. run[r].status \in Outcomes /\ "ADOPTED" \in Outcomes
    BY <1>1 DEF LocalRun, Outcomes
  <2>2. CASE run[r].undo
    BY <1>3, <1>4, <2>1, <2>2 DEF Readback
  <2>3. CASE ~run[r].undo /\ run[r].stage = 7
    BY <1>3, <1>5, <2>3, Zenon DEF Readback
  <2>4. CASE ~run[r].undo /\ run[r].stage # 7
    BY <1>3, <1>4, <2>1, <2>4 DEF Readback
  <2>5. QED
    BY <2>2, <2>3, <2>4

\* FenceExpires: nobody holds the lease.
LEMMA FenceExpiresKeeps ==
  ASSUME AdoptionInv, FenceExpires
  PROVE  AdoptionInv'
<1>1. Types /\ Bringing /\ fence \in Fence /\ UNCHANGED <<service, schema, run>>
  BY DEF AdoptionInv, Types, FenceExpires
<1>2. fence' \in Fence /\ fence'.holder = fence.holder /\ fence'.token = fence.token /\ ~fence'.live
  BY <1>1 DEF FenceExpires, Fence
<1>3. Types' /\ Bringing'
  BY <1>1, <1>2 DEF Types, Bringing, Pending
<1>4. \A r \in Run : ~HoldsFence(r)'
  BY <1>2 DEF HoldsFence
<1>5. ASSUME NEW r \in Run PROVE Sound(r)'
  <2>1. Shape(run[r]) /\ Late(r) /\ OwnToken(r) /\ Restored(r) /\ Quieted(r) /\ FoundOff(r)
    BY Facts
  <2>2. Shape(run[r])'
    BY <1>1, <2>1 DEF Shape
  <2>3. Late(r)' /\ Owns(r)'
    BY <1>1, <1>4, <2>1 DEF Late, Owns
  <2>4. OwnToken(r)'
    BY <1>1, <1>2, <2>1 DEF OwnToken
  <2>5. Restored(r)'
    BY <1>1, <1>2, <2>1 DEF Restored, AsFound, Same, Class, Active
  <2>6. Quieted(r)'
    BY <1>1, <1>4, <2>1 DEF Quieted, ReadyFor, Clear, Pending
  <2>7. FoundOff(r)'
    BY <1>1, <2>1 DEF FoundOff
  <2>8. QED
    BY <2>2, <2>3, <2>4, <2>5, <2>6, <2>7 DEF Sound
<1>6. QED
  BY <1>3, <1>5 DEF AdoptionInv

\* Launchd starts and ends the processes of services; only the process of a
\* periodic one, or of one that is not loaded.
LEMMA LaunchdKeeps ==
  ASSUME AdoptionInv, Launchd
  PROVE  AdoptionInv'
<1>1. Types /\ Bringing /\ UNCHANGED <<schema, fence, run>>
  BY DEF AdoptionInv, Launchd
<1>2. PICK w \in Writer : Fire(w) \/ Finish(w)
  BY DEF Launchd
<1>3. PICK b \in BOOLEAN : /\ service' = [service EXCEPT ![w].running = b]
                           /\ b = ~service[w].running
                           /\ service[w].loaded => w \in Periodic
  BY <1>1, <1>2 DEF Fire, Finish, Types, ServiceStates
<1>4. /\ service' \in ServiceStates
      /\ \A v \in Writer : service'[v].loaded = service[v].loaded /\ service'[v].enabled = service[v].enabled
      /\ \A v \in Writer \ {w} : service'[v] = service[v]
      /\ service'[w].running = b
  BY <1>1, <1>3 DEF Types, ServiceStates
<1>5. Types' /\ Bringing'
  BY <1>1, <1>4 DEF Types, Bringing, Pending
<1>6. ASSUME NEW v \in Writer, NEW c \in {"A", "B", "C"}, Same(v, c) PROVE Same(v, c)'
  <2>1. CASE v # w
    BY <1>4, <1>6, <2>1 DEF Same, Class, Active
  <2>2. CASE v = w /\ ~service[w].loaded
    BY <1>4, <1>6, <2>2 DEF Same, Class, Active
  <2>3. CASE v = w /\ service[w].loaded
    <3>1. Class(v) \in {"A", "B"} /\ c \in {"A", "B"}
      BY <1>1, <1>6, <2>3, Condition DEF Same
    <3>2. Class(v)' \in {"A", "B"}
      BY <1>1, <1>4, <2>3, <3>1, Condition DEF Class, Active
    <3>3. QED
      BY <1>3, <2>3, <3>1, <3>2 DEF Same
  <2>4. QED
    BY <2>1, <2>2, <2>3
<1>7. ASSUME NEW r \in Run PROVE Sound(r)'
  <2>1. /\ Shape(run[r]) /\ Late(r) /\ OwnToken(r) /\ Restored(r) /\ Owns(r) /\ Quieted(r) /\ FoundOff(r)
        /\ run[r] \in LocalRun
    BY Facts
  <2>2. Shape(run[r])'
    BY <1>1, <2>1 DEF Shape
  <2>3. Late(r)' /\ OwnToken(r)' /\ (HoldsFence(r)' <=> HoldsFence(r))
    BY <1>1, <2>1 DEF Late, OwnToken, HoldsFence
  <2>4. Restored(r)'
    <3>1. \A v \in Writer : run[r].before[v] \in {"A", "B", "C"}
      BY <2>1 DEF LocalRun, Inventories
    <3>2. \A v \in Writer : AsFound(run[r], v) => AsFound(run[r], v)'
      BY <1>1, <1>6, <3>1 DEF AsFound
    <3>3. QED
      BY <1>1, <2>1, <3>2 DEF Restored
  <2>5. \A v \in Writer : /\ Clear(v) => Clear(v)'
                          /\ \A s \in Run : Pending(s, v)' <=> Pending(s, v)
    BY <1>1, <1>4 DEF Clear, Pending
  <2>6. Owns(r)'
    BY <1>1, <1>4, <2>1, <2>3, <2>5 DEF Owns, Targets, Shape
  <2>7. Quieted(r)'
    BY <1>1, <2>1, <2>5 DEF Quieted, ReadyFor, HoldsFence
  <2>8. FoundOff(r)'
    BY <1>1, <1>4, <2>1 DEF FoundOff
  <2>9. QED
    BY <2>2, <2>3, <2>4, <2>6, <2>7, <2>8 DEF Sound
<1>8. QED
  BY <1>5, <1>7 DEF AdoptionInv

-----------------------------------------------------------------------------
(* The theorems. *)

LEMMA AdoptionStarts == AdoptionInit => AdoptionInv
<1> SUFFICES ASSUME AdoptionInit PROVE AdoptionInv
  OBVIOUS
<1>1. /\ schema \in 6..8 /\ run = [r \in Run |-> IdleRun]
      /\ fence = [holder |-> NoRun, token |-> 0, live |-> FALSE]
  BY AdoptionAssumption DEF AdoptionInit
<1>2. service \in ServiceStates
  BY AdoptionAssumption DEF AdoptionInit, InClass, ServiceStates
<1>3. fence \in Fence /\ fence.token = 0 /\ fence.holder = NoRun /\ \A r \in Run : run[r] = IdleRun
  BY <1>1, AdoptionAssumption DEF Fence, Holders, Tokens
<1>4. Types
  BY <1>1, <1>2, <1>3, IdleTyped DEF Types
<1>5. Bringing
  BY <1>3, IdleTyped DEF Bringing, Pending
<1>6. Shape(IdleRun)
  BY IdleTyped DEF Shape, Working
<1>7. \A r \in Run : Sound(r)
  BY <1>3, <1>6, IdleTyped DEF Sound, Late, OwnToken, Restored, Owns, Quieted, ReadyFor, FoundOff, Working
<1>8. QED
  BY <1>4, <1>5, <1>7 DEF AdoptionInv

LEMMA AdoptionSteps ==
  ASSUME AdoptionInv, AdoptionNext
  PROVE  AdoptionInv'
<1>1. ASSUME NEW r \in Run,
             \/ Begin(r) \/ Confirm(r) \/ AcquireFence(r) \/ NotGranted(r) \/ Inspect(r)
             \/ AssertOff(r) \/ Disable(r) \/ BootOut(r) \/ CommandFails(r)
      PROVE  AdoptionInv'
  BY <1>1, BeginKeeps, ConfirmKeeps, AcquireFenceKeeps, NotGrantedKeeps, InspectKeeps, AssertOffKeeps,
     DisableKeeps, BootOutKeeps, CommandFailsKeeps
<1>2. ASSUME NEW r \in Run,
             \/ Stabilise(r) \/ Migrate(r) \/ Rebind(r)
             \/ AssertOn(r) \/ Enable(r) \/ Bootstrap(r) \/ Kickstart(r)
             \/ Settle(r) \/ Release(r) \/ Readback(r)
      PROVE  AdoptionInv'
  BY <1>2, StabiliseKeeps, MigrateKeeps, RebindKeeps, AssertOnKeeps, EnableKeeps, BootstrapKeeps, KickstartKeeps,
     SettleKeeps, ReleaseKeeps, ReadbackKeeps
<1>3. QED
  BY <1>1, <1>2, FenceExpiresKeeps, LaunchdKeeps DEF AdoptionNext

LEMMA AdoptionStutters ==
  ASSUME AdoptionInv, UNCHANGED adoptionVars
  PROVE  AdoptionInv'
<1>1. service' = service /\ schema' = schema /\ fence' = fence /\ run' = run
  BY DEF adoptionVars
<1>2. \A r \in Run : Sound(r) => Sound(r)'
  BY <1>1 DEF Sound, Shape, Late, OwnToken, Restored, Owns, Quieted, FoundOff, AsFound, Same, Class, Active,
              ReadyFor, Clear, Pending, HoldsFence, Targets
<1>3. QED
  BY <1>1, <1>2 DEF AdoptionInv, Types, Bringing, Pending

(* The inductive invariant: what a run took down is its own and stays      *)
(* down, and while a run may migrate no command is pending that would load *)
(* a writer.                                                               *)
THEOREM AdoptionInvariant == AdoptionSpec => []AdoptionInv
<1>1. AdoptionInv /\ [AdoptionNext]_adoptionVars => AdoptionInv'
  BY AdoptionSteps, AdoptionStutters
<1>2. QED
  BY <1>1, AdoptionStarts, PTL DEF AdoptionSpec

\* The variables have their types: the inventories are of services in a known class.
THEOREM AdoptionTypes == AdoptionSpec => []AdoptionTypeOK
<1>1. AdoptionInv => AdoptionTypeOK
  <2> SUFFICES ASSUME Types PROVE AdoptionTypeOK
    BY DEF AdoptionInv
  <2>1. Inventories \subseteq [Writer -> Classes]
    BY DEF Inventories, Classes
  <2>2. QED
    BY <2>1 DEF Types, AdoptionTypeOK, Fence, Holders, Tokens, LocalRun, Stage, Stages, Todos, Places, Commands,
                Touches
<1>2. QED
  BY <1>1, AdoptionInvariant, PTL

\* A run that has lost its lease gives at most one more command.
THEOREM LateCommandsBounded == AdoptionSpec => []OneLateCommand
<1>1. AdoptionInv => OneLateCommand
  <2> SUFFICES ASSUME AdoptionInv, NEW r \in Run PROVE run[r].late <= 1
    BY DEF OneLateCommand
  <2>1. Late(r) /\ run[r].late \in Nat
    BY Facts DEF LocalRun
  <2>2. QED
    BY <2>1 DEF Late
<1>2. QED
  BY <1>1, AdoptionInvariant, PTL

\* The schema moves one version at a time, and only while no writer is running.
THEOREM MigrationsQuiet == AdoptionSpec => QuietMigration
<1>1. AdoptionInv /\ [AdoptionNext]_adoptionVars => [MigratesQuietly]_adoptionVars
  <2> SUFFICES ASSUME AdoptionInv, AdoptionNext, schema' # schema PROVE MigratesQuietly
    BY DEF MigratesQuietly, adoptionVars
  <2>1. PICK r \in Run : Migrate(r)
    BY DEF AdoptionNext, Begin, Confirm, AcquireFence, NotGranted, Inspect, AssertOff, Disable, BootOut,
           CommandFails, Stabilise, Rebind, AssertOn, Enable, Bootstrap, Kickstart, Settle, Release, Readback,
           FenceExpires, Launchd
  <2>2. Quieted(r) /\ run[r].stage \in {7, 8}
    BY Facts DEF LocalRun, Stages
  <2>3. schema = run[r].stage - 1 /\ schema' = run[r].stage /\ run[r].pc = "migrate"
    BY <2>1 DEF Migrate
  <2>4. \A w \in Writer : Clear(w)
    BY <2>2, <2>3 DEF Quieted, ReadyFor
  <2>5. QED
    BY <2>2, <2>3, <2>4 DEF MigratesQuietly, Clear, Active
<1>2. QED
  BY <1>1, AdoptionInvariant, PTL DEF AdoptionSpec, QuietMigration

\* A failure reports no success.
LEMMA FailsUnadopted ==
  ASSUME AdoptionInv, NEW s \in Run, NEW t \in Failure, Fails(s, t), NEW r \in Run, run[r].outcome = "NONE"
  PROVE  run'[r].outcome # "ADOPTED"
<1>1. run \in [Run -> LocalRun] /\ run[s] \in LocalRun
  BY Facts DEF Types
<1>2. \A o \in Outcomes : Concluded(run[s], o) \in LocalRun /\ Concluded(run[s], o).outcome = o
  BY <1>1, HasEnded
<1>3. CASE \E o \in Failure : run' = [run EXCEPT ![s] = Concluded(run[s], o)]
  BY <1>1, <1>2, <1>3 DEF Failure, Outcomes
<1>4. CASE run' = [run EXCEPT ![s] = [run[s] EXCEPT
                !.pc = "on", !.undo = TRUE, !.fresh = FALSE, !.status = t,
                !.todo = Targets(run[s].before), !.at = NoWriter]]
  BY <1>1, <1>4 DEF LocalRun
<1>5. CASE run' = [run EXCEPT ![s] = [run[s] EXCEPT
                !.pc = "readback", !.undo = TRUE, !.fresh = FALSE, !.status = t]]
  BY <1>1, <1>5 DEF LocalRun
<1>6. "NOT_REQUIRED" \in Failure /\ "RECOVERY_REQUIRED" \in Failure
  BY DEF Failure
<1>7. QED
  BY <1>3, <1>4, <1>5, <1>6, Zenon DEF Fails

\* A command does not change the outcome of a run.
LEMMA CommandUnadopted ==
  ASSUME AdoptionInv, NEW s \in Run, NEW r \in Run,
         Disable(s) \/ BootOut(s) \/ Migrate(s) \/ Enable(s) \/ Bootstrap(s) \/ Kickstart(s)
  PROVE  run'[r].outcome = run[r].outcome
<1>1. run \in [Run -> LocalRun] /\ run[s] \in LocalRun
  BY Facts DEF Types
<1>2. PICK x : x = Acted(s, run[s])
  OBVIOUS
<1>3. x \in LocalRun /\ x.outcome = run[s].outcome /\ AgreesBut(x, run[s], {"fresh", "late"})
  BY <1>1, <1>2, HasActed DEF AgreesBut, Fields
<1>4. Brought(s, x).outcome = run[s].outcome
  BY <1>1, <1>3, HasBrought DEF AgreesBut, Fields
<1>5. CASE \E n : run' = [run EXCEPT ![s] = n] /\ n.outcome = run[s].outcome
  BY <1>1, <1>5
<1>6. ASSUME Disable(s) PROVE \E n : run' = [run EXCEPT ![s] = n] /\ n.outcome = run[s].outcome
  <2>1. PICK w, t : run' = [run EXCEPT ![s] = [x EXCEPT !.at = w, !.next = "bootout", !.touched = t]]
    BY <1>2, <1>6, Zenon DEF Disable
  <2>2. PICK n : n = [x EXCEPT !.at = w, !.next = "bootout", !.touched = t]
    OBVIOUS
  <2>3. n.outcome = x.outcome
    BY <1>3, <2>2 DEF LocalRun
  <2>4. QED
    BY <1>3, <2>1, <2>2, <2>3
<1>7. ASSUME BootOut(s) PROVE \E n : run' = [run EXCEPT ![s] = n] /\ n.outcome = run[s].outcome
  <2>1. PICK d : run' = [run EXCEPT ![s] = [x EXCEPT !.todo = d, !.at = NoWriter, !.next = "disable",
                                                      !.touched = "booted"]]
    BY <1>2, <1>7, Zenon DEF BootOut
  <2>2. PICK n : n = [x EXCEPT !.todo = d, !.at = NoWriter, !.next = "disable", !.touched = "booted"]
    OBVIOUS
  <2>3. n.outcome = x.outcome
    BY <1>3, <2>2 DEF LocalRun
  <2>4. QED
    BY <1>3, <2>1, <2>2, <2>3
<1>8. ASSUME Migrate(s) \/ Enable(s) PROVE \E n : run' = [run EXCEPT ![s] = n] /\ n.outcome = run[s].outcome
  <2>1. \/ run' = [run EXCEPT ![s] = [x EXCEPT !.pc = "rebind"]]
        \/ run' = [run EXCEPT ![s] = [x EXCEPT !.next = "bootstrap"]]
    BY <1>2, <1>8 DEF Migrate, Enable
  <2>2. QED
    BY <1>3, <2>1 DEF LocalRun
<1>9. ASSUME Bootstrap(s) \/ Kickstart(s) PROVE \E n : run' = [run EXCEPT ![s] = n] /\ n.outcome = run[s].outcome
  <2>1. \/ run' = [run EXCEPT ![s] = [x EXCEPT !.next = "kickstart"]]
        \/ run' = [run EXCEPT ![s] = Brought(s, x)]
    BY <1>2, <1>9 DEF Bootstrap, Kickstart
  <2>2. QED
    BY <1>3, <1>4, <2>1 DEF LocalRun
<1>10. QED
  BY <1>5, <1>6, <1>7, <1>8, <1>9

\* Only Readback reports ADOPTED.
LEMMA OnlyReadbackAdopts ==
  ASSUME AdoptionInv, AdoptionNext, NEW r \in Run, run[r].outcome = "NONE", run'[r].outcome = "ADOPTED"
  PROVE  Readback(r) /\ fence.holder = NoRun /\ fence.token = run[r].token /\ ~run[r].undo /\ run[r].stage = 8
<1>1. run \in [Run -> LocalRun]
  BY Facts DEF Types
<1>2. PICK s \in Run :
          \/ Begin(s) \/ Confirm(s) \/ AcquireFence(s) \/ NotGranted(s) \/ Inspect(s)
          \/ AssertOff(s) \/ Disable(s) \/ BootOut(s) \/ CommandFails(s)
          \/ Stabilise(s) \/ Migrate(s) \/ Rebind(s)
          \/ AssertOn(s) \/ Enable(s) \/ Bootstrap(s) \/ Kickstart(s)
          \/ Settle(s) \/ Release(s) \/ Readback(s)
  BY DEF AdoptionNext, FenceExpires, Launchd
<1>3. run[s] \in LocalRun /\ Shape(run[s]) /\ run[s].outcome \in Outcomes
  BY Facts DEF LocalRun
<1>4. \A o \in Outcomes : Concluded(run[s], o) \in LocalRun /\ Concluded(run[s], o).outcome = o
  BY <1>3, HasEnded
<1>5. /\ \A t \in Failure : ~Fails(s, t)
      /\ Failure \subseteq Outcomes \ {"ADOPTED"} /\ {"ALREADY"} \subseteq Outcomes \ {"ADOPTED"}
  BY FailsUnadopted DEF Failure, Outcomes
<1>6. \A o \in Outcomes \ {"ADOPTED"} : run' # [run EXCEPT ![s] = Concluded(run[s], o)]
  BY <1>1, <1>4
<1>7. ~(\E n : run' = [run EXCEPT ![s] = n] /\ n.outcome = run[s].outcome)
  BY <1>1
<1>8. ~Begin(s) /\ ~Confirm(s) /\ ~NotGranted(s)
  <2>1. run' # [run EXCEPT ![s] = [run[s] EXCEPT !.pc = "confirm", !.initial = Inventory]]
    BY <1>3, <1>7 DEF LocalRun
  <2>2. run' # [run EXCEPT ![s] = [run[s] EXCEPT !.pc = "acquire", !.stage = schema + 1]]
    BY <1>3, <1>7 DEF LocalRun
  <2>3. QED
    BY <1>5, <1>6, <2>1, <2>2 DEF Begin, Confirm, NotGranted, Failure
<1>9. ~AcquireFence(s)
  <2> SUFFICES ASSUME AcquireFence(s) PROVE FALSE
    OBVIOUS
  <2>1. PICK p, i, d : /\ p = (IF run[s].stage = 8 THEN "inspect" ELSE "off")
                       /\ i = (IF run[s].stage = 7 THEN run[s].initial ELSE run[s].before)
                       /\ d = (IF run[s].stage = 7 THEN Targets(run[s].initial) ELSE {})
    OBVIOUS
  <2>2. PICK n : n = [run[s] EXCEPT !.token = fence.token + 1, !.touched = "none", !.next = "disable",
                                    !.pc = p, !.before = i, !.todo = d]
    OBVIOUS
  <2>3. n.outcome = run[s].outcome
    BY <1>3, <2>2 DEF LocalRun
  <2>4. run' = [run EXCEPT ![s] = n]
    BY <2>1, <2>2 DEF AcquireFence
  <2>5. QED
    BY <1>7, <2>3, <2>4
<1>10. ~Inspect(s) /\ ~AssertOff(s) /\ ~CommandFails(s) /\ ~Stabilise(s)
  <2>1. run' # [run EXCEPT ![s] = [run[s] EXCEPT !.pc = "off", !.before = Inventory, !.todo = Targets(Inventory)]]
    BY <1>3, <1>7 DEF LocalRun
  <2>2. run' # [run EXCEPT ![s].fresh = TRUE]
    BY <1>1, <1>3 DEF LocalRun
  <2>3. run' # [run EXCEPT ![s] = [run[s] EXCEPT !.pc = "migrate", !.fresh = TRUE]]
    BY <1>3, <1>7 DEF LocalRun
  <2>4. QED
    BY <1>5, <2>1, <2>2, <2>3 DEF Inspect, AssertOff, CommandFails, Stabilise, OffStatus, Failure
<1>11. ~Rebind(s) /\ ~AssertOn(s)
  <2>1. run' # [run EXCEPT ![s] = [run[s] EXCEPT !.pc = "on", !.todo = Targets(run[s].before), !.at = NoWriter]]
    BY <1>3, <1>7 DEF LocalRun
  <2>2. run' # [run EXCEPT ![s].fresh = TRUE]
    BY <1>1, <1>3 DEF LocalRun
  <2>3. ASSUME NEW w
        PROVE  /\ run' # [run EXCEPT ![s] = [run[s] EXCEPT !.todo = run[s].todo \ {w}]]
               /\ run' # [run EXCEPT ![s] = [run[s] EXCEPT !.at = w, !.next = "enable", !.fresh = TRUE]]
    <3>1. PICK d : d = run[s].todo \ {w}
      OBVIOUS
    <3>2. PICK n, k : /\ n = [run[s] EXCEPT !.todo = d]
                      /\ k = [run[s] EXCEPT !.at = w, !.next = "enable", !.fresh = TRUE]
      OBVIOUS
    <3>3. n.outcome = run[s].outcome /\ k.outcome = run[s].outcome
      BY <1>3, <3>2 DEF LocalRun
    <3>4. QED
      BY <1>7, <3>1, <3>2, <3>3
  <2>4. "RECOVERY_REQUIRED" \in Failure
    BY DEF Failure
  <2>5. ~Rebind(s)
    BY <1>5, <2>1, <2>4, Zenon DEF Rebind
  <2>6. ~AssertOn(s)
    BY <1>5, <2>2, <2>3, <2>4, Zenon DEF AssertOn
  <2>7. QED
    BY <2>5, <2>6
<1>12. ~Settle(s) /\ ~Release(s)
  <2>1. \A p : run' # [run EXCEPT ![s].pc = p]
    BY <1>1, <1>3 DEF LocalRun
  <2>2. QED
    BY <1>5, <2>1 DEF Settle, Release, Goto, Failure
<1>13. Readback(s)
  BY <1>2, <1>8, <1>9, <1>10, <1>11, <1>12, CommandUnadopted
<1>14. s = r /\ fence.holder = NoRun /\ fence.token = run[s].token /\ ~run[s].undo /\ run[s].stage = 8
  <2>1. run' # [run EXCEPT ![s] = [run[s] EXCEPT !.pc = "acquire", !.stage = 8]]
    BY <1>3, <1>7 DEF LocalRun
  <2>2. run[s].status \in Outcomes \ {"ADOPTED"} /\ run[s].stage \in {7, 8}
    BY <1>3 DEF Shape, LocalRun, Stages
  <2>3. ~Fails(s, "RECOVERY_REQUIRED")
    BY <1>5 DEF Failure
  <2>4. fence.holder = NoRun /\ fence.token = run[s].token /\ ~run[s].undo /\ run[s].stage # 7
    <3>1. fence.holder = NoRun /\ fence.token = run[s].token
      BY <1>13, <2>3 DEF Readback
    <3>2. ~run[s].undo
      BY <1>6, <1>13, <2>2, <3>1 DEF Readback
    <3>3. run[s].stage # 7
      BY <1>13, <2>1, <3>1, <3>2, Zenon DEF Readback
    <3>4. QED
      BY <3>1, <3>2, <3>3
  <2>5. s = r
    <3>1. run' = [run EXCEPT ![s] = Concluded(run[s], "ADOPTED")]
      BY <1>13, <2>4 DEF Readback
    <3>2. QED
      BY <1>1, <3>1
  <2>6. QED
    BY <2>2, <2>4, <2>5
<1>15. QED
  BY <1>13, <1>14

(* A run reports ADOPTED only with the writers as it quiesced them and as  *)
(* it found them at its very start, unless some run acted without a lease. *)
THEOREM AdoptedAlwaysRestores == AdoptionSpec => AdoptedRestores
<1>1. ASSUME AdoptionInv, AdoptionNext PROVE RestoresWriters
  <2> SUFFICES ASSUME NEW r \in Run, run[r].outcome = "NONE", run'[r].outcome = "ADOPTED",
                      \A o \in Run : run[o].late = 0, NEW w \in Writer
      PROVE  Same(w, run[r].before[w]) /\ (run[r].initial[w] = "A" => Same(w, "A"))
    BY DEF RestoresWriters
  <2>1. Readback(r) /\ fence.token = run[r].token /\ ~run[r].undo /\ run[r].stage = 8
    BY <1>1, OnlyReadbackAdopts
  <2>2. AsFound(run[r], w)
    BY <1>1, <2>1, Facts DEF Restored, Readback
  <2>3. QED
    BY <2>2 DEF AsFound
<1>2. AdoptionInv /\ [AdoptionNext]_adoptionVars => [RestoresWriters]_adoptionVars
  BY <1>1
<1>3. QED
  BY <1>2, AdoptionInvariant, PTL DEF AdoptionSpec, AdoptedRestores
=============================================================================
