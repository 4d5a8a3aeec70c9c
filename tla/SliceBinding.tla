----------------------------- MODULE SliceBinding -----------------------------
(***************************************************************************)
(* Controller processes that bind an execution to a slice before its Maker *)
(* runs, release it again, and run the Maker in the bound worktree.  A     *)
(* binding spans two systems: branch and worktree in Git, the rows of      *)
(* SliceControlStore.  Every Git command and every transaction is a step   *)
(* of its own; a process may die between any two.                          *)
(***************************************************************************)
EXTENDS SliceControlStore

CONSTANTS
  Caller,      \* controller processes, by call
  Serial,      \* no two binding calls, nor two releases, at a time
  MaxVersion,  \* Reconcile stops at this state_version of the slice
  LeasedAt     \* leases are granted at these state_versions of an execution

VARIABLES
  branch,    \* head of the logical branch (0: no such branch)
  worktree,  \* the execution at whose path the branch is checked out
  foreign,   \* which of the two a human made
  call       \* the call each process is in

git == <<branch, worktree, foreign>>
bindingVars == <<store, git, call>>

\* ver, xver: the expected versions of slice and execution; wc, bc: the
\* worktree_created and branch_created of the candidate; made: this very call
\* created them.
NoCall == [pc |-> "idle", exec |-> NoExecution, ver |-> 0, xver |-> 0, wc |-> FALSE, bc |-> FALSE,
         made |-> FALSE]

BindingTypeOK ==
  /\ StoreTypeOK
  /\ branch \in 0..2 /\ worktree \in Execution \cup {NoExecution}
  /\ foreign \subseteq {"branch", "worktree"}
  /\ \A c \in Caller :
       /\ call[c].pc \in {"idle", "inspect", "branch", "add", "persist", "compensate", "unbranch",
                          "release", "cleanup", "launch", "register", "run", "commit", "failed", "finish",
                          "finalize", "verifying"}
       /\ call[c].exec \in Execution \cup {NoExecution}
       /\ call[c].wc \in BOOLEAN /\ call[c].bc \in BOOLEAN

BindingInit ==
  /\ StoreInit
  /\ \/ branch = 0 /\ foreign = {}
     \/ branch = 1 /\ foreign = {"branch"}
     \/ branch = 1 /\ foreign = {"branch", "worktree"}
  /\ IF "worktree" \in foreign THEN worktree \in Execution ELSE worktree = NoExecution
  /\ call = [c \in Caller |-> NoCall]

EndCall(c) == call' = [call EXCEPT ![c] = NoCall]
Proceed(c, pc) == call' = [call EXCEPT ![c].pc = pc]
Start(c, changed) == call[c].pc = "idle" /\ call' = [call EXCEPT ![c] = changed]

-----------------------------------------------------------------------------
(* bind_deferred_execution of the controller. *)
BindingCalls == {"inspect", "branch", "add", "persist", "compensate", "unbranch"}

\* Mutant: a call that reuses a persisted worktree compensates for it too.
ReuseClaims(c, e) ==
  /\ Serial => \A d \in Caller : call[d].pc \notin BindingCalls
  /\ \/ Binding(e) = 0 /\ Start(c, [NoCall EXCEPT !.pc = "inspect", !.exec = e, !.ver = slice.version])
     \/ /\ Binding(e) # 0
        /\ slice.active = e /\ worktree = e /\ branch = slice.head
        /\ Start(c, [NoCall EXCEPT !.pc = "persist", !.exec = e, !.ver = slice.version, !.made = TRUE,
                                !.wc = events[Binding(e)].wc, !.bc = events[Binding(e)].bc])
  /\ UNCHANGED <<store, git>>

\* get_deferred_binding decides between a new worktree and the persisted one;
\* reuse_bound wants it where and as the slice row says.  Such a call is asked
\* with the version it was first asked with: with another it is refused.
StartBind(c, e) ==
  /\ Serial => \A d \in Caller : call[d].pc \notin BindingCalls
  /\ \/ Binding(e) = 0 /\ Start(c, [NoCall EXCEPT !.pc = "inspect", !.exec = e, !.ver = slice.version])
     \/ /\ Binding(e) # 0
        /\ slice.active = e /\ worktree = e /\ branch = slice.head
        /\ Start(c, [NoCall EXCEPT !.pc = "persist", !.exec = e, !.ver = Binding(e) - 2,
                                !.wc = events[Binding(e)].wc, !.bc = events[Binding(e)].bc])
  /\ UNCHANGED <<store, git>>

\* Mutant: a worktree found is taken for a worktree made.
InspectClaims(c) ==
  /\ call[c].pc = "inspect"
  /\ \/ /\ worktree = call[c].exec /\ branch = 1
        /\ call' = [call EXCEPT ![c].pc = "persist", ![c].wc = TRUE, ![c].bc = TRUE, ![c].made = TRUE]
     \/ worktree = NoExecution /\ branch = 0 /\ Proceed(c, "branch")
     \/ worktree = NoExecution /\ branch = 1 /\ Proceed(c, "add")
  /\ UNCHANGED <<store, git>>

\* prepare_bound: what the registered worktrees and the branch say.
InspectGit(c) ==
  /\ call[c].pc = "inspect"
  /\ \/ worktree = call[c].exec /\ branch = 1 /\ Proceed(c, "persist")
     \/ /\ worktree # NoExecution
        /\ ~(worktree = call[c].exec /\ branch = 1)
        /\ EndCall(c)
     \/ worktree = NoExecution /\ branch = 0 /\ Proceed(c, "branch")
     \/ worktree = NoExecution /\ branch = 1 /\ Proceed(c, "add")
     \/ worktree = NoExecution /\ branch = 2 /\ EndCall(c)
  /\ UNCHANGED <<store, git>>

\* git branch fails if the branch has appeared meanwhile.
MakeBranch(c) ==
  /\ call[c].pc = "branch"
  /\ \/ /\ branch = 0 /\ branch' = 1
        /\ call' = [call EXCEPT ![c].pc = "add", ![c].bc = TRUE, ![c].made = TRUE]
     \/ branch # 0 /\ EndCall(c) /\ UNCHANGED branch
  /\ UNCHANGED <<store, worktree, foreign>>

\* git worktree add; if it fails, a branch made by this call is deleted as
\* long as it still stands at the base.
AddWorktree(c) ==
  /\ call[c].pc = "add"
  /\ \/ /\ worktree = NoExecution /\ branch = 1
        /\ worktree' = call[c].exec
        /\ call' = [call EXCEPT ![c].pc = "persist", ![c].wc = TRUE, ![c].made = TRUE]
        /\ UNCHANGED branch
     \/ /\ EndCall(c)
        /\ branch' = IF call[c].bc /\ branch = 1 THEN 0 ELSE branch
        /\ UNCHANGED worktree
  /\ UNCHANGED <<store, foreign>>

\* The transaction; after any error, a capsule that does not fit included,
\* the call undoes what it has created itself.
Persist(c) ==
  LET e == call[c].exec IN
  /\ call[c].pc = "persist"
  /\ \/ BindDeferred(e, call[c].ver, call[c].wc, call[c].bc) /\ EndCall(c)
     \/ BindReplays(e, call[c].ver, call[c].wc, call[c].bc) /\ EndCall(c) /\ UNCHANGED store
     \/ call[c].made /\ Proceed(c, "compensate") /\ UNCHANGED store
     \/ ~call[c].made /\ EndCall(c) /\ UNCHANGED store
  /\ UNCHANGED git

\* compensate_bound: only an unchanged worktree at the base is removed, then
\* the branch; anything else is left for review.
Compensate(c) ==
  /\ call[c].pc = "compensate"
  /\ \/ /\ worktree = call[c].exec /\ branch = 1
        /\ worktree' = IF call[c].wc THEN NoExecution ELSE worktree
        /\ IF call[c].bc THEN Proceed(c, "unbranch") ELSE EndCall(c)
     \/ /\ ~(worktree = call[c].exec /\ branch = 1)
        /\ EndCall(c) /\ UNCHANGED worktree
  /\ UNCHANGED <<store, branch, foreign>>

DeleteBranch(c) ==
  /\ call[c].pc = "unbranch"
  /\ \/ branch = 1 /\ branch' = 0 /\ EndCall(c)
     \/ branch # 1 /\ EndCall(c) /\ UNCHANGED branch
  /\ UNCHANGED <<store, worktree, foreign>>

-----------------------------------------------------------------------------
(* release_prebound_execution: the database first, then Git. *)
ReleaseCalls == {"release", "cleanup"}

StartRelease(c, e) ==
  /\ Serial => \A d \in Caller : call[d].pc \notin ReleaseCalls
  /\ Binding(e) # 0
  /\ LET b == events[Binding(e)] IN
       Start(c, [NoCall EXCEPT !.pc = "release", !.exec = e, !.ver = slice.version,
                             !.xver = execution[e].version, !.wc = b.wc, !.bc = b.bc])
  /\ UNCHANGED <<store, git>>

\* The same release asked for again, after its answer was lost.
RetryRelease(c, e) ==
  /\ Serial => \A d \in Caller : call[d].pc \notin ReleaseCalls
  /\ Released(e)
  /\ LET b == events[Binding(e)]
         r == SelectInSeq(events, LAMBDA ev : ev.reason = "RELEASE" /\ ev.exec = e) IN
       Start(c, [NoCall EXCEPT !.pc = "release", !.exec = e, !.ver = r - 2,
                             !.xver = execution[e].version - 1, !.wc = b.wc, !.bc = b.bc])
  /\ UNCHANGED <<store, git>>

ReleaseBinding(c) ==
  /\ call[c].pc = "release"
  /\ \/ ReleaseDeferred(call[c].exec, call[c].xver, call[c].ver) /\ Proceed(c, "cleanup")
     \/ ReleaseReplays(call[c].exec, call[c].ver) /\ Proceed(c, "cleanup") /\ UNCHANGED store
     \/ EndCall(c) /\ UNCHANGED store
  /\ UNCHANGED git

\* cleanup_released: only a worktree the binding created; the branch stays.
Cleanup(c) ==
  /\ call[c].pc = "cleanup"
  /\ IF call[c].wc /\ worktree = call[c].exec
     THEN /\ worktree' = IF branch = 1 THEN NoExecution ELSE worktree
     ELSE UNCHANGED worktree
  /\ EndCall(c)
  /\ UNCHANGED <<store, branch, foreign>>

-----------------------------------------------------------------------------
(* The Maker in its bound worktree.  One process at a time runs a Maker:   *)
(* two controllers on one execution are the subject of module Execution.   *)
(* So a lease is named by nothing but being held.                          *)
NoMaker ==
  \A c \in Caller :
    call[c].pc \notin {"launch", "register", "run", "commit", "failed", "finish", "finalize",
                       "verifying"}

AcquireLease(e) ==
  /\ execution[e].state \in OpenState /\ ~execution[e].leased
  /\ execution[e].version \in LeasedAt
  /\ execution' = [execution EXCEPT ![e].leased = TRUE, ![e].version = @ + 1]
  /\ UNCHANGED <<slice, events, git, call>>

\* It expires, or is released.
LapseLease(e) ==
  /\ execution[e].leased
  /\ execution' = [execution EXCEPT ![e].leased = FALSE]
  /\ UNCHANGED <<slice, events, git, call>>

\* A fenced transition of the execution.
MoveExecution(e, state) ==
  /\ execution[e].leased
  /\ execution' = [execution EXCEPT ![e].state = state, ![e].version = @ + 1]

\* _begin_maker: row, binding and worktree are read and compared ...
StartMaker(c, e) ==
  /\ execution[e].state = "READY" /\ NoMaker
  /\ slice.active = e /\ worktree = e /\ branch = slice.head
  /\ Start(c, [NoCall EXCEPT !.pc = "launch", !.exec = e])
  /\ UNCHANGED <<store, git>>

\* ... the fenced transition follows, and then the attempt, unfenced.
Launch(c) ==
  /\ call[c].pc = "launch"
  /\ \/ /\ execution[call[c].exec].state = "READY"
        /\ MoveExecution(call[c].exec, "MAKER_RUNNING") /\ Proceed(c, "register")
     \/ EndCall(c) /\ UNCHANGED execution
  /\ UNCHANGED <<slice, events, git>>

RegisterAttempt(c) ==
  /\ call[c].pc = "register"
  /\ execution' = [execution EXCEPT ![call[c].exec].attempt = "RUNNING"]
  /\ Proceed(c, "run")
  /\ UNCHANGED <<slice, events, git>>

\* complete_maker: the state is read, and then come the commit in Git, the end
\* of the attempt, the result on both rows and the transition, one after the
\* other; only the last two ask for the state again.
CompleteMaker(c) ==
  /\ call[c].pc = "run" /\ execution[call[c].exec].state = "MAKER_RUNNING"
  /\ Proceed(c, "commit")
  /\ UNCHANGED <<store, git>>

Commit(c) ==
  /\ call[c].pc = "commit"
  /\ worktree = call[c].exec /\ branch = 1
  /\ branch' = 2 /\ Proceed(c, "finish")
  /\ UNCHANGED <<store, worktree, foreign>>

\* What the Maker did may not be committed: the attempt fails and the
\* execution is blocked.
Reject(c) ==
  /\ call[c].pc = "commit"
  /\ execution' = [execution EXCEPT ![call[c].exec].attempt = "FAILED"]
  /\ Proceed(c, "failed")
  /\ UNCHANGED <<slice, events, git>>

BlockMaker(c) ==
  /\ call[c].pc = "failed" /\ execution[call[c].exec].state = "MAKER_RUNNING"
  /\ MoveExecution(call[c].exec, "BLOCKED") /\ EndCall(c)
  /\ UNCHANGED <<slice, events, git>>

FinishAttempt(c) ==
  LET e == call[c].exec IN
  /\ call[c].pc = "finish" /\ execution[e].attempt = "RUNNING"
  /\ execution' = [execution EXCEPT ![e].attempt = "SUCCEEDED"]
  /\ call' = [call EXCEPT ![c].pc = "finalize", ![c].ver = slice.version, ![c].xver = execution[e].version]
  /\ UNCHANGED <<slice, events, git>>

Finalize(c) ==
  /\ call[c].pc = "finalize"
  /\ \/ FinalizeDeferred(call[c].exec, call[c].xver, call[c].ver, 1) /\ Proceed(c, "verifying")
     \/ EndCall(c) /\ UNCHANGED store
  /\ UNCHANGED git

Verifying(c) ==
  /\ call[c].pc = "verifying" /\ execution[call[c].exec].state = "MAKER_RUNNING"
  /\ MoveExecution(call[c].exec, "VERIFYING") /\ EndCall(c)
  /\ UNCHANGED <<slice, events, git>>

-----------------------------------------------------------------------------
(* resume_once, with the lease, after the process of the Maker has died.   *)
(* Evidence that contradicts itself does not arise here: nothing in the    *)
(* model takes a commit or a worktree away from a bound execution.         *)
Orphaned(e) ==
  /\ execution[e].state = "MAKER_RUNNING" /\ execution[e].leased /\ NoMaker

\* A succeeded attempt whose result is on no row yet is finalised, if the
\* worktree stands at that result.
RecoverResult(c, e) ==
  /\ Orphaned(e) /\ execution[e].attempt = "SUCCEEDED"
  /\ slice.active = e
  /\ \/ execution[e].result = 0 /\ slice.elig = "ELIGIBLE_PREEXECUTION_BOUND"
        /\ slice.head = 1 /\ slice.result = 0
        /\ worktree = e /\ branch = 2
        /\ Start(c, [NoCall EXCEPT !.pc = "finalize", !.exec = e, !.ver = slice.version,
                                 !.xver = execution[e].version])
     \/ execution[e].result # 0 /\ slice.elig # "ELIGIBLE_PREEXECUTION_BOUND"
        /\ Start(c, [NoCall EXCEPT !.pc = "verifying", !.exec = e])
  /\ UNCHANGED <<store, git>>

\* A running attempt is lost ...
LoseMaker(e) ==
  /\ Orphaned(e) /\ execution[e].attempt = "RUNNING"
  /\ execution' = [execution EXCEPT ![e].attempt = "FAILED"]
  /\ UNCHANGED <<slice, events, git, call>>

\* ... and an execution with a lost attempt, or with none at all, blocked.
BlockOrphan(e) ==
  /\ Orphaned(e) /\ execution[e].attempt \in {"NONE", "FAILED"}
  /\ MoveExecution(e, "BLOCKED")
  /\ UNCHANGED <<slice, events, git, call>>

-----------------------------------------------------------------------------
(* How an execution ends.  Both are transitions of the execution alone:    *)
(* the slice row goes on naming it, with whatever result it has.           *)

\* cancel, in any open state, a Maker at work or not.
CancelExecution(e) ==
  /\ execution[e].state \in OpenState
  /\ MoveExecution(e, "CANCELLED")
  /\ UNCHANGED <<slice, events, git, call>>

\* accept, or an escalation, after verification and evaluation.
Conclude(e) ==
  /\ execution[e].state = "VERIFYING"
  /\ MoveExecution(e, "ACCEPTED")
  /\ UNCHANGED <<slice, events, git, call>>

-----------------------------------------------------------------------------
Reconcile ==
  /\ slice.version < MaxVersion
  /\ ReconcileSlice(slice.version)
  /\ UNCHANGED <<git, call>>

CrashCall(c) ==
  /\ call[c].pc # "idle" /\ EndCall(c)
  /\ UNCHANGED <<store, git>>

BindingNext ==
  \/ Reconcile
  \/ \E e \in Execution : \/ AcquireLease(e) \/ LapseLease(e)
                           \/ LoseMaker(e) \/ BlockOrphan(e)
                           \/ CancelExecution(e) \/ Conclude(e)
  \/ \E c \in Caller :
       \/ \E e \in Execution : \/ StartBind(c, e) \/ StartRelease(c, e) \/ RetryRelease(c, e)
                                \/ StartMaker(c, e) \/ RecoverResult(c, e)
       \/ InspectGit(c) \/ MakeBranch(c) \/ AddWorktree(c) \/ Persist(c) \/ Compensate(c) \/ DeleteBranch(c)
       \/ ReleaseBinding(c) \/ Cleanup(c)
       \/ Launch(c) \/ RegisterAttempt(c) \/ CompleteMaker(c) \/ Commit(c) \/ Reject(c) \/ BlockMaker(c)
       \/ FinishAttempt(c) \/ Finalize(c) \/ Verifying(c)
       \/ CrashCall(c)

BindingSpec == BindingInit /\ [][BindingNext]_bindingVars

-----------------------------------------------------------------------------
(* Properties. *)

\* bind_deferred_execution "provision[s] and atomically persist[s]" a binding:
\* a bound execution has its worktree, and the branch stands at the head the
\* slice row records, save for a commit whose attempt is yet to be recorded.
BoundHasWorktree ==
  slice.active # NoExecution =>
    /\ worktree = slice.active
    /\ branch # slice.head =>
         /\ branch = 2 /\ execution[slice.active].attempt # "NONE"
         /\ execution[slice.active].result = 0

\* Slice row and execution row never tell two stories.  An execution that is
\* open or accepted is the active one of the slice.  The active one, which a
\* cancelled execution stays (test_prebind.py:891), is never a released one,
\* and the result is on both rows or on neither: on both once it is verified.
RowsAgree ==
  \A e \in Execution :
    /\ execution[e].state \in OpenState \cup {"ACCEPTED"} => slice.active = e
    /\ execution[e].state \in {"VERIFYING", "ACCEPTED"} => execution[e].result # 0
    /\ slice.active = e =>
         /\ execution[e].state # "ABSENT" /\ ~Released(e)
         /\ slice.result = execution[e].result
         /\ slice.elig = "ELIGIBLE_BOUND" <=> execution[e].result # 0

\* A release that races a Maker or a cancel: once an attempt exists, or the
\* execution has left READY, no call and no retry takes the slice from it.
KeepsSlice ==
  \A e \in Execution :
    slice.active = e /\ (execution[e].attempt # "NONE" \/ execution[e].state # "READY")
      => slice'.active = e

MakerKeepsSlice == [][KeepsSlice]_bindingVars

\* Compensation and cleanup, whatever crashed before them, remove only what
\* the controller created, never a branch or worktree made by a human.
RemovesOwn ==
  /\ "branch" \in foreign => branch' # 0
  /\ "worktree" \in foreign => worktree' = worktree

OwnArtifactsOnly == [][RemovesOwn]_bindingVars
=============================================================================
