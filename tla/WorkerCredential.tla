-------------------------- MODULE WorkerCredential --------------------------
(***************************************************************************)
(* The protected credential of the Cleaner worker.  Creating it writes     *)
(* PREPARED evidence, the secret file, EFFECT evidence that names the file *)
(* made, and FINAL evidence, each with O_EXCL and none ever replaced.  A   *)
(* creation that stopped is classified from these files alone; only one    *)
(* whose EFFECT names the file still there may be settled, by a second     *)
(* controlled deployment that adds the missing FINAL.                      *)
(*                                                                         *)
(* A file is known by its inode and times: a number that grows with every  *)
(* file put there.                                                         *)
(***************************************************************************)
EXTENDS Naturals, DeploymentLease

CONSTANTS
    CredentialId,  \* operation ids
    MaxFile        \* bound: files ever put at the secret's place

ASSUME FileAssumption == MaxFile \in Nat

\* The creation and the settlement of each operation id are one deployment each.
Role == {"create", "settle"}
Task == CredentialId \X Role

VARIABLES
    secret,    \* the file at the secret's place, 0 if none
    files,     \* files ever put there
    tampered,  \* somebody else has removed or replaced it
    proof,     \* evidence per operation id: PREPARED written, EFFECT and FINAL files
    job        \* the local state of each task

place == <<secret, files, tampered>>
credentialVars == <<hold, place, proof, job>>

Nothing == [prepared |-> FALSE, effect |-> 0, final |-> 0]

CredentialInit ==
    /\ HoldInit
    /\ secret = 0 /\ files = 0 /\ tampered = FALSE
    /\ proof = [o \in CredentialId |-> Nothing]
    /\ job = [t \in Task |-> [pc |-> "idle", file |-> 0]]

CredentialTypeOK ==
    /\ hold \in [holder : Task \cup {Nobody}, token : Nat, live : BOOLEAN]
    /\ secret \in 0..MaxFile /\ files \in 0..MaxFile /\ tampered \in BOOLEAN
    /\ proof \in [CredentialId ->
         [prepared : BOOLEAN, effect : 0..MaxFile, final : 0..MaxFile]]
    /\ job \in [Task ->
         [pc : {"idle", "acquire", "prepare", "secret", "effect", "recheck", "readback",
                "final", "release", "done"},
          file : 0..MaxFile]]

\* Mutant: any file is taken for the one EFFECT names.
StatusOfAnyFile(o) ==
    LET e == proof[o] IN
    CASE e.final # 0 -> IF e.effect = secret /\ e.final = secret THEN "FINAL_PASS" ELSE "MISMATCH"
      [] e.final = 0 /\ ~e.prepared ->
           IF secret = 0 /\ e.effect = 0 THEN "PRISTINE" ELSE "UNATTRIBUTED"
      [] e.final = 0 /\ e.prepared /\ secret = 0 -> "FILE_ABSENT"
      [] e.final = 0 /\ e.prepared /\ secret # 0 ->
           IF e.effect # 0 THEN "FINAL_MISSING" ELSE "NO_EFFECT_IDENTITY"

\* _read_credential_reconciliation.
Status(o) ==
    LET e == proof[o] IN
    CASE e.final # 0 -> IF e.effect = secret /\ e.final = secret THEN "FINAL_PASS" ELSE "MISMATCH"
      [] e.final = 0 /\ ~e.prepared ->
           IF secret = 0 /\ e.effect = 0 THEN "PRISTINE" ELSE "UNATTRIBUTED"
      [] e.final = 0 /\ e.prepared /\ secret = 0 -> "FILE_ABSENT"
      [] e.final = 0 /\ e.prepared /\ secret # 0 ->
           IF e.effect = secret THEN "FINAL_MISSING" ELSE "NO_EFFECT_IDENTITY"

\* A task returns or raises, and leaves the lease's context.
EndJob(t) == job' = [job EXCEPT ![t] = [pc |-> "done", file |-> 0]] /\ hold' = Left(t)

FailJob(t) == EndJob(t) /\ UNCHANGED <<place, proof>>

MoveJob(t, pc) == job' = [job EXCEPT ![t].pc = pc]

\* _create_worker_credential refuses all but a pristine state, a settlement
\* all but one whose FINAL is missing; neither acquires in vain.
BeginJob(t) ==
    /\ job[t].pc = "idle"
    /\ job' = [job EXCEPT ![t] =
         IF Status(t[1]) = IF t[2] = "create" THEN "PRISTINE" ELSE "FINAL_MISSING"
         THEN [pc |-> "acquire", file |-> IF t[2] = "create" THEN 0 ELSE secret]
         ELSE @]
    /\ job'[t].pc = "acquire"
    /\ UNCHANGED <<hold, place, proof>>

AcquireFor(t) ==
    /\ job[t].pc = "acquire"
    /\ Grant(t)
    /\ MoveJob(t, IF t[2] = "create" THEN "prepare" ELSE "recheck")
    /\ UNCHANGED <<place, proof>>

\* Under the lease no credential may exist; then PREPARED, with O_EXCL.
Prepare(t) ==
    /\ job[t].pc = "prepare"
    /\ \/ /\ Holds(t) /\ secret = 0 /\ ~proof[t[1]].prepared
          /\ proof' = [proof EXCEPT ![t[1]].prepared = TRUE]
          /\ MoveJob(t, "secret")
          /\ UNCHANGED <<hold, place>>
       \/ FailJob(t)

\* O_CREAT | O_EXCL.
Exclusive == secret = 0

\* The file is made after the last assertion: a lease lost between does not
\* stop it, O_EXCL does.
MakeSecret(t) ==
    /\ job[t].pc = "secret"
    /\ \/ /\ Exclusive /\ files < MaxFile
          /\ files' = files + 1 /\ secret' = files + 1
          /\ MoveJob(t, "effect")
          /\ UNCHANGED <<hold, tampered, proof>>
       \/ FailJob(t)

\* EFFECT records the metadata of the file found there.
RecordEffect(t) ==
    /\ job[t].pc = "effect"
    /\ \/ /\ secret # 0 /\ proof[t[1]].effect = 0
          /\ proof' = [proof EXCEPT ![t[1]].effect = secret]
          /\ job' = [job EXCEPT ![t] = [pc |-> "readback", file |-> secret]]
          /\ UNCHANGED <<hold, place>>
       \/ FailJob(t)

\* The settlement's effect: the evidence and file are as when it began.
StillMissing(t) == Status(t[1]) = "FINAL_MISSING" /\ secret = job[t].file

RecheckFile(t) ==
    /\ job[t].pc = "recheck"
    /\ \/ /\ Holds(t) /\ StillMissing(t)
          /\ MoveJob(t, "readback")
          /\ UNCHANGED <<hold, place, proof>>
       \/ FailJob(t)

\* The deployment's read-back must find the file, and the lease be current.
ConfirmFile(t) ==
    /\ job[t].pc = "readback"
    /\ \/ /\ Holds(t) /\ secret = job[t].file
          /\ t[2] = "settle" => Status(t[1]) = "FINAL_MISSING"
          /\ MoveJob(t, "final")
          /\ UNCHANGED <<hold, place, proof>>
       \/ FailJob(t)

RecordFinal(t) ==
    /\ job[t].pc = "final"
    /\ \/ /\ proof[t[1]].final = 0
          /\ proof' = [proof EXCEPT ![t[1]].final = job[t].file]
          /\ MoveJob(t, "release")
          /\ UNCHANGED <<hold, place>>
       \/ FailJob(t)

Finished(t) == job[t].pc = "release" /\ FailJob(t)

\* The process dies: its files stay, its lease until it expires.
CrashJob(t) ==
    /\ job[t].pc \notin {"idle", "done"}
    /\ job' = [job EXCEPT ![t] = [pc |-> "done", file |-> 0]]
    /\ UNCHANGED <<hold, place, proof>>

ExpireJob == Expire /\ UNCHANGED <<place, proof, job>>

\* Somebody removes the secret, or puts another file in its place.
Tamper ==
    /\ \/ secret # 0 /\ secret' = 0 /\ UNCHANGED files
       \/ files < MaxFile /\ files' = files + 1 /\ secret' = files + 1
    /\ tampered' = TRUE
    /\ UNCHANGED <<hold, proof, job>>

CredentialNext ==
    \/ \E t \in Task :
         \/ BeginJob(t) \/ AcquireFor(t) \/ Prepare(t) \/ MakeSecret(t) \/ RecordEffect(t)
         \/ RecheckFile(t) \/ ConfirmFile(t) \/ RecordFinal(t) \/ Finished(t) \/ CrashJob(t)
    \/ ExpireJob \/ Tamper

CredentialSpec == CredentialInit /\ [][CredentialNext]_credentialVars

\* The secret is made once, whatever is retried, crashes or loses its lease:
\* as long as nobody else touches the place, all creations together make one
\* file and one EFFECT.  And a FINAL, by the creation or by the settlement,
\* names the very file that the EFFECT of its operation id names.
EvidenceHolds ==
    /\ ~tampered =>
         /\ files <= 1
         /\ \A o, p \in CredentialId : proof[o].effect # 0 /\ proof[p].effect # 0 => o = p
    /\ \A o \in CredentialId : proof[o].final # 0 =>
         proof[o].prepared /\ proof[o].final = proof[o].effect
=============================================================================
