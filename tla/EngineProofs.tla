---------------------------- MODULE EngineProofs ----------------------------
(***************************************************************************)
(* The safety properties of Engine, for any number of one-shot processes,  *)
(* any items and any bound on crashes.                                     *)
(***************************************************************************)
EXTENDS EngineProps, FiniteSetTheorems, TLAPS

\* A process that writes has an outcome to write, and renames what it has synced.
WriterReady ==
    \A p \in Procs :
        /\ pc[p] \in Writing => outcome[p] # "none"
        /\ pc[p] = "rename" => temp[p] = "synced"

\* What the directory may fall back to after a power loss is whole as well.
FilesWhole ==
    \A f \in {status, settled} : f # NoFile => f.data = "synced" /\ f.outcome # "none"

\* The inductive invariant: an unsynced file is never published, so a power
\* loss has nothing to tear, whichever of the two names survives it.
IInv == TypeOK /\ WriterReady /\ FilesWhole /\ OutcomeRecorded

\* The processes that hold a temporary file can be counted.
LEMMA HeldIsFinite ==
    ASSUME NEW S \in SUBSET Procs
    PROVE  Cardinality(S) \in Nat
<1>1. IsFiniteSet(Procs)
  BY EngineAssumption, FS_AddElement, FS_Singleton, FS_Union DEF Procs
<1>2. QED
  BY <1>1, FS_Subset, FS_CardinalityType

LEMMA EngineInit == Init => IInv
<1> SUFFICES ASSUME Init PROVE IInv
  OBVIOUS
<1> USE DEF Init, Outcomes, Writing, Sweeping
<1>1. TypeOK
  BY DEF TypeOK
<1>2. WriterReady /\ FilesWhole
  BY DEF WriterReady, FilesWhole
<1>3. OutcomeRecorded
  BY DEF OutcomeRecorded
<1>4. QED
  BY <1>1, <1>2, <1>3 DEF IInv

\* A sweep's steps up to its outcome touch no file.
LEMMA SweepSteps ==
    ASSUME IInv, NEW p \in Procs, Begin(p) \/ RunOnce(p)
    PROVE  IInv'
<1> USE DEF IInv, Outcomes, Writing, Sweeping
<1> USE DEF vars, loopVars, sweepVars, fileVars, envVars, histVars, Goto, RunOnce
<1>1. TypeOK'
  <2>1. CASE Begin(p)
    BY <2>1 DEF TypeOK, Begin
  <2>2. CASE ListUsers(p) \/ Collect(p)
    BY <2>2 DEF TypeOK, ListUsers, Collect
  <2>3. CASE UsersFail(p) \/ CollectFails(p) \/ RunPass(p)
    BY <2>3 DEF TypeOK, UsersFail, CollectFails, RunPass
  <2>4. QED
    BY <2>1, <2>2, <2>3
<1>2. WriterReady'
  BY DEF TypeOK, WriterReady, Begin, ListUsers, UsersFail, Collect, CollectFails, RunPass
<1>3. FilesWhole'
  BY DEF FilesWhole, Begin, ListUsers, UsersFail, Collect, CollectFails, RunPass
<1>4. OutcomeRecorded'
  BY DEF TypeOK, OutcomeRecorded, Begin, ListUsers, UsersFail, Collect, CollectFails, RunPass
<1>5. QED
  BY <1>1, <1>2, <1>3, <1>4

\* status.Write, and the failure of any of its steps.
LEMMA WriteSteps ==
    ASSUME IInv, NEW p \in Procs, WriteStatus(p)
    PROVE  IInv'
<1> USE DEF IInv, Outcomes, Writing, Sweeping
<1> USE DEF vars, loopVars, sweepVars, fileVars, envVars, histVars, Goto, Return, TempStep
<1>1. CASE CreateTemp(p) \/ WriteTemp(p) \/ SyncTemp(p)
  <2>1. TypeOK'
    BY <1>1 DEF TypeOK, CreateTemp, WriteTemp, SyncTemp
  <2>2. WriterReady'
    BY <1>1 DEF TypeOK, WriterReady, CreateTemp, WriteTemp, SyncTemp
  <2>3. OutcomeRecorded'
    BY <1>1 DEF TypeOK, OutcomeRecorded, CreateTemp, WriteTemp, SyncTemp
  <2>4. FilesWhole'
    BY <1>1 DEF FilesWhole, CreateTemp, WriteTemp, SyncTemp
  <2>5. QED
    BY <2>1, <2>2, <2>3, <2>4
<1>2. CASE Publish(p)
  <2>1. temp[p] = "synced" /\ outcome[p] \in Outcomes \ {"none"}
    BY <1>2 DEF TypeOK, WriterReady, Publish
  <2>2. status' = [outcome |-> outcome[p], data |-> "synced"] /\ settled' = settled
    BY <1>2, <2>1 DEF Publish
  <2>3. status' \in Contents
    BY <2>1, <2>2 DEF Contents
  <2>4. TypeOK'
    BY <1>2, <2>2, <2>3 DEF TypeOK, Publish
  <2>5. FilesWhole'
    BY <2>1, <2>2 DEF FilesWhole
  <2>6. WriterReady' /\ OutcomeRecorded'
    BY <1>2 DEF TypeOK, WriterReady, OutcomeRecorded, Publish
  <2>7. QED
    BY <2>4, <2>5, <2>6
<1>3. CASE WriteFails(p)
  <2>1. TypeOK'
    BY <1>3 DEF TypeOK, WriteFails
  <2>2. WriterReady' /\ OutcomeRecorded'
    BY <1>3 DEF TypeOK, WriterReady, OutcomeRecorded, WriteFails
  <2>3. FilesWhole'
    BY <1>3 DEF FilesWhole, WriteFails
  <2>4. QED
    BY <2>1, <2>2, <2>3
<1>4. QED
  BY <1>1, <1>2, <1>3 DEF WriteStatus

\* The daemon's loop and its tickers only send it back into a sweep.
LEMMA LoopSteps ==
    ASSUME IInv, Loop \/ \E ticker \in Tickers : Tick(ticker)
    PROVE  IInv'
<1> USE DEF IInv, Writing, Sweeping, Tickers
<1> USE DEF vars, loopVars, sweepVars, fileVars, envVars, histVars, Goto, Select, Loop
<1>0. Daemon \in Procs
  BY DEF Procs
<1>1. TypeOK'
  BY <1>0 DEF TypeOK, SweepTick, PollFails, Poll, Stop, Tick
<1>2. WriterReady'
  BY <1>0 DEF TypeOK, WriterReady, SweepTick, PollFails, Poll, Stop, Tick
<1>3. OutcomeRecorded'
  BY <1>0 DEF TypeOK, OutcomeRecorded, SweepTick, PollFails, Poll, Stop, Tick
<1>4. FilesWhole'
  BY DEF FilesWhole, SweepTick, PollFails, Poll, Stop, Tick
<1>5. QED
  BY <1>1, <1>2, <1>3, <1>4

\* A process that dies has nothing more to write, and has recorded nothing.
LEMMA KillStep ==
    ASSUME IInv, NEW p \in Procs, Kill(p)
    PROVE  IInv'
<1> USE DEF IInv, Writing, Sweeping, Outcomes
<1> USE DEF vars, loopVars, sweepVars, fileVars, envVars, histVars, Goto, Kill
<1>1. TypeOK'
  BY DEF TypeOK
<1>2. WriterReady' /\ OutcomeRecorded'
  BY DEF TypeOK, WriterReady, OutcomeRecorded
<1>3. FilesWhole'
  BY DEF FilesWhole
<1>4. QED
  BY <1>1, <1>2, <1>3

\* A power loss finds only whole files under the name, so it cannot tear one.
LEMMA PowerLossStep ==
    ASSUME IInv, PowerLoss
    PROVE  IInv'
<1> DEFINE held == {p \in Procs : temp[p] # "none"}
<1> USE DEF IInv, Writing, Sweeping, Outcomes
<1> USE DEF vars, loopVars, sweepVars, fileVars, envVars, histVars
<1>1. Cardinality(held) \in Nat
  BY HeldIsFinite
<1>2. status' \in {status, settled} /\ settled' = status'
  BY DEF FilesWhole, PowerLoss
<1>3. crashes' \in Nat
  BY <1>1 DEF TypeOK, PowerLoss
<1>4. FilesWhole'
  BY <1>2 DEF FilesWhole
<1>5. TypeOK'
  BY <1>2, <1>3 DEF TypeOK, PowerLoss
<1>6. WriterReady' /\ OutcomeRecorded'
  BY DEF WriterReady, OutcomeRecorded, PowerLoss
<1>7. QED
  BY <1>4, <1>5, <1>6

\* The environment's other steps touch no process and no name.
LEMMA QuietSteps ==
    ASSUME IInv, PlayingChanges \/ Signal \/ Flush \/ Quieten \/ UNCHANGED vars
    PROVE  IInv'
<1> USE DEF IInv
<1> USE DEF vars, loopVars, sweepVars, fileVars, envVars, histVars
<1>1. TypeOK'
  BY DEF TypeOK, PlayingChanges, Signal, Flush, Quieten
<1>2. FilesWhole'
  BY DEF FilesWhole, PlayingChanges, Signal, Flush, Quieten
<1>3. WriterReady' /\ OutcomeRecorded'
  BY DEF WriterReady, OutcomeRecorded, PlayingChanges, Signal, Flush, Quieten
<1>4. QED
  BY <1>1, <1>2, <1>3

\* Every step keeps the invariant, whichever process takes it.
THEOREM EngineInvariant == Spec => []IInv
<1>1. IInv /\ [Next]_vars => IInv'
  <2> SUFFICES ASSUME IInv, [Next]_vars PROVE IInv'
    OBVIOUS
  <2>1. CASE \E p \in Procs : Begin(p) \/ RunOnce(p) \/ WriteStatus(p)
    BY <2>1, SweepSteps, WriteSteps
  <2>2. CASE Loop \/ \E ticker \in Tickers : Tick(ticker)
    BY <2>2, LoopSteps
  <2>3. CASE Environment
    BY <2>3, KillStep, PowerLossStep, QuietSteps DEF Environment
  <2>4. CASE UNCHANGED vars
    BY <2>4, QuietSteps
  <2>5. QED
    BY <2>1, <2>2, <2>3, <2>4 DEF Next
<1>2. QED
  BY EngineInit, <1>1, PTL DEF Spec

\* Type correctness of the processes and the status file.
THEOREM TypeCorrect == Spec => []TypeOK
<1>1. IInv => TypeOK
  BY DEF IInv
<1>2. QED
  BY EngineInvariant, <1>1, PTL

\* status.Write's promise: whatever crashes, and however many processes write at
\* once, status_path names a whole document with an outcome in it.
THEOREM StatusIsNeverTorn == Spec => []StatusNeverTorn
<1>1. IInv => StatusNeverTorn
  BY DEF IInv, FilesWhole, StatusNeverTorn
<1>2. QED
  BY EngineInvariant, <1>1, PTL

\* SweepWithUsers' promise: no sweep ends without its outcome recorded, unless
\* the write itself failed.
THEOREM OutcomesAreRecorded == Spec => []OutcomeRecorded
<1>1. IInv => OutcomeRecorded
  BY DEF IInv
<1>2. QED
  BY EngineInvariant, <1>1, PTL
=============================================================================
