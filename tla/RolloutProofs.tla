---------------------------- MODULE RolloutProofs ----------------------------
(***************************************************************************)
(* Machine-checked proofs about Rollout: what holds at every step of two   *)
(* processes that create and migrate the same files, and may be killed,    *)
(* stopped and deployed, or fail on a busy database, at any of them.       *)
(***************************************************************************)
EXTENDS Rollout, TLAPS

\* A fresh volume, and one from before claim_id, without a process.
LEMMA InitInv ==
    Init => IInv
BY DEF Init, IInv, TypeOK, IndexShape, ApiShape, WorkerShape, AggTable

\* Docker, the operator and a failing statement start and end processes; they
\* may change the owner of an empty volume, or leave an empty file behind.
LEMMA OperatorKeeps ==
    IInv /\ (Operator \/ Kill \/ DatabaseError \/ Restart) => IInv' /\ FilesGrowStep
<1> SUFFICES ASSUME IInv, Operator \/ Kill \/ DatabaseError \/ Restart
             PROVE  IInv' /\ FilesGrowStep
  OBVIOUS
<1> USE DEF IInv, TypeOK, IndexShape, ApiShape, WorkerShape, FilesGrowStep, files, Start,
            ApiStarting, WorkerStarting
<1>1. CASE DeployApi
  BY <1>1 DEF DeployApi, Populate
<1>2. CASE DeployWorker
  BY <1>2 DEF DeployWorker
<1>3. CASE MakeUp
  BY <1>3 DEF MakeUp, Populate
<1>4. CASE MakeDown
  BY <1>4 DEF MakeDown
<1>5. CASE Kill
  BY <1>5 DEF Kill
<1>6. CASE Restart
  BY <1>6 DEF Restart
<1>7. CASE DatabaseError
  BY <1>7 DEF DatabaseError, MayCreate
<1> QED
  BY <1>1, <1>2, <1>3, <1>4, <1>5, <1>6, <1>7 DEF Operator

\* A statement of the api's leaves the worker what it relies on.
LEMMA ApiKeeps ==
    IInv /\ ApiStep => IInv' /\ FilesGrowStep
<1> SUFFICES ASSUME IInv, ApiStep PROVE IInv' /\ FilesGrowStep
  OBVIOUS
<1> USE DEF IInv, TypeOK, IndexShape, ApiShape, WorkerShape, FilesGrowStep, files, Refuse,
            ApiStarting, WorkerStarting
<1>1. CASE ApiOpen
  BY <1>1 DEF ApiOpen, Writable
<1>2. CASE ApiCreate
  BY <1>2 DEF ApiCreate
<1>3. CASE ApiColumns
  BY <1>3 DEF ApiColumns
<1>4. CASE ApiAlter
  BY <1>4 DEF ApiAlter
<1>5. CASE ApiIndex
  <2>1. CASE api' = "refused"
    BY <1>5, <2>1 DEF ApiIndex
  <2>2. CASE api' = "up"
    <3>1. index' = TRUE /\ table' = "current"
      BY <1>5, <2>2 DEF ApiIndex
    <3>2. UNCHANGED <<dirOwner, queueOwner, aggTables, worker>>
      BY <1>5, <2>2 DEF ApiIndex
    <3> QED
      BY <2>2, <3>1, <3>2
  <2> QED
    BY <1>5, <2>1, <2>2 DEF ApiIndex
<1> QED
  BY <1>1, <1>2, <1>3, <1>4, <1>5 DEF ApiStep

\* When no statement of aggregate.Open has anything left to do, every table
\* of agg.db is there.
LEMMA NothingMissing ==
    ASSUME Missing = {}
    PROVE  AggTable \subseteq aggTables
<1>1. DOMAIN AggDdl = 1..4
  BY DEF AggDdl
<1>2. \A i \in 1..4 : AggDdl[i] \in aggTables
  BY <1>1 DEF Missing
<1>3. /\ AggDdl[1] = "page_minute" /\ AggDdl[2] = "site_minute"
      /\ AggDdl[3] = "page_current" /\ AggDdl[4] = "applied_batches"
  BY DEF AggDdl
<1> QED
  BY <1>2, <1>3 DEF AggTable

\* A statement of the worker's leaves the api what it relies on; above all, the
\* table the api found old stays so until the api alters it.
LEMMA WorkerKeeps ==
    IInv /\ WorkerStep => IInv' /\ FilesGrowStep
<1> SUFFICES ASSUME IInv, WorkerStep PROVE IInv' /\ FilesGrowStep
  OBVIOUS
<1> USE DEF IInv, TypeOK, IndexShape, ApiShape, WorkerShape, FilesGrowStep, files,
            ApiStarting, WorkerStarting
<1>1. CASE WorkerOpen
  BY <1>1 DEF WorkerOpen
<1>2. CASE WorkerCreate
  BY <1>2 DEF WorkerCreate
<1>3. CASE WorkerIndex
  <2>1. CASE worker' = "exited"
    BY <1>3, <2>1 DEF WorkerIndex
  <2>2. CASE worker' = "agg"
    <3>1. index' = TRUE /\ table = "current" /\ table' = "current"
      BY <1>3, <2>2 DEF WorkerIndex
    <3>2. UNCHANGED <<dirOwner, queueOwner, aggTables, api>>
      BY <1>3 DEF WorkerIndex
    <3> QED
      BY <2>2, <3>1, <3>2
  <2> QED
    BY <1>3, <2>1, <2>2 DEF WorkerIndex
<1>4. CASE WorkerAgg
  <2>1. PICK i \in Missing : aggTables' = aggTables \union {AggDdl[i]}
    BY <1>4 DEF WorkerAgg
  <2>2. AggDdl[i] \in AggTable
    <3>1. DOMAIN AggDdl = 1..4
      BY DEF AggDdl
    <3>2. i \in 1..4
      BY <2>1, <3>1 DEF Missing
    <3> QED
      BY <3>2 DEF AggDdl, AggTable
  <2> QED
    BY <1>4, <2>1, <2>2 DEF WorkerAgg
<1>5. CASE WorkerAggDone
  BY <1>5, NothingMissing DEF WorkerAggDone
<1>6. CASE WorkerRecover
  BY <1>6 DEF WorkerRecover
<1> QED
  BY <1>1, <1>2, <1>3, <1>4, <1>5, <1>6 DEF WorkerStep

\* Every step keeps the invariant, and what the files hold.
LEMMA StepInv ==
    IInv /\ [Next]_vars => IInv' /\ [FilesGrowStep]_vars
<1>1. ASSUME IInv, UNCHANGED vars PROVE IInv'
  BY <1>1 DEF vars, IInv, TypeOK, IndexShape, ApiShape, WorkerShape
<1> QED
  BY <1>1, OperatorKeeps, ApiKeeps, WorkerKeeps DEF Next

\* The invariant holds throughout.
THEOREM Inductive == Spec => []IInv
<1>1. IInv /\ [Next]_vars => IInv'
  BY StepInv
<1> QED
  BY <1>1, InitInv, PTL DEF Spec

\* Owners, tables and process states stay in their domains.
THEOREM TypeCorrect == Spec => []TypeOK
<1>1. IInv => TypeOK
  BY DEF IInv
<1> QED
  BY <1>1, Inductive, PTL

\* What the migration read is still so when it alters the table, although it
\* reads and alters in two transactions.
THEOREM CheckHolds == Spec => []MigrationCheckHolds
<1>1. IInv => MigrationCheckHolds
  BY DEF IInv, ApiShape, MigrationCheckHolds
<1> QED
  BY <1>1, Inductive, PTL

\* A process that serves has the whole schema under it.
THEOREM SchemaIsThere == Spec => []ServingMeansSchema
<1>1. IInv => ServingMeansSchema
  BY DEF IInv, IndexShape, ApiShape, WorkerShape, ServingMeansSchema, Healthy, SchemaProbe
<1> QED
  BY <1>1, Inductive, PTL

\* No step of either process, and no restart, takes back what was done to the
\* files.
THEOREM FilesOnlyGrow == Spec => FilesGrow
<1>1. IInv /\ [Next]_vars => [FilesGrowStep]_vars
  BY StepInv
<1> QED
  BY <1>1, Inductive, PTL DEF Spec, FilesGrow
=============================================================================
