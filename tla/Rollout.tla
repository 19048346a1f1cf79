------------------------------ MODULE Rollout ------------------------------
(***************************************************************************)
(* How api and worker come up on the shared volume: who owns the files,    *)
(* the DDL both run on queue.db, the api's migration of a queue table from *)
(* before claim_id, and the worker's failures until that has happened.     *)
(* Either process may be deployed, killed or replaced at any step of the   *)
(* other; every statement below is a transaction of its own.               *)
(*                                                                         *)
(* The api runs as user app, the worker as root.  Docker gives an empty    *)
(* volume the ownership of the image's /data when a container with that    *)
(* directory is created; the api's image has it, the worker's has not.     *)
(***************************************************************************)
EXTENDS Naturals

VARIABLES
    dirOwner,     \* who owns the volume's directory
    queueOwner,   \* who owns queue.db; "nobody" when there is no file
    table,        \* queue: absent, old (no claim_id) or current
    index,        \* queue_unclaimed exists
    aggTables,    \* the tables of agg.db
    api,          \* where the api process is
    worker        \* where the worker process is

files == <<dirOwner, queueOwner, table, index, aggTables>>
vars == <<dirOwner, queueOwner, table, index, aggTables, api, worker>>

\* The order of the worker's DDL.
AggTable == {"page_minute", "site_minute", "page_current", "applied_batches"}
AggDdl == <<"page_minute", "site_minute", "page_current", "applied_batches">>

ApiStarting == {"open", "create", "columns", "alter", "index"}
WorkerStarting == {"open", "create", "index", "agg", "recover"}

-----------------------------------------------------------------------------
(* Docker and the operator. *)

VolumeIsEmpty == queueOwner = "nobody" /\ aggTables = {}

\* Creating a container of the api's image on an empty volume.
Populate == dirOwner' = IF VolumeIsEmpty THEN "app" ELSE dirOwner

Start == "open"

\* make deploy S=api: the old container is stopped before the new one starts.
DeployApi ==
    /\ Populate
    /\ api' = Start
    /\ UNCHANGED <<queueOwner, table, index, aggTables, worker>>

DeployWorker ==
    /\ worker' = Start
    /\ UNCHANGED <<files, api>>

\* make up: all containers are created, then those that do not run start.
MakeUp ==
    /\ Populate
    /\ api' = IF api \in {"none", "killed", "refused", "failed"} THEN Start ELSE api
    /\ worker' = IF worker \in {"none", "exited"} THEN Start ELSE worker
    /\ UNCHANGED <<queueOwner, table, index, aggTables>>

MakeDown ==
    /\ api' = "none"
    /\ worker' = "none"
    /\ UNCHANGED files

\* restart: unless-stopped, in the worker's fragment only.
Restart ==
    /\ worker = "exited"
    /\ worker' = Start
    /\ UNCHANGED <<files, api>>

Kill ==
    \/ /\ api \in ApiStarting \union {"up"}
       /\ api' = "killed"
       /\ UNCHANGED <<files, worker>>
    \/ /\ worker \in WorkerStarting \union {"up"}
       /\ worker' = "exited"
       /\ UNCHANGED <<files, api>>

-----------------------------------------------------------------------------
(* Statements that fail for no fault of the files: the other outcome of     *)
(* every step below.                                                       *)

\* An open that fails may have created queue.db first.
MayCreate(owner) ==
    queueOwner' = queueOwner \/ (queueOwner = "nobody" /\ queueOwner' = owner)

\* The database is busy for longer than SQLite waits, as while another process
\* switches a new file to WAL, or the disk is full.  The statement is rolled back
\* and its error ends the process, the api for good.
DatabaseError ==
    \/ /\ api \in ApiStarting
       /\ api' = "failed"
       /\ IF api = "open" /\ dirOwner = "app" THEN MayCreate("app")
          ELSE UNCHANGED queueOwner
       /\ UNCHANGED <<dirOwner, table, index, aggTables, worker>>
    \/ /\ worker \in WorkerStarting
       /\ worker' = "exited"
       /\ IF worker = "open" THEN MayCreate("root") ELSE UNCHANGED queueOwner
       /\ UNCHANGED <<dirOwner, table, index, aggTables, api>>

-----------------------------------------------------------------------------
(* The api: ctx_create, db_create.  SQLite opens a file it may not write    *)
(* read-only, and IF NOT EXISTS writes only when there is something to do. *)

\* The api's connection can write: it owns queue.db, or can create it.
Writable ==
    \/ queueOwner = "app"
    \/ queueOwner = "nobody" /\ dirOwner = "app"

\* OperationalError for the files' owner or columns ends the process, and
\* nothing restarts it.
Refuse ==
    /\ api' = "refused"
    /\ UNCHANGED <<files, worker>>

\* _open: connect and PRAGMA journal_mode=WAL.  A file of root's in a
\* directory of root's opens only while its -shm file is there, which the
\* worker creates and a clean close removes.
ApiOpen ==
    /\ api = "open"
    /\ \/ /\ Writable
          /\ queueOwner' = "app"
          /\ api' = "create"
          /\ UNCHANGED <<dirOwner, table, index, aggTables, worker>>
       \/ /\ queueOwner = "root"
          /\ api' = "create"
          /\ UNCHANGED <<files, worker>>
       \/ /\ ~Writable
          /\ dirOwner = "root"
          /\ Refuse

\* CREATE TABLE IF NOT EXISTS queue.
ApiCreate ==
    /\ api = "create"
    /\ \/ /\ table = "absent" /\ Writable
          /\ table' = "current"
          /\ api' = "columns"
          /\ UNCHANGED <<dirOwner, queueOwner, index, aggTables, worker>>
       \/ /\ table # "absent"
          /\ api' = "columns"
          /\ UNCHANGED <<files, worker>>
       \/ /\ table = "absent" /\ ~Writable
          /\ Refuse


\* _migrate_claim_id, first statement: PRAGMA table_info.
ApiColumns ==
    /\ api = "columns"
    /\ api' = IF table = "current" THEN "index" ELSE "alter"
    /\ UNCHANGED <<files, worker>>

\* ALTER TABLE queue ADD COLUMN claim_id; a column that is there already is
\* an error.
ApiAlter ==
    /\ api = "alter"
    /\ \/ /\ table = "old" /\ Writable
          /\ table' = "current"
          /\ api' = "index"
          /\ UNCHANGED <<dirOwner, queueOwner, index, aggTables, worker>>
       \/ /\ table # "old" \/ ~Writable
          /\ Refuse

\* CREATE INDEX IF NOT EXISTS queue_unclaimed; then the routes are served.
ApiIndex ==
    /\ api = "index"
    /\ \/ /\ index \/ (table = "current" /\ Writable)
          /\ index' = TRUE
          /\ api' = "up"
          /\ UNCHANGED <<dirOwner, queueOwner, table, aggTables, worker>>
       \/ /\ ~index /\ ~(table = "current" /\ Writable)
          /\ Refuse

\* check_health: the schema of the open connection names the queue table.
SchemaProbe == table # "absent"

\* GET /healthz, and with it the container's health.
Healthy == api = "up" /\ SchemaProbe

-----------------------------------------------------------------------------
(* The worker: main, queue.Open, aggregate.Open, loop.New.  Root may write *)
(* everything.                                                             *)

WorkerOpen ==
    /\ worker = "open"
    /\ queueOwner' = IF queueOwner = "nobody" THEN "root" ELSE queueOwner
    /\ worker' = "create"
    /\ UNCHANGED <<dirOwner, table, index, aggTables, api>>

WorkerCreate ==
    /\ worker = "create"
    /\ table' = IF table = "absent" THEN "current" ELSE table
    /\ worker' = "index"
    /\ UNCHANGED <<dirOwner, queueOwner, index, aggTables, api>>

\* Fault: the index is left to the api.
WorkerSkipsIndex ==
    /\ worker = "index"
    /\ worker' = "agg"
    /\ UNCHANGED <<files, api>>

\* Fault: the worker adds the column too.
WorkerMigrates ==
    /\ worker = "index"
    /\ table' = "current"
    /\ index' = TRUE
    /\ worker' = "agg"
    /\ UNCHANGED <<dirOwner, queueOwner, aggTables, api>>

\* Fault: instead of exiting, the worker waits for a column of its own accord.
WorkerWaits ==
    /\ worker = "index"
    /\ worker' = IF table = "old" THEN "columns" ELSE "agg"
    /\ index' = (table = "current")
    /\ UNCHANGED <<dirOwner, queueOwner, table, aggTables, api>>

\* The index names claim_id, and fails on an old table: fatal.
WorkerIndex ==
    /\ worker = "index"
    /\ \/ /\ table = "current"
          /\ index' = TRUE
          /\ worker' = "agg"
       \/ /\ table = "old"
          /\ worker' = "exited"
          /\ UNCHANGED index
    /\ UNCHANGED <<dirOwner, queueOwner, table, aggTables, api>>

\* The statements of aggregate.Open that have something to do.
Missing == {i \in DOMAIN AggDdl : AggDdl[i] \notin aggTables}

WorkerAgg ==
    /\ worker = "agg"
    /\ Missing # {}
    /\ \E i \in Missing :
           /\ \A j \in Missing : i <= j
           /\ aggTables' = aggTables \union {AggDdl[i]}
    /\ UNCHANGED <<dirOwner, queueOwner, table, index, api, worker>>

WorkerAggDone ==
    /\ worker = "agg"
    /\ Missing = {}
    /\ worker' = "recover"
    /\ UNCHANGED <<files, api>>

\* loop.New: reads claim_id and applied_batches; WorkerLoop has the details.
WorkerRecover ==
    /\ worker = "recover"
    /\ worker' = "up"
    /\ UNCHANGED <<files, api>>

-----------------------------------------------------------------------------

\* A new volume, which the daemon creates as root, or one that an api and a
\* worker from before claim_id, and from before site_minute, left behind.
Init ==
    /\ api = "none" /\ worker = "none"
    /\ index = FALSE
    /\ \/ /\ dirOwner = "root" /\ queueOwner = "nobody"
          /\ table = "absent" /\ aggTables = {}
       \/ /\ dirOwner = "app" /\ queueOwner = "app" /\ table = "old"
          /\ aggTables \in {{}, AggTable \ {"site_minute"}}

ApiStep == ApiOpen \/ ApiCreate \/ ApiColumns \/ ApiAlter \/ ApiIndex

WorkerStep ==
    \/ WorkerOpen \/ WorkerCreate \/ WorkerIndex
    \/ WorkerAgg \/ WorkerAggDone \/ WorkerRecover

Operator == DeployApi \/ DeployWorker \/ MakeUp \/ MakeDown

Next == Operator \/ Kill \/ Restart \/ ApiStep \/ WorkerStep \/ DatabaseError

\* A started process runs, and docker restarts the worker; an operator acts, a
\* process dies, and a statement fails, when it pleases.
Spec ==
    /\ Init /\ [][Next]_vars
    /\ WF_vars(ApiStep) /\ WF_vars(WorkerStep) /\ WF_vars(Restart)

-----------------------------------------------------------------------------
(* Properties. *)

TypeOK ==
    /\ dirOwner \in {"root", "app"}
    /\ queueOwner \in {"nobody", "root", "app"}
    /\ table \in {"absent", "old", "current"}
    /\ index \in BOOLEAN
    /\ aggTables \subseteq AggTable
    /\ api \in ApiStarting \union {"none", "killed", "refused", "failed", "up"}
    /\ worker \in WorkerStarting \union {"none", "exited", "up"}

\* What _migrate_claim_id read is still so when it alters the table, although
\* the worker creates tables on the same file between the two statements.
MigrationCheckHolds == api = "alter" => table = "old"

\* A process that serves has the whole schema under it, whatever the other
\* one was doing and however old the volume is: claim_id and its index, for
\* the worker all tables of agg.db, and /healthz of an api that is up says so.
ServingMeansSchema ==
    /\ api = "up" \/ worker \in {"agg", "recover", "up"} => table = "current" /\ index
    /\ api = "up" => Healthy
    /\ worker = "up" => aggTables = AggTable

Settled == <>[][~(Operator \/ Kill \/ DatabaseError)]_vars


\* Either process can start first on a fresh volume: the api comes up, and can
\* write.  A worker that opens queue.db first leaves it to root: the api is
\* refused, or is healthy and answers every event with an error.
EitherStartsFirst ==
    /\ api # "refused"
    /\ Healthy => Writable
-----------------------------------------------------------------------------
(* Why it holds: the inductive invariant that RolloutProofs proves.        *)

\* The index names claim_id.
IndexShape == index => table = "current"

\* What the api has behind it, wherever it is in db_create.
ApiShape ==
    /\ api \in {"columns", "alter", "index", "up"} => table # "absent"
    /\ api = "alter" => table = "old"
    /\ api = "up" => index

\* What the worker has behind it, wherever it is in main.
WorkerShape ==
    /\ worker = "index" => table # "absent"
    /\ worker \in {"agg", "recover", "up"} => index
    /\ worker \in {"recover", "up"} => aggTables = AggTable

IInv == TypeOK /\ IndexShape /\ ApiShape /\ WorkerShape

\* Neither process, nor a restart of it, undoes what one of them did to the
\* files: no table goes, no migration or index is taken back, and a file keeps
\* its owner.
FilesGrowStep ==
    /\ table # "absent" => table' # "absent"
    /\ table = "current" => table' = "current"
    /\ index => index'
    /\ aggTables \subseteq aggTables'
    /\ queueOwner # "nobody" => queueOwner' = queueOwner
FilesGrow == [][FilesGrowStep]_vars
=============================================================================
