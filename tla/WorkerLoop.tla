----------------------------- MODULE WorkerLoop -----------------------------
(***************************************************************************)
(* The worker's claim -> fold -> ack cycle over queue.db and agg.db, the   *)
(* api's INSERTs that race with it, and the startup recovery that resolves *)
(* what a dead worker left behind.  The two databases are separate files:  *)
(* no transaction spans them, so a crash can fall between any two of the   *)
(* steps below.  Every step is one SQLite transaction, and the databases   *)
(* survive the process; pc, next, batch and todo are its memory and do not.*)
(*                                                                         *)
(* An event is named by the order in which its INSERT commits; a queue row *)
(* is the event it carries, with the rowid and the claim_id SQLite holds   *)
(* for it.  What a fold does to the buckets is not this module's subject:  *)
(* folds counts how often each event went into a committed fold.           *)
(***************************************************************************)
EXTENDS FiniteSetsExt

CONSTANTS
    MaxEvents,    \* bound: how many events ever arrive
    Limit,        \* BATCH_LIMIT, 2000 by default
    KeepBatches   \* keepBatches, 1000 in the code

ASSUME MaxEventsAssumption == MaxEvents \in Nat
ASSUME LimitAssumption == Limit \in Nat \ {0}
ASSUME KeepBatchesAssumption == KeepBatches \in Nat \ {0}

VARIABLES
    arrived,      \* events INSERTed so far
    rowid,        \* queue.id of the event's row; NoRow when it has none
    claim,        \* queue.claim_id of the event's row; Unclaimed is NULL
    applied,      \* the batch ids in applied_batches
    folds,        \* how often each event was folded into the aggregates
    pc,           \* where the worker process is
    next,         \* Loop.next, the batch id of the next claim
    batch,        \* the events Tick's Claim returned
    todo          \* the claim ids recover() has still to resolve

queueDb == <<arrived, rowid, claim>>
aggDb == <<applied, folds>>
memory == <<pc, next, batch, todo>>
vars == <<arrived, rowid, claim, applied, folds, pc, next, batch, todo>>

-----------------------------------------------------------------------------
(* The two databases. *)

Event == 1..MaxEvents

NoRow == 0
Unclaimed == 0

Rows == {e \in Event : rowid[e] # NoRow}
UnclaimedRows == {e \in Rows : claim[e] = Unclaimed}
ClaimedRows == {e \in Rows : claim[e] # Unclaimed}
RowsOfAnyClaim(id) == Rows   \* fault: the WHERE clause is lost
RowsOf(id) == {e \in Rows : claim[e] = id}
ClaimIdsAndNull == {claim[e] : e \in Rows}   \* fault: no IS NOT NULL
ClaimIds == {claim[e] : e \in ClaimedRows}

\* id INTEGER PRIMARY KEY without AUTOINCREMENT: one more than the largest
\* id in the table, so ids are used again once the table has been drained.
NextRowid == IF Rows = {} THEN 1 ELSE Max({rowid[e] : e \in Rows}) + 1

\* Fault: ORDER BY id DESC.
Newest(S, n) == {e \in S : Cardinality({f \in S : rowid[f] > rowid[e]}) < n}

\* ORDER BY id LIMIT n over the rows S.
Oldest(S, n) == {e \in S : Cardinality({f \in S : rowid[f] < rowid[e]}) < n}

\* COALESCE(MAX(batch_id), 0).
LastBatchID == IF applied = {} THEN 0 ELSE Max(applied)

\* The processes that have neither died nor been stopped.
Running == pc \notin {"stopped", "exited"}

\* A process that has just begun knows nothing of the one before it.
FreshMemory == next' = 0 /\ batch' = {} /\ todo' = {}

-----------------------------------------------------------------------------
(* The producer and the platform. *)

\* POST /events: one autocommitted INSERT with claim_id left NULL.
Enqueue ==
    /\ arrived < MaxEvents
    /\ arrived' = arrived + 1
    /\ rowid' = [rowid EXCEPT ![arrived + 1] = NextRowid]
    /\ claim' = [claim EXCEPT ![arrived + 1] = Unclaimed]
    /\ UNCHANGED <<applied, folds, pc, next, batch, todo>>

\* make up: an operator starts the container; main opens the databases.
Deploy ==
    /\ pc = "stopped"
    /\ pc' = "starting"
    /\ UNCHANGED <<queueDb, aggDb, next, batch, todo>>

\* Fault: the fragment has no restart policy, like the api's.
NoRestart == FALSE /\ UNCHANGED vars

\* restart: unless-stopped.
Restart ==
    /\ pc = "exited"
    /\ pc' = "starting"
    /\ UNCHANGED <<queueDb, aggDb, next, batch, todo>>

\* The process ends by itself: a step returned an error and main calls
\* fatal, the HTTP server could not listen, or the process was killed.
Fail ==
    /\ Running
    /\ pc' = "exited"
    /\ FreshMemory
    /\ UNCHANGED <<queueDb, aggDb>>

\* make down: SIGTERM ends Run between two ticks (and New anywhere, the
\* handler is installed after it); after the grace period SIGKILL ends any step.
Stop ==
    /\ pc # "stopped"
    /\ pc' = "stopped"
    /\ FreshMemory
    /\ UNCHANGED <<queueDb, aggDb>>

-----------------------------------------------------------------------------
(* loop.New: recovery, then the position of the batch-id sequence. *)

\* The claim ids a previous process left behind.
InFlight ==
    /\ pc = "starting"
    /\ pc' = "recovering"
    /\ todo' = ClaimIds
    /\ UNCHANGED <<queueDb, aggDb, next, batch>>

DeleteRows(S) ==
    /\ rowid' = [e \in Event |-> IF e \in S THEN NoRow ELSE rowid[e]]
    /\ claim' = [e \in Event |-> IF e \in S THEN Unclaimed ELSE claim[e]]

Unclaim(id) ==
    /\ claim' = [e \in Event |-> IF e \in RowsOf(id) THEN Unclaimed ELSE claim[e]]
    /\ UNCHANGED rowid

\* Fault: every batch left behind is taken for unfolded.
ResolveByUnclaim(id) ==
    /\ pc = "recovering"
    /\ id \in todo
    /\ Unclaim(id)
    /\ todo' = todo \ {id}
    /\ UNCHANGED <<arrived, aggDb, pc, next, batch>>

\* Fault: every batch left behind is taken for folded.
ResolveByAck(id) ==
    /\ pc = "recovering"
    /\ id \in todo
    /\ DeleteRows(RowsOf(id))
    /\ todo' = todo \ {id}
    /\ UNCHANGED <<arrived, aggDb, pc, next, batch>>

\* Fault: a batch that was not folded keeps its claim.
ResolveAppliedOnly(id) ==
    /\ pc = "recovering"
    /\ id \in todo
    /\ \/ id \in applied /\ DeleteRows(RowsOf(id))
       \/ id \notin applied /\ UNCHANGED <<rowid, claim>>
    /\ todo' = todo \ {id}
    /\ UNCHANGED <<arrived, aggDb, pc, next, batch>>

\* One iteration of recover's loop: a folded batch is acked, any other is
\* returned to the unclaimed pool.
Resolve(id) ==
    /\ pc = "recovering"
    /\ id \in todo
    /\ \/ id \in applied /\ DeleteRows(RowsOf(id))
       \/ id \notin applied /\ Unclaim(id)
    /\ todo' = todo \ {id}
    /\ UNCHANGED <<arrived, aggDb, pc, next, batch>>

\* Fault: the sequence resumes at the last applied batch, not after it.
PositionAtLast ==
    /\ pc = "recovering"
    /\ todo = {}
    /\ next' = LastBatchID
    /\ pc' = "idle"
    /\ UNCHANGED <<queueDb, aggDb, batch, todo>>

\* Fault: ticking starts before recovery is done.
PositionEarly ==
    /\ pc = "recovering"
    /\ next' = LastBatchID + 1
    /\ pc' = "idle"
    /\ UNCHANGED <<queueDb, aggDb, batch, todo>>

\* One past the last applied batch.
Position ==
    /\ pc = "recovering"
    /\ todo = {}
    /\ next' = LastBatchID + 1
    /\ pc' = "idle"
    /\ UNCHANGED <<queueDb, aggDb, batch, todo>>

-----------------------------------------------------------------------------
(* loop.Tick.  A tick that finds nothing to claim changes nothing here. *)

Claim ==
    /\ pc = "idle"
    /\ UnclaimedRows # {}
    /\ batch' = Oldest(UnclaimedRows, Limit)
    /\ claim' = [e \in Event |-> IF e \in batch' THEN next ELSE claim[e]]
    /\ pc' = "claimed"
    /\ UNCHANGED <<arrived, rowid, aggDb, next, todo>>

\* Fault: the pruning is off by one.
MarkedThenPruned(id) == {b \in applied \union {id} : b + KeepBatches > id + 1}

\* applied_batches after the marker of batch id and the pruning that follows.
Marked(id) == {b \in applied \union {id} : b + KeepBatches > id}

\* Buckets, marker and pruning commit together; a marker that is there
\* already violates the primary key, and the tick fails.
Apply ==
    /\ pc = "claimed"
    /\ next \notin applied
    /\ applied' = Marked(next)
    /\ folds' = [e \in Event |-> IF e \in batch THEN folds[e] + 1 ELSE folds[e]]
    /\ pc' = "applied"
    /\ UNCHANGED <<queueDb, next, batch, todo>>

Ack ==
    /\ pc = "applied"
    /\ DeleteRows(RowsOf(next))
    /\ next' = next + 1
    /\ batch' = {}
    /\ pc' = "idle"
    /\ UNCHANGED <<arrived, aggDb, todo>>

-----------------------------------------------------------------------------

\* A volume on which neither process has run.
Init ==
    /\ arrived = 0
    /\ rowid = [e \in Event |-> NoRow]
    /\ claim = [e \in Event |-> Unclaimed]
    /\ applied = {}
    /\ folds = [e \in Event |-> 0]
    /\ pc = "stopped"
    /\ next = 0
    /\ batch = {}
    /\ todo = {}

\* What the worker's own goroutine does when nothing goes wrong.
WorkerStep ==
    \/ InFlight
    \/ \E id \in todo : Resolve(id)
    \/ Position
    \/ Claim
    \/ Apply
    \/ Ack

Next == Enqueue \/ Deploy \/ Restart \/ Fail \/ Stop \/ WorkerStep

Spec == Init /\ [][Next]_vars

\* The ticker and the Go scheduler keep a live worker moving, and docker
\* restarts one that exited.  Nobody is obliged to send events, to deploy,
\* to stop or to fail.
FairSpec == Spec /\ WF_vars(WorkerStep) /\ WF_vars(Restart)

-----------------------------------------------------------------------------
(* Properties. *)

\* Each variable keeps to the values its column or Go type can hold; a claim
\* id in memory is an int64, which a NULL could not be scanned into.
TypeOK ==
    /\ arrived \in 0..MaxEvents
    /\ rowid \in [Event -> Nat]
    /\ claim \in [Event -> Nat]
    /\ applied \subseteq Nat
    /\ folds \in [Event -> Nat]
    /\ pc \in {"stopped", "exited", "starting", "recovering", "idle", "claimed", "applied"}
    /\ next \in Nat
    /\ batch \subseteq Event
    /\ todo \subseteq Nat \ {Unclaimed}

\* However often the worker dies between claim, fold and ack, the aggregates
\* hold a prefix of the arrivals: nothing twice, nothing skipped, nothing
\* overtaken.
CountedInOrder ==
    \E m \in 0..arrived : folds = [e \in Event |-> IF e <= m THEN 1 ELSE 0]

\* An accepted event that no fold contains still has its queue row: neither
\* Ack nor the reuse of rowids and batch ids ever deletes an unfolded row.
NothingLost == \A e \in 1..arrived : folds[e] = 0 => e \in Rows

\* A row that was folded is on its way out: it carries the claim of an
\* applied batch, so no later Claim can pick it up.
FoldedRowsAreMarked == \A e \in Rows : folds[e] > 0 => claim[e] \in applied

\* The claimed rows are at most one batch, so the depth the worker reports
\* and the depth the api reports differ by at most Limit.
AtMostOneInFlight ==
    /\ Cardinality(ClaimIds) <= 1
    /\ Cardinality(ClaimedRows) <= Limit

\* Pruning and restarts never make two batches share an id: the marker of
\* the batch about to be folded is not there yet, and a claim that has
\* fallen behind the last marker still finds its own.
MarkerFresh ==
    /\ pc = "claimed" => next \notin applied
    /\ \A id \in ClaimIds : id <= LastBatchID => id \in applied

\* What Ack deletes, by claim id, is what Claim returned into memory.
AckDeletesTheBatch == pc \in {"claimed", "applied"} => RowsOf(next) = batch

\* A row leaves the queue only after its event was folded, and goes back to
\* the unclaimed pool only if it was not.
RecoverySoundStep ==
    \A e \in Rows :
        /\ rowid'[e] = NoRow => folds[e] = 1
        /\ (claim[e] # Unclaimed /\ rowid'[e] # NoRow /\ claim'[e] = Unclaimed)
               => folds[e] = 0
RecoverySound == [][RecoverySoundStep]_vars

\* The worker implements the ledger: seen through arrived and folds, all its
\* steps are arrivals, whole batches folded in order, or nothing.
Ledger == INSTANCE EventLedger
LedgerSpec == Ledger!Spec

\* If the operator leaves the worker running and it stops failing at last,
\* every event that arrived is folded, whatever was in flight before.
Settled == <>[](pc # "stopped") /\ <>[][~Fail]_vars
BacklogDrains == Settled => \A e \in Event : (arrived >= e) ~> (folds[e] = 1)
-----------------------------------------------------------------------------
(* Why it holds: the inductive invariant. *)

\* The events up to lo have left the queue, those up to m are folded, those
\* up to k are claimed, and last is the newest batch that was applied.
\* A claimed batch is either all folded or not folded at all.
Cut(lo, m, k) ==
    /\ lo <= k /\ k - lo <= Limit
    /\ m = lo \/ m = k

FoldShape(m) == \A e \in Event : folds[e] = IF e <= m THEN 1 ELSE 0

\* The rows are a run of the arrivals, and ids grow along it.
QueueShape(lo) ==
    /\ \A e \in Event : rowid[e] # NoRow <=> lo < e /\ e <= arrived
    /\ \A e, f \in Event : lo < e /\ e < f /\ f <= arrived => rowid[e] < rowid[f]

\* The oldest rows carry the claim of the last applied batch, whose marker is
\* then there, or of the batch after it.
ClaimShape(lo, m, k, last) ==
    /\ \A e \in Event : k < e => claim[e] = Unclaimed
    /\ \A e \in Event : lo < e /\ e <= k =>
           claim[e] = IF m = lo THEN last + 1 ELSE last
    /\ lo < m => last \in applied

MarkerShape(last) ==
    /\ \A b \in applied : 0 < b /\ b <= last
    /\ last \in applied \/ (applied = {} /\ last = 0)

ProcessShape(lo, m, k, last) ==
    /\ pc = "recovering" => \A e \in Event : lo < e /\ e <= k => claim[e] \in todo
    /\ pc = "idle" => k = lo /\ next = last + 1
    /\ pc = "claimed" => lo < k /\ m = lo /\ next = last + 1
    /\ pc = "applied" => lo < k /\ m = k /\ next = last
    /\ pc \in {"claimed", "applied"} => batch = {e \in Event : lo < e /\ e <= k}

Shape(lo, m, k, last) ==
    /\ Cut(lo, m, k)
    /\ FoldShape(m)
    /\ QueueShape(lo)
    /\ ClaimShape(lo, m, k, last)
    /\ MarkerShape(last)
    /\ ProcessShape(lo, m, k, last)

\* Every batch holds at least one event, so last cannot exceed m.
IInv ==
    /\ TypeOK
    /\ \E lo, m, k \in 0..arrived : \E last \in 0..m : Shape(lo, m, k, last)
=============================================================================
