---------------------------- MODULE EventLedger ----------------------------
(***************************************************************************)
(* What the pipeline promises about an event the api has accepted,         *)
(* whatever queues, batches, crashes and restarts lie in between: events   *)
(* enter the aggregates in arrival order, each exactly once, and a batch   *)
(* at a time.  WorkerLoop implements this specification with two SQLite    *)
(* files and a crash-only worker.                                          *)
(***************************************************************************)
EXTENDS Naturals

CONSTANTS
    MaxEvents,   \* bound: how many events ever arrive
    Limit        \* BATCH_LIMIT: the most events one transaction folds

VARIABLES
    arrived,     \* how many events the api has committed to the queue
    folds        \* folds[e]: how often event e was added to the aggregates

vars == <<arrived, folds>>

\* Events are named by the order in which their INSERTs commit.
Event == 1..MaxEvents

\* The aggregates hold the first m events, each once, and nothing else.
CountedOnce(m) == [e \in Event |-> IF e <= m THEN 1 ELSE 0]

Init ==
    /\ arrived = 0
    /\ folds = CountedOnce(0)

Arrive ==
    /\ arrived < MaxEvents
    /\ arrived' = arrived + 1
    /\ UNCHANGED folds

\* One batch: the events m+1..n, which have all arrived, become visible at once.
FoldBatch(m, n) ==
    /\ m < n
    /\ n - m <= Limit
    /\ folds = CountedOnce(m)
    /\ folds' = CountedOnce(n)
    /\ UNCHANGED arrived

Next == Arrive \/ \E m, n \in 0..arrived : FoldBatch(m, n)

Spec == Init /\ [][Next]_vars
=============================================================================
