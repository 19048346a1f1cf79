---------------------------- MODULE PipelineProofs ----------------------------
(***************************************************************************)
(* Machine-checked proofs about Pipeline, for any number of events, sites, *)
(* pages and bins.  They rest on the proofs about its two parts: Pipeline  *)
(* takes only steps that WorkerLoop takes, and folds only batches that     *)
(* AggStoreProofs speaks of.                                               *)
(***************************************************************************)
EXTENDS Pipeline, FiniteSetTheorems, TLAPS

CONSTANT Provisioned   \* the sites in cfg.py

WP == INSTANCE WorkerLoopProofs
AP == INSTANCE AggStoreProofs
RP == INSTANCE ReadSurfaceProofs WITH TopPagesLimit <- 20, TrendBuckets <- 1440

-----------------------------------------------------------------------------
(* Each INSTANCE has its own copy of every operator; the copies agree.     *)

\* Finiteness and cardinality are the same in all modules.
LEMMA SameCardinality ==
    /\ \A S : A!Cardinality(S) = Cardinality(S)
    /\ \A S : AP!Cardinality(S) = Cardinality(S)
    /\ \A S : AP!IsFiniteSet(S) <=> IsFiniteSet(S)
    /\ \A S : A!IsFiniteSet(S) <=> IsFiniteSet(S)
<1>1. \A S : A!Cardinality(S) = Cardinality(S)
  BY DEF A!Cardinality, Cardinality
<1>2. \A S : AP!Cardinality(S) = Cardinality(S)
  BY DEF AP!Cardinality, Cardinality
<1>3. \A S : AP!IsFiniteSet(S) <=> IsFiniteSet(S)
  BY DEF AP!IsFiniteSet, IsFiniteSet
<1>4. \A S : A!IsFiniteSet(S) <=> IsFiniteSet(S)
  BY DEF A!IsFiniteSet, IsFiniteSet
<1> QED
  BY <1>1, <1>2, <1>3, <1>4

\* So are sums.
LEMMA SameSum ==
    \A f, S : A!SumOver(f, S) = AP!SumOver(f, S)
BY DEF A!SumOver, AP!SumOver, A!MapThenSumSet, AP!MapThenSumSet,
       A!MapThenFoldSet, AP!MapThenFoldSet

\* So is WorkerLoop's invariant, before and after a step.
LEMMA SameLoopInv ==
    /\ W!IInv <=> WP!IInv
    /\ W!IInv' <=> WP!IInv'
BY DEF W!IInv, WP!IInv, W!TypeOK, WP!TypeOK, W!Shape, WP!Shape, W!Cut, WP!Cut,
       W!FoldShape, WP!FoldShape, W!Event, WP!Event, W!QueueShape, WP!QueueShape,
       W!ClaimShape, WP!ClaimShape, W!MarkerShape, WP!MarkerShape,
       W!ProcessShape, WP!ProcessShape, W!NoRow, WP!NoRow, W!Unclaimed, WP!Unclaimed

\* So are its steps.
LEMMA SameLoopStep ==
    /\ W!Init <=> WP!Init
    /\ [W!Next]_(W!vars) <=> [WP!Next]_(WP!vars)
<1>1. W!Rows = WP!Rows
  BY DEF W!Rows, WP!Rows, W!Event, WP!Event, W!NoRow, WP!NoRow
<1>2. W!UnclaimedRows = WP!UnclaimedRows /\ W!ClaimIds = WP!ClaimIds
  BY <1>1 DEF W!UnclaimedRows, WP!UnclaimedRows, W!ClaimIds, WP!ClaimIds,
              W!ClaimedRows, WP!ClaimedRows, W!Unclaimed, WP!Unclaimed
<1>3. \A id : W!RowsOf(id) = WP!RowsOf(id)
  BY <1>1 DEF W!RowsOf, WP!RowsOf
<1>4. W!NextRowid = WP!NextRowid /\ W!LastBatchID = WP!LastBatchID
  BY <1>1 DEF W!NextRowid, WP!NextRowid, W!LastBatchID, WP!LastBatchID,
              W!Max, WP!Max
<1>5. \A S, n : W!Oldest(S, n) = WP!Oldest(S, n)
  BY DEF W!Oldest, WP!Oldest, W!Cardinality, WP!Cardinality
<1>6. \A S : W!DeleteRows(S) <=> WP!DeleteRows(S)
  BY DEF W!DeleteRows, WP!DeleteRows, W!Event, WP!Event, W!NoRow, WP!NoRow,
         W!Unclaimed, WP!Unclaimed
<1>7. \A id : W!Resolve(id) <=> WP!Resolve(id)
  BY <1>3, <1>6 DEF W!Resolve, WP!Resolve, W!Unclaim, WP!Unclaim, W!aggDb, WP!aggDb,
         W!Event, WP!Event, W!Unclaimed, WP!Unclaimed
<1>8. W!Enqueue <=> WP!Enqueue
  BY <1>4 DEF W!Enqueue, WP!Enqueue, W!Unclaimed, WP!Unclaimed
<1>9. /\ W!Deploy <=> WP!Deploy
      /\ W!Restart <=> WP!Restart
      /\ W!Fail <=> WP!Fail
      /\ W!Stop <=> WP!Stop
  BY DEF W!Deploy, WP!Deploy, W!Restart, WP!Restart, W!Fail, WP!Fail, W!Stop, WP!Stop,
         W!Running, WP!Running, W!FreshMemory, WP!FreshMemory,
         W!queueDb, WP!queueDb, W!aggDb, WP!aggDb
<1>10. /\ W!InFlight <=> WP!InFlight
       /\ W!Position <=> WP!Position
  BY <1>2, <1>4 DEF W!InFlight, WP!InFlight, W!Position, WP!Position,
         W!queueDb, WP!queueDb, W!aggDb, WP!aggDb
<1>11. W!Claim <=> WP!Claim
  BY <1>2, <1>5 DEF W!Claim, WP!Claim, W!Event, WP!Event, W!aggDb, WP!aggDb
<1>12. W!Apply <=> WP!Apply
  BY DEF W!Apply, WP!Apply, W!Marked, WP!Marked, W!Event, WP!Event, W!queueDb, WP!queueDb
<1>13. W!Ack <=> WP!Ack
  BY <1>3, <1>6 DEF W!Ack, WP!Ack, W!aggDb, WP!aggDb
<1>14. W!Next <=> WP!Next
  BY <1>7, <1>8, <1>9, <1>10, <1>11, <1>12, <1>13
  DEF W!Next, WP!Next, W!WorkerStep, WP!WorkerStep
<1>15. W!Init <=> WP!Init
  BY DEF W!Init, WP!Init, W!Event, WP!Event, W!NoRow, WP!NoRow, W!Unclaimed, WP!Unclaimed
<1> QED
  BY <1>14, <1>15 DEF W!vars, WP!vars
\* AggStore's invariant, before and after a step.
LEMMA SameTablesInv ==
    /\ A!IInv <=> AP!IInv
    /\ A!IInv' <=> AP!IInv'
BY DEF A!IInv, AP!IInv, A!TypeOK, AP!TypeOK, A!SiteMergesPages, AP!SiteMergesPages,
       A!CurrentIsDerived, AP!CurrentIsDerived, A!TrendIsDerived, AP!TrendIsDerived,
       A!AllPages, AP!AllPages, A!AllTime, AP!AllTime, A!Bin, AP!Bin, A!Hist,
       AP!Hist, A!Time, AP!Time, A!Minute, AP!Minute, A!MinuteOf, AP!MinuteOf,
       A!Count, AP!Count, A!UpTo, AP!UpTo, A!P75, AP!P75, A!Min, AP!Min, A!SumOver,
       AP!SumOver, A!MapThenSumSet, AP!MapThenSumSet, A!MapThenFoldSet,
       AP!MapThenFoldSet

-----------------------------------------------------------------------------
(* The parts keep to their specifications. *)

USE LoopAssumption, TablesAssumption, ClockAssumption

\* Every step is one of WorkerLoop's, or none.
LEMMA StepIsLoopStep ==
    [Next]_vars => [W!Next]_(W!vars)
<1> SUFFICES ASSUME [Next]_vars PROVE [W!Next]_(W!vars)
  OBVIOUS
<1> USE DEF W!Next, W!WorkerStep
<1>1. CASE \E x \in A!Sample : Enqueue(x)
  BY <1>1 DEF Enqueue
<1>2. CASE WatchDepth \/ Fire \/ EmptyTick \/ Advance \/ SetBack \/ UNCHANGED vars
  BY <1>2 DEF WatchDepth, Fire, EmptyTick, Advance, SetBack, vars, workerVars, W!vars
<1>3. CASE Claim \/ Apply \/ Ack
  BY <1>3 DEF Claim, Apply, Ack
<1>4. CASE New \/ StartUp \/ End
  BY <1>4 DEF New, StartUp, End
<1> QED
  BY <1>1, <1>2, <1>3, <1>4 DEF Next

\* Pipeline implements WorkerLoop: its watcher, its clock, its counters and the
\* tables add no behaviour to the loop's.
THEOREM ImplementsLoop == Spec => W!Spec
<1>1. Init => W!Init
  BY DEF Init
<1> QED
  BY <1>1, StepIsLoopStep, PTL DEF Spec, W!Spec

\* So it keeps the ledger's promise: seen through arrived and folds, every step
\* is an arrival, a whole batch folded in order, or nothing.
THEOREM ImplementsLedger == Spec => WP!LedgerSpec
<1>1. WP!Spec => WP!LedgerSpec
  BY WP!ImplementsLedger
<1>2. W!Init <=> WP!Init
  BY SameLoopStep
<1>3. [W!Next]_(W!vars) <=> [WP!Next]_(WP!vars)
  BY SameLoopStep
<1> QED
  BY <1>1, <1>2, <1>3, ImplementsLoop, PTL DEF W!Spec, WP!Spec

\* WorkerLoop's invariant holds in it.
LEMMA LoopKeeps ==
    W!IInv /\ [Next]_vars => W!IInv'
<1>1. WP!IInv /\ [WP!Next]_(WP!vars) => WP!IInv'
  BY WP!StepKeepsIInv
<1> QED
  BY <1>1, StepIsLoopStep, SameLoopStep, SameLoopInv

\* AggStore's assumptions, in its own copies of the operators.
LEMMA TablesHold ==
    /\ AP!IsFiniteSet(Site) /\ AP!IsFiniteSet(Page)
    /\ UpperMs \in [AP!Bin -> Nat \ {0}]
    /\ \A a, b \in AP!Bin : a < b => UpperMs[a] < UpperMs[b]
BY SameCardinality DEF AP!Bin

-----------------------------------------------------------------------------
(* What WorkerLoop's invariant says of the events. *)

\* The folded events are the first to arrive.
LEMMA FoldedIsPrefix ==
    ASSUME W!IInv
    PROVE  \E m \in 0..arrived : /\ Folded = 1..m
                                 /\ Cardinality(Folded) = m
                                 /\ IsFiniteSet(Folded)
<1>1. PICK lo \in 0..arrived, m \in 0..arrived, k \in 0..arrived :
          \E last \in 0..m : W!Shape(lo, m, k, last)
  BY DEF W!IInv
<1>2. arrived \in 0..MaxEvents
  BY DEF W!IInv, W!TypeOK
<1>3. Folded = 1..m
  BY <1>1, <1>2 DEF W!Shape, W!FoldShape, W!Event, Event, Folded
<1> QED
  BY <1>1, <1>2, <1>3, FS_Interval

\* A claimed batch has arrived and is not folded yet.
LEMMA ClaimedBatch ==
    ASSUME W!IInv, pc \in {"claimed", "applied"}
    PROVE  /\ batch \subseteq 1..arrived
           /\ batch \subseteq Event
           /\ IsFiniteSet(batch)
           /\ pc = "claimed" => \A e \in batch : folds[e] = 0
<1>1. PICK lo \in 0..arrived, m \in 0..arrived, k \in 0..arrived :
          \E last \in 0..m : W!Shape(lo, m, k, last)
  BY DEF W!IInv
<1>2. arrived \in 0..MaxEvents
  BY DEF W!IInv, W!TypeOK
<1>3. batch = {e \in Event : lo < e /\ e <= k}
  BY <1>1 DEF W!Shape, W!ProcessShape, W!Event, Event
<1>4. batch \subseteq 1..arrived /\ batch \subseteq Event
  BY <1>1, <1>2, <1>3 DEF Event
<1>5. IsFiniteSet(batch)
  <2>1. IsFiniteSet(1..arrived)
    BY <1>2, FS_Interval
  <2> QED
    BY <1>4, <2>1, FS_Subset
<1>6. ASSUME pc = "claimed", NEW e \in batch PROVE folds[e] = 0
  BY <1>1, <1>2, <1>3, <1>6 DEF W!Shape, W!FoldShape, W!ProcessShape, W!Event, Event
<1> QED
  BY <1>4, <1>5, <1>6

\* The events of a page that the aggregates should count.
PageEvents(s, p) ==
    {e \in Event : folds[e] > 0 /\ \E b \in A!Bin : sample[e] = <<s, p, b>>}

\* What the aggregates count in all.
LEMMA CountedIsFolded ==
    ASSUME W!IInv, SampleShape, CountsAreExact
    PROVE  A!Counted = Cardinality(Folded)
<1> DEFINE K == Site \X Page
           key == [e \in Folded |-> <<sample[e][1], sample[e][2]>>]
           n == [k \in K |-> pageCurrent[k].count]
<1>1. PICK m \in 0..arrived : Folded = 1..m
  BY FoldedIsPrefix
<1>2. IsFiniteSet(Folded) /\ IsFiniteSet(K)
  BY FoldedIsPrefix, FS_Product
<1>3. \A e \in Folded : sample[e] \in A!Sample
  BY <1>1 DEF SampleShape, W!IInv, W!TypeOK
<1>4. \A e \in Folded : key[e] \in K
  BY <1>3 DEF A!Sample
<1>5. ASSUME NEW s \in Site, NEW p \in Page
      PROVE  n[<<s, p>>] = Cardinality(AP!Class(Folded, key, <<s, p>>))
  <2>1. n[<<s, p>>] = Cardinality(PageEvents(s, p))
    BY DEF CountsAreExact, PageEvents
  <2>2. AP!Class(Folded, key, <<s, p>>) = PageEvents(s, p)
    BY <1>3 DEF AP!Class, PageEvents, Folded, A!Sample
  <2> QED
    BY <2>1, <2>2
<1>6. \A k \in K : n[k] = AP!Cardinality(AP!Class(Folded, key, k))
  <2>1. \A k \in K : k = <<k[1], k[2]>> /\ k[1] \in Site /\ k[2] \in Page
    OBVIOUS
  <2> HIDE DEF K, key, n
  <2> QED
    BY <1>5, <2>1, SameCardinality
<1>7. AP!SumOver(n, K) = AP!Cardinality(Folded)
  <2>1. AP!IsFiniteSet(Folded) /\ AP!IsFiniteSet(K)
    BY <1>2, SameCardinality
  <2> HIDE DEF K, key, n
  <2> QED
    BY <1>4, <1>6, <2>1, AP!SumOfClasses, TablesHold
<1> QED
  BY <1>7, SameSum, SameCardinality DEF A!Counted

\* The queue holds the last to arrive, and what is in both the queue and the
\* aggregates is a claimed batch.
LEMMA QueueAndFolded ==
    ASSUME W!IInv
    PROVE  \E lo, m, k \in 0..arrived :
               /\ lo <= k /\ k - lo <= Limit
               /\ m = lo \/ m = k
               /\ Folded = 1..m
               /\ QueueDepth = arrived - lo
               /\ pc # "applied" /\ W!ClaimIds \intersect applied = {} => m = lo
<1>1. PICK lo \in 0..arrived, m \in 0..arrived, k \in 0..arrived :
          \E last \in 0..m : W!Shape(lo, m, k, last)
  BY DEF W!IInv
<1>2. PICK last \in 0..m : W!Shape(lo, m, k, last)
  BY <1>1
<1>3. arrived \in 0..MaxEvents
  BY DEF W!IInv, W!TypeOK
<1>4. lo <= k /\ k - lo <= Limit /\ (m = lo \/ m = k)
  BY <1>2 DEF W!Shape, W!Cut
<1>5. Folded = 1..m
  BY <1>2, <1>3 DEF W!Shape, W!FoldShape, W!Event, Event, Folded
<1>6. W!Rows = (lo + 1)..arrived
  BY <1>2, <1>3 DEF W!Shape, W!QueueShape, W!Rows, W!Event, W!NoRow
<1>7. QueueDepth = arrived - lo
  <2>1. Cardinality((lo + 1)..arrived) = arrived - lo
    <3>1. lo + 1 \in Int /\ arrived \in Int
      BY <1>3
    <3>2. Cardinality((lo + 1)..arrived) =
              IF lo + 1 > arrived THEN 0 ELSE arrived - (lo + 1) + 1
      BY <3>1, FS_Interval
    <3> QED
      BY <1>3, <3>2
  <2> QED
    BY <1>6, <2>1 DEF QueueDepth
<1>8. ASSUME pc # "applied", W!ClaimIds \intersect applied = {}
      PROVE  m = lo
  <2> SUFFICES ASSUME m # lo PROVE FALSE
    OBVIOUS
  <2>1. m = k /\ lo < m
    BY <1>4
  <2>2. last \in applied /\ 0 < last
    BY <1>2, <2>1 DEF W!Shape, W!ClaimShape, W!MarkerShape
  <2>3. m \in W!Rows /\ m \in W!Event
    BY <1>3, <1>6, <2>1 DEF W!Event
  <2>4. claim[m] = last
    BY <1>2, <2>1, <2>3 DEF W!Shape, W!ClaimShape
  <2>5. last \in W!ClaimIds
    BY <2>2, <2>3, <2>4 DEF W!ClaimIds, W!ClaimedRows, W!Unclaimed
  <2> QED
    BY <1>8, <2>2, <2>5
<1> QED
  BY <1>4, <1>5, <1>7, <1>8

-----------------------------------------------------------------------------
(* The invariant. *)

\* An empty deployment.
LEMMA InitInv ==
    Init => IInv
<1> SUFFICES ASSUME Init PROVE IInv
  OBVIOUS
<1>1. W!IInv
  BY WP!InitIInv, SameLoopStep, SameLoopInv DEF Init
<1>2. A!IInv
  <2>1. AP!Init
    BY DEF Init, A!Init, AP!Init, A!Minute, AP!Minute, A!EmptyHist, AP!EmptyHist,
           A!Bin, AP!Bin, A!MinuteOf, AP!MinuteOf
  <2> QED
    BY <2>1, AP!InitInv, TablesHold, SameTablesInv
<1>3. pc = "stopped" /\ arrived = 0 /\ \A e \in Event : folds[e] = 0
  BY DEF Init, W!Init, W!Event, Event
<1>4. Folded = {} /\ Cardinality(Folded) = 0
  <2>1. Folded = {}
    BY <1>3 DEF Folded
  <2> QED
    BY <2>1, FS_EmptySet
<1>5. TypeOK
  BY DEF Init, TypeOK, Time
<1>6. SampleShape
  BY <1>3 DEF Init, SampleShape
<1>7. TickShape
  BY <1>3 DEF Init, TickShape
<1>8. CountsAreExact
  <2>1. \A s \in Site, p \in Page : PageEvents(s, p) = {}
    BY <1>3 DEF PageEvents
  <2>2. \A s \in Site, p \in Page : pageCurrent[<<s, p>>].count = 0
    BY DEF Init, A!Init
  <2> QED
    BY <2>1, <2>2, FS_EmptySet DEF CountsAreExact, PageEvents
<1>9. WatchShape
  BY <1>4 DEF Init, WatchShape
<1>10. CounterShape
  BY <1>3 DEF CounterShape, Serving
<1> QED
  BY <1>1, <1>2, <1>5, <1>6, <1>7, <1>8, <1>9, <1>10 DEF IInv

\* toSamples gives Apply a batch such as AggStoreProofs speaks of.
LEMMA SamplesAreBatch ==
    ASSUME W!IInv, SampleShape, pc = "claimed"
    PROVE  /\ AP!IsBatch(SamplesOf(batch))
           /\ DOMAIN SamplesOf(batch) = batch
           /\ \A e \in batch : SamplesOf(batch)[e] = sample[e] /\ sample[e] \in A!Sample
<1>1. batch \subseteq 1..arrived /\ IsFiniteSet(batch)
  BY ClaimedBatch
<1>2. \A e \in batch : sample[e] \in A!Sample
  BY <1>1 DEF SampleShape
<1>3. A!Sample = AP!Sample
  BY DEF A!Sample, AP!Sample, A!Bin, AP!Bin
<1>4. AP!IsFiniteSet(batch)
  BY <1>1, SameCardinality
<1> QED
  BY <1>2, <1>3, <1>4 DEF SamplesOf, AP!IsBatch

\* The two copies of Fold agree.
LEMMA SameFold ==
    ASSUME NEW b, NEW t
    PROVE  A!Fold(b, t) <=> AP!Fold(b, t)
<1>1. A!FoldPageMinute(b, A!MinuteOf(t)) <=> AP!FoldPageMinute(b, AP!MinuteOf(t))
  BY DEF A!FoldPageMinute, AP!FoldPageMinute, A!Merge, AP!Merge, A!PageAdded,
         AP!PageAdded, A!PageSamples, AP!PageSamples, A!Bin, AP!Bin, A!Minute,
         AP!Minute, A!MinuteOf, AP!MinuteOf, A!Cardinality, AP!Cardinality
<1>2. A!FoldPageCurrent(b, t) <=> AP!FoldPageCurrent(b, t)
  BY DEF A!FoldPageCurrent, AP!FoldPageCurrent, A!PageSamples, AP!PageSamples,
         A!Trailing, AP!Trailing, A!Bin, AP!Bin, A!Minute, AP!Minute, A!MinuteOf,
         AP!MinuteOf, A!Count, AP!Count, A!UpTo, AP!UpTo, A!P75, AP!P75, A!Min,
         AP!Min, A!SumOver, AP!SumOver, A!MapThenSumSet, AP!MapThenSumSet,
         A!MapThenFoldSet, AP!MapThenFoldSet, A!Cardinality, AP!Cardinality
<1>3. A!FoldSiteMinute(b, A!MinuteOf(t)) <=> AP!FoldSiteMinute(b, AP!MinuteOf(t))
  BY DEF A!FoldSiteMinute, AP!FoldSiteMinute, A!Merge, AP!Merge, A!SiteAdded,
         AP!SiteAdded, A!Bin, AP!Bin, A!Minute, AP!Minute, A!MinuteOf, AP!MinuteOf,
         A!Count, AP!Count, A!UpTo, AP!UpTo, A!P75, AP!P75, A!Min, AP!Min, A!SumOver,
         AP!SumOver, A!MapThenSumSet, AP!MapThenSumSet, A!MapThenFoldSet,
         AP!MapThenFoldSet, A!Cardinality, AP!Cardinality
<1> QED
  BY <1>1, <1>2, <1>3 DEF A!Fold, AP!Fold

\* So do those of a step, and what it may do.
LEMMA SameTableStep ==
    /\ [A!Next]_(A!vars) <=> [AP!Next]_(AP!vars)
    /\ [A!OneMinuteGrowsStep]_(A!vars) <=> [AP!OneMinuteGrowsStep]_(AP!vars)
<1>1. A!Batches(Limit) = AP!Batches(Limit) /\ A!Time = AP!Time
  BY DEF A!Batches, AP!Batches, A!Sample, AP!Sample, A!Bin, AP!Bin, A!Time, AP!Time
<1>2. A!Counted = AP!Counted
  BY SameSum DEF A!Counted, AP!Counted
<1>3. A!Next <=> AP!Next
  BY <1>1, <1>2, SameFold, SameCardinality DEF A!Next, AP!Next
<1>4. A!OneMinuteGrowsStep <=> AP!OneMinuteGrowsStep
  BY DEF A!OneMinuteGrowsStep, AP!OneMinuteGrowsStep, A!Minute, AP!Minute,
         A!MinuteOf, AP!MinuteOf, A!Bin, AP!Bin
<1> QED
  BY <1>3, <1>4 DEF A!vars, AP!vars

\* Only Apply writes to agg.db.
LEMMA OnlyApplyFolds ==
    [Next]_vars => Apply \/ UNCHANGED <<folds, pageMinute, siteMinute, pageCurrent>>
<1> SUFFICES ASSUME [Next]_vars, ~Apply
             PROVE  UNCHANGED <<folds, pageMinute, siteMinute, pageCurrent>>
  OBVIOUS
<1> USE DEF tables, stats, setBack, SawTick, workerVars
<1>1. CASE \E x \in A!Sample : Enqueue(x)
  BY <1>1 DEF Enqueue, W!Enqueue
<1>2. CASE WatchDepth \/ Fire \/ EmptyTick \/ Advance \/ SetBack \/ UNCHANGED vars
  BY <1>2 DEF WatchDepth, Fire, EmptyTick, Advance, SetBack, vars
<1>3. CASE Claim \/ Ack
  BY <1>3 DEF Claim, Ack, W!Claim, W!Ack, W!aggDb
<1>4. CASE New \/ End
  BY <1>4 DEF New, End, W!InFlight, W!Fail, W!Stop, W!aggDb
<1>5. CASE StartUp
  BY <1>5 DEF StartUp, W!Deploy, W!Restart, W!Position, W!Resolve, W!aggDb
<1> QED
  BY <1>1, <1>2, <1>3, <1>4, <1>5 DEF Next

\* AggStore's invariant holds in it.
LEMMA TablesKeep ==
    IInv /\ [Next]_vars => A!IInv'
<1> SUFFICES ASSUME IInv, [Next]_vars PROVE A!IInv'
  OBVIOUS
<1>1. AP!IInv
  BY SameTablesInv DEF IInv
<1>2. CASE Apply
  <2>1. pc = "claimed" /\ now \in AP!Time
    BY <1>2 DEF Apply, W!Apply, IInv, TickShape, TypeOK, AP!Time, Time
  <2>2. AP!IsBatch(SamplesOf(batch))
    BY <2>1, SamplesAreBatch DEF IInv
  <2>3. AP!Fold(SamplesOf(batch), now)
    BY <1>2, SameFold DEF Apply
  <2>4. AP!IInv'
    BY <1>1, <2>1, <2>2, <2>3, AP!FoldKeeps, TablesHold
  <2> QED
    BY <2>4, SameTablesInv
<1>3. CASE UNCHANGED <<folds, pageMinute, siteMinute, pageCurrent>>
  <2>1. AP!IInv'
    BY <1>1, <1>3, AP!StepInv, TablesHold DEF AP!vars
  <2> QED
    BY <2>1, SameTablesInv
<1> QED
  BY <1>2, <1>3, OnlyApplyFolds

\* The counts are numbers.
LEMMA FoldedType ==
    ASSUME W!IInv
    PROVE  /\ Cardinality(Folded) \in Nat
           /\ QueueDepth \in Nat
           /\ arrived \in Nat
           /\ pc \in {"claimed", "applied"} => Cardinality(batch) \in Nat
<1>1. arrived \in 0..MaxEvents
  BY DEF W!IInv, W!TypeOK
<1>2. QueueDepth \in Nat
  BY <1>1, QueueAndFolded
<1>3. Cardinality(Folded) \in Nat
  BY FoldedIsPrefix
<1> QED
  BY <1>1, <1>2, <1>3, ClaimedBatch, FS_CardinalityType

\* Apply adds the batch to what is folded; no other step changes it.
LEMMA FoldedGrows ==
    ASSUME IInv, [Next]_vars
    PROVE  /\ Apply => /\ pc = "claimed" /\ pc' = "applied" /\ batch' = batch
                       /\ Folded' = Folded \union batch
                       /\ Folded \intersect batch = {}
                       /\ Cardinality(Folded') = Cardinality(Folded) + Cardinality(batch)
           /\ ~Apply => Folded' = Folded
           /\ Cardinality(Folded) <= Cardinality(Folded')
<1>1. Cardinality(Folded) \in Nat /\ IsFiniteSet(Folded)
  BY FoldedType, FoldedIsPrefix DEF IInv
<1>2. CASE Apply
  <2>1. pc = "claimed" /\ pc' = "applied" /\ batch' = batch
    BY <1>2 DEF Apply, W!Apply
  <2>2. batch \subseteq Event /\ IsFiniteSet(batch) /\ \A e \in batch : folds[e] = 0
    BY <2>1, ClaimedBatch DEF IInv
  <2>3. \A e \in Event : folds'[e] = IF e \in batch THEN folds[e] + 1 ELSE folds[e]
    BY <1>2 DEF Apply, W!Apply, W!Event, Event
  <2>4. Folded' = Folded \union batch /\ Folded \intersect batch = {}
    BY <2>2, <2>3 DEF Folded
  <2>5. Cardinality(Folded') = Cardinality(Folded) + Cardinality(batch)
    <3>1. AP!IsFiniteSet(Folded) /\ AP!IsFiniteSet(batch)
      BY <1>1, <2>2, SameCardinality
    <3>2. AP!Cardinality(Folded \union batch) =
              AP!Cardinality(Folded) + AP!Cardinality(batch)
      BY <2>4, <3>1, AP!CardinalityOfDisjoint, TablesHold
    <3> QED
      BY <2>4, <3>2, SameCardinality
  <2>6. Cardinality(batch) \in Nat
    BY <2>2, FS_CardinalityType
  <2> QED
    BY <1>1, <1>2, <2>1, <2>4, <2>5, <2>6
<1>3. CASE ~Apply
  <2>1. Folded' = Folded
    BY <1>3, OnlyApplyFolds DEF Folded
  <2> QED
    BY <1>1, <1>3, <2>1
<1> QED
  BY <1>2, <1>3

\* Times and counters stay in range.
LEMMA TypeKeeps ==
    IInv /\ [Next]_vars => TypeOK'
<1> SUFFICES ASSUME IInv, [Next]_vars PROVE TypeOK'
  OBVIOUS
<1> USE DEF tables, stats, setBack, SawTick, workerVars
<1>1. TypeOK /\ Cardinality(Folded) \in Nat /\ QueueDepth \in Nat /\ arrived \in Nat
  BY FoldedType DEF IInv
<1>2. CASE \E x \in A!Sample : Enqueue(x)
  BY <1>1, <1>2 DEF Enqueue, TypeOK
<1>3. CASE WatchDepth
  BY <1>1, <1>3 DEF WatchDepth, TypeOK
<1>4. CASE Fire \/ EmptyTick
  <2>1. UNCHANGED <<clock, watched, consumed, base>>
    BY <1>4 DEF Fire, EmptyTick
  <2>2. CASE Fire
    BY <1>1, <2>1, <2>2 DEF Fire, TypeOK, Time
  <2>3. CASE EmptyTick
    BY <1>1, <2>1, <2>3 DEF EmptyTick, TypeOK, Time
  <2> QED
    BY <1>4, <2>2, <2>3
<1>10. CASE Claim \/ Apply \/ StartUp \/ UNCHANGED vars
  <2>1. UNCHANGED <<clock, now, watched, stats, setBack>>
    BY <1>10 DEF Claim, Apply, StartUp, vars
  <2> QED
    BY <1>1, <2>1 DEF TypeOK
<1>5. CASE Ack
  <2>1. pc = "applied" /\ now # NotTicking /\ Cardinality(batch) \in Nat
    BY <1>5, FoldedType DEF Ack, W!Ack, IInv, TickShape
  <2> QED
    BY <1>1, <1>5, <2>1 DEF Ack, TypeOK
<1>6. CASE New
  <2>1. A!Counted \in Nat
    BY <1>1, CountedIsFolded DEF IInv
  <2> QED
    BY <1>1, <1>6, <2>1 DEF New, TypeOK
<1>7. CASE End
  BY <1>1, <1>7 DEF End, TypeOK, Time
<1>8. CASE Advance
  BY <1>1, <1>8 DEF Advance, TypeOK, Time
<1>9. CASE SetBack
  BY <1>1, <1>9 DEF SetBack, TypeOK, Time
<1> QED
  BY <1>2, <1>3, <1>4, <1>5, <1>6, <1>7, <1>8, <1>9, <1>10 DEF Next

\* An event keeps the sample it arrived with.
LEMMA SamplesStay ==
    IInv /\ [Next]_vars =>
        \/ UNCHANGED <<sample, arrived>>
        \/ /\ ~Apply
           /\ arrived + 1 \in Event /\ arrived' = arrived + 1
           /\ \E x \in A!Sample : sample' = [sample EXCEPT ![arrived + 1] = x]
<1> SUFFICES ASSUME IInv, [Next]_vars
             PROVE  \/ UNCHANGED <<sample, arrived>>
                    \/ /\ ~Apply
                       /\ arrived + 1 \in Event /\ arrived' = arrived + 1
                       /\ \E x \in A!Sample : sample' = [sample EXCEPT ![arrived + 1] = x]
  OBVIOUS
<1> USE DEF tables, stats, setBack, SawTick, workerVars
<1>1. CASE \E x \in A!Sample : Enqueue(x)
  <2>1. arrived \in 0..MaxEvents
    BY DEF IInv, W!IInv, W!TypeOK
  <2>2. arrived < MaxEvents /\ arrived' = arrived + 1 /\ pc' = pc
    BY <1>1 DEF Enqueue, W!Enqueue
  <2>3. ~Apply
    BY <2>2 DEF Apply, W!Apply
  <2>4. \E x \in A!Sample : sample' = [sample EXCEPT ![arrived + 1] = x]
    BY <1>1, <2>2 DEF Enqueue
  <2>5. arrived + 1 \in Event
    BY <2>1, <2>2 DEF Event
  <2> QED
    BY <2>2, <2>3, <2>4, <2>5
<1>2. CASE WatchDepth \/ Fire \/ EmptyTick \/ Advance \/ SetBack \/ UNCHANGED vars
  BY <1>2 DEF WatchDepth, Fire, EmptyTick, Advance, SetBack, vars
<1>3. CASE Claim \/ Apply \/ Ack
  BY <1>3 DEF Claim, Apply, Ack, W!Claim, W!Apply, W!Ack, W!aggDb, W!queueDb
<1>4. CASE New \/ End
  BY <1>4 DEF New, End, W!InFlight, W!Fail, W!Stop, W!queueDb
<1>5. CASE StartUp
  BY <1>5 DEF StartUp, W!Deploy, W!Restart, W!Position, W!Resolve, W!queueDb
<1> QED
  BY <1>1, <1>2, <1>3, <1>4, <1>5 DEF Next

\* Every event that arrived has a sample.
LEMMA SamplesKeep ==
    IInv /\ [Next]_vars => SampleShape'
<1> SUFFICES ASSUME IInv, [Next]_vars PROVE SampleShape'
  OBVIOUS
<1>1. SampleShape /\ arrived \in 0..MaxEvents
  BY DEF IInv, W!IInv, W!TypeOK
<1>2. CASE UNCHANGED <<sample, arrived>>
  BY <1>1, <1>2 DEF SampleShape
<1>3. CASE /\ arrived + 1 \in Event /\ arrived' = arrived + 1
           /\ \E x \in A!Sample : sample' = [sample EXCEPT ![arrived + 1] = x]
  BY <1>1, <1>3 DEF SampleShape, Event
<1> QED
  BY <1>2, <1>3, SamplesStay

\* A tick starts and ends with a serving worker, and a reading of the clock is
\* later than the next by no more than the clock was set back by.
LEMMA TicksKeep ==
    IInv /\ [Next]_vars => TickShape'
<1> SUFFICES ASSUME IInv, [Next]_vars PROVE TickShape'
  OBVIOUS
<1> USE DEF tables, stats, setBack, SawTick, workerVars, NotTicking, Serving
<1>1. TypeOK /\ TickShape
  BY DEF IInv
<1>2. CASE \E x \in A!Sample : Enqueue(x)
  BY <1>1, <1>2 DEF Enqueue, W!Enqueue, TickShape
<1>3. CASE WatchDepth \/ EmptyTick \/ UNCHANGED vars
  BY <1>1, <1>3 DEF WatchDepth, EmptyTick, vars, TypeOK, TickShape, Time
<1>4. CASE Fire
  BY <1>1, <1>4 DEF Fire, TypeOK, TickShape, Time
<1>5. CASE Claim \/ Apply
  BY <1>1, <1>5 DEF Claim, Apply, W!Claim, W!Apply, TickShape
<1>6. CASE Ack
  BY <1>1, <1>6 DEF Ack, W!Ack, TypeOK, TickShape, Time
<1>7. CASE New
  BY <1>1, <1>7 DEF New, W!InFlight, TypeOK, TickShape, Time
<1>8. CASE StartUp
  BY <1>1, <1>8 DEF StartUp, W!Deploy, W!Restart, W!Position, W!Resolve, TickShape
<1>9. CASE End
  BY <1>1, <1>9 DEF End, W!Fail, W!Stop, TypeOK, TickShape, Time
<1>10. CASE Advance
  BY <1>1, <1>10 DEF Advance, TypeOK, TickShape, Time
<1>11. CASE SetBack
  BY <1>1, <1>11 DEF SetBack, TypeOK, TickShape, Time
<1> QED
  BY <1>2, <1>3, <1>4, <1>5, <1>6, <1>7, <1>8, <1>9, <1>10, <1>11 DEF Next

\* The counts follow the folds: a batch's samples are counted when, and only
\* when, its events become folded.
LEMMA CountsKeep ==
    IInv /\ [Next]_vars => CountsAreExact'
<1> SUFFICES ASSUME IInv, [Next]_vars, NEW s \in Site, NEW p \in Page
             PROVE  pageCurrent'[<<s, p>>].count = Cardinality(PageEvents(s, p)')
  BY DEF CountsAreExact, PageEvents
<1>1. pageCurrent[<<s, p>>].count = Cardinality(PageEvents(s, p))
  BY DEF IInv, CountsAreExact, PageEvents
<1>2. CASE Apply
  <2> DEFINE S == A!PageSamples(SamplesOf(batch), s, p)
  <2>1. pc = "claimed" /\ sample' = sample
    BY <1>2 DEF Apply, W!Apply
  <2>2. batch \subseteq Event /\ IsFiniteSet(batch) /\ \A e \in batch : folds[e] = 0
    BY <2>1, ClaimedBatch DEF IInv
  <2>3. \A e \in batch : SamplesOf(batch)[e] = sample[e] /\ sample[e] \in A!Sample
    BY <2>1, SamplesAreBatch DEF IInv
  <2>4. S = {e \in batch : \E b \in A!Bin : sample[e] = <<s, p, b>>}
    <3>1. DOMAIN SamplesOf(batch) = batch
      BY DEF SamplesOf
    <3> QED
      BY <2>3, <3>1 DEF A!PageSamples, A!Sample
  <2>5. \A e \in Event : folds'[e] = IF e \in batch THEN folds[e] + 1 ELSE folds[e]
    BY <1>2 DEF Apply, W!Apply, W!Event, Event
  <2>6. /\ PageEvents(s, p)' = PageEvents(s, p) \union S
        /\ PageEvents(s, p) \intersect S = {}
    BY <2>1, <2>2, <2>4, <2>5 DEF PageEvents
  <2>7. IsFiniteSet(PageEvents(s, p)) /\ IsFiniteSet(S)
    <3>1. IsFiniteSet(Event)
      BY FS_Interval DEF Event
    <3>2. PageEvents(s, p) \subseteq Event /\ S \subseteq Event
      BY <2>2, <2>4 DEF PageEvents
    <3> QED
      BY <3>1, <3>2, FS_Subset
  <2>8. Cardinality(PageEvents(s, p)') = Cardinality(PageEvents(s, p)) + Cardinality(S)
    <3>1. AP!IsFiniteSet(PageEvents(s, p)) /\ AP!IsFiniteSet(S)
      BY <2>7, SameCardinality
    <3> HIDE DEF S
    <3>2. AP!Cardinality(PageEvents(s, p) \union S) =
              AP!Cardinality(PageEvents(s, p)) + AP!Cardinality(S)
      BY <2>6, <3>1, AP!CardinalityOfDisjoint, TablesHold
    <3> QED
      BY <2>6, <3>2, SameCardinality
  <2>9. Cardinality(PageEvents(s, p)) \in Nat
    BY <2>7, FS_CardinalityType
  <2>10. pageCurrent'[<<s, p>>].count =
             IF S = {} THEN pageCurrent[<<s, p>>].count
             ELSE pageCurrent[<<s, p>>].count + Cardinality(S)
    BY <1>2, SameCardinality DEF Apply, A!Fold, A!FoldPageCurrent
  <2>11. S = {} => Cardinality(S) = 0
    BY FS_EmptySet
  <2> HIDE DEF S
  <2>12. Cardinality(PageEvents(s, p)') =
             IF S = {} THEN Cardinality(PageEvents(s, p))
             ELSE Cardinality(PageEvents(s, p)) + Cardinality(S)
    BY <2>8, <2>9, <2>11
  <2> QED
    BY <1>1, <2>10, <2>12
<1>3. CASE ~Apply /\ UNCHANGED <<folds, pageMinute, siteMinute, pageCurrent>>
  <2>1. PageEvents(s, p)' = PageEvents(s, p)
    <3>1. CASE UNCHANGED <<sample, arrived>>
      BY <1>3, <3>1 DEF PageEvents
    <3>2. CASE \E x \in A!Sample : sample' = [sample EXCEPT ![arrived + 1] = x]
      <4>1. folds[arrived + 1] = 0 \/ arrived + 1 \notin Event
        <5>1. PICK m \in 0..arrived : Folded = 1..m
          BY FoldedIsPrefix DEF IInv
        <5>2. arrived \in Nat /\ \A e \in Event : folds[e] \in Nat
          BY DEF IInv, W!IInv, W!TypeOK, W!Event, Event
        <5> QED
          BY <5>1, <5>2 DEF Folded
      <4>2. \A e \in Event : e # arrived + 1 => sample'[e] = sample[e]
        BY <3>2 DEF IInv, SampleShape
      <4> QED
        BY <1>3, <4>1, <4>2 DEF PageEvents
    <3> QED
      BY <3>1, <3>2, SamplesStay
  <2> QED
    BY <1>1, <1>3, <2>1
<1> QED
  BY <1>2, <1>3, OnlyApplyFolds

\* What was folded when the depth was read stays folded.
LEMMA WatchKeeps ==
    IInv /\ [Next]_vars => WatchShape'
<1> SUFFICES ASSUME IInv, [Next]_vars, watched'.depth = 0
             PROVE  watched'.arrived <= Cardinality(Folded')
  BY DEF WatchShape
<1> USE DEF tables, stats, setBack, SawTick, workerVars
<1>1. /\ watched \in [arrived : Nat, depth : Nat]
      /\ WatchShape
      /\ Cardinality(Folded) \in Nat /\ Cardinality(Folded') \in Nat
      /\ Cardinality(Folded) <= Cardinality(Folded')
  <2>1. W!IInv /\ W!IInv'
    BY LoopKeeps DEF IInv
  <2>2. Cardinality(Folded') \in Nat
    <3>1. CASE Apply
      <4>1. pc = "claimed"
        BY <3>1 DEF Apply, W!Apply
      <4>2. Cardinality(batch) \in Nat /\ Cardinality(Folded) \in Nat
        BY <2>1, <4>1, FoldedType
      <4> QED
        BY <3>1, <4>2, FoldedGrows
    <3>2. CASE ~Apply
      BY <2>1, <3>2, FoldedGrows, FoldedType
    <3> QED
      BY <3>1, <3>2
  <2> QED
    BY <2>1, <2>2, FoldedGrows, FoldedType DEF IInv, TypeOK
<1>2. CASE WatchDepth
  <2>1. watched'.arrived = arrived /\ QueueDepth = 0
    BY <1>2 DEF WatchDepth
  <2>2. PICK lo \in 0..arrived, m \in 0..arrived, k \in 0..arrived :
            /\ lo <= k
            /\ m = lo \/ m = k
            /\ Folded = 1..m
            /\ QueueDepth = arrived - lo
    BY QueueAndFolded DEF IInv
  <2>3. arrived \in Nat
    BY FoldedType DEF IInv
  <2>4. m = arrived
    BY <2>1, <2>2, <2>3
  <2>5. Cardinality(Folded) = arrived
    BY <2>2, <2>3, <2>4, FS_Interval
  <2> QED
    BY <1>1, <2>1, <2>5
<1>3. CASE watched' = watched
  BY <1>1, <1>3 DEF WatchShape
<1>4. WatchDepth \/ watched' = watched
  BY DEF Next, Enqueue, Fire, EmptyTick, Claim, Apply, Ack, New, StartUp, End, Advance, SetBack, vars
<1> QED
  BY <1>2, <1>3, <1>4

\* Ack moves the counter by the batch that Apply folded; a new process begins
\* from what its predecessors folded.
LEMMA CountersKeep ==
    IInv /\ [Next]_vars => CounterShape'
<1> SUFFICES ASSUME IInv, [Next]_vars PROVE CounterShape'
  OBVIOUS
<1> USE DEF tables, stats, setBack, SawTick, workerVars, Serving
<1>1. /\ CounterShape /\ TypeOK
      /\ Cardinality(Folded) \in Nat
      /\ Cardinality({}) = 0
  BY FoldedType, FS_EmptySet DEF IInv
<1>2. CASE \E x \in A!Sample : Enqueue(x)
  <2>1. UNCHANGED <<pc, batch, consumed, base>> /\ ~Apply
    BY <1>2 DEF Enqueue, W!Enqueue, Apply, W!Apply
  <2>2. Folded' = Folded
    BY <2>1, FoldedGrows
  <2> QED
    BY <1>1, <2>1, <2>2 DEF CounterShape
<1>3. CASE WatchDepth \/ Fire \/ EmptyTick \/ Advance \/ SetBack \/ UNCHANGED vars
  <2>1. UNCHANGED <<pc, batch, folds, consumed, base>>
    BY <1>3 DEF WatchDepth, Fire, EmptyTick, Advance, SetBack, vars
  <2> QED
    BY <1>1, <2>1 DEF CounterShape, Folded
<1>4. CASE Claim
  <2>1. pc = "idle" /\ pc' = "claimed" /\ UNCHANGED <<folds, consumed, base>>
    BY <1>4 DEF Claim, W!Claim, W!aggDb
  <2> QED
    BY <1>1, <2>1 DEF CounterShape, Folded
<1>5. CASE Apply
  <2>1. UNCHANGED <<consumed, base>>
    BY <1>5 DEF Apply
  <2>2. /\ pc = "claimed" /\ pc' = "applied" /\ batch' = batch
        /\ Cardinality(Folded') = Cardinality(Folded) + Cardinality(batch)
    BY <1>5, FoldedGrows
  <2>3. Cardinality(batch) \in Nat /\ consumed \in Nat /\ base \in Nat
    BY <1>1, <2>2, FoldedType DEF IInv, TypeOK
  <2>4. consumed + 0 + base = Cardinality(Folded)
    BY <1>1, <2>2 DEF CounterShape
  <2> QED
    BY <2>1, <2>2, <2>3, <2>4 DEF CounterShape
<1>6. CASE Ack
  <2>1. /\ pc = "applied" /\ pc' = "idle"
        /\ consumed' = consumed + Cardinality(batch) /\ UNCHANGED <<folds, base>>
    BY <1>6 DEF Ack, W!Ack, W!aggDb
  <2>2. Cardinality(batch) \in Nat /\ consumed \in Nat /\ base \in Nat
    BY <1>1, <2>1, FoldedType DEF IInv, TypeOK
  <2>3. consumed + Cardinality(batch) + base = Cardinality(Folded)
    BY <1>1, <2>1 DEF CounterShape
  <2>4. Folded' = Folded
    BY <2>1 DEF Folded
  <2> QED
    BY <1>1, <2>1, <2>2, <2>3, <2>4 DEF CounterShape
<1>7. CASE New
  <2>1. /\ pc' = "recovering" /\ consumed' = 0 /\ base' = A!Counted
        /\ UNCHANGED folds
    BY <1>7 DEF New, W!InFlight, W!aggDb
  <2>2. A!Counted = Cardinality(Folded)
    BY CountedIsFolded DEF IInv
  <2>3. Folded' = Folded
    BY <2>1 DEF Folded
  <2> QED
    BY <1>1, <2>1, <2>2, <2>3 DEF CounterShape
<1>8. CASE StartUp
  <2>1. UNCHANGED <<folds, consumed, base>>
    BY <1>8 DEF StartUp, W!Deploy, W!Restart, W!Position, W!Resolve, W!aggDb
  <2>2. \/ pc' = "starting"
        \/ pc = "recovering" /\ pc' \in {"recovering", "idle"}
    BY <1>8 DEF StartUp, W!Deploy, W!Restart, W!Position, W!Resolve
  <2> QED
    BY <1>1, <2>1, <2>2 DEF CounterShape, Folded
<1>9. CASE End
  BY <1>9 DEF End, W!Fail, W!Stop, CounterShape
<1> QED
  BY <1>2, <1>3, <1>4, <1>5, <1>6, <1>7, <1>8, <1>9 DEF Next

\* Every step keeps the invariant.
LEMMA StepInv ==
    IInv /\ [Next]_vars => IInv'
BY LoopKeeps, TablesKeep, TypeKeeps, SamplesKeep, TicksKeep, CountsKeep, WatchKeeps,
   CountersKeep
DEF IInv

\* The invariant holds throughout.
THEOREM Inductive == Spec => []IInv
BY InitInv, StepInv, PTL DEF Spec

-----------------------------------------------------------------------------
(* What it implies. *)

\* Through every crash between claim, fold and ack, a page's count is the number
\* of its events that were folded, for any traffic and any batch limit.
THEOREM ExactCounts == Spec => []CountsAreExact
<1>1. IInv => CountsAreExact
  BY DEF IInv
<1> QED
  BY <1>1, Inductive, PTL

\* Queue and aggregates make up what arrived; they overlap by a batch at most.
THEOREM NothingBetween == Spec => []QueuePlusAggregates
<1>1. IInv => QueuePlusAggregates
  <2> SUFFICES ASSUME IInv PROVE QueuePlusAggregates
    OBVIOUS
  <2>1. A!Counted = Cardinality(Folded) /\ arrived \in Nat
    BY CountedIsFolded, FoldedType DEF IInv
  <2>2. PICK lo \in 0..arrived, m \in 0..arrived, k \in 0..arrived :
            /\ lo <= k /\ k - lo <= Limit
            /\ m = lo \/ m = k
            /\ Folded = 1..m
            /\ QueueDepth = arrived - lo
            /\ pc # "applied" /\ W!ClaimIds \intersect applied = {} => m = lo
    BY QueueAndFolded DEF IInv
  <2>3. Cardinality(Folded) = m
    <3>1. m \in Nat
      BY <2>1
    <3> QED
      BY <2>2, <3>1, FS_Interval
  <2> QED
    BY <2>1, <2>2, <2>3 DEF QueuePlusAggregates
<1> QED
  BY <1>1, Inductive, PTL

\* An operator who saw the queue empty finds all that had arrived by then.
THEOREM DrainIsSound == Spec => []DrainedMeansCounted
<1>1. IInv => DrainedMeansCounted
  <2> SUFFICES ASSUME IInv, watched.depth = 0
               PROVE  A!Counted >= watched.arrived
    BY DEF DrainedMeansCounted
  <2>1. A!Counted = Cardinality(Folded) /\ Cardinality(Folded) \in Nat
    BY CountedIsFolded, FoldedType DEF IInv
  <2>2. watched.arrived \in Nat /\ watched.arrived <= Cardinality(Folded)
    BY DEF IInv, TypeOK, WatchShape
  <2> QED
    BY <2>1, <2>2
<1> QED
  BY <1>1, Inductive, PTL

\* events_consumed_total trails the aggregates by the batch in flight alone.
THEOREM CountersTrail == Spec => []CountersTrailFolds
<1>1. IInv => CountersTrailFolds
  BY CountedIsFolded DEF IInv, CounterShape, CountersTrailFolds
<1> QED
  BY <1>1, Inductive, PTL

\* A tick that hangs longer than the window, and than the clock was set back by
\* since the last one, turns /healthz red, wherever it hangs and however often
\* the clock is set back.
THEOREM StallsShow == Spec => []StalledMeansUnhealthy
<1>1. IInv => StalledMeansUnhealthy
  BY DEF IInv, TypeOK, TickShape, StalledMeansUnhealthy, Hung, Healthy, Time, NotTicking
<1> QED
  BY <1>1, Inductive, PTL

-----------------------------------------------------------------------------
(* Pipeline implements AggStore as well. *)

\* A claimed batch is neither empty nor bigger than the limit.
LEMMA BatchSize ==
    ASSUME W!IInv, pc = "claimed"
    PROVE  batch # {} /\ Cardinality(batch) <= Limit
<1>1. PICK lo \in 0..arrived, m \in 0..arrived, k \in 0..arrived :
          \E last \in 0..m : W!Shape(lo, m, k, last)
  BY DEF W!IInv
<1>2. arrived \in 0..MaxEvents
  BY DEF W!IInv, W!TypeOK
<1>3. lo < k /\ k - lo <= Limit
  BY <1>1 DEF W!Shape, W!Cut, W!ProcessShape
<1>4. lo \in Nat /\ k \in Nat /\ lo + 1 \in Int /\ k \in Int /\ k <= MaxEvents
  BY <1>2
<1>5. batch = (lo + 1)..k
  <2>1. batch = {e \in 1..MaxEvents : lo < e /\ e <= k}
    BY <1>1 DEF W!Shape, W!ProcessShape, W!Event
  <2> QED
    BY <1>4, <2>1
<1>6. Cardinality((lo + 1)..k) = k - lo
  <2>1. Cardinality((lo + 1)..k) = IF lo + 1 > k THEN 0 ELSE k - (lo + 1) + 1
    BY <1>4, FS_Interval
  <2> QED
    BY <1>3, <1>4, <2>1
<1>7. k \in batch
  BY <1>3, <1>4, <1>5
<1> QED
  BY <1>3, <1>5, <1>6, <1>7

\* Every step is a fold of AggStore's, or leaves the tables alone.
LEMMA StepIsTableStep ==
    IInv /\ [Next]_vars => [A!Next]_(A!vars)
<1> SUFFICES ASSUME IInv, [Next]_vars PROVE [A!Next]_(A!vars)
  OBVIOUS
<1>1. CASE Apply
  <2> DEFINE samples == SamplesOf(batch)
  <2>1. pc = "claimed" /\ now \in A!Time
    BY <1>1 DEF Apply, W!Apply, IInv, TickShape, TypeOK, A!Time, Time
  <2>2. AP!IsBatch(samples) /\ DOMAIN samples = batch
    BY <2>1, SamplesAreBatch DEF IInv
  <2>3. batch # {} /\ Cardinality(batch) <= Limit
    BY <2>1, BatchSize DEF IInv
  <2>4. AP!Fold(samples, now)
    BY <1>1, SameFold DEF Apply
  <2>5. Cardinality(Folded) + Cardinality(batch) <= MaxEvents
    <3>1. /\ Folded' = Folded \union batch
          /\ Cardinality(Folded') = Cardinality(Folded) + Cardinality(batch)
      BY <1>1, FoldedGrows
    <3>2. Folded \union batch \in SUBSET Event
      BY <2>1, ClaimedBatch DEF IInv, Folded
    <3>3. IsFiniteSet(Event) /\ Cardinality(Event) = MaxEvents
      <4>1. 1 \in Int /\ MaxEvents \in Int
        OBVIOUS
      <4>2. /\ IsFiniteSet(1..MaxEvents)
            /\ Cardinality(1..MaxEvents) = IF 1 > MaxEvents THEN 0 ELSE MaxEvents - 1 + 1
        BY <4>1, FS_Interval
      <4> QED
        BY <4>2 DEF Event
    <3>4. Cardinality(Folded \union batch) <= Cardinality(Event)
      BY <3>2, <3>3, FS_Subset
    <3> QED
      BY <3>1, <3>3, <3>4
  <2>6. A!Counted = Cardinality(Folded)
    BY CountedIsFolded DEF IInv
  <2> HIDE DEF samples
  <2>7. PICK slice \in AP!Batches(Limit) :
            /\ AP!Cardinality(DOMAIN slice) = AP!Cardinality(DOMAIN samples)
            /\ AP!Fold(slice, now) <=> AP!Fold(samples, now)
    <3>1. AP!Cardinality(DOMAIN samples) <= Limit /\ DOMAIN samples # {}
      BY <2>2, <2>3, SameCardinality
    <3>2. Limit \in Nat
      OBVIOUS
    <3> QED
      BY <2>2, <3>1, <3>2, AP!SliceOfBatch, TablesHold
  <2>8. slice \in A!Batches(Limit)
    BY <2>7 DEF A!Batches, AP!Batches, A!Sample, AP!Sample, A!Bin, AP!Bin
  <2>9. A!Fold(slice, now)
    BY <2>4, <2>7, SameFold
  <2>10. A!Counted + A!Cardinality(DOMAIN slice) <= MaxEvents
    BY <2>2, <2>5, <2>6, <2>7, SameCardinality
  <2>11. A!Next
    BY <2>1, <2>8, <2>9, <2>10 DEF A!Next
  <2> QED
    BY <2>11
<1>2. CASE UNCHANGED <<folds, pageMinute, siteMinute, pageCurrent>>
  BY <1>2 DEF A!vars
<1> QED
  BY <1>1, <1>2, OnlyApplyFolds

\* Pipeline implements AggStore: the queue, its crashes and its recovery only ever
\* fold batches of at most Limit samples, one after the other.
THEOREM ImplementsTables == Spec => A!Spec
<1>1. Init => A!Init
  BY DEF Init
<1> QED
  BY <1>1, StepIsTableStep, Inductive, PTL DEF Spec, A!Spec

\* So the past of the tables is fixed in it: only one minute's buckets ever change
\* at a time, and only by growing, through every crash and recovery.
THEOREM PastStaysFixed == Spec => A!OneMinuteGrows
<1>1. IInv /\ [A!Next]_(A!vars) => [A!OneMinuteGrowsStep]_(A!vars)
  <2>1. AP!IInv /\ [AP!Next]_(AP!vars) => [AP!OneMinuteGrowsStep]_(AP!vars)
    BY AP!StepGrows, TablesHold
  <2> QED
    BY <2>1, SameTablesInv, SameTableStep DEF IInv
<1> QED
  BY <1>1, StepIsTableStep, Inductive, PTL DEF Spec, A!OneMinuteGrows

\* What AggStore's own specification promises of the tables holds here too, of
\* batches that are named by their events.
THEOREM TablesStayDerived ==
    Spec => [](A!SiteMergesPages /\ A!CurrentIsDerived /\ A!TrendIsNearestRank)
<1>1. A!TrendIsNearestRank <=> AP!TrendIsNearestRank
  BY SameSum DEF A!TrendIsNearestRank, AP!TrendIsNearestRank, A!Minute, AP!Minute,
                 A!MinuteOf, AP!MinuteOf, A!Bin, AP!Bin
<1>2. AP!IInv => AP!TrendIsNearestRank
  BY AP!TrendFollows, TablesHold
<1>3. IInv => A!SiteMergesPages /\ A!CurrentIsDerived /\ A!TrendIsNearestRank
  BY <1>1, <1>2, SameTablesInv DEF IInv, A!IInv
<1> QED
  BY <1>3, Inductive, PTL

-----------------------------------------------------------------------------
(* The replies of the api over the tables of the composed system.           *)

\* What ReadSurfaceProofs assumes, in its own copies of the operators.
LEMMA RepliesHold ==
    /\ RP!IsFiniteSet(Site) /\ RP!IsFiniteSet(Page)
    /\ UpperMs \in [RP!Bin -> Nat \ {0}]
    /\ \A a, b \in RP!Bin : a < b => UpperMs[a] < UpperMs[b]
    /\ 20 \in Nat \ {0} /\ 1440 \in Nat \ {0}
<1>1. \A S : RP!IsFiniteSet(S) <=> IsFiniteSet(S)
  BY DEF RP!IsFiniteSet, IsFiniteSet
<1> QED
  BY <1>1 DEF RP!Bin

\* Its Fold is AggStore's.
LEMMA SameReadFold ==
    ASSUME NEW b, NEW t
    PROVE  A!Fold(b, t) <=> RP!Fold(b, t)
<1>1. A!FoldPageMinute(b, A!MinuteOf(t)) <=> RP!FoldPageMinute(b, RP!MinuteOf(t))
  BY DEF A!FoldPageMinute, RP!FoldPageMinute, A!Merge, RP!Merge, A!PageAdded,
         RP!PageAdded, A!PageSamples, RP!PageSamples, A!Bin, RP!Bin, A!Minute,
         RP!Minute, A!MinuteOf, RP!MinuteOf, A!Cardinality, RP!Cardinality
<1>2. A!FoldPageCurrent(b, t) <=> RP!FoldPageCurrent(b, t)
  BY DEF A!FoldPageCurrent, RP!FoldPageCurrent, A!PageSamples, RP!PageSamples,
         A!Trailing, RP!Trailing, A!Bin, RP!Bin, A!Minute, RP!Minute, A!MinuteOf,
         RP!MinuteOf, A!Count, RP!Count, A!UpTo, RP!UpTo, A!P75, RP!P75, A!Min,
         RP!Min, A!SumOver, RP!SumOver, A!MapThenSumSet, RP!MapThenSumSet,
         A!MapThenFoldSet, RP!MapThenFoldSet, A!Cardinality, RP!Cardinality
<1>3. A!FoldSiteMinute(b, A!MinuteOf(t)) <=> RP!FoldSiteMinute(b, RP!MinuteOf(t))
  BY DEF A!FoldSiteMinute, RP!FoldSiteMinute, A!Merge, RP!Merge, A!SiteAdded,
         RP!SiteAdded, A!Bin, RP!Bin, A!Minute, RP!Minute, A!MinuteOf, RP!MinuteOf,
         A!Count, RP!Count, A!UpTo, RP!UpTo, A!P75, RP!P75, A!Min, RP!Min, A!SumOver,
         RP!SumOver, A!MapThenSumSet, RP!MapThenSumSet, A!MapThenFoldSet,
         RP!MapThenFoldSet, A!Cardinality, RP!Cardinality
<1> QED
  BY <1>1, <1>2, <1>3 DEF A!Fold, RP!Fold

\* And so is its specification.
LEMMA SameReadSpec ==
    /\ A!Init <=> RP!Init
    /\ [A!Next]_(A!vars) <=> [RP!Next]_(RP!vars)
<1>1. A!Init <=> RP!Init
  BY DEF A!Init, RP!Init, A!EmptyHist, RP!EmptyHist, A!Bin, RP!Bin, A!Minute,
         RP!Minute, A!MinuteOf, RP!MinuteOf
<1>2. A!Batches(Limit) = RP!Batches(Limit) /\ A!Time = RP!Time
  BY DEF A!Batches, RP!Batches, A!Sample, RP!Sample, A!Bin, RP!Bin, A!Time, RP!Time
<1>3. A!Counted = RP!Counted
  BY DEF A!Counted, RP!Counted, A!SumOver, RP!SumOver, A!MapThenSumSet,
         RP!MapThenSumSet, A!MapThenFoldSet, RP!MapThenFoldSet
<1>4. \A S : A!Cardinality(S) = RP!Cardinality(S)
  BY DEF A!Cardinality, RP!Cardinality
<1>5. A!Next <=> RP!Next
  BY <1>2, <1>3, <1>4, SameReadFold DEF A!Next, RP!Next
<1> QED
  BY <1>1, <1>5 DEF A!vars, RP!vars

\* What a client of the api sees while the worker folds, dies and recovers never
\* goes backwards, with the code's limits of 20 pages and 1440 minutes.
THEOREM RepliesNeverGoBack ==
    Spec => RP!PagesOnlyGrow /\ RP!TrendSlides /\ []RP!SitesAreUsable
<1>1. RP!Spec => RP!PagesOnlyGrow
  BY RP!PagesGrow, RepliesHold
<1>2. RP!Spec => RP!TrendSlides
  BY RP!TrendsSlide, RepliesHold
<1>3. RP!Spec => []RP!SitesAreUsable
  BY RP!SitesUsable, RepliesHold
<1> QED
  BY <1>1, <1>2, <1>3, SameReadSpec, ImplementsTables, PTL DEF A!Spec, RP!Spec
=============================================================================
