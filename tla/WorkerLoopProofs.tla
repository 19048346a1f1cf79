-------------------------- MODULE WorkerLoopProofs --------------------------
(***************************************************************************)
(* Machine-checked proofs about WorkerLoop, for every number of events,    *)
(* every batch limit and every number of retained markers.                 *)
(***************************************************************************)
EXTENDS WorkerLoop, FiniteSetTheorems, TLAPS

USE MaxEventsAssumption, LimitAssumption, KeepBatchesAssumption

-----------------------------------------------------------------------------
(* Facts about the operators. *)

\* CHOOSE finds the largest element of a set of numbers that has one.
LEMMA MaxIsLargest ==
    ASSUME NEW S \in SUBSET Int, NEW x \in S, \A y \in S : y <= x
    PROVE  Max(S) = x
<1>1. \A y \in S : x >= y
  OBVIOUS
<1>2. \A z \in S : (\A y \in S : z >= y) => z = x
  OBVIOUS
<1> QED
  BY <1>1, <1>2 DEF Max

\* LIMIT n over rows that follow each other in id order takes the first n.
LEMMA OldestOfRun ==
    ASSUME NEW lo \in Nat, NEW hi \in Nat, NEW n \in Nat,
           hi <= MaxEvents, TypeOK,
           \A e, f \in Event : lo < e /\ e < f /\ f <= hi => rowid[e] < rowid[f]
    PROVE  Oldest({e \in Event : lo < e /\ e <= hi}, n) =
               {e \in Event : lo < e /\ e <= hi /\ e <= lo + n}
<1> DEFINE S == {e \in Event : lo < e /\ e <= hi}
<1>1. ASSUME NEW e \in S
      PROVE  Cardinality({f \in S : rowid[f] < rowid[e]}) = e - 1 - lo
  <2>1. \A f \in S : rowid[f] \in Nat
    BY DEF TypeOK
  <2>2. \A f \in S : rowid[f] < rowid[e] <=> f < e
    BY <2>1 DEF Event
  <2>3. {f \in S : rowid[f] < rowid[e]} = (lo + 1)..(e - 1)
    BY <2>2 DEF Event
  <2>4. Cardinality((lo + 1)..(e - 1)) =
            IF lo + 1 > e - 1 THEN 0 ELSE (e - 1) - (lo + 1) + 1
    BY FS_Interval DEF Event
  <2>5. Cardinality((lo + 1)..(e - 1)) = e - 1 - lo
    <3>1. e \in Nat /\ lo < e
      BY DEF Event
    <3> QED
      BY <2>4, <3>1
  <2> QED
    BY <2>3, <2>5
<1>2. \A e \in S : (e - 1 - lo < n) <=> (e <= lo + n)
  BY DEF Event
<1> QED
  BY <1>1, <1>2 DEF Oldest

-----------------------------------------------------------------------------
(* Facts that hold in every state of the invariant's shape. *)

\* A new row's id is larger than those of the rows in the table.
LEMMA NextRowidIsNew ==
    ASSUME TypeOK, NEW lo \in 0..arrived, QueueShape(lo)
    PROVE  /\ NextRowid \in Nat \ {0}
           /\ \A e \in Rows : rowid[e] < NextRowid
<1> USE DEF TypeOK
<1>1. CASE Rows = {}
  BY <1>1 DEF NextRowid
<1>2. CASE Rows # {}
  <2>1. arrived \in Rows
    BY <1>2 DEF Rows, QueueShape, Event
  <2>2. ASSUME NEW e \in Rows
        PROVE  rowid[e] <= rowid[arrived]
    <3>1. e \in Event /\ arrived \in Event /\ rowid[e] \in Nat /\ rowid[arrived] \in Nat
      BY <2>1 DEF Rows
    <3>2. lo < e /\ e <= arrived
      BY DEF Rows, QueueShape
    <3>3. CASE e = arrived
      BY <3>1, <3>3
    <3>4. CASE e < arrived
      BY <3>1, <3>2, <3>4 DEF QueueShape
    <3> QED
      BY <3>1, <3>2, <3>3, <3>4 DEF Event
  <2>3. Max({rowid[e] : e \in Rows}) = rowid[arrived]
    <3> DEFINE S == {rowid[e] : e \in Rows}
    <3>1. \A e \in Rows : rowid[e] \in Int
      BY DEF Rows
    <3>2. rowid[arrived] \in S
      BY <2>1
    <3>3. S \in SUBSET Int
      BY <3>1
    <3>4. \A y \in S : y <= rowid[arrived]
      BY <2>2
    <3> HIDE DEF S
    <3>5. Max(S) = rowid[arrived]
      BY <3>2, <3>3, <3>4, MaxIsLargest
    <3> QED
      BY <3>5 DEF S
  <2> QED
    BY <1>2, <2>1, <2>2, <2>3 DEF NextRowid, Rows
<1> QED
  BY <1>1, <1>2

\* MAX(batch_id), or 0, is the last batch that was applied.
LEMMA LastBatchIDIsLast ==
    ASSUME TypeOK, NEW last \in Nat, MarkerShape(last)
    PROVE  LastBatchID = last
<1>1. CASE applied = {}
  BY <1>1 DEF LastBatchID, MarkerShape
<1>2. CASE applied # {}
  <2>1. last \in applied /\ \A b \in applied : b <= last
    BY <1>2 DEF MarkerShape
  <2>2. applied \in SUBSET Int
    BY DEF TypeOK
  <2>3. Max(applied) = last
    BY <2>1, <2>2, MaxIsLargest
  <2> QED
    BY <1>2, <2>3 DEF LastBatchID
<1> QED
  BY <1>1, <1>2

\* The rows, the claimed rows and the free rows, as runs of the arrivals.
LEMMA RowSets ==
    ASSUME TypeOK, NEW lo \in 0..arrived, NEW m \in 0..arrived,
           NEW k \in 0..arrived, NEW last \in 0..m, Shape(lo, m, k, last)
    PROVE  /\ Rows = {e \in Event : lo < e /\ e <= arrived}
           /\ ClaimedRows = {e \in Event : lo < e /\ e <= k}
           /\ UnclaimedRows = {e \in Event : k < e /\ e <= arrived}
<1>1. Rows = {e \in Event : lo < e /\ e <= arrived}
  BY DEF Shape, QueueShape, Rows
<1>2. \A e \in Event : lo < e /\ e <= k => claim[e] # Unclaimed
  <2>1. CASE m = lo
    BY <2>1 DEF Shape, ClaimShape, Unclaimed
  <2>2. CASE m # lo
    <3>1. lo < m
      BY <2>2 DEF Shape, Cut
    <3>2. last # 0
      BY <3>1 DEF Shape, ClaimShape, MarkerShape
    <3> QED
      BY <2>2, <3>2 DEF Shape, ClaimShape, Unclaimed
  <2> QED
    BY <2>1, <2>2
<1>3. \A e \in Event : k < e => claim[e] = Unclaimed
  BY DEF Shape, ClaimShape
<1> QED
  BY <1>1, <1>2, <1>3 DEF ClaimedRows, UnclaimedRows, Shape, Cut, Event, TypeOK

-----------------------------------------------------------------------------
(* The inductive invariant. *)

\* A fresh volume: all cuts are at zero.
LEMMA InitIInv == Init => IInv
<1> SUFFICES ASSUME Init PROVE IInv
  OBVIOUS
<1>1. TypeOK
  BY DEF Init, TypeOK, NoRow, Unclaimed
<1>2. Shape(0, 0, 0, 0)
  <2>1. Cut(0, 0, 0) /\ FoldShape(0)
    BY DEF Init, Cut, FoldShape, Event
  <2>2. QueueShape(0) /\ ClaimShape(0, 0, 0, 0)
    BY DEF Init, QueueShape, ClaimShape, Event, NoRow, Unclaimed
  <2>3. MarkerShape(0) /\ ProcessShape(0, 0, 0, 0)
    BY DEF Init, MarkerShape, ProcessShape
  <2> QED
    BY <2>1, <2>2, <2>3 DEF Shape
<1> QED
  BY <1>1, <1>2 DEF IInv, Init

\* An INSERT appends to the run of rows and touches no claim.
LEMMA EnqueueKeepsIInv == IInv /\ Enqueue => IInv'
<1> SUFFICES ASSUME IInv, Enqueue PROVE IInv'
  OBVIOUS
<1> PICK lo \in 0..arrived, m \in 0..arrived, k \in 0..arrived :
        \E last \in 0..m : Shape(lo, m, k, last)
  BY DEF IInv
<1> PICK last \in 0..m : Shape(lo, m, k, last)
  OBVIOUS
<1> USE DEF Enqueue
<1>1. TypeOK
  BY DEF IInv
<1>2. NextRowid \in Nat \ {0} /\ \A e \in Rows : rowid[e] < NextRowid
  BY <1>1, NextRowidIsNew DEF Shape
<1>3. TypeOK'
  <2>1. arrived' \in 0..MaxEvents
    BY <1>1 DEF TypeOK
  <2>2. rowid' \in [Event -> Nat]
    BY <1>1, <1>2 DEF TypeOK
  <2>3. claim' \in [Event -> Nat]
    BY <1>1 DEF TypeOK, Unclaimed
  <2> QED
    BY <1>1, <2>1, <2>2, <2>3 DEF TypeOK
<1>4. \A e \in Event : e # arrived + 1 => rowid'[e] = rowid[e] /\ claim'[e] = claim[e]
  BY <1>1 DEF TypeOK
<1>5. rowid'[arrived + 1] = NextRowid /\ claim'[arrived + 1] = Unclaimed
  BY <1>1 DEF TypeOK, Event
<1>6. QueueShape(lo)'
  <2>1. \A e \in Event : rowid'[e] # NoRow <=> lo < e /\ e <= arrived'
    BY <1>1, <1>2, <1>4, <1>5 DEF TypeOK, Shape, QueueShape, NoRow, Event
  <2>2. \A e \in Event : lo < e /\ e <= arrived => rowid[e] < NextRowid
    BY <1>2 DEF Shape, QueueShape, Rows
  <2>3. \A e, f \in Event : lo < e /\ e < f /\ f <= arrived' => rowid'[e] < rowid'[f]
    BY <1>1, <1>4, <1>5, <2>2 DEF TypeOK, Shape, QueueShape, Event
  <2> QED
    BY <2>1, <2>3 DEF QueueShape
<1>7. ClaimShape(lo, m, k, last)'
  <2>1. \A e \in Event : k < e => claim'[e] = Unclaimed
    BY <1>4, <1>5 DEF Shape, ClaimShape
  <2>2. \A e \in Event : e <= k => claim'[e] = claim[e]
    BY <1>1, <1>4 DEF TypeOK, Event
  <2>3. applied' = applied
    OBVIOUS
  <2> QED
    BY <2>1, <2>2, <2>3 DEF Shape, ClaimShape
<1>8. ProcessShape(lo, m, k, last)'
  <2>1. \A e \in Event : e <= k => claim'[e] = claim[e]
    BY <1>1, <1>4 DEF TypeOK, Event
  <2>2. UNCHANGED <<applied, pc, next, batch, todo>>
    OBVIOUS
  <2> QED
    BY <2>1, <2>2 DEF Shape, ProcessShape
<1>9. Shape(lo, m, k, last)'
  BY <1>6, <1>7, <1>8 DEF Shape, Cut, FoldShape, MarkerShape
<1>10. lo \in 0..arrived' /\ m \in 0..arrived' /\ k \in 0..arrived'
  BY <1>1 DEF TypeOK
<1> QED
  BY <1>3, <1>9, <1>10 DEF IInv

\* The process starts, dies, is stopped or reads the claims: the databases,
\* and with them the cuts, stay as they are.
LEMMA ProcessKeepsIInv ==
    IInv /\ (Deploy \/ Restart \/ Fail \/ Stop \/ InFlight) => IInv'
<1> SUFFICES ASSUME IInv, Deploy \/ Restart \/ Fail \/ Stop \/ InFlight
             PROVE  IInv'
  OBVIOUS
<1> PICK lo \in 0..arrived, m \in 0..arrived, k \in 0..arrived :
        \E last \in 0..m : Shape(lo, m, k, last)
  BY DEF IInv
<1> PICK last \in 0..m : Shape(lo, m, k, last)
  OBVIOUS
<1>1. TypeOK
  BY DEF IInv
<1>2. ClaimIds \subseteq Nat \ {0}
  BY <1>1 DEF ClaimIds, ClaimedRows, Rows, Unclaimed, TypeOK
<1>3. UNCHANGED <<arrived, rowid, claim, applied, folds>>
  BY DEF Deploy, Restart, Fail, Stop, InFlight, queueDb, aggDb
<1>4. TypeOK'
  <2>1. pc' \in {"stopped", "exited", "starting", "recovering"}
    BY DEF Deploy, Restart, Fail, Stop, InFlight
  <2>2. /\ next' \in {next, 0}
        /\ batch' \in {batch, {}}
        /\ todo' \in {todo, {}, ClaimIds}
    BY DEF Deploy, Restart, Fail, Stop, InFlight, FreshMemory
  <2>3. next' \in Nat /\ batch' \subseteq Event
    BY <1>1, <2>2 DEF TypeOK
  <2>4. todo' \subseteq Nat \ {Unclaimed}
    BY <1>1, <1>2, <2>2 DEF TypeOK, Unclaimed
  <2> QED
    BY <1>1, <1>3, <2>1, <2>3, <2>4 DEF TypeOK
<1>5. ProcessShape(lo, m, k, last)'
  <2>1. CASE Deploy \/ Restart
    BY <2>1 DEF Shape, ProcessShape, Deploy, Restart
  <2>2. CASE Fail \/ Stop
    BY <2>2 DEF ProcessShape, Fail, Stop, FreshMemory
  <2>3. CASE InFlight
    <3>1. \A e \in Event : lo < e /\ e <= k => e \in ClaimedRows
      BY <1>1, RowSets
    <3>2. \A e \in Event : lo < e /\ e <= k => claim[e] \in ClaimIds
      BY <3>1 DEF ClaimIds
    <3> QED
      BY <1>2, <1>3, <2>3, <3>2 DEF ProcessShape, InFlight
  <2> QED
    BY <2>1, <2>2, <2>3
<1>6. Shape(lo, m, k, last)'
  BY <1>3, <1>5 DEF Shape, Cut, FoldShape, QueueShape, ClaimShape, MarkerShape
<1> QED
  BY <1>3, <1>4, <1>6 DEF IInv

\* Recovery moves one cut: a folded batch leaves the queue (lo moves up to
\* k), an unfolded one is given back (k moves down to lo).
LEMMA ResolveKeepsIInv == IInv /\ (\E id \in todo : Resolve(id)) => IInv'
<1> SUFFICES ASSUME IInv, NEW id \in todo, Resolve(id) PROVE IInv'
  OBVIOUS
<1> PICK lo \in 0..arrived, m \in 0..arrived, k \in 0..arrived :
        \E last \in 0..m : Shape(lo, m, k, last)
  BY DEF IInv
<1> PICK last \in 0..m : Shape(lo, m, k, last)
  OBVIOUS
<1>1. TypeOK
  BY DEF IInv
<1>2. id \in Nat \ {0} /\ pc = "recovering"
  BY <1>1 DEF TypeOK, Resolve, Unclaimed
<1>3. TypeOK'
  BY <1>1 DEF TypeOK, Resolve, DeleteRows, Unclaim, RowsOf, NoRow, Unclaimed, aggDb
<1>4. UNCHANGED <<arrived, applied, folds, pc, next, batch>> /\ todo' = todo \ {id}
  BY DEF Resolve, aggDb
<1>5. RowsOf(id) = {e \in Event : lo < e /\ e <= k /\ claim[e] = id}
  BY <1>1, <1>2, RowSets DEF RowsOf, ClaimedRows, Unclaimed
<1>6. CASE RowsOf(id) = {}
  <2>1. UNCHANGED <<rowid, claim>>
    BY <1>1, <1>6 DEF Resolve, DeleteRows, Unclaim, TypeOK
  <2>2. ProcessShape(lo, m, k, last)'
    BY <1>2, <1>4, <1>5, <1>6, <2>1 DEF Shape, ProcessShape
  <2>3. Shape(lo, m, k, last)'
    BY <1>4, <2>1, <2>2 DEF Shape, Cut, FoldShape, QueueShape, ClaimShape, MarkerShape
  <2> QED
    BY <1>3, <1>4, <2>3 DEF IInv
<1>7. CASE RowsOf(id) # {}
  <2>1. lo < k /\ id = IF m = lo THEN last + 1 ELSE last
    BY <1>5, <1>7 DEF Shape, ClaimShape, Event
  <2>2. RowsOf(id) = {e \in Event : lo < e /\ e <= k}
    BY <1>5, <2>1 DEF Shape, ClaimShape
  <2>3. CASE m = lo
    <3>1. id \notin applied
      BY <2>1, <2>3 DEF Shape, MarkerShape
    <3>2. /\ UNCHANGED rowid
          /\ claim' = [e \in Event |-> IF e \in RowsOf(id) THEN Unclaimed ELSE claim[e]]
      BY <3>1 DEF Resolve, Unclaim
    <3>3. ClaimShape(lo, m, lo, last)'
      BY <1>4, <2>2, <2>3, <3>2 DEF Shape, ClaimShape, Event
    <3>4. ProcessShape(lo, m, lo, last)'
      BY <1>2, <1>4 DEF Shape, ProcessShape, Event
    <3>5. Shape(lo, m, lo, last)'
      BY <1>4, <2>3, <3>2, <3>3, <3>4 DEF Shape, Cut, FoldShape, QueueShape, MarkerShape
    <3> QED
      BY <1>3, <1>4, <3>5 DEF IInv
  <2>4. CASE m # lo
    <3>1. m = k /\ lo < m
      BY <2>4 DEF Shape, Cut
    <3>2. id \in applied
      BY <2>1, <2>4, <3>1 DEF Shape, ClaimShape
    <3>3. DeleteRows(RowsOf(id))
      BY <3>2 DEF Resolve
    <3>4. QueueShape(k)'
      <4>1. \A e \in Event : rowid'[e] # NoRow <=> k < e /\ e <= arrived'
        BY <1>4, <2>2, <3>1, <3>3 DEF Shape, QueueShape, DeleteRows, Event
      <4>2. \A e \in Event : k < e => rowid'[e] = rowid[e]
        BY <2>2, <3>3 DEF DeleteRows, Event
      <4> QED
        BY <1>4, <2>1, <4>1, <4>2 DEF Shape, QueueShape, Event
    <3>5. ClaimShape(k, m, k, last)'
      BY <1>4, <2>2, <3>1, <3>3 DEF Shape, ClaimShape, DeleteRows, Event
    <3>6. ProcessShape(k, m, k, last)'
      BY <1>2, <1>4 DEF Shape, ProcessShape, Event
    <3>7. Shape(k, m, k, last)'
      BY <1>4, <3>1, <3>4, <3>5, <3>6 DEF Shape, Cut, FoldShape, MarkerShape
    <3> QED
      BY <1>3, <1>4, <3>7 DEF IInv
  <2> QED
    BY <2>3, <2>4
<1> QED
  BY <1>6, <1>7

\* With every claim resolved, the position is one past the newest marker.
LEMMA PositionKeepsIInv == IInv /\ Position => IInv'
<1> SUFFICES ASSUME IInv, Position PROVE IInv'
  OBVIOUS
<1> PICK lo \in 0..arrived, m \in 0..arrived, k \in 0..arrived :
        \E last \in 0..m : Shape(lo, m, k, last)
  BY DEF IInv
<1> PICK last \in 0..m : Shape(lo, m, k, last)
  OBVIOUS
<1>1. TypeOK
  BY DEF IInv
<1>2. UNCHANGED <<arrived, rowid, claim, applied, folds, batch, todo>>
  BY DEF Position, queueDb, aggDb
<1>3. k = lo
  <2>1. ~ \E e \in Event : lo < e /\ e <= k
    BY DEF Position, Shape, ProcessShape
  <2>2. k \in Event \/ k = 0
    BY <1>1 DEF TypeOK, Event
  <2> QED
    BY <2>1, <2>2 DEF Shape, Cut
<1>4. next' = last + 1
  BY <1>1, LastBatchIDIsLast DEF Position, Shape
<1>5. TypeOK'
  BY <1>1, <1>2, <1>4 DEF TypeOK, Position
<1>6. ProcessShape(lo, m, k, last)'
  BY <1>2, <1>3, <1>4 DEF Position, Shape, ProcessShape
<1>7. Shape(lo, m, k, last)'
  BY <1>2, <1>6 DEF Shape, Cut, FoldShape, QueueShape, ClaimShape, MarkerShape
<1> QED
  BY <1>2, <1>5, <1>7 DEF IInv

\* Claim moves k up, by at most a batch, over the oldest rows.
LEMMA ClaimKeepsIInv == IInv /\ Claim => IInv'
<1> SUFFICES ASSUME IInv, Claim PROVE IInv'
  OBVIOUS
<1> PICK lo \in 0..arrived, m \in 0..arrived, k \in 0..arrived :
        \E last \in 0..m : Shape(lo, m, k, last)
  BY DEF IInv
<1> PICK last \in 0..m : Shape(lo, m, k, last)
  OBVIOUS
<1>1. TypeOK
  BY DEF IInv
<1>2. pc = "idle" /\ k = lo /\ m = lo /\ next = last + 1
  BY DEF Claim, Shape, ProcessShape, Cut
<1>3. UNCHANGED <<arrived, rowid, applied, folds, next, todo>> /\ pc' = "claimed"
  BY DEF Claim, aggDb
<1>4. UnclaimedRows = {e \in Event : lo < e /\ e <= arrived} /\ lo < arrived
  <2>1. UnclaimedRows # {} /\ UnclaimedRows = {e \in Event : lo < e /\ e <= arrived}
    BY <1>1, <1>2, RowSets DEF Claim
  <2> QED
    BY <1>1, <2>1 DEF TypeOK, Event
<1> PICK top \in 0..arrived : top = IF arrived <= lo + Limit THEN arrived ELSE lo + Limit
  BY <1>1 DEF TypeOK
<1>5. batch' = {e \in Event : lo < e /\ e <= top}
  <2>1. \A e, f \in Event : lo < e /\ e < f /\ f <= arrived => rowid[e] < rowid[f]
    BY DEF Shape, QueueShape
  <2>2. Oldest(UnclaimedRows, Limit) =
            {e \in Event : lo < e /\ e <= arrived /\ e <= lo + Limit}
    <3>1. lo \in Nat /\ arrived \in Nat /\ arrived <= MaxEvents
      BY <1>1 DEF TypeOK
    <3> QED
      BY <1>1, <1>4, <2>1, <3>1, OldestOfRun
  <2>3. \A e \in Event : (e <= arrived /\ e <= lo + Limit) <=> e <= top
    BY <1>1 DEF TypeOK, Event
  <2> QED
    BY <2>2, <2>3 DEF Claim
<1>6. claim' = [e \in Event |-> IF e \in batch' THEN next ELSE claim[e]]
  BY DEF Claim
<1>7. TypeOK'
  BY <1>1, <1>3, <1>5, <1>6 DEF TypeOK
<1>8. ClaimShape(lo, m, top, last)'
  BY <1>2, <1>3, <1>4, <1>5, <1>6 DEF Shape, ClaimShape, Event
<1>9. ProcessShape(lo, m, top, last)'
  BY <1>2, <1>3, <1>4, <1>5 DEF Shape, ProcessShape
<1>10. Shape(lo, m, top, last)'
  BY <1>2, <1>3, <1>4, <1>8, <1>9 DEF Shape, Cut, FoldShape, QueueShape, MarkerShape
<1> QED
  BY <1>3, <1>4, <1>7, <1>10 DEF IInv

\* Apply moves m up to k; its own marker survives the pruning.
LEMMA ApplyKeepsIInv == IInv /\ Apply => IInv'
<1> SUFFICES ASSUME IInv, Apply PROVE IInv'
  OBVIOUS
<1> PICK lo \in 0..arrived, m \in 0..arrived, k \in 0..arrived :
        \E last \in 0..m : Shape(lo, m, k, last)
  BY DEF IInv
<1> PICK last \in 0..m : Shape(lo, m, k, last)
  OBVIOUS
<1>1. TypeOK
  BY DEF IInv
<1>2. lo < k /\ m = lo /\ next = last + 1 /\ batch = {e \in Event : lo < e /\ e <= k}
  BY DEF Apply, Shape, ProcessShape
<1>3. UNCHANGED <<arrived, rowid, claim, next, batch, todo>> /\ pc' = "applied"
  BY DEF Apply, queueDb
<1>4. /\ next \in applied'
      /\ \A b \in applied' : b \in applied \/ b = next
  BY <1>1 DEF Apply, Marked, TypeOK
<1>5. TypeOK'
  <2>1. applied' \subseteq Nat
    BY <1>1, <1>4 DEF TypeOK
  <2>2. folds' \in [Event -> Nat]
    BY <1>1 DEF TypeOK, Apply
  <2> QED
    BY <1>1, <1>3, <2>1, <2>2 DEF TypeOK
<1>6. FoldShape(k)'
  BY <1>2 DEF Shape, FoldShape, Apply, Event
<1>7. ClaimShape(lo, k, k, last + 1)'
  BY <1>2, <1>3, <1>4 DEF Shape, ClaimShape
<1>8. MarkerShape(last + 1)'
  BY <1>1, <1>2, <1>4 DEF Shape, MarkerShape, TypeOK
<1>9. ProcessShape(lo, k, k, last + 1)'
  BY <1>2, <1>3 DEF Shape, ProcessShape
<1>10. Shape(lo, k, k, last + 1)'
  BY <1>2, <1>3, <1>6, <1>7, <1>8, <1>9 DEF Shape, Cut, QueueShape
<1>11. last + 1 \in 0..k
  BY <1>2
<1> QED
  BY <1>3, <1>5, <1>10, <1>11 DEF IInv

\* Ack moves lo up to k: what it deletes by claim id is the folded batch.
LEMMA AckKeepsIInv == IInv /\ Ack => IInv'
<1> SUFFICES ASSUME IInv, Ack PROVE IInv'
  OBVIOUS
<1> PICK lo \in 0..arrived, m \in 0..arrived, k \in 0..arrived :
        \E last \in 0..m : Shape(lo, m, k, last)
  BY DEF IInv
<1> PICK last \in 0..m : Shape(lo, m, k, last)
  OBVIOUS
<1>1. TypeOK
  BY DEF IInv
<1>2. lo < k /\ m = k /\ next = last
  BY DEF Ack, Shape, ProcessShape
<1>3. UNCHANGED <<arrived, applied, folds, todo>> /\ pc' = "idle" /\ next' = next + 1
  BY DEF Ack, aggDb
<1>4. RowsOf(next) = {e \in Event : lo < e /\ e <= k}
  <2>1. last \in Nat \ {0}
    BY <1>2 DEF Shape, ClaimShape, MarkerShape
  <2>2. RowsOf(next) = {e \in ClaimedRows : claim[e] = last}
    BY <1>2, <2>1 DEF RowsOf, ClaimedRows, Unclaimed
  <2> QED
    BY <1>1, <1>2, <2>2, RowSets DEF Shape, ClaimShape
<1>5. TypeOK'
  BY <1>1, <1>3 DEF TypeOK, Ack, DeleteRows, NoRow, Unclaimed
<1>6. QueueShape(k)'
  <2>1. \A e \in Event : rowid'[e] # NoRow <=> k < e /\ e <= arrived'
    BY <1>2, <1>3, <1>4 DEF Shape, QueueShape, Ack, DeleteRows, Event
  <2>2. \A e \in Event : k < e => rowid'[e] = rowid[e]
    BY <1>4 DEF Ack, DeleteRows, Event
  <2> QED
    BY <1>2, <1>3, <2>1, <2>2 DEF Shape, QueueShape, Event
<1>7. ClaimShape(k, m, k, last)'
  BY <1>2, <1>3, <1>4 DEF Shape, ClaimShape, Ack, DeleteRows, Event
<1>8. ProcessShape(k, m, k, last)'
  BY <1>2, <1>3 DEF Shape, ProcessShape
<1>9. Shape(k, m, k, last)'
  BY <1>2, <1>3, <1>6, <1>7, <1>8 DEF Shape, Cut, FoldShape, MarkerShape
<1> QED
  BY <1>3, <1>5, <1>9 DEF IInv

\* Every action of the api, the platform and the worker keeps the invariant.
LEMMA StepKeepsIInv == IInv /\ [Next]_vars => IInv'
<1> SUFFICES ASSUME IInv, [Next]_vars PROVE IInv'
  OBVIOUS
<1>1. CASE UNCHANGED vars
  <2> USE <1>1 DEF vars
  <2> PICK lo \in 0..arrived, m \in 0..arrived, k \in 0..arrived :
          \E last \in 0..m : Shape(lo, m, k, last)
    BY DEF IInv
  <2> PICK last \in 0..m : Shape(lo, m, k, last)
    OBVIOUS
  <2>1. TypeOK'
    BY DEF IInv, TypeOK
  <2>2. Shape(lo, m, k, last)'
    BY DEF Shape, Cut, FoldShape, QueueShape, ClaimShape, MarkerShape, ProcessShape
  <2> QED
    BY <2>1, <2>2 DEF IInv
<1>2. CASE Next
  BY <1>2, EnqueueKeepsIInv, ProcessKeepsIInv, ResolveKeepsIInv, PositionKeepsIInv,
     ClaimKeepsIInv, ApplyKeepsIInv, AckKeepsIInv DEF Next, WorkerStep
<1> QED
  BY <1>1, <1>2

\* The inductive invariant holds in every reachable state of the worker,
\* through every crash, restart and interleaving with the api.
THEOREM Inductive == Spec => []IInv
BY InitIInv, StepKeepsIInv, PTL DEF Spec

-----------------------------------------------------------------------------
(* What follows from it. *)

\* The columns and the worker's memory keep to their types; new rowids and
\* batch ids are numbers in every state.
THEOREM TypeCorrect == Spec => []TypeOK
<1>1. IInv => TypeOK
  BY DEF IInv
<1> QED
  BY <1>1, Inductive, PTL

\* The aggregates hold a prefix of the accepted events, each counted once:
\* Apply never folds an event twice, skips one or lets one overtake another.
THEOREM ExactlyOnce == Spec => []CountedInOrder
<1>1. ASSUME IInv PROVE CountedInOrder
  <2> PICK lo \in 0..arrived, m \in 0..arrived, k \in 0..arrived :
          \E last \in 0..m : Shape(lo, m, k, last)
    BY <1>1 DEF IInv
  <2>1. folds = [e \in Event |-> IF e <= m THEN 1 ELSE 0]
    BY <1>1 DEF IInv, TypeOK, Shape, FoldShape
  <2> QED
    BY <2>1 DEF CountedInOrder
<1> QED
  BY <1>1, Inductive, PTL

\* An event accepted by the api and not folded yet is still a queue row: no
\* Ack, of the loop or of recovery, deletes it.
THEOREM NoEventLost == Spec => []NothingLost
<1>1. ASSUME IInv PROVE NothingLost
  <2> PICK lo \in 0..arrived, m \in 0..arrived, k \in 0..arrived :
          \E last \in 0..m : Shape(lo, m, k, last)
    BY <1>1 DEF IInv
  <2>1. \A e \in Event : folds[e] = 0 => m < e
    BY DEF Shape, FoldShape, Event
  <2>2. lo <= m
    BY DEF Shape, Cut
  <2> QED
    BY <1>1, <2>1, <2>2 DEF IInv, TypeOK, NothingLost, Shape, QueueShape, Rows, Event
<1> QED
  BY <1>1, Inductive, PTL

\* A folded row never returns to the pool Claim draws from: it carries the
\* claim of a batch whose marker recovery will find.
THEOREM FoldedRowsMarked == Spec => []FoldedRowsAreMarked
<1>1. ASSUME IInv PROVE FoldedRowsAreMarked
  <2> PICK lo \in 0..arrived, m \in 0..arrived, k \in 0..arrived :
          \E last \in 0..m : Shape(lo, m, k, last)
    BY <1>1 DEF IInv
  <2> PICK last \in 0..m : Shape(lo, m, k, last)
    OBVIOUS
  <2>1. SUFFICES ASSUME NEW e \in Rows, folds[e] > 0
                 PROVE  claim[e] \in applied
    BY DEF FoldedRowsAreMarked
  <2>2. e \in Event /\ lo < e /\ e <= m
    BY <2>1 DEF Rows, Shape, FoldShape, QueueShape
  <2>3. m = k /\ m # lo /\ lo < m
    BY <2>2 DEF Event, Shape, Cut
  <2> QED
    BY <2>2, <2>3 DEF Shape, ClaimShape
<1> QED
  BY <1>1, Inductive, PTL

\* At most one batch is in flight and it holds at most Limit rows, which is
\* what lets two differently counted queue depths be compared.
THEOREM OneInFlight == Spec => []AtMostOneInFlight
<1>1. ASSUME IInv PROVE AtMostOneInFlight
  <2> PICK lo \in 0..arrived, m \in 0..arrived, k \in 0..arrived :
          \E last \in 0..m : Shape(lo, m, k, last)
    BY <1>1 DEF IInv
  <2> PICK last \in 0..m : Shape(lo, m, k, last)
    OBVIOUS
  <2>1. ClaimedRows = (lo + 1)..k
    <3>1. ClaimedRows = {e \in Event : lo < e /\ e <= k}
      BY <1>1, RowSets DEF IInv
    <3>2. lo \in Nat /\ k \in Nat /\ k <= MaxEvents
      BY <1>1 DEF IInv, TypeOK
    <3> QED
      BY <3>1, <3>2 DEF Event
  <2>2. Cardinality(ClaimedRows) <= Limit
    <3>1. lo + 1 \in Int /\ k \in Int /\ lo <= k /\ k - lo <= Limit
      BY <1>1 DEF IInv, TypeOK, Shape, Cut
    <3>2. Cardinality((lo + 1)..k) = IF lo + 1 > k THEN 0 ELSE k - (lo + 1) + 1
      BY <3>1, FS_Interval
    <3> QED
      BY <2>1, <3>1, <3>2
  <2>3. Cardinality(ClaimIds) <= 1
    <3> DEFINE id == IF m = lo THEN last + 1 ELSE last
    <3>1. ClaimIds \subseteq {id}
      BY <1>1, <2>1 DEF IInv, ClaimIds, ClaimedRows, Rows, Shape, ClaimShape
    <3>2. IsFiniteSet({id}) /\ Cardinality({id}) = 1
      BY FS_Singleton
    <3> QED
      BY <3>1, <3>2, FS_Subset
  <2> QED
    BY <2>2, <2>3 DEF AtMostOneInFlight
<1> QED
  BY <1>1, Inductive, PTL

\* Batch ids are fresh across restarts and pruning, so the marker's primary
\* key never collides and an old claim never meets a pruned marker.
THEOREM MarkersFresh == Spec => []MarkerFresh
<1>1. ASSUME IInv PROVE MarkerFresh
  <2> PICK lo \in 0..arrived, m \in 0..arrived, k \in 0..arrived :
          \E last \in 0..m : Shape(lo, m, k, last)
    BY <1>1 DEF IInv
  <2> PICK last \in 0..m : Shape(lo, m, k, last)
    OBVIOUS
  <2>1. pc = "claimed" => next \notin applied
    BY DEF Shape, ProcessShape, MarkerShape
  <2>2. LastBatchID = last
    BY <1>1, LastBatchIDIsLast DEF IInv, Shape
  <2>3. ASSUME NEW e \in ClaimedRows, claim[e] <= last
        PROVE  claim[e] \in applied
    <3>1. e \in Event /\ lo < e /\ e <= k
      BY <1>1, RowSets DEF IInv
    <3>2. m # lo
      BY <2>3, <3>1 DEF Shape, ClaimShape
    <3>3. lo < m
      BY <3>2 DEF Shape, Cut
    <3> QED
      BY <3>1, <3>2, <3>3 DEF Shape, ClaimShape
  <2> QED
    BY <2>1, <2>2, <2>3 DEF MarkerFresh, ClaimIds
<1> QED
  BY <1>1, Inductive, PTL

\* Ack deletes by claim id; what it deletes is what this tick claimed.
THEOREM AckExact == Spec => []AckDeletesTheBatch
<1>1. ASSUME IInv PROVE AckDeletesTheBatch
  <2> PICK lo \in 0..arrived, m \in 0..arrived, k \in 0..arrived :
          \E last \in 0..m : Shape(lo, m, k, last)
    BY <1>1 DEF IInv
  <2> PICK last \in 0..m : Shape(lo, m, k, last)
    OBVIOUS
  <2>1. SUFFICES ASSUME pc \in {"claimed", "applied"}
                 PROVE  RowsOf(next) = batch
    BY DEF AckDeletesTheBatch
  <2>2. next = IF m = lo THEN last + 1 ELSE last
    BY <2>1 DEF Shape, ProcessShape
  <2>3. next # Unclaimed
    BY <2>1 DEF Shape, ProcessShape, ClaimShape, MarkerShape, Unclaimed
  <2>4. RowsOf(next) = {e \in ClaimedRows : claim[e] = next}
    BY <2>3 DEF RowsOf, ClaimedRows
  <2>5. batch = {e \in Event : lo < e /\ e <= k}
    BY <2>1 DEF Shape, ProcessShape
  <2> QED
    BY <1>1, <2>2, <2>4, <2>5, RowSets DEF IInv, Shape, ClaimShape
<1> QED
  BY <1>1, Inductive, PTL

\* A row leaves the queue only folded and is given back only unfolded,
\* whichever process, loop or recovery, takes the step.
THEOREM RecoveryIsSound == Spec => RecoverySound
<1>1. ASSUME IInv, [Next]_vars PROVE [RecoverySoundStep]_vars
  <2> PICK lo \in 0..arrived, m \in 0..arrived, k \in 0..arrived :
          \E last \in 0..m : Shape(lo, m, k, last)
    BY <1>1 DEF IInv
  <2> PICK last \in 0..m : Shape(lo, m, k, last)
    OBVIOUS
  <2>1. TypeOK
    BY <1>1 DEF IInv
  \* Applied claims belong to folded rows, and only they do.
  <2>2. ASSUME NEW e \in ClaimedRows
        PROVE  /\ claim[e] \in applied => folds[e] = 1
               /\ claim[e] \notin applied => folds[e] = 0
    <3>1. e \in Event /\ lo < e /\ e <= k
      BY <2>1, RowSets
    <3>2. CASE m = lo
      BY <3>1, <3>2 DEF Shape, ClaimShape, MarkerShape, FoldShape, Event
    <3>3. CASE m # lo
      <4>1. m = k /\ lo < m
        BY <3>3 DEF Shape, Cut
      <4> QED
        BY <3>1, <3>3, <4>1 DEF Shape, ClaimShape, FoldShape
    <3> QED
      BY <3>2, <3>3
  <2>3. CASE UNCHANGED <<rowid, claim>>
    BY <2>3 DEF RecoverySoundStep, Rows
  <2>4. CASE Enqueue
    <3>1. \A e \in Rows : e # arrived + 1
      BY <2>1 DEF Shape, QueueShape, Rows, TypeOK
    <3>2. \A e \in Rows : rowid'[e] = rowid[e] /\ claim'[e] = claim[e]
      BY <2>1, <2>4, <3>1 DEF Enqueue, Rows, TypeOK
    <3> QED
      BY <3>2 DEF RecoverySoundStep, Rows
  <2>5. ASSUME NEW id \in todo, Resolve(id) PROVE RecoverySoundStep
    <3>1. id # Unclaimed
      BY <2>1 DEF TypeOK
    <3>2. RowsOf(id) = {e \in ClaimedRows : claim[e] = id}
      BY <3>1 DEF RowsOf, ClaimedRows
    <3>3. CASE id \in applied
      <4>1. \A e \in Event \ RowsOf(id) : rowid'[e] = rowid[e] /\ claim'[e] = claim[e]
        BY <2>5, <3>3 DEF Resolve, DeleteRows
      <4>2. \A e \in RowsOf(id) : rowid'[e] = NoRow /\ folds[e] = 1
        BY <2>2, <2>5, <3>2, <3>3 DEF Resolve, DeleteRows, Rows, RowsOf
      <4> QED
        BY <4>1, <4>2 DEF RecoverySoundStep, Rows
    <3>4. CASE id \notin applied
      <4>1. rowid' = rowid
        BY <2>5, <3>4 DEF Resolve, Unclaim
      <4>2. \A e \in Event \ RowsOf(id) : claim'[e] = claim[e]
        BY <2>5, <3>4 DEF Resolve, Unclaim
      <4>3. \A e \in RowsOf(id) : folds[e] = 0
        BY <2>2, <3>2, <3>4
      <4> QED
        BY <4>1, <4>2, <4>3 DEF RecoverySoundStep, Rows
    <3> QED
      BY <3>3, <3>4
  <2>6. CASE Claim
    <3>1. next # Unclaimed
      BY <2>6 DEF Claim, Shape, ProcessShape, Unclaimed
    <3> QED
      BY <2>6, <3>1 DEF Claim, RecoverySoundStep, Rows
  <2>7. CASE Ack
    <3>1. next = last /\ m = k /\ lo < m
      BY <2>7 DEF Ack, Shape, ProcessShape
    <3>2. next \in applied /\ next # Unclaimed
      BY <3>1 DEF Shape, ClaimShape, MarkerShape, Unclaimed
    <3>3. \A e \in RowsOf(next) : e \in ClaimedRows /\ folds[e] = 1
      BY <2>2, <3>2 DEF RowsOf, ClaimedRows
    <3>4. \A e \in Event \ RowsOf(next) : rowid'[e] = rowid[e] /\ claim'[e] = claim[e]
      BY <2>7 DEF Ack, DeleteRows
    <3>5. \A e \in RowsOf(next) : rowid'[e] = NoRow
      BY <2>7 DEF Ack, DeleteRows, RowsOf, Rows
    <3> QED
      BY <3>3, <3>4, <3>5 DEF RecoverySoundStep, Rows
  <2>8. CASE Deploy \/ Restart \/ Fail \/ Stop \/ InFlight \/ Position \/ Apply
    BY <2>3, <2>8 DEF Deploy, Restart, Fail, Stop, InFlight, Position, Apply, queueDb
  <2>9. CASE UNCHANGED vars
    BY <2>9
  <2> QED
    BY <1>1, <2>4, <2>5, <2>6, <2>7, <2>8, <2>9 DEF Next, WorkerStep
<1> QED
  BY <1>1, Inductive, PTL DEF Spec, RecoverySound

\* The detailed worker implements the ledger: every step of it is an arrival,
\* a whole batch folded in arrival order, or invisible.
THEOREM ImplementsLedger == Spec => LedgerSpec
<1>1. Init => Ledger!Init
  BY DEF Init, Ledger!Init, Ledger!CountedOnce, Ledger!Event, Event
<1>2. ASSUME IInv, [Next]_vars PROVE [Ledger!Next]_(Ledger!vars)
  <2>1. CASE Enqueue
    BY <2>1 DEF Enqueue, Ledger!Next, Ledger!Arrive
  <2>2. CASE Apply
    <3> PICK lo \in 0..arrived, m \in 0..arrived, k \in 0..arrived :
            \E last \in 0..m : Shape(lo, m, k, last)
      BY <1>2 DEF IInv
    <3> PICK last \in 0..m : Shape(lo, m, k, last)
      OBVIOUS
    <3>1. lo < k /\ m = lo /\ batch = {e \in Event : lo < e /\ e <= k} /\ k - lo <= Limit
      BY <2>2 DEF Apply, Shape, ProcessShape, Cut
    <3>2. folds = Ledger!CountedOnce(m)
      BY <1>2 DEF IInv, TypeOK, Shape, FoldShape, Ledger!CountedOnce, Ledger!Event, Event
    <3>3. folds' = Ledger!CountedOnce(k)
      <4>1. \A e \in Event : folds[e] = IF e <= m THEN 1 ELSE 0
        BY DEF Shape, FoldShape
      <4>2. \A e \in Event :
                (IF e \in batch THEN folds[e] + 1 ELSE folds[e]) = IF e <= k THEN 1 ELSE 0
        BY <3>1, <4>1 DEF Event
      <4> QED
        BY <2>2, <4>2 DEF Apply, Ledger!CountedOnce, Ledger!Event, Event
    <3>4. Ledger!FoldBatch(m, k)
      BY <2>2, <3>1, <3>2, <3>3 DEF Apply, queueDb, Ledger!FoldBatch
    <3> QED
      BY <3>4 DEF Ledger!Next
  <2>3. CASE UNCHANGED <<arrived, folds>>
    BY <2>3 DEF Ledger!vars
  <2>4. ASSUME NEW id \in todo, Resolve(id) PROVE UNCHANGED <<arrived, folds>>
    BY <2>4 DEF Resolve, aggDb
  <2>5. CASE Deploy \/ Restart \/ Fail \/ Stop \/ InFlight \/ Position \/ Claim \/ Ack
    BY <2>3, <2>5 DEF Deploy, Restart, Fail, Stop, InFlight, Position, Claim, Ack,
                      queueDb, aggDb
  <2>6. CASE UNCHANGED vars
    BY <2>3, <2>6 DEF vars
  <2> QED
    BY <1>2, <2>1, <2>2, <2>3, <2>4, <2>5, <2>6 DEF Next, WorkerStep
<1> QED
  BY <1>1, <1>2, Inductive, PTL DEF Spec, LedgerSpec, Ledger!Spec
=============================================================================
