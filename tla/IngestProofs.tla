---------------------------- MODULE IngestProofs ----------------------------
(***************************************************************************)
(* For any number of requests: the load generator's counters bracket what  *)
(* the api committed, and a report without errors is exact.                *)
(***************************************************************************)
EXTENDS Ingest, FiniteSetTheorems, TLAPS

USE IngestAssumption

-----------------------------------------------------------------------------
(* Counting requests. *)

\* Requests made in order are as many as the last one's number.
LEMMA LatestOf ==
    ASSUME NEW n \in Nat, NEW S, S = 1..n
    PROVE  Cardinality(S) = n
BY FS_Interval

\* The committed requests are a finite set, no bigger than that of those made.
LEMMA Counts ==
    ASSUME IInv
    PROVE  /\ IsFiniteSet(committed)
           /\ Cardinality(committed) \in Nat
           /\ Cardinality(committed) <= Latest
           /\ Latest \in 0..MaxSends
<1>1. IsFiniteSet(Send) /\ Cardinality(Send) = MaxSends
  BY FS_Interval DEF Send
<1>2. Made \in SUBSET Send
  BY DEF Made
<1>3. IsFiniteSet(Made) /\ Cardinality(Made) <= MaxSends /\ Cardinality(Made) \in Nat
  BY <1>1, <1>2, FS_Subset, FS_CardinalityType
<1>4. committed \in SUBSET Made
  BY DEF IInv, TypeOK
<1> QED
  BY <1>3, <1>4, FS_Subset, FS_CardinalityType DEF Latest

\* A step that starts no request leaves their number as it is.
LEMMA NoneStarted ==
    ASSUME \A r \in Send : request'[r] # "unsent" <=> request[r] # "unsent"
    PROVE  Made' = Made /\ Latest' = Latest
<1>1. Made' = Made
  BY DEF Made, Send
<1> QED
  BY <1>1 DEF Latest

\* Initially nothing is counted, because nothing was sent.
LEMMA InitInv == Init => IInv
<1> SUFFICES ASSUME Init PROVE IInv
  OBVIOUS
<1> USE DEF Init
<1>1. Made = {} /\ Latest = 0
  BY FS_EmptySet DEF Made, Latest
<1>2. folds \in [Send -> Nat]
  BY DEF L!Init, L!CountedOnce, L!Event, Send
<1>3. TypeOK
  <2>1. 0 \in 0..MaxSends
    OBVIOUS
  <2>2. request \in [Send -> {"unsent", "received", "abandoned", "accepted", "failed",
                             "lost", "cut", "over"}]
    OBVIOUS
  <2> QED
    BY <1>2, <2>1, <2>2 DEF TypeOK
<1>4. RequestsInOrder
  BY <1>1 DEF RequestsInOrder
<1>5. Tally /\ ReportShape
  BY <1>1 DEF Tally, ReportShape
<1>6. CommittedShape
  BY DEF CommittedShape
<1>7. SentIsCommitted
  BY FS_EmptySet DEF SentIsCommitted
<1> QED
  BY <1>3, <1>4, <1>5, <1>6, <1>7 DEF IInv

-----------------------------------------------------------------------------
(* The client's steps. *)

\* while not stop: an attempt is open until it is counted, a refused one at once.
LEMMA LoopTopInv ==
    ASSUME IInv, LoopTop
    PROVE  IInv'
<1> USE DEF LoopTop, IInv
<1>0. /\ Latest \in 0..MaxSends
      /\ sent \in 0..MaxSends /\ errors \in 0..MaxSends
      /\ Latest = sent + errors /\ Made = 1..Latest
      /\ report # NoReport => ~report.exact
  BY Counts DEF TypeOK, Tally, RequestsInOrder, ReportShape
<1>1. CASE pc' = "final" /\ UNCHANGED <<request, errors>>
  <2>1. Made' = Made /\ Latest' = Latest
    BY <1>1, NoneStarted
  <2>2. TypeOK'
    BY <1>1, <2>1 DEF TypeOK
  <2>3. RequestsInOrder' /\ Tally'
    BY <1>0, <1>1, <2>1 DEF RequestsInOrder, Tally
  <2>4. CommittedShape' /\ SentIsCommitted' /\ ReportShape'
    BY <1>0, <1>1, <2>1 DEF CommittedShape, SentIsCommitted, ReportShape
  <2> QED
    BY <2>2, <2>3, <2>4
<1>2. ASSUME NEW code \in {"received", "over"},
             Latest < MaxSends,
             request' = [request EXCEPT ![Latest + 1] = code],
             \/ code = "received" /\ pc' = "waiting" /\ errors' = errors
             \/ code = "over" /\ pc' = "sent" /\ errors' = errors + 1
      PROVE  IInv'
  <2>1. Latest + 1 \in Send
    BY <1>0, <1>2 DEF Send
  <2>2. \A r \in Send : request'[r] = IF r = Latest + 1 THEN code ELSE request[r]
    BY <1>2, <2>1 DEF TypeOK
  <2>3. Made' = 1..(Latest + 1)
    <3>1. \A r \in Send : request'[r] # "unsent" <=> r \in Made \/ r = Latest + 1
      BY <2>2 DEF Made
    <3> QED
      BY <1>0, <1>2, <3>1 DEF Made, Send
  <2>4. Latest' = Latest + 1
    BY <1>0, <2>3, LatestOf DEF Latest
  <2>5. TypeOK'
    <3>1. request' \in [Send -> {"unsent", "received", "abandoned", "accepted", "failed",
                                "lost", "cut", "over"}]
      BY <1>2 DEF TypeOK
    <3>2. committed' \subseteq Made'
      BY <1>0, <2>3 DEF TypeOK
    <3>3. errors' \in 0..MaxSends /\ pc' \in {"waiting", "sent"}
      BY <1>0, <1>2
    <3> QED
      BY <3>1, <3>2, <3>3 DEF TypeOK
  <2>6. RequestsInOrder' /\ Tally'
    BY <1>0, <1>2, <2>3, <2>4 DEF RequestsInOrder, Tally
  <2>7. CommittedShape'
    <3>1. Latest + 1 \notin committed
      BY <1>0 DEF TypeOK
    <3> QED
      BY <1>2, <2>2, <3>1 DEF CommittedShape
  <2>8. SentIsCommitted'
    <3>1. request'[Latest'] = code
      BY <2>1, <2>2, <2>4
    <3> QED
      BY <1>2, <3>1 DEF SentIsCommitted
  <2>9. ReportShape'
    BY <1>0 DEF ReportShape
  <2> QED
    BY <2>5, <2>6, <2>7, <2>8, <2>9
<1> QED
  BY <1>1, <1>2

\* The attempt under way ends: with a reply, with an error, or with the program.
LEMMA AttemptEndsInv ==
    ASSUME IInv, Receive \/ Refused \/ BrokenReply \/ Timeout
    PROVE  IInv'
<1> USE DEF IInv
<1>0. /\ pc = "waiting"
      /\ Latest \in 1..MaxSends
      /\ sent \in 0..MaxSends /\ errors \in 0..MaxSends
      /\ Latest = sent + errors + 1 /\ Made = 1..Latest
      /\ report # NoReport => ~report.exact
  BY Counts DEF TypeOK, Tally, RequestsInOrder, ReportShape, Receive, Refused, BrokenReply, Timeout
<1>1. /\ UNCHANGED <<sent, stop, sigint, report, apiUp, committed, folds>>
      /\ \/ pc' = "replied" /\ errors' = errors /\ request[Latest] = "accepted"
         \/ pc' = "sent" /\ errors' = errors + 1
         \/ pc' = "crashed" /\ errors' = errors
  BY DEF Receive, Refused, BrokenReply, Timeout
<1>2. \A r \in Send :
          \/ request'[r] = request[r]
          \/ /\ r = Latest
             /\ request[r] # "unsent"
             /\ request'[r] = "over" \/ (request[r] = "received" /\ request'[r] = "abandoned")
  BY DEF Receive, Refused, BrokenReply, Timeout, TypeOK
<1>3. Made' = Made /\ Latest' = Latest
  BY <1>2, NoneStarted
<1>4. TypeOK'
  <2>1. request' \in [Send -> {"unsent", "received", "abandoned", "accepted", "failed",
                              "lost", "cut", "over"}]
    BY DEF Receive, Refused, BrokenReply, Timeout, TypeOK
  <2> QED
    BY <1>0, <1>1, <1>3, <2>1 DEF TypeOK
<1>5. RequestsInOrder' /\ Tally'
  BY <1>0, <1>1, <1>3 DEF RequestsInOrder, Tally
<1>6. CommittedShape'
  BY <1>1, <1>2 DEF CommittedShape
<1>7. SentIsCommitted'
  BY <1>0, <1>1 DEF SentIsCommitted
<1>8. ReportShape'
  BY <1>0, <1>1 DEF ReportShape
<1> QED
  BY <1>4, <1>5, <1>6, <1>7, <1>8

\* Counting, pacing, reporting and signals concern no request.
LEMMA BookkeepingInv ==
    ASSUME IInv, Increment \/ Pace \/ Final \/ Signal \/ Interrupt
    PROVE  IInv'
<1> USE DEF IInv
<1>0. /\ Latest \in 0..MaxSends /\ Cardinality(committed) \in Nat
      /\ sent \in 0..MaxSends /\ errors \in 0..MaxSends
      /\ pc \notin {"done", "crashed"}
      /\ report # NoReport => ~report.exact
  BY Counts DEF TypeOK, ReportShape, Increment, Pace, Final, Signal, Interrupt, InLoop
<1>1. /\ UNCHANGED <<request, errors, apiUp, committed, folds>>
      /\ Made' = Made /\ Latest' = Latest
  BY NoneStarted DEF Increment, Pace, Final, Signal, Interrupt
<1>2. TypeOK'
  <2>1. sent' \in 0..MaxSends
    <3>1. CASE Increment
      BY <1>0, <3>1 DEF Increment, Tally
    <3>2. CASE ~Increment
      BY <1>0, <3>2 DEF Pace, Final, Signal, Interrupt
    <3> QED
      BY <3>1, <3>2
  <2>2. report' = NoReport \/ report' \in [exact : BOOLEAN, sent : Nat, errors : Nat]
    <3>1. CASE report' = report
      BY <3>1 DEF TypeOK
    <3>2. ASSUME NEW exact \in BOOLEAN, FinalLine(exact)
          PROVE  report' \in [exact : BOOLEAN, sent : Nat, errors : Nat]
      BY <1>0, <3>2 DEF FinalLine
    <3> QED
      BY <3>1, <3>2 DEF Increment, Pace, Final, Signal, Interrupt
  <2>3. /\ pc' \in {"top", "waiting", "replied", "sent", "final", "done", "crashed"}
        /\ stop' \in BOOLEAN /\ sigint' \in {"flag", "raise"}
    BY DEF TypeOK, Increment, Pace, Final, Signal, Interrupt
  <2> QED
    BY <1>1, <2>1, <2>2, <2>3 DEF TypeOK
<1>3. RequestsInOrder' /\ CommittedShape'
  BY <1>1 DEF RequestsInOrder, CommittedShape
<1>4. Tally' /\ SentIsCommitted' /\ ReportShape'
  <2>1. CASE Increment
    BY <1>0, <1>1, <2>1 DEF Increment, Tally, SentIsCommitted, ReportShape
  <2>2. CASE Pace
    BY <1>0, <1>1, <2>2 DEF Pace, Tally, SentIsCommitted, ReportShape
  <2>3. CASE Final
    BY <1>0, <1>1, <2>3 DEF Final, FinalLine, Tally, SentIsCommitted, ReportShape
  <2>4. CASE Signal
    BY <1>0, <1>1, <2>4 DEF Signal, Tally, SentIsCommitted, ReportShape
  <2>5. CASE Interrupt
    BY <1>0, <1>1, <2>5 DEF Interrupt, FinalLine, Tally, SentIsCommitted, ReportShape, TypeOK
  <2> QED
    BY <2>1, <2>2, <2>3, <2>4, <2>5
<1> QED
  BY <1>2, <1>3, <1>4

-----------------------------------------------------------------------------
(* The api's and the worker's steps. *)

\* The INSERT commits a request that was not committed, answered or not.
LEMMA AcceptInv ==
    ASSUME IInv, NEW r \in Send, Accept(r)
    PROVE  /\ IInv'
           /\ r \notin committed
           /\ Cardinality(committed') = Cardinality(committed) + 1
<1> USE DEF IInv, Accept, client
<1>0. r \notin committed /\ request[r] \in {"received", "abandoned"}
  BY DEF Pending, CommittedShape
<1>1. Cardinality(committed') = Cardinality(committed) + 1 /\ Cardinality(committed) \in Nat
  BY <1>0, Counts, FS_AddElement
<1>2. \A q \in Send : request'[q] =
          IF q = r THEN IF request[r] = "received" THEN "accepted" ELSE "over" ELSE request[q]
  BY DEF Answer, TypeOK
<1>3. Made' = Made /\ Latest' = Latest
  BY <1>0, <1>2, NoneStarted
<1>4. TypeOK'
  <2>1. request' \in [Send -> {"unsent", "received", "abandoned", "accepted", "failed",
                              "lost", "cut", "over"}]
    BY DEF Answer, TypeOK
  <2>2. r \in Made
    BY <1>0 DEF Made
  <2> QED
    BY <1>3, <2>1, <2>2 DEF TypeOK
<1>5. RequestsInOrder' /\ Tally' /\ ReportShape'
  BY <1>3 DEF RequestsInOrder, Tally, ReportShape
<1>6. CommittedShape'
  BY <1>0, <1>2 DEF CommittedShape
<1>7. SentIsCommitted'
  BY <1>1 DEF SentIsCommitted, TypeOK
<1> QED
  BY <1>0, <1>1, <1>4, <1>5, <1>6, <1>7

\* A refused INSERT and a dying api answer requests, or lose them, and keep
\* what was committed.
LEMMA FailInv ==
    ASSUME IInv, (\E r \in Send : Reject(r)) \/ ApiStops
    PROVE  IInv'
<1> USE DEF IInv, Reject, ApiStops, client
<1>0. /\ UNCHANGED <<pc, sent, errors, stop, sigint, report, committed, folds>>
      /\ apiUp' \in BOOLEAN
  BY DEF TypeOK
<1>1. /\ request' \in [Send -> {"unsent", "received", "abandoned", "accepted", "failed",
                                "lost", "cut", "over"}]
      /\ \A r \in Send : \/ request'[r] = request[r]
                         \/ /\ request[r] # "unsent"
                            /\ request'[r] \in {"failed", "lost", "cut", "over"}
  BY DEF TypeOK, Answer, Pending
<1>2. Made' = Made /\ Latest' = Latest
  BY <1>1, NoneStarted
<1>3. TypeOK'
  BY <1>0, <1>1, <1>2 DEF TypeOK
<1>4. RequestsInOrder' /\ Tally' /\ ReportShape'
  BY <1>0, <1>2 DEF RequestsInOrder, Tally, ReportShape
<1>5. CommittedShape'
  BY <1>0, <1>1 DEF CommittedShape
<1>6. SentIsCommitted'
  <2>1. pc = "waiting" => Latest \in Send
    BY Counts DEF Tally, TypeOK, Send
  <2> QED
    BY <1>0, <1>1, <1>2, <2>1 DEF SentIsCommitted
<1> QED
  BY <1>3, <1>4, <1>5, <1>6

\* A deploy of the api and a batch of the worker change no counter.
LEMMA ElsewhereInv ==
    ASSUME IInv, ApiStarts \/ Fold \/ UNCHANGED vars
    PROVE  IInv'
<1> USE DEF IInv
<1>0. UNCHANGED <<pc, sent, errors, stop, sigint, report, request, committed>> /\ apiUp' \in BOOLEAN
  BY DEF ApiStarts, Fold, vars, client, TypeOK
<1>1. folds' \in [Send -> Nat]
  BY DEF ApiStarts, Fold, vars, TypeOK, L!FoldBatch, L!CountedOnce, L!Event, Send
<1>2. Made' = Made /\ Latest' = Latest
  BY <1>0, NoneStarted
<1>3. TypeOK'
  BY <1>0, <1>1, <1>2 DEF TypeOK
<1> QED
  BY <1>0, <1>2, <1>3
  DEF RequestsInOrder, Tally, CommittedShape, SentIsCommitted, ReportShape

LEMMA StepInv ==
    ASSUME IInv, [Next]_vars
    PROVE  IInv'
BY LoopTopInv, AttemptEndsInv, BookkeepingInv, AcceptInv, FailInv, ElsewhereInv
DEF Next, ClientStep

-----------------------------------------------------------------------------
(* Theorems. *)

\* The inductive invariant: requests are made one after the other and counted
\* once, committed before they are answered, and reported when all is counted.
THEOREM Inductive == Spec => []IInv
<1>1. Init => IInv
  BY InitInv
<1>2. IInv /\ [Next]_vars => IInv'
  BY StepInv
<1> QED
  BY <1>1, <1>2, PTL DEF Spec

\* Counters, requests and report keep to their types, and only requests that
\* were made are committed.
THEOREM TypeCorrect == Spec => []TypeOK
<1>1. IInv => TypeOK
  BY DEF IInv
<1> QED
  BY <1>1, Inductive, PTL

\* sent <= committed <= sent + errors, and one more while a request is open,
\* for any number of requests, timeouts, crashes and signals.
THEOREM CountersAreBounds == Spec => []CountersBracket
<1>1. ASSUME IInv PROVE CountersBracket
  <2>1. /\ sent \in Nat /\ errors \in Nat
        /\ Cardinality(committed) \in Nat /\ Cardinality(committed) <= Latest /\ Latest \in Nat
    BY <1>1, Counts DEF IInv, TypeOK
  <2>2. sent + Replied <= Cardinality(committed)
    BY <1>1, <2>1 DEF IInv, SentIsCommitted, Replied
  <2>3. /\ Latest <= sent + errors + 1
        /\ pc \in {"top", "sent", "final"} => Latest = sent + errors
    BY <1>1, <2>1 DEF IInv, Tally, TypeOK
  <2> QED
    BY <2>1, <2>2, <2>3 DEF CountersBracket
<1> QED
  BY <1>1, Inductive, PTL

\* The demo's equality holds for every report that is not forced and has no
\* errors, once queue and network are drained.
THEOREM CleanReportsAreExact == Spec => []CleanFinalIsExact
<1>1. ASSUME IInv PROVE CleanFinalIsExact
  <2> SUFFICES ASSUME report # NoReport, report.exact, report.errors = 0, Drained
               PROVE  Aggregated = report.sent
    BY DEF CleanFinalIsExact
  <2>1. report.sent = sent /\ errors = 0 /\ Latest = sent + errors
    BY <1>1 DEF IInv, ReportShape
  <2>2. sent <= Cardinality(committed) /\ Cardinality(committed) <= Latest
    BY <1>1, Counts DEF IInv, SentIsCommitted
  <2>3. sent \in Nat /\ Cardinality(committed) \in Nat
    BY <1>1, Counts DEF IInv, TypeOK
  <2>4. Aggregated = Cardinality(committed)
    BY DEF Drained
  <2> QED
    BY <2>1, <2>2, <2>3, <2>4
<1> QED
  BY <1>1, Inductive, PTL
=============================================================================
