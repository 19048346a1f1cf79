------------------------------ MODULE Pipeline ------------------------------
(***************************************************************************)
(* WorkerLoop and AggStore together: every event carries a sample, Apply   *)
(* folds the samples of its batch in the transaction that inserts the      *)
(* marker, and an operator watches the recovery the way the runbook says,  *)
(* through the api: the queue depth first, the aggregates afterwards.  The *)
(* worker's own counters and its /healthz are here too; the clock's unit   *)
(* is the second, to which the code truncates.                             *)
(***************************************************************************)
EXTENDS FiniteSetsExt

CONSTANTS
    MaxEvents, Limit, KeepBatches,                    \* WorkerLoop
    Site, Page, NumBins, UpperMs, TicksPerMinute,     \* AggStore
    TrailingMinutes, MaxTime,
    HealthWindow,                                     \* 5 s in the code
    MaxSetBack       \* bound: by how much the clock is set back between two ticks

ASSUME LoopAssumption ==
    /\ MaxEvents \in Nat
    /\ Limit \in Nat \ {0}
    /\ KeepBatches \in Nat \ {0}
ASSUME TablesAssumption ==
    /\ IsFiniteSet(Site) /\ IsFiniteSet(Page)
    /\ NumBins \in Nat \ {0}
    /\ UpperMs \in [1..NumBins -> Nat \ {0}]
    /\ \A a, b \in 1..NumBins : a < b => UpperMs[a] < UpperMs[b]
    /\ TicksPerMinute \in Nat \ {0}
    /\ TrailingMinutes \in Nat \ {0}
ASSUME ClockAssumption ==
    /\ MaxTime \in Nat
    /\ HealthWindow \in Nat
    /\ MaxSetBack \in Nat

VARIABLES
    arrived, rowid, claim, applied, folds, pc, next, batch, todo,
    pageMinute, siteMinute, pageCurrent,
    sample,       \* the sample each event carries through the queue
    sentAt,       \* ts_ms of each event, by a client whose clock is right
    clock,        \* the host's wall clock
    now,          \* Tick's argument: the time the ticker fired, or NotTicking
    watched,      \* what the operator saw: the depth, and what had arrived then
    lastTick,     \* Stats.lastTickUnix
    consumed,     \* Stats.eventsConsumed, of the present process
    base,         \* what the aggregates counted when that process began
    backSinceTick, \* by how much the clock was set back since the time in lastTick
    backSinceFire  \* and since the tick that is under way fired

W == INSTANCE WorkerLoop
A == INSTANCE AggStore

workerVars == <<arrived, rowid, claim, applied, folds, pc, next, batch, todo>>
tables == <<pageMinute, siteMinute, pageCurrent>>
vars == <<arrived, rowid, claim, applied, folds, pc, next, batch, todo, pageMinute,
          siteMinute, pageCurrent, sample, sentAt, clock, now, watched,
          lastTick, consumed, base, backSinceTick, backSinceFire>>
stats == <<lastTick, consumed, base>>
setBack == <<backSinceTick, backSinceFire>>

Event == 1..MaxEvents
Time == 0..MaxTime
NotTicking == MaxTime + 1

\* Sample of an event that has not arrived.
NoSample == <<>>

-----------------------------------------------------------------------------
(* The api. *)

\* POST /events, by a client that stamps the event with the time it sends it.
Enqueue(x) ==
    /\ W!Enqueue
    /\ sample' = [sample EXCEPT ![arrived'] = x]
    /\ sentAt' = [sentAt EXCEPT ![arrived'] = clock]
    /\ UNCHANGED <<tables, clock, now, watched, stats, setBack>>

\* Fault: the api leaves the claimed rows out, as the worker's Depth does.
UnclaimedDepth == Cardinality(W!UnclaimedRows)

\* GET /stats: SELECT count(*) FROM queue, claimed rows included.
QueueDepth == Cardinality(W!Rows)

WatchDepth ==
    /\ watched' = [arrived |-> arrived, depth |-> QueueDepth]
    /\ UNCHANGED <<workerVars, tables, sample, sentAt, clock, now, stats, setBack>>

-----------------------------------------------------------------------------
(* The worker.  The ticker's time is read before Claim waits for its lock. *)

Fire ==
    /\ pc = "idle"
    /\ now = NotTicking
    /\ now' = clock
    /\ backSinceFire' = 0
    /\ UNCHANGED <<workerVars, tables, sample, sentAt, clock, watched, stats, backSinceTick>>

\* The end of a tick that went through, which counts from when it fired.
SawTick ==
    /\ now' = NotTicking
    /\ lastTick' = now
    /\ backSinceTick' = backSinceFire
    /\ backSinceFire' = 0

EmptyTick ==
    /\ pc = "idle"
    /\ now # NotTicking
    /\ W!UnclaimedRows = {}
    /\ SawTick
    /\ UNCHANGED <<workerVars, tables, sample, sentAt, clock, watched, consumed, base>>

\* Fault: the tick is reported as seen once Claim has returned.
ClaimIsTick ==
    /\ now # NotTicking
    /\ W!Claim
    /\ lastTick' = clock
    /\ backSinceTick' = 0 /\ backSinceFire' = 0
    /\ UNCHANGED <<tables, sample, sentAt, clock, now, watched, consumed, base>>

Claim ==
    /\ now # NotTicking
    /\ W!Claim
    /\ UNCHANGED <<tables, sample, sentAt, clock, now, watched, stats, setBack>>

\* toSamples: the sample of each event of a batch.
SamplesOf(events) == [e \in events |-> sample[e]]

\* Fault: the marker is committed, and the buckets are in a later transaction
\* that a crash never reaches; here, they are lost.
ApplyMarkerOnly ==
    /\ W!Apply
    /\ \/ A!Fold(SamplesOf(batch), now)
       \/ UNCHANGED tables
    /\ UNCHANGED <<sample, sentAt, clock, now, watched, stats, setBack>>

Apply ==
    /\ W!Apply
    /\ A!Fold(SamplesOf(batch), now)
    /\ UNCHANGED <<sample, sentAt, clock, now, watched, stats, setBack>>

\* Fault: the limit is counted, not the length of the batch.
AckCountsLimit ==
    /\ W!Ack
    /\ SawTick
    /\ consumed' = consumed + Limit
    /\ UNCHANGED <<tables, sample, sentAt, clock, watched, base>>

\* Ack, then SawFlush and SawTick: the counters move only when the whole tick
\* went through.
Ack ==
    /\ W!Ack
    /\ SawTick
    /\ consumed' = consumed + Cardinality(batch)
    /\ UNCHANGED <<tables, sample, sentAt, clock, watched, base>>

\* loop.New: NewStats, then the first read of recover.
New ==
    /\ W!InFlight
    /\ lastTick' = clock
    /\ backSinceTick' = 0 /\ backSinceFire' = 0
    /\ consumed' = 0
    /\ base' = A!Counted
    /\ UNCHANGED <<tables, sample, sentAt, clock, now, watched>>

\* Deployment, restarts and recovery: no tick is under way.
StartUp ==
    /\ \/ W!Deploy \/ W!Restart \/ W!Position
       \/ \E id \in todo : W!Resolve(id)
    /\ UNCHANGED <<tables, sample, sentAt, clock, now, watched, stats, setBack>>

\* A process that ends forgets its tick and its counters.
End ==
    /\ W!Fail \/ W!Stop
    /\ now' = NotTicking
    /\ lastTick' = 0 /\ consumed' = 0 /\ base' = 0
    /\ backSinceTick' = 0 /\ backSinceFire' = 0
    /\ UNCHANGED <<tables, sample, sentAt, clock, watched>>

\* /healthz of the worker, which listens once New has returned.
Serving == pc \in {"idle", "claimed", "applied"}
Healthy == Serving /\ clock - lastTick <= HealthWindow

-----------------------------------------------------------------------------

Advance ==
    /\ clock < MaxTime
    /\ clock' = clock + 1
    /\ UNCHANGED <<workerVars, tables, sample, sentAt, now, watched, stats, setBack>>

\* Code compares readings of the wall clock, which a host's clock may be set
\* back between.  While no tick is under way only lastTick is such a reading.
SetBack ==
    /\ \E t \in Time :
           LET by == clock - t
           IN  /\ by > 0 /\ backSinceTick + by <= MaxSetBack
               /\ clock' = t
               /\ backSinceTick' = backSinceTick + by
               /\ backSinceFire' = IF now = NotTicking THEN 0 ELSE backSinceFire + by
    /\ UNCHANGED <<workerVars, tables, sample, sentAt, now, watched, stats>>

Init ==
    /\ W!Init
    /\ A!Init
    /\ sample = [e \in Event |-> NoSample]
    /\ sentAt = [e \in Event |-> 0]
    /\ clock = 0
    /\ now = NotTicking
    /\ watched = [arrived |-> 0, depth |-> 0]
    /\ lastTick = 0 /\ consumed = 0 /\ base = 0
    /\ backSinceTick = 0 /\ backSinceFire = 0

Next ==
    \/ \E x \in A!Sample : Enqueue(x)
    \/ WatchDepth
    \/ Fire \/ EmptyTick \/ Claim \/ Apply \/ Ack
    \/ New \/ StartUp \/ End
    \/ Advance \/ SetBack

Spec == Init /\ [][Next]_vars

-----------------------------------------------------------------------------
(* Properties. *)

\* A page's count is the number of its events that were folded, through every
\* crash between claim, fold and ack: the marker and the buckets never part.
CountsAreExact ==
    \A s \in Site, p \in Page :
        pageCurrent[<<s, p>>].count =
            Cardinality({e \in Event : /\ folds[e] > 0
                                       /\ \E b \in A!Bin : sample[e] = <<s, p, b>>})

\* What is in the queue and what is in the aggregates make up what arrived;
\* only a batch between fold and ack is in both.
QueuePlusAggregates ==
    /\ arrived <= QueueDepth + A!Counted
    /\ QueueDepth + A!Counted <= arrived + Limit
    /\ pc # "applied" /\ W!ClaimIds \intersect applied = {} =>
           QueueDepth + A!Counted = arrived

\* The runbook's check is sound: an operator who saw the depth at 0 finds, in
\* any later read, all that had arrived by then in the aggregates.
DrainedMeansCounted == watched.depth = 0 => A!Counted >= watched.arrived

\* The worker's events_consumed_total trails the aggregates by the batch that is
\* folded and not yet acked, and by what earlier processes folded: neither
\* recovery nor a failing ack makes it run ahead or fall behind for good.
CountersTrailFolds ==
    Serving =>
        consumed + Cardinality(IF pc = "applied" THEN batch ELSE {}) + base = A!Counted

\* How long the tick under way has taken: the clock's two readings apart, and
\* what the clock was set back by in between.
Hung == clock - now + backSinceFire

\* /healthz answers 200 only if a tick completed within the window: a tick that
\* hangs in Claim, Apply or Ack turns it red, although the process is up.  A
\* clock that is set back delays that, but by no more than it was set back by
\* since the last tick that completed.
StalledMeansUnhealthy ==
    now # NotTicking /\ Hung > HealthWindow + backSinceTick => ~Healthy

\* GET /stats reports, as last_aggregate_ms, the newest event time the worker
\* has folded into page_current.
LastAggregateIsNewestEvent ==
    A!Seen # {} =>
        A!LastAggregate = Max({sentAt[e] : e \in {f \in Event : folds[f] > 0}})
-----------------------------------------------------------------------------
(* Why it holds: the inductive invariant that PipelineProofs proves.       *)

\* What the aggregates count; by WorkerLoop's invariant, the first arrivals.
Folded == {e \in Event : folds[e] > 0}

TypeOK ==
    /\ clock \in Time
    /\ now \in Time \union {NotTicking}
    /\ watched \in [arrived : Nat, depth : Nat]
    /\ lastTick \in Time
    /\ consumed \in Nat
    /\ base \in Nat
    /\ backSinceTick \in Nat /\ backSinceFire \in Nat

\* Every event that arrived has its sample.
SampleShape ==
    /\ sample \in [Event -> A!Sample \union {NoSample}]
    /\ \A e \in 1..arrived : sample[e] \in A!Sample

\* A tick is under way only while the worker serves.  Each reading of the clock
\* was no later than the next, but for what the clock was set back by between.
TickShape ==
    /\ pc \in {"claimed", "applied"} => now # NotTicking
    /\ now # NotTicking =>
           /\ Serving
           /\ backSinceFire <= backSinceTick
           /\ lastTick <= now + (backSinceTick - backSinceFire)
           /\ now <= clock + backSinceFire
    /\ lastTick <= clock + backSinceTick

\* Whatever a watcher of an empty queue had seen arrive is folded.
WatchShape == watched.depth = 0 => watched.arrived <= Cardinality(Folded)

\* The counters are right from loop.New on, recovery included.
CounterShape ==
    pc = "recovering" \/ Serving =>
        consumed + Cardinality(IF pc = "applied" THEN batch ELSE {}) + base =
            Cardinality(Folded)

IInv ==
    /\ W!IInv
    /\ A!IInv
    /\ TypeOK
    /\ SampleShape
    /\ TickShape
    /\ CountsAreExact
    /\ WatchShape
    /\ CounterShape
=============================================================================
