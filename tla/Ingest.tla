------------------------------ MODULE Ingest ------------------------------
(***************************************************************************)
(* The load generator, POST /events, and the count the demo compares with  *)
(* the aggregates.  The client sends one request at a time and gives up on *)
(* it after five seconds; the api may then still commit the row.  The api  *)
(* may stop between the commit and the reply.  Signals may reach the       *)
(* client between any two of its steps.                                    *)
(*                                                                         *)
(* Behind the queue stands EventLedger, which WorkerLoop implements: what  *)
(* was committed is folded in batches, in order, each event once.          *)
(***************************************************************************)
EXTENDS FiniteSetsExt, Naturals

CONSTANTS
    MaxSends,     \* bound: how many requests the client sends
    Limit         \* BATCH_LIMIT

ASSUME IngestAssumption == MaxSends \in Nat /\ Limit \in Nat \ {0}

VARIABLES
    pc,           \* where the client's loop is
    sent, errors, \* its two counters
    stop,         \* the flag the first signal sets
    sigint,       \* what a SIGINT does: set the flag, or raise
    report,       \* the FINAL line, once it is printed
    request,      \* what became of each request, seen from the network
    apiUp,        \* the api accepts connections
    committed,    \* the requests whose row is, or was, in queue.db
    folds         \* the aggregates, as EventLedger sees them

client == <<pc, sent, errors, stop, sigint, report>>
vars == <<pc, sent, errors, stop, sigint, report, request, apiUp, committed, folds>>

Send == 1..MaxSends
NoReport == <<>>

\* The requests made so far, and the one the client is waiting for.
Made == {r \in Send : request[r] # "unsent"}
Latest == Cardinality(Made)

Aggregated == MapThenSumSet(LAMBDA e : folds[e], Send)

L == INSTANCE EventLedger WITH MaxEvents <- MaxSends, arrived <- Cardinality(committed)

-----------------------------------------------------------------------------
(* The client: send and main's loop. *)

\* while not stop: one attempt, or out of the loop.
LoopTop ==
    /\ pc = "top"
    /\ \/ /\ stop
          /\ pc' = "final"
          /\ UNCHANGED <<request, errors>>
       \/ /\ ~stop /\ apiUp /\ Latest < MaxSends
          /\ request' = [request EXCEPT ![Latest + 1] = "received"]
          /\ pc' = "waiting"
          /\ UNCHANGED errors
       \/ /\ ~stop /\ ~apiUp /\ Latest < MaxSends   \* connection refused
          /\ request' = [request EXCEPT ![Latest + 1] = "over"]
          /\ errors' = errors + 1
          /\ pc' = "sent"
    /\ UNCHANGED <<sent, stop, sigint, report, apiUp, committed, folds>>

\* urlopen and read return: send is over, the increment is not yet made.
Receive ==
    /\ pc = "waiting"
    /\ request[Latest] = "accepted"
    /\ request' = [request EXCEPT ![Latest] = "over"]
    /\ pc' = "replied"
    /\ UNCHANGED <<sent, errors, stop, sigint, report, apiUp, committed, folds>>

Increment ==
    /\ pc = "replied"
    /\ sent' = sent + 1
    /\ pc' = "sent"
    /\ UNCHANGED <<errors, stop, sigint, report, request, apiUp, committed, folds>>

\* Fault: a failed attempt is sent again, without end.
RefusedRetries ==
    /\ pc = "waiting"
    /\ request[Latest] \in {"failed", "lost"}
    /\ request' = [request EXCEPT ![Latest] = "received"]
    /\ errors' = errors + 1
    /\ UNCHANGED <<pc, sent, stop, sigint, report, apiUp, committed, folds>>

\* A 500 or a closed connection: URLError or OSError.
Refused ==
    /\ pc = "waiting"
    /\ request[Latest] \in {"failed", "lost"}
    /\ request' = [request EXCEPT ![Latest] = "over"]
    /\ errors' = errors + 1
    /\ pc' = "sent"
    /\ UNCHANGED <<sent, stop, sigint, report, apiUp, committed, folds>>

\* A reply that breaks off is an IncompleteRead, which nothing catches.
BrokenReply ==
    /\ pc = "waiting"
    /\ request[Latest] = "cut"
    /\ pc' = "crashed"
    /\ UNCHANGED <<sent, errors, stop, sigint, report, request, apiUp, committed, folds>>

NoTimeout == FALSE /\ UNCHANGED vars   \* fault: urlopen without its timeout

\* timeout=5.  A request the api has not handled yet stays with the api.
Timeout ==
    /\ pc = "waiting"
    /\ request[Latest] \in {"received", "accepted", "failed"}
    /\ request' = [request EXCEPT
           ![Latest] = IF @ = "received" THEN "abandoned" ELSE "over"]
    /\ errors' = errors + 1
    /\ pc' = "sent"
    /\ UNCHANGED <<sent, stop, sigint, report, apiUp, committed, folds>>

\* if stop: break, else sleep to the next attempt.
Pace ==
    /\ pc = "sent"
    /\ pc' = IF stop THEN "final" ELSE "top"
    /\ UNCHANGED <<sent, errors, stop, sigint, report, request, apiUp, committed, folds>>

FinalLine(exact) == report' = [exact |-> exact, sent |-> sent, errors |-> errors]

Final ==
    /\ pc = "final"
    /\ FinalLine(TRUE)
    /\ pc' = "done"
    /\ UNCHANGED <<sent, errors, stop, sigint, request, apiUp, committed, folds>>

InLoop == pc \notin {"done", "crashed"}

\* Fault: the first SIGINT raises too, and its report is taken for exact.
SignalRaises ==
    /\ InLoop
    /\ sigint = "flag"
    /\ FinalLine(TRUE)
    /\ pc' = "done"
    /\ UNCHANGED <<sent, errors, stop, sigint, request, apiUp, committed, folds>>

\* request_stop, on SIGTERM or on the first SIGINT.
Signal ==
    /\ InLoop
    /\ stop' = TRUE
    /\ sigint' = "raise"
    /\ UNCHANGED <<pc, sent, errors, report, request, apiUp, committed, folds>>

\* A later SIGINT is a KeyboardInterrupt wherever the loop is.
Interrupt ==
    /\ InLoop
    /\ sigint = "raise"
    /\ FinalLine(FALSE)
    /\ pc' = "done"
    /\ UNCHANGED <<sent, errors, stop, sigint, request, apiUp, committed, folds>>

-----------------------------------------------------------------------------
(* The api and the worker. *)

Pending == {r \in Send : request[r] \in {"received", "abandoned"}}

\* The reply of request r, when somebody still waits for it.
Answer(r, code) ==
    request' = [request EXCEPT ![r] = IF @ = "received" THEN code ELSE "over"]

\* Fault: 202 is sent first and the row is written later, if at all.
AnswerFirst(r) ==
    /\ apiUp
    /\ \/ r \in Pending /\ Answer(r, "accepted") /\ UNCHANGED committed
       \/ request[r] = "over" /\ committed' = committed \union {r} /\ UNCHANGED request
    /\ UNCHANGED <<client, apiUp, folds>>

\* post_events: the INSERT commits by itself, then 202 is on its way.
Accept(r) ==
    /\ apiUp
    /\ r \in Pending
    /\ committed' = committed \union {r}
    /\ Answer(r, "accepted")
    /\ UNCHANGED <<client, apiUp, folds>>

\* OperationalError: queue.db stayed locked for busy_timeout, or is full.
Reject(r) ==
    /\ apiUp
    /\ r \in Pending
    /\ Answer(r, "failed")
    /\ UNCHANGED <<client, apiUp, committed, folds>>

\* A crash, or a stop that outlasts its grace period.  A reply may have
\* reached the client in part.
ApiStops ==
    /\ apiUp
    /\ apiUp' = FALSE
    /\ \E begun \in BOOLEAN :
           request' = [r \in Send |->
               CASE request[r] = "received" -> "lost"
                 [] request[r] = "abandoned" -> "over"
                 [] request[r] \in {"accepted", "failed"} -> IF begun THEN "cut" ELSE "lost"
                 [] OTHER -> request[r]]
    /\ UNCHANGED <<client, committed, folds>>

\* make deploy S=api: nothing restarts the api by itself.
ApiStarts ==
    /\ ~apiUp
    /\ apiUp' = TRUE
    /\ UNCHANGED <<client, request, committed, folds>>

\* A batch of the worker.
Fold ==
    /\ UNCHANGED <<client, request, apiUp, committed>>
    /\ \E m, n \in 0..Cardinality(committed) : L!FoldBatch(m, n)

-----------------------------------------------------------------------------

Init ==
    /\ pc = "top"
    /\ sent = 0 /\ errors = 0
    /\ stop = FALSE
    /\ sigint = "flag"
    /\ report = NoReport
    /\ request = [r \in Send |-> "unsent"]
    /\ apiUp \in BOOLEAN
    /\ committed = {}
    /\ L!Init

\* What the client does without being told.
ClientStep ==
    \/ LoopTop \/ Receive \/ Increment \/ Refused \/ BrokenReply
    \/ Timeout \/ Pace \/ Final

Next ==
    \/ ClientStep \/ Signal \/ Interrupt
    \/ \E r \in Send : Accept(r) \/ Reject(r)
    \/ ApiStops \/ ApiStarts \/ Fold

\* The client's process runs and its clock goes on; nothing is asked of the
\* api, the worker or the user.
Spec == Init /\ [][Next]_vars /\ WF_vars(ClientStep)

-----------------------------------------------------------------------------
(* Properties. *)

TypeOK ==
    /\ pc \in {"top", "waiting", "replied", "sent", "final", "done", "crashed"}
    /\ sent \in 0..MaxSends /\ errors \in 0..MaxSends
    /\ stop \in BOOLEAN /\ apiUp \in BOOLEAN
    /\ sigint \in {"flag", "raise"}
    /\ report = NoReport \/ report \in [exact : BOOLEAN, sent : Nat, errors : Nat]
    /\ request \in [Send -> {"unsent", "received", "abandoned", "accepted", "failed",
                             "lost", "cut", "over"}]
    /\ committed \subseteq Made
    /\ folds \in [Send -> Nat]

Replied == IF pc = "replied" THEN 1 ELSE 0

\* The client's counters bracket what the api committed, whatever timed out,
\* crashed or was committed late: everything counted as sent is in the
\* queue or the aggregates, and nothing is that was not at least an error or
\* the one request still open.
CountersBracket ==
    /\ sent + Replied <= Cardinality(committed)
    /\ Cardinality(committed) <= sent + errors + 1
    /\ pc \in {"top", "sent", "final"} => Cardinality(committed) <= sent + errors

\* Nothing is left in the queue or on its way to it.
Drained == Aggregated = Cardinality(committed) /\ Pending = {}

\* The demo's check: a FINAL line that is not marked as forced and reports no
\* error equals the aggregated count once the queue is drained, although
\* signals may arrive between the reply and the increment.
CleanFinalIsExact ==
    (report # NoReport /\ report.exact /\ report.errors = 0 /\ Drained)
        => Aggregated = report.sent

\* The runbook's check and the comment in main: the FINAL sent-count equals
\* the aggregated count.  A request that timed out or lost its reply after
\* its commit is an error to the client and an event to the aggregates.
FinalIsExact ==
    (report # NoReport /\ report.exact /\ Drained) => Aggregated = report.sent

\* One signal ends the run, even when the request under way is hung.
StopIsObeyed == stop ~> ~InLoop

-----------------------------------------------------------------------------
(* The inductive invariant that IngestProofs proves. *)

\* The client waits for one request at a time, and numbers them as it goes.
RequestsInOrder == Made = 1..Latest

\* Every request made is counted once, as sent or as an error, but the one the
\* loop is still busy with, which a forced exit or a broken reply leaves out.
Tally ==
    /\ pc \in {"waiting", "replied"} => Latest = sent + errors + 1
    /\ pc \in {"top", "sent", "final"} => Latest = sent + errors
    /\ pc \in {"done", "crashed"} => Latest \in (sent + errors)..(sent + errors + 1)

\* A request is committed at most once, and before it is answered with 202.
CommittedShape ==
    \A r \in Send :
        /\ request[r] \in {"unsent", "received", "abandoned"} => r \notin committed
        /\ request[r] = "accepted" => r \in committed

\* What is counted as sent, or about to be, was committed.
SentIsCommitted ==
    /\ sent <= Cardinality(committed)
    /\ pc = "replied" \/ (pc = "waiting" /\ request[Latest] = "accepted") =>
           sent + 1 <= Cardinality(committed)

\* An exact report has the final counters, and nothing was left uncounted.
ReportShape ==
    report # NoReport /\ report.exact =>
        /\ pc = "done"
        /\ report.sent = sent /\ report.errors = errors
        /\ Latest = sent + errors

IInv ==
    /\ TypeOK
    /\ RequestsInOrder
    /\ Tally
    /\ CommittedShape
    /\ SentIsCommitted
    /\ ReportShape
=============================================================================
