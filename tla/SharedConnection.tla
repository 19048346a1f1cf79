-------------------------- MODULE SharedConnection --------------------------
(***************************************************************************)
(* The api's one connection to queue.db, shared by the threads of its      *)
(* server: Db.transaction, which is meant for writes of several            *)
(* statements, and the autocommitted INSERTs of record_event beside it.    *)
(* SQLite serializes single statements; what it cannot know is which       *)
(* thread a statement of an open transaction comes from.                   *)
(***************************************************************************)
EXTENDS Naturals, FiniteSets

CONSTANTS
    Thread,
    Statements    \* how many statements a transaction has

\* Nobody holds the lock.
Nobody == "nobody"

ASSUME StatementsAssumption == Statements \in Nat \ {0}
ASSUME ThreadAssumption == Nobody \notin Thread

VARIABLES
    pc,           \* where each thread is
    step,         \* how many statements of its transaction it has executed
    holder,       \* who holds Db._lock, or Nobody
    open,         \* the connection is inside a transaction
    pending,      \* writes of the open transaction
    stored        \* committed writes

vars == <<pc, step, holder, open, pending, stored>>

\* Write <<t, 0>> is an INSERT of t's own, <<t, k>> the k-th of its transaction.
Write == Thread \X (0..Statements)
OfTransaction(t) == {t} \X (1..Statements)

\* A statement joins the open transaction, or is one by itself.
Execute(w) ==
    \/ open /\ pending' = pending \union {w} /\ UNCHANGED <<open, stored>>
    \/ ~open /\ stored' = stored \union {w} /\ UNCHANGED <<open, pending>>

Discard == open' = FALSE /\ pending' = {} /\ UNCHANGED stored
Keep == open' = FALSE /\ pending' = {} /\ stored' = stored \union pending

Leave(t, how) == holder' = Nobody /\ pc' = [pc EXCEPT ![t] = how]

-----------------------------------------------------------------------------

\* record_event: no lock, no BEGIN.
Insert(t) ==
    /\ pc[t] = "idle"
    /\ Execute(<<t, 0>>)
    /\ pc' = [pc EXCEPT ![t] = "done"]
    /\ UNCHANGED <<step, holder>>

\* A call of transaction that has still to get the lock.
Call(t) ==
    /\ pc[t] = "idle"
    /\ pc' = [pc EXCEPT ![t] = "waiting"]
    /\ UNCHANGED <<step, holder, open, pending, stored>>

\* Fault: BEGIN is issued without the lock.
AcquireNothing(t) ==
    /\ pc[t] = "waiting"
    /\ pc' = [pc EXCEPT ![t] = "begin"]
    /\ UNCHANGED <<step, holder, open, pending, stored>>

\* with self._lock
Acquire(t) ==
    /\ pc[t] = "waiting"
    /\ holder = Nobody
    /\ holder' = t
    /\ pc' = [pc EXCEPT ![t] = "begin"]
    /\ UNCHANGED <<step, open, pending, stored>>

\* BEGIN IMMEDIATE, outside the try: it fails inside a transaction, or when
\* the worker's lock outlasts busy_timeout.
Begin(t) ==
    /\ pc[t] = "begin"
    /\ \/ /\ ~open
          /\ open' = TRUE
          /\ pc' = [pc EXCEPT ![t] = "body"]
          /\ UNCHANGED <<holder, pending, stored>>
       \/ /\ Leave(t, "failed")
          /\ UNCHANGED <<open, pending, stored>>
    /\ UNCHANGED step

\* Fault: the body's loop is off by one.
StatementTooMany(t) ==
    /\ pc[t] = "body"
    /\ step[t] <= Statements
    /\ Execute(<<t, step[t] + 1>>)
    /\ step' = [step EXCEPT ![t] = @ + 1]
    /\ UNCHANGED <<pc, holder>>

\* One statement of the with block.
Statement(t) ==
    /\ pc[t] = "body"
    /\ step[t] < Statements
    /\ Execute(<<t, step[t] + 1>>)
    /\ step' = [step EXCEPT ![t] = @ + 1]
    /\ UNCHANGED <<pc, holder>>

\* An exception of the body, before or after any of its statements.  Some
\* errors of SQLite (disk full, I/O) have rolled back by then.
Raise(t) ==
    /\ pc[t] = "body"
    /\ pc' = [pc EXCEPT ![t] = "rollback"]
    /\ Discard \/ UNCHANGED <<open, pending, stored>>
    /\ UNCHANGED <<step, holder>>

\* Fault: the lock is released on the way to COMMIT only.
RollbackKeepsLock(t) ==
    /\ pc[t] = "rollback"
    /\ Discard
    /\ pc' = [pc EXCEPT ![t] = "failed"]
    /\ UNCHANGED <<step, holder>>

\* Fault: finally instead of except and else.
RollbackCommits(t) ==
    /\ pc[t] = "rollback"
    /\ Keep
    /\ Leave(t, "failed")
    /\ UNCHANGED step

\* except BaseException: ROLLBACK, an error itself when there is nothing left
\* to roll back; either way the with statement releases the lock.
Rollback(t) ==
    /\ pc[t] = "rollback"
    /\ Discard
    /\ Leave(t, "failed")
    /\ UNCHANGED step

\* else: COMMIT.  BEGIN IMMEDIATE has the write lock, so it cannot find the
\* database busy, and after any other error SQLite has rolled back.
Commit(t) ==
    /\ pc[t] = "body"
    /\ step[t] = Statements
    /\ \/ Keep /\ Leave(t, "done")
       \/ Discard /\ Leave(t, "failed")
    /\ UNCHANGED step

\* The process dies, and with it the open transaction.
Crash ==
    /\ Discard
    /\ pc' = [t \in Thread |-> IF pc[t] = "done" THEN "done" ELSE "failed"]
    /\ holder' = Nobody
    /\ UNCHANGED step

-----------------------------------------------------------------------------

Init ==
    /\ pc = [t \in Thread |-> "idle"]
    /\ step = [t \in Thread |-> 0]
    /\ holder = Nobody
    /\ open = FALSE
    /\ pending = {} /\ stored = {}

Transact(t) ==
    Acquire(t) \/ Begin(t) \/ Statement(t) \/ Raise(t) \/ Rollback(t) \/ Commit(t)

Next == (\E t \in Thread : Insert(t) \/ Call(t) \/ Transact(t)) \/ Crash

\* Threads run and bodies end.  A thread calls once, so that the lock needs no
\* fairness of its own: the others are through at last.
Spec == Init /\ [][Next]_vars /\ \A t \in Thread : WF_vars(Transact(t))

-----------------------------------------------------------------------------
(* Properties. *)

TypeOK ==
    /\ pc \in [Thread -> {"idle", "waiting", "begin", "body", "rollback", "done", "failed"}]
    /\ step \in [Thread -> 0..Statements]
    /\ holder \in Thread \union {Nobody}
    /\ open \in BOOLEAN
    /\ pending \subseteq Write /\ (~open => pending = {})
    /\ stored \subseteq Write

\* A transaction is stored entirely when it was committed and not at all when
\* it was not, whatever failed and whoever wrote on the same connection
\* meanwhile.
AllOrNothing ==
    \A t \in Thread :
        LET mine == stored \intersect OfTransaction(t)
        IN  /\ mine \in {{}, OfTransaction(t)}
            /\ pc[t] = "done" /\ step[t] > 0 => mine = OfTransaction(t)
            /\ pc[t] = "failed" => mine = {}

\* BEGIN never meets an open transaction, and an open one belongs to the
\* holder of the lock: no failure leaves one behind for later statements.
OneTransactionAtATime ==
    /\ open => holder # Nobody /\ pc[holder] \in {"body", "rollback"}
    /\ \A t \in Thread : pc[t] = "begin" => ~open
    /\ \A w \in pending : w[2] > 0 => w[1] = holder

\* However a transaction ends, the threads that wait for the lock get it.
EveryCallEnds == \A t \in Thread : pc[t] = "waiting" ~> pc[t] \in {"done", "failed"}
-----------------------------------------------------------------------------
(* The inductive invariant that SharedConnectionProofs proves. *)

\* The holder is the thread between its BEGIN and the end of its transaction.
LockShape ==
    \A t \in Thread : holder = t <=> pc[t] \in {"begin", "body", "rollback"}

\* A transaction is open from a BEGIN that succeeded to its end; SQLite may end
\* it before the exception that follows reaches ROLLBACK.
OpenShape ==
    /\ open => \E t \in Thread : holder = t /\ pc[t] \in {"body", "rollback"}
    /\ \A t \in Thread : pc[t] = "body" => open

\* What is pending of transactions is the holder's, statement by statement.
PendingShape ==
    \A t \in Thread : \A k \in 1..Statements :
        /\ <<t, k>> \in pending => holder = t
        /\ pc[t] = "body" => (<<t, k>> \in pending <=> k <= step[t])

\* What is stored of transactions is theirs who are done, entirely.
StoredShape ==
    \A t \in Thread :
        /\ pc[t] \in {"idle", "waiting", "begin"} => step[t] = 0
        /\ \A k \in 1..Statements :
               <<t, k>> \in stored <=> pc[t] = "done" /\ step[t] > 0

IInv == TypeOK /\ LockShape /\ OpenShape /\ PendingShape /\ StoredShape
=============================================================================
