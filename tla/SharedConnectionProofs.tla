----------------------- MODULE SharedConnectionProofs -----------------------
(***************************************************************************)
(* For any number of threads and any number of statements: transactions on *)
(* the api's shared connection are all or nothing and never nest, beside   *)
(* autocommitted INSERTs, failures at any statement, and crashes.          *)
(***************************************************************************)
EXTENDS SharedConnection, TLAPS

USE StatementsAssumption, ThreadAssumption

\* Initially nothing is open, pending or stored.
LEMMA InitInv == Init => IInv
<1> SUFFICES ASSUME Init PROVE IInv
  OBVIOUS
<1> USE DEF Init
<1>1. TypeOK
  <2>1. 0 \in 0..Statements
    OBVIOUS
  <2>2. step \in [Thread -> 0..Statements]
    BY <2>1
  <2> QED
    BY <2>2 DEF TypeOK
<1>2. LockShape
  BY DEF LockShape, Nobody
<1>3. OpenShape /\ PendingShape /\ StoredShape
  BY DEF OpenShape, PendingShape, StoredShape
<1> QED
  BY <1>1, <1>2, <1>3 DEF IInv

\* Only one thread is between BEGIN and the end of its transaction.
LEMMA OneHolder ==
    ASSUME IInv, NEW t \in Thread, pc[t] \in {"begin", "body", "rollback"}
    PROVE  /\ holder = t /\ holder # Nobody
           /\ \A u \in Thread \ {t} : pc[u] \notin {"begin", "body", "rollback"}
BY DEF IInv, LockShape

\* An INSERT joins whatever transaction is open, and is part of none.
LEMMA InsertInv ==
    ASSUME IInv, NEW t \in Thread, Insert(t)
    PROVE  IInv'
<1> USE DEF Insert, IInv
<1>1. TypeOK'
  <2>1. <<t, 0>> \in Write
    BY DEF Write
  <2> QED
    BY <2>1 DEF TypeOK, Execute
<1>2. LockShape'
  BY DEF TypeOK, LockShape
<1>3. OpenShape'
  BY DEF TypeOK, OpenShape, Execute
<1>4. \A u \in Thread, k \in 1..Statements : <<u, k>> # <<t, 0>>
  OBVIOUS
<1>5. PendingShape'
  <2> SUFFICES ASSUME NEW u \in Thread, NEW k \in 1..Statements
               PROVE  /\ <<u, k>> \in pending' => holder' = u
                      /\ pc'[u] = "body" => (<<u, k>> \in pending' <=> k <= step'[u])
    BY DEF PendingShape
  <2>1. <<u, k>> \in pending' <=> <<u, k>> \in pending
    BY <1>4 DEF Execute
  <2>2. pc'[u] = "body" => pc[u] = "body"
    BY DEF TypeOK
  <2> QED
    BY <2>1, <2>2 DEF PendingShape
<1>6. StoredShape'
  BY <1>4 DEF TypeOK, StoredShape, Execute
<1> QED
  BY <1>1, <1>2, <1>3, <1>5, <1>6

\* Waiting for the lock, and getting it, touch no data.
LEMMA AcquireInv ==
    ASSUME IInv, NEW t \in Thread, Call(t) \/ Acquire(t)
    PROVE  IInv'
<1> USE DEF Call, Acquire, IInv
<1>1. TypeOK'
  BY DEF TypeOK
<1>2. LockShape'
  BY DEF TypeOK, LockShape
<1>3. OpenShape'
  BY DEF TypeOK, OpenShape
<1>4. PendingShape'
  BY DEF TypeOK, PendingShape, OpenShape
<1>5. StoredShape'
  BY DEF TypeOK, StoredShape
<1> QED
  BY <1>1, <1>2, <1>3, <1>4, <1>5

\* BEGIN opens a transaction without writes, or leaves nothing behind.
LEMMA BeginInv ==
    ASSUME IInv, NEW t \in Thread, Begin(t)
    PROVE  IInv'
<1> USE DEF Begin, Leave, IInv
<1>0. /\ holder = t /\ holder # Nobody
      /\ \A u \in Thread \ {t} : pc[u] \notin {"begin", "body", "rollback"}
  BY OneHolder
<1>1. ~open /\ pending = {}
  BY <1>0 DEF OpenShape, TypeOK
<1>2. TypeOK'
  BY <1>1 DEF TypeOK
<1>3. LockShape'
  BY <1>0 DEF TypeOK, LockShape
<1>4. OpenShape'
  BY <1>0, <1>1 DEF TypeOK, OpenShape
<1>5. PendingShape'
  <2>1. pending' = {} /\ step'[t] = 0
    BY <1>1 DEF StoredShape
  <2>2. \A u \in Thread \ {t} : pc'[u] # "body"
    BY <1>0 DEF TypeOK
  <2>3. \A k \in 1..Statements : ~(k <= 0)
    OBVIOUS
  <2> QED
    BY <2>1, <2>2, <2>3 DEF PendingShape
<1>6. StoredShape'
  BY DEF TypeOK, StoredShape
<1> QED
  BY <1>2, <1>3, <1>4, <1>5, <1>6

\* A statement of the body is pending, for its transaction is open.
LEMMA StatementInv ==
    ASSUME IInv, NEW t \in Thread, Statement(t)
    PROVE  IInv'
<1> USE DEF Statement, IInv
<1>0. /\ holder = t /\ holder # Nobody
      /\ \A u \in Thread \ {t} : pc[u] \notin {"begin", "body", "rollback"}
  BY OneHolder
<1>1. open /\ open' = open /\ stored' = stored /\ pending' = pending \union {<<t, step[t] + 1>>}
  BY DEF OpenShape, Execute
<1>2. step[t] \in 0..Statements /\ step[t] + 1 \in 1..Statements
  BY DEF TypeOK
<1>3. TypeOK'
  <2>1. <<t, step[t] + 1>> \in Write
    BY <1>2 DEF Write
  <2>2. step' \in [Thread -> 0..Statements]
    BY <1>2 DEF TypeOK
  <2> QED
    BY <1>1, <2>1, <2>2 DEF TypeOK
<1>4. LockShape' /\ OpenShape'
  BY <1>1 DEF LockShape, OpenShape
<1>5. PendingShape'
  <2> SUFFICES ASSUME NEW u \in Thread, NEW k \in 1..Statements
               PROVE  /\ <<u, k>> \in pending' => holder' = u
                      /\ pc'[u] = "body" => (<<u, k>> \in pending' <=> k <= step'[u])
    BY DEF PendingShape
  <2>1. CASE u = t
    <3>1. <<t, k>> \in pending' <=> <<t, k>> \in pending \/ k = step[t] + 1
      BY <1>1
    <3>2. step'[t] = step[t] + 1
      BY DEF TypeOK
    <3>3. <<t, k>> \in pending <=> k <= step[t]
      BY DEF PendingShape
    <3> QED
      BY <1>0, <1>2, <2>1, <3>1, <3>2, <3>3
  <2>2. CASE u # t
    BY <1>0, <1>1, <2>2 DEF PendingShape
  <2> QED
    BY <2>1, <2>2
<1>6. StoredShape'
  BY <1>1 DEF TypeOK, StoredShape
<1> QED
  BY <1>3, <1>4, <1>5, <1>6

\* Whatever ended it, a transaction that does not commit leaves what is stored.
LEMMA RaiseInv ==
    ASSUME IInv, NEW t \in Thread, Raise(t)
    PROVE  IInv'
<1> USE DEF Raise, Discard, IInv
<1>0. /\ holder = t /\ holder # Nobody
      /\ \A u \in Thread \ {t} : pc[u] \notin {"begin", "body", "rollback"}
  BY OneHolder
<1>1. TypeOK'
  BY DEF TypeOK
<1>2. LockShape'
  BY DEF TypeOK, LockShape
<1>3. OpenShape'
  BY <1>0 DEF TypeOK, OpenShape
<1>4. PendingShape'
  BY <1>0 DEF TypeOK, PendingShape
<1>5. StoredShape'
  BY DEF TypeOK, StoredShape
<1> QED
  BY <1>1, <1>2, <1>3, <1>4, <1>5

LEMMA RollbackInv ==
    ASSUME IInv, NEW t \in Thread, Rollback(t)
    PROVE  IInv'
<1> USE DEF Rollback, Leave, Discard, IInv
<1>0. /\ holder = t /\ holder # Nobody
      /\ \A u \in Thread \ {t} : pc[u] \notin {"begin", "body", "rollback"}
  BY OneHolder
<1>1. TypeOK'
  BY DEF TypeOK
<1>2. LockShape'
  BY <1>0 DEF TypeOK, LockShape
<1>3. OpenShape'
  BY <1>0 DEF TypeOK, OpenShape
<1>4. PendingShape'
  BY <1>0 DEF TypeOK, PendingShape
<1>5. StoredShape'
  BY DEF TypeOK, StoredShape
<1> QED
  BY <1>1, <1>2, <1>3, <1>4, <1>5

\* COMMIT stores all statements of the holder, and none of anybody else.
LEMMA CommitInv ==
    ASSUME IInv, NEW t \in Thread, Commit(t)
    PROVE  IInv'
<1> USE DEF Commit, Leave, Discard, Keep, IInv
<1>0. /\ holder = t /\ holder # Nobody
      /\ \A u \in Thread \ {t} : pc[u] \notin {"begin", "body", "rollback"}
  BY OneHolder
<1>1. TypeOK'
  BY DEF TypeOK
<1>2. LockShape'
  BY <1>0 DEF TypeOK, LockShape
<1>3. OpenShape'
  BY <1>0 DEF TypeOK, OpenShape
<1>4. PendingShape'
  BY <1>0 DEF TypeOK, PendingShape
<1>5. StoredShape'
  <2> SUFFICES ASSUME NEW u \in Thread
               PROVE  /\ pc'[u] \in {"idle", "waiting", "begin"} => step'[u] = 0
                      /\ \A k \in 1..Statements :
                             <<u, k>> \in stored' <=> pc'[u] = "done" /\ step'[u] > 0
    BY DEF StoredShape
  <2>1. CASE u = t
    <3>1. step[t] = Statements /\ step' = step /\ pc[t] = "body"
      OBVIOUS
    <3>2. \A k \in 1..Statements : <<t, k>> \in pending /\ <<t, k>> \notin stored
      BY <3>1 DEF PendingShape, StoredShape
    <3> QED
      BY <2>1, <3>1, <3>2 DEF TypeOK
  <2>2. CASE u # t
    <3>1. pc'[u] = pc[u] /\ step'[u] = step[u]
      BY <2>2 DEF TypeOK
    <3>2. \A k \in 1..Statements : <<u, k>> \notin pending
      BY <1>0, <2>2 DEF PendingShape
    <3> QED
      BY <3>1, <3>2 DEF StoredShape
  <2> QED
    BY <2>1, <2>2
<1> QED
  BY <1>1, <1>2, <1>3, <1>4, <1>5

\* A crash discards what is pending, and those who were not done have failed.
LEMMA CrashInv ==
    ASSUME IInv, Crash
    PROVE  IInv'
<1> USE DEF Crash, Discard, IInv
<1>1. TypeOK'
  BY DEF TypeOK
<1>2. LockShape'
  BY DEF LockShape
<1>3. OpenShape' /\ PendingShape'
  BY DEF OpenShape, PendingShape
<1>4. StoredShape'
  BY DEF TypeOK, StoredShape
<1> QED
  BY <1>1, <1>2, <1>3, <1>4

LEMMA StepInv ==
    ASSUME IInv, [Next]_vars
    PROVE  IInv'
<1>1. CASE Crash
  BY <1>1, CrashInv
<1>2. ASSUME NEW t \in Thread, Insert(t) \/ Call(t) \/ Transact(t)
      PROVE  IInv'
  BY <1>2, InsertInv, AcquireInv, BeginInv, StatementInv, RaiseInv, RollbackInv, CommitInv
  DEF Transact
<1>3. CASE UNCHANGED vars
  BY <1>3 DEF vars, IInv, TypeOK, LockShape, OpenShape, PendingShape, StoredShape
<1> QED
  BY <1>1, <1>2, <1>3 DEF Next

\* The inductive invariant: lock, connection, pending and stored writes fit the
\* places the threads of the server are at.
THEOREM Inductive == Spec => []IInv
<1>1. Init => IInv
  BY InitInv
<1>2. IInv /\ [Next]_vars => IInv'
  BY StepInv
<1> QED
  BY <1>1, <1>2, PTL DEF Spec

\* Threads, lock and connection keep to their types; no transaction leaves
\* writes behind that are neither stored nor pending in an open one.
THEOREM TypeCorrect == Spec => []TypeOK
<1>1. IInv => TypeOK
  BY DEF IInv
<1> QED
  BY <1>1, Inductive, PTL

\* The rule of Db.transaction is enough: what it commits is stored entirely,
\* what fails is not stored at all, whoever else uses the connection.
THEOREM TransactionsAreAtomic == Spec => []AllOrNothing
<1>1. ASSUME IInv PROVE AllOrNothing
  <2> SUFFICES ASSUME NEW t \in Thread
               PROVE  LET mine == stored \intersect OfTransaction(t)
                      IN  /\ mine \in {{}, OfTransaction(t)}
                          /\ pc[t] = "done" /\ step[t] > 0 => mine = OfTransaction(t)
                          /\ pc[t] = "failed" => mine = {}
    BY DEF AllOrNothing
  <2>1. \A k \in 1..Statements : <<t, k>> \in stored <=> pc[t] = "done" /\ step[t] > 0
    BY <1>1 DEF IInv, StoredShape
  <2>2. \A w \in OfTransaction(t) : \E k \in 1..Statements : w = <<t, k>>
    BY DEF OfTransaction
  <2>3. CASE pc[t] = "done" /\ step[t] > 0
    <3>1. stored \intersect OfTransaction(t) = OfTransaction(t)
      BY <2>1, <2>2, <2>3
    <3> QED
      BY <2>3, <3>1
  <2>4. CASE ~(pc[t] = "done" /\ step[t] > 0)
    <3>1. stored \intersect OfTransaction(t) = {}
      BY <2>1, <2>2, <2>4
    <3> QED
      BY <2>4, <3>1
  <2> QED
    BY <2>3, <2>4
<1> QED
  BY <1>1, Inductive, PTL

\* The lock makes BEGIN safe: it never meets an open transaction, and what is
\* pending of a transaction is the holder's.
THEOREM TransactionsNeverNest == Spec => []OneTransactionAtATime
<1>1. ASSUME IInv PROVE OneTransactionAtATime
  <2>1. open => holder # Nobody /\ pc[holder] \in {"body", "rollback"}
    BY <1>1 DEF IInv, OpenShape
  <2>2. \A t \in Thread : pc[t] = "begin" => ~open
    BY <1>1 DEF IInv, OpenShape, LockShape
  <2>3. \A w \in pending : w[2] > 0 => w[1] = holder
    <3> SUFFICES ASSUME NEW w \in pending, w[2] > 0 PROVE w[1] = holder
      OBVIOUS
    <3>1. w \in Write
      BY <1>1 DEF IInv, TypeOK
    <3>2. w = <<w[1], w[2]>> /\ w[1] \in Thread /\ w[2] \in 1..Statements
      BY <3>1 DEF Write
    <3> QED
      BY <1>1, <3>2 DEF IInv, PendingShape
  <2> QED
    BY <2>1, <2>2, <2>3 DEF OneTransactionAtATime
<1> QED
  BY <1>1, Inductive, PTL
=============================================================================
