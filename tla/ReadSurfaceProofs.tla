-------------------------- MODULE ReadSurfaceProofs --------------------------
(***************************************************************************)
(* Machine-checked proofs about ReadSurface: what successive replies over  *)
(* the aggregates have in common, for any traffic, any provisioned sites   *)
(* and any limits.                                                         *)
(***************************************************************************)
EXTENDS ReadSurface, AggStoreProofs

USE ConstantsAssumption, KeysAssumption, ReadSurfaceAssumption

-----------------------------------------------------------------------------
(* Rows that LIMIT leaves. *)

\* The image of a finite set under a function is finite, and as big when the
\* function tells elements apart.
LEMMA FiniteImage ==
    ASSUME NEW S, IsFiniteSet(S), NEW f
    PROVE  /\ IsFiniteSet({f[x] : x \in S})
           /\ (\A x, y \in S : f[x] = f[y] => x = y) =>
                  Cardinality({f[x] : x \in S}) = Cardinality(S)
<1> DEFINE T == {f[x] : x \in S}
           g == [x \in S |-> f[x]]
<1>1. g \in Surjection(S, T)
  BY DEF Surjection
<1>2. (\A x, y \in S : f[x] = f[y] => x = y) => g \in Injection(S, T)
  BY DEF Injection, IsInjective
<1> HIDE DEF T, g
<1>3. IsFiniteSet(T) /\ (Cardinality(T) = Cardinality(S) <=> g \in Injection(S, T))
  BY <1>1, FS_Surjection
<1> QED
  BY <1>2, <1>3 DEF T

\* Among finitely many rows one is the highest.
LEMMA HighestRow ==
    ASSUME NEW S, IsFiniteSet(S), S # {}, NEW h, \A r \in S : h[r] \in Nat
    PROVE  \E r \in S : \A q \in S : h[q] <= h[r]
<1> DEFINE Good == {T \in SUBSET S : T = {} \/ \E r \in T : \A q \in T : h[q] <= h[r]}
<1>1. {} \in Good
  OBVIOUS
<1>2. ASSUME NEW T \in SUBSET S, NEW x \in S, T \in Good, x \notin T
      PROVE  T \union {x} \in Good
  <2>1. CASE T = {}
    BY <2>1
  <2>2. CASE T # {}
    <3>1. PICK r \in T : \A q \in T : h[q] <= h[r]
      BY <1>2, <2>2
    <3>2. CASE h[x] <= h[r]
      BY <3>1, <3>2
    <3>3. CASE ~(h[x] <= h[r])
      <4>1. \A q \in T \union {x} : h[q] <= h[x]
        BY <3>1, <3>3
      <4> QED
        BY <4>1
    <3> QED
      BY <3>2, <3>3
  <2> QED
    BY <2>1, <2>2
<1>3. S \in Good
  <2> HIDE DEF Good
  <2> QED
    BY <1>1, <1>2, SetInduction
<1> QED
  BY <1>3

\* A choice of n rows, or of all of them, none lower than a row left out.
IsTop(top, n, rows) ==
    /\ top \in SUBSET rows
    /\ Cardinality(top) = LimitTo(n, rows)
    /\ \A r \in top, q \in rows \ top : r.count >= q.count

\* There is one for every limit.
LEMMA TopExists ==
    ASSUME NEW rows, IsFiniteSet(rows), \A r \in rows : r.count \in Nat, NEW n \in Nat
    PROVE  \E top : IsTop(top, n, rows)
<1> DEFINE Good == {i \in Nat : \E top : IsTop(top, i, rows)}
<1>0. Cardinality(rows) \in Nat
  BY FS_CardinalityType
<1>1. 0 \in Good
  <2>1. Cardinality({}) = 0 /\ LimitTo(0, rows) = 0
    BY <1>0, FS_EmptySet DEF LimitTo
  <2>2. IsTop({}, 0, rows)
    BY <2>1 DEF IsTop
  <2> QED
    BY <2>2
<1>2. ASSUME NEW i \in Nat, i \in Good
      PROVE  i + 1 \in Good
  <2>1. PICK top : IsTop(top, i, rows)
    BY <1>2
  <2>2. IsFiniteSet(top) /\ top \subseteq rows
    BY <2>1, FS_Subset DEF IsTop
  <2>3. CASE Cardinality(rows) <= i
    <3>1. LimitTo(i + 1, rows) = LimitTo(i, rows)
      BY <1>0, <2>3 DEF LimitTo
    <3> QED
      BY <2>1, <3>1 DEF IsTop
  <2>4. CASE i < Cardinality(rows)
    <3>1. LimitTo(i, rows) = i /\ LimitTo(i + 1, rows) = i + 1
      BY <1>0, <2>4 DEF LimitTo
    <3>2. Cardinality(top) = i
      BY <2>1, <3>1 DEF IsTop
    <3> DEFINE rest == rows \ top
               h == [r \in rows |-> r.count]
    <3>3. IsFiniteSet(rest) /\ rest # {}
      <4>1. top # rows
        BY <2>4, <3>2
      <4> QED
        BY <2>2, <4>1, FS_Subset
    <3>4. \A r \in rest : h[r] \in Nat
      OBVIOUS
    <3>5. PICK x \in rest : \A q \in rest : h[q] <= h[x]
      <4> HIDE DEF rest, h
      <4> QED
        BY <3>3, <3>4, HighestRow
    <3>6. Cardinality(top \union {x}) = i + 1
      BY <2>2, <3>2, FS_AddElement
    <3>7. \A r \in top \union {x}, q \in rows \ (top \union {x}) : r.count >= q.count
      <4>1. \A r \in top, q \in rows \ top : r.count >= q.count
        BY <2>1 DEF IsTop
      <4>2. \A q \in rest : x.count >= q.count
        BY <3>5
      <4> QED
        BY <4>1, <4>2
    <3>8. IsTop(top \union {x}, i + 1, rows)
      BY <2>2, <3>1, <3>6, <3>7 DEF IsTop
    <3> QED
      BY <3>8
  <2> QED
    BY <1>0, <2>3, <2>4
<1>3. Nat \subseteq Good
  <2> HIDE DEF Good
  <2> QED
    BY <1>1, <1>2, NatInductive
<1> QED
  BY <1>3

\* The rows newer than r, and the rows to which fewer than n are newer.
Above(rows, r) == {q \in rows : q.minute > r.minute}
Newest(rows, n) == {r \in rows : Cardinality(Above(rows, r)) < n}

\* Rows of one site: a row is known by its minute.
IsTrend(rows) ==
    /\ IsFiniteSet(rows)
    /\ \A r \in rows : r.minute \in Nat
    /\ \A r, q \in rows : r.minute = q.minute => r = q

\* The newest rows are newer than all others.
LEMMA NewestAreNewer ==
    ASSUME NEW rows, IsTrend(rows), NEW n \in Nat,
           NEW r \in Newest(rows, n), NEW q \in rows \ Newest(rows, n)
    PROVE  q.minute < r.minute
<1>1. q \in rows /\ r \in rows /\ q.minute \in Nat /\ r.minute \in Nat
  BY DEF IsTrend, Newest
<1>2. SUFFICES ASSUME r.minute <= q.minute PROVE FALSE
  BY <1>1
<1>3. IsFiniteSet(Above(rows, r)) /\ Above(rows, q) \in SUBSET Above(rows, r)
  <2>1. Above(rows, q) \subseteq Above(rows, r)
    BY <1>1, <1>2 DEF IsTrend, Above
  <2> QED
    BY <2>1, FS_Subset DEF IsTrend, Above
<1>4. Cardinality(Above(rows, q)) <= Cardinality(Above(rows, r)) /\ IsFiniteSet(Above(rows, q))
  BY <1>3, FS_Subset
<1>5. Cardinality(Above(rows, q)) \in Nat /\ Cardinality(Above(rows, r)) \in Nat
  BY <1>3, <1>4, FS_CardinalityType
<1>6. Cardinality(Above(rows, r)) < n /\ ~(Cardinality(Above(rows, q)) < n)
  BY <1>1 DEF Newest
<1> QED
  BY <1>4, <1>5, <1>6

\* There are n of them, or all rows are among them.
LEMMA NewestCount ==
    ASSUME NEW rows, IsTrend(rows), NEW n \in Nat, Newest(rows, n) # rows
    PROVE  Cardinality(Newest(rows, n)) = n
<1> DEFINE Good == {i \in Nat : Newest(rows, i) # rows => Cardinality(Newest(rows, i)) = i}
<1>1. \A x \in rows : IsFiniteSet(Above(rows, x)) /\ Cardinality(Above(rows, x)) \in Nat
  BY FS_Subset, FS_CardinalityType DEF IsTrend, Above
<1>2. 0 \in Good
  <2>1. Newest(rows, 0) = {}
    BY <1>1 DEF Newest
  <2> QED
    BY <2>1, FS_EmptySet
<1>3. ASSUME NEW i \in Nat, i \in Good
      PROVE  i + 1 \in Good
  <2> SUFFICES ASSUME Newest(rows, i + 1) # rows
               PROVE  Cardinality(Newest(rows, i + 1)) = i + 1
    OBVIOUS
  <2> DEFINE N == Newest(rows, i)
             rest == rows \ N
             h == [r \in rows |-> r.minute]
  <2>1. N \subseteq Newest(rows, i + 1) /\ N \subseteq rows
    BY <1>1 DEF Newest
  <2>2. N # rows /\ rest # {}
    BY <2>1 DEF Newest
  <2>3. Cardinality(N) = i /\ IsFiniteSet(N)
    BY <1>3, <2>1, <2>2, FS_Subset DEF IsTrend
  <2>4. PICK x \in rest : \A q \in rest : h[q] <= h[x]
    <3>1. IsFiniteSet(rest) /\ \A r \in rest : h[r] \in Nat
      BY FS_Subset DEF IsTrend
    <3> HIDE DEF rest, h
    <3> QED
      BY <2>2, <3>1, HighestRow
  <2>5. \A q \in rest : q.minute <= x.minute
    BY <2>4
  <2>6. \A r \in N : x.minute < r.minute
    BY NewestAreNewer
  <2>7. Above(rows, x) = N
    BY <2>1, <2>5, <2>6 DEF IsTrend, Above
  <2>8. x \in Newest(rows, i + 1)
    BY <2>3, <2>7 DEF Newest
  <2>9. ASSUME NEW y \in rest, y # x
        PROVE  y \notin Newest(rows, i + 1)
    <3>1. y.minute < x.minute
      BY <2>5, <2>9 DEF IsTrend
    <3>2. \A r \in N \union {x} : r.minute > y.minute
      BY <2>1, <2>6, <3>1 DEF IsTrend
    <3>3. N \union {x} \in SUBSET Above(rows, y)
      BY <2>1, <3>2 DEF Above
    <3>4. IsFiniteSet(N \union {x}) /\ Cardinality(N \union {x}) = i + 1
      BY <2>3, FS_AddElement
    <3>5. Cardinality(N \union {x}) <= Cardinality(Above(rows, y))
      <4>1. IsFiniteSet(Above(rows, y))
        BY <1>1
      <4> HIDE DEF N
      <4> QED
        BY <3>3, <4>1, FS_Subset
    <3>6. Cardinality(Above(rows, y)) \in Nat
      BY <1>1
    <3> QED
      BY <3>4, <3>5, <3>6 DEF Newest
  <2>10. Newest(rows, i + 1) = N \union {x}
    BY <2>1, <2>8, <2>9 DEF Newest
  <2> QED
    BY <2>3, <2>10, FS_AddElement
<1>4. Nat \subseteq Good
  <2> HIDE DEF Good
  <2> QED
    BY <1>2, <1>3, NatInductive
<1> QED
  BY <1>4
-----------------------------------------------------------------------------
(* Replies. *)

\* The replies of /sites/{id}/pages over given rows.
PagesRepliesOver(rows) == {Ok(body) : body \in UNION {AggRows(top) : top \in BiggestFirst(rows)}}

\* Such a reply is empty or a top of the rows, and every top can be a reply.
LEMMA PagesReply ==
    ASSUME NEW rows
    PROVE  /\ \A reply \in PagesRepliesOver(rows) :
                  reply.body = {} \/ IsTop(reply.body, TopPagesLimit, rows)
           /\ \A top : IsTop(top, TopPagesLimit, rows) => Ok(top) \in PagesRepliesOver(rows)
<1>1. \A top : top \in BiggestFirst(rows) <=> IsTop(top, TopPagesLimit, rows)
  BY DEF BiggestFirst, IsTop
<1>2. \A top : AggRows(top) = {top, {}}
  BY DEF AggRows
<1>3. ASSUME NEW reply \in PagesRepliesOver(rows)
      PROVE  reply.body = {} \/ IsTop(reply.body, TopPagesLimit, rows)
  <2>0. PICK top \in BiggestFirst(rows) : \E body \in AggRows(top) : reply = Ok(body)
    BY DEF PagesRepliesOver
  <2>1. PICK body \in AggRows(top) : reply = Ok(body)
    BY <2>0
  <2>2. reply.body = body
    BY <2>1 DEF Ok
  <2> QED
    BY <1>1, <1>2, <2>1, <2>2
<1>4. ASSUME NEW top, IsTop(top, TopPagesLimit, rows)
      PROVE  Ok(top) \in PagesRepliesOver(rows)
  BY <1>1, <1>2, <1>4 DEF PagesRepliesOver
<1> QED
  BY <1>3, <1>4

\* The replies of /sites/{id}/trend over given rows.
TrendRepliesOver(rows) == {Ok(body) : body \in AggRows(LastMinutes(rows))}

\* Such a reply is empty or holds the newest of the rows.
LEMMA TrendReply ==
    ASSUME NEW rows, NEW reply \in TrendRepliesOver(rows)
    PROVE  reply.body = {} \/ reply.body = Newest(rows, TrendBuckets)
<1>1. LastMinutes(rows) = Newest(rows, TrendBuckets)
  BY DEF LastMinutes, Newest, Above
<1> QED
  BY <1>1 DEF TrendRepliesOver, AggRows, Ok

\* Every request is a read of the rows as they are.
LEMMA RepliesAreOver ==
    ASSUME NEW s
    PROVE  /\ SitePagesReplies(s) = PagesRepliesOver(PageRows(s))
           /\ SitePagesReplies(s)' = PagesRepliesOver(PageRows(s)')
           /\ SiteTrendReplies(s) = TrendRepliesOver(TrendRows(s))
           /\ SiteTrendReplies(s)' = TrendRepliesOver(TrendRows(s)')
BY DEF SitePagesReplies, PagesRepliesOver, GetTopPages, SiteTrendReplies,
       TrendRepliesOver, GetTrend

\* A site's rows are finitely many, and each is known by its key.
RowsShape ==
    \A s \in Site :
        /\ IsFiniteSet(PageRows(s))
        /\ \A r \in PageRows(s) : r.count \in Nat
        /\ IsTrend(TrendRows(s))

\* The tables are of that shape in every state.
LEMMA RowsInv ==
    IInv => RowsShape
<1> SUFFICES ASSUME IInv, NEW s \in Site
             PROVE  /\ IsFiniteSet(PageRows(s))
                    /\ \A r \in PageRows(s) : r.count \in Nat
                    /\ IsTrend(TrendRows(s))
  BY DEF RowsShape
<1>1. IsFiniteSet(PageRows(s))
  <2> DEFINE P == {q \in Page : <<s, q>> \in Seen}
             f == [p \in P |-> [page |-> p, count |-> pageCurrent[<<s, p>>].count]]
  <2>1. IsFiniteSet(P)
    <3>1. P \in SUBSET Page
      OBVIOUS
    <3> HIDE DEF P
    <3> QED
      BY <3>1, FS_Subset
  <2>2. PageRows(s) = {f[p] : p \in P}
    BY DEF PageRows
  <2> HIDE DEF P, f
  <2> QED
    BY <2>1, <2>2, FiniteImage
<1>2. ASSUME NEW r \in PageRows(s)
      PROVE  r.count \in Nat
  <2>1. PICK p \in Page : r = [page |-> p, count |-> pageCurrent[<<s, p>>].count]
    BY DEF PageRows
  <2>2. pageCurrent[<<s, p>>].count \in Nat
    BY DEF IInv, TypeOK
  <2> QED
    BY <2>1, <2>2
<1>3. IsFiniteSet(TrendRows(s))
  <2> DEFINE M == {i \in Minute : siteMinute[<<s, i>>].hist # EmptyHist}
             f == [m \in M |-> [minute |-> m, p75 |-> siteMinute[<<s, m>>].p75]]
  <2>1. IsFiniteSet(M)
    BY MinutesAreFinite, FS_Subset
  <2>2. TrendRows(s) = {f[m] : m \in M}
    BY DEF TrendRows
  <2> HIDE DEF M, f
  <2> QED
    BY <2>1, <2>2, FiniteImage
<1>4. ASSUME NEW r \in TrendRows(s)
      PROVE  /\ r.minute \in Nat
             /\ r = [minute |-> r.minute, p75 |-> siteMinute[<<s, r.minute>>].p75]
  <2>1. PICK m \in Minute : r = [minute |-> m, p75 |-> siteMinute[<<s, m>>].p75]
    BY DEF TrendRows
  <2>2. MinuteOf(MaxTime) \in Int
    BY DEF MinuteOf
  <2> QED
    BY <2>1, <2>2 DEF Minute
<1>5. \A r, q \in TrendRows(s) : r.minute = q.minute => r = q
  BY <1>4
<1> QED
  BY <1>1, <1>2, <1>3, <1>4, <1>5 DEF IsTrend

\* They are so after a step as well.
LEMMA RowsInvNext ==
    IInv' => RowsShape'
BY RowsInv, PTL

-----------------------------------------------------------------------------
(* The list of sites. *)

\* A sum that is zero adds nothing but zeros.
LEMMA SumNothing ==
    ASSUME NEW f, NEW S, IsFiniteSet(S), \A x \in S : f[x] \in Nat, SumOver(f, S) = 0,
           NEW x \in S
    PROVE  f[x] = 0
<1>1. SumOver(f, S) = f[x] + SumOver(f, S \ {x})
  BY SumRemove
<1>2. SumOver(f, S \ {x}) \in Nat
  <2>1. IsFiniteSet(S \ {x}) /\ \A y \in S \ {x} : f[y] \in Nat
    BY FS_Subset
  <2> QED
    BY <2>1, SumType
<1> QED
  BY <1>1, <1>2

\* A histogram without samples is the empty one.
LEMMA NoSamples ==
    ASSUME NEW h \in Hist, Count(h) = 0
    PROVE  h = EmptyHist
<1>1. IsFiniteSet(1..NumBins)
  BY FS_Interval
<1>2. \A b \in 1..NumBins : h[b] \in Nat
  BY DEF Hist, Bin
<1>3. \A b \in 1..NumBins : h[b] = 0
  BY <1>1, <1>2, SumNothing DEF Count, UpTo
<1> QED
  BY <1>3 DEF Hist, EmptyHist, Bin

\* A site with a row of page_current has a table of pages to show.
LEMMA SeenIsShown ==
    ASSUME IInv, NEW s \in Site, NEW p \in Page, <<s, p>> \in Seen
    PROVE  SitePagesReplies(s) # {Ok({})}
<1>1. IsFiniteSet(PageRows(s)) /\ \A r \in PageRows(s) : r.count \in Nat
  BY RowsInv DEF RowsShape
<1>2. PageRows(s) # {}
  BY DEF PageRows
<1>3. PICK top : IsTop(top, TopPagesLimit, PageRows(s))
  BY <1>1, TopExists
<1>4. top # {}
  <2>1. Cardinality(PageRows(s)) \in Nat /\ Cardinality(PageRows(s)) # 0
    BY <1>1, <1>2, FS_CardinalityType, FS_EmptySet
  <2>2. Cardinality(top) # 0
    BY <1>3, <2>1 DEF IsTop, LimitTo
  <2> QED
    BY <2>2, FS_EmptySet
<1>5. Ok(top) \in SitePagesReplies(s)
  BY <1>3, PagesReply, RepliesAreOver
<1>6. Ok(top) # Ok({})
  BY <1>4 DEF Ok
<1> QED
  BY <1>5, <1>6

\* A site without one has neither pages nor a trend.
LEMMA UnseenIsSilent ==
    ASSUME IInv, NEW s \in Site, \A p \in Page : <<s, p>> \notin Seen
    PROVE  SitePagesReplies(s) = {Ok({})} /\ SiteTrendReplies(s) = {Ok({})}
<1>1. PageRows(s) = {}
  BY DEF PageRows
<1>2. BiggestFirst({}) = {{}}
  <2>1. IsFiniteSet({}) /\ Cardinality({}) = 0 /\ LimitTo(TopPagesLimit, {}) = 0
    BY FS_EmptySet DEF LimitTo
  <2> QED
    BY <2>1 DEF BiggestFirst
<1>3. ASSUME NEW p \in Page, NEW m \in Minute
      PROVE  pageMinute[<<s, p, m>>] = EmptyHist
  <2> DEFINE f == [i \in Minute |-> Count(pageMinute[<<s, p, i>>])]
  <2>1. pageCurrent[<<s, p>>].count = 0
    BY DEF IInv, TypeOK, Seen
  <2>2. SumOver(f, Minute) = 0
    BY <2>1 DEF IInv, CurrentIsDerived, AllTime
  <2>3. \A i \in Minute : pageMinute[<<s, p, i>>] \in Hist
    BY DEF IInv, TypeOK
  <2>4. \A i \in Minute : f[i] \in Nat
    BY <2>3, UpToType DEF Count
  <2>5. f[m] = 0
    <3> HIDE DEF f
    <3> QED
      BY <2>2, <2>4, MinutesAreFinite, SumNothing
  <2> QED
    BY <2>3, <2>5, NoSamples
<1>4. ASSUME NEW m \in Minute
      PROVE  siteMinute[<<s, m>>].hist = EmptyHist
  <2>1. ASSUME NEW b \in Bin
        PROVE  SumOver([p \in Page |-> pageMinute[<<s, p, m>>][b]], Page) = 0
    <3> DEFINE f == [p \in Page |-> pageMinute[<<s, p, m>>][b]]
    <3>1. \A p \in Page : f[p] = 0
      BY <1>3 DEF EmptyHist
    <3> HIDE DEF f
    <3>2. SumOver(f, Page) = 0
      BY <3>1, SumZero
    <3> QED
      BY <3>2 DEF f
  <2>2. AllPages(pageMinute, s, m) = EmptyHist
    BY <2>1 DEF AllPages, EmptyHist
  <2> QED
    BY <2>2 DEF IInv, SiteMergesPages
<1>5. TrendRows(s) = {}
  BY <1>4 DEF TrendRows
<1>6. PagesRepliesOver({}) = {Ok({})}
  <2>1. UNION {AggRows(top) : top \in BiggestFirst({})} = {{}}
    BY <1>2 DEF AggRows
  <2> QED
    BY <2>1 DEF PagesRepliesOver
<1>7. LastMinutes({}) = {}
  BY DEF LastMinutes
<1>8. TrendRepliesOver({}) = {Ok({})}
  BY <1>7 DEF TrendRepliesOver, AggRows
<1> QED
  BY <1>1, <1>5, <1>6, <1>8, RepliesAreOver

\* So the list is usable in every state of the tables.
LEMMA ListIsUsable ==
    IInv => SitesAreUsable
<1> SUFFICES ASSUME IInv, NEW reply \in SitesReplies
             PROVE  /\ Provisioned \subseteq reply.body
                    /\ \A s \in reply.body :
                           ConfigReply(s).status = 200 \/ SitePagesReplies(s) # {Ok({})}
                    /\ \E full \in SitesReplies : \A s \in Site :
                           SitePagesReplies(s) # {Ok({})} \/ SiteTrendReplies(s) # {Ok({})}
                               => s \in full.body
  BY DEF SitesAreUsable
<1> DEFINE found == {k[1] : k \in Seen}
<1>1. \A list \in ListSites : \/ list = Provisioned \union found
                              \/ list = Provisioned \union {}
  BY DEF ListSites, AggRows
<1>2. PICK list \in ListSites : reply.body = list
  BY DEF SitesReplies, Ok
<1>3. ASSUME NEW s \in found
      PROVE  s \in Site /\ \E p \in Page : <<s, p>> \in Seen
  BY DEF Seen
<1>4. \A s \in Site : s \notin found => \A p \in Page : <<s, p>> \notin Seen
  BY DEF Seen
<1>5. Provisioned \subseteq reply.body /\ \A s \in reply.body : s \in Provisioned \/ s \in found
  <2> HIDE DEF found
  <2> QED
    BY <1>1, <1>2
<1>6. ASSUME NEW s \in reply.body
      PROVE  ConfigReply(s).status = 200 \/ SitePagesReplies(s) # {Ok({})}
  <2>1. CASE s \in Provisioned
    BY <2>1 DEF ConfigReply, GetSiteConfig, Ok
  <2>2. CASE s \in found
    BY <1>3, <2>2, SeenIsShown
  <2> QED
    BY <1>5, <2>1, <2>2
<1>7. \E full \in SitesReplies : full.body = Provisioned \union found
  <2>1. Provisioned \union found \in ListSites
    BY DEF ListSites, AggRows
  <2>2. Ok(Provisioned \union found) \in SitesReplies
    BY <2>1 DEF SitesReplies
  <2>3. Ok(Provisioned \union found).body = Provisioned \union found
    BY DEF Ok
  <2> QED
    BY <2>2, <2>3
<1>8. \A s \in Site :
          SitePagesReplies(s) # {Ok({})} \/ SiteTrendReplies(s) # {Ok({})} => s \in found
  BY <1>4, UnseenIsSilent
<1> HIDE DEF found
<1> QED
  BY <1>5, <1>6, <1>7, <1>8

\* Every site in the list has an answer, and every site with an answer can be
\* listed, whatever is provisioned and whatever was folded.
THEOREM SitesUsable == Spec => []SitesAreUsable
BY Inductive, ListIsUsable, PTL
-----------------------------------------------------------------------------
(* Successive replies. *)

\* A top that leaves a row out is as long as LIMIT allows.
LEMMA TopIsFull ==
    ASSUME NEW rows, IsFiniteSet(rows), NEW n \in Nat, NEW top, IsTop(top, n, rows),
           top # rows
    PROVE  Cardinality(top) = n
<1>1. top \in SUBSET rows /\ Cardinality(top) = LimitTo(n, rows)
  BY DEF IsTop
<1>2. Cardinality(top) # Cardinality(rows)
  BY <1>1, FS_Subset
<1> QED
  BY <1>1, <1>2 DEF LimitTo

\* Counts grow, so a page that was shown is shown with as much or displaced.
LEMMA StepGrowsPages ==
    IInv /\ IInv' /\ [Next]_vars => [PagesOnlyGrowStep]_vars
<1> SUFFICES ASSUME IInv, IInv', Next, vars' # vars,
                    NEW s \in Site,
                    NEW old \in SitePagesReplies(s), NEW new \in SitePagesReplies(s)',
                    new.body # {}, NEW r \in old.body
             PROVE  \/ \E q \in new.body : q.page = r.page /\ q.count >= r.count
                    \/ /\ Cardinality(new.body) = TopPagesLimit
                       /\ \A q \in new.body : q.page # r.page /\ q.count >= r.count
  BY DEF PagesOnlyGrowStep
<1> DEFINE rows == PageRows(s)'
           top == new.body
<1>1. OneMinuteGrowsStep
  BY StepGrows
<1>2. IsTop(old.body, TopPagesLimit, PageRows(s))
  BY RepliesAreOver, PagesReply
<1>3. IsTop(top, TopPagesLimit, rows)
  BY RepliesAreOver, PagesReply
<1>4. PICK p \in Page : /\ <<s, p>> \in Seen
                        /\ r = [page |-> p, count |-> pageCurrent[<<s, p>>].count]
  BY <1>2 DEF IsTop, PageRows
<1> DEFINE count == pageCurrent'[<<s, p>>].count
           row == [page |-> p, count |-> count]
<1>5. count \in Nat /\ r.count \in Nat /\ count >= r.count /\ count > 0
  <2>1. count \in Nat /\ pageCurrent[<<s, p>>].count \in Nat
    BY DEF IInv, TypeOK
  <2>2. count >= pageCurrent[<<s, p>>].count
    BY <1>1 DEF OneMinuteGrowsStep
  <2> QED
    BY <1>4, <2>1, <2>2 DEF Seen
<1>6. row \in rows
  BY <1>5 DEF PageRows, Seen
<1>7. \A q \in rows : q.count \in Nat /\ (q.page = p => q = row)
  <2>1. SUFFICES ASSUME NEW q \in rows
                 PROVE  q.count \in Nat /\ (q.page = p => q = row)
    OBVIOUS
  <2>2. PICK i \in Page : q = [page |-> i, count |-> pageCurrent'[<<s, i>>].count]
    BY DEF PageRows
  <2>3. pageCurrent'[<<s, i>>].count \in Nat
    BY DEF IInv, TypeOK
  <2> QED
    BY <2>2, <2>3
<1>8. IsFiniteSet(rows)
  BY RowsInvNext DEF RowsShape
<1>9. r.page = p /\ row.page = p /\ row.count = count
  BY <1>4
<1> HIDE DEF rows, top, row, count
<1>10. CASE row \in top
  <2>1. \E q \in top : q.page = r.page /\ q.count >= r.count
    BY <1>5, <1>9, <1>10
  <2> QED
    BY <2>1 DEF top
<1>11. CASE row \notin top
  <2>1. Cardinality(top) = TopPagesLimit
    BY <1>3, <1>6, <1>8, <1>11, TopIsFull
  <2>2. ASSUME NEW q \in top
        PROVE  q.page # p /\ q.count >= r.count
    <3>1. q \in rows /\ q.count >= row.count
      BY <1>3, <1>6, <1>11 DEF IsTop
    <3> QED
      BY <1>5, <1>7, <1>9, <1>11, <3>1
  <2> QED
    BY <1>9, <2>1, <2>2 DEF top
<1> QED
  BY <1>10, <1>11

\* A page that was shown stays, with a count at least as big, or is displaced
\* by a full table of pages that are as big, for any limit of the table.
THEOREM PagesGrow == Spec => PagesOnlyGrow
<1>1. IInv /\ IInv' /\ [Next]_vars => [PagesOnlyGrowStep]_vars
  BY StepGrowsPages
<1> QED
  BY <1>1, Inductive, PTL DEF Spec, PagesOnlyGrow

\* A minute with data keeps it.
LEMMA MinuteStays ==
    ASSUME IInv, IInv', OneMinuteGrowsStep, NEW s \in Site, NEW m \in Minute,
           siteMinute[<<s, m>>].hist # EmptyHist
    PROVE  siteMinute'[<<s, m>>].hist # EmptyHist
<1> DEFINE f(b) == [p \in Page |-> pageMinute[<<s, p, m>>][b]]
           g(b) == [p \in Page |-> pageMinute'[<<s, p, m>>][b]]
<1>1. /\ siteMinute[<<s, m>>].hist = [b \in Bin |-> SumOver(f(b), Page)]
      /\ siteMinute'[<<s, m>>].hist = [b \in Bin |-> SumOver(g(b), Page)]
  BY DEF IInv, SiteMergesPages, AllPages
<1>2. PICK b \in Bin : SumOver(f(b), Page) # 0
  BY <1>1 DEF EmptyHist
<1>3. \A p \in Page : f(b)[p] \in Nat /\ g(b)[p] \in Nat /\ g(b)[p] >= f(b)[p]
  <2>1. SUFFICES ASSUME NEW p \in Page
                 PROVE  f(b)[p] \in Nat /\ g(b)[p] \in Nat /\ g(b)[p] >= f(b)[p]
    OBVIOUS
  <2>2. pageMinute[<<s, p, m>>] \in Hist /\ pageMinute'[<<s, p, m>>] \in Hist
    BY DEF IInv, TypeOK
  <2>3. pageMinute'[<<s, p, m>>][b] >= pageMinute[<<s, p, m>>][b]
    BY DEF OneMinuteGrowsStep
  <2> QED
    BY <2>2, <2>3 DEF Hist
<1> HIDE DEF f, g
<1>4. PICK p \in Page : f(b)[p] # 0
  BY <1>2, SumZero
<1>5. g(b)[p] # 0
  BY <1>3, <1>4
<1>6. SumOver(g(b), Page) # 0
  BY <1>3, <1>5, SumNothing
<1>7. siteMinute'[<<s, m>>].hist[b] # 0
  BY <1>1, <1>6
<1> QED
  BY <1>7 DEF EmptyHist

\* A trend's row is known by its minute, before a step and after it.
LEMMA TrendRow ==
    ASSUME NEW s \in Site
    PROVE  /\ \A r \in TrendRows(s) :
                  /\ r.minute \in Minute
                  /\ siteMinute[<<s, r.minute>>].hist # EmptyHist
                  /\ r = [minute |-> r.minute, p75 |-> siteMinute[<<s, r.minute>>].p75]
           /\ \A m \in Minute : siteMinute[<<s, m>>].hist # EmptyHist =>
                  [minute |-> m, p75 |-> siteMinute[<<s, m>>].p75] \in TrendRows(s)
<1>1. SUFFICES ASSUME NEW r \in TrendRows(s)
               PROVE  /\ r.minute \in Minute
                      /\ siteMinute[<<s, r.minute>>].hist # EmptyHist
                      /\ r = [minute |-> r.minute, p75 |-> siteMinute[<<s, r.minute>>].p75]
  BY DEF TrendRows
<1>2. PICK m \in Minute : /\ siteMinute[<<s, m>>].hist # EmptyHist
                          /\ r = [minute |-> m, p75 |-> siteMinute[<<s, m>>].p75]
  BY DEF TrendRows
<1> QED
  BY <1>2

\* One minute changes and none loses its data, so the window slides.
LEMMA StepSlidesTrend ==
    IInv /\ IInv' /\ [Next]_vars => [TrendSlidesStep]_vars
<1> SUFFICES ASSUME IInv, IInv', Next, vars' # vars,
                    NEW s \in Site,
                    NEW old \in SiteTrendReplies(s), NEW new \in SiteTrendReplies(s)',
                    new.body # {}
             PROVE  LET minutes == {r.minute : r \in new.body}
                    IN  /\ \A r \in old.body : r.minute \notin minutes =>
                               Cardinality(minutes) = TrendBuckets /\ \A m \in minutes : r.minute < m
                        /\ Cardinality({r \in old.body : r.minute \in minutes} \ new.body) <= 1
                        /\ \A m \in Minute : siteMinute'[<<s, m>>].hist # EmptyHist =>
                               \E n \in minutes : n >= m
  BY DEF TrendSlidesStep
<1> DEFINE rows == TrendRows(s)'
           minutes == {r.minute : r \in new.body}
           row(m) == [minute |-> m, p75 |-> siteMinute'[<<s, m>>].p75]
<1>1. OneMinuteGrowsStep
  BY StepGrows
<1>2. PICK changing \in Minute :
          \A k \in Site \X Minute : k[2] # changing => siteMinute'[k] = siteMinute[k]
  BY <1>1 DEF OneMinuteGrowsStep
<1>3. old.body \subseteq TrendRows(s)
  BY RepliesAreOver, TrendReply DEF Newest
<1>4. new.body = Newest(rows, TrendBuckets)
  BY RepliesAreOver, TrendReply
<1>5. IsTrend(TrendRows(s)) /\ IsTrend(rows)
  BY RowsInv, RowsInvNext DEF RowsShape
<1>6. /\ \A r \in TrendRows(s) :
             /\ r.minute \in Minute
             /\ siteMinute[<<s, r.minute>>].hist # EmptyHist
             /\ r = [minute |-> r.minute, p75 |-> siteMinute[<<s, r.minute>>].p75]
      /\ \A m \in Minute : siteMinute'[<<s, m>>].hist # EmptyHist => row(m) \in rows
  <2>1. \A m \in Minute : siteMinute'[<<s, m>>].hist # EmptyHist => row(m) \in rows
    BY DEF TrendRows
  <2> QED
    BY <2>1, TrendRow
<1>7. \A m \in Minute : m \in Nat
  <2>1. MinuteOf(MaxTime) \in Int
    BY DEF MinuteOf
  <2> QED
    BY <2>1 DEF Minute
<1>8. \A m : row(m).minute = m
  OBVIOUS
<1> HIDE DEF rows, row
<1>9. new.body \subseteq rows /\ IsFiniteSet(new.body)
  <2>1. new.body \in SUBSET rows
    BY <1>4 DEF Newest
  <2> QED
    BY <1>5, <2>1, FS_Subset DEF IsTrend
<1>10. ASSUME NEW x \in rows \ new.body, NEW m \in minutes
       PROVE  x.minute < m
  <2>1. PICK r \in new.body : r.minute = m
    OBVIOUS
  <2> QED
    BY <1>4, <1>5, <2>1, NewestAreNewer
<1>11. ASSUME NEW r \in old.body, r.minute \notin minutes
       PROVE  Cardinality(minutes) = TrendBuckets /\ \A m \in minutes : r.minute < m
  <2> DEFINE x == row(r.minute)
  <2>1. x \in rows /\ x.minute = r.minute
    BY <1>1, <1>3, <1>6, <1>8, MinuteStays
  <2>2. x \notin new.body
    BY <1>11, <2>1
  <2>3. Cardinality(new.body) = TrendBuckets
    BY <1>4, <1>5, <2>1, <2>2, NewestCount
  <2>4. Cardinality(minutes) = Cardinality(new.body)
    <3> DEFINE f == [q \in new.body |-> q.minute]
    <3>1. \A q, z \in new.body : f[q] = f[z] => q = z
      BY <1>5, <1>9 DEF IsTrend
    <3>2. minutes = {f[q] : q \in new.body}
      OBVIOUS
    <3> HIDE DEF f, minutes
    <3> QED
      BY <1>9, <3>1, <3>2, FiniteImage
  <2>5. \A m \in minutes : r.minute < m
    BY <1>10, <2>1, <2>2
  <2> QED
    BY <2>3, <2>4, <2>5
<1> DEFINE changed == {r \in old.body : r.minute \in minutes} \ new.body
<1>12. \A r \in changed : r.minute = changing
  <2> SUFFICES ASSUME NEW r \in changed, r.minute # changing
               PROVE  FALSE
    OBVIOUS
  <2>1. r \in TrendRows(s) /\ r.minute \in Minute
    BY <1>3, <1>6
  <2>2. siteMinute'[<<s, r.minute>>] = siteMinute[<<s, r.minute>>]
    BY <1>2, <2>1
  <2>3. r \in rows
    BY <1>6, <2>1, <2>2 DEF row
  <2>4. PICK q \in new.body : q.minute = r.minute
    OBVIOUS
  <2>5. q = r
    BY <1>5, <1>9, <2>3, <2>4 DEF IsTrend
  <2> QED
    BY <2>4, <2>5
<1>13. Cardinality(changed) <= 1
  <2>1. \A r, q \in changed : r = q
    BY <1>3, <1>5, <1>12 DEF IsTrend
  <2> HIDE DEF changed
  <2>2. CASE changed = {}
    <3>1. Cardinality({}) = 0
      BY FS_EmptySet
    <3> QED
      BY <2>2, <3>1
  <2>3. CASE changed # {}
    <3>1. PICK r : r \in changed
      BY <2>3
    <3>2. changed = {r}
      BY <2>1, <3>1
    <3>3. Cardinality({r}) = 1
      BY FS_Singleton
    <3> QED
      BY <3>2, <3>3
  <2> QED
    BY <2>2, <2>3
<1>14. ASSUME NEW m \in Minute, siteMinute'[<<s, m>>].hist # EmptyHist
       PROVE  \E n \in minutes : n >= m
  <2>1. row(m) \in rows /\ row(m).minute = m
    BY <1>6, <1>8, <1>14
  <2>2. CASE row(m) \in new.body
    <3>1. m \in minutes
      BY <2>1, <2>2
    <3> QED
      BY <1>7, <3>1
  <2>3. CASE row(m) \notin new.body
    <3>1. PICK r \in new.body : TRUE
      OBVIOUS
    <3>2. r.minute \in minutes /\ m < r.minute
      BY <1>10, <2>1, <2>3
    <3>3. r.minute \in Nat
      BY <1>5, <1>9 DEF IsTrend
    <3> QED
      BY <1>7, <3>2, <3>3
  <2> QED
    BY <2>2, <2>3
<1> QED
  BY <1>11, <1>13, <1>14

\* A point leaves the trend at the old end of a full window only, at most one
\* minute changes between replies, and the newest minute with data is always
\* shown, for any length of the window.
THEOREM TrendsSlide == Spec => TrendSlides
<1>1. IInv /\ IInv' /\ [Next]_vars => [TrendSlidesStep]_vars
  BY StepSlidesTrend
<1> QED
  BY <1>1, Inductive, PTL DEF Spec, TrendSlides
=============================================================================
