------------------------------ MODULE AggStore ------------------------------
(***************************************************************************)
(* The tables of agg.db and the part of aggregate.Store.Apply that folds a *)
(* batch into them: histograms per page and minute, histograms per site    *)
(* and minute, and one running row per page.  The marker that the same     *)
(* transaction inserts is WorkerLoop's, and Pipeline joins the two.        *)
(*                                                                         *)
(* A batch is the samples of some events, indexed by whatever names these. *)
(* A row that does not exist is a row with an empty histogram.             *)
(* Columns that nothing reads (count, p75_ms and last_seen of page_minute, *)
(* count and last_seen of site_minute, applied_at) are left out.           *)
(***************************************************************************)
EXTENDS FiniteSetsExt

CONSTANTS
    Site, Page,       \* site ids and page URLs
    NumBins,          \* histogram bins; 128 in the code
    UpperMs,          \* upperMs: the upper edge of each bin, rounded
    TicksPerMinute,   \* resolution of the worker's clock; 60 in the code
    TrailingMinutes,  \* window of page_current.p75_ms; 60 in the code
    Limit,            \* BATCH_LIMIT
    MaxTime,          \* bound: the clock's last reading
    MaxEvents         \* bound: how many events are folded

Bin == 1..NumBins

ASSUME ConstantsAssumption ==
    /\ NumBins \in Nat \ {0}
    /\ TicksPerMinute \in Nat \ {0}
    /\ TrailingMinutes \in Nat \ {0}
    /\ Limit \in Nat \ {0}
    /\ MaxTime \in Nat
    /\ MaxEvents \in Nat
\* Finitely many events name finitely many sites and pages.
ASSUME KeysAssumption == IsFiniteSet(Site) /\ IsFiniteSet(Page)
\* The edges of log-spaced bins grow even after rounding to milliseconds.
ASSUME UpperMsAssumption ==
    /\ UpperMs \in [Bin -> Nat \ {0}]
    /\ \A a, b \in Bin : a < b => UpperMs[a] < UpperMs[b]

VARIABLES
    pageMinute,       \* page_minute: a histogram per site, page and minute
    siteMinute,       \* site_minute: a histogram and its p75 per site and minute
    pageCurrent       \* page_current: count, p75 and last_seen per page

vars == <<pageMinute, siteMinute, pageCurrent>>

Time == 0..MaxTime
MinuteOf(t) == t \div TicksPerMinute
Minute == 0..MinuteOf(MaxTime)

-----------------------------------------------------------------------------
(* Histograms (histogram.go). *)

\* The sum of a function over a finite set.
SumOver(f, S) == MapThenSumSet(LAMBDA x : f[x], S)

Hist == [Bin -> Nat]
EmptyHist == [b \in Bin |-> 0]

KeepNewest(g, h) == h   \* fault: the bucket's old histogram is not read
Merge(g, h) == [b \in Bin |-> g[b] + h[b]]

\* How many of h's samples are in the bins up to b.
UpTo(h, b) == SumOver(h, 1..b)
Count(h) == UpTo(h, NumBins)

\* Fault: the bin is reported by its number, not by its edge.
P75Bin(h) ==
    IF Count(h) = 0 THEN 0
    ELSE Min({b \in Bin : 4 * UpTo(h, b) >= 3 * Count(h)})

\* Fault: the comparison with the rank is strict.
P75Strict(h) ==
    IF Count(h) = 0 THEN 0
    ELSE UpperMs[Min({b \in Bin : 4 * UpTo(h, b) > 3 * Count(h)} \union {NumBins})]

\* The edge of the first bin at which three quarters of the samples are reached.
P75(h) ==
    IF Count(h) = 0 THEN 0
    ELSE UpperMs[Min({b \in Bin : 4 * UpTo(h, b) >= 3 * Count(h)})]

-----------------------------------------------------------------------------
(* Folding a batch. *)

Sample == Site \X Page \X Bin

\* The batches Claim can return: one to n samples.
Batches(n) == UNION {[1..i -> Sample] : i \in 1..n}

PageSamples(batch, s, p) == {e \in DOMAIN batch : batch[e][1] = s /\ batch[e][2] = p}

PageAdded(batch, s, p) ==
    [b \in Bin |-> Cardinality({e \in PageSamples(batch, s, p) : batch[e][3] = b})]
SiteAdded(batch, s) ==
    [b \in Bin |-> Cardinality({e \in DOMAIN batch : batch[e][1] = s /\ batch[e][3] = b})]

\* Fault: the window starts one minute early.
TrailingTooLong(buckets, s, p, minute) ==
    [b \in Bin |-> SumOver([m \in Minute |-> buckets[<<s, p, m>>][b]],
                           {m \in Minute : m >= minute - TrailingMinutes})]

\* The merged histogram of the trailing window.  It has no upper end: buckets
\* written before the clock was set back lie in it too.
Trailing(buckets, s, p, minute) ==
    [b \in Bin |-> SumOver([m \in Minute |-> buckets[<<s, p, m>>][b]],
                           {m \in Minute : m > minute - TrailingMinutes})]

FoldPageMinute(batch, minute) ==
    pageMinute' = [k \in Site \X Page \X Minute |->
        IF k[3] = minute THEN Merge(pageMinute[k], PageAdded(batch, k[1], k[2]))
        ELSE pageMinute[k]]

\* Fault: the site's histogram is built from the page loop's, which are bucket
\* totals by then.
FoldSiteMinuteFromTotals(batch, minute) ==
    siteMinute' = [k \in Site \X Minute |->
        LET totals == [b \in Bin |->
                SumOver([p \in Page |-> pageMinute'[<<k[1], p, minute>>][b]],
                        {p \in Page : PageSamples(batch, k[1], p) # {}})]
            hist == Merge(siteMinute[k].hist, totals)
        IN  IF k[2] = minute THEN [hist |-> hist, p75 |-> P75(hist)] ELSE siteMinute[k]]

\* The site's buckets are fed from the samples, not from the page totals.
FoldSiteMinute(batch, minute) ==
    siteMinute' = [k \in Site \X Minute |->
        LET hist == Merge(siteMinute[k].hist, SiteAdded(batch, k[1]))
        IN  IF k[2] = minute THEN [hist |-> hist, p75 |-> P75(hist)] ELSE siteMinute[k]]

\* Only the rows of pages the batch touched are recomputed.
FoldPageCurrent(batch, now) ==
    pageCurrent' = [k \in Site \X Page |->
        LET samples == PageSamples(batch, k[1], k[2])
        IN  IF samples = {} THEN pageCurrent[k]
            ELSE [count    |-> pageCurrent[k].count + Cardinality(samples),
                  p75      |-> P75(Trailing(pageMinute', k[1], k[2], MinuteOf(now))),
                  lastSeen |-> now]]

\* Apply, but for its marker: now is the host's clock when the tick fired.
Fold(batch, now) ==
    /\ FoldPageMinute(batch, MinuteOf(now))
    /\ FoldPageCurrent(batch, now)
    /\ FoldSiteMinute(batch, MinuteOf(now))

-----------------------------------------------------------------------------
(* What the api reads. *)

Seen == {k \in Site \X Page : pageCurrent[k].count > 0}

\* SELECT max(last_seen) FROM page_current, when there is a row.
LastAggregate == Max({pageCurrent[k].lastSeen : k \in Seen})

\* All events the aggregates count.
Counted == SumOver([k \in Site \X Page |-> pageCurrent[k].count], Site \X Page)

-----------------------------------------------------------------------------

\* New tables.  A volume with buckets from before site_minute, to which Open adds
\* that table empty, is left out: its old minutes have no trend.
Init ==
    /\ pageMinute = [k \in Site \X Page \X Minute |-> EmptyHist]
    /\ siteMinute = [k \in Site \X Minute |-> [hist |-> EmptyHist, p75 |-> 0]]
    /\ pageCurrent = [k \in Site \X Page |-> [count |-> 0, p75 |-> 0, lastSeen |-> 0]]

\* The clock runs between folds, and a host's clock can be set back: a fold
\* may come at any time.
Next ==
    \E batch \in Batches(Limit), now \in Time :
        /\ Counted + Cardinality(DOMAIN batch) <= MaxEvents
        /\ Fold(batch, now)

Spec == Init /\ [][Next]_vars

-----------------------------------------------------------------------------
(* Properties. *)

\* Histograms count with natural numbers, and a served p75 is a bin's edge.
TypeOK ==
    /\ pageMinute \in [Site \X Page \X Minute -> Hist]
    /\ siteMinute \in [Site \X Minute ->
           [hist : Hist, p75 : {0} \union {UpperMs[b] : b \in Bin}]]
    /\ pageCurrent \in [Site \X Page ->
           [count : Nat, p75 : {0} \union {UpperMs[b] : b \in Bin}, lastSeen : Time]]

\* The merged histogram of a site's pages, and all that a page ever counted.
AllPages(buckets, s, m) ==
    [b \in Bin |-> SumOver([p \in Page |-> buckets[<<s, p, m>>][b]], Page)]
AllTime(buckets, s, p) ==
    SumOver([m \in Minute |-> Count(buckets[<<s, p, m>>])], Minute)

\* site_minute, filled from the samples, says the same as page_minute, filled
\* bucket by bucket: no batch counts twice in a site's trend.
SiteMergesPages ==
    \A s \in Site, m \in Minute :
        siteMinute[<<s, m>>].hist = AllPages(pageMinute, s, m)

\* page_current can be rebuilt from page_minute and the time of the page's last
\* fold: the all-time count is the sum of the buckets, and the p75 is that of all
\* buckets from TrailingMinutes before that fold's minute on.  Where the clock was
\* set back these include buckets later than the fold, as in the query: the p75 is
\* that of the trailing window only while the page has no such bucket.
CurrentIsDerived ==
    \A s \in Site, p \in Page :
        LET row == pageCurrent[<<s, p>>]
            buckets == {m \in Minute : m > MinuteOf(row.lastSeen) - TrailingMinutes}
            window == [b \in Bin |->
                SumOver([m \in Minute |-> pageMinute[<<s, p, m>>][b]], buckets)]
        IN  /\ row.count = AllTime(pageMinute, s, p)
            /\ row.count > 0 => row.p75 = P75(window)

\* A trend point is the 75th percentile by nearest rank: at least three
\* quarters of the site's samples in that minute lie at or below it, and
\* fewer than three quarters below it.
TrendIsNearestRank ==
    \A s \in Site, m \in Minute :
        LET row == siteMinute[<<s, m>>]
            Samples(bins) == SumOver(row.hist, bins)
            n == Samples(Bin)
        IN  n > 0 =>
            /\ 4 * Samples({b \in Bin : UpperMs[b] <= row.p75}) >= 3 * n
            /\ 4 * Samples({b \in Bin : UpperMs[b] < row.p75}) < 3 * n

\* The past is fixed: a fold adds to the buckets of one minute and changes no
\* other, and nothing that was counted is ever uncounted.
OneMinuteGrowsStep ==
    /\ \A k \in Site \X Page \X Minute, b \in Bin : pageMinute'[k][b] >= pageMinute[k][b]
    /\ \A k \in Site \X Page : pageCurrent'[k].count >= pageCurrent[k].count
    /\ \E minute \in Minute :
           /\ \A k \in Site \X Page \X Minute :
                  k[3] # minute => pageMinute'[k] = pageMinute[k]
           /\ \A k \in Site \X Minute : k[2] # minute => siteMinute'[k] = siteMinute[k]
OneMinuteGrows == [][OneMinuteGrowsStep]_vars
-----------------------------------------------------------------------------
(* Why it holds: the inductive invariant that AggStoreProofs proves.       *)

\* A trend point is the p75 of the histogram beside it.
TrendIsDerived == \A k \in Site \X Minute : siteMinute[k].p75 = P75(siteMinute[k].hist)

IInv ==
    /\ TypeOK
    /\ SiteMergesPages
    /\ CurrentIsDerived
    /\ TrendIsDerived
=============================================================================
