---------------------------- MODULE ReadSurface ----------------------------
(***************************************************************************)
(* What the api answers from agg.db while the worker folds into it: the    *)
(* pages and the trend of a site, the list of sites, and a site's config.  *)
(* Every request is one read of its own, so a client sees one state of the *)
(* tables per reply; a reply is the set of rows in it, for their order is  *)
(* that of a column.  Rows with equal counts may be cut off in any order,  *)
(* and a read that fails is answered like one that finds nothing, so every *)
(* request has a set of possible replies.                                  *)
(***************************************************************************)
EXTENDS AggStore

CONSTANTS
    Provisioned,    \* the sites in cfg.py
    TopPagesLimit,  \* TOP_PAGES, 20 in the code
    TrendBuckets    \* TREND_BUCKETS, 1440 in the code

ASSUME ReadSurfaceAssumption ==
    TopPagesLimit \in Nat \ {0} /\ TrendBuckets \in Nat \ {0}

\* agg_rows: the rows, or None when agg.db, the table or the lock cannot be
\* had.  Every caller takes None for no rows.
AggRows(rows) == {rows, {}}

Ok(body) == [status |-> 200, body |-> body]
NotFound == [status |-> 404]

-----------------------------------------------------------------------------
(* The commands. *)

\* The rows of page_current of one site.
PageRows(s) ==
    {[page |-> p, count |-> pageCurrent[<<s, p>>].count] : p \in {q \in Page : <<s, q>> \in Seen}}

\* How many rows LIMIT n leaves.
LimitTo(n, rows) == IF Cardinality(rows) < n THEN Cardinality(rows) ELSE n

\* Fault: ORDER BY count, without DESC.
SmallestFirst(rows) ==
    {top \in SUBSET rows :
        /\ Cardinality(top) = LimitTo(TopPagesLimit, rows)
        /\ \A r \in top, q \in rows \ top : r.count <= q.count}

\* ORDER BY count DESC LIMIT TOP_PAGES: nothing orders equal counts.
BiggestFirst(rows) ==
    {top \in SUBSET rows :
        /\ Cardinality(top) = LimitTo(TopPagesLimit, rows)
        /\ \A r \in top, q \in rows \ top : r.count >= q.count}

GetTopPages(s) == UNION {AggRows(top) : top \in BiggestFirst(PageRows(s))}

\* The rows of site_minute of one site.
TrendRows(s) ==
    {[minute |-> m, p75 |-> siteMinute[<<s, m>>].p75] :
        m \in {i \in Minute : siteMinute[<<s, i>>].hist # EmptyHist}}

\* Fault: ascending in the inner SELECT too.
FirstMinutes(rows) ==
    {r \in rows : Cardinality({q \in rows : q.minute < r.minute}) < TrendBuckets}

\* The newest TREND_BUCKETS minutes.
LastMinutes(rows) ==
    {r \in rows : Cardinality({q \in rows : q.minute > r.minute}) < TrendBuckets}

GetTrend(s) == AggRows(LastMinutes(TrendRows(s)))

\* Fault: the config alone.
ProvisionedOnly == {Provisioned}

\* The config united with the aggregates.
ListSites == {Provisioned \union found : found \in AggRows({k[1] : k \in Seen})}

GetSiteConfig(s) == {s} \intersect Provisioned

-----------------------------------------------------------------------------
(* The endpoints. *)

SitesReplies == {Ok(list) : list \in ListSites}
SitePagesReplies(s) == {Ok(rows) : rows \in GetTopPages(s)}
SiteTrendReplies(s) == {Ok(rows) : rows \in GetTrend(s)}
ConfigReply(s) == IF GetSiteConfig(s) = {} THEN NotFound ELSE Ok(GetSiteConfig(s))

-----------------------------------------------------------------------------
(* Properties. *)

\* Successive replies of /sites/{id}/pages: a page that was shown is shown with
\* a count at least as big, or is displaced by a full table of pages that are
\* all at least as big as it was.  Only an empty reply breaks the series.
PagesOnlyGrowStep ==
    \A s \in Site : \A old \in SitePagesReplies(s), new \in SitePagesReplies(s)' :
        new.body # {} => \A r \in old.body :
            \/ \E q \in new.body : q.page = r.page /\ q.count >= r.count
            \/ /\ Cardinality(new.body) = TopPagesLimit
               /\ \A q \in new.body : q.page # r.page /\ q.count >= r.count
PagesOnlyGrow == [][PagesOnlyGrowStep]_vars

\* Successive replies of /sites/{id}/trend: a point leaves at the old end of a
\* full window only, at most one minute's p75 changes, and the newest minute
\* with data is in every reply that is not empty.
TrendSlidesStep ==
    \A s \in Site : \A old \in SiteTrendReplies(s), new \in SiteTrendReplies(s)' :
        new.body # {} =>
            LET minutes == {r.minute : r \in new.body}
            IN  /\ \A r \in old.body : r.minute \notin minutes =>
                       Cardinality(minutes) = TrendBuckets /\ \A m \in minutes : r.minute < m
                /\ Cardinality({r \in old.body : r.minute \in minutes} \ new.body) <= 1
                /\ \A m \in Minute : siteMinute'[<<s, m>>].hist # EmptyHist =>
                       \E n \in minutes : n >= m
TrendSlides == [][TrendSlidesStep]_vars

\* Every reply of /sites holds the provisioned sites, a reply that could read
\* agg.db every site that has pages or a trend, and none a site for which
\* neither /config nor /pages has an answer.
SitesAreUsable ==
    \A reply \in SitesReplies :
        /\ Provisioned \subseteq reply.body
        /\ \A s \in reply.body :
               ConfigReply(s).status = 200 \/ SitePagesReplies(s) # {Ok({})}
        /\ \E full \in SitesReplies : \A s \in Site :
               SitePagesReplies(s) # {Ok({})} \/ SiteTrendReplies(s) # {Ok({})} => s \in full.body
=============================================================================
