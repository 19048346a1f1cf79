----------------------------- MODULE Dashboard ------------------------------
(***************************************************************************)
(* The dashboard's refresh cycle (app.js): one page in one browser, a poll *)
(* every Poll seconds, a site selector, and an api whose replies take any  *)
(* time, fail, or hang until the browser aborts them.  JavaScript runs one *)
(* callback at a time, so each action is the code between two awaits.      *)
(*                                                                         *)
(* What the api returns is abstracted to whose data it is and when it was  *)
(* read: a table and its trend are fetched together and assigned together. *)
(* The fixture mode is left out.                                           *)
(***************************************************************************)
EXTENDS FiniteSetsExt

CONSTANTS
    Site,         \* site ids, numbered in the order the api sorts them
    Poll,         \* POLL_MS, 5 seconds
    Timeout,      \* FETCH_TIMEOUT_MS, 4 seconds
    ConfigPoll,   \* CONFIG_POLL_MS, 60 seconds
    Prompt,       \* an api that answers within Prompt seconds is well
    MaxChanges,   \* bound: how often the user picks a site
    MaxTime       \* bound: how long the page is open, in seconds

ASSUME SiteAssumption == Site \subseteq Nat \ {0}
ASSUME TimesAssumption ==
    /\ {Poll, Timeout, ConfigPoll} \subseteq Nat \ {0}
    /\ {Prompt, MaxTime, MaxChanges} \subseteq Nat
    /\ Timeout < Poll
\* A well api answers a refresh's two round trips before the next poll.
ASSUME PromptAssumption == 2 * Prompt < Poll

VARIABLES
    state,           \* the state object
    view,            \* what is on the page: the state that was last rendered,
                     \* and in the selector the pick made since
    pending,         \* the selector shows a pick that was not yet rendered
    refreshSeq,
    configFetchedAt,
    configSite,
    flights,         \* the calls of refresh() that wait for a reply
    clock,           \* seconds since the page was opened
    changes,         \* how often the user has picked a site
    trouble          \* when the api last failed, or kept a request waiting
                     \* for more than Prompt, or the user picked a site

vars == <<state, view, pending, refreshSeq, configFetchedAt, configSite, flights,
          clock, changes, trouble>>

NoSite == 0
NoConfig == 0
NoData == [site |-> NoSite, at |-> 0]
Never == 0

\* What /pages and /trend return for a site: the time they were read.
Data == {NoData} \union [site : Site, at : 0..MaxTime]
State == [sites : SUBSET Site, site : Site \union {NoSite}, data : Data,
          config : Site \union {NoConfig}, error : BOOLEAN, updated : 0..MaxTime]

\* A call of refresh(): which await it is at, since when, and what it asked for.
Flight == [seq : Nat, phase : {"sites", "data"}, start : 0..MaxTime,
           site : Site \union {NoSite}, wantConfig : BOOLEAN]

Launch(seq) == [seq |-> seq, phase |-> "sites", start |-> clock, site |-> NoSite,
                wantConfig |-> FALSE]

-----------------------------------------------------------------------------
(* Rendering. *)

\* The site that is kept while it is listed; otherwise the first one is taken.
Selected(site, sites) ==
    IF site \in sites THEN site
    ELSE IF sites = {} THEN NoSite ELSE Min(sites)

\* The selector has an option for every site, and the browser shows the first
\* where none is marked.
Rendered(s) == [s EXCEPT !.site = Selected(s.site, s.sites)]

\* The end of refresh(): the page is the state again.
Render ==
    /\ view' = Rendered(state')
    /\ pending' = FALSE

-----------------------------------------------------------------------------
(* Calls of refresh(). *)

\* One call as the page loads, one for every tick of the interval timer so
\* far, one for every pick of a site.
CallsDue == 1 + clock \div Poll + changes

\* setInterval's callback, once in its second.
PollTick ==
    /\ refreshSeq < CallsDue
    /\ refreshSeq' = refreshSeq + 1
    /\ flights' = flights \union {Launch(refreshSeq + 1)}
    /\ UNCHANGED <<state, view, pending, configFetchedAt, configSite, clock, changes,
                   trouble>>

\* Fault: the newer refresh does not take a token of its own.
ChangeSiteSameToken(s) ==
    /\ changes < MaxChanges
    /\ s \in view.sites \ {view.site}
    /\ state' = [state EXCEPT !.site = s]
    /\ view' = [view EXCEPT !.site = s]
    /\ pending' = TRUE
    /\ flights' = flights \union {Launch(refreshSeq)}
    /\ changes' = changes + 1
    /\ trouble' = clock
    /\ UNCHANGED <<refreshSeq, configFetchedAt, configSite, clock>>

\* The user picks another of the sites in the selector, which shows it at once;
\* the rest of the page stays as it is until the refresh ends.
ChangeSite(s) ==
    /\ changes < MaxChanges
    /\ s \in view.sites \ {view.site}
    /\ state' = [state EXCEPT !.site = s]
    /\ view' = [view EXCEPT !.site = s]
    /\ pending' = TRUE
    /\ refreshSeq' = refreshSeq + 1
    /\ flights' = flights \union {Launch(refreshSeq + 1)}
    /\ changes' = changes + 1
    /\ trouble' = clock
    /\ UNCHANGED <<configFetchedAt, configSite, clock>>

-----------------------------------------------------------------------------
(* Replies.  A refresh that was superseded returns at its next await. *)

Current(f) == f.seq = refreshSeq

Superseded(f) ==
    /\ ~Current(f)
    /\ flights' = flights \ {f}
    /\ UNCHANGED <<state, view, pending, refreshSeq, configFetchedAt, configSite, clock,
                   changes, trouble>>

\* Fault: the config is fetched once a minute, whatever site it is for.
WantConfigByAge(site) == configSite = NoSite \/ clock - configFetchedAt >= ConfigPoll

\* The config is fetched for a site it is not for, and once a minute.
WantConfig(site) == site # configSite \/ clock - configFetchedAt >= ConfigPoll

\* GET /sites returned a list, or 404 and with it the empty list.
SitesReply(f, sites) ==
    /\ f.phase = "sites"
    /\ Current(f)
    /\ LET site == Selected(state.site, sites)
           listed == [state EXCEPT !.sites = sites, !.site = site]
       IN  \/ /\ site # NoSite
              /\ state' = listed
              /\ flights' = (flights \ {f}) \union
                     {[f EXCEPT !.phase = "data", !.start = clock, !.site = site,
                                !.wantConfig = WantConfig(site)]}
              /\ UNCHANGED <<view, pending>>
           \/ /\ site = NoSite
              /\ state' = [listed EXCEPT !.data = NoData, !.config = NoConfig,
                                         !.error = FALSE, !.updated = clock]
              /\ flights' = flights \ {f}
              /\ Render
    /\ UNCHANGED <<refreshSeq, configFetchedAt, configSite, clock, changes, trouble>>

\* Fault: the token is checked after the first await only.
DataReplyUnchecked(f, data, config) ==
    /\ f.phase = "data"
    /\ state' = [state EXCEPT !.data = data, !.error = FALSE, !.updated = clock,
                              !.config = IF f.wantConfig THEN config ELSE @]
    /\ configFetchedAt' = IF f.wantConfig THEN clock ELSE configFetchedAt
    /\ configSite' = IF f.wantConfig THEN state.site ELSE configSite
    /\ flights' = flights \ {f}
    /\ Render
    /\ UNCHANGED <<refreshSeq, clock, changes, trouble>>

\* Fault: the banner is not taken down.
DataReplyKeepsBanner(f, data, config) ==
    /\ f.phase = "data"
    /\ Current(f)
    /\ state' = [state EXCEPT !.data = data, !.updated = clock,
                              !.config = IF f.wantConfig THEN config ELSE @]
    /\ configFetchedAt' = IF f.wantConfig THEN clock ELSE configFetchedAt
    /\ configSite' = IF f.wantConfig THEN state.site ELSE configSite
    /\ flights' = flights \ {f}
    /\ Render
    /\ UNCHANGED <<refreshSeq, clock, changes, trouble>>

\* The last reply of Promise.all: the site's data, and its config if wanted;
\* a 404 stands for no data, or no config.
DataReply(f, data, config) ==
    /\ f.phase = "data"
    /\ Current(f)
    /\ state' = [state EXCEPT !.data = data, !.error = FALSE, !.updated = clock,
                              !.config = IF f.wantConfig THEN config ELSE @]
    /\ configFetchedAt' = IF f.wantConfig THEN clock ELSE configFetchedAt
    /\ configSite' = IF f.wantConfig THEN state.site ELSE configSite
    /\ flights' = flights \ {f}
    /\ Render
    /\ UNCHANGED <<refreshSeq, clock, changes, trouble>>

\* A request was refused, answered with a 5xx or aborted by its timeout: the
\* data stay, and the banner is shown.
FailedReply(f) ==
    /\ Current(f)
    /\ state' = [state EXCEPT !.error = TRUE]
    /\ flights' = flights \ {f}
    /\ Render
    /\ trouble' = clock
    /\ UNCHANGED <<refreshSeq, configFetchedAt, configSite, clock, changes>>

Reply(f) ==
    \/ Superseded(f)
    \/ \E sites \in SUBSET Site : SitesReply(f, sites)
    \/ \E data \in {NoData} \union [site : {f.site}, at : f.start..clock],
          config \in {NoConfig, f.site} : DataReply(f, data, config)
    \/ FailedReply(f)

\* A second passes.  No request outlives its timeout, and the browser's timer
\* has fired if it was due.
Second ==
    /\ clock < MaxTime
    /\ \A f \in flights : clock - f.start < Timeout
    /\ refreshSeq = CallsDue
    /\ clock' = clock + 1
    /\ trouble' = IF \E f \in flights : Current(f) /\ clock' - f.start > Prompt
                  THEN clock' ELSE trouble
    /\ UNCHANGED <<state, view, pending, refreshSeq, configFetchedAt, configSite, flights,
                   changes>>

-----------------------------------------------------------------------------

\* The page has loaded and refresh() was called once.
Init ==
    /\ state = [sites |-> {}, site |-> NoSite, data |-> NoData, config |-> NoConfig,
                error |-> FALSE, updated |-> Never]
    /\ view = state /\ pending = FALSE
    /\ refreshSeq = 1
    /\ configFetchedAt = 0
    /\ configSite = NoSite
    /\ clock = 0
    /\ flights = {Launch(1)}
    /\ changes = 0
    /\ trouble = 0

Next ==
    \/ PollTick
    \/ \E s \in Site : ChangeSite(s)
    \/ \E f \in flights : Reply(f)
    \/ Second

Spec == Init /\ [][Next]_vars

-----------------------------------------------------------------------------
(* Properties. *)

\* The page's variables keep their shapes, and no two calls of refresh() share
\* a token.
TypeOK ==
    /\ state \in State
    /\ view \in State /\ pending \in BOOLEAN
    /\ refreshSeq \in Nat /\ configFetchedAt \in 0..MaxTime
    /\ configSite \in Site \union {NoSite}
    /\ flights \subseteq Flight
    /\ \A f, g \in flights : f.seq = g.seq => f = g
    /\ clock \in 0..MaxTime /\ changes \in 0..MaxChanges /\ trouble \in 0..MaxTime

\* The rows and the config on the page are always of one site, with the banner
\* or without.  That is the site the selector shows, unless the banner is up or
\* the user has just picked another: the selector shows a pick at once, above
\* the rows of the site before, and a refresh that will render it is under way
\* for as long as it does.
ViewIsOfOneSite ==
    /\ view.config # NoConfig => view.data.site \in {view.config, NoSite}
    /\ ~view.error /\ ~pending =>
           /\ view.data.site \in {view.site, NoSite}
           /\ view.config \in {view.site, NoConfig}
    /\ pending => \E f \in flights : Current(f)

\* A slow reply never overwrites a fresher one: data that replace data were
\* read no earlier.
NoRollbackStep ==
    state'.data # NoData => state'.data.at >= state.data.at
NoRollback == [][NoRollbackStep]_vars

\* The page recovers by itself: once the api has been well, and the user
\* quiet, for a poll interval and the two round trips of a refresh, the
\* banner is down, the page is no older than that, and the last pick is shown.
RecoversByItself ==
    LET patience == Poll + 2 * Prompt
    IN  clock > trouble + patience =>
            /\ ~view.error /\ ~pending
            /\ clock - view.updated <= patience

\* Hung requests die before the next tick (app.js, FETCH_TIMEOUT_MS): a
\* request made between two ticks of the timer is not in flight once the
\* second of the later tick is over.
HungRequestsDieBeforeTick ==
    \A f \in flights : f.start \div Poll = clock \div Poll \/ clock % Poll = 0

\* Frozen numbers are never mistaken for live ones: a page that has not been
\* updated for two poll intervals and a refresh shows the banner.
FrozenIsFlagged ==
    view.error \/ clock - view.updated <= 2 * Poll + 2 * Timeout
-----------------------------------------------------------------------------
(* Why it holds: the inductive invariant that DashboardProofs proves.      *)

\* When the timer last was due.
LastTick == Poll * (clock \div Poll)

\* A tick is overdue in its own second only, so a token is given out once.
TokensShape ==
    /\ refreshSeq = CallsDue \/ (refreshSeq = CallsDue - 1 /\ clock = LastTick)
    /\ \A f \in flights : f.seq <= refreshSeq

\* What the call that may still write has asked for is what is selected now,
\* and what it will write is newer than what it replaces.
FlightShape ==
    \A f \in flights : Current(f) /\ f.phase = "data" =>
        /\ f.site = state.site /\ f.site \in state.sites
        /\ ~f.wantConfig => f.site = configSite
        /\ state.data.at <= f.start

\* The data and the config in the state are for the site the config was last
\* fetched for, and nothing is from the future.
StateShape ==
    /\ state.config \in {configSite, NoConfig}
    /\ state.data.site \in {configSite, NoSite}
    /\ state.data.at <= clock /\ state.updated <= clock

\* A pick is trouble, and the page was not rendered since.
ViewShape ==
    /\ view.updated <= clock
    /\ pending => view.updated <= trouble

\* A current request that is older than Prompt is trouble, in every second.
PromptShape == \A f \in flights : Current(f) /\ clock - f.start > Prompt => trouble = clock

\* The refresh of the last tick is about to start, at one of its two awaits, and
\* there for at most Prompt, or done.
TickShape ==
    \/ refreshSeq < CallsDue
    \/ \E f \in flights :
           /\ Current(f)
           /\ f.start <= IF f.phase = "sites" THEN LastTick ELSE LastTick + Prompt
    \/ ~view.error /\ view.updated >= LastTick

\* Without trouble since the last tick, its refresh is on its way; without any
\* since the tick before, the one before went through.
FreshShape ==
    /\ trouble < LastTick => TickShape
    /\ trouble + Poll < LastTick => ~view.error /\ view.updated >= LastTick - Poll

IInv ==
    /\ TypeOK
    /\ TokensShape
    /\ FlightShape
    /\ StateShape
    /\ ViewShape
    /\ PromptShape
    /\ FreshShape
    /\ ViewIsOfOneSite
=============================================================================
