--------------------------- MODULE DashboardProofs ---------------------------
(***************************************************************************)
(* Machine-checked proofs about Dashboard, for every set of sites, every   *)
(* poll interval and timeout, and an api that is prompt for it.            *)
(***************************************************************************)
EXTENDS Dashboard, FiniteSetTheorems, WellFoundedInduction, TLAPS

USE SiteAssumption, TimesAssumption, PromptAssumption

-----------------------------------------------------------------------------
(* Facts about the operators. *)

\* Every nonempty set of numbers has a smallest one.
LEMMA NatHasMin ==
    ASSUME NEW S \in SUBSET Nat, S # {}
    PROVE  \E x \in S : \A y \in S : x <= y
<1> DEFINE Up == {0..x : x \in S}
<1>1. Up # {}
  OBVIOUS
<1>2. Up \subseteq FiniteSubsetsOf(Nat)
  <2>1. \A x \in S : IsFiniteSet(0..x) /\ 0..x \subseteq Nat
    BY FS_Interval
  <2> QED
    BY <2>1 DEF FiniteSubsetsOf
<1>3. IsWellFoundedOn(StrictSubsetOrdering(Nat), FiniteSubsetsOf(Nat))
  BY FS_StrictSubsetOrderingWellFounded
<1>4. PICK U \in Up : \A V \in Up : <<V, U>> \notin StrictSubsetOrdering(Nat)
  <2> HIDE DEF Up
  <2> QED
    BY <1>1, <1>2, <1>3, WFMin
<1>5. PICK x \in S : U = 0..x
  OBVIOUS
<1>6. ASSUME NEW y \in S, y < x
      PROVE  FALSE
  <2>1. <<0..y, 0..x>> \in StrictSubsetOrdering(Nat)
    <3>1. 0..y \subseteq 0..x /\ x \in 0..x /\ x \notin 0..y
      BY <1>6
    <3> QED
      BY <3>1 DEF StrictSubsetOrdering
  <2> QED
    BY <1>4, <1>5, <2>1
<1> QED
  BY <1>6

\* Only a site that is listed is selected, or none.
LEMMA SelectedIsListed ==
    ASSUME NEW sites \in SUBSET Site, NEW s \in Site \union {NoSite}
    PROVE  /\ Selected(s, sites) \in sites \union {NoSite}
           /\ s \in sites => Selected(s, sites) = s
<1>1. CASE s \in sites
  BY <1>1 DEF Selected
<1>2. CASE s \notin sites
  <2>1. CASE sites = {}
    BY <1>2, <2>1 DEF Selected
  <2>2. CASE sites # {}
    <3>1. PICK x \in sites : \A y \in sites : x <= y
      BY <2>2, NatHasMin
    <3>2. Min(sites) \in sites
      BY <3>1 DEF Min
    <3> QED
      BY <1>2, <2>2, <3>2 DEF Selected
  <2> QED
    BY <2>1, <2>2
<1> QED
  BY <1>1, <1>2

\* Rendering changes nothing of a state but which site it shows as selected.
LEMMA RenderedIsState ==
    ASSUME NEW s \in State
    PROVE  /\ Rendered(s) \in State
           /\ Rendered(s).data = s.data /\ Rendered(s).config = s.config
           /\ Rendered(s).error = s.error /\ Rendered(s).updated = s.updated
           /\ s.site \in s.sites => Rendered(s).site = s.site
<1>1. s.sites \in SUBSET Site /\ s.site \in Site \union {NoSite}
  BY DEF State
<1> DEFINE t == Selected(s.site, s.sites)
<1>2. t \in Site \union {NoSite} /\ (s.site \in s.sites => t = s.site)
  <2>1. /\ Selected(s.site, s.sites) \in s.sites \union {NoSite}
        /\ s.site \in s.sites => Selected(s.site, s.sites) = s.site
    BY <1>1, SelectedIsListed
  <2> QED
    BY <1>1, <2>1
<1>3. Rendered(s) = [s EXCEPT !.site = t]
  BY DEF Rendered
<1> HIDE DEF t
<1> QED
  BY <1>2, <1>3 DEF State

\* The timer's last tick is at most an interval ago.
LEMMA TickBounds ==
    ASSUME NEW c \in Nat
    PROVE  /\ c \div Poll \in Nat
           /\ Poll * (c \div Poll) \in Nat
           /\ Poll * (c \div Poll) <= c
           /\ c < Poll * (c \div Poll) + Poll
OBVIOUS

\* A second later it is the same tick, or a new one is due.
LEMMA TickAdvances ==
    ASSUME NEW c \in Nat
    PROVE  \/ /\ (c + 1) \div Poll = c \div Poll
              /\ Poll * ((c + 1) \div Poll) = Poll * (c \div Poll)
           \/ /\ (c + 1) \div Poll = c \div Poll + 1
              /\ Poll * ((c + 1) \div Poll) = Poll * (c \div Poll) + Poll
              /\ Poll * ((c + 1) \div Poll) = c + 1
<1> DEFINE q == c \div Poll
           r == (c + 1) \div Poll
<1>1. /\ q \in Nat /\ r \in Nat
      /\ Poll * q <= c /\ c < Poll * q + Poll
      /\ Poll * r <= c + 1 /\ c + 1 < Poll * r + Poll
      /\ Poll * q \in Nat /\ Poll * r \in Nat
  <2>1. c + 1 \in Nat
    OBVIOUS
  <2>2. q \in Nat /\ Poll * q \in Nat /\ Poll * q <= c /\ c < Poll * q + Poll
    BY TickBounds
  <2>3. r \in Nat /\ Poll * r \in Nat /\ Poll * r <= c + 1 /\ c + 1 < Poll * r + Poll
    BY <2>1, TickBounds
  <2> QED
    BY <2>2, <2>3
<1> HIDE DEF q, r
<1>2. ~(r > q + 1)
  <2>1. ASSUME r >= q + 2 PROVE Poll * r >= Poll * q + 2 * Poll
    <3>1. PICK k \in Nat : r = q + 2 + k
      BY <1>1, <2>1
    <3>2. Poll * k \in Nat
      OBVIOUS
    <3>3. Poll * r = Poll * q + 2 * Poll + Poll * k
      BY <3>1, <1>1
    <3> QED
      BY <3>2, <3>3, <1>1
  <2> QED
    BY <1>1, <2>1
<1>3. ~(r < q)
  <2>1. ASSUME r < q PROVE Poll * r + Poll <= Poll * q
    <3>1. PICK k \in Nat : q = r + 1 + k
      BY <1>1, <2>1
    <3>2. Poll * k \in Nat
      OBVIOUS
    <3>3. Poll * q = Poll * r + Poll + Poll * k
      BY <3>1, <1>1
    <3> QED
      BY <3>2, <3>3, <1>1
  <2> QED
    BY <1>1, <2>1
<1>4. r = q \/ r = q + 1
  BY <1>1, <1>2, <1>3
<1>5. r = q + 1 => Poll * r = Poll * q + Poll
  BY <1>1
<1> QED
  BY <1>1, <1>4, <1>5 DEF q, r

-----------------------------------------------------------------------------
(* The invariant, action by action. *)

\* The last tick is not in the future, and is a number.
LEMMA LastTickIsPast ==
    ASSUME TypeOK
    PROVE  LastTick \in Nat /\ LastTick <= clock /\ clock < LastTick + Poll
BY TickBounds DEF TypeOK, LastTick

\* The page as it loads.
LEMMA InitInv == Init => IInv
<1> SUFFICES ASSUME Init PROVE IInv
  OBVIOUS
<1> USE DEF Init, NoSite, NoConfig, NoData, Never, Launch
<1>1. TypeOK
  <2>1. state \in State
    BY DEF State, Data
  <2>2. flights \subseteq Flight
    BY DEF Flight
  <2>3. view \in State /\ pending \in BOOLEAN
    BY <2>1
  <2> QED
    BY <2>1, <2>2, <2>3 DEF TypeOK
<1>2. LastTick = 0 /\ CallsDue = 1
  <2>1. 0 \div Poll = 0
    OBVIOUS
  <2> QED
    BY <2>1 DEF LastTick, CallsDue
<1>3. TokensShape
  BY <1>2 DEF TokensShape
<1>4. FlightShape
  BY DEF FlightShape, Current
<1>5. StateShape /\ ViewShape /\ PromptShape /\ ViewIsOfOneSite
  BY DEF StateShape, ViewShape, PromptShape, ViewIsOfOneSite
<1>6. FreshShape
  BY <1>2 DEF FreshShape
<1> QED
  BY <1>1, <1>3, <1>4, <1>5, <1>6 DEF IInv

\* The call that a new token supersedes can no longer write, and the new one
\* has asked for nothing yet.
LEMMA LaunchKeeps ==
    ASSUME IInv,
           refreshSeq' = refreshSeq + 1,
           flights' = flights \union {Launch(refreshSeq + 1)},
           UNCHANGED <<configFetchedAt, configSite, clock>>
    PROVE  /\ flights' \subseteq Flight
           /\ \E f \in flights' : Current(f)'
           /\ \A f, g \in flights' : f.seq = g.seq => f = g
           /\ \A f \in flights' : f.seq <= refreshSeq'
           /\ \A f \in flights' : Current(f)' => f = Launch(refreshSeq + 1)
           /\ FlightShape' /\ PromptShape'
<1> DEFINE new == Launch(refreshSeq + 1)
<1>1. /\ refreshSeq \in Nat /\ clock \in 0..MaxTime /\ flights \subseteq Flight
      /\ \A f, g \in flights : f.seq = g.seq => f = g
      /\ \A f \in flights : f.seq <= refreshSeq
  BY DEF IInv, TypeOK, TokensShape
<1>2. new \in Flight
  BY <1>1 DEF Flight, Launch
<1>3. /\ new.seq = refreshSeq + 1 /\ new.phase = "sites" /\ new.start = clock
  BY DEF Launch
<1> HIDE DEF new
<1>4. \A f \in flights : f.seq \in Nat /\ f.seq # new.seq
  BY <1>1, <1>3 DEF Flight
<1>5. \A f \in flights' : Current(f)' => f = new
  BY <1>3, <1>4 DEF Current, new
<1>6. FlightShape'
  BY <1>3, <1>5 DEF FlightShape
<1>7. PromptShape'
  BY <1>1, <1>3, <1>5 DEF PromptShape
<1>8. \A f \in flights' : f.seq <= refreshSeq'
  BY <1>1, <1>3, <1>4 DEF new
<1>9. \A f, g \in flights' : f.seq = g.seq => f = g
  BY <1>1, <1>4 DEF new
<1>10. \E f \in flights' : Current(f)'
  BY <1>3 DEF Current, new
<1> QED
  BY <1>1, <1>2, <1>5, <1>6, <1>7, <1>8, <1>9, <1>10 DEF new

\* The timer's callback starts the refresh of its tick.
LEMMA PollTickKeeps == ASSUME IInv, PollTick PROVE IInv'
<1> USE DEF PollTick
<1>1. /\ refreshSeq' = refreshSeq + 1
      /\ flights' = flights \union {Launch(refreshSeq + 1)}
      /\ UNCHANGED <<state, view, pending, configFetchedAt, configSite, clock, changes,
                     trouble>>
  OBVIOUS
<1>2. /\ flights' \subseteq Flight
      /\ \E f \in flights' : Current(f)'
      /\ \A f, g \in flights' : f.seq = g.seq => f = g
      /\ \A f \in flights' : f.seq <= refreshSeq'
      /\ FlightShape' /\ PromptShape'
  BY <1>1, LaunchKeeps
<1>3. /\ refreshSeq \in Nat /\ refreshSeq = CallsDue - 1 /\ clock = LastTick
      /\ CallsDue \in Nat /\ clock \in Nat
  <2>1. clock \in Nat /\ changes \in Nat /\ refreshSeq \in Nat
    BY DEF IInv, TypeOK
  <2>2. clock \div Poll \in Nat
    BY <2>1, TickBounds
  <2> QED
    BY <2>1, <2>2 DEF IInv, TokensShape, CallsDue
<1>4. CallsDue' = CallsDue /\ LastTick' = LastTick
  BY <1>1 DEF CallsDue, LastTick
<1>5. TypeOK'
  BY <1>1, <1>2, <1>3 DEF IInv, TypeOK
<1>6. TokensShape'
  BY <1>1, <1>2, <1>3, <1>4 DEF TokensShape
<1>7. StateShape' /\ ViewShape' /\ ViewIsOfOneSite'
  BY <1>1, <1>2 DEF IInv, StateShape, ViewShape, ViewIsOfOneSite
<1>8. FreshShape'
  <2>1. PICK new : new = Launch(refreshSeq + 1)
    OBVIOUS
  <2>2. new.phase = "sites" /\ new.start = clock /\ new.seq = refreshSeq'
    BY <1>1, <2>1 DEF Launch
  <2>3. new \in flights'
    BY <1>1, <2>1
  <2>4. TickShape'
    BY <1>3, <1>4, <2>2, <2>3 DEF TickShape, Current
  <2> QED
    BY <1>1, <1>4, <2>4 DEF IInv, FreshShape
<1> QED
  BY <1>2, <1>5, <1>6, <1>7, <1>8 DEF IInv

\* Picking a site is trouble, and supersedes the refresh that is under way.
LEMMA ChangeSiteKeeps == ASSUME IInv, NEW s \in Site, ChangeSite(s) PROVE IInv'
<1> USE DEF ChangeSite
<1>1. /\ refreshSeq' = refreshSeq + 1
      /\ flights' = flights \union {Launch(refreshSeq + 1)}
      /\ state' = [state EXCEPT !.site = s]
      /\ view' = [view EXCEPT !.site = s] /\ pending' = TRUE
      /\ changes < MaxChanges /\ changes' = changes + 1
      /\ trouble' = clock
      /\ UNCHANGED <<configFetchedAt, configSite, clock>>
  OBVIOUS
<1>2. /\ flights' \subseteq Flight
      /\ \E f \in flights' : Current(f)'
      /\ \A f, g \in flights' : f.seq = g.seq => f = g
      /\ \A f \in flights' : f.seq <= refreshSeq'
      /\ FlightShape' /\ PromptShape'
  BY <1>1, LaunchKeeps
<1>3. /\ refreshSeq \in Nat /\ changes \in 0..MaxChanges /\ clock \in 0..MaxTime
      /\ state \in State /\ view \in State
      /\ CallsDue \in Nat /\ LastTick \in Nat /\ LastTick <= clock
  BY TickBounds, LastTickIsPast DEF IInv, TypeOK, CallsDue
<1>4. CallsDue' = CallsDue + 1 /\ LastTick' = LastTick
  BY <1>1, <1>3, TickBounds DEF CallsDue, LastTick
<1>5. TypeOK'
  <2>1. state' \in State /\ view' \in State
    BY <1>1, <1>3 DEF State
  <2> QED
    BY <1>1, <1>2, <1>3, <2>1 DEF IInv, TypeOK
<1>6. TokensShape'
  BY <1>1, <1>2, <1>3, <1>4 DEF IInv, TokensShape
<1>7. StateShape'
  BY <1>1, <1>3 DEF IInv, StateShape, State
<1>8. ViewIsOfOneSite' /\ ViewShape'
  <2>1. /\ view'.data = view.data /\ view'.config = view.config
        /\ view'.updated = view.updated
    BY <1>1, <1>3 DEF State
  <2>2. ViewIsOfOneSite'
    BY <1>1, <1>2, <2>1 DEF IInv, ViewIsOfOneSite
  <2>3. ViewShape'
    BY <1>1, <2>1 DEF IInv, ViewShape
  <2> QED
    BY <2>2, <2>3
<1>9. FreshShape'
  BY <1>1, <1>3, <1>4 DEF FreshShape
<1> QED
  BY <1>2, <1>5, <1>6, <1>7, <1>8, <1>9 DEF IInv

\* What answers and a call's end have in common: no token is given out, and no
\* time passes.
LEMMA SameTokens ==
    ASSUME IInv, NEW f \in flights, flights' = flights \ {f},
           UNCHANGED <<refreshSeq, clock, changes>>
    PROVE  /\ TokensShape'
           /\ flights' \subseteq Flight
           /\ \A g, h \in flights' : g.seq = h.seq => g = h
           /\ CallsDue' = CallsDue /\ LastTick' = LastTick
           /\ \A g \in flights' : Current(g)' => Current(g)
           /\ Current(f) => \A g \in flights' : ~Current(g)'
           /\ ~Current(f) /\ (\E g \in flights : Current(g)) => \E g \in flights' : Current(g)'
BY DEF IInv, TypeOK, TokensShape, CallsDue, LastTick, Current

\* A superseded call writes nothing.
LEMMA SupersededKeeps == ASSUME IInv, NEW f \in flights, Superseded(f) PROVE IInv'
<1> USE DEF Superseded
<1>1. /\ flights' = flights \ {f} /\ ~Current(f)
      /\ UNCHANGED <<state, view, pending, refreshSeq, configFetchedAt, configSite, clock,
                     changes, trouble>>
  OBVIOUS
<1>2. /\ TokensShape'
      /\ flights' \subseteq Flight
      /\ \A g, h \in flights' : g.seq = h.seq => g = h
      /\ CallsDue' = CallsDue /\ LastTick' = LastTick
      /\ \A g \in flights' : Current(g)' => Current(g)
      /\ (\E g \in flights : Current(g)) => \E g \in flights' : Current(g)'
  BY <1>1, SameTokens
<1>3. TypeOK'
  BY <1>1, <1>2 DEF IInv, TypeOK
<1>4. FlightShape' /\ PromptShape'
  BY <1>1 DEF IInv, FlightShape, PromptShape, Current
<1>5. StateShape' /\ ViewShape' /\ ViewIsOfOneSite'
  BY <1>1, <1>2 DEF IInv, StateShape, ViewShape, ViewIsOfOneSite
<1>6. FreshShape'
  <2>1. TickShape => TickShape'
    <3>1. \A g \in flights : Current(g) => g \in flights' /\ Current(g)'
      BY <1>1 DEF Current
    <3> QED
      BY <1>1, <1>2, <3>1 DEF TickShape
  <2> QED
    BY <1>1, <1>2, <2>1 DEF IInv, FreshShape
<1> QED
  BY <1>2, <1>3, <1>4, <1>5, <1>6 DEF IInv

\* Whatever ends the current call by putting a page without a banner in front of
\* the user keeps the page fresh.
LEMMA UpdateIsFresh ==
    ASSUME IInv, ~view'.error, view'.updated = clock,
           LastTick' = LastTick, UNCHANGED trouble
    PROVE  FreshShape'
<1>1. /\ LastTick \in Nat /\ LastTick <= clock /\ clock \in Nat
  BY LastTickIsPast DEF IInv, TypeOK
<1>2. view'.updated >= LastTick'
  BY <1>1
<1>3. view'.updated >= LastTick' - Poll
  BY <1>1
<1> QED
  BY <1>2, <1>3 DEF FreshShape, TickShape

\* What refresh() leaves on the page when it ends: the data and the config of
\* one site, and no pick that waits.
LEMMA RenderKeeps ==
    ASSUME Render, state' \in State, StateShape',
           ~state'.error =>
               \/ /\ state'.site \in state'.sites
                  /\ state'.data.site \in {state'.site, NoSite}
                  /\ state'.config \in {state'.site, NoConfig}
               \/ state'.data.site = NoSite /\ state'.config = NoConfig
    PROVE  /\ view' \in State /\ pending' = FALSE
           /\ view'.error = state'.error /\ view'.updated = state'.updated
           /\ ViewShape' /\ ViewIsOfOneSite'
<1> DEFINE s == state'
<1>1. view' = Rendered(s) /\ pending' = FALSE
  BY DEF Render
<1>2. /\ s \in State
      /\ s.config \in {configSite', NoConfig}
      /\ s.data.site \in {configSite', NoSite}
      /\ s.updated <= clock'
      /\ ~s.error => \/ /\ s.site \in s.sites
                        /\ s.data.site \in {s.site, NoSite}
                        /\ s.config \in {s.site, NoConfig}
                     \/ s.data.site = NoSite /\ s.config = NoConfig
  BY DEF StateShape
<1> HIDE DEF s
<1>3. /\ view' \in State
      /\ view'.data = s.data /\ view'.config = s.config
      /\ view'.error = s.error /\ view'.updated = s.updated
      /\ s.site \in s.sites => view'.site = s.site
  BY <1>1, <1>2, RenderedIsState
<1>4. ViewShape'
  BY <1>1, <1>2, <1>3 DEF ViewShape
<1>5. ViewIsOfOneSite'
  BY <1>1, <1>2, <1>3 DEF ViewIsOfOneSite
<1> QED
  BY <1>1, <1>3, <1>4, <1>5 DEF s

\* The list of sites sends the call on to its second await, or ends it.
LEMMA SitesReplyKeeps ==
    ASSUME IInv, NEW f \in flights, NEW sites \in SUBSET Site, SitesReply(f, sites)
    PROVE  IInv'
<1> DEFINE site == Selected(state.site, sites)
           listed == [state EXCEPT !.sites = sites, !.site = site]
<1>1. /\ f.phase = "sites" /\ Current(f)
      /\ UNCHANGED <<refreshSeq, configFetchedAt, configSite, clock, changes, trouble>>
  BY DEF SitesReply
<1>2. /\ state \in State /\ clock \in 0..MaxTime /\ f \in Flight /\ flights \subseteq Flight
      /\ clock \in Nat /\ f.seq = refreshSeq /\ refreshSeq \in Nat
      /\ \A g, h \in flights : g.seq = h.seq => g = h
      /\ \A g \in flights : g.seq <= refreshSeq
  BY <1>1 DEF IInv, TypeOK, TokensShape, Current
<1>3. CallsDue' = CallsDue /\ LastTick' = LastTick /\ LastTick \in Nat /\ LastTick <= clock
  BY <1>1, LastTickIsPast DEF CallsDue, LastTick, IInv
<1>4. ASSUME site # NoSite,
             state' = listed,
             flights' = (flights \ {f}) \union
                 {[f EXCEPT !.phase = "data", !.start = clock, !.site = site,
                            !.wantConfig = WantConfig(site)]},
             UNCHANGED <<view, pending>>
      PROVE  IInv'
  <2>1. site \in sites
    BY <1>2, <1>4, SelectedIsListed DEF State
  <2> HIDE DEF site
  <2>2. PICK g : g = [f EXCEPT !.phase = "data", !.start = clock, !.site = site,
                               !.wantConfig = WantConfig(site)]
    OBVIOUS
  <2>3. /\ g \in Flight
        /\ g.seq = refreshSeq /\ g.phase = "data" /\ g.start = clock /\ g.site = site
        /\ g.wantConfig = WantConfig(site)
    <3>1. WantConfig(site) \in BOOLEAN
      BY DEF WantConfig
    <3> QED
      BY <1>2, <2>1, <2>2, <3>1 DEF Flight
  <2>4. flights' = (flights \ {f}) \union {g}
    BY <1>4, <2>2
  <2>5. \A h \in flights' : Current(h)' => h = g
    BY <1>1, <1>2, <2>4 DEF Current
  <2>6. \A h, i \in flights' : h.seq = i.seq => h = i
    BY <1>2, <2>3, <2>4
  <2>7. state' \in State
    BY <1>2, <1>4, <2>1 DEF State
  <2>8. TypeOK'
    BY <1>1, <1>2, <1>4, <2>3, <2>4, <2>6, <2>7 DEF IInv, TypeOK
  <2>9. TokensShape'
    BY <1>1, <1>2, <1>3, <2>3, <2>4 DEF IInv, TokensShape
  <2>10. /\ state'.site = site /\ state'.sites = sites /\ state'.data = state.data
         /\ state'.config = state.config
    BY <1>2, <1>4 DEF State
  <2>11. StateShape'
    BY <1>1, <1>2, <1>4, <2>10 DEF IInv, StateShape, State
  <2>12. FlightShape'
    <3>1. ~WantConfig(site) => site = configSite
      BY DEF WantConfig
    <3>2. state.data.at <= clock
      BY DEF IInv, StateShape
    <3> QED
      BY <1>1, <2>1, <2>3, <2>5, <2>10, <3>1, <3>2 DEF FlightShape
  <2>13. PromptShape'
    BY <1>1, <1>2, <2>3, <2>5 DEF PromptShape
  <2>14. ViewIsOfOneSite' /\ ViewShape'
    <3>1. g \in flights' /\ Current(g)'
      BY <1>1, <2>3, <2>4 DEF Current
    <3> QED
      BY <1>1, <1>4, <3>1 DEF IInv, ViewIsOfOneSite, ViewShape
  <2>15. FreshShape'
    <3>1. ASSUME trouble < LastTick, TickShape
          PROVE  TickShape'
      <4>1. CASE refreshSeq < CallsDue
        BY <1>1, <1>3, <4>1 DEF TickShape
      <4>2. CASE ~view.error /\ view.updated >= LastTick
        BY <1>3, <1>4, <4>2 DEF TickShape
      <4>3. ASSUME NEW h \in flights, Current(h),
                   h.start <= IF h.phase = "sites" THEN LastTick ELSE LastTick + Prompt
            PROVE  TickShape'
        <5>1. h = f
          BY <1>1, <1>2, <4>3 DEF Current
        <5>2. f.start <= LastTick /\ f.start \in Nat
          BY <1>1, <1>2, <4>3, <5>1 DEF Flight
        <5>3. ~(clock - f.start > Prompt)
          BY <1>1, <1>2, <1>3, <3>1 DEF IInv, PromptShape, TypeOK
        <5>4. g.start <= LastTick + Prompt
          BY <1>2, <1>3, <2>3, <5>2, <5>3
        <5>5. g \in flights' /\ g.seq = refreshSeq' /\ g.phase # "sites"
          BY <1>1, <2>3, <2>4
        <5> QED
          BY <1>3, <5>4, <5>5 DEF TickShape, Current
      <4> QED
        BY <3>1, <4>1, <4>2, <4>3 DEF TickShape
    <3> QED
      BY <1>1, <1>3, <1>4, <3>1 DEF IInv, FreshShape
  <2> QED
    BY <2>8, <2>9, <2>11, <2>12, <2>13, <2>14, <2>15 DEF IInv
<1>5. ASSUME site = NoSite,
             state' = [listed EXCEPT !.data = NoData, !.config = NoConfig,
                                     !.error = FALSE, !.updated = clock],
             flights' = flights \ {f},
             Render
      PROVE  IInv'
  <2> HIDE DEF site
  <2>1. /\ TokensShape'
        /\ flights' \subseteq Flight
        /\ \A g, h \in flights' : g.seq = h.seq => g = h
        /\ \A g \in flights' : ~Current(g)'
    BY <1>1, <1>5, SameTokens
  <2>2. /\ state'.site = NoSite /\ state'.data = NoData /\ state'.config = NoConfig
        /\ ~state'.error /\ state'.updated = clock
        /\ state' \in State
    BY <1>2, <1>5 DEF State, Data
  <2>3. StateShape'
    BY <1>1, <1>2, <2>2 DEF StateShape, NoData
  <2>4. /\ view' \in State /\ pending' = FALSE
        /\ view'.error = state'.error /\ view'.updated = state'.updated
        /\ ViewShape' /\ ViewIsOfOneSite'
    <3>1. state'.data.site = NoSite
      BY <2>2 DEF NoData
    <3> QED
      BY <1>5, <2>2, <2>3, <3>1, RenderKeeps
  <2>5. TypeOK'
    BY <1>1, <1>5, <2>1, <2>2, <2>4 DEF IInv, TypeOK
  <2>6. FlightShape' /\ PromptShape'
    BY <2>1 DEF FlightShape, PromptShape
  <2>7. FreshShape'
    BY <1>1, <1>3, <2>2, <2>4, UpdateIsFresh
  <2> QED
    BY <2>1, <2>3, <2>4, <2>5, <2>6, <2>7 DEF IInv
<1> QED
  BY <1>4, <1>5 DEF SitesReply

\* The data that end the current call are those of the site that is selected,
\* and the config either is too or was fetched for it before.
LEMMA DataReplyKeeps ==
    ASSUME IInv, NEW f \in flights,
           NEW data \in {NoData} \union [site : {f.site}, at : f.start..clock],
           NEW config \in {NoConfig, f.site},
           DataReply(f, data, config)
    PROVE  IInv'
<1> USE DEF DataReply
<1>1. /\ f.phase = "data" /\ Current(f)
      /\ flights' = flights \ {f} /\ Render
      /\ UNCHANGED <<refreshSeq, clock, changes, trouble>>
      /\ configFetchedAt' \in {clock, configFetchedAt}
  OBVIOUS
<1>2. /\ state \in State /\ clock \in 0..MaxTime /\ f \in Flight
      /\ configFetchedAt \in 0..MaxTime
  BY DEF IInv, TypeOK
<1>3. /\ f.site = state.site /\ f.site \in state.sites /\ f.site \in Site
      /\ ~f.wantConfig => f.site = configSite
      /\ f.start \in 0..MaxTime /\ f.wantConfig \in BOOLEAN
  BY <1>1, <1>2 DEF IInv, FlightShape, State, Flight
<1>4. data \in Data /\ data.site \in {f.site, NoSite} /\ data.at \in Nat /\ data.at <= clock
  <2>1. CASE data = NoData
    BY <1>2, <2>1 DEF NoData, Data
  <2>2. CASE data \in [site : {f.site}, at : f.start..clock]
    <3>1. data.site = f.site /\ data.at \in f.start..clock
      BY <2>2
    <3>2. data.at \in 0..MaxTime /\ data.at <= clock
      BY <1>2, <1>3, <3>1
    <3>3. data \in [site : Site, at : 0..MaxTime]
      BY <1>3, <2>2, <3>1, <3>2
    <3> QED
      BY <3>1, <3>2, <3>3 DEF Data
  <2> QED
    BY <2>1, <2>2
<1>5. /\ TokensShape'
      /\ flights' \subseteq Flight
      /\ \A g, h \in flights' : g.seq = h.seq => g = h
      /\ LastTick' = LastTick
      /\ \A g \in flights' : ~Current(g)'
  BY <1>1, SameTokens
<1>6. /\ state'.site = f.site /\ state'.sites = state.sites /\ state'.data = data
      /\ ~state'.error /\ state'.updated = clock
      /\ state'.config = IF f.wantConfig THEN config ELSE state.config
  BY <1>2, <1>3 DEF State
<1>7. configSite' = f.site /\ state'.config \in {f.site, NoConfig}
  BY <1>3, <1>6 DEF IInv, StateShape
<1>8. state' \in State
  <2>1. state'.config \in Site \union {NoConfig}
    BY <1>3, <1>7
  <2> QED
    BY <1>2, <1>4, <1>6, <2>1 DEF State
<1>9. StateShape'
  BY <1>1, <1>2, <1>4, <1>6, <1>7 DEF StateShape
<1>10. /\ view' \in State /\ pending' = FALSE
       /\ view'.error = state'.error /\ view'.updated = state'.updated
       /\ ViewShape' /\ ViewIsOfOneSite'
  BY <1>1, <1>3, <1>4, <1>6, <1>7, <1>8, <1>9, RenderKeeps
<1>11. TypeOK'
  <2>1. configFetchedAt' \in 0..MaxTime
    BY <1>1, <1>2
  <2> QED
    BY <1>1, <1>3, <1>5, <1>7, <1>8, <1>10, <2>1 DEF IInv, TypeOK
<1>12. FlightShape' /\ PromptShape'
  BY <1>5 DEF FlightShape, PromptShape
<1>13. FreshShape'
  BY <1>1, <1>5, <1>6, <1>10, UpdateIsFresh
<1> QED
  BY <1>5, <1>9, <1>10, <1>11, <1>12, <1>13 DEF IInv

\* A failure is trouble, and puts the banner up.
LEMMA FailedReplyKeeps == ASSUME IInv, NEW f \in flights, FailedReply(f) PROVE IInv'
<1> USE DEF FailedReply
<1>1. /\ Current(f) /\ flights' = flights \ {f} /\ Render /\ trouble' = clock
      /\ state' = [state EXCEPT !.error = TRUE]
      /\ UNCHANGED <<refreshSeq, configFetchedAt, configSite, clock, changes>>
  OBVIOUS
<1>2. state \in State /\ clock \in 0..MaxTime
  BY DEF IInv, TypeOK
<1>3. /\ TokensShape'
      /\ flights' \subseteq Flight
      /\ \A g, h \in flights' : g.seq = h.seq => g = h
      /\ LastTick' = LastTick
      /\ \A g \in flights' : ~Current(g)'
  BY <1>1, SameTokens
<1>4. /\ state' \in State /\ state'.error
      /\ state'.data = state.data /\ state'.config = state.config
      /\ state'.updated = state.updated
  BY <1>1, <1>2 DEF State
<1>5. StateShape'
  BY <1>1, <1>4 DEF IInv, StateShape
<1>6. /\ view' \in State /\ pending' = FALSE
      /\ ViewShape' /\ ViewIsOfOneSite'
  BY <1>1, <1>4, <1>5, RenderKeeps
<1>7. TypeOK'
  BY <1>1, <1>2, <1>3, <1>4, <1>6 DEF IInv, TypeOK
<1>8. FlightShape' /\ PromptShape'
  BY <1>3 DEF FlightShape, PromptShape
<1>9. FreshShape'
  BY <1>1, <1>2, <1>3, LastTickIsPast DEF FreshShape, IInv
<1> QED
  BY <1>3, <1>5, <1>6, <1>7, <1>8, <1>9 DEF IInv

\* A second later: either it is the same tick, and its refresh is no further
\* behind than Prompt allows, or the next one, by which it was done.
LEMMA SecondKeeps == ASSUME IInv, Second PROVE IInv'
<1> USE DEF Second
<1>1. /\ clock' = clock + 1 /\ refreshSeq = CallsDue
      /\ trouble' = IF \E f \in flights : Current(f) /\ clock' - f.start > Prompt
                    THEN clock' ELSE trouble
      /\ UNCHANGED <<state, view, pending, refreshSeq, configFetchedAt, configSite, flights,
                     changes>>
  OBVIOUS
<1>2. /\ clock \in Nat /\ clock' \in 0..MaxTime /\ trouble \in 0..MaxTime
      /\ changes \in Nat /\ flights \subseteq Flight /\ view \in State /\ refreshSeq \in Nat
  BY <1>1 DEF IInv, TypeOK
<1>3. /\ LastTick \in Nat /\ LastTick <= clock /\ clock < LastTick + Poll
      /\ clock \div Poll \in Nat
  BY <1>2, LastTickIsPast, TickBounds DEF IInv
<1>4. \/ CallsDue' = CallsDue /\ LastTick' = LastTick
      \/ CallsDue' = CallsDue + 1 /\ LastTick' = LastTick + Poll /\ LastTick' = clock'
  BY <1>1, <1>2, <1>3, TickAdvances DEF CallsDue, LastTick
<1>5. TypeOK'
  BY <1>1, <1>2 DEF IInv, TypeOK
<1>6. TokensShape'
  BY <1>1, <1>2, <1>4 DEF IInv, TokensShape
<1>7. FlightShape' /\ ViewIsOfOneSite'
  BY <1>1 DEF IInv, FlightShape, ViewIsOfOneSite, Current
<1>8. StateShape' /\ ViewShape'
  <2>1. /\ state.data.at \in Nat /\ state.updated \in Nat /\ view.updated \in Nat
        /\ state.data.at <= clock /\ state.updated <= clock /\ view.updated <= clock
        /\ trouble' \in {clock', trouble}
    BY <1>1 DEF IInv, TypeOK, State, Data, NoData, StateShape, ViewShape
  <2>2. StateShape'
    BY <1>1, <1>2, <2>1 DEF IInv, StateShape
  <2>3. ViewShape'
    BY <1>1, <1>2, <2>1 DEF IInv, ViewShape
  <2> QED
    BY <2>2, <2>3
<1>9. PromptShape'
  BY <1>1 DEF PromptShape, Current
<1>10. FreshShape'
  <2>1. LastTick' <= clock' /\ LastTick' \in Nat
    <3>1. clock' = clock + 1 /\ clock \in Nat /\ LastTick \in Nat /\ LastTick <= clock
      BY <1>1, <1>2, <1>3
    <3>2. CASE LastTick' = LastTick
      BY <3>1, <3>2
    <3>3. CASE LastTick' = clock'
      BY <3>1, <3>3
    <3> QED
      BY <1>4, <3>2, <3>3
  <2> SUFFICES ASSUME trouble' < LastTick'
               PROVE  /\ TickShape'
                      /\ trouble' + Poll < LastTick' =>
                             ~view'.error /\ view'.updated >= LastTick' - Poll
    BY <1>2, <1>5, <2>1 DEF FreshShape, TypeOK
  <2>2. /\ trouble' = trouble
        /\ \A f \in flights : Current(f) => clock' - f.start <= Prompt
    <3>1. trouble' # clock'
      BY <1>2, <2>1
    <3>2. ~ \E f \in flights : Current(f) /\ clock' - f.start > Prompt
      BY <1>1, <3>1
    <3>3. \A f \in flights : f.start \in Nat
      BY <1>2 DEF Flight
    <3> QED
      BY <1>1, <1>2, <3>2, <3>3
  <2>3. view.updated \in Nat
    BY <1>2 DEF State
  <2>4. CASE CallsDue' = CallsDue /\ LastTick' = LastTick
    <3>1. TickShape
      BY <2>2, <2>4 DEF IInv, FreshShape
    <3>2. TickShape'
      BY <1>1, <2>4, <3>1 DEF TickShape, Current
    <3> QED
      BY <1>1, <2>2, <2>4, <3>2 DEF IInv, FreshShape
  <2>5. CASE CallsDue' = CallsDue + 1 /\ LastTick' = LastTick + Poll /\ LastTick' = clock'
    <3>1. refreshSeq' < CallsDue'
      BY <1>1, <1>2, <2>5
    <3>2. TickShape'
      BY <3>1 DEF TickShape
    <3>3. ASSUME trouble' + Poll < LastTick'
          PROVE  ~view.error /\ view.updated >= LastTick
      <4>1. trouble < LastTick
        BY <1>2, <1>3, <2>2, <2>5, <3>3
      <4>2. TickShape
        BY <4>1 DEF IInv, FreshShape
      <4>3. ~(refreshSeq < CallsDue)
        BY <1>1, <1>2
      <4>4. ASSUME NEW f \in flights, Current(f),
                   f.start <= IF f.phase = "sites" THEN LastTick ELSE LastTick + Prompt
            PROVE  FALSE
        <5>1. f.start \in Nat /\ f.start <= LastTick + Prompt
          BY <1>2, <1>3, <4>4 DEF Flight
        <5>2. clock' - f.start <= Prompt
          BY <2>2, <4>4
        <5> QED
          BY <1>2, <1>3, <2>5, <5>1, <5>2
      <4> QED
        BY <4>2, <4>3, <4>4 DEF TickShape
    <3> QED
      BY <1>1, <1>3, <2>5, <3>2, <3>3
  <2> QED
    BY <1>4, <2>4, <2>5
<1> QED
  BY <1>5, <1>6, <1>7, <1>8, <1>9, <1>10 DEF IInv

-----------------------------------------------------------------------------
(* The theorems. *)

\* No step breaks the invariant.
LEMMA StepInv == IInv /\ [Next]_vars => IInv'
<1> SUFFICES ASSUME IInv, [Next]_vars PROVE IInv'
  OBVIOUS
<1>1. CASE PollTick
  BY <1>1, PollTickKeeps
<1>2. ASSUME NEW s \in Site, ChangeSite(s) PROVE IInv'
  BY <1>2, ChangeSiteKeeps
<1>3. ASSUME NEW f \in flights, Reply(f) PROVE IInv'
  BY <1>3, SupersededKeeps, SitesReplyKeeps, DataReplyKeeps, FailedReplyKeeps DEF Reply
<1>4. CASE Second
  BY <1>4, SecondKeeps
<1>5. CASE UNCHANGED vars
  BY <1>5 DEF vars, IInv, TypeOK, TokensShape, CallsDue, LastTick, FlightShape, Current,
              StateShape, ViewShape, PromptShape, FreshShape, TickShape, ViewIsOfOneSite
<1> QED
  BY <1>1, <1>2, <1>3, <1>4, <1>5 DEF Next

\* The page keeps the invariant in every state it gets into.
THEOREM Inductive == Spec => []IInv
<1> QED
  BY InitInv, StepInv, PTL DEF Spec

\* The page's variables keep their shapes, and no two calls of refresh() ever
\* share a token.
THEOREM TypeCorrect == Spec => []TypeOK
<1>1. IInv => TypeOK
  BY DEF IInv
<1> QED
  BY <1>1, Inductive, PTL

\* Whatever the api answers and in whatever order, the page shows the rows and
\* the config of one site, without a banner those of the site in its selector or,
\* while the refresh for a pick is under way, of the one before.
THEOREM OneSite == Spec => []ViewIsOfOneSite
<1>1. IInv => ViewIsOfOneSite
  BY DEF IInv
<1> QED
  BY <1>1, Inductive, PTL

\* A page whose api was well, and whose user was quiet, for an interval and two
\* round trips is fresh and has no banner.
LEMMA RecoversInState == IInv => RecoversByItself
<1> SUFFICES ASSUME IInv, clock > trouble + (Poll + 2 * Prompt)
             PROVE  /\ ~view.error /\ ~pending
                    /\ clock - view.updated <= Poll + 2 * Prompt
  BY DEF RecoversByItself
<1>1. /\ clock \in Nat /\ trouble \in Nat /\ view.updated \in Nat /\ flights \subseteq Flight
      /\ refreshSeq \in Nat /\ pending \in BOOLEAN
      /\ pending => view.updated <= trouble
  BY DEF IInv, TypeOK, State, ViewShape
<1>2. LastTick \in Nat /\ LastTick <= clock /\ clock < LastTick + Poll
  BY LastTickIsPast DEF IInv
<1>3. CASE clock <= LastTick + 2 * Prompt
  <2>1. trouble + Poll < LastTick
    BY <1>1, <1>2, <1>3
  <2>2. ~view.error /\ view.updated >= LastTick - Poll
    BY <2>1 DEF IInv, FreshShape
  <2> QED
    BY <1>1, <1>2, <1>3, <2>2
<1>4. CASE clock > LastTick + 2 * Prompt
  <2>1. trouble < LastTick /\ trouble # clock
    BY <1>1, <1>2, <1>4
  <2>2. TickShape
    BY <2>1 DEF IInv, FreshShape
  <2>3. ~(refreshSeq < CallsDue)
    <3>1. clock # LastTick
      BY <1>1, <1>2, <1>4
    <3> QED
      BY <1>1, <3>1 DEF IInv, TokensShape
  <2>4. ASSUME NEW f \in flights, Current(f),
               f.start <= IF f.phase = "sites" THEN LastTick ELSE LastTick + Prompt
        PROVE  FALSE
    <3>1. f.start \in Nat /\ f.start <= LastTick + Prompt
      BY <1>1, <1>2, <2>4 DEF Flight
    <3>2. ~(clock - f.start > Prompt)
      BY <2>1, <2>4 DEF IInv, PromptShape
    <3> QED
      BY <1>1, <1>2, <1>4, <3>1, <3>2
  <2>5. ~view.error /\ view.updated >= LastTick
    BY <2>2, <2>3, <2>4 DEF TickShape
  <2> QED
    BY <1>1, <1>2, <1>4, <2>5
<1> QED
  BY <1>1, <1>2, <1>3, <1>4

\* The page recovers by itself, for every interval and every api that answers
\* two requests within it.
THEOREM Recovers == Spec => []RecoversByItself
<1> QED
  BY RecoversInState, Inductive, PTL

\* No step puts older data in the place of newer ones.
LEMMA StepNoRollback == IInv /\ [Next]_vars => [NoRollbackStep]_vars
<1> SUFFICES ASSUME IInv, Next PROVE NoRollbackStep
  OBVIOUS
<1>1. state \in State /\ state.data.at \in Nat
  BY DEF IInv, TypeOK, State, Data, NoData
<1>2. CASE UNCHANGED state
  BY <1>1, <1>2 DEF NoRollbackStep
<1>3. ASSUME NEW s \in Site, ChangeSite(s) PROVE NoRollbackStep
  BY <1>1, <1>3 DEF ChangeSite, NoRollbackStep, State
<1>4. ASSUME NEW f \in flights, NEW sites \in SUBSET Site, SitesReply(f, sites)
      PROVE  NoRollbackStep
  <2> DEFINE listed == [state EXCEPT !.sites = sites, !.site = Selected(state.site, sites)]
  <2>1. listed \in [sites : SUBSET Site, site : {Selected(state.site, sites)}, data : Data,
                    config : Site \union {NoConfig}, error : BOOLEAN,
                    updated : 0..MaxTime]
    BY <1>1 DEF State
  <2>2. listed.data = state.data
    BY <1>1 DEF State
  <2> HIDE DEF listed
  <2>3. CASE state' = listed
    BY <1>1, <2>2, <2>3 DEF NoRollbackStep
  <2>4. CASE state' = [listed EXCEPT !.data = NoData, !.config = NoConfig,
                                     !.error = FALSE, !.updated = clock]
    <3>1. state'.data = NoData
      BY <2>1, <2>4
    <3> QED
      BY <3>1 DEF NoRollbackStep
  <2> QED
    BY <1>4, <2>3, <2>4 DEF SitesReply, listed
<1>5. ASSUME NEW f \in flights,
             NEW data \in {NoData} \union [site : {f.site}, at : f.start..clock],
             NEW config \in {NoConfig, f.site},
             DataReply(f, data, config)
      PROVE  NoRollbackStep
  <2>1. state'.data = data
    BY <1>1, <1>5 DEF DataReply, State
  <2>2. state.data.at <= f.start /\ f.start \in Nat /\ clock \in Nat
    BY <1>5 DEF IInv, FlightShape, TypeOK, Flight, DataReply
  <2>3. data # NoData => data.at \in f.start..clock
    OBVIOUS
  <2> QED
    BY <1>1, <2>1, <2>2, <2>3 DEF NoRollbackStep
<1>6. ASSUME NEW f \in flights, FailedReply(f) PROVE NoRollbackStep
  BY <1>1, <1>6 DEF FailedReply, NoRollbackStep, State
<1> QED
  BY <1>2, <1>3, <1>4, <1>5, <1>6 DEF Next, Reply, PollTick, Superseded, Second

\* A slow reply never overwrites a fresher one, however the refreshes overlap.
THEOREM NeverRollsBack == Spec => NoRollback
<1> QED
  BY Inductive, StepNoRollback, PTL DEF Spec, NoRollback
=============================================================================
