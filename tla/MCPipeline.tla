----------------------------- MODULE MCPipeline -----------------------------
(***************************************************************************)
(* Pipeline for TLC: one site, two pages, one bin.                         *)
(***************************************************************************)
EXTENDS Pipeline, TLC

CONSTANTS s1, p1, p2

MCSite == {s1}
MCPage == {p1, p2}

\* upperMs of the first bin.
MCUpperMs == <<53>>

\* When an event was sent matters to freshness alone, and no step reads it.
WithoutSentAt ==
    <<arrived, rowid, claim, applied, folds, pc, next, batch, todo, pageMinute, siteMinute,
      pageCurrent, sample, clock, now, watched, lastTick, consumed, base,
      backSinceTick, backSinceFire>>

Symmetry == Permutations(MCPage)
=============================================================================
