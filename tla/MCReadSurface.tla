--------------------------- MODULE MCReadSurface ---------------------------
(***************************************************************************)
(* AggStore and the replies over it for TLC: two of the 128 bins, with     *)
(* their upper edges, minutes of a single tick, so that a few ticks        *)
(* outlast the window, and limits small enough to cut rows off.            *)
(***************************************************************************)
EXTENDS ReadSurface, TLC

CONSTANTS s1, s2, p1, p2

\* upperMs of the first bin and of the last.
MCUpperMs == <<53, 30000>>

MCSite == {s1, s2}
MCPage == {p1, p2}

\* One site has a config, the other one had.
MCProvisioned == {s1}

Symmetry == Permutations(MCPage)
=============================================================================
