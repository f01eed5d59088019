----------------------------- MODULE MCEdgeTick -----------------------------
(* Bounded instances of EdgeTick for TLC. *)
EXTENDS EdgeTick, TLC

CONSTANTS r1, r2, n1, n2, x, y, s, t, none

MCRunners == {r1, r2}
MCNames == {n1, n2}
MCRefs == {x, y}
MCSpecs == {s, t}

Symmetry == Permutations(MCRunners) \cup Permutations(MCNames) \cup Permutations(MCRefs)
              \cup Permutations(MCSpecs)
=============================================================================
