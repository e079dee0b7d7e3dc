---------------------------- MODULE MCConnections ----------------------------
(* A finite instance of the saved connections for TLC. *)
EXTENDS Connections, TLC

CONSTANTS h1, h2, p1, p2, a1, a2, s1, s2, c1, c2, g1, g2

(* Everything but None is interchangeable. *)
Alike ==
    Permutations({h1, h2}) \cup Permutations({p1, p2}) \cup Permutations({a1, a2})
    \cup Permutations({s1, s2}) \cup Permutations({c1, c2}) \cup Permutations({g1, g2})
=============================================================================
