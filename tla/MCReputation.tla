---------------------------- MODULE MCReputation ----------------------------
(* Instances of Reputation for TLC.                                        *)
EXTENDS Reputation, TLC

CONSTANTS a, b, c, week, day, s1, s2

StreamSymmetry == Permutations(Streams)

\* b relays what a fetches from c, and fetches from a itself.
RelayRoutes == {<<b, a>>, <<a, b, c>>}

\* a and b forget at one rate, b and c at another.
MixedRates == [e \in Nodes \X Nodes |-> IF c \in {e[1], e[2]} THEN day ELSE week]
=============================================================================
