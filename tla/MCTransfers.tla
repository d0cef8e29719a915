---------------------------- MODULE MCTransfers ----------------------------
(* Instances of Transfers for TLC.                                         *)
EXTENDS Transfers

CONSTANTS p, q

\* No source, one that may fail, and one that works after it.
SomeListings == {<<>>, <<p>>, <<p, q>>}
=============================================================================
