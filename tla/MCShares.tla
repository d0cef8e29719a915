------------------------------ MODULE MCShares ------------------------------
(* Instances of Shares for TLC.                                            *)
EXTENDS Shares, TLC

CONSTANTS s1, s2

\* One share, that the view names
MCNames == {s1, s2}
MCInitial == {[shares |-> {s1}, view |-> {s1}, kind |-> "whole"]}
=============================================================================
