----------------------------- MODULE MCGateway -----------------------------
(* Instances of Gateway for TLC.                                           *)
EXTENDS Gateway

NoNumber == -1

\* A range that ends past the file, one within it, a suffix, and none of it.
SomeHeaders == {<<0, 9>>, <<1, 2>>, <<NoNumber, 1>>, <<4, NoNumber>>}

NoHeader == {<<>>}
=============================================================================
