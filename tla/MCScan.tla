------------------------------- MODULE MCScan -------------------------------
(* Instances of Scan for TLC.                                              *)
EXTENDS Scan, TLC

Symmetry == Permutations(Files)

\* Nothing is edited.
OneStamp == {<<1>>}

\* An edit gives a file a size and an mtime it never had, or leaves them as they were,
\* the size by chance and the mtime within its second.
SomeStamps == {<<1, 2>>, <<1, 1>>}

=============================================================================
