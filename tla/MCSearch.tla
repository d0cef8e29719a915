------------------------------ MODULE MCSearch ------------------------------
(* Instances of Search for TLC.                                            *)
EXTENDS Search

Back(E) == {<<e[2], e[1]>> : e \in E}

Willing(P) == [peers |-> P, reshare |-> P, grants |-> Back(P), shows |-> Back(P),
               serve |-> Nodes, cap |-> [n \in Nodes |-> 4],
               maxTtl |-> [n \in Nodes |-> MaxTtl], fanout |-> [n \in Nodes |-> 2]]

CONSTANTS b, c, d

\* Grant graphs on three nodes, in which the user has at least b as a peer.  In
\* those where b has c as one, b may be forbidden to reshare it, have no grant from
\* it any more, or not relay at all.
SmallNetworks ==
    LET edges == {<<User, c>>, <<b, c>>, <<c, b>>, <<c, User>>}
        graphs == {{<<User, b>>} \cup Q : Q \in SUBSET edges}
    IN  {Willing(P) : P \in graphs} \cup
        UNION {{[Willing(P) EXCEPT !.reshare = @ \ {<<b, c>>}],
                [Willing(P) EXCEPT !.grants = @ \ {<<c, b>>}],
                [Willing(P) EXCEPT !.serve = @ \ {b}]} :
               P \in {Q \in graphs : <<b, c>> \in Q}}

\* A square with a tail back to the user, a line with mutual grants, a star with
\* a result cap that is too small for it, a triangle with a tail, a star wider than
\* the fanout, a triangle in which c shows its file to b but not to the user, the
\* line again with a first relay that lets a query go one hop further only, and two
\* routes to d of which the one over b ends there.
LargeNetworks ==
    {Willing({<<User, b>>, <<User, c>>, <<b, d>>, <<c, d>>, <<d, User>>}),
     Willing({<<User, b>>, <<b, User>>, <<b, c>>, <<c, b>>, <<c, d>>, <<d, c>>}),
     [Willing({<<User, b>>, <<b, c>>, <<b, d>>}) EXCEPT !.cap = [n \in Nodes |-> 2]],
     Willing({<<User, b>>, <<User, c>>, <<c, b>>, <<b, d>>}),
     Willing({<<User, b>>, <<User, c>>, <<User, d>>}),
     [Willing({<<User, b>>, <<User, c>>, <<b, c>>}) EXCEPT !.shows = @ \ {<<c, User>>}],
     [Willing({<<User, b>>, <<b, c>>, <<c, d>>}) EXCEPT !.maxTtl[b] = 1],
     [Willing({<<User, b>>, <<User, c>>, <<b, d>>, <<c, d>>}) EXCEPT !.maxTtl[b] = 0]}

SomeNetworks == SmallNetworks \cup LargeNetworks
=============================================================================
