---------------------------- MODULE SearchProofs ----------------------------
(***************************************************************************)
(* Proofs about Search, for any nodes, grant graphs, limits and failures:  *)
(* its types, that the user is shown only what the grants allow, that what *)
(* is shown can be fetched hop by hop, that no file is shown twice, and    *)
(* that an undisturbed search shows every file in reach.                   *)
(***************************************************************************)
EXTENDS Search, SequenceTheorems, FiniteSetTheorems, WellFoundedInduction, TLAPS

-----------------------------------------------------------------------------
(* The inductive invariant.  A call's route is a chain of calls that ran,  *)
(* each let in by the grant its server gave the one before; a hit, on its  *)
(* way or shown, names with the route of the call that has it the call     *)
(* whose handler found it.                                                 *)

Call == [status: {"sent", "open", "closed"}, reading: BOOLEAN, ttl: 0..MaxTtl,
         ran: BOOLEAN, pend: SUBSET Seq(Nodes), count: Nat]

TypeInv ==
    /\ net \in Networks
    /\ seen \in SUBSET Nodes
    /\ DOMAIN calls \in SUBSET Seq(Nodes)
    /\ Root \in DOMAIN calls
    /\ \A p \in DOMAIN calls :
          /\ calls[p] \in Call
          /\ Len(p) >= 1 /\ p[1] = User
          /\ Len(p) + calls[p].ttl <= MaxTtl + 1
          /\ calls[p].count <= net.cap[Server(p)]
    /\ handles \in [Nodes -> SUBSET Seq(Nodes)]
    /\ results \in SUBSET Seq(Nodes)
    /\ failures \in 0..Failures
    /\ hung \in SUBSET Nodes /\ restarted \in SUBSET Nodes

\* The handler of the call has taken the query.
Opened(c) == c.status = "open" \/ c.ran

\* Every hop of r but the first is one a relay may make.
Agreed(r) ==
    \A i \in 1..Len(r) - 1 :
        /\ <<r[i], r[i + 1]>> \in net.peers
        /\ i > 1 => r[i] \in net.serve /\ <<r[i], r[i + 1]>> \in net.reshare

\* The first k nodes of r each have a grant from the next.
Granted(r, k) == \A i \in 1..k - 1 : <<r[i + 1], r[i]>> \in net.grants

RoutesAgree ==
    \A p \in DOMAIN calls :
        /\ Agreed(p) /\ Granted(p, Len(p) - 1)
        /\ Opened(calls[p]) => Granted(p, Len(p))

\* Nobody is asked but by a handler that ran, and the user's own never waits.
Chain ==
    /\ calls[Root].status # "sent"
    /\ \A p \in DOMAIN calls \ {Root} :
          Len(p) > 1 /\ Parent(p) \in DOMAIN calls /\ calls[Parent(p)].ran

\* r is the route of a call that found its server's file.
Found(r) ==
    /\ r \in DOMAIN calls /\ calls[r].ran
    /\ r # Root => <<Last(r), r[Len(r) - 1]>> \in net.shows

\* Every node on the way still has the handle it minted, or has restarted.
Kept(h) ==
    \A i \in 1..Len(h) : SubSeq(h, i, Len(h)) \in handles[h[i]] \/ h[i] \in restarted

HitsAreFound ==
    /\ \A p \in DOMAIN calls : \A h \in calls[p].pend :
          Found(p \o h) /\ Kept(h) /\ calls[p].status = "open"
    /\ \A h \in results : Found(Root \o h) /\ Kept(h)

\* A node that did not restart answers one copy of the query.
OneCopy ==
    restarted = {} =>
        \A p \in DOMAIN calls : Opened(calls[p]) =>
            /\ Server(p) \in seen
            /\ \A q \in DOMAIN calls : Opened(calls[q]) /\ Server(q) = Server(p) => q = p

IInv == TypeInv /\ RoutesAgree /\ Chain /\ HitsAreFound /\ OneCopy

-----------------------------------------------------------------------------
(* Routes and calls.                                                       *)

LEMMA RootIsARoute ==
    /\ Root \in Seq(Nodes) /\ Len(Root) = 1 /\ Root[1] = User /\ Server(Root) = User
    /\ User \in Nodes
BY SearchAssumption DEF Root, Server, Last

LEMMA Ends ==
    ASSUME NEW p \in Seq(Nodes), Len(p) >= 1
    PROVE  /\ Server(p) = p[Len(p)] /\ Server(p) \in Nodes
           /\ Len(p) > 1 => /\ Parent(p) \in Seq(Nodes) /\ Len(Parent(p)) = Len(p) - 1
                            /\ \A i \in 1..Len(p) - 1 : Parent(p)[i] = p[i]
<1>1. Len(p) \in Nat /\ \A i \in 1..Len(p) : p[i] \in Nodes
  OBVIOUS
<1>2. Server(p) = p[Len(p)] /\ Server(p) \in Nodes
  BY <1>1 DEF Server, Last
<1>3. ASSUME Len(p) > 1
      PROVE  /\ Parent(p) \in Seq(Nodes) /\ Len(Parent(p)) = Len(p) - 1
             /\ \A i \in 1..Len(p) - 1 : Parent(p)[i] = p[i]
  <2>1. 1 \in 1..Len(p) + 1 /\ Len(p) - 1 \in 0..Len(p)
    BY <1>1, <1>3
  <2>2. /\ SubSeq(p, 1, Len(p) - 1) \in Seq(Nodes)
        /\ Len(SubSeq(p, 1, Len(p) - 1)) = Len(p) - 1
        /\ \A i \in 1..Len(p) - 1 : SubSeq(p, 1, Len(p) - 1)[i] = p[i]
    BY <1>1, <1>3
  <2> QED BY <2>2 DEF Parent, Front
<1> QED BY <1>2, <1>3

LEMMA ConcatOne ==
    ASSUME NEW S, NEW s \in Seq(S), NEW x \in S, NEW u \in Seq(S)
    PROVE  s \o (<<x>> \o u) = (s \o <<x>>) \o u
<1>1. \A t \in Seq(S) : (s \o t) \o u = s \o (t \o u)
  BY ConcatAssociative
<1>2. <<x>> \in Seq(S)
  OBVIOUS
<1> QED BY <1>1, <1>2

\* The hop at the end of a route and the handle minted there.
LEMMA Handed ==
    ASSUME NEW p \in Seq(Nodes), Len(p) > 1, NEW h \in Seq(Nodes)
    PROVE  /\ Minted(Server(p), h) \in Seq(Nodes)
           /\ Parent(p) \o Minted(Server(p), h) = p \o h
<1>1. /\ Server(p) = p[Len(p)] /\ Server(p) \in Nodes
      /\ Parent(p) \in Seq(Nodes) /\ Len(Parent(p)) = Len(p) - 1
      /\ \A i \in 1..Len(p) - 1 : Parent(p)[i] = p[i]
  BY Ends
<1> DEFINE n == Server(p)
           up == Parent(p)
<1> HIDE DEF n, up
<1>2. <<n>> \in Seq(Nodes) /\ <<n>> \o h \in Seq(Nodes)
  BY <1>1 DEF n
<1>3. up \o (<<n>> \o h) = (up \o <<n>>) \o h
  <2>1. up \in Seq(Nodes) /\ n \in Nodes
    BY <1>1 DEF up, n
  <2> QED BY <2>1, ConcatOne
<1>4. up \o <<n>> = p
  <2>1. up \o <<n>> \in Seq(Nodes) /\ Len(up \o <<n>>) = Len(p)
    BY <1>1, <1>2 DEF up
  <2>2. \A i \in 1..Len(p) : (up \o <<n>>)[i] = p[i]
    BY <1>1, <1>2 DEF up, n
  <2> QED BY <2>1, <2>2, SeqEqual
<1> QED BY <1>2, <1>3, <1>4 DEF Minted, n, up

LEMMA OneCall ==
    ASSUME NEW p \in DOMAIN calls, NEW x, calls' = [calls EXCEPT ![p] = x]
    PROVE  /\ DOMAIN calls' = DOMAIN calls
           /\ calls'[p] = x
           /\ \A q \in DOMAIN calls \ {p} : calls'[q] = calls[q]
OBVIOUS

LEMMA OverCall ==
    ASSUME NEW x \in Call
    PROVE  /\ Over(x) \in Call /\ Over(x).status = "closed" /\ Over(x).pend = {}
           /\ Over(x).reading = x.reading /\ Over(x).ttl = x.ttl
           /\ Over(x).ran = x.ran /\ Over(x).count = x.count
BY DEF Over, Call

LEMMA CallType ==
    ASSUME NEW x \in Call
    PROVE  /\ x.status \in {"sent", "open", "closed"} /\ x.reading \in BOOLEAN
           /\ x.ttl \in 0..MaxTtl /\ x.ran \in BOOLEAN
           /\ x.pend \in SUBSET Seq(Nodes) /\ x.count \in Nat
BY DEF Call

LEMMA LimitTypes ==
    ASSUME net \in Network, NEW n \in Nodes
    PROVE  net.cap[n] \in Nat /\ net.maxTtl[n] \in 0..MaxTtl /\ net.fanout[n] \in Nat
<1>1. /\ net.cap \in [Nodes -> Nat] /\ net.maxTtl \in [Nodes -> 0..MaxTtl]
      /\ net.fanout \in [Nodes -> Nat]
  BY DEF Network
<1> QED BY <1>1

LEMMA CappedTtl ==
    ASSUME net \in Network, NEW n \in Nodes, NEW t \in 0..MaxTtl
    PROVE  /\ Capped(n, t) \in 0..MaxTtl /\ Capped(n, t) <= t
           /\ \A x \in Nat : x <= Capped(n, t) <=> x <= t /\ x <= net.maxTtl[n]
<1>1. net.maxTtl[n] \in 0..MaxTtl /\ MaxTtl \in Nat
  BY LimitTypes, SearchAssumption
<1> QED BY <1>1 DEF Capped

LEMMA NetType ==
    ASSUME TypeInv
    PROVE  /\ net \in Network
           /\ \A p \in DOMAIN calls :
                 /\ p \in Seq(Nodes) /\ calls[p] \in Call /\ Len(p) >= 1
                 /\ Server(p) \in Nodes /\ net.cap[Server(p)] \in Nat
           /\ Root \in DOMAIN calls
<1>1. net \in Network
  BY NetworksAssumption DEF TypeInv
<1>2. ASSUME NEW p \in DOMAIN calls
      PROVE  /\ p \in Seq(Nodes) /\ calls[p] \in Call /\ Len(p) >= 1
             /\ Server(p) \in Nodes /\ net.cap[Server(p)] \in Nat
  <2>1. p \in Seq(Nodes) /\ calls[p] \in Call /\ Len(p) >= 1
    BY DEF TypeInv
  <2>2. Server(p) \in Nodes
    BY <2>1, Ends
  <2> QED BY <1>1, <2>1, <2>2, LimitTypes
<1> QED BY <1>1, <1>2 DEF TypeInv

-----------------------------------------------------------------------------
(* Steps in which no handler takes up a query and no hit changes hands.    *)

\* What becomes of the call p in such a step.
Lesser(p, d) ==
    /\ d \in Call /\ d.count <= net.cap[Server(p)]
    /\ d.ran = calls[p].ran /\ d.ttl = calls[p].ttl /\ d.pend \subseteq calls[p].pend
    /\ d.status = "open" => calls[p].status = "open"
    /\ d.status = "sent" => calls[p].status = "sent"
    /\ d.pend # {} => d.status = "open"

LEMMA KeptGrows ==
    ASSUME NEW h \in Seq(Nodes), Kept(h), restarted \subseteq restarted',
           \A n \in Nodes : handles[n] \subseteq handles'[n] \/ n \in restarted'
    PROVE  Kept(h)'
<1>1. \A i \in 1..Len(h) : h[i] \in Nodes
  OBVIOUS
<1> QED BY <1>1 DEF Kept

LEMMA CalmTypes ==
    ASSUME IInv, net' = net, DOMAIN calls' = DOMAIN calls,
           \A p \in DOMAIN calls : Lesser(p, calls'[p]),
           seen' \in SUBSET Nodes, handles' \in [Nodes -> SUBSET Seq(Nodes)],
           results' \subseteq results \cup calls[Root].pend,
           failures' \in 0..Failures, hung' \in SUBSET Nodes, restarted' \in SUBSET Nodes
    PROVE  TypeInv'
<1>1. results' \in SUBSET Seq(Nodes)
  <2>1. TypeInv /\ Root \in DOMAIN calls /\ calls[Root] \in Call
    BY NetType DEF IInv
  <2>2. calls[Root].pend \in SUBSET Seq(Nodes)
    BY <2>1, CallType
  <2> QED BY <2>1, <2>2 DEF TypeInv
<1>2. ASSUME NEW p \in DOMAIN calls
      PROVE  /\ calls'[p] \in Call /\ Len(p) >= 1 /\ p[1] = User
             /\ Len(p) + calls'[p].ttl <= MaxTtl + 1 /\ calls'[p].count <= net'.cap[Server(p)]
  BY DEF IInv, TypeInv, Lesser
<1> QED BY <1>1, <1>2 DEF IInv, TypeInv, Root

LEMMA CalmRoutes ==
    ASSUME IInv, net' = net, DOMAIN calls' = DOMAIN calls,
           \A p \in DOMAIN calls : Lesser(p, calls'[p])
    PROVE  RoutesAgree' /\ Chain'
<1>1. \A p \in DOMAIN calls : Opened(calls'[p]) => Opened(calls[p])
  BY DEF Lesser, Opened
<1>2. RoutesAgree'
  BY <1>1 DEF IInv, RoutesAgree, Agreed, Granted, Opened
<1>3. Root \in DOMAIN calls
  BY DEF IInv, TypeInv
<1>4. Chain'
  BY <1>3 DEF IInv, Chain, Lesser, Root, Parent
<1> QED BY <1>2, <1>4

LEMMA CalmHits ==
    ASSUME IInv, net' = net, DOMAIN calls' = DOMAIN calls,
           \A p \in DOMAIN calls : Lesser(p, calls'[p]),
           results' \subseteq results \cup calls[Root].pend,
           restarted \subseteq restarted',
           \A n \in Nodes : handles[n] \subseteq handles'[n] \/ n \in restarted'
    PROVE  HitsAreFound'
<1>1. \A r : Found(r) => Found(r)'
  BY DEF Found, Lesser, Last, Root
<1>2. ASSUME NEW p \in DOMAIN calls, NEW h \in calls[p].pend
      PROVE  h \in Seq(Nodes) /\ Found(p \o h)' /\ Kept(h)'
  <2>1. calls[p] \in Call
    BY NetType DEF IInv
  <2>2. h \in Seq(Nodes)
    BY <2>1, CallType
  <2>3. Found(p \o h) /\ Kept(h)
    BY DEF IInv, HitsAreFound
  <2>4. Kept(h)'
    BY <2>2, <2>3, KeptGrows
  <2> QED BY <1>1, <2>2, <2>3, <2>4
<1>3. ASSUME NEW h \in results
      PROVE  Found(Root \o h)' /\ Kept(h)'
  <2>1. h \in Seq(Nodes)
    BY DEF IInv, TypeInv
  <2>2. Found(Root \o h) /\ Kept(h)
    BY DEF IInv, HitsAreFound
  <2>3. Kept(h)'
    BY <2>1, <2>2, KeptGrows
  <2> QED BY <1>1, <2>2, <2>3
<1>4. ASSUME NEW p \in DOMAIN calls, NEW h \in calls'[p].pend
      PROVE  Found(p \o h)' /\ Kept(h)' /\ calls'[p].status = "open"
  <2>1. h \in calls[p].pend /\ calls'[p].status = "open"
    BY DEF Lesser
  <2> QED BY <1>2, <2>1
<1>5. ASSUME NEW h \in results'
      PROVE  Found(Root \o h)' /\ Kept(h)'
  <2>1. Root \in DOMAIN calls
    BY DEF IInv, TypeInv
  <2> QED BY <1>2, <1>3, <2>1
<1>6. Root' = Root
  BY DEF Root
<1> QED BY <1>4, <1>5, <1>6 DEF HitsAreFound

LEMMA CalmCopies ==
    ASSUME IInv, DOMAIN calls' = DOMAIN calls,
           \A p \in DOMAIN calls : Lesser(p, calls'[p]),
           restarted \subseteq restarted', seen \subseteq seen' \/ restarted' # {}
    PROVE  OneCopy'
<1>1. SUFFICES ASSUME restarted' = {}
               PROVE  OneCopy'
  BY DEF OneCopy
<1>2. restarted = {} /\ seen \subseteq seen'
  BY <1>1
<1>3. \A p \in DOMAIN calls : Opened(calls'[p]) => Opened(calls[p])
  BY DEF Lesser, Opened
<1> QED BY <1>2, <1>3 DEF IInv, OneCopy, Opened, Server, Last

LEMMA Calm ==
    ASSUME IInv, net' = net, DOMAIN calls' = DOMAIN calls,
           \A p \in DOMAIN calls : Lesser(p, calls'[p]),
           seen' \in SUBSET Nodes, handles' \in [Nodes -> SUBSET Seq(Nodes)],
           results' \subseteq results \cup calls[Root].pend,
           failures' \in 0..Failures, hung' \in SUBSET Nodes, restarted' \in SUBSET Nodes,
           restarted \subseteq restarted', seen \subseteq seen' \/ restarted' # {},
           \A n \in Nodes : handles[n] \subseteq handles'[n] \/ n \in restarted'
    PROVE  IInv'
BY CalmTypes, CalmRoutes, CalmHits, CalmCopies DEF IInv

\* What is closed, cut off or left alone is such a call.
LEMMA Lessened ==
    ASSUME IInv, NEW p \in DOMAIN calls
    PROVE  /\ Lesser(p, calls[p])
           /\ Lesser(p, Over(calls[p]))
           /\ Lesser(p, [calls[p] EXCEPT !.reading = FALSE])
<1>1. /\ calls[p] \in Call /\ calls[p].count <= net.cap[Server(p)]
      /\ calls[p].pend # {} => calls[p].status = "open"
  BY DEF IInv, TypeInv, HitsAreFound
<1>2. Lesser(p, calls[p])
  BY <1>1 DEF Lesser
<1>3. Lesser(p, Over(calls[p]))
  BY <1>1, OverCall DEF Lesser
<1>4. Lesser(p, [calls[p] EXCEPT !.reading = FALSE])
  <2> DEFINE d == [calls[p] EXCEPT !.reading = FALSE]
  <2>1. /\ d \in Call /\ d.count = calls[p].count /\ d.ran = calls[p].ran
        /\ d.ttl = calls[p].ttl /\ d.pend = calls[p].pend /\ d.status = calls[p].status
    BY <1>1 DEF Call
  <2> HIDE DEF d
  <2>2. Lesser(p, d)
    BY <1>1, <2>1 DEF Lesser
  <2> QED BY <2>2 DEF d
<1> QED BY <1>2, <1>3, <1>4

LEMMA OneLesser ==
    ASSUME IInv, NEW p \in DOMAIN calls, NEW x, Lesser(p, x),
           calls' = [calls EXCEPT ![p] = x]
    PROVE  /\ DOMAIN calls' = DOMAIN calls
           /\ \A q \in DOMAIN calls : Lesser(q, calls'[q])
<1>1. /\ DOMAIN calls' = DOMAIN calls /\ calls'[p] = x
      /\ \A q \in DOMAIN calls \ {p} : calls'[q] = calls[q]
  BY OneCall
<1> QED BY <1>1, Lessened

LEMMA Tables ==
    ASSUME TypeInv
    PROVE  /\ seen \in SUBSET Nodes /\ handles \in [Nodes -> SUBSET Seq(Nodes)]
           /\ failures \in 0..Failures /\ hung \in SUBSET Nodes /\ restarted \in SUBSET Nodes
           /\ Failures \in Nat
BY SearchAssumption DEF TypeInv

\* A step of one call that leaves all the tables alone.
LEMMA CalmCall ==
    ASSUME IInv, NEW p \in DOMAIN calls, NEW x, Lesser(p, x),
           calls' = [calls EXCEPT ![p] = x], UNCHANGED <<net, seen, handles, hung, restarted>>,
           failures' \in 0..Failures, results' \subseteq results \cup calls[Root].pend
    PROVE  IInv'
<1>1. /\ DOMAIN calls' = DOMAIN calls
      /\ \A q \in DOMAIN calls : Lesser(q, calls'[q])
  BY OneLesser
<1>2. TypeInv
  BY DEF IInv
<1>3. /\ seen' \in SUBSET Nodes /\ handles' \in [Nodes -> SUBSET Seq(Nodes)]
      /\ hung' \in SUBSET Nodes /\ restarted' \in SUBSET Nodes
  BY <1>2, Tables
<1> QED BY <1>1, <1>3, Calm

LEMMA FinishKeeps ==
    ASSUME IInv, NEW p \in DOMAIN calls, Finish(p)
    PROVE  IInv'
<1>1. failures' \in 0..Failures
  BY Tables DEF Finish, IInv
<1> QED BY <1>1, Lessened, CalmCall DEF Finish

LEMMA TimeOutKeeps ==
    ASSUME IInv, NEW p \in DOMAIN calls, TimeOut(p)
    PROVE  IInv'
<1>1. failures' \in 0..Failures
  BY Tables DEF TimeOut, IInv
<1>2. calls' = [calls EXCEPT ![p] = [calls[p] EXCEPT !.reading = FALSE]]
  BY DEF TimeOut
<1> QED BY <1>1, <1>2, Lessened, CalmCall DEF TimeOut

\* What becomes of a call that passes the hit h on.
LEMMA Passed ==
    ASSUME IInv, NEW p \in DOMAIN calls, NEW h, calls[p].count < net.cap[Server(p)],
           calls[p].status = "open"
    PROVE  Lesser(p, [calls[p] EXCEPT !.pend = @ \ {h}, !.count = @ + 1])
<1> DEFINE d == [calls[p] EXCEPT !.pend = @ \ {h}, !.count = @ + 1]
<1>1. calls[p] \in Call /\ net.cap[Server(p)] \in Nat
  BY NetType DEF IInv
<1>2. calls[p].count \in Nat /\ calls[p].pend \in SUBSET Seq(Nodes)
  BY <1>1, CallType
<1>3. /\ d.count = calls[p].count + 1 /\ d.ran = calls[p].ran
      /\ d.ttl = calls[p].ttl /\ d.pend = calls[p].pend \ {h}
      /\ d.status = calls[p].status
  BY <1>1 DEF Call
<1>4. d \in Call
  <2> DEFINE n == calls[p].count + 1
             rest == calls[p].pend \ {h}
  <2>1. n \in Nat /\ rest \in SUBSET Seq(Nodes)
    BY <1>2
  <2> HIDE DEF n, rest
  <2>2. [calls[p] EXCEPT !.pend = rest, !.count = n] \in Call
    BY <1>1, <2>1 DEF Call
  <2>3. d = [calls[p] EXCEPT !.pend = rest, !.count = n]
    BY DEF n, rest
  <2> QED BY <2>2, <2>3
<1> HIDE DEF d
<1>5. Lesser(p, d)
  BY <1>1, <1>2, <1>3, <1>4 DEF Lesser
<1> QED BY <1>5 DEF d

LEMMA ShowKeeps ==
    ASSUME IInv, Show
    PROVE  IInv'
<1>1. /\ Root \in DOMAIN calls /\ calls[Root] \in Call /\ calls[Root].status = "open"
      /\ calls[Root].count <= net.cap[Server(Root)]
      /\ net.cap[Server(Root)] \in Nat /\ Server(Root) = User
  BY NetType, RootIsARoute DEF IInv, TypeInv, Show
<1>2. failures' \in 0..Failures
  BY Tables DEF Show, IInv
<1>3. PICK h \in calls[Root].pend :
          IF calls[Root].count < net.cap[User]
          THEN /\ results' = results \cup {h}
               /\ calls' = [calls EXCEPT ![Root].pend = @ \ {h}, ![Root].count = @ + 1]
          ELSE calls' = [calls EXCEPT ![Root] = Over(@)] /\ UNCHANGED results
  BY DEF Show
<1>4. CASE calls[Root].count < net.cap[User]
  <2> DEFINE d == [calls[Root] EXCEPT !.pend = @ \ {h}, !.count = @ + 1]
  <2>1. calls' = [calls EXCEPT ![Root] = d]
    BY <1>1, <1>3, <1>4
  <2>2. Lesser(Root, d)
    BY <1>1, <1>4, Passed
  <2>3. results' \subseteq results \cup calls[Root].pend
    BY <1>3, <1>4
  <2> HIDE DEF d
  <2> QED BY <1>1, <1>2, <2>1, <2>2, <2>3, CalmCall DEF Show
<1>5. CASE ~(calls[Root].count < net.cap[User])
  BY <1>1, <1>2, <1>3, <1>5, Lessened, CalmCall DEF Show
<1> QED BY <1>4, <1>5

LEMMA HangKeeps ==
    ASSUME IInv, NEW n \in Nodes, Hang(n)
    PROVE  IInv'
<1>1. TypeInv /\ \A q \in DOMAIN calls : Lesser(q, calls'[q])
  BY Lessened DEF Hang, IInv
<1>2. failures' \in 0..Failures /\ hung' \in SUBSET Nodes
  BY <1>1, Tables DEF Hang
<1>3. /\ seen' \in SUBSET Nodes /\ handles' \in [Nodes -> SUBSET Seq(Nodes)]
      /\ restarted' \in SUBSET Nodes
  BY <1>1, Tables DEF Hang
<1> QED BY <1>1, <1>2, <1>3, Calm DEF Hang

LEMMA RestartKeeps ==
    ASSUME IInv, NEW n \in Nodes, Restart(n)
    PROVE  IInv'
<1>1. DOMAIN calls' = DOMAIN calls /\ TypeInv
  BY DEF Restart, IInv
<1>2. \A q \in DOMAIN calls : Lesser(q, calls'[q])
  BY Lessened DEF Restart
<1>3. failures' \in 0..Failures /\ hung' \in SUBSET Nodes /\ restarted' \in SUBSET Nodes
  BY <1>1, Tables DEF Restart
<1>4. seen' \in SUBSET Nodes /\ handles' \in [Nodes -> SUBSET Seq(Nodes)]
  BY <1>1, Tables DEF Restart
<1>5. \A m \in Nodes : handles[m] \subseteq handles'[m] \/ m \in restarted'
  BY <1>1, Tables DEF Restart
<1>6. restarted \subseteq restarted' /\ restarted' # {}
  BY DEF Restart
<1> QED BY <1>1, <1>2, <1>3, <1>4, <1>5, <1>6, Calm DEF Restart

-----------------------------------------------------------------------------
(* A handler takes up the query.                                           *)

LEMMA TakenUp ==
    ASSUME NEW x \in Call
    PROVE  LET d == [x EXCEPT !.status = "open"]
           IN  /\ d \in Call /\ d.status = "open" /\ d.reading = x.reading /\ d.ttl = x.ttl
               /\ d.ran = x.ran /\ d.pend = x.pend /\ d.count = x.count
BY DEF Call

\* Nor does it go further than the server lets it.
LEMMA TakenUpBy ==
    ASSUME net \in Network, NEW x \in Call, NEW n \in Nodes
    PROVE  LET d == [x EXCEPT !.status = "open", !.ttl = Capped(n, @)]
           IN  /\ d \in Call /\ d.status = "open" /\ d.reading = x.reading
               /\ d.ttl = Capped(n, x.ttl) /\ Capped(n, x.ttl) <= x.ttl
               /\ d.ran = x.ran /\ d.pend = x.pend /\ d.count = x.count
<1>1. Capped(n, x.ttl) \in 0..MaxTtl /\ Capped(n, x.ttl) <= x.ttl
  BY CappedTtl, CallType
<1>2. \A t \in 0..MaxTtl : [x EXCEPT !.status = "open", !.ttl = t] \in Call
  BY DEF Call
<1> QED BY <1>1, <1>2 DEF Call

\* The asker has a grant from the server, who has not seen the query before.
LEMMA OpensKeeps ==
    ASSUME IInv, NEW p \in DOMAIN calls, calls[p].status = "sent",
           <<Server(p), Server(Parent(p))>> \in net.grants, Server(p) \notin seen,
           Remember(Server(p)), calls' = [calls EXCEPT ![p].status = "open", ![p].ttl = Capped(Server(p), @)],
           UNCHANGED <<net, handles, results, failures, hung, restarted>>
    PROVE  IInv'
<1> DEFINE d == [calls[p] EXCEPT !.status = "open", !.ttl = Capped(Server(p), @)]
<1>1. /\ calls[p] \in Call /\ p \in Seq(Nodes) /\ Len(p) >= 1 /\ p # Root
      /\ Root \in DOMAIN calls /\ TypeInv /\ net \in Network /\ Server(p) \in Nodes
  BY NetType DEF IInv, Chain
<1>2. Len(p) > 1
  BY <1>1 DEF IInv, Chain
<1>3. /\ d \in Call /\ d.status = "open" /\ d.ttl <= calls[p].ttl
      /\ d.ran = calls[p].ran /\ d.pend = calls[p].pend /\ d.count = calls[p].count
  <2>1. /\ d \in Call /\ d.status = "open"
        /\ d.ttl = Capped(Server(p), calls[p].ttl) /\ Capped(Server(p), calls[p].ttl) <= calls[p].ttl
        /\ d.ran = calls[p].ran /\ d.pend = calls[p].pend /\ d.count = calls[p].count
    BY <1>1, TakenUpBy
  <2> HIDE DEF d
  <2> QED BY <2>1
<1>4. /\ DOMAIN calls' = DOMAIN calls /\ calls'[p] = d
      /\ \A q \in DOMAIN calls \ {p} : calls'[q] = calls[q]
  BY OneCall
<1> HIDE DEF d
<1>5. /\ Server(p) = p[Len(p)] /\ Server(p) \in Nodes
      /\ Server(Parent(p)) = p[Len(p) - 1]
  <2>1. /\ Parent(p) \in Seq(Nodes) /\ Len(Parent(p)) = Len(p) - 1
        /\ \A i \in 1..Len(p) - 1 : Parent(p)[i] = p[i]
        /\ Server(p) = p[Len(p)] /\ Server(p) \in Nodes
    BY <1>1, <1>2, Ends
  <2>2. Len(p) \in Nat /\ Len(p) - 1 \in 1..Len(p) - 1
    BY <1>1, <1>2
  <2>3. Server(Parent(p)) = Parent(p)[Len(p) - 1]
    BY <2>1 DEF Server, Last
  <2> QED BY <2>1, <2>2, <2>3
<1>6. TypeInv'
  <2>1. \A q \in DOMAIN calls :
           /\ calls'[q] \in Call /\ Len(q) >= 1 /\ q[1] = User
           /\ Len(q) + calls'[q].ttl <= MaxTtl + 1 /\ calls'[q].count <= net'.cap[Server(q)]
    <3>1. ASSUME NEW q \in DOMAIN calls
          PROVE  /\ calls[q] \in Call /\ Len(q) >= 1 /\ q[1] = User
                 /\ Len(q) + calls[q].ttl <= MaxTtl + 1 /\ calls[q].count <= net.cap[Server(q)]
                 /\ Len(q) \in Nat /\ calls[q].ttl \in Nat /\ MaxTtl \in Nat
      BY <1>1, NetType, CallType, SearchAssumption DEF TypeInv
    <3>2. Len(p) + calls'[p].ttl <= MaxTtl + 1
      <4>1. calls'[p].ttl \in Nat /\ calls'[p].ttl <= calls[p].ttl
        <5>1. d.ttl \in 0..MaxTtl /\ MaxTtl \in Nat
          BY <1>3, CallType, SearchAssumption
        <5> QED BY <1>3, <1>4, <5>1
      <4> QED BY <3>1, <4>1
    <3> QED BY <1>3, <1>4, <3>1, <3>2
  <2>2. seen' \in SUBSET Nodes
    BY <1>1, <1>5 DEF Remember, TypeInv
  <2> QED BY <1>1, <1>4, <2>1, <2>2 DEF TypeInv, Root
<1>7. RoutesAgree'
  <2>1. \A q \in DOMAIN calls \ {p} : Opened(calls'[q]) => Opened(calls[q])
    BY <1>4
  <2>2. Granted(p, Len(p))
    <3>1. \A i \in 1..Len(p) - 2 : <<p[i + 1], p[i]>> \in net.grants
      <4>1. Granted(p, Len(p) - 1)
        BY DEF IInv, RoutesAgree
      <4>2. Len(p) - 1 - 1 = Len(p) - 2
        BY <1>1
      <4> QED BY <4>1, <4>2 DEF Granted
    <3>2. <<p[Len(p)], p[Len(p) - 1]>> \in net.grants
      BY <1>5
    <3>3. Len(p) \in Nat
      BY <1>1
    <3>4. ASSUME NEW i \in 1..Len(p) - 1
          PROVE  <<p[i + 1], p[i]>> \in net.grants
      <4>1. CASE i = Len(p) - 1
        BY <3>2, <3>3, <4>1
      <4>2. CASE i # Len(p) - 1
        BY <3>1, <3>3, <4>2
      <4> QED BY <4>1, <4>2
    <3> QED BY <3>4 DEF Granted
  <2> QED BY <1>4, <2>1, <2>2 DEF IInv, RoutesAgree, Agreed, Granted, Opened
<1>8. Chain'
  <2>1. \A q \in DOMAIN calls : calls'[q].ran = calls[q].ran
    BY <1>3, <1>4
  <2>2. calls'[Root].status = calls[Root].status
    BY <1>1, <1>4
  <2> QED BY <1>1, <1>4, <2>1, <2>2 DEF IInv, Chain, Root, Parent
<1>9. HitsAreFound'
  <2>1. \A r : Found(r) => Found(r)'
    BY <1>3, <1>4 DEF Found, Last, Root
  <2>2. \A h : Kept(h) => Kept(h)'
    BY DEF Kept
  <2>3. \A q \in DOMAIN calls :
           /\ calls'[q].pend = calls[q].pend
           /\ calls[q].status = "open" => calls'[q].status = "open"
    BY <1>3, <1>4
  <2>4. Root' = Root
    BY DEF Root
  <2> QED BY <1>4, <2>1, <2>2, <2>3, <2>4 DEF IInv, HitsAreFound
<1>10. OneCopy'
  <2>1. SUFFICES ASSUME restarted = {}
                 PROVE  \A q \in DOMAIN calls : Opened(calls'[q]) =>
                           /\ Server(q) \in seen'
                           /\ \A o \in DOMAIN calls :
                                 Opened(calls'[o]) /\ Server(o) = Server(q) => o = q
    BY <1>4 DEF OneCopy, Opened, Server, Last
  <2>2. \A q \in DOMAIN calls : Opened(calls'[q]) =>
           q = p \/ (Opened(calls[q]) /\ Server(q) \in seen /\ Server(q) # Server(p))
    BY <1>4, <2>1 DEF IInv, OneCopy
  <2>3. seen' = seen \cup {Server(p)}
    BY DEF Remember
  <2> QED BY <2>1, <2>2, <2>3 DEF IInv, OneCopy
<1> QED BY <1>6, <1>7, <1>8, <1>9, <1>10 DEF IInv

LEMMA ReceiveKeeps ==
    ASSUME IInv, NEW p \in DOMAIN calls, Receive(p)
    PROVE  IInv'
<1>1. failures' \in 0..Failures
  BY Tables DEF Receive, IInv
<1>2. CASE calls' = [calls EXCEPT ![p] = Over(@)] /\ UNCHANGED seen
  BY <1>1, <1>2, Lessened, CalmCall DEF Receive
<1>3. CASE /\ <<Server(p), Server(Parent(p))>> \in net.grants /\ Server(p) \notin seen
           /\ Remember(Server(p)) /\ calls' = [calls EXCEPT ![p].status = "open", ![p].ttl = Capped(Server(p), @)]
  BY <1>3, OpensKeeps DEF Receive
<1> QED BY <1>2, <1>3 DEF Receive

-----------------------------------------------------------------------------
(* A handler runs: its own matches, and the peers it forwards to.          *)

LEMMA AskedCall ==
    ASSUME NEW ttl \in 0..MaxTtl
    PROVE  /\ Asked(ttl) \in Call /\ Asked(ttl).status = "sent" /\ Asked(ttl).ttl = ttl
           /\ Asked(ttl).ran = FALSE /\ Asked(ttl).pend = {} /\ Asked(ttl).count = 0
BY DEF Asked, Call

\* Whom a handler may forward to, and only while the TTL lasts.
LEMMA Forwards ==
    ASSUME IInv, NEW p \in DOMAIN calls, NEW T,
           T \in IF calls[p].ttl = 0 THEN {{}} ELSE Taken(Server(p), MayAsk(p)), NEW m \in T
    PROVE  /\ m \in Nodes /\ calls[p].ttl - 1 \in 0..MaxTtl
           /\ <<Server(p), m>> \in net.peers
           /\ p # Root => Server(p) \in net.serve /\ <<Server(p), m>> \in net.reshare
<1>1. calls[p].ttl \in 0..MaxTtl /\ MaxTtl \in Nat
  BY NetType, CallType, SearchAssumption DEF IInv
<1>2. calls[p].ttl # 0 /\ T \in Taken(Server(p), MayAsk(p))
  OBVIOUS
<1>3. m \in MayAsk(p)
  BY <1>2 DEF Taken
<1>4. CASE p = Root
  BY <1>1, <1>2, <1>3, <1>4 DEF MayAsk
<1>5. CASE p # Root
  BY <1>1, <1>2, <1>3, <1>5 DEF MayAsk
<1> QED BY <1>4, <1>5

LEMMA Appended ==
    ASSUME NEW p \in Seq(Nodes), Len(p) >= 1, NEW m \in Nodes
    PROVE  LET q == Append(p, m)
           IN  /\ q \in Seq(Nodes) /\ Len(q) = Len(p) + 1 /\ q # Root
               /\ \A i \in 1..Len(p) : q[i] = p[i]
               /\ q[Len(p) + 1] = m
               /\ Parent(q) = p
<1> DEFINE q == Append(p, m)
<1>1. /\ q \in Seq(Nodes) /\ Len(q) = Len(p) + 1 /\ Len(p) \in Nat
      /\ \A i \in 1..Len(p) : q[i] = p[i]
      /\ q[Len(p) + 1] = m
  OBVIOUS
<1> HIDE DEF q
<1>2. q # Root
  BY <1>1, RootIsARoute
<1>3. Parent(q) = p
  <2>1. /\ Parent(q) \in Seq(Nodes) /\ Len(Parent(q)) = Len(p)
        /\ \A i \in 1..Len(p) : Parent(q)[i] = q[i]
    <3>1. Len(q) > 1 /\ Len(q) - 1 = Len(p)
      BY <1>1
    <3> QED BY <1>1, <3>1, Ends
  <2> QED BY <1>1, <2>1, SeqEqual
<1> QED BY <1>1, <1>2, <1>3 DEF q

LEMMA RanCall ==
    ASSUME NEW x \in Call, NEW S \in SUBSET Seq(Nodes)
    PROVE  LET d == [x EXCEPT !.ran = TRUE, !.pend = S]
           IN  /\ d \in Call /\ d.status = x.status /\ d.ttl = x.ttl
               /\ d.ran = TRUE /\ d.pend = S /\ d.count = x.count
BY DEF Call

\* The calls after p ran: those there were, p with its own matches, and one for
\* every peer it asked, none of which was there.
LEMMA CallsOfRun ==
    ASSUME IInv, NEW p \in DOMAIN calls, calls[p].status = "open", ~calls[p].ran, NEW T,
           T \in IF calls[p].ttl = 0 THEN {{}} ELSE Taken(Server(p), MayAsk(p)),
           LET asked == Forward(p, T)
               here == [calls EXCEPT ![p].ran = TRUE,
                                     ![p].pend = IF Shown(p) THEN {<<>>} ELSE {}]
           IN  calls' = [q \in DOMAIN calls \cup DOMAIN asked |->
                            IF q \in DOMAIN asked THEN asked[q] ELSE here[q]]
    PROVE  LET own == IF Shown(p) THEN {<<>>} ELSE {}
           IN  /\ DOMAIN calls' = DOMAIN calls \cup {Append(p, m) : m \in T}
               /\ \A m \in T : /\ Append(p, m) \notin DOMAIN calls
                              /\ calls'[Append(p, m)] = Asked(calls[p].ttl - 1)
               /\ calls'[p] = [calls[p] EXCEPT !.ran = TRUE, !.pend = own]
               /\ \A q \in DOMAIN calls \ {p} : calls'[q] = calls[q]
<1> DEFINE New == {Append(p, m) : m \in T}
           own == IF Shown(p) THEN {<<>>} ELSE {}
           old == [calls EXCEPT ![p].ran = TRUE, ![p].pend = own]
           fwd == Forward(p, T)
<1>1. p \in Seq(Nodes) /\ Len(p) >= 1
  BY NetType DEF IInv
<1>2. ASSUME NEW m \in T
      PROVE  Append(p, m) \notin DOMAIN calls
  <2>1. m \in Nodes
    BY Forwards
  <2>2. Append(p, m) # Root /\ Parent(Append(p, m)) = p
    BY <1>1, <2>1, Appended
  <2> QED BY <2>2 DEF IInv, Chain
<1>3. /\ DOMAIN old = DOMAIN calls
      /\ old[p] = [calls[p] EXCEPT !.ran = TRUE, !.pend = own]
      /\ \A q \in DOMAIN calls \ {p} : old[q] = calls[q]
  OBVIOUS
<1>4. DOMAIN fwd = New /\ \A q \in New : fwd[q] = Asked(calls[p].ttl - 1)
  BY DEF Forward
<1> HIDE DEF fwd, old, own
<1>5. calls' = [q \in DOMAIN calls \cup DOMAIN fwd |->
                   IF q \in DOMAIN fwd THEN fwd[q] ELSE old[q]]
  BY DEF fwd, old, own
<1>6. /\ DOMAIN calls' = New \cup DOMAIN calls
      /\ \A q \in New : calls'[q] = fwd[q]
      /\ \A q \in DOMAIN calls \ New : calls'[q] = old[q]
  BY <1>4, <1>5
<1>7. New \cap DOMAIN calls = {}
  BY <1>2
<1>8. \A m \in T : Append(p, m) \in New
  OBVIOUS
<1> HIDE DEF New
<1>9. /\ DOMAIN calls' = DOMAIN calls \cup New
      /\ \A m \in T : calls'[Append(p, m)] = Asked(calls[p].ttl - 1)
      /\ calls'[p] = [calls[p] EXCEPT !.ran = TRUE, !.pend = own]
      /\ \A q \in DOMAIN calls \ {p} : calls'[q] = calls[q]
  BY <1>3, <1>4, <1>6, <1>7, <1>8
<1> QED BY <1>2, <1>9 DEF New, own

\* The same in the terms of the invariant.
LEMMA RunFacts ==
    ASSUME IInv, NEW p \in DOMAIN calls, RunSearch(p)
    PROVE  \E T, own :
             /\ DOMAIN calls' = DOMAIN calls \cup {Append(p, m) : m \in T}
             /\ \A m \in T :
                   /\ m \in Nodes /\ Append(p, m) \notin DOMAIN calls
                   /\ calls'[Append(p, m)] = Asked(calls[p].ttl - 1)
                   /\ calls[p].ttl - 1 \in 0..MaxTtl
                   /\ <<Server(p), m>> \in net.peers
                   /\ p # Root => Server(p) \in net.serve /\ <<Server(p), m>> \in net.reshare
             /\ own \subseteq {<<>>} /\ (own # {} => Shown(p))
             /\ calls'[p] \in Call /\ calls'[p].ran = TRUE /\ calls'[p].pend = own
             /\ calls'[p].status = calls[p].status /\ calls'[p].ttl = calls[p].ttl
             /\ calls'[p].count = calls[p].count
             /\ \A q \in DOMAIN calls \ {p} : calls'[q] = calls[q]
<1> DEFINE own == IF Shown(p) THEN {<<>>} ELSE {}
<1>1. calls[p].status = "open" /\ ~calls[p].ran
  BY DEF RunSearch
<1>2. PICK T :
          /\ T \in IF calls[p].ttl = 0 THEN {{}} ELSE Taken(Server(p), MayAsk(p))
          /\ LET asked == Forward(p, T)
                 here == [calls EXCEPT ![p].ran = TRUE,
                                       ![p].pend = IF Shown(p) THEN {<<>>} ELSE {}]
             IN  calls' = [q \in DOMAIN calls \cup DOMAIN asked |->
                              IF q \in DOMAIN asked THEN asked[q] ELSE here[q]]
  BY DEF RunSearch
<1>3. /\ DOMAIN calls' = DOMAIN calls \cup {Append(p, m) : m \in T}
      /\ \A m \in T : /\ Append(p, m) \notin DOMAIN calls
                     /\ calls'[Append(p, m)] = Asked(calls[p].ttl - 1)
      /\ calls'[p] = [calls[p] EXCEPT !.ran = TRUE, !.pend = own]
      /\ \A q \in DOMAIN calls \ {p} : calls'[q] = calls[q]
  BY <1>1, <1>2, CallsOfRun
<1>4. ASSUME NEW m \in T
      PROVE  /\ m \in Nodes /\ calls[p].ttl - 1 \in 0..MaxTtl
             /\ <<Server(p), m>> \in net.peers
             /\ p # Root => Server(p) \in net.serve /\ <<Server(p), m>> \in net.reshare
  BY <1>2, Forwards
<1>5. own \subseteq {<<>>} /\ own \in SUBSET Seq(Nodes) /\ (own # {} => Shown(p))
  OBVIOUS
<1>6. calls[p] \in Call
  BY NetType DEF IInv
<1> HIDE DEF own
<1>7. /\ calls'[p] \in Call /\ calls'[p].ran = TRUE /\ calls'[p].pend = own
      /\ calls'[p].status = calls[p].status /\ calls'[p].ttl = calls[p].ttl
      /\ calls'[p].count = calls[p].count
  <2>1. [calls[p] EXCEPT !.ran = TRUE, !.pend = own] \in Call
    BY <1>5, <1>6, RanCall
  <2>2. calls'[p].ran = TRUE /\ calls'[p].pend = own
    BY <1>3, <1>6 DEF Call
  <2>3. /\ calls'[p].status = calls[p].status /\ calls'[p].ttl = calls[p].ttl
        /\ calls'[p].count = calls[p].count
    BY <1>3, <1>6 DEF Call
  <2> QED BY <1>3, <2>1, <2>2, <2>3
<1> QED BY <1>3, <1>4, <1>5, <1>7

LEMMA RunSearchKeeps ==
    ASSUME IInv, NEW p \in DOMAIN calls, RunSearch(p)
    PROVE  IInv'
<1>1. PICK T, own :
          /\ DOMAIN calls' = DOMAIN calls \cup {Append(p, m) : m \in T}
          /\ \A m \in T :
                /\ m \in Nodes /\ Append(p, m) \notin DOMAIN calls
                /\ calls'[Append(p, m)] = Asked(calls[p].ttl - 1)
                /\ calls[p].ttl - 1 \in 0..MaxTtl
                /\ <<Server(p), m>> \in net.peers
                /\ p # Root => Server(p) \in net.serve /\ <<Server(p), m>> \in net.reshare
          /\ own \subseteq {<<>>} /\ (own # {} => Shown(p))
          /\ calls'[p] \in Call /\ calls'[p].ran = TRUE /\ calls'[p].pend = own
          /\ calls'[p].status = calls[p].status /\ calls'[p].ttl = calls[p].ttl
          /\ calls'[p].count = calls[p].count
          /\ \A q \in DOMAIN calls \ {p} : calls'[q] = calls[q]
  BY RunFacts
<1> DEFINE New == {Append(p, m) : m \in T}
<1>2. /\ TypeInv /\ p \in Seq(Nodes) /\ Len(p) >= 1 /\ Len(p) \in Nat
      /\ Root \in DOMAIN calls
  BY NetType DEF IInv
<1>3. /\ calls[p].status = "open"
      /\ UNCHANGED <<net, seen, handles, results, failures, hung, restarted>>
  BY DEF RunSearch
<1>4. ASSUME NEW q \in New
      PROVE  \E m \in T : q = Append(p, m) /\ m \in Nodes
  BY <1>1
<1>5. ASSUME NEW q \in New
      PROVE  /\ q \in Seq(Nodes) /\ Len(q) = Len(p) + 1 /\ q # Root
             /\ \A i \in 1..Len(p) : q[i] = p[i]
             /\ Parent(q) = p
  <2>1. PICK m \in T : q = Append(p, m) /\ m \in Nodes
    BY <1>4
  <2>2. p \in Seq(Nodes) /\ Len(p) >= 1
    BY <1>2
  <2> QED BY <2>1, <2>2, Appended
<1>6. ASSUME NEW q \in New
      PROVE  /\ <<Server(p), q[Len(p) + 1]>> \in net.peers
             /\ p # Root => /\ Server(p) \in net.serve
                            /\ <<Server(p), q[Len(p) + 1]>> \in net.reshare
  <2>1. PICK m \in T : q = Append(p, m) /\ m \in Nodes
    BY <1>4
  <2>2. q[Len(p) + 1] = m
    BY <1>2, <2>1, Appended
  <2> QED BY <1>1, <2>1, <2>2
<1>7. ASSUME NEW q \in New
      PROVE  /\ calls'[q] \in Call /\ calls'[q].status = "sent"
             /\ calls'[q].ttl = calls[p].ttl - 1
             /\ calls'[q].ran = FALSE /\ calls'[q].pend = {} /\ calls'[q].count = 0
  <2>1. calls'[q] = Asked(calls[p].ttl - 1) /\ calls[p].ttl - 1 \in 0..MaxTtl
    BY <1>1
  <2> QED BY <2>1, AskedCall
<1>8. DOMAIN calls' = DOMAIN calls \cup New
  BY <1>1
<1> HIDE DEF New
<1>9. TypeInv'
  <2>1. ASSUME NEW q \in DOMAIN calls
        PROVE  /\ calls'[q] \in Call /\ Len(q) >= 1 /\ q[1] = User
               /\ Len(q) + calls'[q].ttl <= MaxTtl + 1 /\ calls'[q].count <= net'.cap[Server(q)]
    <3>1. /\ calls[q] \in Call /\ Len(q) >= 1 /\ q[1] = User
          /\ Len(q) + calls[q].ttl <= MaxTtl + 1 /\ calls[q].count <= net.cap[Server(q)]
      BY <1>2 DEF TypeInv
    <3>2. CASE q = p
      BY <1>1, <1>3, <3>1, <3>2
    <3>3. CASE q # p
      BY <1>1, <1>3, <3>1, <3>3
    <3> QED BY <3>2, <3>3
  <2>2. ASSUME NEW q \in New
        PROVE  /\ calls'[q] \in Call /\ Len(q) >= 1 /\ q[1] = User
               /\ Len(q) + calls'[q].ttl <= MaxTtl + 1 /\ calls'[q].count <= net'.cap[Server(q)]
    <3>1. /\ p[1] = User /\ Len(p) + calls[p].ttl <= MaxTtl + 1 /\ calls[p].ttl \in 0..MaxTtl
          /\ MaxTtl \in Nat
      BY <1>2, SearchAssumption DEF TypeInv, Call
    <3>2. q[1] = User /\ Len(q) = Len(p) + 1
      BY <1>2, <1>5, <3>1
    <3>3. /\ calls'[q] \in Call /\ calls'[q].ttl = calls[p].ttl - 1 /\ calls'[q].count = 0
          /\ net'.cap[Server(q)] \in Nat
      <4>1. Server(q) \in Nodes /\ net \in Network
        BY <1>2, <1>5, Ends, NetType
      <4> QED BY <1>3, <1>7, <4>1, LimitTypes
    <3>4. Len(p) + 1 + (calls[p].ttl - 1) <= MaxTtl + 1 /\ Len(p) + 1 >= 1 /\ 0 <= net'.cap[Server(q)]
      BY <1>2, <3>1, <3>3
    <3> QED BY <3>2, <3>3, <3>4
  <2>3. DOMAIN calls' \in SUBSET Seq(Nodes) /\ Root \in DOMAIN calls'
    BY <1>2, <1>5, <1>8 DEF TypeInv
  <2> QED BY <1>2, <1>3, <1>8, <2>1, <2>2, <2>3 DEF TypeInv, Root
<1>10. RoutesAgree'
  <2>1. ASSUME NEW q \in DOMAIN calls
        PROVE  Agreed(q) /\ Granted(q, Len(q) - 1) /\ (Opened(calls'[q]) => Granted(q, Len(q)))
    <3>1. Opened(calls'[q]) => Opened(calls[q])
      BY <1>1, <1>3 DEF Opened
    <3> QED BY <3>1 DEF IInv, RoutesAgree
  <2>2. ASSUME NEW q \in New
        PROVE  Agreed(q) /\ Granted(q, Len(q) - 1) /\ ~Opened(calls'[q])
    <3>1. Agreed(p) /\ Granted(p, Len(p))
      BY <1>3 DEF IInv, RoutesAgree, Opened
    <3>2. Len(q) - 1 = Len(p) /\ \A i \in 1..Len(p) : q[i] = p[i]
      BY <1>2, <1>5
    <3>3. Server(p) = p[Len(p)]
      BY DEF Server, Last
    <3>4. ASSUME NEW i \in 1..Len(p)
          PROVE  /\ <<q[i], q[i + 1]>> \in net.peers
                 /\ i > 1 => q[i] \in net.serve /\ <<q[i], q[i + 1]>> \in net.reshare
      <4>1. CASE i = Len(p)
        <5>1. i > 1 => p # Root
          <6>1. p = Root => i = 1
            BY <4>1, RootIsARoute
          <6> QED BY <6>1
        <5>2. q[i] = Server(p)
          BY <1>2, <3>2, <3>3, <4>1
        <5>3. i + 1 = Len(p) + 1
          BY <4>1
        <5> QED BY <1>6, <5>1, <5>2, <5>3
      <4>2. CASE i # Len(p)
        <5>1. i \in 1..Len(p) - 1 /\ i + 1 \in 1..Len(p)
          BY <1>2, <4>2
        <5>2. q[i] = p[i] /\ q[i + 1] = p[i + 1]
          BY <3>2, <5>1
        <5> QED BY <3>1, <5>1, <5>2 DEF Agreed
      <4> QED BY <4>1, <4>2
    <3>5. Agreed(q)
      BY <3>2, <3>4 DEF Agreed
    <3>6. Granted(q, Len(q) - 1)
      <4>1. ASSUME NEW i \in 1..Len(p) - 1
            PROVE  <<q[i + 1], q[i]>> \in net.grants
        <5>1. q[i] = p[i] /\ q[i + 1] = p[i + 1]
          BY <1>2, <3>2
        <5> QED BY <3>1, <5>1 DEF Granted
      <4> QED BY <3>2, <4>1 DEF Granted
    <3>7. ~Opened(calls'[q])
      BY <1>7 DEF Opened
    <3> QED BY <3>5, <3>6, <3>7
  <2> QED BY <1>3, <1>8, <2>1, <2>2 DEF RoutesAgree, Agreed, Granted, Opened
<1>11. Chain'
  <2>1. calls'[Root].status # "sent"
    BY <1>1, <1>2 DEF IInv, Chain
  <2>2. ASSUME NEW q \in DOMAIN calls \ {Root}
        PROVE  Len(q) > 1 /\ Parent(q) \in DOMAIN calls' /\ calls'[Parent(q)].ran
    <3>1. Len(q) > 1 /\ Parent(q) \in DOMAIN calls /\ calls[Parent(q)].ran
      BY DEF IInv, Chain
    <3> QED BY <1>1, <1>8, <3>1
  <2>3. ASSUME NEW q \in New
        PROVE  Len(q) > 1 /\ Parent(q) \in DOMAIN calls' /\ calls'[Parent(q)].ran
    BY <1>1, <1>2, <1>5, <1>8
  <2> QED BY <1>8, <2>1, <2>2, <2>3 DEF Chain, Root, Parent
<1>12. HitsAreFound'
  <2>1. \A r : Found(r) => Found(r)'
    BY <1>1, <1>3 DEF Found, Last, Root
  <2>2. \A h : Kept(h) => Kept(h)'
    BY <1>3 DEF Kept
  <2>3. ASSUME NEW q \in DOMAIN calls \ {p}, NEW h \in calls'[q].pend
        PROVE  Found(q \o h)' /\ Kept(h)' /\ calls'[q].status = "open"
    <3>1. calls'[q] = calls[q]
      BY <1>1
    <3>2. Found(q \o h) /\ Kept(h) /\ calls[q].status = "open"
      BY <3>1 DEF IInv, HitsAreFound
    <3> QED BY <2>1, <2>2, <3>1, <3>2
  <2>4. ASSUME NEW h \in calls'[p].pend
        PROVE  Found(p \o h)' /\ Kept(h)' /\ calls'[p].status = "open"
    <3>1. h = <<>> /\ Shown(p)
      BY <1>1
    <3>2. p \o h = p
      BY <1>2, <3>1, ConcatEmptySeq
    <3>3. p # Root => <<Last(p), p[Len(p) - 1]>> \in net.shows
      <4>1. SUFFICES ASSUME p # Root
                     PROVE  <<Last(p), p[Len(p) - 1]>> \in net.shows
        OBVIOUS
      <4>2. Len(p) > 1
        BY <4>1 DEF IInv, Chain
      <4>3. /\ Len(Parent(p)) = Len(p) - 1 /\ \A i \in 1..Len(p) - 1 : Parent(p)[i] = p[i]
        BY <1>2, <4>2, Ends
      <4>4. Server(Parent(p)) = p[Len(p) - 1]
        BY <1>2, <4>2, <4>3 DEF Server, Last
      <4> QED BY <3>1, <4>1, <4>4 DEF Shown, Server
    <3>4. Found(p)'
      BY <1>1, <1>3, <1>8, <3>3 DEF Found, Last, Root
    <3>5. Kept(h)'
      BY <3>1 DEF Kept
    <3> QED BY <1>1, <1>3, <3>2, <3>4, <3>5
  <2>5. \A h \in results' : Found(Root \o h)' /\ Kept(h)'
    BY <1>3, <2>1, <2>2 DEF IInv, HitsAreFound
  <2>6. Root' = Root
    BY DEF Root
  <2> QED BY <1>7, <1>8, <2>3, <2>4, <2>5, <2>6 DEF HitsAreFound
<1>13. OneCopy'
  <2>1. \A q \in New : ~Opened(calls'[q])
    BY <1>7 DEF Opened
  <2>2. \A q \in DOMAIN calls : Opened(calls'[q]) => Opened(calls[q])
    BY <1>1, <1>3 DEF Opened
  <2> QED BY <1>3, <1>8, <2>1, <2>2 DEF IInv, OneCopy, Opened, Server, Last
<1> QED BY <1>9, <1>10, <1>11, <1>12, <1>13 DEF IInv

-----------------------------------------------------------------------------
(* A hit goes one hop back.                                                *)

\* The handle minted for h is kept where h was, and at the node that minted it.
LEMMA MintedKept ==
    ASSUME NEW n \in Nodes, NEW h \in Seq(Nodes), Kept(h), restarted \subseteq restarted',
           \A m \in Nodes : handles[m] \subseteq handles'[m] \/ m \in restarted',
           Minted(n, h) \in handles'[n]
    PROVE  Kept(Minted(n, h))'
<1> DEFINE g == Minted(n, h)
<1>1. /\ <<n>> \in Seq(Nodes) /\ Len(<<n>>) = 1 /\ Len(h) \in Nat
      /\ g = <<n>> \o h /\ g \in Seq(Nodes) /\ Len(g) = Len(h) + 1
      /\ g[1] = n /\ \A i \in 2..Len(g) : g[i] = h[i - 1]
  BY DEF Minted
<1>2. Kept(h)'
  BY KeptGrows
<1> HIDE DEF g
<1>3. ASSUME NEW i \in 1..Len(g)
      PROVE  SubSeq(g, i, Len(g)) \in handles'[g[i]] \/ g[i] \in restarted'
  <2>1. CASE i = 1
    <3>1. SubSeq(g, 1, Len(g)) = g
      BY <1>1, SubSeqFull
    <3> QED BY <1>1, <2>1, <3>1 DEF g
  <2>2. CASE i # 1
    <3>1. i \in 2..Len(g) /\ i - 1 \in 1..Len(h)
      BY <1>1, <2>2
    <3>2. SubSeq(<<n>> \o h, i, Len(g)) = SubSeq(h, i - 1, Len(g) - 1)
      <4>1. /\ i \in Len(<<n>>) + 1..Len(<<n>>) + Len(h)
            /\ Len(g) \in Len(<<n>>) + 1..Len(<<n>>) + Len(h)
        BY <1>1, <3>1
      <4>2. \A s \in Seq(Nodes) :
               \A a, b \in Len(s) + 1..Len(s) + Len(h) :
                  SubSeq(s \o h, a, b) = SubSeq(h, a - Len(s), b - Len(s))
        BY SubSeqOfConcat2
      <4>3. SubSeq(<<n>> \o h, i, Len(g)) = SubSeq(h, i - Len(<<n>>), Len(g) - Len(<<n>>))
        BY <1>1, <4>1, <4>2, Zenon
      <4>4. i - Len(<<n>>) = i - 1 /\ Len(g) - Len(<<n>>) = Len(g) - 1
        BY <1>1
      <4> QED BY <4>3, <4>4, Zenon
    <3>3. SubSeq(g, i, Len(g)) = SubSeq(h, i - 1, Len(h))
      <4>1. Len(g) - 1 = Len(h)
        BY <1>1
      <4>2. g = <<n>> \o h
        BY <1>1
      <4> QED BY <3>2, <4>1, <4>2, Zenon
    <3>4. g[i] = h[i - 1]
      BY <1>1, <3>1
    <3> QED BY <1>2, <3>1, <3>3, <3>4 DEF Kept
  <2> QED BY <2>1, <2>2
<1>4. Kept(g)'
  BY <1>3 DEF Kept, g, Minted
<1> QED BY <1>4 DEF g

LEMMA GivenCall ==
    ASSUME NEW x \in Call, NEW g \in Seq(Nodes)
    PROVE  LET d == [x EXCEPT !.pend = @ \cup {g}]
           IN  /\ d \in Call /\ d.status = x.status /\ d.ttl = x.ttl /\ d.ran = x.ran
               /\ d.pend = x.pend \cup {g} /\ d.count = x.count
<1>1. x.pend \cup {g} \in SUBSET Seq(Nodes)
  BY DEF Call
<1>2. \A S \in SUBSET Seq(Nodes) : [x EXCEPT !.pend = S] \in Call
  BY DEF Call
<1> QED BY <1>1, <1>2 DEF Call

LEMMA DeliverKeeps ==
    ASSUME IInv, NEW p \in DOMAIN calls \ {Root}, NEW h \in calls[p].pend,
           calls[p].count < net.cap[Server(p)], calls[p].status = "open",
           calls[Parent(p)].status = "open",
           handles' = [handles EXCEPT ![Server(p)] = @ \cup {Minted(Server(p), h)}],
           calls' = [calls EXCEPT ![p].pend = @ \ {h}, ![p].count = @ + 1,
                                  ![Parent(p)].pend = @ \cup {Minted(Server(p), h)}],
           UNCHANGED <<net, seen, results, failures, hung, restarted>>
    PROVE  IInv'
<1> DEFINE n == Server(p)
           up == Parent(p)
           g == Minted(n, h)
           d == [calls[p] EXCEPT !.pend = @ \ {h}, !.count = @ + 1]
           e == [calls[up] EXCEPT !.pend = @ \cup {g}]
<1>1. /\ p \in Seq(Nodes) /\ Len(p) > 1 /\ up \in DOMAIN calls /\ h \in Seq(Nodes)
      /\ n \in Nodes /\ Len(up) = Len(p) - 1
  <2>1. p \in Seq(Nodes) /\ Len(p) > 1 /\ up \in DOMAIN calls /\ calls[p] \in Call
    BY NetType DEF IInv, Chain
  <2>2. h \in Seq(Nodes)
    BY <2>1, CallType
  <2> QED BY <2>1, <2>2, Ends
<1>2. up # p
  BY <1>1
<1>3. g \in Seq(Nodes) /\ up \o g = p \o h
  BY <1>1, Handed
<1>4. Lesser(p, d)
  BY Passed
<1>5. calls[up] \in Call
  BY <1>1, NetType DEF IInv
<1>6. /\ e \in Call /\ e.status = calls[up].status /\ e.ttl = calls[up].ttl
      /\ e.ran = calls[up].ran /\ e.pend = calls[up].pend \cup {g} /\ e.count = calls[up].count
  BY <1>3, <1>5, GivenCall
<1>7. /\ DOMAIN calls' = DOMAIN calls /\ calls'[p] = d /\ calls'[up] = e
      /\ \A q \in DOMAIN calls \ {p, up} : calls'[q] = calls[q]
  BY <1>1, <1>2
<1>8. /\ handles' \in [Nodes -> SUBSET Seq(Nodes)] /\ g \in handles'[n]
      /\ \A m \in Nodes : handles[m] \subseteq handles'[m]
  BY <1>1, <1>3, Tables DEF IInv
<1> HIDE DEF d, e
<1>9. /\ net' = net /\ seen' = seen /\ results' = results /\ failures' = failures
      /\ hung' = hung /\ restarted' = restarted
  OBVIOUS
<1>10. \A q \in DOMAIN calls \ {up} : Lesser(q, calls'[q])
  BY <1>4, <1>7, Lessened
<1>11. /\ calls'[up] \in Call /\ calls'[up].status = calls[up].status
       /\ calls'[up].ttl = calls[up].ttl /\ calls'[up].ran = calls[up].ran
       /\ calls'[up].count = calls[up].count /\ calls'[up].pend = calls[up].pend \cup {g}
  BY <1>6, <1>7
<1>12. \A q \in DOMAIN calls : Opened(calls'[q]) => Opened(calls[q])
  <2>1. \A q \in DOMAIN calls \ {up} : Opened(calls'[q]) => Opened(calls[q])
    BY <1>10 DEF Lesser, Opened
  <2> QED BY <1>11, <2>1 DEF Opened
<1>13. \A q \in DOMAIN calls : calls'[q].ran = calls[q].ran
  <2>1. \A q \in DOMAIN calls \ {up} : calls'[q].ran = calls[q].ran
    BY <1>10 DEF Lesser
  <2> QED BY <1>11, <2>1
<1>14. g \in handles'[n]
  BY <1>8
<1> HIDE DEF n, up, g
<1>15. TypeInv'
  <2>1. ASSUME NEW q \in DOMAIN calls
        PROVE  /\ calls'[q] \in Call /\ Len(q) >= 1 /\ q[1] = User
               /\ Len(q) + calls'[q].ttl <= MaxTtl + 1 /\ calls'[q].count <= net'.cap[Server(q)]
    <3>1. CASE q = up
      BY <1>1, <1>9, <1>11, <3>1 DEF IInv, TypeInv
    <3>2. CASE q # up
      BY <1>9, <1>10, <3>2 DEF IInv, TypeInv, Lesser
    <3> QED BY <3>1, <3>2
  <2> QED BY <1>7, <1>8, <1>9, <2>1 DEF IInv, TypeInv, Root
<1>16. RoutesAgree'
  BY <1>7, <1>9, <1>12 DEF IInv, RoutesAgree, Agreed, Granted, Opened
<1>17. Chain'
  <2>1. Root \in DOMAIN calls /\ calls[Root].status # "sent"
    BY DEF IInv, TypeInv, Chain
  <2>2. calls'[Root].status # "sent"
    BY <1>10, <1>11, <2>1 DEF Lesser
  <2> QED BY <1>7, <1>13, <2>2 DEF IInv, Chain, Root, Parent
<1>18. HitsAreFound'
  <2>1. \A r : Found(r) => Found(r)'
    BY <1>7, <1>9, <1>13 DEF Found, Last, Root
  <2>2. \A k \in Seq(Nodes) : Kept(k) => Kept(k)'
    BY <1>8, <1>9, KeptGrows
  <2>3. ASSUME NEW q \in DOMAIN calls, NEW k \in calls[q].pend
        PROVE  Found(q \o k)' /\ Kept(k)' /\ calls[q].status = "open"
    <3>1. calls[q] \in Call
      BY NetType DEF IInv
    <3>2. k \in Seq(Nodes)
      BY <3>1, CallType
    <3> QED BY <2>1, <2>2, <3>2 DEF IInv, HitsAreFound
  <2>4. Found(up \o g)' /\ Kept(g)'
    <3>1. Found(p \o h)' /\ Kept(h)
      BY <2>3 DEF IInv, HitsAreFound
    <3>2. \A m \in Nodes : handles[m] \subseteq handles'[m] \/ m \in restarted'
      BY <1>8
    <3>3. Kept(Minted(n, h))'
      BY <1>1, <1>9, <1>14, <3>1, <3>2, MintedKept DEF g
    <3>4. Found(up \o g)'
      BY <1>3, <3>1 DEF Found, up, g, n, Parent, Server, Minted
    <3> QED BY <3>3, <3>4 DEF g, n, Minted, Server, Last
  <2>5. ASSUME NEW q \in DOMAIN calls, NEW k \in calls'[q].pend
        PROVE  Found(q \o k)' /\ Kept(k)' /\ calls'[q].status = "open"
    <3>1. CASE q = up /\ k = g
      BY <1>11, <2>4, <3>1 DEF up
    <3>2. CASE q = up /\ k # g
      BY <1>11, <2>3, <3>2
    <3>3. CASE q # up
      <4>1. k \in calls[q].pend /\ calls'[q].status = "open"
        BY <1>10, <3>3 DEF Lesser
      <4> QED BY <2>3, <4>1
    <3> QED BY <3>1, <3>2, <3>3
  <2>6. \A k \in results' : Found(Root \o k)' /\ Kept(k)'
    <3>1. results \in SUBSET Seq(Nodes)
      BY DEF IInv, TypeInv
    <3> QED BY <1>9, <2>1, <2>2, <3>1 DEF IInv, HitsAreFound
  <2>7. Root' = Root
    BY DEF Root
  <2> QED BY <1>7, <2>5, <2>6, <2>7 DEF HitsAreFound
<1>19. OneCopy'
  BY <1>7, <1>9, <1>12 DEF IInv, OneCopy, Opened, Server, Last
<1> QED BY <1>15, <1>16, <1>17, <1>18, <1>19 DEF IInv

LEMMA RelayKeeps ==
    ASSUME IInv, NEW p \in DOMAIN calls, Relay(p)
    PROVE  IInv'
<1>1. p # Root /\ calls[p].status = "open" /\ calls[p].count \in Nat
      /\ net.cap[Server(p)] \in Nat
  BY NetType, CallType DEF Relay, IInv
<1>2. UNCHANGED <<net, seen, results, failures, hung, restarted>>
  BY DEF Relay
<1>3. PICK h \in calls[p].pend :
         \/ /\ calls[p].count < net.cap[Server(p)]
            /\ handles' = [handles EXCEPT ![Server(p)] = @ \cup {Minted(Server(p), h)}]
            /\ \/ /\ calls[p].reading /\ calls[Parent(p)].status = "open"
                  /\ calls' = [calls EXCEPT ![p].pend = @ \ {h}, ![p].count = @ + 1,
                                   ![Parent(p)].pend = @ \cup {Minted(Server(p), h)}]
               \/ /\ ~calls[p].reading \/ calls[Parent(p)].status = "closed"
                  /\ \/ calls' = [calls EXCEPT ![p].pend = @ \ {h}, ![p].count = @ + 1]
                     \/ calls' = [calls EXCEPT ![p] = Over(@)]
         \/ /\ calls[p].count >= net.cap[Server(p)]
            /\ calls' = [calls EXCEPT ![p] = Over(@)]
            /\ UNCHANGED handles
  BY DEF Relay
<1>4. /\ seen' \in SUBSET Nodes /\ failures' \in 0..Failures /\ hung' \in SUBSET Nodes
      /\ restarted' \in SUBSET Nodes
  BY <1>2, Tables DEF IInv
<1>5. CASE calls[p].count >= net.cap[Server(p)]
  <2>1. calls' = [calls EXCEPT ![p] = Over(calls[p])] /\ handles' = handles
    BY <1>1, <1>3, <1>5
  <2> QED BY <1>2, <1>4, <2>1, Lessened, CalmCall
<1>6. CASE /\ calls[p].count < net.cap[Server(p)]
           /\ calls[p].reading /\ calls[Parent(p)].status = "open"
           /\ handles' = [handles EXCEPT ![Server(p)] = @ \cup {Minted(Server(p), h)}]
           /\ calls' = [calls EXCEPT ![p].pend = @ \ {h}, ![p].count = @ + 1,
                                     ![Parent(p)].pend = @ \cup {Minted(Server(p), h)}]
  BY <1>1, <1>2, <1>6, DeliverKeeps
<1>7. CASE /\ calls[p].count < net.cap[Server(p)]
           /\ handles' = [handles EXCEPT ![Server(p)] = @ \cup {Minted(Server(p), h)}]
           /\ \/ calls' = [calls EXCEPT ![p].pend = @ \ {h}, ![p].count = @ + 1]
              \/ calls' = [calls EXCEPT ![p] = Over(@)]
  <2>1. PICK x : Lesser(p, x) /\ calls' = [calls EXCEPT ![p] = x]
    <3>1. CASE calls' = [calls EXCEPT ![p].pend = @ \ {h}, ![p].count = @ + 1]
      <4> DEFINE d == [calls[p] EXCEPT !.pend = @ \ {h}, !.count = @ + 1]
      <4>1. calls' = [calls EXCEPT ![p] = d]
        BY <3>1
      <4>2. Lesser(p, d)
        BY <1>1, <1>7, Passed
      <4> QED BY <4>1, <4>2
    <3>2. CASE calls' = [calls EXCEPT ![p] = Over(@)]
      BY <3>2, Lessened
    <3> QED BY <1>7, <3>1, <3>2
  <2>2. /\ DOMAIN calls' = DOMAIN calls
        /\ \A q \in DOMAIN calls : Lesser(q, calls'[q])
    BY <2>1, OneLesser
  <2>3. /\ p \in Seq(Nodes) /\ Len(p) > 1 /\ h \in Seq(Nodes)
    <3>1. p \in Seq(Nodes) /\ Len(p) > 1 /\ calls[p] \in Call
      BY <1>1, NetType DEF IInv, Chain
    <3> QED BY <3>1, CallType
  <2>4. Minted(Server(p), h) \in Seq(Nodes)
    BY <2>3, Handed
  <2>5. /\ handles' \in [Nodes -> SUBSET Seq(Nodes)]
        /\ \A m \in Nodes : handles[m] \subseteq handles'[m]
    BY <1>7, <2>4, Tables DEF IInv
  <2> QED BY <1>2, <1>4, <2>2, <2>5, Calm
<1> QED BY <1>3, <1>5, <1>6, <1>7

-----------------------------------------------------------------------------
(* Every step keeps the invariant.                                         *)

\* The user's own call, with no more hops than the user's node allows.
LEMMA InitCall ==
    ASSUME Init
    PROVE  \E ttl \in 0..MaxTtl : calls = [q \in {Root} |-> [Asked(ttl) EXCEPT !.status = "open"]]
<1>1. net \in Network /\ User \in Nodes /\ MaxTtl \in Nat
  BY NetworksAssumption, SearchAssumption DEF Init
<1>2. net.maxTtl[User] \in 0..MaxTtl
  BY <1>1, LimitTypes
<1>3. 0..net.maxTtl[User] \subseteq 0..MaxTtl
  BY <1>1, <1>2
<1>4. \E ttl \in 0..net.maxTtl[User] :
         calls = [q \in {Root} |-> [Asked(ttl) EXCEPT !.status = "open"]]
  BY DEF Init
<1> QED BY <1>3, <1>4

LEMMA InitKeeps == Init => IInv
<1> SUFFICES ASSUME Init
             PROVE  IInv
  OBVIOUS
<1>1. PICK ttl \in 0..MaxTtl : calls = [q \in {Root} |-> [Asked(ttl) EXCEPT !.status = "open"]]
  BY InitCall
<1>2. /\ DOMAIN calls = {Root} /\ calls[Root] \in Call
      /\ calls[Root].status = "open" /\ calls[Root].ran = FALSE /\ calls[Root].pend = {}
      /\ calls[Root].ttl = ttl /\ calls[Root].count = 0
  <2>1. DOMAIN calls = {Root} /\ calls[Root] = [Asked(ttl) EXCEPT !.status = "open"]
    BY <1>1
  <2>2. Asked(ttl) \in Call /\ Asked(ttl).ttl = ttl /\ Asked(ttl).count = 0
        /\ Asked(ttl).ran = FALSE /\ Asked(ttl).pend = {}
    BY AskedCall
  <2> HIDE DEF Root
  <2> QED BY <2>1, <2>2, TakenUp
<1>3. /\ Root \in Seq(Nodes) /\ Len(Root) = 1 /\ Root[1] = User /\ Server(Root) = User
      /\ User \in Nodes /\ MaxTtl \in Nat /\ Failures \in Nat
  BY RootIsARoute, SearchAssumption
<1>4. net \in Networks /\ net \in Network /\ net.cap[User] \in Nat /\ ttl \in 0..MaxTtl
  <2>1. net \in Networks /\ net \in Network
    BY NetworksAssumption DEF Init
  <2>2. net.cap[User] \in Nat /\ net.maxTtl[User] \in 0..MaxTtl
    BY <1>3, <2>1, LimitTypes
  <2> QED BY <1>3, <2>1, <2>2
<1>5. TypeInv
  <2>1. /\ handles \in [Nodes -> SUBSET Seq(Nodes)] /\ results \in SUBSET Seq(Nodes)
        /\ seen \in SUBSET Nodes /\ failures \in 0..Failures
        /\ hung \in SUBSET Nodes /\ restarted \in SUBSET Nodes
    BY <1>3 DEF Init
  <2>2. Len(Root) + ttl <= MaxTtl + 1 /\ Len(Root) >= 1 /\ 0 <= net.cap[Server(Root)]
    BY <1>3, <1>4
  <2> HIDE DEF Root
  <2> QED BY <1>2, <1>3, <1>4, <2>1, <2>2 DEF TypeInv
<1>6. RoutesAgree
  <2>1. 1..Len(Root) - 1 = {} /\ 1..(Len(Root) - 1) - 1 = {}
    BY <1>3
  <2>2. Agreed(Root) /\ Granted(Root, Len(Root) - 1) /\ Granted(Root, Len(Root))
    BY <2>1 DEF Agreed, Granted
  <2> QED BY <1>2, <2>2 DEF RoutesAgree
<1>7. Chain
  BY <1>2 DEF Chain
<1>8. HitsAreFound
  BY <1>2 DEF HitsAreFound, Init
<1>9. OneCopy
  BY <1>2, <1>3 DEF OneCopy, Init
<1> QED BY <1>5, <1>6, <1>7, <1>8, <1>9 DEF IInv

LEMMA NextKeeps == IInv /\ [Next]_vars => IInv'
<1> SUFFICES ASSUME IInv, [Next]_vars
             PROVE  IInv'
  OBVIOUS
<1>1. ASSUME NEW p \in DOMAIN calls, Step(p)
      PROVE  IInv'
  BY <1>1, ReceiveKeeps, RunSearchKeeps, RelayKeeps, FinishKeeps DEF Step
<1>2. ASSUME NEW p \in DOMAIN calls, TimeOut(p)
      PROVE  IInv'
  BY <1>2, TimeOutKeeps
<1>3. CASE Show
  BY <1>3, ShowKeeps
<1>4. ASSUME NEW n \in Nodes, Hang(n) \/ Restart(n)
      PROVE  IInv'
  BY <1>4, HangKeeps, RestartKeeps
<1>5. CASE UNCHANGED vars
  <2>1. \A p \in DOMAIN calls : Lesser(p, calls'[p])
    BY <1>5, Lessened DEF vars
  <2>2. TypeInv
    BY DEF IInv
  <2>3. /\ seen' \in SUBSET Nodes /\ handles' \in [Nodes -> SUBSET Seq(Nodes)]
        /\ failures' \in 0..Failures /\ hung' \in SUBSET Nodes /\ restarted' \in SUBSET Nodes
    BY <1>5, <2>2, Tables DEF vars
  <2> QED BY <1>5, <2>1, <2>3, Calm DEF vars
<1> QED BY <1>1, <1>2, <1>3, <1>4, <1>5 DEF Next

THEOREM Invariant == Spec => []IInv
BY InitKeeps, NextKeeps, PTL DEF Spec

-----------------------------------------------------------------------------
(* What follows.                                                           *)

\* No call of the peer protocol goes further than the TTL the user's search
\* started with allows, and none passes on more hits than the result cap,
\* however run_search and forward_to_peer of the nodes interleave.
THEOREM TypeCorrect == Spec => []TypeOK
<1>1. IInv => TypeOK
  <2> SUFFICES ASSUME IInv
               PROVE  TypeOK
    OBVIOUS
  <2>1. net \in Network /\ \A p \in DOMAIN calls : net.cap[Server(p)] \in Nat
    BY NetType DEF IInv
  <2>2. ASSUME NEW p \in DOMAIN calls
        PROVE  /\ Len(p) \in 1..MaxTtl + 1
               /\ calls[p].status \in {"sent", "open", "closed"}
               /\ calls[p].ttl \in 0..MaxTtl
               /\ calls[p].count \in 0..net.cap[Server(p)]
    <3>1. /\ p \in Seq(Nodes) /\ calls[p] \in Call /\ Len(p) >= 1
          /\ Len(p) + calls[p].ttl <= MaxTtl + 1 /\ calls[p].count <= net.cap[Server(p)]
      BY DEF IInv, TypeInv
    <3>2. /\ calls[p].status \in {"sent", "open", "closed"} /\ calls[p].ttl \in 0..MaxTtl
          /\ calls[p].count \in Nat
      BY <3>1, CallType
    <3>3. Len(p) \in Nat /\ MaxTtl \in Nat
      BY <3>1, SearchAssumption
    <3> QED BY <2>1, <3>1, <3>2, <3>3
  <2> QED BY <2>1, <2>2 DEF IInv, TypeInv, TypeOK
<1> QED BY <1>1, Invariant, PTL

\* The route of a hit: from the user's node through the handle's.
LEMMA HitRoute ==
    ASSUME IInv, NEW h \in results
    PROVE  LET r == Root \o h
           IN  /\ h \in Seq(Nodes) /\ r \in Seq(Nodes) /\ Len(r) = Len(h) + 1
               /\ r[1] = User /\ \A i \in 1..Len(h) : r[i + 1] = h[i]
               /\ Server(r) = Origin(h)
               /\ r \in DOMAIN calls /\ Found(r) /\ Kept(h)
               /\ Agreed(r) /\ Granted(r, Len(r))
<1> DEFINE r == Root \o h
<1>1. h \in Seq(Nodes)
  BY DEF IInv, TypeInv
<1>2. /\ r \in Seq(Nodes) /\ Len(r) = Len(h) + 1 /\ Len(h) \in Nat
      /\ r[1] = User /\ \A i \in 1..Len(h) : r[i + 1] = h[i]
  <2>1. /\ Root \in Seq(Nodes) /\ Len(Root) = 1 /\ Root[1] = User
        /\ Len(h) \in Nat /\ 0 <= Len(h)
    BY <1>1, RootIsARoute
  <2>2. /\ r \in Seq(Nodes) /\ Len(r) = Len(Root) + Len(h)
        /\ \A i \in 1..Len(Root) + Len(h) :
              r[i] = IF i <= Len(Root) THEN Root[i] ELSE h[i - Len(Root)]
    BY <1>1, <2>1, ConcatProperties, Zenon
  <2> HIDE DEF r
  <2>3. \A i \in 1..Len(h) : i + 1 \in 1..Len(Root) + Len(h) /\ ~(i + 1 <= Len(Root))
    BY <2>1
  <2>4. \A i \in 1..Len(h) : i + 1 - Len(Root) = i
    BY <2>1
  <2> QED BY <2>1, <2>2, <2>3, <2>4
<1>3. Found(r) /\ Kept(h)
  BY DEF IInv, HitsAreFound
<1> HIDE DEF r
<1>4. Server(r) = Origin(h)
  <2>1. Server(r) = r[Len(h) + 1]
    BY <1>2 DEF Server, Last
  <2>2. CASE h = <<>>
    BY <1>2, <2>1, <2>2 DEF Origin
  <2>3. CASE h # <<>>
    <3>1. Len(h) \in 1..Len(h)
      BY <1>1, <2>3
    <3> QED BY <1>2, <2>1, <2>3, <3>1 DEF Origin, Last
  <2> QED BY <2>2, <2>3
<1>5. r \in DOMAIN calls /\ Opened(calls[r])
  BY <1>3 DEF Found, Opened
<1>6. Agreed(r) /\ Granted(r, Len(r))
  BY <1>5 DEF IInv, RoutesAgree
<1> QED BY <1>1, <1>2, <1>3, <1>4, <1>5, <1>6 DEF r

\* handle_stream lets in whoever has a grant, run_search asks only peers and
\* relays only what both its own configuration and the upstream's grant allow:
\* together they show the user a file only if every hop to its owner was allowed
\* and the owner's view shows the file to the node that asked for it.
THEOREM HitsPermitted == Spec => []HitsArePermitted
<1>1. IInv => HitsArePermitted
  <2> SUFFICES ASSUME IInv, NEW h \in results \ {<<>>}
               PROVE  /\ Permitted(Root \o h)
                      /\ <<Last(Root \o h), (Root \o h)[Len(Root \o h) - 1]>> \in net.shows
    BY DEF HitsArePermitted
  <2> DEFINE r == Root \o h
  <2>1. /\ h \in Seq(Nodes) /\ Len(r) = Len(h) + 1 /\ Found(r) /\ Agreed(r)
        /\ Granted(r, Len(r))
    BY HitRoute
  <2> HIDE DEF r
  <2>2. Permitted(r)
    BY <2>1 DEF Permitted, Agreed, Granted
  <2>3. r # Root
    BY <2>1, RootIsARoute
  <2>4. <<Last(r), r[Len(r) - 1]>> \in net.shows
    BY <2>1, <2>3 DEF Found
  <2> QED BY <2>2, <2>4 DEF r
<1> QED BY <1>1, Invariant, PTL

\* handle_search passes on no handle but its own, minted before the hit leaves
\* (Handles::mint): each node on the way has the next as a peer and resolves the
\* handle it gave out, unless it restarted, so the user can fetch what is shown.
THEOREM HitsCanBeFetched == Spec => []HitsResolve
<1>1. IInv => HitsResolve
  <2> SUFFICES ASSUME IInv, NEW h \in results, NEW i \in 1..Len(h)
               PROVE  /\ <<(Root \o h)[i], h[i]>> \in net.peers
                      /\ SubSeq(h, i, Len(h)) \in handles[h[i]] \/ h[i] \in restarted
    BY DEF HitsResolve
  <2> DEFINE r == Root \o h
  <2>1. /\ h \in Seq(Nodes) /\ Len(r) = Len(h) + 1 /\ r[i + 1] = h[i]
        /\ Agreed(r) /\ Kept(h)
    BY HitRoute
  <2> HIDE DEF r
  <2>2. i \in 1..Len(r) - 1
    BY <2>1
  <2>3. <<r[i], r[i + 1]>> \in net.peers
    BY <2>1, <2>2 DEF Agreed
  <2> QED BY <2>1, <2>3 DEF Kept, r
<1> QED BY <1>1, Invariant, PTL

\* SeenQueries::check_and_insert is the only way into a handler: without a
\* restart no node answers two copies of a query, so the user is never shown one
\* file twice nor the own file as a peer's, whatever cycles the grants form.
THEOREM NoneTwice == Spec => []NoDuplicateHits
<1>1. IInv => NoDuplicateHits
  <2> SUFFICES ASSUME IInv, restarted = {}, NEW h1 \in results, NEW h2 \in results,
                      Origin(h1) = Origin(h2)
               PROVE  h1 = h2
    BY DEF NoDuplicateHits
  <2> DEFINE r1 == Root \o h1
             r2 == Root \o h2
  <2>1. /\ h1 \in Seq(Nodes) /\ r1 \in DOMAIN calls /\ Found(r1) /\ Server(r1) = Origin(h1)
        /\ h2 \in Seq(Nodes) /\ r2 \in DOMAIN calls /\ Found(r2) /\ Server(r2) = Origin(h2)
    BY HitRoute
  <2>2. r1 = r2
    <3> HIDE DEF r1, r2
    <3> QED BY <2>1 DEF IInv, OneCopy, Found, Opened
  <2>3. \A s, t, v \in Seq(Nodes) : s \o t = s \o v => t = v
    BY ConcatSimplifications!cancelLeft
  <2>4. Root \in Seq(Nodes)
    BY RootIsARoute
  <2> QED BY <2>1, <2>2, <2>3, <2>4
<1> QED BY <1>1, Invariant, PTL

-----------------------------------------------------------------------------
(* A search that nothing disturbs.  Every copy of the query is answered or *)
(* dropped because its node has answered one; a call outlives the calls it *)
(* made; and the hit of every call that found its server's file is still   *)
(* waiting somewhere on the way back, or was shown.                        *)

\* A handler has the hops left that the limits on its route leave it; a call on its
\* way, or refused, has one less than the handler that made it.
Counted ==
    /\ \A p \in DOMAIN calls : \A t \in Nat :
          Opened(calls[p]) => (t <= calls[p].ttl <=> Spares(p, t))
    /\ \A p \in DOMAIN calls : ~Opened(calls[p]) =>
          p # Root /\ calls[p].ttl = calls[Parent(p)].ttl - 1

Attended ==
    /\ hung = {} /\ restarted = {}
    /\ \A p \in DOMAIN calls : calls[p].reading
    /\ \A p \in DOMAIN calls \ {Root} :
          calls[Parent(p)].status = "closed" => calls[p].status = "closed"

\* Only a call that is refused ends without having run.
Refused ==
    \A p \in DOMAIN calls : calls[p].status = "closed" /\ ~calls[p].ran =>
        /\ p # Root
        /\ <<Server(p), Server(Parent(p))>> \in net.grants => Server(p) \in seen

Answered == \A n \in seen : \E p \in DOMAIN calls : Opened(calls[p]) /\ Server(p) = n

\* A handler that ran asked every peer it may.
Spread ==
    \A p \in DOMAIN calls : calls[p].ran /\ calls[p].ttl > 0 =>
        \A m \in MayAsk(p) : Append(p, m) \in DOMAIN calls

Fresh ==
    \A p \in DOMAIN calls :
        /\ ~calls[p].ran => calls[p].pend = {}
        /\ calls[p].status = "sent" => ~calls[p].ran

\* The hit of the call r waits in a channel on r, or was shown to the user.
Held(r) ==
    \/ \E h \in results : Root \o h = r
    \/ \E q \in DOMAIN calls : \E h \in calls[q].pend : q \o h = r

Travels == \A r \in DOMAIN calls : Found(r) => Held(r)

Complete == Attended /\ Refused /\ Answered /\ Spread /\ Fresh /\ Travels

CInv == IInv /\ (Undisturbed => Counted /\ Complete)

\* The call c does not change but in its hits, their number, and that it may end.
Alike(c, d) ==
    /\ d.reading = c.reading /\ d.ran = c.ran /\ d.ttl = c.ttl /\ d.count >= c.count
    /\ Opened(d) <=> Opened(c)

\* A step in which the calls stay, none of them lost.
SameCalls ==
    /\ DOMAIN calls' = DOMAIN calls /\ net' = net
    /\ \A q \in DOMAIN calls : Alike(calls[q], calls'[q])

\* A disturbed search stays so.
LEMMA StaysUndisturbed ==
    ASSUME IInv, IInv', Undisturbed', net' = net, failures <= failures',
           DOMAIN calls \subseteq DOMAIN calls',
           \A q \in DOMAIN calls : calls'[q].count >= calls[q].count
    PROVE  Undisturbed
<1>1. failures \in Nat /\ failures' = 0
  BY Tables DEF IInv, Undisturbed
<1>2. \A p : MayAsk(p)' = MayAsk(p)
  BY DEF MayAsk, Root, Server, Last
<1>3. ASSUME NEW p \in DOMAIN calls
      PROVE  calls[p].count < net.cap[Server(p)] /\ Cardinality(MayAsk(p)) <= net.fanout[Server(p)]
  <2>1. calls'[p].count < net.cap[Server(p)] /\ Cardinality(MayAsk(p)) <= net.fanout[Server(p)]
    BY <1>2 DEF Undisturbed
  <2>2. calls[p].count \in Nat /\ calls'[p].count \in Nat /\ net.cap[Server(p)] \in Nat
    <3>1. calls[p] \in Call /\ net.cap[Server(p)] \in Nat
      BY NetType DEF IInv
    <3>2. calls'[p] \in Call
      BY DEF IInv, TypeInv
    <3> QED BY <3>1, <3>2, CallType
  <2> QED BY <2>1, <2>2
<1> QED BY <1>1, <1>3 DEF Undisturbed

\* The limits do not change.
LEMMA SparesStays ==
    ASSUME net' = net, calls'[Root].ttl = calls[Root].ttl, NEW p, NEW t
    PROVE  Spares(p, t)' <=> Spares(p, t)
BY DEF Spares, Limit, Root

LEMMA SameCallsKeep ==
    ASSUME IInv, Counted, SameCalls
    PROVE  /\ Counted'
           /\ Spread => Spread'
           /\ \A r : Found(r)' => Found(r)
<1>1. Root \in DOMAIN calls
  BY DEF IInv, TypeInv
<1>2. \A q \in DOMAIN calls : calls'[q].ran = calls[q].ran /\ calls'[q].ttl = calls[q].ttl
  BY DEF SameCalls, Alike
<1>3. Counted'
  <2>1. net' = net /\ DOMAIN calls' = DOMAIN calls
    BY DEF SameCalls
  <2>2. \A q \in DOMAIN calls : Opened(calls'[q]) <=> Opened(calls[q])
    BY DEF SameCalls, Alike
  <2>3. ASSUME NEW q \in DOMAIN calls, NEW t \in Nat, Opened(calls'[q])
        PROVE  t <= calls'[q].ttl <=> Spares(q, t)'
    <3>1. t <= calls[q].ttl <=> Spares(q, t)
      BY <2>2, <2>3 DEF Counted
    <3>2. Spares(q, t)' <=> Spares(q, t)
      BY <1>1, <1>2, <2>1, SparesStays
    <3> QED BY <1>2, <3>1, <3>2
  <2>4. ASSUME NEW q \in DOMAIN calls, ~Opened(calls'[q])
        PROVE  q # Root /\ calls'[q].ttl = calls'[Parent(q)].ttl - 1
    <3>1. q # Root /\ calls[q].ttl = calls[Parent(q)].ttl - 1
      BY <2>2, <2>4 DEF Counted
    <3>2. Parent(q) \in DOMAIN calls
      BY <3>1 DEF IInv, Chain
    <3> QED BY <1>2, <3>1, <3>2
  <2> QED BY <2>1, <2>3, <2>4 DEF Counted, Root, Parent, Opened
<1>4. Spread => Spread'
  BY <1>2 DEF Spread, SameCalls, MayAsk, Root, Server, Last
<1>5. \A r : Found(r)' => Found(r)
  BY <1>2 DEF Found, SameCalls, Last, Root
<1> QED BY <1>3, <1>4, <1>5

\* A call ends, because it was refused or has nothing left to do.
LEMMA ClosingKeeps ==
    ASSUME IInv, Counted, Complete, NEW p \in DOMAIN calls, calls[p].status # "closed",
           calls[p].pend = {},
           \A q \in DOMAIN calls \ {Root} : Parent(q) = p => calls[q].status = "closed",
           ~calls[p].ran => /\ p # Root
                            /\ <<Server(p), Server(Parent(p))>> \in net.grants
                                  => Server(p) \in seen,
           calls[p].status = "open" => calls[p].ran,
           calls' = [calls EXCEPT ![p] = Over(@)], UNCHANGED <<net, seen, results, hung, restarted>>
    PROVE  Counted' /\ Complete'
<1> DEFINE d == Over(calls[p])
<1>1. calls[p] \in Call /\ Root' = Root
  BY NetType DEF IInv, Root
<1>2. /\ d.status = "closed" /\ d.pend = {} /\ d.reading = calls[p].reading
      /\ d.ttl = calls[p].ttl /\ d.ran = calls[p].ran /\ d.count = calls[p].count
  BY <1>1, OverCall
<1>3. /\ DOMAIN calls' = DOMAIN calls /\ calls'[p] = d
      /\ \A q \in DOMAIN calls \ {p} : calls'[q] = calls[q]
  BY OneCall
<1> HIDE DEF d
<1>4. SameCalls
  <2>1. \A q \in DOMAIN calls : calls[q].count \in Nat
    BY NetType, CallType DEF IInv
  <2>2. Opened(d) <=> Opened(calls[p])
    BY <1>1, <1>2, CallType DEF Opened
  <2> QED BY <1>2, <1>3, <2>1, <2>2 DEF SameCalls, Alike
<1>5. /\ Counted' /\ Spread' /\ \A r : Found(r)' => Found(r)
  BY <1>4, SameCallsKeep DEF Complete
<1>6. Attended'
  <2>1. ASSUME NEW q \in DOMAIN calls \ {Root}, calls'[Parent(q)].status = "closed"
        PROVE  calls'[q].status = "closed"
    <3>1. CASE q = p
      BY <1>2, <1>3, <3>1
    <3>2. CASE q # p /\ Parent(q) = p
      BY <1>3, <3>2
    <3>3. CASE q # p /\ Parent(q) # p
      <4>1. Parent(q) \in DOMAIN calls
        BY DEF IInv, Chain
      <4> QED BY <1>3, <2>1, <3>3, <4>1 DEF Complete, Attended
    <3> QED BY <3>1, <3>2, <3>3
  <2>2. \A q \in DOMAIN calls : calls'[q].reading
    BY <1>2, <1>3 DEF Complete, Attended
  <2> QED BY <1>1, <1>3, <2>1, <2>2 DEF Complete, Attended, Parent
<1>7. Refused'
  BY <1>1, <1>2, <1>3 DEF Complete, Refused, Server, Parent, Last
<1>8. Answered'
  <2>1. ASSUME NEW q \in DOMAIN calls, Opened(calls[q])
        PROVE  Opened(calls'[q])
    BY <1>2, <1>3, <2>1 DEF Opened
  <2> QED BY <1>3, <2>1 DEF Complete, Answered, Server, Last, Opened
<1>9. Fresh'
  BY <1>2, <1>3 DEF Complete, Fresh
<1>10. Travels'
  <2>1. \A q \in DOMAIN calls : calls'[q].pend = calls[q].pend
    BY <1>2, <1>3
  <2>2. \A r : Held(r) => Held(r)'
    BY <1>1, <1>3, <2>1 DEF Held
  <2> QED BY <1>3, <1>5, <2>2 DEF Complete, Travels
<1> QED BY <1>5, <1>6, <1>7, <1>8, <1>9, <1>10 DEF Complete

\* One hop further there is one hop less to go, and one more limit.
LEMMA SparesOneMore ==
    ASSUME IInv, NEW p \in DOMAIN calls \ {Root}, NEW t \in Nat
    PROVE  Spares(p, t) <=> Spares(Parent(p), t + 1) /\ t <= net.maxTtl[Server(p)]
<1>1. /\ p \in Seq(Nodes) /\ Len(p) \in Nat /\ Len(p) > 1 /\ net \in Network
      /\ Server(p) \in Nodes
  BY NetType DEF IInv, Chain
<1>2. /\ Len(Parent(p)) = Len(p) - 1 /\ Server(p) = p[Len(p)]
      /\ \A j \in 1..Len(p) - 1 : Parent(p)[j] = p[j]
  BY <1>1, Ends
<1>3. PICK o : o = Parent(p)
  OBVIOUS
<1>4. Len(o) = Len(p) - 1 /\ \A j \in 1..Len(p) - 1 : o[j] = p[j]
  BY <1>2, <1>3
<1>5. \A j \in 1..Len(p) - 1 : Limit(o, j) = Limit(p, j)
  BY <1>4 DEF Limit
<1>6. Limit(p, Len(p)) = net.maxTtl[Server(p)]
  BY <1>1, <1>2 DEF Limit
<1>7. \A j \in 1..Len(p) - 1 : Len(o) - j + (t + 1) = Len(p) - j + t
  BY <1>1, <1>4
<1>8. Len(p) - Len(p) + t = t
  BY <1>1
<1>9. Spares(o, t + 1) <=> \A j \in 1..Len(p) - 1 : Len(p) - j + t <= Limit(p, j)
  BY <1>4, <1>5, <1>7 DEF Spares
<1>10. 1..Len(p) = (1..Len(p) - 1) \cup {Len(p)}
  BY <1>1
<1>11. Spares(p, t) <=>
          /\ \A j \in 1..Len(p) - 1 : Len(p) - j + t <= Limit(p, j)
          /\ Len(p) - Len(p) + t <= Limit(p, Len(p))
  BY <1>10 DEF Spares
<1> QED BY <1>3, <1>6, <1>8, <1>9, <1>11

LEMMA OpensCounted ==
    ASSUME IInv, Counted, Complete, NEW p \in DOMAIN calls \ {Root}, net' = net, net \in Network,
           DOMAIN calls' = DOMAIN calls, ~calls[p].ran, calls[p].status = "sent",
           Opened(calls'[p]), calls'[p].ttl = Capped(Server(p), calls[p].ttl),
           \A q \in DOMAIN calls \ {p} : calls'[q] = calls[q]
    PROVE  Counted'
<1> DEFINE o == Parent(p)
           n == Server(p)
<1>1. /\ o \in DOMAIN calls /\ calls[o].ran /\ Opened(calls[o]) /\ ~Opened(calls[p])
      /\ o # p /\ Root \in DOMAIN calls
  BY NetType DEF IInv, Chain, Opened
<1>2. /\ calls[p].ttl = calls[o].ttl - 1 /\ calls[p].ttl \in 0..MaxTtl /\ calls[o].ttl \in 0..MaxTtl
      /\ n \in Nodes
  <2>1. calls[p].ttl = calls[o].ttl - 1
    BY <1>1 DEF Counted
  <2>2. calls[p] \in Call /\ calls[o] \in Call /\ n \in Nodes
    BY <1>1, NetType DEF IInv
  <2> QED BY <2>1, <2>2, CallType
<1>3. calls'[Root].ttl = calls[Root].ttl
  BY <1>1
<1>4. ASSUME NEW t \in Nat
      PROVE  t <= calls'[p].ttl <=> Spares(p, t)'
  <2>1. t <= calls'[p].ttl <=> t <= calls[p].ttl /\ t <= net.maxTtl[n]
    BY <1>2, CappedTtl
  <2>2. t + 1 <= calls[o].ttl <=> Spares(o, t + 1)
    <3>1. t + 1 \in Nat
      OBVIOUS
    <3> QED BY <1>1, <3>1 DEF Counted
  <2>3. t <= calls[p].ttl <=> t + 1 <= calls[o].ttl
    BY <1>2
  <2>4. Spares(p, t) <=> Spares(o, t + 1) /\ t <= net.maxTtl[n]
    BY SparesOneMore
  <2>5. Spares(p, t)' <=> Spares(p, t)
    BY <1>3, SparesStays
  <2> QED BY <2>1, <2>2, <2>3, <2>4, <2>5
<1>5. ASSUME NEW q \in DOMAIN calls \ {p}, NEW t \in Nat, Opened(calls'[q])
      PROVE  t <= calls'[q].ttl <=> Spares(q, t)'
  <2>1. t <= calls[q].ttl <=> Spares(q, t)
    BY <1>5 DEF Counted
  <2>2. Spares(q, t)' <=> Spares(q, t)
    BY <1>3, SparesStays
  <2> QED BY <2>1, <2>2
<1>6. ASSUME NEW q \in DOMAIN calls, ~Opened(calls'[q])
      PROVE  q # Root /\ calls'[q].ttl = calls'[Parent(q)].ttl - 1
  <2>1. q # p /\ ~Opened(calls[q])
    BY <1>6
  <2>2. q # Root /\ calls[q].ttl = calls[Parent(q)].ttl - 1
    BY <2>1 DEF Counted
  <2>3. Parent(q) \in DOMAIN calls /\ calls[Parent(q)].ran
    BY <2>2 DEF IInv, Chain
  <2>4. Parent(q) # p
    BY <2>3
  <2> QED BY <2>1, <2>2, <2>3, <2>4
<1> HIDE DEF o, n
<1> QED BY <1>4, <1>5, <1>6 DEF Counted, Root, Parent, Opened

\* A call that hears nothing of its calls is over no sooner than they are.
LEMMA ReceivesAll ==
    ASSUME IInv, Counted, Complete, NEW p \in DOMAIN calls, Receive(p)
    PROVE  Counted' /\ Complete'
<1>1. /\ calls[p].status = "sent" /\ ~calls[p].ran /\ calls[p].pend = {} /\ calls[p].reading
      /\ p # Root /\ UNCHANGED <<net, handles, results, failures, hung, restarted>>
  BY DEF Receive, IInv, Chain, Complete, Fresh, Attended
<1>2. calls[Parent(p)].status # "closed"
  BY <1>1 DEF Complete, Attended
<1>3. \A q \in DOMAIN calls \ {Root} : Parent(q) # p
  BY <1>1 DEF IInv, Chain
<1>4. CASE /\ \/ <<Server(p), Server(Parent(p))>> \notin net.grants
              \/ Server(p) \in seen
           /\ calls' = [calls EXCEPT ![p] = Over(@)] /\ UNCHANGED seen
  <2>1. calls' = [calls EXCEPT ![p] = Over(@)] /\ UNCHANGED <<net, seen, results, hung, restarted>>
    BY <1>1, <1>4
  <2>2. <<Server(p), Server(Parent(p))>> \in net.grants => Server(p) \in seen
    BY <1>4
  <2> QED BY <1>1, <1>3, <2>1, <2>2, ClosingKeeps
<1>5. CASE /\ <<Server(p), Server(Parent(p))>> \in net.grants /\ Remember(Server(p))
           /\ calls' = [calls EXCEPT ![p].status = "open", ![p].ttl = Capped(Server(p), @)]
  <2> DEFINE d == [calls[p] EXCEPT !.status = "open", !.ttl = Capped(Server(p), @)]
  <2>1. /\ calls[p] \in Call /\ Root' = Root /\ seen' = seen \cup {Server(p)}
        /\ net' = net /\ net \in Network /\ Server(p) \in Nodes /\ Root \in DOMAIN calls
    BY <1>1, <1>5, NetType DEF IInv, Root, Remember
  <2>2. /\ d.status = "open" /\ d.pend = calls[p].pend /\ d.reading = calls[p].reading
        /\ d.ttl = Capped(Server(p), calls[p].ttl) /\ d.ran = calls[p].ran
        /\ d.count = calls[p].count
    BY <2>1, TakenUpBy
  <2>3. /\ DOMAIN calls' = DOMAIN calls /\ calls'[p] = d
        /\ \A q \in DOMAIN calls \ {p} : calls'[q] = calls[q]
    BY <1>5, OneCall
  <2> HIDE DEF d
  <2>4. Counted'
    <3>1. calls'[p].ttl = Capped(Server(p), calls[p].ttl) /\ Opened(calls'[p])
      BY <2>2, <2>3 DEF Opened
    <3>2. \A q \in DOMAIN calls \ {p} : calls'[q] = calls[q]
      BY <2>3
    <3> QED BY <1>1, <2>1, <2>3, <3>1, <3>2, OpensCounted
  <2>5. /\ Spread' /\ \A r : Found(r)' => Found(r)
    <3>1. \A q : MayAsk(q)' = MayAsk(q)
      BY <2>1 DEF MayAsk, Server, Last
    <3>2. ~calls'[p].ran
      BY <1>1, <2>2, <2>3
    <3>3. Spread'
      BY <2>3, <3>1, <3>2 DEF Complete, Spread
    <3>4. \A r : Found(r)' => Found(r)
      BY <2>1, <2>3, <3>2 DEF Found, Last
    <3> QED BY <3>3, <3>4
  <2>6. Attended'
    <3>1. ASSUME NEW q \in DOMAIN calls \ {Root}, calls'[Parent(q)].status = "closed"
          PROVE  calls'[q].status = "closed"
      <4>1. Parent(q) \in DOMAIN calls /\ Parent(q) # p
        BY <1>3 DEF IInv, Chain
      <4>2. calls[q].status = "closed"
        BY <2>3, <3>1, <4>1 DEF Complete, Attended
      <4> QED BY <1>1, <2>3, <4>2
    <3>2. \A q \in DOMAIN calls : calls'[q].reading
      BY <2>2, <2>3 DEF Complete, Attended
    <3> QED BY <1>1, <2>1, <2>3, <3>1, <3>2 DEF Complete, Attended, Parent
  <2>7. Refused'
    BY <1>1, <2>1, <2>2, <2>3 DEF Complete, Refused, Server, Parent, Last
  <2>8. Answered'
    <3>1. ASSUME NEW q \in DOMAIN calls, Opened(calls[q])
          PROVE  Opened(calls'[q])
      BY <2>2, <2>3, <3>1 DEF Opened
    <3>2. Opened(calls'[p])
      BY <2>2, <2>3 DEF Opened
    <3>3. \A n \in seen' : \E q \in DOMAIN calls : Opened(calls'[q]) /\ Server(q) = n
      BY <2>1, <3>1, <3>2 DEF Complete, Answered
    <3> QED BY <2>3, <3>3 DEF Answered, Server, Last, Opened
  <2>9. Fresh'
    BY <1>1, <2>2, <2>3 DEF Complete, Fresh
  <2>10. Travels'
    <3>1. \A q \in DOMAIN calls : calls'[q].pend = calls[q].pend
      BY <2>2, <2>3
    <3>2. \A r : Held(r) => Held(r)'
      BY <1>1, <2>1, <2>3, <3>1 DEF Held
    <3> QED BY <2>3, <2>5, <3>2 DEF Complete, Travels
  <2> QED BY <2>4, <2>5, <2>6, <2>7, <2>8, <2>9, <2>10 DEF Complete
<1>6. \/ /\ <<Server(p), Server(Parent(p))>> \in net.grants /\ Remember(Server(p))
         /\ calls' = [calls EXCEPT ![p].status = "open", ![p].ttl = Capped(Server(p), @)]
      \/ /\ \/ <<Server(p), Server(Parent(p))>> \notin net.grants \/ Server(p) \in seen
            \/ ~calls[p].reading \/ calls[Parent(p)].status = "closed"
         /\ calls' = [calls EXCEPT ![p] = Over(@)] /\ UNCHANGED seen
  BY DEF Receive
<1> QED BY <1>1, <1>2, <1>4, <1>5, <1>6

LEMMA FinishesAll ==
    ASSUME IInv, Counted, Complete, NEW p \in DOMAIN calls, Finish(p)
    PROVE  Counted' /\ Complete'
<1>1. /\ calls[p].status = "open" /\ calls[p].ran /\ calls[p].pend = {}
      /\ calls' = [calls EXCEPT ![p] = Over(@)] /\ UNCHANGED <<net, seen, results, hung, restarted>>
  BY DEF Finish
<1>2. ASSUME NEW q \in DOMAIN calls \ {Root}, Parent(q) = p
      PROVE  calls[q].status = "closed"
  <2>1. Len(q) > 1
    BY DEF IInv, Chain
  <2>2. Gone(q)
    BY <1>2, <2>1 DEF Finish, Children
  <2> QED BY <2>2 DEF Gone, Complete, Attended
<1> QED BY <1>1, <1>2, ClosingKeeps

\* With a fanout that is wide enough, everyone is asked who may be.
LEMMA TakesAll ==
    ASSUME net \in Network, NEW n \in Nodes, NEW S \in SUBSET Nodes,
           Cardinality(S) <= net.fanout[n], NEW T \in Taken(n, S)
    PROVE  T = S
<1>1. IsFiniteSet(S)
  BY FS_Subset, SearchAssumption
<1>2. Cardinality(S) \in Nat /\ net.fanout[n] \in Nat
  BY <1>1, FS_CardinalityType, LimitTypes
<1>3. T \in SUBSET S /\ Cardinality(T) = Cardinality(S)
  BY <1>2 DEF Taken
<1> QED BY <1>1, <1>3, FS_Subset

LEMMA RunsAll ==
    ASSUME IInv, Counted, Complete, Undisturbed, NEW p \in DOMAIN calls, RunSearch(p)
    PROVE  Counted' /\ Complete'
<1> DEFINE own == IF Shown(p) THEN {<<>>} ELSE {}
           t == calls[p].ttl
<1>1. calls[p].status = "open" /\ ~calls[p].ran
  BY DEF RunSearch
<1>2. PICK T :
          /\ T \in IF calls[p].ttl = 0 THEN {{}} ELSE Taken(Server(p), MayAsk(p))
          /\ LET asked == Forward(p, T)
                 here == [calls EXCEPT ![p].ran = TRUE,
                                       ![p].pend = IF Shown(p) THEN {<<>>} ELSE {}]
             IN  calls' = [q \in DOMAIN calls \cup DOMAIN asked |->
                              IF q \in DOMAIN asked THEN asked[q] ELSE here[q]]
  BY DEF RunSearch
<1> DEFINE New == {Append(p, m) : m \in T}
<1>2a. /\ DOMAIN calls' = DOMAIN calls \cup New
       /\ \A m \in T : /\ Append(p, m) \notin DOMAIN calls
                       /\ calls'[Append(p, m)] = Asked(t - 1)
       /\ calls'[p] = [calls[p] EXCEPT !.ran = TRUE, !.pend = own]
       /\ \A q \in DOMAIN calls \ {p} : calls'[q] = calls[q]
  BY <1>1, <1>2, CallsOfRun
<1>3. /\ DOMAIN calls' = DOMAIN calls \cup New
      /\ \A m \in T : calls'[Append(p, m)] = Asked(t - 1)
      /\ \A q \in DOMAIN calls \ {p} : calls'[q] = calls[q]
  BY <1>2a, Zenon
<1>4. /\ UNCHANGED <<net, seen, results, hung, restarted>>
      /\ Root' = Root /\ Root \in DOMAIN calls
      /\ p \in Seq(Nodes) /\ Len(p) >= 1 /\ calls[p] \in Call /\ t \in 0..MaxTtl
  BY NetType, CallType DEF RunSearch, Root, IInv
<1>5. own \in SUBSET Seq(Nodes)
  OBVIOUS
<1>6. calls[p].pend = {}
  BY <1>1 DEF Complete, Fresh
<1> HIDE DEF own
<1>7. /\ calls'[p].status = "open" /\ calls'[p].reading = calls[p].reading
      /\ calls'[p].ttl = t /\ calls'[p].ran = TRUE /\ calls'[p].pend = own
  BY <1>1, <1>4, <1>2a DEF Call
<1>8. ASSUME NEW m \in T
      PROVE  /\ m \in Nodes /\ t - 1 \in 0..MaxTtl
             /\ Len(Append(p, m)) = Len(p) + 1 /\ Append(p, m) # Root
             /\ Parent(Append(p, m)) = p
  <2>1. m \in Nodes /\ t - 1 \in 0..MaxTtl
    BY <1>2, Forwards
  <2> QED BY <1>4, <2>1, Appended
<1>9. ASSUME NEW q \in New
      PROVE  /\ calls'[q].status = "sent" /\ calls'[q].reading
             /\ calls'[q].ttl = t - 1 /\ calls'[q].ran = FALSE /\ calls'[q].pend = {}
             /\ Len(q) = Len(p) + 1 /\ q # Root /\ Parent(q) = p
  <2>1. PICK m \in T : q = Append(p, m)
    OBVIOUS
  <2>2. calls'[q] = Asked(t - 1) /\ t - 1 \in 0..MaxTtl
    BY <1>3, <1>8, <2>1
  <2>3. calls'[q].reading
    BY <2>2 DEF Asked
  <2> QED BY <1>8, <2>1, <2>2, <2>3, AskedCall
<1>10. \A m \in T : Append(p, m) \in New
  OBVIOUS
<1> HIDE DEF New, t
<1>11. Counted'
  <2>1. /\ \A q \in DOMAIN calls : calls'[q].ttl = calls[q].ttl
        /\ \A q \in DOMAIN calls : Opened(calls'[q]) <=> Opened(calls[q])
    <3>1. \A q \in DOMAIN calls \ {p} : calls'[q] = calls[q]
      BY <1>3
    <3>2. calls'[p].ttl = calls[p].ttl /\ Opened(calls'[p]) /\ Opened(calls[p])
      BY <1>1, <1>7 DEF t, Opened
    <3> QED BY <3>1, <3>2
  <2>2. ASSUME NEW q \in DOMAIN calls', NEW x \in Nat, Opened(calls'[q])
        PROVE  x <= calls'[q].ttl <=> Spares(q, x)'
    <3>1. q \in DOMAIN calls
      BY <1>3, <1>9, <2>2 DEF Opened
    <3>2. x <= calls[q].ttl <=> Spares(q, x)
      BY <2>1, <2>2, <3>1 DEF Counted
    <3>3. Spares(q, x)' <=> Spares(q, x)
      BY <1>4, <2>1, SparesStays
    <3> QED BY <2>1, <3>1, <3>2, <3>3
  <2>3. ASSUME NEW q \in DOMAIN calls', ~Opened(calls'[q])
        PROVE  q # Root /\ calls'[q].ttl = calls'[Parent(q)].ttl - 1
    <3>1. CASE q \in New
      <4>1. calls'[q].ttl = t - 1 /\ q # Root /\ Parent(q) = p /\ calls'[p].ttl = t
        BY <1>7, <1>9, <3>1
      <4> QED BY <4>1
    <3>2. CASE q \in DOMAIN calls
      <4>1. q # Root /\ calls[q].ttl = calls[Parent(q)].ttl - 1
        BY <2>1, <2>3, <3>2 DEF Counted
      <4>2. Parent(q) \in DOMAIN calls
        BY <3>2, <4>1 DEF IInv, Chain
      <4> QED BY <2>1, <3>2, <4>1, <4>2
    <3> QED BY <1>3, <3>1, <3>2
  <2> QED BY <1>4, <2>2, <2>3 DEF Counted, Parent, Opened
<1>12. Attended'
  <2>1. \A q \in DOMAIN calls : calls'[q].reading /\ calls'[q].status = calls[q].status
    BY <1>1, <1>3, <1>7 DEF Complete, Attended
  <2>2. ASSUME NEW q \in DOMAIN calls', q # Root, calls'[Parent(q)].status = "closed"
        PROVE  calls'[q].status = "closed"
    <3>1. q \notin New
      BY <1>7, <1>9, <2>2
    <3>2. q \in DOMAIN calls \ {Root} /\ Parent(q) \in DOMAIN calls
      BY <1>3, <2>2, <3>1 DEF IInv, Chain
    <3> QED BY <2>1, <2>2, <3>2 DEF Complete, Attended
  <2>3. \A q \in DOMAIN calls' : calls'[q].reading
    BY <1>3, <1>9, <2>1
  <2> QED BY <1>4, <2>2, <2>3 DEF Complete, Attended, Parent
<1>13. Refused'
  <2>1. ASSUME NEW q \in DOMAIN calls', calls'[q].status = "closed", ~calls'[q].ran
        PROVE  q \in DOMAIN calls /\ calls[q].status = "closed" /\ ~calls[q].ran
    BY <1>3, <1>7, <1>9, <2>1
  <2> QED BY <1>4, <2>1 DEF Complete, Refused, Server, Parent, Last
<1>14. Answered'
  <2>1. ASSUME NEW q \in DOMAIN calls, Opened(calls[q])
        PROVE  q \in DOMAIN calls' /\ Opened(calls'[q])
    BY <1>3, <1>7, <2>1 DEF Opened
  <2> QED BY <1>4, <2>1 DEF Complete, Answered, Server, Last, Opened
<1>15. Spread'
  <2>1. \A q : MayAsk(q)' = MayAsk(q)
    BY <1>4 DEF MayAsk, Server, Last
  <2>2. \A q \in DOMAIN calls \ {p} : calls'[q].ran /\ calls'[q].ttl > 0 =>
           \A m \in MayAsk(q) : Append(q, m) \in DOMAIN calls'
    BY <1>3 DEF Complete, Spread
  <2>3. t > 0 => \A m \in MayAsk(p) : Append(p, m) \in DOMAIN calls'
    <3>1. SUFFICES ASSUME t > 0
                   PROVE  T = MayAsk(p)
      BY <1>3, <1>10
    <3>2. T \in Taken(Server(p), MayAsk(p))
      BY <1>2, <1>4, <3>1 DEF t
    <3>3. MayAsk(p) \in SUBSET Nodes
      BY DEF MayAsk
    <3>4. Cardinality(MayAsk(p)) <= net.fanout[Server(p)]
      BY DEF Undisturbed
    <3>5. net \in Network /\ Server(p) \in Nodes
      BY NetType DEF IInv
    <3> QED BY <3>2, <3>3, <3>4, <3>5, TakesAll
  <2> QED BY <1>3, <1>7, <1>9, <2>1, <2>2, <2>3 DEF Spread
<1>16. Fresh'
  BY <1>3, <1>7, <1>9 DEF Complete, Fresh
<1>17. Travels'
  <2>1. \A q \in DOMAIN calls : calls[q].pend \subseteq calls'[q].pend
    BY <1>3, <1>6
  <2>2. \A r : Held(r) => Held(r)'
    BY <1>3, <1>4, <2>1 DEF Held
  <2>3. ASSUME NEW r \in DOMAIN calls', Found(r)'
        PROVE  r = p \/ (r \in DOMAIN calls /\ Found(r))
    BY <1>3, <1>4, <1>9, <2>3 DEF Found, Last
  <2>4. ASSUME Found(p)'
        PROVE  Held(p)'
    <3>1. Shown(p)
      <4>1. p # Root => <<Last(p), p[Len(p) - 1]>> \in net.shows
        BY <1>4, <2>4 DEF Found, Last
      <4>2. p # Root => Server(Parent(p)) = p[Len(p) - 1]
        <5>1. SUFFICES ASSUME p # Root
                       PROVE  Server(Parent(p)) = p[Len(p) - 1]
          OBVIOUS
        <5>2. Len(p) > 1 /\ Len(p) \in Nat
          BY <1>4, <5>1 DEF IInv, Chain
        <5>3. /\ Parent(p) \in Seq(Nodes) /\ Len(Parent(p)) = Len(p) - 1
              /\ \A i \in 1..Len(p) - 1 : Parent(p)[i] = p[i]
          BY <1>4, <5>2, Ends
        <5>4. Len(p) - 1 \in 1..Len(p) - 1
          BY <5>2
        <5> QED BY <5>3, <5>4 DEF Server, Last
      <4> QED BY <4>1, <4>2 DEF Shown, Server
    <3>2. <<>> \in calls'[p].pend
      BY <1>7, <3>1 DEF own
    <3>3. p \o <<>> = p
      BY <1>4, ConcatEmptySeq
    <3> QED BY <1>3, <3>2, <3>3 DEF Held
  <2> QED BY <2>2, <2>3, <2>4 DEF Complete, Travels
<1> QED BY <1>11, <1>12, <1>13, <1>14, <1>15, <1>16, <1>17 DEF Complete

\* The call p passes the hit h on, to a call that is alike but for its hits.
LEMMA PassingKeeps ==
    ASSUME IInv, Counted, Complete, SameCalls, Root \in DOMAIN calls,
           UNCHANGED <<seen, hung, restarted>>,
           \A q \in DOMAIN calls : calls'[q].status = calls[q].status,
           \A q \in DOMAIN calls : calls'[q].pend # {} => calls[q].ran,
           \A r : Held(r) => Held(r)'
    PROVE  Counted' /\ Complete'
<1>1. /\ Counted' /\ Spread' /\ \A r : Found(r)' => Found(r)
  BY SameCallsKeep DEF Complete
<1>2. /\ DOMAIN calls' = DOMAIN calls /\ net' = net /\ Root' = Root
      /\ \A q \in DOMAIN calls :
            /\ calls'[q].reading = calls[q].reading /\ calls'[q].ran = calls[q].ran
            /\ calls'[q].status = calls[q].status
  BY DEF SameCalls, Alike, Root
<1>3. Attended'
  <2>1. \A q \in DOMAIN calls \ {Root} : Parent(q) \in DOMAIN calls
    BY DEF IInv, Chain
  <2> QED BY <1>2, <2>1 DEF Complete, Attended, Parent
<1>4. Refused'
  BY <1>2 DEF Complete, Refused, Server, Parent, Last
<1>5. Answered'
  BY <1>2 DEF Complete, Answered, Server, Last, Opened
<1>6. Fresh'
  BY <1>2 DEF Complete, Fresh
<1>7. Travels'
  BY <1>1, <1>2 DEF Complete, Travels
<1> QED BY <1>1, <1>3, <1>4, <1>5, <1>6, <1>7 DEF Complete

\* What becomes of the calls when p gives up the hit h.
LEMMA GivenUp ==
    ASSUME NEW x \in Call, NEW h
    PROVE  LET d == [x EXCEPT !.pend = @ \ {h}, !.count = @ + 1]
           IN  /\ d.status = x.status /\ d.pend = x.pend \ {h} /\ d.reading = x.reading
               /\ d.ttl = x.ttl /\ d.ran = x.ran /\ d.count = x.count + 1
BY DEF Call

LEMMA TakenOver ==
    ASSUME NEW x \in Call, NEW g
    PROVE  LET d == [x EXCEPT !.pend = @ \cup {g}]
           IN  /\ d.status = x.status /\ d.pend = x.pend \cup {g} /\ d.reading = x.reading
               /\ d.ttl = x.ttl /\ d.ran = x.ran /\ d.count = x.count
BY DEF Call

LEMMA DeliversAll ==
    ASSUME IInv, Counted, Complete, NEW p \in DOMAIN calls \ {Root}, NEW h \in calls[p].pend,
           calls' = [calls EXCEPT ![p].pend = @ \ {h}, ![p].count = @ + 1,
                                  ![Parent(p)].pend = @ \cup {Minted(Server(p), h)}],
           UNCHANGED <<net, seen, results, failures, hung, restarted>>
    PROVE  Counted' /\ Complete'
<1> DEFINE up == Parent(p)
           g == Minted(Server(p), h)
           d == [calls[p] EXCEPT !.pend = @ \ {h}, !.count = @ + 1]
           e == [calls[up] EXCEPT !.pend = @ \cup {g}]
<1>1. /\ p \in Seq(Nodes) /\ Len(p) > 1 /\ up \in DOMAIN calls /\ calls[up].ran
      /\ calls[p] \in Call /\ calls[up] \in Call /\ Root \in DOMAIN calls
  BY NetType DEF IInv, Chain
<1>2. h \in Seq(Nodes) /\ calls[p].count \in Nat
  BY <1>1, CallType
<1>3. up # p
  BY <1>1, Ends
<1>4. up \o g = p \o h
  BY <1>1, <1>2, Handed
<1>5. /\ DOMAIN calls' = DOMAIN calls /\ calls'[p] = d /\ calls'[up] = e
      /\ \A q \in DOMAIN calls \ {p, up} : calls'[q] = calls[q]
  BY <1>1, <1>3
<1>6. /\ d.status = calls[p].status /\ d.pend = calls[p].pend \ {h}
      /\ d.reading = calls[p].reading /\ d.ttl = calls[p].ttl
      /\ d.ran = calls[p].ran /\ d.count = calls[p].count + 1
  BY <1>1, GivenUp
<1>7. /\ e.status = calls[up].status /\ e.pend = calls[up].pend \cup {g}
      /\ e.reading = calls[up].reading /\ e.ttl = calls[up].ttl
      /\ e.ran = calls[up].ran /\ e.count = calls[up].count
  BY <1>1, TakenOver
<1>8. \A q \in DOMAIN calls : calls[q].count \in Nat
  BY NetType, CallType DEF IInv
<1> HIDE DEF d, e, up, g
<1>9. SameCalls
  <2>1. Alike(calls[p], d)
    BY <1>2, <1>6 DEF Alike, Opened
  <2>2. Alike(calls[up], e)
    BY <1>1, <1>7, <1>8 DEF Alike, Opened
  <2>3. \A q \in DOMAIN calls : Alike(calls[q], calls[q])
    BY <1>8 DEF Alike
  <2>4. \A q \in DOMAIN calls : Alike(calls[q], calls'[q])
    BY <1>5, <2>1, <2>2, <2>3
  <2> QED BY <1>5, <2>4 DEF SameCalls
<1>10. \A q \in DOMAIN calls : calls'[q].status = calls[q].status
  BY <1>5, <1>6, <1>7
<1>11. \A q \in DOMAIN calls : calls'[q].pend # {} => calls[q].ran
  <2>1. \A q \in DOMAIN calls : calls[q].pend # {} => calls[q].ran
    BY DEF Complete, Fresh
  <2> QED BY <1>1, <1>5, <1>6, <1>7, <2>1
<1>12. \A r : Held(r) => Held(r)'
  <2>1. ASSUME NEW r, NEW q \in DOMAIN calls, NEW k \in calls[q].pend, q \o k = r
        PROVE  Held(r)'
    <3>1. CASE q = p /\ k = h
      <4>1. up \in DOMAIN calls' /\ g \in calls'[up].pend
        BY <1>1, <1>5, <1>7
      <4>2. up \o g = r
        BY <1>4, <2>1, <3>1
      <4> QED BY <4>1, <4>2 DEF Held
    <3>2. CASE ~(q = p /\ k = h)
      <4>1. q \in DOMAIN calls' /\ k \in calls'[q].pend
        BY <1>5, <1>6, <1>7, <3>2
      <4> QED BY <2>1, <4>1 DEF Held
    <3> QED BY <3>1, <3>2
  <2>2. ASSUME NEW r, Held(r)
        PROVE  Held(r)'
    <3>1. CASE \E k \in results : Root \o k = r
      <4>1. results' = results /\ Root' = Root
        BY DEF Root
      <4> QED BY <3>1, <4>1 DEF Held
    <3>2. CASE \E q \in DOMAIN calls : \E k \in calls[q].pend : q \o k = r
      BY <2>1, <3>2
    <3> QED BY <2>2, <3>1, <3>2 DEF Held
  <2> QED BY <2>2
<1> QED BY <1>1, <1>9, <1>10, <1>11, <1>12, PassingKeeps

LEMMA ShowsAll ==
    ASSUME IInv, Counted, Complete, NEW h \in calls[Root].pend,
           results' = results \cup {h},
           calls' = [calls EXCEPT ![Root].pend = @ \ {h}, ![Root].count = @ + 1],
           UNCHANGED <<net, seen, handles, failures, hung, restarted>>
    PROVE  Counted' /\ Complete'
<1> DEFINE d == [calls[Root] EXCEPT !.pend = @ \ {h}, !.count = @ + 1]
<1>1. calls[Root] \in Call /\ Root \in DOMAIN calls /\ Root' = Root
  BY NetType DEF IInv, Root
<1>2. \A q \in DOMAIN calls : calls[q].count \in Nat
  BY NetType, CallType DEF IInv
<1>3. /\ d.status = calls[Root].status /\ d.pend = calls[Root].pend \ {h}
      /\ d.reading = calls[Root].reading /\ d.ttl = calls[Root].ttl
      /\ d.ran = calls[Root].ran /\ d.count = calls[Root].count + 1
  BY <1>1, GivenUp
<1> HIDE DEF d
<1>4. /\ DOMAIN calls' = DOMAIN calls /\ calls'[Root] = d
      /\ \A q \in DOMAIN calls \ {Root} : calls'[q] = calls[q]
  BY <1>1 DEF d
<1>5. SameCalls
  <2>1. Alike(calls[Root], d)
    BY <1>1, <1>2, <1>3 DEF Alike, Opened
  <2>2. \A q \in DOMAIN calls : Alike(calls[q], calls[q])
    BY <1>2 DEF Alike
  <2>3. \A q \in DOMAIN calls : Alike(calls[q], calls'[q])
    BY <1>4, <2>1, <2>2
  <2> QED BY <1>4, <2>3 DEF SameCalls
<1>6. \A q \in DOMAIN calls : calls'[q].status = calls[q].status
  BY <1>3, <1>4
<1>7. \A q \in DOMAIN calls : calls'[q].pend # {} => calls[q].ran
  BY <1>3, <1>4 DEF Complete, Fresh
<1>8. \A r : Held(r) => Held(r)'
  <2>1. ASSUME NEW q \in DOMAIN calls, NEW k \in calls[q].pend
        PROVE  k \in calls'[q].pend \/ (q = Root /\ k \in results')
    BY <1>3, <1>4
  <2>2. ASSUME NEW r, NEW k \in results, Root \o k = r
        PROVE  Held(r)'
    BY <1>1, <2>2 DEF Held
  <2>3. ASSUME NEW r, NEW q \in DOMAIN calls, NEW k \in calls[q].pend, q \o k = r
        PROVE  Held(r)'
    <3>1. q \in DOMAIN calls'
      BY <1>4
    <3>2. CASE k \in calls'[q].pend
      BY <2>3, <3>1, <3>2 DEF Held
    <3>3. CASE q = Root /\ k \in results'
      BY <1>1, <2>3, <3>3 DEF Held
    <3> QED BY <2>1, <3>2, <3>3
  <2>4. ASSUME NEW r, Held(r)
        PROVE  Held(r)'
    <3>1. CASE \E k \in results : Root \o k = r
      BY <2>2, <3>1
    <3>2. CASE \E q \in DOMAIN calls : \E k \in calls[q].pend : q \o k = r
      BY <2>3, <3>2
    <3> QED BY <2>4, <3>1, <3>2 DEF Held
  <2> QED BY <2>4
<1> QED BY <1>1, <1>5, <1>6, <1>7, <1>8, PassingKeeps

\* A call that reached the result cap is no longer counted as undisturbed.
LEMMA NotCapped ==
    ASSUME IInv, Undisturbed', NEW p \in DOMAIN calls, calls[p].count >= net.cap[Server(p)],
           calls' = [calls EXCEPT ![p] = Over(@)], net' = net
    PROVE  FALSE
<1>1. calls[p] \in Call /\ net.cap[Server(p)] \in Nat
  BY NetType DEF IInv
<1>2. calls'[p].count = calls[p].count /\ p \in DOMAIN calls'
  BY <1>1, OverCall
<1>3. calls[p].count \in Nat
  BY <1>1, CallType
<1> QED BY <1>1, <1>2, <1>3 DEF Undisturbed

\* Nothing a call has passed on is forgotten.
Grows ==
    /\ net' = net /\ failures <= failures' /\ DOMAIN calls \subseteq DOMAIN calls'
    /\ \A q \in DOMAIN calls : calls'[q].count >= calls[q].count

LEMMA OneGrows ==
    ASSUME IInv, NEW p \in DOMAIN calls, NEW x, calls' = [calls EXCEPT ![p] = x],
           x.count >= calls[p].count, net' = net, failures' \in {failures, failures + 1}
    PROVE  Grows
<1>1. /\ DOMAIN calls' = DOMAIN calls /\ calls'[p] = x
      /\ \A q \in DOMAIN calls \ {p} : calls'[q] = calls[q]
  BY OneCall
<1>2. \A q \in DOMAIN calls : calls[q].count \in Nat
  BY NetType, CallType DEF IInv
<1>3. failures \in Nat
  BY Tables DEF IInv
<1> QED BY <1>1, <1>2, <1>3 DEF Grows

LEMMA CountsGrow ==
    ASSUME IInv, NEW p \in DOMAIN calls
    PROVE  /\ Over(calls[p]).count >= calls[p].count
           /\ [calls[p] EXCEPT !.reading = FALSE].count >= calls[p].count
           /\ [calls[p] EXCEPT !.status = "open", !.ttl = Capped(Server(p), @)].count
                  >= calls[p].count
           /\ \A h : [calls[p] EXCEPT !.pend = @ \ {h}, !.count = @ + 1].count
                         >= calls[p].count
<1>1. calls[p] \in Call /\ calls[p].count \in Nat
  BY NetType, CallType DEF IInv
<1>2. Over(calls[p]).count = calls[p].count
  BY <1>1, OverCall
<1>3. [calls[p] EXCEPT !.reading = FALSE].count = calls[p].count
  BY <1>1 DEF Call
<1>4. [calls[p] EXCEPT !.status = "open", !.ttl = Capped(Server(p), @)].count
         = calls[p].count
  <2>1. net \in Network /\ Server(p) \in Nodes
    BY NetType DEF IInv
  <2> QED BY <1>1, <2>1, TakenUpBy
<1>5. \A h : [calls[p] EXCEPT !.pend = @ \ {h}, !.count = @ + 1].count = calls[p].count + 1
  BY <1>1, GivenUp
<1> QED BY <1>1, <1>2, <1>3, <1>4, <1>5

\* Every step but a failure, which disturbs the search for good.
LEMMA FailsOrGrows ==
    ASSUME IInv, [Next]_vars, Undisturbed'
    PROVE  Grows
<1>1. /\ \A q \in DOMAIN calls : calls[q] \in Call /\ calls[q].count \in Nat
      /\ failures \in Nat /\ Root \in DOMAIN calls
  BY NetType, CallType, Tables DEF IInv
<1>2. CASE UNCHANGED vars
  BY <1>1, <1>2 DEF vars, Grows
<1>3. ASSUME NEW p \in DOMAIN calls, Receive(p) \/ Finish(p) \/ TimeOut(p)
      PROVE  Grows
  <2>1. net' = net /\ failures' \in {failures, failures + 1}
    BY <1>3 DEF Receive, Finish, TimeOut
  <2>2. \/ calls' = [calls EXCEPT ![p] = Over(calls[p])]
        \/ calls' = [calls EXCEPT ![p] = [calls[p] EXCEPT !.status = "open",
                                                          !.ttl = Capped(Server(p), @)]]
        \/ calls' = [calls EXCEPT ![p] = [calls[p] EXCEPT !.reading = FALSE]]
    BY <1>3 DEF Receive, Finish, TimeOut
  <2> QED BY <2>1, <2>2, CountsGrow, OneGrows
<1>4. ASSUME NEW p \in DOMAIN calls, RunSearch(p)
      PROVE  Grows
  <2>1. net' = net /\ failures' = failures
    BY <1>4 DEF RunSearch
  <2>2. DOMAIN calls \subseteq DOMAIN calls' /\ calls'[p].count = calls[p].count
        /\ \A q \in DOMAIN calls \ {p} : calls'[q] = calls[q]
    BY <1>4, RunFacts
  <2> QED BY <1>1, <2>1, <2>2 DEF Grows
<1>5. ASSUME NEW p \in DOMAIN calls, Relay(p)
      PROVE  Grows
  <2>1. net' = net /\ failures' = failures /\ p # Root
    BY <1>5 DEF Relay
  <2>2. PICK h \in calls[p].pend :
           \/ calls' = [calls EXCEPT ![p].pend = @ \ {h}, ![p].count = @ + 1,
                                     ![Parent(p)].pend = @ \cup {Minted(Server(p), h)}]
           \/ calls' = [calls EXCEPT ![p].pend = @ \ {h}, ![p].count = @ + 1]
           \/ calls' = [calls EXCEPT ![p] = Over(@)]
    BY <1>5 DEF Relay
  <2>3. CASE calls' = [calls EXCEPT ![p] = Over(@)]
    BY <2>1, <2>3, CountsGrow, OneGrows
  <2>4. CASE calls' = [calls EXCEPT ![p].pend = @ \ {h}, ![p].count = @ + 1]
    <3> DEFINE d == [calls[p] EXCEPT !.pend = @ \ {h}, !.count = @ + 1]
    <3>1. calls' = [calls EXCEPT ![p] = d]
      BY <2>4
    <3>2. d.count >= calls[p].count
      BY CountsGrow
    <3> HIDE DEF d
    <3> QED BY <2>1, <3>1, <3>2, OneGrows
  <2>5. CASE calls' = [calls EXCEPT ![p].pend = @ \ {h}, ![p].count = @ + 1,
                                    ![Parent(p)].pend = @ \cup {Minted(Server(p), h)}]
    <3> DEFINE up == Parent(p)
               g == Minted(Server(p), h)
               d == [calls[p] EXCEPT !.pend = @ \ {h}, !.count = @ + 1]
               e == [calls[up] EXCEPT !.pend = @ \cup {g}]
    <3>1. up \in DOMAIN calls /\ up # p
      <4>1. p \in Seq(Nodes) /\ Len(p) > 1 /\ up \in DOMAIN calls
        BY <2>1, NetType DEF IInv, Chain
      <4> QED BY <4>1, Ends
    <3>2. /\ DOMAIN calls' = DOMAIN calls /\ calls'[p] = d /\ calls'[up] = e
          /\ \A q \in DOMAIN calls \ {p, up} : calls'[q] = calls[q]
      BY <2>5, <3>1
    <3>3. d.count >= calls[p].count
      BY CountsGrow
    <3>4. e.count = calls[up].count
      BY <1>1, <3>1, TakenOver
    <3> HIDE DEF d, e, up, g
    <3> QED BY <1>1, <2>1, <3>1, <3>2, <3>3, <3>4 DEF Grows
  <2> QED BY <2>2, <2>3, <2>4, <2>5
<1>6. CASE Show
  <2>1. net' = net /\ failures' = failures
    BY <1>6 DEF Show
  <2>2. PICK h \in calls[Root].pend :
           \/ calls' = [calls EXCEPT ![Root].pend = @ \ {h}, ![Root].count = @ + 1]
           \/ calls' = [calls EXCEPT ![Root] = Over(@)]
    BY <1>6 DEF Show
  <2> DEFINE d == [calls[Root] EXCEPT !.pend = @ \ {h}, !.count = @ + 1]
  <2>3. calls' = [calls EXCEPT ![Root] = d] \/ calls' = [calls EXCEPT ![Root] = Over(calls[Root])]
    BY <2>2
  <2>4. d.count >= calls[Root].count /\ Over(calls[Root]).count >= calls[Root].count
    BY <1>1, CountsGrow
  <2> HIDE DEF d
  <2> QED BY <1>1, <2>1, <2>3, <2>4, OneGrows
<1>7. ASSUME NEW n \in Nodes, Hang(n) \/ Restart(n)
      PROVE  Grows
  <2>1. failures' = failures + 1
    BY <1>7 DEF Hang, Restart
  <2> QED BY <1>1, <2>1 DEF Undisturbed
<1> QED BY <1>2, <1>3, <1>4, <1>5, <1>6, <1>7 DEF Next, Step

LEMMA RelaysAll ==
    ASSUME IInv, Counted, Complete, Undisturbed', NEW p \in DOMAIN calls, Relay(p)
    PROVE  Counted' /\ Complete'
<1>1. p # Root /\ UNCHANGED <<net, seen, results, failures, hung, restarted>>
  BY DEF Relay
<1>2. calls[p].reading /\ calls[p].status = "open" /\ calls[Parent(p)].status # "closed"
  BY <1>1 DEF Relay, Complete, Attended
<1>3. PICK h \in calls[p].pend :
         \/ calls' = [calls EXCEPT ![p].pend = @ \ {h}, ![p].count = @ + 1,
                                   ![Parent(p)].pend = @ \cup {Minted(Server(p), h)}]
         \/ calls[p].count >= net.cap[Server(p)] /\ calls' = [calls EXCEPT ![p] = Over(@)]
  BY <1>2 DEF Relay
<1>4. CASE calls[p].count >= net.cap[Server(p)] /\ calls' = [calls EXCEPT ![p] = Over(@)]
  BY <1>1, <1>4, NotCapped
<1> QED BY <1>1, <1>3, <1>4, DeliversAll

LEMMA ShowAll ==
    ASSUME IInv, Counted, Complete, Undisturbed', Show
    PROVE  Counted' /\ Complete'
<1>1. UNCHANGED <<net, seen, handles, failures, hung, restarted>> /\ Root \in DOMAIN calls
  BY NetType DEF Show, IInv
<1>2. PICK h \in calls[Root].pend :
         IF calls[Root].count < net.cap[User]
         THEN /\ results' = results \cup {h}
              /\ calls' = [calls EXCEPT ![Root].pend = @ \ {h}, ![Root].count = @ + 1]
         ELSE calls' = [calls EXCEPT ![Root] = Over(@)] /\ UNCHANGED results
  BY DEF Show
<1>3. CASE calls[Root].count < net.cap[User]
  BY <1>1, <1>2, <1>3, ShowsAll
<1>4. CASE ~(calls[Root].count < net.cap[User])
  <2>1. calls[Root].count >= net.cap[Server(Root)]
    <3>1. calls[Root] \in Call /\ net.cap[Server(Root)] \in Nat /\ Server(Root) = User
      BY <1>1, NetType, RootIsARoute DEF IInv
    <3> QED BY <1>4, <3>1, CallType
  <2> QED BY <1>1, <1>2, <1>4, <2>1, NotCapped
<1> QED BY <1>3, <1>4

LEMMA InitComplete == Init => CInv
<1> SUFFICES ASSUME Init
             PROVE  CInv
  OBVIOUS
<1>1. IInv
  BY InitKeeps
<1>2. PICK ttl \in 0..MaxTtl : calls = [q \in {Root} |-> [Asked(ttl) EXCEPT !.status = "open"]]
  BY InitCall
<1>3. /\ DOMAIN calls = {Root} /\ calls[Root].reading = TRUE
      /\ calls[Root].status = "open" /\ calls[Root].ran = FALSE /\ calls[Root].pend = {}
  <2>1. DOMAIN calls = {Root} /\ calls[Root] = [Asked(ttl) EXCEPT !.status = "open"]
    BY <1>2
  <2>2. /\ Asked(ttl) \in Call /\ Asked(ttl).reading = TRUE
        /\ Asked(ttl).ran = FALSE /\ Asked(ttl).pend = {}
    BY AskedCall DEF Asked
  <2> HIDE DEF Root
  <2> QED BY <2>1, <2>2, TakenUp
<1>4. Len(Root) = 1 /\ Server(Root) = User /\ calls[Root].ttl \in Int
  BY <1>1, RootIsARoute, NetType, CallType DEF IInv
<1>5. Counted
  <2>1. \A p \in DOMAIN calls : p = Root
    BY <1>3
  <2>2. Opened(calls[Root])
    BY <1>3 DEF Opened
  <2>3. ASSUME NEW t \in Nat
        PROVE  t <= calls[Root].ttl <=> Spares(Root, t)
    <3>1. 1..Len(Root) = {1} /\ Limit(Root, 1) = calls[Root].ttl /\ Len(Root) - 1 + t = t
      BY <1>4 DEF Limit
    <3> HIDE DEF Root
    <3> QED BY <3>1 DEF Spares
  <2> QED BY <2>1, <2>2, <2>3 DEF Counted
<1>6. Attended
  BY <1>3 DEF Attended, Init
<1>7. Refused /\ Spread /\ Fresh /\ Travels
  BY <1>3 DEF Refused, Spread, Fresh, Travels, Found
<1>8. Answered
  BY <1>3, <1>4 DEF Answered, Opened, Init
<1> QED BY <1>1, <1>5, <1>6, <1>7, <1>8 DEF CInv, Complete

LEMMA NextComplete == CInv /\ [Next]_vars => CInv'
<1> SUFFICES ASSUME CInv, [Next]_vars
             PROVE  CInv'
  OBVIOUS
<1>1. IInv /\ IInv'
  BY NextKeeps DEF CInv
<1>2. SUFFICES ASSUME Undisturbed'
               PROVE  Counted' /\ Complete'
  BY <1>1 DEF CInv
<1>3. Undisturbed
  <2>1. Grows
    BY <1>1, <1>2, FailsOrGrows
  <2> QED BY <1>1, <1>2, <2>1, StaysUndisturbed DEF Grows
<1>4. Counted /\ Complete
  BY <1>3 DEF CInv
<1>5. ASSUME NEW p \in DOMAIN calls, Step(p)
      PROVE  Counted' /\ Complete'
  <2>1. Receive(p) \/ RunSearch(p) \/ Relay(p) \/ Finish(p)
    BY <1>5 DEF Step
  <2> QED BY <1>1, <1>2, <1>3, <1>4, <2>1, ReceivesAll, RunsAll, RelaysAll, FinishesAll
<1>6. ASSUME NEW p \in DOMAIN calls, TimeOut(p)
      PROVE  FALSE
  <2>1. failures \in Nat /\ hung = {}
    BY <1>1, <1>4, Tables DEF IInv, Complete, Attended
  <2>2. failures' = failures + 1
    BY <1>6, <2>1 DEF TimeOut
  <2> QED BY <1>2, <2>1, <2>2 DEF Undisturbed
<1>7. CASE Show
  BY <1>1, <1>2, <1>4, <1>7, ShowAll
<1>8. ASSUME NEW n \in Nodes, Hang(n) \/ Restart(n)
      PROVE  FALSE
  <2>1. failures' = failures + 1 /\ failures \in Nat
    BY <1>1, <1>8, Tables DEF Hang, Restart, IInv
  <2> QED BY <1>2, <2>1 DEF Undisturbed
<1>9. CASE UNCHANGED vars
  <2>1. /\ Attended' /\ Refused' /\ Answered'
    BY <1>4, <1>9 DEF vars, Complete, Attended, Refused, Answered, Opened, Server,
                      Parent, Last, Root
  <2>1a. Counted'
    BY <1>4, <1>9 DEF vars, Counted, Opened, Spares, Limit, Parent, Root
  <2>2. /\ Spread' /\ Fresh' /\ Travels'
    BY <1>4, <1>9 DEF vars, Complete, Spread, Fresh, Travels, Held, Found, MayAsk, Server,
                      Last, Root
  <2> QED BY <2>1, <2>1a, <2>2 DEF Complete
<1> QED BY <1>5, <1>6, <1>7, <1>8, <1>9 DEF Next

THEOREM Completeness == Spec => []CInv
BY InitComplete, NextComplete, PTL DEF Spec

-----------------------------------------------------------------------------
(* Where the query came once the search is over.                           *)

\* A set of numbers that is not empty has a least one.
LEMMA LeastExists ==
    ASSUME NEW S, S \subseteq Nat, S # {}
    PROVE  \E x \in S : \A y \in S : x <= y
<1>1. PICK x \in S : \A y \in S : ~(<<y, x>> \in OpToRel(<, Nat))
  BY WFMin, NatLessThanWellFounded, Zenon
<1>2. ASSUME NEW y \in S
      PROVE  x <= y
  <2>1. x \in Nat /\ y \in Nat
    OBVIOUS
  <2>2. ~(y < x)
    BY <1>1, <2>1, Zenon DEF OpToRel
  <2> QED BY <2>1, <2>2
<1> QED BY <1>2

\* Once the user's search is over, every call is.
LEMMA AllClosed ==
    ASSUME IInv, Complete, calls[Root].status = "closed", NEW p \in DOMAIN calls
    PROVE  calls[p].status = "closed"
<1> DEFINE S == {n \in Nat : \E q \in DOMAIN calls : Len(q) = n /\ calls[q].status # "closed"}
<1>1. SUFFICES ASSUME calls[p].status # "closed"
               PROVE  FALSE
  OBVIOUS
<1>2. \A q \in DOMAIN calls : q \in Seq(Nodes) /\ Len(q) \in Nat
  BY NetType DEF IInv
<1>3. S \subseteq Nat /\ S # {}
  BY <1>1, <1>2
<1>4. PICK n \in S : \A m \in S : n <= m
  BY <1>3, LeastExists
<1>5. PICK q \in DOMAIN calls : Len(q) = n /\ calls[q].status # "closed"
  OBVIOUS
<1>6. Parent(q) \in DOMAIN calls /\ Len(q) > 1 /\ calls[Parent(q)].status # "closed"
  BY <1>5 DEF IInv, Chain, Complete, Attended
<1>7. Len(Parent(q)) = n - 1
  <2>1. q \in Seq(Nodes) /\ Len(q) >= 1
    BY <1>2, <1>6
  <2> QED BY <1>5, <1>6, <2>1, Ends
<1>8. n - 1 \in S
  BY <1>2, <1>6, <1>7
<1> QED BY <1>4, <1>8

\* The call at the kth node of p took up the query.
Began(p, k) == SubSeq(p, 1, k) \in DOMAIN calls /\ Opened(calls[SubSeq(p, 1, k)])

LEMMA Prefix ==
    ASSUME NEW p \in Seq(Nodes), NEW k \in 1..Len(p)
    PROVE  /\ SubSeq(p, 1, k) \in Seq(Nodes) /\ Len(SubSeq(p, 1, k)) = k
           /\ \A j \in 1..k : SubSeq(p, 1, k)[j] = p[j]
           /\ Server(SubSeq(p, 1, k)) = p[k]
<1>1. /\ SubSeq(p, 1, k) \in Seq(Nodes) /\ Len(SubSeq(p, 1, k)) = k
      /\ \A j \in 1..k : SubSeq(p, 1, k)[j] = p[j]
  OBVIOUS
<1>2. k \in 1..k
  OBVIOUS
<1> QED BY <1>1, <1>2 DEF Server, Last

LEMMA OneShorter ==
    ASSUME NEW q \in Seq(Nodes), NEW o \in Seq(Nodes), Len(o) >= 1, Len(q) = Len(o) + 1,
           \A j \in 1..Len(o) : o[j] = q[j]
    PROVE  q # Root /\ Parent(q) = o
<1>1. Len(o) \in Nat /\ Len(q) >= 1 /\ Len(q) > 1 /\ Len(q) - 1 = Len(o)
  OBVIOUS
<1>2. /\ Parent(q) \in Seq(Nodes) /\ Len(Parent(q)) = Len(o)
      /\ \A j \in 1..Len(o) : Parent(q)[j] = q[j]
  <2>1. /\ Parent(q) \in Seq(Nodes) /\ Len(Parent(q)) = Len(q) - 1
        /\ \A j \in 1..Len(q) - 1 : Parent(q)[j] = q[j]
    BY <1>1, Ends
  <2> QED BY <1>1, <2>1
<1>3. \A j \in 1..Len(o) : Parent(q)[j] = o[j]
  BY <1>2
<1>4. Parent(q) = o
  BY <1>2, <1>3, SeqEqual
<1>5. q # Root
  BY <1>1, RootIsARoute
<1> QED BY <1>4, <1>5

LEMMA BeganBefore ==
    ASSUME IInv, NEW p \in Seq(Nodes), NEW k \in 2..Len(p), Began(p, k)
    PROVE  Began(p, k - 1)
<1>1. PICK q : q = SubSeq(p, 1, k)
  OBVIOUS
<1>2. PICK o : o = SubSeq(p, 1, k - 1)
  OBVIOUS
<1>3. k \in 1..Len(p) /\ k - 1 \in 1..Len(p) /\ k \in Nat /\ k - 1 >= 1
  OBVIOUS
<1>4. q \in Seq(Nodes) /\ Len(q) = k /\ \A j \in 1..k : q[j] = p[j]
  BY <1>1, <1>3, Prefix
<1>5. o \in Seq(Nodes) /\ Len(o) = k - 1 /\ \A j \in 1..k - 1 : o[j] = p[j]
  BY <1>2, <1>3, Prefix
<1>6. \A j \in 1..Len(o) : o[j] = q[j]
  BY <1>3, <1>4, <1>5
<1>7. q # Root /\ Parent(q) = o
  BY <1>3, <1>4, <1>5, <1>6, OneShorter
<1>8. q \in DOMAIN calls
  BY <1>1 DEF Began
<1>9. o \in DOMAIN calls /\ calls[o].ran
  BY <1>7, <1>8 DEF IInv, Chain
<1> QED BY <1>2, <1>9 DEF Opened, Began

\* A call that took up the query comes from calls that all did.
LEMMA AllBegan ==
    ASSUME IInv, NEW p \in DOMAIN calls, Opened(calls[p]), NEW i \in 1..Len(p)
    PROVE  Began(p, i)
<1> DEFINE S == {n \in Nat : n < Len(p) /\ ~Began(p, Len(p) - n)}
<1>1. p \in Seq(Nodes) /\ Len(p) \in Nat /\ Len(p) >= 1
  BY NetType DEF IInv
<1>2. Began(p, Len(p))
  <2>1. SubSeq(p, 1, Len(p)) = p
    BY <1>1
  <2> QED BY <2>1 DEF Began
<1>3. S = {}
  <2>1. SUFFICES ASSUME S # {}
                 PROVE  FALSE
    OBVIOUS
  <2>2. PICK n \in S : \A m \in S : n <= m
    BY <2>1, LeastExists
  <2>3. n \in Nat /\ n < Len(p) /\ ~Began(p, Len(p) - n)
    OBVIOUS
  <2>4. n # 0
    BY <1>1, <1>2, <2>3
  <2>5. n - 1 \in Nat /\ n - 1 < Len(p) /\ ~(n <= n - 1)
    BY <1>1, <2>3, <2>4
  <2>6. n - 1 \notin S
    BY <2>2, <2>5
  <2>7. Began(p, Len(p) - (n - 1))
    BY <2>5, <2>6
  <2>8. Len(p) - (n - 1) \in 2..Len(p) /\ (Len(p) - (n - 1)) - 1 = Len(p) - n
    BY <1>1, <2>3, <2>4
  <2>9. Began(p, (Len(p) - (n - 1)) - 1)
    BY <1>1, <2>7, <2>8, BeganBefore
  <2> QED BY <2>3, <2>8, <2>9
<1>4. Len(p) - i \in Nat /\ Len(p) - i < Len(p) /\ Len(p) - (Len(p) - i) = i
  BY <1>1
<1>5. Len(p) - i \notin S
  BY <1>3
<1> QED BY <1>4, <1>5

\* The route of a call that took up the query is one a first copy may take.
LEMMA IsAFirstCopy ==
    ASSUME IInv, Counted, Complete, NEW p \in DOMAIN calls, Opened(calls[p])
    PROVE  p \in FirstCopies(Server(p))
<1>1. /\ p \in Seq(Nodes) /\ Len(p) \in Nat /\ Len(p) >= 1 /\ p[1] = User
      /\ Spares(p, 0) /\ calls[p].ttl \in Nat /\ calls[Root].ttl \in Nat
  <2>1. /\ p \in Seq(Nodes) /\ Len(p) >= 1 /\ p[1] = User
        /\ calls[p] \in Call /\ calls[Root] \in Call
    BY NetType DEF IInv, TypeInv
  <2>2. calls[p].ttl \in Nat /\ calls[Root].ttl \in Nat
    BY <2>1, SearchAssumption DEF Call
  <2>3. 0 \in Nat /\ 0 <= calls[p].ttl
    BY <2>2
  <2> QED BY <2>1, <2>2, <2>3 DEF Counted
<1>2. Len(p) - 1 \in 0..calls[Root].ttl /\ p \in [1..(Len(p) - 1) + 1 -> Nodes]
  <2>1. 1 \in 1..Len(p)
    BY <1>1
  <2>2. Len(p) - 1 + 0 <= calls[Root].ttl
    BY <1>1, <2>1 DEF Spares, Limit
  <2> QED BY <1>1, <2>2
<1>3. Permitted(p)
  <2>1. Agreed(p) /\ Granted(p, Len(p))
    BY DEF IInv, RoutesAgree
  <2> QED BY <2>1 DEF Permitted, Agreed, Granted
<1>4. ASSUME NEW a \in 1..Len(p), NEW b \in 1..Len(p), p[a] = p[b]
      PROVE  a = b
  <2>1. Began(p, a) /\ Began(p, b)
    BY AllBegan
  <2>2. /\ Len(SubSeq(p, 1, a)) = a /\ Server(SubSeq(p, 1, a)) = p[a]
        /\ Len(SubSeq(p, 1, b)) = b /\ Server(SubSeq(p, 1, b)) = p[b]
    BY <1>1, Prefix
  <2>3. \A q, o \in DOMAIN calls :
           Opened(calls[q]) /\ Opened(calls[o]) /\ Server(q) = Server(o) => q = o
    BY DEF IInv, OneCopy, Complete, Attended
  <2>4. SubSeq(p, 1, a) = SubSeq(p, 1, b)
    BY <1>4, <2>1, <2>2, <2>3 DEF Began
  <2> QED BY <2>2, <2>4
<1>5. IsInjective(p)
  BY <1>1, <1>4 DEF IsInjective
<1>6. p \in UNION {[1..k + 1 -> Nodes] : k \in 0..calls[Root].ttl}
  BY <1>2
<1> QED BY <1>1, <1>3, <1>5, <1>6 DEF FirstCopies, Server

\* n's handler answered a copy of the query.
Reached(n) == \E p \in DOMAIN calls : calls[p].ran /\ Server(p) = n

\* A search that is over went on from every node it reached with hops to spare.
LEMMA OneHopFurther ==
    ASSUME IInv, Complete, calls[Root].status = "closed",
           NEW p \in DOMAIN calls, calls[p].ran, calls[p].ttl > 0, NEW m \in MayAsk(p),
           <<m, Server(p)>> \in net.grants
    PROVE  Reached(m)
<1>1. p \in Seq(Nodes) /\ Len(p) >= 1 /\ m \in Nodes
  BY NetType DEF IInv, MayAsk
<1>2. PICK q : q = Append(p, m)
  OBVIOUS
<1>3. q \in DOMAIN calls
  BY <1>2 DEF Complete, Spread
<1>4. Parent(q) = p /\ Server(q) = m
  <2>1. q \in Seq(Nodes) /\ Len(q) = Len(p) + 1 /\ q[Len(p) + 1] = m /\ Parent(q) = p
    BY <1>1, <1>2, Appended
  <2> QED BY <2>1 DEF Server, Last
<1>5. CASE calls[q].ran
  BY <1>3, <1>4, <1>5 DEF Reached
<1>6. CASE ~calls[q].ran
  <2>1. calls[q].status = "closed"
    BY <1>3, AllClosed
  <2>2. m \in seen
    BY <1>3, <1>4, <1>6, <2>1 DEF Complete, Refused
  <2>3. PICK o \in DOMAIN calls : Opened(calls[o]) /\ Server(o) = m
    BY <2>2 DEF Complete, Answered
  <2>4. calls[o].status = "closed"
    BY AllClosed
  <2> QED BY <2>3, <2>4 DEF Opened, Reached
<1> QED BY <1>5, <1>6

\* Along a route that is short enough, every node was reached.
LEMMA RouteReached ==
    ASSUME IInv, Counted, Complete, calls[Root].status = "closed",
           NEW k \in 1..calls[Root].ttl, NEW r \in [1..k + 1 -> Nodes],
           r[1] = User, Permitted(r),
           \A i \in 2..k : \A o \in FirstCopies(r[i]) : Spares(o, k + 1 - i)
    PROVE  Reached(r[k + 1])
<1> DEFINE ttl == calls[Root].ttl
           S == {i \in Nat : i \in 1..k + 1 /\ ~Reached(r[i])}
<1>1. ttl \in Nat /\ k \in Nat /\ k >= 1 /\ k <= ttl
  <2>1. calls[Root] \in Call
    BY NetType DEF IInv
  <2>2. ttl \in Nat
    BY <2>1, SearchAssumption DEF Call
  <2> QED BY <2>2
<1>2. /\ Root \in DOMAIN calls /\ calls[Root].ran /\ Server(Root) = User
      /\ calls[Root].ttl > 0
  <2>1. Root \in DOMAIN calls /\ Server(Root) = User
    BY RootIsARoute DEF IInv, TypeInv
  <2>2. calls[Root].ran
    BY <2>1 DEF Complete, Refused
  <2>3. ttl > 0
    <3> HIDE DEF ttl
    <3> QED BY <1>1
  <2> QED BY <2>1, <2>2, <2>3
<1>3. Reached(User)
  BY <1>2 DEF Reached
<1>4. ASSUME NEW i \in 1..k, Reached(r[i])
      PROVE  Reached(r[i + 1])
  <2>1. i \in Nat /\ i \in 1..k + 1 /\ i + 1 \in 1..k + 1 /\ i \in 1..Len(r) - 1
    <3>1. i \in Nat /\ i \in 1..k + 1 /\ i + 1 \in 1..k + 1 /\ k + 1 \in Nat
      BY <1>1
    <3>2. r \in Seq(Nodes) /\ Len(r) = k + 1
      BY <3>1
    <3> QED BY <1>1, <3>1, <3>2
  <2>2. /\ <<r[i], r[i + 1]>> \in net.peers /\ <<r[i + 1], r[i]>> \in net.grants
        /\ i > 1 => r[i] \in net.serve /\ <<r[i], r[i + 1]>> \in net.reshare
        /\ r[i + 1] \in Nodes
    BY <2>1 DEF Permitted
  <2>3. CASE r[i] = User
    <3>1. r[i + 1] \in MayAsk(Root)
      BY <1>2, <2>2, <2>3 DEF MayAsk
    <3> QED BY <1>2, <2>2, <2>3, <3>1, OneHopFurther
  <2>4. CASE r[i] # User
    <3>1. PICK p \in DOMAIN calls : calls[p].ran /\ Server(p) = r[i]
      BY <1>4 DEF Reached
    <3>2. p # Root
      BY <1>2, <2>4, <3>1
    <3>3. i # 1
      BY <2>4
    <3>4. r[i + 1] \in MayAsk(p)
      BY <2>1, <2>2, <3>1, <3>2, <3>3 DEF MayAsk
    <3>5. calls[p].ttl > 0
      <4>1. Opened(calls[p]) /\ p \in FirstCopies(r[i])
        BY <3>1, IsAFirstCopy DEF Opened
      <4>2. i \in 2..k /\ k + 1 - i \in Nat /\ k + 1 - i > 0
        BY <1>1, <2>1, <3>3
      <4>3. Spares(p, k + 1 - i)
        BY <4>1, <4>2
      <4>4. k + 1 - i <= calls[p].ttl
        BY <4>1, <4>2, <4>3 DEF Counted
      <4>5. calls[p].ttl \in Nat
        <5>1. calls[p] \in Call
          BY NetType DEF IInv
        <5> QED BY <5>1, SearchAssumption DEF Call
      <4> QED BY <4>2, <4>4, <4>5
    <3> QED BY <2>2, <3>1, <3>4, <3>5, OneHopFurther
  <2> QED BY <2>3, <2>4
<1>5. S = {}
  <2>1. SUFFICES ASSUME S # {}
                 PROVE  FALSE
    OBVIOUS
  <2>2. PICK i \in S : \A j \in S : i <= j
    BY <2>1, LeastExists
  <2>3. i \in Nat /\ i \in 1..k + 1 /\ ~Reached(r[i])
    OBVIOUS
  <2>4. i # 1
    BY <1>3, <2>3
  <2>5. i - 1 \in Nat /\ i - 1 \in 1..k /\ i - 1 \in 1..k + 1 /\ ~(i <= i - 1)
    BY <1>1, <2>3, <2>4
  <2>6. i - 1 \notin S
    BY <2>2, <2>5
  <2>7. Reached(r[i - 1])
    BY <2>5, <2>6
  <2>8. Reached(r[(i - 1) + 1]) /\ (i - 1) + 1 = i
    BY <1>4, <2>3, <2>5, <2>7
  <2> QED BY <2>3, <2>8
<1>6. k + 1 \in Nat /\ k + 1 \in 1..k + 1
  BY <1>1
<1> QED BY <1>5, <1>6

\* The file of a node that was reached, and shows it whoever asks first, came home.
LEMMA ReachedIsShown ==
    ASSUME IInv, Counted, Complete, calls[Root].status = "closed", NEW n, Reached(n), ShownAnyway(n)
    PROVE  n \in {Origin(h) : h \in results}
<1>1. PICK p \in DOMAIN calls : calls[p].ran /\ Server(p) = n
  BY DEF Reached
<1>2. p \in FirstCopies(n) /\ p \in Seq(Nodes)
  BY <1>1, IsAFirstCopy, NetType DEF Opened, IInv
<1>3. Found(p)
  <2>1. ASSUME p # Root
        PROVE  <<Last(p), p[Len(p) - 1]>> \in net.shows
    <3>1. Len(p) > 1
      BY <2>1 DEF IInv, Chain
    <3> QED BY <1>1, <1>2, <3>1 DEF ShownAnyway, Server
  <2> QED BY <1>1, <2>1 DEF Found
<1>4. Held(p)
  BY <1>3 DEF Complete, Travels
<1>5. ASSUME NEW q \in DOMAIN calls
      PROVE  calls[q].pend = {}
  <2>1. calls[q].status = "closed"
    BY AllClosed
  <2> QED BY <2>1 DEF IInv, HitsAreFound
<1>6. PICK h \in results : Root \o h = p
  BY <1>4, <1>5 DEF Held
<1>7. Server(Root \o h) = Origin(h)
  BY HitRoute
<1> QED BY <1>1, <1>6, <1>7

\* run_search forwards to every peer it may and waits for each, handle_search
\* passes on every hit it is sent, and SeenQueries drops only a copy of what the
\* node answers: a search nothing disturbed that is over has shown the user every
\* file in reach, whatever order the copies and the hits came in.
THEOREM FindsAll == Spec => []FindsAllInReach
<1>1. CInv => FindsAllInReach
  <2> SUFFICES ASSUME CInv, calls[Root].status = "closed", Undisturbed, NEW n \in InReach
               PROVE  n \in {Origin(h) : h \in results}
    BY DEF FindsAllInReach
  <2>1. IInv /\ Counted /\ Complete
    BY DEF CInv
  <2>2. PICK k \in 1..calls[Root].ttl : \E r \in [1..k + 1 -> Nodes] :
           /\ r[1] = User /\ r[k + 1] = n /\ Permitted(r)
           /\ \A i \in 2..k : \A o \in FirstCopies(r[i]) : Spares(o, k + 1 - i)
    BY DEF InReach
  <2>3. PICK r \in [1..k + 1 -> Nodes] :
           /\ r[1] = User /\ r[k + 1] = n /\ Permitted(r)
           /\ \A i \in 2..k : \A o \in FirstCopies(r[i]) : Spares(o, k + 1 - i)
    BY <2>2
  <2>4. Reached(n)
    BY <2>1, <2>3, RouteReached
  <2>5. ShownAnyway(n)
    BY DEF InReach
  <2> QED BY <2>1, <2>4, <2>5, ReachedIsShown
<1> QED BY <1>1, Completeness, PTL
=============================================================================
