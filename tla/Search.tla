------------------------------- MODULE Search -------------------------------
(***************************************************************************)
(* One federated query, from the user's `search` on one node through the   *)
(* grant graph and back: run_search and forward_to_peer (filestrd/src/     *)
(* search.rs), handle_search of the peer protocol (filestrd/src/p2p.rs)    *)
(* and of the control socket (ctl_server.rs), and the per-node tables of   *)
(* state.rs they go through (SeenQueries, Handles).                        *)
(*                                                                         *)
(* A call is one bidirectional stream, named by the route the query took:  *)
(* <<r, a, b>> is b serving a, who serves r, whose user asked.  Each node  *)
(* holds one matching file, named by the node.  A handle is 16 random      *)
(* bytes; it is written here as the route it stands for, <<n>> for n's own *)
(* file and <<n>> \o h for the file behind the upstream handle h.  Handles *)
(* expire after an hour, query ids are forgotten after 4096 others: both   *)
(* are far beyond one query and left out.                                  *)
(***************************************************************************)
EXTENDS Naturals, Sequences, FiniteSets, SequencesExt

CONSTANTS
    Nodes,        \* node ids
    User,         \* the node whose user searches
    Networks,     \* grant graphs the query may run in (see Network)
    MaxTtl,       \* the largest search.max_ttl of any node
    Failures      \* bound on early timeouts, hangs and restarts

ASSUME SearchAssumption ==
    /\ User \in Nodes /\ IsFiniteSet(Nodes)
    /\ {MaxTtl, Failures} \subseteq Nat

\* What the nodes' grants and configurations say while the query runs: whom a
\* node has as a peer, whose content it may re-serve, who has a grant from whom
\* (<<n, m>>: m has one from n), whose view shows its holder the matching file,
\* who serves others' content at all, and each node's own search.result_cap,
\* search.max_ttl and search.fanout.
Network == [peers: SUBSET (Nodes \X Nodes), reshare: SUBSET (Nodes \X Nodes),
            grants: SUBSET (Nodes \X Nodes), shows: SUBSET (Nodes \X Nodes),
            serve: SUBSET Nodes, cap: [Nodes -> Nat], maxTtl: [Nodes -> 0..MaxTtl],
            fanout: [Nodes -> Nat]]

ASSUME NetworksAssumption == Networks \subseteq Network

VARIABLES
    net,      \* the Network
    seen,     \* nodes whose SeenQueries has this query's id
    calls,    \* route -> the state of that call
    handles,  \* handles[n]: the handles n minted and still resolves
    results,  \* the hits shown to the user: the handle, <<>> for an own file
    failures, \* early timeouts, hangs and restarts so far
    hung,     \* nodes that no longer answer, though nothing tells their peers
    restarted \* history: the nodes that restarted

vars == <<net, seen, calls, handles, results, failures, hung, restarted>>

Root == <<User>>
Server(p) == Last(p)
Parent(p) == Front(p)
Children(p) == {q \in DOMAIN calls : Len(q) > 1 /\ Parent(q) = p}

\* status is the serving side: request on the way, handler running, handler
\* over.  reading is the asking side: its forward_to_peer is still there.
Asked(ttl) == [status |-> "sent", reading |-> TRUE, ttl |-> ttl, ran |-> FALSE,
               pend |-> {}, count |-> 0]

Init ==
    /\ net \in Networks
    /\ \E ttl \in 0..net.maxTtl[User] : calls = [q \in {Root} |-> [Asked(ttl) EXCEPT !.status = "open"]]
    /\ seen = {User}
    /\ handles = [n \in Nodes |-> {}]
    /\ results = {}
    /\ failures = 0
    /\ hung = {}
    /\ restarted = {}

-----------------------------------------------------------------------------
\* The handler of p ends: its channel is dropped with what was in it.  What its
\* run_search started is aborted or has nobody left to deliver to.
Over(c) == [c EXCEPT !.status = "closed", !.pend = {}]

\* Mutant: a query id is looked up but not remembered.
Remember_Not(n) == UNCHANGED seen

\* SeenQueries::check_and_insert on this query's id.
Remember(n) == seen' = seen \cup {n}

\* ttl.min(max_ttl): no node lets a query go further than its own limit.
Capped(n, ttl) == IF ttl <= net.maxTtl[n] THEN ttl ELSE net.maxTtl[n]

\* p2p::handle_stream and handle_search: without a grant the call is refused, a
\* query id already seen is answered SearchDone at once.  A request the asker
\* no longer waits for may not even arrive.
Receive(p) ==
    LET n == Server(p)
        admitted == <<n, Server(Parent(p))>> \in net.grants
    IN  /\ calls[p].status = "sent"
        /\ \/ /\ admitted /\ n \notin seen
              /\ Remember(n)
              /\ calls' = [calls EXCEPT ![p].status = "open", ![p].ttl = Capped(n, @)]
           \/ /\ ~admitted \/ n \in seen \/ ~calls[p].reading \/ calls[Parent(p)].status = "closed"
              /\ calls' = [calls EXCEPT ![p] = Over(@)]
              /\ UNCHANGED seen
        /\ UNCHANGED <<net, handles, results, failures, hung, restarted>>

\* Mutant: the upstream's allow_reshare is not looked at.
MayAsk_IgnoresReshare(p) ==
    IF p = Root \/ Server(p) \in net.serve
    THEN {m \in Nodes : <<Server(p), m>> \in net.peers} ELSE {}

\* The peers run_search forwards to: the user's own search asks everyone, a
\* peer's is forwarded only by a node that reshares, to peers that allow it.
MayAsk(p) ==
    LET n == Server(p)
    IN  IF p = Root THEN {m \in Nodes : <<n, m>> \in net.peers}
        ELSE {m \in Nodes : <<n, m>> \in net.peers \cap net.reshare /\ n \in net.serve}

Shown(p) == p = Root \/ <<Server(p), Server(Parent(p))>> \in net.shows

\* take(fanout) of the peer list; which ones come first is not modelled.
Taken(n, S) ==
    {T \in SUBSET S : \/ Cardinality(T) = net.fanout[n] /\ Cardinality(S) >= net.fanout[n]
                      \/ T = S /\ Cardinality(S) < net.fanout[n]}

\* Mutant: the query is forwarded with the TTL it came with.
Forward_SameTtl(p, T) == [q \in {Append(p, m) : m \in T} |-> Asked(calls[p].ttl)]

Forward(p, T) == [q \in {Append(p, m) : m \in T} |-> Asked(calls[p].ttl - 1)]

\* search::run_search: the local matches, then the forwards.
RunSearch(p) ==
    /\ calls[p].status = "open" /\ ~calls[p].ran
    /\ \E T \in IF calls[p].ttl = 0 THEN {{}} ELSE Taken(Server(p), MayAsk(p)) :
          LET asked == Forward(p, T)
              here == [calls EXCEPT ![p].ran = TRUE,
                                    ![p].pend = IF Shown(p) THEN {<<>>} ELSE {}]
          IN  calls' = [q \in DOMAIN calls \cup DOMAIN asked |->
                           IF q \in DOMAIN asked THEN asked[q] ELSE here[q]]
    /\ UNCHANGED <<net, seen, handles, results, failures, hung, restarted>>

\* Mutant: the upstream's handle is passed on instead of a minted one.
Minted_PassedOn(n, h) == IF h = <<>> THEN <<n>> ELSE h

\* Handles::mint for the file behind h.
Minted(n, h) == <<n>> \o h

\* handle_search passes a hit on under a handle of its own and forward_to_peer
\* puts it in the asker's channel.  If the asker is gone the hit is lost, and so
\* is the handler once a write fails.  Past the result cap the search is over.
Relay(p) ==
    LET n == Server(p)
        up == Parent(p)
    IN  /\ p # Root /\ calls[p].status = "open"
        /\ \E h \in calls[p].pend :
              \/ /\ calls[p].count < net.cap[n]
                 /\ handles' = [handles EXCEPT ![n] = @ \cup {Minted(n, h)}]
                 /\ \/ /\ calls[p].reading /\ calls[up].status = "open"
                       /\ calls' = [calls EXCEPT ![p].pend = @ \ {h}, ![p].count = @ + 1,
                                                 ![up].pend = @ \cup {Minted(n, h)}]
                    \/ /\ ~calls[p].reading \/ calls[up].status = "closed"
                       /\ \/ calls' = [calls EXCEPT ![p].pend = @ \ {h}, ![p].count = @ + 1]
                          \/ calls' = [calls EXCEPT ![p] = Over(@)]
              \/ /\ calls[p].count >= net.cap[n]
                 /\ calls' = [calls EXCEPT ![p] = Over(@)]
                 /\ UNCHANGED handles
        /\ UNCHANGED <<net, seen, results, failures, hung, restarted>>

\* ctl_server::handle_search shows the user a hit, up to its result cap.
Show ==
    /\ calls[Root].status = "open"
    /\ \E h \in calls[Root].pend :
          IF calls[Root].count < net.cap[User]
          THEN /\ results' = results \cup {h}
               /\ calls' = [calls EXCEPT ![Root].pend = @ \ {h}, ![Root].count = @ + 1]
          ELSE calls' = [calls EXCEPT ![Root] = Over(@)] /\ UNCHANGED results
    /\ UNCHANGED <<net, seen, handles, failures, hung, restarted>>

\* Mutant: run_search returns once its requests are on the way.
Gone_Early(q) == TRUE

\* Mutant: a forward whose peer never answers keeps the search open.
Gone_Waits(q) == calls[q].status = "closed"

\* forward_to_peer has returned: SearchDone, an error, or the deadline.
Gone(q) == calls[q].status = "closed" \/ ~calls[q].reading

\* A call is answered SearchDone when its hits are passed on and its forwards
\* are over.
Finish(p) ==
    /\ calls[p].status = "open" /\ calls[p].ran /\ calls[p].pend = {}
    /\ \A q \in Children(p) : Gone(q)
    /\ calls' = [calls EXCEPT ![p] = Over(@)]
    /\ UNCHANGED <<net, seen, handles, results, failures, hung, restarted>>

\* The asker's deadline for one peer passes, or the connection breaks: the
\* serving side finds out when it next writes.
TimeOut(p) ==
    /\ p # Root /\ calls[p].reading /\ calls[p].status # "closed"
    /\ \/ /\ Server(p) \in hung
          /\ UNCHANGED failures
       \/ /\ Server(p) \notin hung
          /\ failures < Failures
          /\ failures' = failures + 1
    /\ calls' = [calls EXCEPT ![p].reading = FALSE]
    /\ UNCHANGED <<net, seen, handles, results, hung, restarted>>

\* A node drops off the network without closing its connections.
Hang(n) ==
    /\ failures < Failures
    /\ n # User /\ n \notin hung
    /\ hung' = hung \cup {n}
    /\ failures' = failures + 1
    /\ UNCHANGED <<net, seen, calls, handles, results, restarted>>

\* A node restarts: its tables are gone, and both ends of its calls.
Restart(n) ==
    /\ failures < Failures
    /\ n # User
    /\ seen' = seen \ {n}
    /\ handles' = [handles EXCEPT ![n] = {}]
    /\ calls' = [q \in DOMAIN calls |->
                    IF Server(q) = n THEN Over(calls[q])
                    ELSE IF q # Root /\ Server(Parent(q)) = n
                         THEN [calls[q] EXCEPT !.reading = FALSE] ELSE calls[q]]
    /\ failures' = failures + 1
    /\ restarted' = restarted \cup {n}
    /\ hung' = hung \ {n}
    /\ UNCHANGED <<net, results>>

Step(p) ==
    /\ Server(p) \notin hung
    /\ Receive(p) \/ RunSearch(p) \/ Relay(p) \/ Finish(p)

Next ==
    \/ \E p \in DOMAIN calls : Step(p) \/ TimeOut(p)
    \/ Show
    \/ \E n \in Nodes : Hang(n) \/ Restart(n)

Spec == Init /\ [][Next]_vars

\* The runtime polls the tasks of a node that runs, and search.timeout_secs does
\* pass; nothing has to fail.
Progress == Show \/ \E p \in DOMAIN calls : Step(p)
Deadlines == \E p \in DOMAIN calls : Server(p) \in hung /\ TimeOut(p)

FairSpec == Spec /\ WF_vars(Progress) /\ WF_vars(Deadlines)

-----------------------------------------------------------------------------
\* Every variable has its shape; a route is no longer than the TTL allows, which
\* is what keeps one query's stream of requests finite.
TypeOK ==
    /\ net \in Network
    /\ seen \in SUBSET Nodes
    /\ \A p \in DOMAIN calls :
          /\ Len(p) \in 1..MaxTtl + 1
          /\ calls[p].status \in {"sent", "open", "closed"}
          /\ calls[p].ttl \in 0..MaxTtl
          /\ calls[p].count \in 0..net.cap[Server(p)]
    /\ failures \in 0..Failures
    /\ hung \in SUBSET Nodes /\ restarted \in SUBSET Nodes

\* Whose file a hit of the user's is.
Origin(h) == IF h = <<>> THEN User ELSE Last(h)

\* SeenQueries as loop prevention (DESIGN 6): as long as no node restarted in
\* the middle, one file reaches the user along one route only, and the user's
\* own file never comes back from a peer.
NoDuplicateHits ==
    restarted = {} => \A h1, h2 \in results : Origin(h1) = Origin(h2) => h1 = h2

\* Handles::mint at every hop (7.1): whatever has been dropped or timed out, the
\* hit the user was shown can be fetched hop by hop, each node dialing a peer of
\* its own that resolves the handle it holds, down to the file's owner.
HitsResolve ==
    \A h \in results : \A i \in 1..Len(h) :
        /\ <<(Root \o h)[i], h[i]>> \in net.peers
        /\ SubSeq(h, i, Len(h)) \in handles[h[i]] \/ h[i] \in restarted

\* Whether the hops of route r were each allowed: everyone on it has a grant
\* from the next, only willing nodes relay, and only what allows it is relayed.
Permitted(r) ==
    \A i \in 1..Len(r) - 1 :
        /\ <<r[i], r[i + 1]>> \in net.peers
        /\ <<r[i + 1], r[i]>> \in net.grants
        /\ i > 1 => r[i] \in net.serve /\ <<r[i], r[i + 1]>> \in net.reshare

\* run_search and handle_stream together: a file is shown to the user only along
\* a route every node on it agreed to, from an owner whose view shows it to the
\* node that asked.
HitsArePermitted ==
    \A h \in results \ {<<>>} :
        LET r == Root \o h
        IN  Permitted(r) /\ <<Last(r), r[Len(r) - 1]>> \in net.shows

\* How far the jth node on the route r lets a query go: the user as far as the
\* search asked for, everyone else as far as its own max_ttl.
Limit(r, j) == IF j = 1 THEN calls[Root].ttl ELSE net.maxTtl[r[j]]

\* A copy of the query that took the route r could still go t hops further.
Spares(r, t) == \A j \in 1..Len(r) : Len(r) - j + t <= Limit(r, j)

\* The routes along which n may get its first copy of the query.
FirstCopies(n) ==
    {r \in UNION {[1..k + 1 -> Nodes] : k \in 0..calls[Root].ttl} :
        r[1] = User /\ Last(r) = n /\ IsInjective(r) /\ Permitted(r) /\ Spares(r, 0)}

\* n answers the first copy and no other, so its file is sure to come only if n
\* shows it to everyone that copy may come from.
ShownAnyway(n) ==
    \A r \in FirstCopies(n) : Len(r) > 1 => <<n, r[Len(r) - 1]>> \in net.shows

\* The owners within the search's TTL, along a route whose every node has the hops
\* to spare that are left on it, whichever copy of the query it answers.
InReach ==
    {n \in Nodes : ShownAnyway(n) /\ \E k \in 1..calls[Root].ttl : \E r \in [1..k + 1 -> Nodes] :
        /\ r[1] = User /\ r[k + 1] = n /\ Permitted(r)
        /\ \A i \in 2..k : \A o \in FirstCopies(r[i]) : Spares(o, k + 1 - i)}

\* Nothing was lost, no result cap hit, and no node had more peers to ask than its
\* fanout.
Undisturbed ==
    /\ failures = 0
    /\ \A p \in DOMAIN calls :
          /\ calls[p].count < net.cap[Server(p)]
          /\ Cardinality(MayAsk(p)) <= net.fanout[Server(p)]

\* DESIGN 6, "breadth-first over the grant graph": a search that ended undisturbed
\* has shown every file in reach, whichever copy of the query was the first at each
\* node and however far each lets a query go.
FindsAllInReach ==
    calls[Root].status = "closed" /\ Undisturbed
        => InReach \subseteq {Origin(h) : h \in results}

\* run_search "returns when all branches finished or the deadline passed": the
\* user gets SearchDone, whatever cycles the grants form and whoever fails.
SearchEnds == <>(calls[Root].status = "closed")
=============================================================================
