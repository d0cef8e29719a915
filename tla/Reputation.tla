----------------------------- MODULE Reputation -----------------------------
(***************************************************************************)
(* The reciprocity ledgers every node keeps of its neighbours              *)
(* (libfilestr/src/reputation.rs) and the Gets that read and write them:   *)
(* the gate and the two bills of handle_stream (filestrd/src/p2p.rs), the  *)
(* credit of fetch_source and the splice of relay_get (search.rs), and     *)
(* State::rep_action and rep_record_* (state.rs).                          *)
(*                                                                         *)
(* A Get is named by the route it takes: hop i of route r is r[i + 1]      *)
(* serving r[i], the last node owns the blob, the ones between splice.     *)
(* Bytes are counted in units, of which a blob has Blob.  The decay is     *)
(* exponential, so it may be applied at any time; a step of time is one    *)
(* half-life.  A counter is a float that is halved and never reaches zero; *)
(* what stands here is that number rounded up to whole units.  Policies    *)
(* are what the configuration gives: they do not change in a behavior.     *)
(***************************************************************************)
EXTENDS Integers, Sequences, FiniteSets, Functions

CONSTANTS
    Nodes,      \* node ids
    Routes,     \* routes a Get may take: fetcher, relays, owner
    Streams,    \* the Gets that may be open at one time
    Blob,       \* size of a blob
    Sizes,      \* sizes of the ranges that are fetched, Blob for the whole
    Extra,      \* what a relay splices besides: status line, bao encoding
    Partial,    \* nodes whose store may have only a part of the blob
    Allowance,  \* credit_limit + newcomer_budget
    FullDisk,   \* the nodes whose saves may fail
    Exempt,     \* <<n, m>>: n's policy for m does not enforce (over_limit)
    Rate,       \* Rate[<<n, m>>]: the half-life of n's policy for m
    Never,      \* the half-life of 0, which turns the decay off
    MaxBooked   \* bound on what a ledger may say before new Gets are asked

ASSUME ReputationAssumption ==
    /\ Routes \subseteq Seq(Nodes)
    /\ \A r \in Routes : Len(r) >= 2 /\ IsInjective(r)
    /\ IsFiniteSet(Streams)
    /\ {Blob, Extra, Allowance, MaxBooked} \subseteq Nat
    /\ Sizes \subseteq 1..Blob

VARIABLES
    ledger,   \* ledger[n][m]: n's PeerStats of m, as of now
    disk,     \* disk[n][m]: the same as n's last successful save wrote it
    gets,     \* gets[s]: the Get on stream s
    given,    \* history: <<n, m>> if n served m part of a blob and did not bill it
    skewed    \* history: a Get was cut short, a save failed, a node restarted or
              \* time passed between two books of one Get

vars == <<ledger, disk, gets, given, skewed>>

Stats == [served: Nat, received: Nat]

\* passed counts the hops whose gate has let the Get through, refused says that
\* the next one did not; due has the books it is still to be entered in: hop i's
\* server, and 0 for the fetcher.
NoGet == [route |-> <<>>, size |-> 0, passed |-> 0, refused |-> FALSE, due |-> {}]
Get == {g \in [route: Routes, size: Sizes, passed: Nat, refused: BOOLEAN, due: SUBSET Nat] :
           /\ g.passed < Len(g.route)
           /\ g.due \subseteq 0..g.passed}

Init ==
    /\ ledger = [n \in Nodes |-> [m \in Nodes |-> [served |-> 0, received |-> 0]]]
    /\ disk = ledger
    /\ gets = [s \in Streams |-> NoGet]
    /\ given = {}
    /\ skewed = FALSE

-----------------------------------------------------------------------------
\* PeerStats::debt
Debt(stats) == stats.served - stats.received

\* Mutant: a peer that has given nothing yet is a newcomer, however much it took.
Serves_Newcomers(n, m) == ledger[n][m].received = 0 \/ Debt(ledger[n][m]) <= Allowance

\* reputation::decide on n's stats of m.
Serves(n, m) == <<n, m>> \in Exempt \/ Debt(ledger[n][m]) <= Allowance

\* fetch_source asks the first node of a route; the bound is on the model.
Ask(s, r, z) ==
    /\ gets[s] = NoGet
    /\ \A n, m \in Nodes : ledger[n][m].served <= MaxBooked /\ ledger[n][m].received <= MaxBooked
    /\ gets' = [gets EXCEPT ![s] = [route |-> r, size |-> z, passed |-> 0,
                                  refused |-> FALSE, due |-> {}]]
    /\ UNCHANGED <<ledger, disk, given, skewed>>

\* All gates have let the Get through: the content flows.
Flows(g) == g.passed + 1 = Len(g.route)

\* The gate of handle_stream at the next hop; the last one is the owner's.  A
\* refusal goes back to the fetcher, and the relays on its way splice it like any
\* other answer.
Gate(s) ==
    LET g == gets[s]
        hop == g.passed + 1
    IN  /\ g # NoGet /\ ~g.refused /\ ~Flows(g)
        /\ gets' = [gets EXCEPT ![s] =
              IF ~Serves(g.route[hop + 1], g.route[hop])
              THEN IF g.due = {} THEN NoGet ELSE [g EXCEPT !.refused = TRUE]
              ELSE [g EXCEPT !.passed = hop,
                             !.due = @ \cup {hop} \cup
                                     IF hop + 1 = Len(g.route) THEN {0} ELSE {}]]
        /\ UNCHANGED <<ledger, disk, given, skewed>>

\* Mutant: a relay does not bill what it spliced.
Bytes_OwnersOnly(g, i) == IF i + 1 = Len(g.route) THEN Blob ELSE 0

\* What the server of hop i bills: the owner the size of the blob, whatever range
\* was asked for, a relay all the bytes that it spliced.
Bytes(g, i) ==
    IF g.refused THEN Extra ELSE IF i + 1 = Len(g.route) THEN Blob ELSE g.size + Extra

\* Mutant: one balance instead of two counters.
Entered_Net(stats, field, bytes) ==
    IF field = "served" THEN [stats EXCEPT !.served = @ + bytes]
    ELSE [stats EXCEPT !.served = @ - bytes]

\* RepStore::record_served and record_received.
Entered(stats, field, bytes) ==
    IF field = "served" THEN [stats EXCEPT !.served = @ + bytes]
    ELSE [stats EXCEPT !.received = @ + bytes]

\* rep_record_served or rep_record_received: the entry, then RepStore::save,
\* whose failure is only logged.
Record(n, m, field, bytes) ==
    /\ ledger' = [ledger EXCEPT ![n][m] = Entered(@, field, bytes)]
    /\ \/ /\ disk' = [disk EXCEPT ![n] = ledger'[n]]
          /\ UNCHANGED skewed
       \/ /\ n \in FullDisk
          /\ skewed' = TRUE
          /\ UNCHANGED disk

\* One book of a Get: a server's once its own splice or serve_local is over, the
\* fetcher's once the last byte verified.  Nobody waits for anybody, and the stream
\* is free when all have been kept.  An owner bills a blob only if its store has all
\* of it, and a range it served need not be all.
Book(s, i) ==
    LET g == gets[s]
        n == g.route[i + 1]
    IN  /\ g # NoGet /\ (g.refused \/ Flows(g))
        /\ i \in g.due
        /\ gets' = [gets EXCEPT ![s] =
                       IF g.due = {i} THEN NoGet ELSE [g EXCEPT !.due = @ \ {i}]]
        /\ \/ /\ i = 0
              /\ Record(n, g.route[2], "received", g.size)
              /\ UNCHANGED given
           \/ /\ i # 0
              /\ Record(n, g.route[i], "served", Bytes(g, i))
              /\ UNCHANGED given
           \/ /\ i + 1 = Len(g.route) /\ n \in Partial /\ g.size < Blob
              /\ given' = given \cup {<<n, g.route[i]>>}
              /\ UNCHANGED <<ledger, disk, skewed>>

\* A stall, a broken connection, a client that goes away: the handlers on the
\* route return an error before they get to their books.  One that has finished
\* its part may still keep its own, so any of the books can be what is dropped.
CutShort(s, i) ==
    LET g == gets[s]
    IN  /\ g # NoGet
        /\ gets' = [gets EXCEPT ![s] =
                       IF i \in g.due /\ g.due # {i} /\ (g.refused \/ Flows(g))
                       THEN [g EXCEPT !.due = @ \ {i}] ELSE NoGet]
        /\ skewed' = TRUE
        /\ UNCHANGED <<ledger, disk, given>>

\* Mutant: old service is never forgotten.
Faded_Grudge(stats) == [served |-> stats.served, received |-> (stats.received + 1) \div 2]

\* PeerStats::decay over one half-life.
Faded(stats) ==
    [served |-> (stats.served + 1) \div 2, received |-> (stats.received + 1) \div 2]

\* The books whose half-life is k, a half-life later.
FadedAll(books, k) ==
    [n \in Nodes |-> [m \in Nodes |->
        IF Rate[<<n, m>>] = k THEN Faded(books[n][m]) ELSE books[n][m]]]

HalfBooked(g) == g.passed > 0 /\ Flows(g) /\ g.due # 0..g.passed

Rates == Range(Rate) \ {Never}

\* The half-life k passes; updated_at is in the file, so a saved ledger decays as
\* well.
HalfLife(k) ==
    /\ ledger' = FadedAll(ledger, k)
    /\ disk' = FadedAll(disk, k)
    /\ skewed' = (skewed \/ \E s \in Streams : HalfBooked(gets[s]))
    /\ UNCHANGED <<gets, given>>

\* run loads reputation.json; the Gets through the node are gone.
Restart(n) ==
    /\ ledger' = [ledger EXCEPT ![n] = disk[n]]
    /\ gets' = [s \in Streams |-> IF n \in Range(gets[s].route) THEN NoGet ELSE gets[s]]
    /\ skewed' = TRUE
    /\ UNCHANGED <<disk, given>>

Next ==
    \/ \E s \in Streams :
          \/ \E r \in Routes, z \in Sizes : Ask(s, r, z)
          \/ Gate(s)
          \/ \E i \in gets[s].due : Book(s, i)
          \/ \E i \in gets[s].due \cup {0} : CutShort(s, i)
    \/ \E k \in Rates : HalfLife(k)
    \/ \E n \in Nodes : Restart(n)

Spec == Init /\ [][Next]_vars

-----------------------------------------------------------------------------
\* Every variable has its shape.
TypeOK ==
    /\ ledger \in [Nodes -> [Nodes -> Stats]]
    /\ disk \in [Nodes -> [Nodes -> Stats]]
    /\ gets \in [Streams -> Get \cup {NoGet}]
    /\ given \subseteq Nodes \X Nodes
    /\ skewed \in BOOLEAN

\* The hop of Get g over which n serves m and has still to bill.
OwedTo(g, n, m) == \E i \in g.due \ {0} : g.route[i] = m /\ g.route[i + 1] = n

\* The Gets n let m through for and has not billed.
Unbilled(n, m) == {s \in Streams : OwedTo(gets[s], n, m)}

\* The gate is checked before the content flows and the bill comes after, so a
\* peer can run up debt on all its open streams at once; but no more than that, a
\* stream never being billed more than a blob and what a relay splices with it,
\* whatever is refused, cut short, saved or not, faded or restarted.
DebtIsBounded ==
    \A n, m \in Nodes :
        <<n, m>> \notin Exempt =>
            Debt(ledger[n][m]) + Cardinality(Unbilled(n, m)) * (Blob + Extra)
                <= Allowance + Cardinality(Streams) * (Blob + Extra)

\* The Gets over which the fetcher n has still to credit m.
Uncredited(n, m) ==
    {s \in Streams : 0 \in gets[s].due /\ gets[s].route[1] = n /\ gets[s].route[2] = m}

\* The credit m has with n is backed by n's bill, entered or about to be.
Backed(n, m) ==
    ledger[m][n].received <= ledger[n][m].served + Cardinality(Unbilled(n, m)) * Blob

\* The two ends of an edge forget at one rate.
EvenRates(n, m) == Rate[<<n, m>>] = Rate[<<m, n>>]

\* DESIGN 9.1, "delivery is provable, so the ledger is tamper-evident at each
\* edge": between two nodes with the same half-life for each other nobody has been
\* credited with bytes it did not put, or is not about to put, on the fetcher's
\* account, unless something was skewed or a part of a blob was given for nothing.
CreditIsBilled ==
    ~skewed => \A n, m \in Nodes : EvenRates(n, m) /\ <<n, m>> \notin given => Backed(n, m)

\* DESIGN 9.1, "neither grudges nor goodwill are permanent": a peer that is denied
\* and has nothing on the way gets no deeper into debt, whatever it asks for and
\* whoever restarts, and every half-life lowers what it owes down to one unit, even if
\* it never gives anything back.
DenialsFade ==
    [][\A n \in Nodes \ FullDisk, m \in Nodes :
          ~Serves(n, m) /\ Unbilled(n, m) = {} =>
              /\ Unbilled(n, m)' = {}
              /\ Debt(ledger'[n][m]) <= Debt(ledger[n][m])
              /\ HalfLife(Rate[<<n, m>>]) /\ Debt(ledger[n][m]) > 1 =>
                     Debt(ledger'[n][m]) < Debt(ledger[n][m])]_vars
=============================================================================
