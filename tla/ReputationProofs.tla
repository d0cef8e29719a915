-------------------------- MODULE ReputationProofs --------------------------
(***************************************************************************)
(* Proofs about Reputation, for any nodes, routes, streams, sizes and      *)
(* limits: its types, the debt a peer can run up, that a denial fades, and *)
(* that what one end of an edge credits the other bills.                   *)
(***************************************************************************)
EXTENDS Reputation, FiniteSetTheorems, TLAPS

-----------------------------------------------------------------------------
(* What each step does to the types.                                       *)

LEMMA NoGetIsIdle ==
    ASSUME NEW g \in Get
    PROVE  g # NoGet
BY ReputationAssumption DEF Get, NoGet

\* A Get whose gates and books are updated is still one.
LEMMA GetUpdate ==
    ASSUME NEW g \in Get, NEW p \in Nat, NEW d \in SUBSET (0..p), p < Len(g.route)
    PROVE  /\ [g EXCEPT !.passed = p, !.due = d] \in Get
           /\ p = g.passed => [g EXCEPT !.due = d] \in Get
<1> DEFINE G == [route: Routes, size: Sizes, passed: Nat, refused: BOOLEAN, due: SUBSET Nat]
<1>1. g \in G /\ d \in SUBSET Nat
  BY DEF Get
<1>2. [g EXCEPT !.passed = p, !.due = d] \in G
  BY <1>1
<1>3. [g EXCEPT !.due = d] \in G
  BY <1>1
<1>4. ASSUME NEW h \in G, h.passed < Len(h.route), h.due \subseteq 0..h.passed
      PROVE  h \in Get
  BY <1>4 DEF Get
<1>5. /\ [g EXCEPT !.passed = p, !.due = d].route = g.route
      /\ [g EXCEPT !.passed = p, !.due = d].passed = p
      /\ [g EXCEPT !.passed = p, !.due = d].due = d
      /\ [g EXCEPT !.due = d].route = g.route
      /\ [g EXCEPT !.due = d].passed = g.passed
      /\ [g EXCEPT !.due = d].due = d
  BY <1>1
<1> HIDE DEF G
<1>6. [g EXCEPT !.passed = p, !.due = d] \in Get
  BY <1>2, <1>4, <1>5
<1>7. ASSUME p = g.passed
      PROVE  [g EXCEPT !.due = d] \in Get
  BY <1>3, <1>4, <1>5, <1>7
<1> QED BY <1>6, <1>7

LEMMA RefusedGet ==
    ASSUME NEW g \in Get
    PROVE  [g EXCEPT !.refused = TRUE] \in Get
BY DEF Get

LEMMA EnteredType ==
    ASSUME NEW st \in Stats, NEW bytes \in Nat, NEW field \in {"served", "received"}
    PROVE  Entered(st, field, bytes) \in Stats
BY DEF Entered, Stats

LEMMA FadedType ==
    ASSUME NEW st \in Stats
    PROVE  Faded(st) \in Stats
<1>1. \A k \in Nat : (k + 1) \div 2 \in Nat
  OBVIOUS
<1> QED BY <1>1 DEF Faded, Stats

LEMMA RecordType ==
    ASSUME TypeOK, NEW n \in Nodes, NEW m \in Nodes, NEW bytes \in Nat,
           NEW field \in {"served", "received"}, Record(n, m, field, bytes)
    PROVE  /\ ledger' \in [Nodes -> [Nodes -> Stats]]
           /\ disk' \in [Nodes -> [Nodes -> Stats]]
           /\ skewed' \in BOOLEAN
<1>1. Entered(ledger[n][m], field, bytes) \in Stats
  BY EnteredType DEF TypeOK
<1>2. ledger' \in [Nodes -> [Nodes -> Stats]]
  BY <1>1 DEF Record, TypeOK
<1> QED BY <1>2 DEF Record, TypeOK

LEMMA RouteOfGet ==
    ASSUME NEW g \in Get
    PROVE  /\ g.route \in Seq(Nodes) /\ Len(g.route) \in Nat /\ Len(g.route) >= 2
           /\ IsInjective(g.route)
           /\ \A i \in 1..Len(g.route) : g.route[i] \in Nodes
BY ReputationAssumption DEF Get

\* The most that one stream is ever billed.
Bill == Blob + Extra

LEMMA BytesType ==
    ASSUME NEW g \in Get, NEW i \in Nat
    PROVE  Bytes(g, i) \in Nat /\ Bytes(g, i) <= Bill /\ g.size \in Nat
<1>1. g.size \in Sizes
  BY DEF Get
<1>2. Blob \in Nat /\ Extra \in Nat /\ g.size \in 1..Blob
  BY <1>1, ReputationAssumption
<1>3. Bytes(g, i) \in {Extra, Blob, g.size + Extra}
  BY DEF Bytes
<1> QED BY <1>2, <1>3 DEF Bill

LEMMA InitType == Init => TypeOK
<1>1. [served |-> 0, received |-> 0] \in Stats
  BY DEF Stats
<1>2. ASSUME Init
      PROVE  ledger \in [Nodes -> [Nodes -> Stats]]
  BY <1>1, <1>2 DEF Init
<1> QED BY <1>2 DEF Init, TypeOK

LEMMA AskType ==
    ASSUME TypeOK, NEW s \in Streams, NEW r \in Routes, NEW z \in Sizes, Ask(s, r, z)
    PROVE  TypeOK'
<1>1. [route |-> r, size |-> z, passed |-> 0, refused |-> FALSE, due |-> {}] \in Get
  BY ReputationAssumption DEF Get
<1> QED BY <1>1 DEF Ask, TypeOK

LEMMA GateType ==
    ASSUME TypeOK, NEW s \in Streams, Gate(s)
    PROVE  TypeOK'
<1> DEFINE g == gets[s]
           hop == g.passed + 1
           due == g.due \cup {hop} \cup IF hop + 1 = Len(g.route) THEN {0} ELSE {}
           served == [g EXCEPT !.passed = hop, !.due = due]
<1>1. g \in Get /\ hop < Len(g.route)
  <2>1. g \in Get /\ ~Flows(g)
    BY DEF Gate, TypeOK
  <2>2. g.passed \in Nat /\ g.passed < Len(g.route) /\ Len(g.route) \in Nat
    BY <2>1, RouteOfGet DEF Get
  <2> QED BY <2>1, <2>2 DEF Flows
<1>2. hop \in Nat /\ due \in SUBSET (0..hop)
  BY <1>1 DEF Get
<1>3. served \in Get
  <2> HIDE DEF hop, due
  <2> QED BY <1>1, <1>2, GetUpdate
<1>4. served = [g EXCEPT !.passed = hop,
                         !.due = @ \cup {hop} \cup
                                 IF hop + 1 = Len(g.route) THEN {0} ELSE {}]
  BY <1>1 DEF Get
<1>5. [g EXCEPT !.refused = TRUE] \in Get
  BY <1>1, RefusedGet
<1>6. PICK h \in Get \cup {NoGet} : gets' = [gets EXCEPT ![s] = h]
  BY <1>3, <1>4, <1>5 DEF Gate
<1>7. gets' \in [Streams -> Get \cup {NoGet}]
  BY <1>6 DEF TypeOK
<1> QED BY <1>7 DEF Gate, TypeOK

LEMMA BookType ==
    ASSUME TypeOK, NEW s \in Streams, NEW i \in gets[s].due, Book(s, i)
    PROVE  TypeOK'
<1> DEFINE g == gets[s]
           less == [g EXCEPT !.due = @ \ {i}]
<1>1. g \in Get
  BY DEF Book, TypeOK
<1>2. less \in Get
  <2>1. g.passed \in Nat /\ g.due \ {i} \in SUBSET (0..g.passed) /\ g.passed < Len(g.route)
    BY <1>1 DEF Get
  <2>2. [g EXCEPT !.due = g.due \ {i}] \in Get
    BY <1>1, <2>1, GetUpdate
  <2> QED BY <1>1, <2>2 DEF Get
<1>3. gets' \in [Streams -> Get \cup {NoGet}]
  BY <1>2 DEF Book, TypeOK
<1>4. i \in Nat /\ i < Len(g.route)
  BY <1>1, RouteOfGet DEF Get
<1>5. g.size \in Nat /\ Bytes(g, i) \in Nat
  BY <1>1, <1>4, BytesType
<1>6. ASSUME i = 0, Record(g.route[i + 1], g.route[2], "received", g.size), UNCHANGED given
      PROVE  TypeOK'
  <2>1. g.route[i + 1] \in Nodes /\ g.route[2] \in Nodes
    BY <1>1, <1>6, RouteOfGet
  <2> QED BY <1>3, <1>5, <1>6, <2>1, RecordType DEF TypeOK
<1>7. ASSUME i # 0, Record(g.route[i + 1], g.route[i], "served", Bytes(g, i)), UNCHANGED given
      PROVE  TypeOK'
  <2>1. g.route[i] \in Nodes /\ g.route[i + 1] \in Nodes
    BY <1>1, <1>4, <1>7, RouteOfGet
  <2> QED BY <1>3, <1>5, <1>7, <2>1, RecordType DEF TypeOK
<1>8. ASSUME i + 1 = Len(g.route), given' = given \cup {<<g.route[i + 1], g.route[i]>>},
             UNCHANGED <<ledger, disk, skewed>>
      PROVE  TypeOK'
  <2>1. g.route[i] \in Nodes /\ g.route[i + 1] \in Nodes
    BY <1>1, <1>4, <1>8, RouteOfGet
  <2> QED BY <1>3, <1>8, <2>1 DEF TypeOK
<1> QED BY <1>6, <1>7, <1>8 DEF Book

LEMMA CutShortType ==
    ASSUME TypeOK, NEW s \in Streams, NEW i, CutShort(s, i)
    PROVE  TypeOK'
<1>1. gets[s] \in Get
  BY DEF CutShort, TypeOK
<1>2. [gets[s] EXCEPT !.due = @ \ {i}] \in Get
  <2> DEFINE g == gets[s]
  <2>1. g.passed \in Nat /\ g.due \ {i} \in SUBSET (0..g.passed) /\ g.passed < Len(g.route)
    BY <1>1 DEF Get
  <2>2. [g EXCEPT !.due = g.due \ {i}] \in Get
    BY <1>1, <2>1, GetUpdate
  <2> QED BY <1>1, <2>2 DEF Get
<1>3. PICK g \in Get \cup {NoGet} : gets' = [gets EXCEPT ![s] = g]
  BY <1>2 DEF CutShort
<1>4. gets' \in [Streams -> Get \cup {NoGet}]
  BY <1>3 DEF TypeOK
<1> QED BY <1>4 DEF CutShort, TypeOK

LEMMA HalfLifeType ==
    ASSUME TypeOK, NEW k, HalfLife(k)
    PROVE  TypeOK'
BY FadedType DEF HalfLife, FadedAll, TypeOK

LEMMA RestartType ==
    ASSUME TypeOK, NEW n \in Nodes, Restart(n)
    PROVE  TypeOK'
BY DEF Restart, TypeOK

LEMMA NextType == TypeOK /\ [Next]_vars => TypeOK'
<1> SUFFICES ASSUME TypeOK, [Next]_vars
             PROVE  TypeOK'
  OBVIOUS
<1>1. ASSUME NEW s \in Streams, NEW r \in Routes, NEW z \in Sizes, Ask(s, r, z)
      PROVE  TypeOK'
  BY <1>1, AskType
<1>2. ASSUME NEW s \in Streams, Gate(s)
      PROVE  TypeOK'
  BY <1>2, GateType
<1>3. ASSUME NEW s \in Streams, NEW i \in gets[s].due, Book(s, i)
      PROVE  TypeOK'
  BY <1>3, BookType
<1>4. ASSUME NEW s \in Streams, NEW i, CutShort(s, i)
      PROVE  TypeOK'
  BY <1>4, CutShortType
<1>5. ASSUME NEW k \in Rates, HalfLife(k)
      PROVE  TypeOK'
  BY <1>5, HalfLifeType
<1>6. ASSUME NEW n \in Nodes, Restart(n)
      PROVE  TypeOK'
  BY <1>6, RestartType
<1>7. CASE UNCHANGED vars
  BY <1>7 DEF vars, TypeOK
<1> QED BY <1>1, <1>2, <1>3, <1>4, <1>5, <1>6, <1>7 DEF Next

\* Whatever is asked, refused, cut short, booked or restarted, ledgers and Gets
\* keep their shape; counters never go below zero, so no balance underflows.
THEOREM TypeCorrect == Spec => []TypeOK
<1> QED BY InitType, NextType, PTL DEF Spec

-----------------------------------------------------------------------------
(* The debt a peer can run up.  What n has let m through for and not billed *)
(* counts in full, so the inductive invariant is DebtIsBounded itself, and  *)
(* that the file of a ledger, which a restart goes back to, is within the   *)
(* same limit.                                                              *)

Limit == Allowance + Cardinality(Streams) * Bill

DiskIsBounded ==
    \A n, m \in Nodes : <<n, m>> \notin Exempt => Debt(disk[n][m]) <= Limit

IInv == TypeOK /\ DebtIsBounded /\ DiskIsBounded

LEMMA Products ==
    ASSUME NEW j \in Nat, NEW k \in Nat, NEW b \in Nat, j <= k
    PROVE  /\ j * b \in Nat /\ k * b \in Nat
           /\ j * b <= k * b
           /\ j < k => j * b + b <= k * b
<1>1. PICK d \in Nat : k = j + d
  <2>1. k - j \in Nat /\ k = j + (k - j)
    OBVIOUS
  <2> QED BY <2>1
<1>2. d * b \in Nat /\ j * b \in Nat
  OBVIOUS
<1>3. k * b = j * b + d * b
  BY <1>1
<1>4. d > 0 => d * b >= b
  OBVIOUS
<1> QED BY <1>1, <1>2, <1>3, <1>4

\* Fewer Gets to bill are fewer bytes to bill, and never more than all streams.
LEMMA Budget ==
    ASSUME NEW T \in SUBSET Streams, NEW S \in SUBSET T, NEW b \in Nat
    PROVE  /\ Cardinality(S) * b \in Nat /\ Cardinality(T) * b \in Nat
           /\ Cardinality(Streams) * b \in Nat
           /\ Cardinality(S) * b <= Cardinality(T) * b
           /\ Cardinality(T) * b <= Cardinality(Streams) * b
           /\ S # T => Cardinality(S) * b + b <= Cardinality(T) * b
<1>1. IsFiniteSet(Streams)
  BY ReputationAssumption
<1>2. IsFiniteSet(T) /\ Cardinality(T) <= Cardinality(Streams)
  BY <1>1, FS_Subset
<1>3. /\ IsFiniteSet(S) /\ Cardinality(S) <= Cardinality(T)
      /\ S # T => Cardinality(S) # Cardinality(T)
  BY <1>2, FS_Subset
<1>4. /\ Cardinality(S) \in Nat /\ Cardinality(T) \in Nat
      /\ Cardinality(Streams) \in Nat
  BY <1>1, <1>2, <1>3, FS_CardinalityType
<1>5. S # T => Cardinality(S) < Cardinality(T)
  BY <1>3, <1>4
<1> QED BY <1>2, <1>3, <1>4, <1>5, Products

LEMMA DebtType ==
    ASSUME NEW st \in Stats
    PROVE  Debt(st) \in Int
BY DEF Debt, Stats

LEMMA LedgerDebtType ==
    ASSUME TypeOK, NEW n \in Nodes, NEW m \in Nodes
    PROVE  Debt(ledger[n][m]) \in Int /\ Debt(disk[n][m]) \in Int
BY DebtType DEF TypeOK

LEMMA LimitType ==
    Limit \in Nat /\ Allowance \in Nat /\ Bill \in Nat
             /\ Limit = Allowance + Cardinality(Streams) * Bill
             /\ Cardinality(Streams) * Bill \in Nat
<1>1. Bill \in Nat
  BY ReputationAssumption DEF Bill
<1>2. Cardinality(Streams) * Bill \in Nat
  BY <1>1, Budget
<1> QED BY <1>1, <1>2, ReputationAssumption DEF Limit

\* The books of n and m do not grow and no Get is added to what n has to bill m.
LEMMA StaysWithin ==
    ASSUME TypeOK, TypeOK', NEW n \in Nodes, NEW m \in Nodes,
           Debt(ledger[n][m]) + Cardinality(Unbilled(n, m)) * Bill <= Limit,
           Unbilled(n, m)' \subseteq Unbilled(n, m),
           Debt(ledger'[n][m]) <= Debt(ledger[n][m]) \/ Debt(ledger'[n][m]) <= 0
    PROVE  Debt(ledger'[n][m]) + Cardinality(Unbilled(n, m)') * Bill <= Limit
<1> DEFINE U == Unbilled(n, m)
           V == Unbilled(n, m)'
           d == Debt(ledger[n][m])
           e == Debt(ledger'[n][m])
<1>1. d \in Int /\ e \in Int
  <2>1. ledger[n][m] \in Stats /\ ledger'[n][m] \in Stats
    BY DEF TypeOK
  <2> QED BY <2>1, DebtType
<1>2. U \in SUBSET Streams /\ V \in SUBSET U
  BY DEF Unbilled
<1> HIDE DEF U, V, d, e
<1>3. /\ Cardinality(U) * Bill \in Nat /\ Cardinality(V) * Bill \in Nat
      /\ Cardinality(V) * Bill <= Cardinality(U) * Bill
      /\ Cardinality(U) * Bill <= Cardinality(Streams) * Bill
  BY <1>2, Budget, LimitType
<1>4. d + Cardinality(U) * Bill <= Limit /\ (e <= d \/ e <= 0)
  BY DEF U, d, e
<1>5. e + Cardinality(V) * Bill <= Limit
  BY <1>1, <1>3, <1>4, LimitType
<1> QED BY <1>5 DEF V, e

LEMMA NothingOwed ==
    ASSUME NEW g, g.due = {}, NEW n, NEW m
    PROVE  ~OwedTo(g, n, m)
BY DEF OwedTo

\* A step that changes one Get, to one that owes nothing new, adds no bill.
LEMMA OneStream ==
    ASSUME TypeOK, NEW s \in Streams, NEW g, gets' = [gets EXCEPT ![s] = g],
           NEW n, NEW m, OwedTo(g, n, m) => OwedTo(gets[s], n, m)
    PROVE  Unbilled(n, m)' \subseteq Unbilled(n, m)
<1>1. ASSUME NEW t \in Streams, OwedTo(gets'[t], n, m)
      PROVE  OwedTo(gets[t], n, m)
  <2>1. gets'[t] = IF t = s THEN g ELSE gets[t]
    BY DEF TypeOK
  <2> QED BY <1>1, <2>1
<1> QED BY <1>1 DEF Unbilled

LEMMA FewerDues ==
    ASSUME NEW g, NEW h, h.route = g.route, h.due \subseteq g.due, NEW n, NEW m, OwedTo(h, n, m)
    PROVE  OwedTo(g, n, m)
BY DEF OwedTo

\* An action that leaves the ledgers alone and adds no bill.
LEMMA BooksUntouched ==
    ASSUME IInv, TypeOK', UNCHANGED <<ledger, disk>>,
           \A n, m \in Nodes : Unbilled(n, m)' \subseteq Unbilled(n, m)
    PROVE  DebtIsBounded' /\ DiskIsBounded'
<1>1. ASSUME NEW n \in Nodes, NEW m \in Nodes, <<n, m>> \notin Exempt
      PROVE  Debt(ledger'[n][m]) + Cardinality(Unbilled(n, m)') * Bill <= Limit
  <2>1. Debt(ledger[n][m]) + Cardinality(Unbilled(n, m)) * Bill <= Limit
    BY <1>1 DEF IInv, DebtIsBounded, Limit, Bill
  <2>2. Debt(ledger'[n][m]) <= Debt(ledger[n][m])
    BY LedgerDebtType DEF IInv
  <2> QED BY <2>1, <2>2, StaysWithin DEF IInv
<1>2. DebtIsBounded'
  BY <1>1 DEF DebtIsBounded, Limit, Bill
<1>3. DiskIsBounded'
  BY DEF IInv, DiskIsBounded
<1> QED BY <1>2, <1>3

LEMMA InitBounded == Init => IInv
<1> SUFFICES ASSUME Init
             PROVE  IInv
  OBVIOUS
<1>1. TypeOK
  BY InitType
<1>2. \A n, m \in Nodes : Debt(ledger[n][m]) = 0 /\ Debt(disk[n][m]) = 0
  BY DEF Init, Debt
<1>3. ASSUME NEW n \in Nodes, NEW m \in Nodes
      PROVE  Unbilled(n, m) = {}
  BY DEF Init, NoGet, Unbilled, OwedTo
<1>4. ASSUME NEW n \in Nodes, NEW m \in Nodes
      PROVE  Debt(ledger[n][m]) + Cardinality(Unbilled(n, m)) * Bill <= Limit
  <2>1. Cardinality(Unbilled(n, m)) = 0
    BY <1>3, FS_EmptySet
  <2>2. Debt(ledger[n][m]) + Cardinality(Unbilled(n, m)) * Bill = 0
    BY <1>2, <2>1, LimitType
  <2> QED BY <2>2, LimitType
<1>5. DebtIsBounded
  BY <1>4 DEF DebtIsBounded, Limit, Bill
<1>6. DiskIsBounded
  BY <1>2, LimitType DEF DiskIsBounded
<1> QED BY <1>1, <1>5, <1>6 DEF IInv

LEMMA AskAddsNone ==
    ASSUME TypeOK, NEW s \in Streams, NEW r \in Routes, NEW z \in Sizes, Ask(s, r, z),
           NEW n, NEW m
    PROVE  Unbilled(n, m)' \subseteq Unbilled(n, m)
<1> DEFINE g == [route |-> r, size |-> z, passed |-> 0, refused |-> FALSE, due |-> {}]
<1>1. gets' = [gets EXCEPT ![s] = g] /\ g.due = {}
  BY DEF Ask
<1> HIDE DEF g
<1> QED BY <1>1, NothingOwed, OneStream

LEMMA AskBounded ==
    ASSUME IInv, TypeOK', NEW s \in Streams, NEW r \in Routes, NEW z \in Sizes, Ask(s, r, z)
    PROVE  DebtIsBounded' /\ DiskIsBounded'
<1>1. \A n, m \in Nodes : Unbilled(n, m)' \subseteq Unbilled(n, m)
  BY AskAddsNone DEF IInv
<1> QED BY <1>1, BooksUntouched DEF Ask

LEMMA CutShortAddsNone ==
    ASSUME TypeOK, NEW s \in Streams, NEW i, CutShort(s, i), NEW n, NEW m
    PROVE  Unbilled(n, m)' \subseteq Unbilled(n, m)
<1> DEFINE rest == [gets[s] EXCEPT !.due = @ \ {i}]
<1>1. gets[s] \in Get
  BY DEF CutShort, TypeOK
<1>2. rest.route = gets[s].route /\ rest.due \subseteq gets[s].due
  BY <1>1 DEF Get
<1>3. PICK g \in {rest, NoGet} : gets' = [gets EXCEPT ![s] = g]
  BY DEF CutShort
<1> HIDE DEF rest
<1>4. OwedTo(g, n, m) => OwedTo(gets[s], n, m)
  <2>1. CASE g = rest
    BY <1>2, <2>1, FewerDues
  <2>2. CASE g = NoGet
    BY <2>2, NothingOwed DEF NoGet
  <2> QED BY <1>3, <2>1, <2>2
<1> QED BY <1>3, <1>4, OneStream

LEMMA CutShortBounded ==
    ASSUME IInv, TypeOK', NEW s \in Streams, NEW i, CutShort(s, i)
    PROVE  DebtIsBounded' /\ DiskIsBounded'
<1>1. \A n, m \in Nodes : Unbilled(n, m)' \subseteq Unbilled(n, m)
  BY CutShortAddsNone DEF IInv
<1> QED BY <1>1, BooksUntouched DEF CutShort

\* The gate owes nothing to a peer it does not serve.
LEMMA GateAddsServed ==
    ASSUME TypeOK, NEW s \in Streams, Gate(s), NEW n, NEW m, ~Serves(n, m)
    PROVE  Unbilled(n, m)' \subseteq Unbilled(n, m)
<1> DEFINE g == gets[s]
           hop == g.passed + 1
           on == [g EXCEPT !.passed = hop,
                           !.due = @ \cup {hop} \cup
                                   IF hop + 1 = Len(g.route) THEN {0} ELSE {}]
           off == [g EXCEPT !.refused = TRUE]
<1>1. g \in Get
  BY DEF Gate, TypeOK
<1>2. /\ on.route = g.route /\ on.due \subseteq g.due \cup {hop, 0}
      /\ off.route = g.route /\ off.due = g.due
  BY <1>1 DEF Get
<1>3. PICK h : /\ gets' = [gets EXCEPT ![s] = h]
               /\ \/ h = NoGet \/ h = off
                  \/ h = on /\ Serves(g.route[hop + 1], g.route[hop])
  BY DEF Gate
<1> HIDE DEF on, off
<1>4. ASSUME OwedTo(h, n, m)
      PROVE  OwedTo(g, n, m)
  <2>1. CASE h = NoGet
    BY <1>4, <2>1, NothingOwed DEF NoGet
  <2>2. CASE h = off
    BY <1>2, <1>4, <2>2, FewerDues
  <2>3. CASE h = on /\ Serves(g.route[hop + 1], g.route[hop])
    <3>1. PICK i \in h.due \ {0} : h.route[i] = m /\ h.route[i + 1] = n
      BY <1>4 DEF OwedTo
    <3>2. i # hop
      BY <1>2, <2>3, <3>1
    <3>3. i \in g.due \ {0}
      BY <1>2, <2>3, <3>1, <3>2
    <3> QED BY <1>2, <2>3, <3>1, <3>3 DEF OwedTo
  <2> QED BY <1>3, <2>1, <2>2, <2>3
<1> QED BY <1>3, <1>4, OneStream

\* The gate lets a peer through only while its debt is within the allowance,
\* which leaves room for a blob on every stream there is.
LEMMA GateBounded ==
    ASSUME IInv, TypeOK', NEW s \in Streams, Gate(s)
    PROVE  DebtIsBounded' /\ DiskIsBounded'
<1> DEFINE g == gets[s]
           hop == g.passed + 1
           due == g.due \cup {hop} \cup IF hop + 1 = Len(g.route) THEN {0} ELSE {}
           on == [g EXCEPT !.passed = hop,
                           !.due = @ \cup {hop} \cup
                                   IF hop + 1 = Len(g.route) THEN {0} ELSE {}]
           off == [g EXCEPT !.refused = TRUE]
<1>1. g \in Get /\ UNCHANGED <<ledger, disk>>
  BY DEF Gate, IInv, TypeOK
<1>2. /\ on.route = g.route /\ on.due = due /\ due \subseteq g.due \cup {hop, 0}
      /\ off.route = g.route /\ off.due = g.due
  BY <1>1 DEF Get
<1>3. PICK h : /\ gets' = [gets EXCEPT ![s] = h]
               /\ \/ h = NoGet \/ h = off
                  \/ h = on /\ Serves(g.route[hop + 1], g.route[hop])
  BY DEF Gate
<1> HIDE DEF due, on, off
<1>4. ASSUME NEW n \in Nodes, NEW m \in Nodes, <<n, m>> \notin Exempt
      PROVE  Debt(ledger'[n][m]) + Cardinality(Unbilled(n, m)') * Bill <= Limit
  <2>1. CASE OwedTo(h, n, m) => OwedTo(gets[s], n, m)
    <3>1. Unbilled(n, m)' \subseteq Unbilled(n, m)
      BY <1>3, <2>1, OneStream DEF IInv
    <3>2. Debt(ledger[n][m]) + Cardinality(Unbilled(n, m)) * Bill <= Limit
      BY <1>4 DEF IInv, DebtIsBounded, Limit, Bill
    <3>3. Debt(ledger'[n][m]) <= Debt(ledger[n][m])
      BY <1>1, LedgerDebtType DEF IInv
    <3> QED BY <3>1, <3>2, <3>3, StaysWithin DEF IInv
  <2>2. CASE OwedTo(h, n, m) /\ ~OwedTo(gets[s], n, m)
    <3>1. h = on /\ Serves(g.route[hop + 1], g.route[hop])
      <4>1. h # NoGet
        BY <2>2, NothingOwed DEF NoGet
      <4>2. h # off
        BY <1>2, <2>2, FewerDues
      <4> QED BY <1>3, <4>1, <4>2
    <3>2. n = g.route[hop + 1] /\ m = g.route[hop]
      <4>1. PICK i \in h.due \ {0} : h.route[i] = m /\ h.route[i + 1] = n
        BY <2>2 DEF OwedTo
      <4>2. i = hop \/ i \in g.due \ {0}
        BY <1>2, <3>1, <4>1
      <4>3. i \notin g.due \ {0}
        BY <1>2, <2>2, <3>1, <4>1 DEF OwedTo
      <4> QED BY <1>2, <3>1, <4>1, <4>2, <4>3
    <3>3. Debt(ledger'[n][m]) <= Allowance
      BY <1>1, <1>4, <3>1, <3>2 DEF Serves
    <3>4. Unbilled(n, m)' \in SUBSET Streams
      BY DEF Unbilled
    <3>5. /\ Cardinality(Unbilled(n, m)') * Bill \in Nat
          /\ Cardinality(Unbilled(n, m)') * Bill <= Cardinality(Streams) * Bill
      BY <3>4, Budget, LimitType
    <3>6. Debt(ledger'[n][m]) \in Int
      BY <1>1, LedgerDebtType DEF IInv
    <3> QED BY <3>3, <3>5, <3>6, LimitType
  <2> QED BY <2>1, <2>2
<1>5. DebtIsBounded'
  BY <1>4 DEF DebtIsBounded, Limit, Bill
<1>6. DiskIsBounded'
  BY <1>1 DEF IInv, DiskIsBounded
<1> QED BY <1>5, <1>6

\* A save writes what is within the limit, a failed one leaves what was.
LEMMA SavedIsBounded ==
    ASSUME TypeOK', DiskIsBounded, DebtIsBounded', NEW k \in Nodes,
           TypeOK, disk' = [disk EXCEPT ![k] = ledger'[k]] \/ UNCHANGED disk
    PROVE  DiskIsBounded'
<1> SUFFICES ASSUME NEW n \in Nodes, NEW m \in Nodes, <<n, m>> \notin Exempt
             PROVE  Debt(disk'[n][m]) <= Limit
  BY DEF DiskIsBounded, Limit, Bill
<1>1. disk'[n] = disk[n] \/ disk'[n] = ledger'[n]
  BY DEF TypeOK
<1>2. Debt(disk[n][m]) <= Limit
  BY DEF DiskIsBounded
<1>3. Debt(ledger'[n][m]) <= Limit
  <2>1. Debt(ledger'[n][m]) + Cardinality(Unbilled(n, m)') * Bill <= Limit
    BY DEF DebtIsBounded, Limit, Bill
  <2>2. Unbilled(n, m)' \in SUBSET Streams
    BY DEF Unbilled
  <2>3. Cardinality(Unbilled(n, m)') * Bill \in Nat
    BY <2>2, Budget, LimitType
  <2>4. Debt(ledger'[n][m]) \in Int
    BY DebtType DEF TypeOK
  <2> QED BY <2>1, <2>3, <2>4, LimitType
<1> QED BY <1>1, <1>2, <1>3

\* A bill is for at most a blob, and takes the Get off what is unbilled.
LEMMA BillBounded ==
    ASSUME IInv, TypeOK', NEW s \in Streams, NEW i \in gets[s].due, i # 0, Book(s, i),
           Record(gets[s].route[i + 1], gets[s].route[i], "served", Bytes(gets[s], i))
    PROVE  DebtIsBounded' /\ DiskIsBounded'
<1> DEFINE g == gets[s]
           k == g.route[i + 1]
           l == g.route[i]
           less == [g EXCEPT !.due = @ \ {i}]
<1>1. g \in Get
  BY DEF Book, IInv, TypeOK
<1>2. i \in 1..Len(g.route) /\ i + 1 \in 1..Len(g.route) /\ i \in Nat
  BY <1>1, RouteOfGet DEF Get
<1>3. k \in Nodes /\ l \in Nodes
  BY <1>1, <1>2, RouteOfGet
<1>4. Bytes(g, i) \in Nat /\ Bytes(g, i) <= Bill
  BY <1>1, <1>2, BytesType
<1>5. Record(k, l, "served", Bytes(g, i))
  OBVIOUS
<1>6. PICK h \in {NoGet, less} : gets' = [gets EXCEPT ![s] = h]
  BY DEF Book
<1>7. less.route = g.route /\ less.due = g.due \ {i}
  BY <1>1 DEF Get
<1>8. ~OwedTo(h, k, l)
  <2>1. CASE h = NoGet
    BY <2>1, NothingOwed DEF NoGet
  <2>2. CASE h = less
    <3> SUFFICES ASSUME NEW j \in g.due \ {i, 0}, g.route[j] = l
                 PROVE  FALSE
      BY <1>7, <2>2 DEF OwedTo
    <3>1. j \in 1..Len(g.route)
      BY <1>1, RouteOfGet DEF Get
    <3>2. DOMAIN g.route = 1..Len(g.route)
      BY <1>1, RouteOfGet
    <3>3. j = i
      BY <1>1, <1>2, <3>1, <3>2, RouteOfGet DEF IsInjective
    <3> QED BY <3>3
  <2> QED BY <1>6, <2>1, <2>2
<1>9. ASSUME NEW n, NEW m, OwedTo(h, n, m)
      PROVE  OwedTo(gets[s], n, m)
  <2>1. h = less
    BY <1>6, <1>9, NothingOwed DEF NoGet
  <2> QED BY <1>7, <1>9, <2>1, FewerDues
<1>10. OwedTo(gets[s], k, l)
  BY DEF OwedTo
<1> HIDE DEF less, g
<1>11. ASSUME NEW n \in Nodes, NEW m \in Nodes, <<n, m>> \notin Exempt
       PROVE  Debt(ledger'[n][m]) + Cardinality(Unbilled(n, m)') * Bill <= Limit
  <2>1. Debt(ledger[n][m]) + Cardinality(Unbilled(n, m)) * Bill <= Limit
    BY <1>11 DEF IInv, DebtIsBounded, Limit, Bill
  <2>2. Unbilled(n, m)' \subseteq Unbilled(n, m)
    BY <1>6, <1>9, OneStream DEF IInv
  <2>3. CASE n = k /\ m = l
    <3>1. s \in Unbilled(n, m) /\ s \notin Unbilled(n, m)'
      <4>1. gets'[s] = h
        BY <1>6 DEF IInv, TypeOK
      <4> QED BY <1>8, <1>10, <2>3, <4>1 DEF Unbilled
    <3>2. Unbilled(n, m) \in SUBSET Streams
      BY DEF Unbilled
    <3>3. /\ Cardinality(Unbilled(n, m)') * Bill \in Nat
          /\ Cardinality(Unbilled(n, m)) * Bill \in Nat
          /\ Cardinality(Unbilled(n, m)') * Bill + Bill <= Cardinality(Unbilled(n, m)) * Bill
      BY <2>2, <3>1, <3>2, Budget, LimitType
    <3>4. Debt(ledger'[n][m]) = Debt(ledger[n][m]) + Bytes(g, i)
      <4>1. ledger[n][m] \in Stats
        BY DEF IInv, TypeOK
      <4>2. ledger'[n][m] = Entered(ledger[n][m], "served", Bytes(g, i))
        BY <1>3, <1>5, <2>3 DEF Record, IInv, TypeOK
      <4> QED BY <1>4, <4>1, <4>2 DEF Entered, Debt, Stats
    <3>5. Debt(ledger[n][m]) \in Int
      BY LedgerDebtType DEF IInv
    <3> QED BY <1>4, <2>1, <3>3, <3>4, <3>5, LimitType
  <2>4. CASE ~(n = k /\ m = l)
    <3>1. ledger'[n][m] = ledger[n][m]
      BY <1>3, <1>5, <2>4 DEF Record, IInv, TypeOK
    <3>2. Debt(ledger'[n][m]) <= Debt(ledger[n][m])
      BY <3>1, LedgerDebtType DEF IInv
    <3> QED BY <2>1, <2>2, <3>2, StaysWithin DEF IInv
  <2> QED BY <2>3, <2>4
<1>12. DebtIsBounded'
  BY <1>11 DEF DebtIsBounded, Limit, Bill
<1>13. DiskIsBounded'
  BY <1>3, <1>5, <1>12, SavedIsBounded DEF Record, IInv
<1> QED BY <1>12, <1>13

\* Whatever book is kept, or is not, no Get is owed for that was not before.
LEMMA BookAddsNone ==
    ASSUME TypeOK, NEW s \in Streams, NEW i \in gets[s].due, Book(s, i), NEW n, NEW m
    PROVE  Unbilled(n, m)' \subseteq Unbilled(n, m)
<1> DEFINE less == [gets[s] EXCEPT !.due = @ \ {i}]
<1>1. gets[s] \in Get
  BY DEF Book, TypeOK
<1>2. less.route = gets[s].route /\ less.due \subseteq gets[s].due
  BY <1>1 DEF Get
<1>3. PICK h \in {NoGet, less} : gets' = [gets EXCEPT ![s] = h]
  BY DEF Book
<1> HIDE DEF less
<1>4. OwedTo(h, n, m) => OwedTo(gets[s], n, m)
  <2>1. CASE h = less
    BY <1>2, <2>1, FewerDues
  <2>2. CASE h = NoGet
    BY <2>2, NothingOwed DEF NoGet
  <2> QED BY <1>3, <2>1, <2>2
<1> QED BY <1>3, <1>4, OneStream

\* A range that is given for nothing enters no book and takes no debt away.
LEMMA GivenBounded ==
    ASSUME IInv, TypeOK', NEW s \in Streams, NEW i \in gets[s].due, Book(s, i),
           UNCHANGED <<ledger, disk>>
    PROVE  DebtIsBounded' /\ DiskIsBounded'
<1>1. \A n, m \in Nodes : Unbilled(n, m)' \subseteq Unbilled(n, m)
  BY BookAddsNone DEF IInv
<1> QED BY <1>1, BooksUntouched

\* The fetcher's credit only lowers what the peer it fetched from owes it.
LEMMA CreditBounded ==
    ASSUME IInv, TypeOK', NEW s \in Streams, 0 \in gets[s].due, Book(s, 0),
           Record(gets[s].route[1], gets[s].route[2], "received", gets[s].size)
    PROVE  DebtIsBounded' /\ DiskIsBounded'
<1> DEFINE g == gets[s]
           k == g.route[1]
           l == g.route[2]
           less == [g EXCEPT !.due = @ \ {0}]
<1>1. g \in Get
  BY DEF Book, IInv, TypeOK
<1>2. k \in Nodes /\ l \in Nodes
  BY <1>1, RouteOfGet
<1>3. g.size \in Nat
  BY <1>1, BytesType
<1>4. Record(k, l, "received", g.size)
  OBVIOUS
<1>5. PICK h \in {NoGet, less} : gets' = [gets EXCEPT ![s] = h]
  BY DEF Book
<1>6. less.route = g.route /\ less.due \subseteq g.due
  BY <1>1 DEF Get
<1>7. ASSUME NEW n, NEW m, OwedTo(h, n, m)
      PROVE  OwedTo(gets[s], n, m)
  <2>1. h = less
    BY <1>5, <1>7, NothingOwed DEF NoGet
  <2> QED BY <1>6, <1>7, <2>1, FewerDues
<1> HIDE DEF less, g, k, l
<1>8. ASSUME NEW n \in Nodes, NEW m \in Nodes, <<n, m>> \notin Exempt
      PROVE  Debt(ledger'[n][m]) + Cardinality(Unbilled(n, m)') * Bill <= Limit
  <2>1. Debt(ledger[n][m]) + Cardinality(Unbilled(n, m)) * Bill <= Limit
    BY <1>8 DEF IInv, DebtIsBounded, Limit, Bill
  <2>2. Unbilled(n, m)' \subseteq Unbilled(n, m)
    BY <1>5, <1>7, OneStream DEF IInv
  <2>3. Debt(ledger'[n][m]) <= Debt(ledger[n][m])
    <3>1. ledger[n][m] \in Stats
      BY DEF IInv, TypeOK
    <3>2. \/ ledger'[n][m] = ledger[n][m]
          \/ ledger'[n][m] = Entered(ledger[n][m], "received", g.size)
      BY <1>2, <1>4 DEF Record, IInv, TypeOK
    <3> QED BY <1>3, <3>1, <3>2 DEF Entered, Debt, Stats
  <2> QED BY <2>1, <2>2, <2>3, StaysWithin DEF IInv
<1>9. DebtIsBounded'
  BY <1>8 DEF DebtIsBounded, Limit, Bill
<1>10. DiskIsBounded'
  BY <1>2, <1>4, <1>9, SavedIsBounded DEF Record, IInv
<1> QED BY <1>9, <1>10

LEMMA BookBounded ==
    ASSUME IInv, TypeOK', NEW s \in Streams, NEW i \in gets[s].due, Book(s, i)
    PROVE  DebtIsBounded' /\ DiskIsBounded'
<1> DEFINE g == gets[s]
<1>1. \/ i = 0 /\ Record(g.route[i + 1], g.route[2], "received", g.size)
      \/ i # 0 /\ Record(g.route[i + 1], g.route[i], "served", Bytes(g, i))
      \/ UNCHANGED <<ledger, disk>>
  BY DEF Book
<1>2. CASE i = 0 /\ Record(g.route[i + 1], g.route[2], "received", g.size)
  BY <1>2, CreditBounded
<1>3. CASE i # 0 /\ Record(g.route[i + 1], g.route[i], "served", Bytes(g, i))
  BY <1>3, BillBounded
<1>4. CASE UNCHANGED <<ledger, disk>>
  BY <1>4, GivenBounded
<1> QED BY <1>1, <1>2, <1>3, <1>4

\* Decay takes a debt towards zero, and what is owed the other way never past it.
LEMMA FadedDebt ==
    ASSUME NEW st \in Stats
    PROVE  Debt(Faded(st)) \in Int /\ (Debt(Faded(st)) <= Debt(st) \/ Debt(Faded(st)) <= 0)
<1>1. \A x, y \in Nat :
          \/ ((x + 1) \div 2) - ((y + 1) \div 2) <= x - y
          \/ ((x + 1) \div 2) - ((y + 1) \div 2) <= 0
  OBVIOUS
<1>2. st.served \in Nat /\ st.received \in Nat
  BY DEF Stats
<1>3. /\ Faded(st).served = (st.served + 1) \div 2
      /\ Faded(st).received = (st.received + 1) \div 2
  BY DEF Faded
<1>4. Debt(Faded(st)) \in Int
  BY FadedType, DebtType
<1> QED BY <1>1, <1>2, <1>3, <1>4 DEF Debt

LEMMA HalfLifeBounded ==
    ASSUME IInv, TypeOK', NEW k, HalfLife(k)
    PROVE  DebtIsBounded' /\ DiskIsBounded'
<1>1. ASSUME NEW n \in Nodes, NEW m \in Nodes
      PROVE  /\ ledger'[n][m] \in {ledger[n][m], Faded(ledger[n][m])} /\ ledger[n][m] \in Stats
             /\ disk'[n][m] \in {disk[n][m], Faded(disk[n][m])} /\ disk[n][m] \in Stats
  BY DEF HalfLife, FadedAll, IInv, TypeOK
<1>2. ASSUME NEW n \in Nodes, NEW m \in Nodes, <<n, m>> \notin Exempt
      PROVE  Debt(ledger'[n][m]) + Cardinality(Unbilled(n, m)') * Bill <= Limit
  <2>1. Debt(ledger[n][m]) + Cardinality(Unbilled(n, m)) * Bill <= Limit
    BY <1>2 DEF IInv, DebtIsBounded, Limit, Bill
  <2>2. Unbilled(n, m)' \subseteq Unbilled(n, m)
    BY DEF HalfLife, Unbilled
  <2>3. Debt(ledger'[n][m]) <= Debt(ledger[n][m]) \/ Debt(ledger'[n][m]) <= 0
    BY <1>1, FadedDebt, DebtType
  <2> QED BY <2>1, <2>2, <2>3, StaysWithin DEF IInv
<1>3. ASSUME NEW n \in Nodes, NEW m \in Nodes, <<n, m>> \notin Exempt
      PROVE  Debt(disk'[n][m]) <= Limit
  <2>1. Debt(disk[n][m]) <= Limit /\ Debt(disk[n][m]) \in Int
    BY <1>3, LedgerDebtType DEF IInv, DiskIsBounded
  <2>2. /\ Debt(disk'[n][m]) \in Int
        /\ Debt(disk'[n][m]) <= Debt(disk[n][m]) \/ Debt(disk'[n][m]) <= 0
    BY <1>1, FadedDebt, DebtType
  <2> QED BY <2>1, <2>2, LimitType
<1>4. DebtIsBounded'
  BY <1>2 DEF DebtIsBounded, Limit, Bill
<1>5. DiskIsBounded'
  BY <1>3 DEF DiskIsBounded, Limit, Bill
<1> QED BY <1>4, <1>5

\* A restart goes back to a ledger within the limit, with no Get to bill.
LEMMA RestartBounded ==
    ASSUME IInv, TypeOK', NEW k \in Nodes, Restart(k)
    PROVE  DebtIsBounded' /\ DiskIsBounded'
<1>1. \A t \in Streams : gets'[t] = gets[t] \/ gets'[t] = NoGet
  BY DEF Restart
<1>2. ASSUME NEW n, NEW m
      PROVE  Unbilled(n, m)' \subseteq Unbilled(n, m)
  <2>1. ~OwedTo(NoGet, n, m)
    BY NothingOwed DEF NoGet
  <2>2. ASSUME NEW t \in Streams, OwedTo(gets'[t], n, m)
        PROVE  OwedTo(gets[t], n, m)
    BY <1>1, <2>1, <2>2
  <2> QED BY <2>2 DEF Unbilled
<1>3. ASSUME NEW m
      PROVE  Unbilled(k, m)' = {}
  <2>1. SUFFICES ASSUME NEW t \in Streams, OwedTo(gets'[t], k, m)
                 PROVE  FALSE
    BY DEF Unbilled
  <2>2. gets'[t] = gets[t] /\ k \notin Range(gets[t].route)
    BY <2>1, NothingOwed DEF Restart, NoGet
  <2>3. gets[t] \in Get
    <3>1. gets[t] # NoGet
      BY <2>1, <2>2, NothingOwed DEF NoGet
    <3> QED BY <3>1 DEF IInv, TypeOK
  <2>4. PICK i \in gets[t].due \ {0} : gets[t].route[i + 1] = k
    BY <2>1, <2>2 DEF OwedTo
  <2>5. i + 1 \in 1..Len(gets[t].route)
    BY <2>3, <2>4, RouteOfGet DEF Get
  <2>6. k \in Range(gets[t].route)
    BY <2>3, <2>4, <2>5, RouteOfGet DEF Range
  <2> QED BY <2>2, <2>6
<1>4. ASSUME NEW n \in Nodes, NEW m \in Nodes, <<n, m>> \notin Exempt
      PROVE  Debt(ledger'[n][m]) + Cardinality(Unbilled(n, m)') * Bill <= Limit
  <2>1. CASE n = k
    <3>1. Cardinality(Unbilled(n, m)') = 0
      BY <1>3, <2>1, FS_EmptySet
    <3>2. ledger'[n][m] = disk[n][m]
      BY <2>1 DEF Restart, IInv, TypeOK
    <3>3. Debt(disk[n][m]) <= Limit /\ Debt(disk[n][m]) \in Int
      BY <1>4, LedgerDebtType DEF IInv, DiskIsBounded
    <3>4. 0 * Bill = 0
      BY LimitType
    <3> QED BY <3>1, <3>2, <3>3, <3>4, LimitType
  <2>2. CASE n # k
    <3>1. Debt(ledger[n][m]) + Cardinality(Unbilled(n, m)) * Bill <= Limit
      BY <1>4 DEF IInv, DebtIsBounded, Limit, Bill
    <3>2. ledger'[n][m] = ledger[n][m]
      BY <2>2 DEF Restart, IInv, TypeOK
    <3>3. Debt(ledger'[n][m]) <= Debt(ledger[n][m])
      BY <3>2, LedgerDebtType DEF IInv
    <3> QED BY <1>2, <3>1, <3>3, StaysWithin DEF IInv
  <2> QED BY <2>1, <2>2
<1>5. DebtIsBounded'
  BY <1>4 DEF DebtIsBounded, Limit, Bill
<1>6. DiskIsBounded'
  BY DEF Restart, IInv, DiskIsBounded
<1> QED BY <1>5, <1>6

LEMMA NextBounded == IInv /\ [Next]_vars => IInv'
<1> SUFFICES ASSUME IInv, [Next]_vars
             PROVE  IInv'
  OBVIOUS
<1>0. TypeOK'
  BY NextType DEF IInv
<1>1. ASSUME NEW s \in Streams, NEW r \in Routes, NEW z \in Sizes, Ask(s, r, z)
      PROVE  DebtIsBounded' /\ DiskIsBounded'
  BY <1>0, <1>1, AskBounded
<1>2. ASSUME NEW s \in Streams, Gate(s)
      PROVE  DebtIsBounded' /\ DiskIsBounded'
  BY <1>0, <1>2, GateBounded
<1>3. ASSUME NEW s \in Streams, NEW i \in gets[s].due, Book(s, i)
      PROVE  DebtIsBounded' /\ DiskIsBounded'
  BY <1>0, <1>3, BookBounded
<1>4. ASSUME NEW s \in Streams, NEW i, CutShort(s, i)
      PROVE  DebtIsBounded' /\ DiskIsBounded'
  BY <1>0, <1>4, CutShortBounded
<1>5. ASSUME NEW k \in Rates, HalfLife(k)
      PROVE  DebtIsBounded' /\ DiskIsBounded'
  BY <1>0, <1>5, HalfLifeBounded
<1>6. ASSUME NEW n \in Nodes, Restart(n)
      PROVE  DebtIsBounded' /\ DiskIsBounded'
  BY <1>0, <1>6, RestartBounded
<1>7. ASSUME UNCHANGED vars
      PROVE  DebtIsBounded' /\ DiskIsBounded'
  <2>1. \A n, m \in Nodes : Unbilled(n, m)' \subseteq Unbilled(n, m)
    BY <1>7 DEF vars, Unbilled
  <2> QED BY <1>0, <1>7, <2>1, BooksUntouched DEF vars
<1>8. DebtIsBounded' /\ DiskIsBounded'
  BY <1>1, <1>2, <1>3, <1>4, <1>5, <1>6, <1>7 DEF Next
<1> QED BY <1>0, <1>8 DEF IInv

\* The gate of handle_stream and the bills that come after it: for any number of
\* streams, whatever is refused, cut short, unsaved, faded or restarted, no peer
\* runs up more debt than its allowance and, for every stream, one blob with what a
\* relay splices besides.
THEOREM DebtBounded == Spec => []DebtIsBounded
<1>1. IInv => DebtIsBounded
  BY DEF IInv
<1> QED BY <1>1, InitBounded, NextBounded, PTL DEF Spec

-----------------------------------------------------------------------------
(* A denial fades.                                                         *)

\* Where no save fails the file is the ledger.
SavedIsLedger == \A n \in Nodes \ FullDisk : disk[n] = ledger[n]

FInv == TypeOK /\ SavedIsLedger

LEMMA InitSaved == Init => FInv
BY InitType DEF Init, FInv, SavedIsLedger

LEMMA RecordSaved ==
    ASSUME FInv, NEW n \in Nodes, NEW m, NEW field, NEW bytes, Record(n, m, field, bytes)
    PROVE  SavedIsLedger'
<1> SUFFICES ASSUME NEW k \in Nodes \ FullDisk
             PROVE  disk'[k] = ledger'[k]
  BY DEF SavedIsLedger
<1>1. disk[k] = ledger[k]
  BY DEF FInv, SavedIsLedger
<1>2. CASE k = n
  BY <1>2 DEF Record, FInv, TypeOK
<1>3. CASE k # n
  BY <1>1, <1>3 DEF Record, FInv, TypeOK
<1> QED BY <1>2, <1>3

LEMMA BookSaved ==
    ASSUME FInv, NEW s \in Streams, NEW i \in gets[s].due, Book(s, i)
    PROVE  SavedIsLedger'
<1> DEFINE g == gets[s]
<1>1. g \in Get
  BY DEF Book, FInv, TypeOK
<1>2. g.route[i + 1] \in Nodes
  BY <1>1, RouteOfGet DEF Get
<1>3. \/ UNCHANGED <<ledger, disk>>
      \/ Record(g.route[i + 1], g.route[2], "received", g.size)
      \/ Record(g.route[i + 1], g.route[i], "served", Bytes(g, i))
  BY DEF Book
<1>4. CASE UNCHANGED <<ledger, disk>>
  BY <1>4 DEF FInv, SavedIsLedger
<1> QED BY <1>2, <1>3, <1>4, RecordSaved

LEMMA NextSaved == FInv /\ [Next]_vars => FInv'
<1> SUFFICES ASSUME FInv, [Next]_vars
             PROVE  FInv'
  OBVIOUS
<1>0. TypeOK'
  BY NextType DEF FInv
<1>1. ASSUME UNCHANGED <<ledger, disk>>
      PROVE  SavedIsLedger'
  BY <1>1 DEF FInv, SavedIsLedger
<1>2. ASSUME NEW s \in Streams, NEW i \in gets[s].due, Book(s, i)
      PROVE  SavedIsLedger'
  BY <1>2, BookSaved
<1>3. ASSUME NEW k \in Rates, HalfLife(k)
      PROVE  SavedIsLedger'
  BY <1>3 DEF HalfLife, FadedAll, FInv, SavedIsLedger
<1>4. ASSUME NEW n \in Nodes, Restart(n)
      PROVE  SavedIsLedger'
  BY <1>4 DEF Restart, FInv, SavedIsLedger, TypeOK
<1>5. SavedIsLedger'
  BY <1>1, <1>2, <1>3, <1>4 DEF Next, Ask, Gate, CutShort, vars, FInv, SavedIsLedger
<1> QED BY <1>0, <1>5 DEF FInv

\* The books of a peer to which nothing is on the way: only its own service is entered.
LEMMA BookLowers ==
    ASSUME TypeOK, NEW s \in Streams, NEW i \in gets[s].due, Book(s, i),
           NEW n \in Nodes, NEW m \in Nodes, Unbilled(n, m) = {}
    PROVE  Debt(ledger'[n][m]) <= Debt(ledger[n][m])
<1> DEFINE g == gets[s]
<1>1. g \in Get
  BY DEF Book, TypeOK
<1>2. g.route[i + 1] \in Nodes /\ g.route[2] \in Nodes /\ (i # 0 => g.route[i] \in Nodes)
  BY <1>1, RouteOfGet DEF Get
<1>3. g.size \in Nat
  BY <1>1, BytesType
<1>4. ledger[n][m] \in Stats
  BY DEF TypeOK
<1>5. Debt(ledger[n][m]) <= Debt(ledger[n][m])
  BY <1>4 DEF Debt, Stats
<1>6. CASE i = 0 /\ Record(g.route[i + 1], g.route[2], "received", g.size)
  <2>1. \/ ledger'[n][m] = ledger[n][m]
        \/ ledger'[n][m] = Entered(ledger[n][m], "received", g.size)
    BY <1>2, <1>6 DEF Record, TypeOK
  <2> QED BY <1>3, <1>4, <2>1 DEF Entered, Debt, Stats
<1>7. CASE i # 0 /\ Record(g.route[i + 1], g.route[i], "served", Bytes(g, i))
  <2>1. ~(g.route[i + 1] = n /\ g.route[i] = m)
    BY <1>7 DEF Unbilled, OwedTo
  <2>2. ledger'[n][m] = ledger[n][m]
    BY <1>2, <1>7, <2>1 DEF Record, TypeOK
  <2> QED BY <1>5, <2>2
<1>8. CASE UNCHANGED <<ledger, disk>>
  BY <1>5, <1>8
<1> QED BY <1>6, <1>7, <1>8 DEF Book

\* A debt of more than a unit gets smaller in a half-life.
LEMMA FadedLowers ==
    ASSUME NEW st \in Stats, Debt(st) > 0
    PROVE  /\ Debt(Faded(st)) <= Debt(st)
           /\ Debt(st) > 1 => Debt(Faded(st)) < Debt(st)
<1>1. \A x, y \in Nat : x - y > 1 => ((x + 1) \div 2) - ((y + 1) \div 2) < x - y
  OBVIOUS
<1>2. \A x, y \in Nat : x - y > 0 => ((x + 1) \div 2) - ((y + 1) \div 2) <= x - y
  OBVIOUS
<1>3. st.served \in Nat /\ st.received \in Nat
  BY DEF Stats
<1>4. /\ Faded(st).served = (st.served + 1) \div 2
      /\ Faded(st).received = (st.received + 1) \div 2
  BY DEF Faded
<1> QED BY <1>1, <1>2, <1>3, <1>4 DEF Debt

LEMMA DenialFades ==
    ASSUME FInv, [Next]_vars, NEW n \in Nodes \ FullDisk, NEW m \in Nodes,
           ~Serves(n, m), Unbilled(n, m) = {}
    PROVE  /\ Unbilled(n, m)' = {}
           /\ Debt(ledger'[n][m]) <= Debt(ledger[n][m])
           /\ HalfLife(Rate[<<n, m>>]) /\ Debt(ledger[n][m]) > 1 =>
                  Debt(ledger'[n][m]) < Debt(ledger[n][m])
<1>1. TypeOK /\ ledger[n][m] \in Stats /\ Debt(ledger[n][m]) \in Int
  BY LedgerDebtType DEF FInv, TypeOK
<1>2. Debt(ledger[n][m]) > 0
  BY <1>1, ReputationAssumption DEF Serves
<1>3. ASSUME NEW k, HalfLife(k)
      PROVE  /\ Unbilled(n, m)' \subseteq Unbilled(n, m)
             /\ Debt(ledger'[n][m]) <= Debt(ledger[n][m])
             /\ k = Rate[<<n, m>>] /\ Debt(ledger[n][m]) > 1 =>
                    Debt(ledger'[n][m]) < Debt(ledger[n][m])
  <2>1. /\ ledger'[n][m] \in {ledger[n][m], Faded(ledger[n][m])}
        /\ k = Rate[<<n, m>>] => ledger'[n][m] = Faded(ledger[n][m])
    BY <1>3 DEF HalfLife, FadedAll
  <2>2. Unbilled(n, m)' \subseteq Unbilled(n, m)
    BY <1>3 DEF HalfLife, Unbilled
  <2> QED BY <1>1, <1>2, <2>1, <2>2, FadedLowers
<1>4. ASSUME UNCHANGED ledger, Unbilled(n, m)' \subseteq Unbilled(n, m)
      PROVE  Unbilled(n, m)' = {} /\ Debt(ledger'[n][m]) <= Debt(ledger[n][m])
  BY <1>1, <1>4
<1>5. ASSUME NEW s \in Streams, NEW r \in Routes, NEW z \in Sizes, Ask(s, r, z)
      PROVE  Unbilled(n, m)' = {} /\ Debt(ledger'[n][m]) <= Debt(ledger[n][m])
  BY <1>1, <1>4, <1>5, AskAddsNone DEF Ask
<1>6. ASSUME NEW s \in Streams, Gate(s)
      PROVE  Unbilled(n, m)' = {} /\ Debt(ledger'[n][m]) <= Debt(ledger[n][m])
  BY <1>1, <1>4, <1>6, GateAddsServed DEF Gate
<1>7. ASSUME NEW s \in Streams, NEW i \in gets[s].due, Book(s, i)
      PROVE  Unbilled(n, m)' = {} /\ Debt(ledger'[n][m]) <= Debt(ledger[n][m])
  BY <1>1, <1>7, BookAddsNone, BookLowers
<1>8. ASSUME NEW s \in Streams, NEW i, CutShort(s, i)
      PROVE  Unbilled(n, m)' = {} /\ Debt(ledger'[n][m]) <= Debt(ledger[n][m])
  BY <1>1, <1>4, <1>8, CutShortAddsNone DEF CutShort
<1>9. ASSUME NEW k \in Nodes, Restart(k)
      PROVE  Unbilled(n, m)' = {} /\ Debt(ledger'[n][m]) <= Debt(ledger[n][m])
  <2>1. ASSUME NEW t \in Streams, OwedTo(gets'[t], n, m)
        PROVE  OwedTo(gets[t], n, m)
    BY <1>9, <2>1, NothingOwed DEF Restart, NoGet
  <2>2. Unbilled(n, m)' \subseteq Unbilled(n, m)
    BY <2>1 DEF Unbilled
  <2>3. ledger'[n] = ledger[n]
    BY <1>9 DEF Restart, FInv, SavedIsLedger, TypeOK
  <2> QED BY <1>1, <2>2, <2>3
<1>10. ASSUME UNCHANGED vars
       PROVE  Unbilled(n, m)' = {} /\ Debt(ledger'[n][m]) <= Debt(ledger[n][m])
  <2>1. Unbilled(n, m)' = Unbilled(n, m) /\ UNCHANGED ledger
    BY <1>10 DEF vars, Unbilled
  <2> QED BY <1>4, <2>1
<1>11. Unbilled(n, m)' = {} /\ Debt(ledger'[n][m]) <= Debt(ledger[n][m])
  BY <1>3, <1>5, <1>6, <1>7, <1>8, <1>9, <1>10 DEF Next
<1> QED BY <1>3, <1>11

\* A denial does not outlast the decay, on any node whose saves do not fail: while a
\* peer is denied and nothing is on the way to it, neither its asking nor anybody's
\* crash adds to its debt, and each half-life takes some of it off.
THEOREM DenialsDoFade == Spec => DenialsFade
<1>1. FInv /\ [Next]_vars =>
          [\A n \in Nodes \ FullDisk, m \in Nodes :
              ~Serves(n, m) /\ Unbilled(n, m) = {} =>
                  /\ Unbilled(n, m)' = {}
                  /\ Debt(ledger'[n][m]) <= Debt(ledger[n][m])
                  /\ HalfLife(Rate[<<n, m>>]) /\ Debt(ledger[n][m]) > 1 =>
                         Debt(ledger'[n][m]) < Debt(ledger[n][m])]_vars
  BY DenialFades
<1> QED BY <1>1, InitSaved, NextSaved, PTL DEF Spec, DenialsFade

-----------------------------------------------------------------------------
(* The two books of an edge.  A Get that passed every gate is entered by   *)
(* its first server and by its fetcher, in either order; between the two   *)
(* one ledger is ahead of the other by the size of the range.  The bytes   *)
(* the ledgers are ahead by are counted one by one, as pairs of a stream   *)
(* and a number up to its size.                                            *)

\* n is the first server of Get g, which m fetches.
FirstEdge(g, n, m) == Flows(g) /\ g.route[1] = m /\ g.route[2] = n

\* Only m has booked Get g, or only n has.
OnlyCredited(g, n, m) == FirstEdge(g, n, m) /\ 1 \in g.due /\ 0 \notin g.due
OnlyBilled(g, n, m) == FirstEdge(g, n, m) /\ 0 \in g.due /\ 1 \notin g.due

CreditOf(g, n, m) == IF OnlyCredited(g, n, m) THEN g.size ELSE 0
BillOf(g, n, m) == IF OnlyBilled(g, n, m) THEN g.size ELSE 0

Credited(n, m) == {s \in Streams : OnlyCredited(gets[s], n, m)}
Billed(n, m) == {s \in Streams : OnlyBilled(gets[s], n, m)}

SizeOf == [s \in Streams |-> gets[s].size]
Units(T, f) == {u \in T \X (1..Blob) : u[2] <= f[u[1]]}

Ahead(n, m) == Cardinality(Units(Credited(n, m), SizeOf))
Behind(n, m) == Cardinality(Units(Billed(n, m), SizeOf))

\* What the Gets other than s make the ledgers differ by.
AheadElse(s, n, m) == Cardinality(Units(Credited(n, m) \ {s}, SizeOf))
BehindElse(s, n, m) == Cardinality(Units(Billed(n, m) \ {s}, SizeOf))

\* A Get that is still at the gates owes the bills of those it passed, and one that
\* is refused is credited by nobody.
Kept(g) ==
    IF g.refused THEN ~Flows(g) /\ 0 \notin g.due ELSE Flows(g) \/ g.due = 1..g.passed

DuesOnTheWay == \A s \in Streams : Kept(gets[s])

\* The edges that are spoken of.
Even(n, m) == EvenRates(n, m) /\ <<n, m>> \notin given

EdgesAgree ==
    ~skewed => \A n, m \in Nodes : Even(n, m) =>
        ledger[m][n].received + Behind(n, m) <= ledger[n][m].served + Ahead(n, m)

EInv == TypeOK /\ DuesOnTheWay /\ EdgesAgree

LEMMA UnitsFinite ==
    ASSUME NEW T \in SUBSET Streams, NEW f
    PROVE  /\ IsFiniteSet(Units(T, f)) /\ Cardinality(Units(T, f)) \in Nat
           /\ Cardinality(Units(T, f)) <= Cardinality(T) * Blob
<1>1. IsFiniteSet(T)
  BY ReputationAssumption, FS_Subset
<1>2. Blob \in Nat /\ IsFiniteSet(1..Blob) /\ Cardinality(1..Blob) = Blob
  <2>1. Blob \in Nat
    BY ReputationAssumption
  <2>2. 1 \in Int /\ Blob \in Int /\ (1 > Blob => Blob = 0) /\ Blob - 1 + 1 = Blob
    BY <2>1
  <2> QED BY <2>1, <2>2, FS_Interval
<1>3. /\ IsFiniteSet(T \X (1..Blob))
      /\ Cardinality(T \X (1..Blob)) = Cardinality(T) * Blob
  BY <1>1, <1>2, FS_Product
<1>4. Units(T, f) \in SUBSET (T \X (1..Blob))
  BY DEF Units
<1> HIDE DEF Units
<1>5. /\ IsFiniteSet(Units(T, f))
      /\ Cardinality(Units(T, f)) <= Cardinality(T \X (1..Blob))
  BY <1>3, <1>4, FS_Subset
<1> QED BY <1>3, <1>5, FS_CardinalityType

LEMMA UnitsOfOne ==
    ASSUME NEW s \in Streams, NEW f, f[s] \in 0..Blob
    PROVE  Cardinality(Units({s}, f)) = f[s]
<1> DEFINE b == [k \in 1..f[s] |-> <<s, k>>]
<1>1. Blob \in Nat /\ f[s] \in Nat
  BY ReputationAssumption
<1>2. \A k \in 1..f[s] : <<s, k>> \in Units({s}, f)
  <2> SUFFICES ASSUME NEW k \in 1..f[s]
               PROVE  <<s, k>> \in Units({s}, f)
    OBVIOUS
  <2>1. k \in 1..Blob /\ k <= f[s]
    BY <1>1
  <2>2. <<s, k>> \in {s} \X (1..Blob)
    BY <2>1
  <2> QED BY <2>1, <2>2 DEF Units
<1>3. ASSUME NEW u \in Units({s}, f)
      PROVE  u[2] \in 1..f[s] /\ u = <<s, u[2]>>
  <2>1. u \in {s} \X (1..Blob) /\ u[2] <= f[u[1]]
    BY <1>3 DEF Units
  <2>2. u[1] = s /\ u[2] \in 1..Blob /\ u = <<u[1], u[2]>>
    BY <2>1
  <2> QED BY <1>1, <2>1, <2>2
<1>4. b \in Bijection(1..f[s], Units({s}, f))
  <2>1. b \in [1..f[s] -> Units({s}, f)]
    BY <1>2
  <2>2. \A j, k \in 1..f[s] : b[j] = b[k] => j = k
    OBVIOUS
  <2>3. \A u \in Units({s}, f) : \E k \in 1..f[s] : b[k] = u
    BY <1>3
  <2> HIDE DEF b
  <2> QED BY <2>1, <2>2, <2>3 DEF Bijection, Injection, Surjection, IsInjective
<1>5. IsFiniteSet(1..f[s]) /\ Cardinality(1..f[s]) = f[s]
  <2>1. 1 \in Int /\ f[s] \in Int /\ (1 > f[s] => f[s] = 0) /\ f[s] - 1 + 1 = f[s]
    BY <1>1
  <2> QED BY <2>1, FS_Interval
<1>6. ExistsBijection(1..f[s], Units({s}, f))
  BY <1>4 DEF ExistsBijection
<1> QED BY <1>5, <1>6, FS_Bijection

LEMMA UnitsWithout ==
    ASSUME NEW T \in SUBSET Streams, NEW s \in Streams, NEW f, f[s] \in 0..Blob
    PROVE  Cardinality(Units(T, f)) =
               Cardinality(Units(T \ {s}, f)) + (IF s \in T THEN f[s] ELSE 0)
<1> DEFINE A == Units(T \ {s}, f)
           B == Units({s}, f)
<1>1. /\ IsFiniteSet(A) /\ Cardinality(A) \in Nat
      /\ IsFiniteSet(B) /\ Cardinality(B) \in Nat
  BY UnitsFinite
<1>2. CASE s \notin T
  <2>1. T \ {s} = T
    BY <1>2
  <2> HIDE DEF Units
  <2> QED BY <1>1, <1>2, <2>1
<1>3. CASE s \in T
  <2>1. Units(T, f) = A \cup B
    BY <1>3 DEF Units
  <2>2. A \cap B = {}
    BY DEF Units
  <2>3. Cardinality(B) = f[s]
    BY UnitsOfOne
  <2> HIDE DEF A, B
  <2>4. Cardinality(A \cup B) = Cardinality(A) + Cardinality(B) - Cardinality(A \cap B)
    BY <1>1, FS_Union
  <2>5. Cardinality(A \cap B) = 0
    BY <2>2, FS_EmptySet
  <2>6. Cardinality(Units(T, f)) = Cardinality(A) + f[s]
    BY <1>1, <2>1, <2>3, <2>4, <2>5
  <2> QED BY <1>3, <2>6 DEF A
<1> QED BY <1>2, <1>3

LEMMA UnitsSame ==
    ASSUME NEW T, NEW f, NEW e, \A t \in T : f[t] = e[t]
    PROVE  Units(T, f) = Units(T, e)
BY DEF Units

LEMMA SizeBound ==
    ASSUME NEW g \in Get \cup {NoGet}
    PROVE  g.size \in 0..Blob
<1>1. Blob \in Nat /\ Sizes \subseteq 1..Blob
  BY ReputationAssumption
<1>2. CASE g = NoGet
  BY <1>1, <1>2 DEF NoGet
<1>3. CASE g \in Get
  <2>1. g.size \in Sizes
    BY <1>3 DEF Get
  <2>2. g.size \in 1..Blob
    BY <1>1, <2>1
  <2> QED BY <1>1, <2>2
<1> QED BY <1>2, <1>3

\* A step that changes one Get changes what the ledgers are apart by that Get.
LEMMA OneApart ==
    ASSUME TypeOK, TypeOK', NEW s \in Streams, NEW n, NEW m,
           \A t \in Streams \ {s} : gets'[t] = gets[t]
    PROVE  /\ AheadElse(s, n, m) \in Nat /\ BehindElse(s, n, m) \in Nat
           /\ Ahead(n, m) = AheadElse(s, n, m) + CreditOf(gets[s], n, m)
           /\ Ahead(n, m)' = AheadElse(s, n, m) + CreditOf(gets'[s], n, m)
           /\ Behind(n, m) = BehindElse(s, n, m) + BillOf(gets[s], n, m)
           /\ Behind(n, m)' = BehindElse(s, n, m) + BillOf(gets'[s], n, m)
<1> DEFINE C == Credited(n, m)
           D == Credited(n, m)'
           A == Billed(n, m)
           B == Billed(n, m)'
           f == SizeOf
           e == SizeOf'
<1>1. \A t \in Streams \ {s} : gets'[t] = gets[t]
  OBVIOUS
<1>2. /\ f[s] = gets[s].size /\ e[s] = gets'[s].size
      /\ \A t \in Streams \ {s} : f[t] = e[t]
  BY <1>1 DEF SizeOf
<1>3. f[s] \in 0..Blob /\ e[s] \in 0..Blob
  <2>1. \A g \in Get \cup {NoGet} : g.size \in 0..Blob
    BY SizeBound
  <2>2. gets[s] \in Get \cup {NoGet} /\ gets'[s] \in Get \cup {NoGet}
    BY DEF TypeOK
  <2> QED BY <1>1, <1>2, <2>1, <2>2
<1>4. /\ C \in SUBSET Streams /\ (s \in C <=> OnlyCredited(gets[s], n, m))
      /\ A \in SUBSET Streams /\ (s \in A <=> OnlyBilled(gets[s], n, m))
  BY DEF Credited, Billed
<1>5. /\ D \in SUBSET Streams /\ (s \in D <=> OnlyCredited(gets'[s], n, m)) /\ D \ {s} = C \ {s}
      /\ B \in SUBSET Streams /\ (s \in B <=> OnlyBilled(gets'[s], n, m)) /\ B \ {s} = A \ {s}
  <2>1. ASSUME NEW t \in Streams \ {s}
        PROVE  (t \in D <=> t \in C) /\ (t \in B <=> t \in A)
    BY <1>1, <2>1 DEF Credited, Billed, OnlyCredited, OnlyBilled, FirstEdge, Flows
  <2>2. D \in SUBSET Streams /\ B \in SUBSET Streams
    BY DEF Credited, Billed
  <2>3. (s \in D <=> OnlyCredited(gets'[s], n, m)) /\ (s \in B <=> OnlyBilled(gets'[s], n, m))
    BY <1>1 DEF Credited, Billed, OnlyCredited, OnlyBilled, FirstEdge, Flows
  <2> HIDE DEF C, D, A, B
  <2>4. C \in SUBSET Streams /\ A \in SUBSET Streams
    BY <1>4 DEF C, A
  <2> QED BY <2>1, <2>2, <2>3, <2>4 DEF D, B
<1>6. /\ Ahead(n, m) = Cardinality(Units(C, f)) /\ Ahead(n, m)' = Cardinality(Units(D, e))
      /\ Behind(n, m) = Cardinality(Units(A, f)) /\ Behind(n, m)' = Cardinality(Units(B, e))
  BY DEF Ahead, Behind, Units
<1> HIDE DEF C, D, A, B, f, e
<1>7. /\ Units(C \ {s}, f) = Units(D \ {s}, e)
      /\ Units(A \ {s}, f) = Units(B \ {s}, e)
  <2>1. Units(C \ {s}, f) = Units(C \ {s}, e)
    BY <1>2, <1>4, UnitsSame
  <2>2. Units(A \ {s}, f) = Units(A \ {s}, e)
    BY <1>2, <1>4, UnitsSame
  <2> QED BY <1>5, <2>1, <2>2
<1>8. /\ Cardinality(Units(C, f)) =
             Cardinality(Units(C \ {s}, f)) + (IF s \in C THEN f[s] ELSE 0)
      /\ Cardinality(Units(D, e)) =
             Cardinality(Units(D \ {s}, e)) + (IF s \in D THEN e[s] ELSE 0)
      /\ Cardinality(Units(A, f)) =
             Cardinality(Units(A \ {s}, f)) + (IF s \in A THEN f[s] ELSE 0)
      /\ Cardinality(Units(B, e)) =
             Cardinality(Units(B \ {s}, e)) + (IF s \in B THEN e[s] ELSE 0)
  BY <1>3, <1>4, <1>5, UnitsWithout
<1>9. Cardinality(Units(C \ {s}, f)) \in Nat /\ Cardinality(Units(A \ {s}, f)) \in Nat
  <2>1. C \ {s} \in SUBSET Streams /\ A \ {s} \in SUBSET Streams
    BY <1>4
  <2> QED BY <2>1, UnitsFinite
<1>10. /\ AheadElse(s, n, m) = Cardinality(Units(C \ {s}, f))
       /\ BehindElse(s, n, m) = Cardinality(Units(A \ {s}, f))
  BY DEF AheadElse, BehindElse, C, A, f
<1> QED BY <1>2, <1>4, <1>5, <1>6, <1>7, <1>8, <1>9, <1>10 DEF CreditOf, BillOf

\* A Get that is idle, at a gate, or in all of its books or none, is not between
\* two books.
LEMMA NotApart ==
    ASSUME NEW g, NEW n, NEW m, ~Flows(g) \/ (0 \in g.due <=> 1 \in g.due)
    PROVE  CreditOf(g, n, m) = 0 /\ BillOf(g, n, m) = 0
BY DEF CreditOf, BillOf, OnlyCredited, OnlyBilled, FirstEdge

LEMMA IdleIsKept == ~Flows(NoGet) /\ Kept(NoGet)
BY DEF Flows, NoGet, Kept

\* A step that leaves the ledgers alone and puts one Get from outside its two
\* books to outside them.
LEMMA StillAgree ==
    ASSUME EInv, TypeOK', NEW s \in Streams, \A t \in Streams \ {s} : gets'[t] = gets[t],
           UNCHANGED <<ledger, skewed, given>>,
           ~Flows(gets[s]) \/ (0 \in gets[s].due <=> 1 \in gets[s].due),
           ~Flows(gets'[s]) \/ (0 \in gets'[s].due <=> 1 \in gets'[s].due)
    PROVE  EdgesAgree'
<1>1. ASSUME ~skewed', NEW n \in Nodes, NEW m \in Nodes, Even(n, m)'
      PROVE  ledger'[m][n].received + Behind(n, m)' <= ledger'[n][m].served + Ahead(n, m)'
  <2>1. Ahead(n, m)' = Ahead(n, m) /\ Behind(n, m)' = Behind(n, m)
    <3>1. /\ CreditOf(gets[s], n, m) = 0 /\ BillOf(gets[s], n, m) = 0
          /\ CreditOf(gets'[s], n, m) = 0 /\ BillOf(gets'[s], n, m) = 0
      BY NotApart
    <3>2. /\ AheadElse(s, n, m) \in Nat /\ BehindElse(s, n, m) \in Nat
          /\ Ahead(n, m) = AheadElse(s, n, m) + CreditOf(gets[s], n, m)
          /\ Ahead(n, m)' = AheadElse(s, n, m) + CreditOf(gets'[s], n, m)
          /\ Behind(n, m) = BehindElse(s, n, m) + BillOf(gets[s], n, m)
          /\ Behind(n, m)' = BehindElse(s, n, m) + BillOf(gets'[s], n, m)
      <4>1. TypeOK
        BY DEF EInv
      <4> QED BY <4>1, OneApart, Zenon
    <3> QED BY <3>1, <3>2
  <2>2. Even(n, m)
    BY <1>1 DEF Even, EvenRates
  <2> QED BY <1>1, <2>1, <2>2 DEF EInv, EdgesAgree
<1> QED BY <1>1 DEF EdgesAgree

\* What a step enters on an edge makes up for what it changes in who is ahead.
LEMMA StepAgrees ==
    ASSUME EInv, TypeOK', NEW s \in Streams, \A t \in Streams \ {s} : gets'[t] = gets[t],
           NEW n \in Nodes, NEW m \in Nodes, NEW got \in Nat, NEW put \in Nat,
           ~skewed, Even(n, m),
           ledger'[m][n].received = ledger[m][n].received + got,
           ledger'[n][m].served = ledger[n][m].served + put,
           got + BillOf(gets'[s], n, m) + CreditOf(gets[s], n, m) <=
               put + BillOf(gets[s], n, m) + CreditOf(gets'[s], n, m)
    PROVE  ledger'[m][n].received + Behind(n, m)' <= ledger'[n][m].served + Ahead(n, m)'
<1>1. TypeOK
  BY DEF EInv
<1>2. /\ AheadElse(s, n, m) \in Nat /\ BehindElse(s, n, m) \in Nat
      /\ Ahead(n, m) = AheadElse(s, n, m) + CreditOf(gets[s], n, m)
      /\ Ahead(n, m)' = AheadElse(s, n, m) + CreditOf(gets'[s], n, m)
      /\ Behind(n, m) = BehindElse(s, n, m) + BillOf(gets[s], n, m)
      /\ Behind(n, m)' = BehindElse(s, n, m) + BillOf(gets'[s], n, m)
  BY <1>1, OneApart
<1>3. /\ BillOf(gets[s], n, m) \in Nat /\ CreditOf(gets[s], n, m) \in Nat
      /\ BillOf(gets'[s], n, m) \in Nat /\ CreditOf(gets'[s], n, m) \in Nat
  <2>1. ASSUME NEW g \in Get \cup {NoGet}
        PROVE  BillOf(g, n, m) \in Nat /\ CreditOf(g, n, m) \in Nat
    BY SizeBound DEF BillOf, CreditOf
  <2>2. gets[s] \in Get \cup {NoGet} /\ gets'[s] \in Get \cup {NoGet}
    BY <1>1 DEF TypeOK
  <2> QED BY <2>1, <2>2
<1>4. ledger[m][n].received + Behind(n, m) <= ledger[n][m].served + Ahead(n, m)
  BY DEF EInv, EdgesAgree
<1>5. ledger[m][n].received \in Nat /\ ledger[n][m].served \in Nat
  BY <1>1 DEF TypeOK, Stats
<1> QED BY <1>2, <1>3, <1>4, <1>5

LEMMA OneDue ==
    ASSUME EInv, NEW s \in Streams, \A t \in Streams \ {s} : gets'[t] = gets[t], Kept(gets'[s])
    PROVE  DuesOnTheWay'
<1>1. ASSUME NEW t \in Streams
      PROVE  Kept(gets'[t])
  <2>1. CASE t = s
    BY <2>1
  <2>2. CASE t # s
    <3>1. gets'[t] = gets[t]
      BY <2>2
    <3>2. Kept(gets[t])
      BY DEF EInv, DuesOnTheWay
    <3> QED BY <3>1, <3>2
  <2> QED BY <2>1, <2>2
<1> QED BY <1>1 DEF DuesOnTheWay, Kept, Flows

LEMMA AskAgrees ==
    ASSUME EInv, TypeOK', NEW s \in Streams, NEW r \in Routes, NEW z \in Sizes, Ask(s, r, z)
    PROVE  DuesOnTheWay' /\ EdgesAgree'
<1>1. /\ \A t \in Streams \ {s} : gets'[t] = gets[t]
      /\ gets[s] = NoGet
      /\ gets'[s].passed = 0 /\ gets'[s].due = {} /\ gets'[s].refused = FALSE
  BY DEF Ask, EInv, TypeOK
<1>2. Kept(gets'[s])
  BY <1>1 DEF Kept
<1>3. DuesOnTheWay'
  BY <1>1, <1>2, OneDue
<1>4. EdgesAgree'
  <2>1. ~Flows(gets[s]) /\ (0 \in gets'[s].due <=> 1 \in gets'[s].due)
    BY <1>1, IdleIsKept
  <2>2. UNCHANGED <<ledger, skewed, given>>
    BY DEF Ask
  <2> QED BY <1>1, <2>1, <2>2, StillAgree
<1> QED BY <1>3, <1>4

LEMMA GateAgrees ==
    ASSUME EInv, TypeOK', NEW s \in Streams, Gate(s)
    PROVE  DuesOnTheWay' /\ EdgesAgree'
<1> DEFINE g == gets[s]
           hop == g.passed + 1
           h == gets'[s]
<1>1. /\ g \in Get /\ g # NoGet /\ ~g.refused /\ ~Flows(g)
      /\ \A t \in Streams \ {s} : gets'[t] = gets[t]
      /\ UNCHANGED <<ledger, skewed, given>>
  BY DEF Gate, EInv, TypeOK
<1>2. g.passed \in Nat
  BY <1>1 DEF Get
<1>3. g.due = 1..g.passed
  BY <1>1 DEF EInv, DuesOnTheWay, Kept
<1>4. \/ h = NoGet
      \/ h.refused /\ h.route = g.route /\ h.passed = g.passed /\ h.due = g.due
      \/ /\ h.route = g.route /\ h.passed = hop /\ ~h.refused
         /\ h.due = g.due \cup {hop} \cup IF hop + 1 = Len(g.route) THEN {0} ELSE {}
  <2>1. h = IF ~Serves(g.route[hop + 1], g.route[hop])
            THEN IF g.due = {} THEN NoGet ELSE [g EXCEPT !.refused = TRUE]
            ELSE [g EXCEPT !.passed = hop,
                           !.due = @ \cup {hop} \cup
                                   IF hop + 1 = Len(g.route) THEN {0} ELSE {}]
    BY DEF Gate, EInv, TypeOK
  <2> QED BY <1>1, <2>1 DEF Get
<1> HIDE DEF g, h
<1>5. CASE h = NoGet \/ h.refused
  <2>1. ~Flows(h) /\ Kept(h)
    <3>1. CASE h = NoGet
      BY <3>1, IdleIsKept
    <3>2. CASE h # NoGet
      <4>1. h.refused /\ h.route = g.route /\ h.passed = g.passed /\ h.due = 1..g.passed
        BY <1>3, <1>4, <1>5, <3>2
      <4>2. ~Flows(h)
        BY <1>1, <4>1 DEF Flows
      <4> QED BY <1>2, <4>1, <4>2 DEF Kept
    <3> QED BY <3>1, <3>2
  <2>2. DuesOnTheWay'
    BY <1>1, <2>1, OneDue DEF h
  <2>3. EdgesAgree'
    BY <1>1, <2>1, StillAgree DEF g, h
  <2> QED BY <2>2, <2>3
<1>6. CASE h # NoGet /\ ~h.refused /\ hop + 1 = Len(g.route)
  <2>1. ~h.refused /\ Flows(h) /\ 0 \in h.due /\ 1 \in h.due
    <3>1. h.passed = hop /\ h.route = g.route /\ h.due = 1..g.passed \cup {hop} \cup {0}
      BY <1>3, <1>4, <1>6
    <3>2. hop = 1 \/ 1 \in 1..g.passed
      BY <1>2
    <3> QED BY <1>6, <3>1, <3>2 DEF Flows
  <2>2. DuesOnTheWay'
    BY <1>1, <2>1, OneDue DEF h, Kept
  <2>3. EdgesAgree'
    BY <1>1, <2>1, StillAgree DEF g, h
  <2> QED BY <2>2, <2>3
<1>7. CASE h # NoGet /\ ~h.refused /\ hop + 1 # Len(g.route)
  <2>1. ~h.refused /\ ~Flows(h) /\ h.due = 1..h.passed
    <3>1. h.passed = hop /\ h.route = g.route /\ h.due = 1..g.passed \cup {hop}
      BY <1>3, <1>4, <1>7
    <3>2. 1..hop = 1..g.passed \cup {hop}
      BY <1>2
    <3> QED BY <1>7, <3>1, <3>2 DEF Flows
  <2>2. DuesOnTheWay'
    BY <1>1, <2>1, OneDue DEF h, Kept
  <2>3. EdgesAgree'
    BY <1>1, <2>1, StillAgree DEF g, h
  <2> QED BY <2>2, <2>3
<1> QED BY <1>5, <1>6, <1>7

\* A book of a Get leaves it with one less to keep, or idle.
LEMMA BookLeaves ==
    ASSUME EInv, TypeOK', NEW s \in Streams, NEW i \in gets[s].due, Book(s, i)
    PROVE  /\ gets[s] \in Get /\ i \in Nat
           /\ Flows(gets[s]) <=> ~gets[s].refused
           /\ gets[s].refused => i # 0
           /\ \A t \in Streams \ {s} : gets'[t] = gets[t]
           /\ \/ gets'[s] = NoGet /\ gets[s].due = {i}
              \/ /\ gets'[s].route = gets[s].route /\ gets'[s].passed = gets[s].passed
                 /\ gets'[s].size = gets[s].size /\ gets'[s].due = gets[s].due \ {i}
                 /\ gets'[s].refused = gets[s].refused
                 /\ Flows(gets'[s]) <=> Flows(gets[s])
<1> DEFINE g == gets[s]
           less == [g EXCEPT !.due = @ \ {i}]
<1>1. g \in Get /\ (g.refused \/ Flows(g))
  BY DEF Book, EInv, TypeOK
<1>2. i \in Nat /\ g.refused \in BOOLEAN
  BY <1>1 DEF Get
<1>3. /\ less.route = g.route /\ less.passed = g.passed
      /\ less.size = g.size /\ less.due = g.due \ {i} /\ less.refused = g.refused
  BY <1>1 DEF Get
<1>4. \A t \in Streams \ {s} : gets'[t] = gets[t]
  BY DEF Book, EInv, TypeOK
<1>5. gets'[s] = IF g.due = {i} THEN NoGet ELSE less
  BY DEF Book, EInv, TypeOK
<1>6. (Flows(g) <=> ~g.refused) /\ (g.refused => i # 0)
  <2>1. Kept(g)
    BY DEF EInv, DuesOnTheWay
  <2> QED BY <1>1, <2>1 DEF Kept
<1> HIDE DEF less
<1>7. Flows(less) <=> Flows(g)
  BY <1>3 DEF Flows
<1> HIDE DEF g
<1>8. \/ gets'[s] = NoGet /\ g.due = {i}
      \/ gets'[s] = less
  BY <1>5
<1>9. CASE gets'[s] = less
  BY <1>1, <1>2, <1>3, <1>4, <1>6, <1>7, <1>9 DEF g
<1> QED BY <1>1, <1>2, <1>4, <1>6, <1>8, <1>9 DEF g

LEMMA BookDues ==
    ASSUME EInv, TypeOK', NEW s \in Streams, NEW i \in gets[s].due, Book(s, i)
    PROVE  DuesOnTheWay'
<1> DEFINE g == gets[s]
           h == gets'[s]
<1>1. /\ g \in Get /\ (Flows(g) <=> ~g.refused)
      /\ \A t \in Streams \ {s} : gets'[t] = gets[t]
      /\ \/ h = NoGet
         \/ h.due = g.due \ {i} /\ h.refused = g.refused /\ (Flows(h) <=> Flows(g))
  BY BookLeaves
<1>2. Kept(g)
  BY DEF EInv, DuesOnTheWay
<1> HIDE DEF g, h
<1>3. Kept(h)
  <2>1. CASE h = NoGet
    BY <2>1, IdleIsKept
  <2>2. CASE h # NoGet
    BY <1>1, <1>2, <2>2 DEF Kept
  <2> QED BY <2>1, <2>2
<1> QED BY <1>1, <1>3, OneDue DEF h

\* What an entry adds to either counter of either end of an edge.
LEMMA Enters ==
    ASSUME TypeOK, NEW k \in Nodes, NEW l \in Nodes, NEW bytes \in Nat,
           NEW n \in Nodes, NEW m \in Nodes
    PROVE  /\ Record(k, l, "served", bytes) =>
                /\ ledger'[m][n].received = ledger[m][n].received + 0
                /\ ledger'[n][m].served =
                       ledger[n][m].served + (IF n = k /\ m = l THEN bytes ELSE 0)
           /\ Record(k, l, "received", bytes) =>
                /\ ledger'[m][n].received =
                       ledger[m][n].received + (IF m = k /\ n = l THEN bytes ELSE 0)
                /\ ledger'[n][m].served = ledger[n][m].served + 0
<1>1. /\ ledger[n][m] \in Stats /\ ledger[m][n] \in Stats
      /\ ledger[n][m].served \in Nat /\ ledger[m][n].received \in Nat
  BY DEF TypeOK, Stats
<1>2. ASSUME NEW f \in {"served", "received"}, Record(k, l, f, bytes)
      PROVE  \A a, b \in Nodes :
                ledger'[a][b] = IF a = k /\ b = l THEN Entered(ledger[a][b], f, bytes)
                                ELSE ledger[a][b]
  BY <1>2 DEF Record, TypeOK
<1>3. ASSUME NEW st \in Stats
      PROVE  /\ Entered(st, "served", bytes).served = st.served + bytes
             /\ Entered(st, "served", bytes).received = st.received
             /\ Entered(st, "received", bytes).served = st.served
             /\ Entered(st, "received", bytes).received = st.received + bytes
  BY DEF Entered, Stats
<1>4. ASSUME Record(k, l, "served", bytes)
      PROVE  /\ ledger'[m][n].received = ledger[m][n].received + 0
             /\ ledger'[n][m].served =
                    ledger[n][m].served + (IF n = k /\ m = l THEN bytes ELSE 0)
  <2>1. /\ ledger'[n][m] = IF n = k /\ m = l THEN Entered(ledger[n][m], "served", bytes)
                           ELSE ledger[n][m]
        /\ ledger'[m][n] = IF m = k /\ n = l THEN Entered(ledger[m][n], "served", bytes)
                           ELSE ledger[m][n]
    BY <1>2, <1>4
  <2> QED BY <1>1, <1>3, <2>1
<1>5. ASSUME Record(k, l, "received", bytes)
      PROVE  /\ ledger'[m][n].received =
                    ledger[m][n].received + (IF m = k /\ n = l THEN bytes ELSE 0)
             /\ ledger'[n][m].served = ledger[n][m].served + 0
  <2>1. /\ ledger'[n][m] = IF n = k /\ m = l THEN Entered(ledger[n][m], "received", bytes)
                           ELSE ledger[n][m]
        /\ ledger'[m][n] = IF m = k /\ n = l THEN Entered(ledger[m][n], "received", bytes)
                           ELSE ledger[m][n]
    BY <1>2, <1>5
  <2> QED BY <1>1, <1>3, <2>1
<1> QED BY <1>4, <1>5

LEMMA SkewStays ==
    ASSUME TypeOK, NEW k, NEW l, NEW field, NEW bytes, Record(k, l, field, bytes)
    PROVE  ~skewed' => ~skewed
BY DEF Record

\* The first server bills at least the range its peer is credited with, and a
\* server further along has no part in what the first edge is apart.
LEMMA BillAgrees ==
    ASSUME EInv, TypeOK', NEW s \in Streams, NEW i \in gets[s].due, i # 0, Book(s, i),
           Flows(gets[s]), UNCHANGED given,
           Record(gets[s].route[i + 1], gets[s].route[i], "served", Bytes(gets[s], i))
    PROVE  EdgesAgree'
<1> DEFINE g == gets[s]
           h == gets'[s]
           k == g.route[i + 1]
           l == g.route[i]
<1>1. /\ g \in Get /\ Flows(g) /\ i \in Nat /\ ~g.refused
      /\ \A t \in Streams \ {s} : gets'[t] = gets[t]
      /\ \/ h = NoGet /\ g.due = {i}
         \/ /\ h.route = g.route /\ h.passed = g.passed
            /\ h.size = g.size /\ h.due = g.due \ {i} /\ Flows(h)
  BY BookLeaves
<1>2. k \in Nodes /\ l \in Nodes
  <2>1. i \in 1..Len(g.route) /\ i + 1 \in 1..Len(g.route)
    BY <1>1, RouteOfGet DEF Get
  <2> QED BY <1>1, <2>1, RouteOfGet
<1>3. Bytes(g, i) \in Nat /\ Bytes(g, i) >= g.size /\ g.size \in Nat
  <2>1. Bytes(g, i) \in Nat /\ g.size \in 0..Blob
    BY <1>1, BytesType, SizeBound
  <2> QED BY <1>1, <2>1, ReputationAssumption DEF Bytes
<1>4. TypeOK /\ Record(k, l, "served", Bytes(g, i))
  BY DEF EInv
<1> HIDE DEF g, h, k, l
<1>5. ASSUME ~skewed', NEW n \in Nodes, NEW m \in Nodes, Even(n, m)'
      PROVE  ledger'[m][n].received + Behind(n, m)' <= ledger'[n][m].served + Ahead(n, m)'
  <2> DEFINE put == IF n = k /\ m = l THEN Bytes(g, i) ELSE 0
  <2>1. /\ ledger'[m][n].received = ledger[m][n].received + 0
        /\ ledger'[n][m].served = ledger[n][m].served + put
    BY <1>2, <1>3, <1>4, Enters
  <2>2. put \in Nat /\ ~skewed
    BY <1>3, <1>4, <1>5, SkewStays
  <2>3. BillOf(h, n, m) + CreditOf(g, n, m) <= put + BillOf(g, n, m) + CreditOf(h, n, m)
    <3>1. CASE i # 1
      <4>1. CASE h = NoGet
        <5>1. BillOf(h, n, m) = 0 /\ CreditOf(h, n, m) = 0
          BY <4>1, IdleIsKept, NotApart
        <5>2. BillOf(g, n, m) = 0 /\ CreditOf(g, n, m) = 0
          <6>1. 0 \notin g.due /\ 1 \notin g.due
            BY <1>1, <3>1, <4>1 DEF Flows, NoGet
          <6> QED BY <6>1, NotApart
        <5> HIDE DEF put
        <5> QED BY <2>2, <5>1, <5>2
      <4>2. CASE h # NoGet
        <5>1. (0 \in h.due <=> 0 \in g.due) /\ (1 \in h.due <=> 1 \in g.due)
          BY <1>1, <3>1, <4>2
        <5>2. OnlyBilled(h, n, m) <=> OnlyBilled(g, n, m)
          BY <1>1, <4>2, <5>1 DEF OnlyBilled, FirstEdge
        <5>3. OnlyCredited(h, n, m) <=> OnlyCredited(g, n, m)
          BY <1>1, <4>2, <5>1 DEF OnlyCredited, FirstEdge
        <5>4. h.size = g.size
          BY <1>1, <4>2
        <5> HIDE DEF put
        <5> QED BY <1>3, <2>2, <5>2, <5>3, <5>4 DEF BillOf, CreditOf
      <4> QED BY <4>1, <4>2
    <3>2. CASE i = 1
      <4>1. FirstEdge(g, n, m) => put = Bytes(g, i)
        BY <3>2 DEF FirstEdge, k, l
      <4>2. ~OnlyBilled(g, n, m)
        BY <3>2 DEF OnlyBilled, g
      <4>3. OnlyCredited(g, n, m) => FirstEdge(g, n, m) /\ 0 \notin g.due
        BY DEF OnlyCredited
      <4>4. OnlyBilled(h, n, m) => FirstEdge(g, n, m) /\ 0 \in g.due /\ h.size = g.size
        BY <1>1, IdleIsKept DEF OnlyBilled, FirstEdge
      <4>5. CreditOf(h, n, m) = 0
        <5>1. ~OnlyCredited(h, n, m)
          BY <1>1, <3>2, IdleIsKept DEF OnlyCredited, FirstEdge
        <5> QED BY <5>1 DEF CreditOf
      <4> HIDE DEF put
      <4> QED BY <1>3, <2>2, <4>1, <4>2, <4>3, <4>4, <4>5 DEF BillOf, CreditOf
    <3> QED BY <3>1, <3>2
  <2> HIDE DEF put
  <2>4. /\ BillOf(h, n, m) \in Nat /\ CreditOf(g, n, m) \in Nat
        /\ 0 + BillOf(h, n, m) + CreditOf(g, n, m)
               <= put + BillOf(g, n, m) + CreditOf(h, n, m)
    <3>1. ASSUME NEW x \in Get \cup {NoGet}
          PROVE  BillOf(x, n, m) \in Nat /\ CreditOf(x, n, m) \in Nat
      BY SizeBound DEF BillOf, CreditOf
    <3>2. g \in Get \cup {NoGet} /\ h \in Get \cup {NoGet}
      BY <1>4 DEF TypeOK, g, h
    <3>3. BillOf(h, n, m) \in Nat /\ CreditOf(g, n, m) \in Nat
      BY <3>1, <3>2
    <3> QED BY <2>3, <3>3
  <2>5. Even(n, m)
    BY <1>5 DEF Even, EvenRates
  <2> QED BY <1>1, <2>1, <2>2, <2>4, <2>5, StepAgrees DEF g, h
<1> QED BY <1>5 DEF EdgesAgree

\* A Get that was refused has no part in what any edge is apart.
LEMMA RefusedAgrees ==
    ASSUME EInv, TypeOK', NEW s \in Streams, NEW i \in gets[s].due, i # 0, Book(s, i),
           ~Flows(gets[s]), UNCHANGED given,
           Record(gets[s].route[i + 1], gets[s].route[i], "served", Bytes(gets[s], i))
    PROVE  EdgesAgree'
<1> DEFINE g == gets[s]
           h == gets'[s]
           k == g.route[i + 1]
           l == g.route[i]
<1>1. /\ g \in Get /\ ~Flows(g) /\ i \in Nat
      /\ \A t \in Streams \ {s} : gets'[t] = gets[t]
      /\ h = NoGet \/ ~Flows(h)
  BY BookLeaves
<1>2. k \in Nodes /\ l \in Nodes
  <2>1. i \in 1..Len(g.route) /\ i + 1 \in 1..Len(g.route)
    BY <1>1, RouteOfGet DEF Get
  <2> QED BY <1>1, <2>1, RouteOfGet
<1>3. Bytes(g, i) \in Nat
  BY <1>1, BytesType
<1>4. TypeOK /\ Record(k, l, "served", Bytes(g, i))
  BY DEF EInv
<1> HIDE DEF g, h, k, l
<1>5. ASSUME ~skewed', NEW n \in Nodes, NEW m \in Nodes, Even(n, m)'
      PROVE  ledger'[m][n].received + Behind(n, m)' <= ledger'[n][m].served + Ahead(n, m)'
  <2> DEFINE put == IF n = k /\ m = l THEN Bytes(g, i) ELSE 0
  <2>1. /\ ledger'[m][n].received = ledger[m][n].received + 0
        /\ ledger'[n][m].served = ledger[n][m].served + put
    BY <1>2, <1>3, <1>4, Enters
  <2>2. put \in Nat /\ ~skewed
    BY <1>3, <1>4, <1>5, SkewStays
  <2>3. /\ BillOf(g, n, m) = 0 /\ CreditOf(g, n, m) = 0
        /\ BillOf(h, n, m) = 0 /\ CreditOf(h, n, m) = 0
    BY <1>1, IdleIsKept, NotApart
  <2>4. Even(n, m)
    BY <1>5 DEF Even, EvenRates
  <2> HIDE DEF put
  <2>5. 0 + BillOf(h, n, m) + CreditOf(g, n, m) <= put + BillOf(g, n, m) + CreditOf(h, n, m)
    BY <2>2, <2>3
  <2> QED BY <1>1, <2>1, <2>2, <2>4, <2>5, StepAgrees DEF g, h
<1> QED BY <1>5 DEF EdgesAgree

\* A range given for nothing leaves the ledgers apart only on the edge it was given
\* over.
LEMMA GivenAgrees ==
    ASSUME EInv, TypeOK', NEW s \in Streams, NEW i \in gets[s].due, Book(s, i),
           i + 1 = Len(gets[s].route), UNCHANGED <<ledger, skewed>>,
           given' = given \cup {<<gets[s].route[i + 1], gets[s].route[i]>>}
    PROVE  EdgesAgree'
<1> DEFINE g == gets[s]
           h == gets'[s]
<1>1. /\ g \in Get /\ i \in Nat
      /\ \A t \in Streams \ {s} : gets'[t] = gets[t]
      /\ \/ h = NoGet /\ g.due = {i}
         \/ /\ h.route = g.route /\ h.size = g.size /\ h.due = g.due \ {i}
            /\ Flows(h) <=> Flows(g)
  BY BookLeaves
<1>2. i >= 1
  BY <1>1, RouteOfGet
<1>3. given' = given \cup {<<g.route[i + 1], g.route[i]>>}
  OBVIOUS
<1> HIDE DEF g, h
<1>4. ASSUME ~skewed', NEW n \in Nodes, NEW m \in Nodes, Even(n, m)'
      PROVE  ledger'[m][n].received + Behind(n, m)' <= ledger'[n][m].served + Ahead(n, m)'
  <2>1. Even(n, m) /\ <<n, m>> # <<g.route[i + 1], g.route[i]>> /\ ~skewed
    BY <1>3, <1>4 DEF Even, EvenRates
  <2>2. CreditOf(h, n, m) = CreditOf(g, n, m) /\ BillOf(h, n, m) = BillOf(g, n, m)
    <3>1. CASE i = 1
      <4>1. ~FirstEdge(g, n, m)
        BY <2>1, <3>1 DEF FirstEdge
      <4>2. ~FirstEdge(h, n, m)
        BY <1>1, <4>1, IdleIsKept DEF FirstEdge
      <4> QED BY <4>1, <4>2 DEF CreditOf, BillOf, OnlyCredited, OnlyBilled
    <3>2. CASE i # 1 /\ h = NoGet
      <4>1. ~Flows(g) \/ (0 \notin g.due /\ 1 \notin g.due)
        BY <1>1, <1>2, <3>2, IdleIsKept
      <4>2. ~Flows(h)
        BY <3>2, IdleIsKept
      <4> QED BY <4>1, <4>2, NotApart
    <3>3. CASE i # 1 /\ h # NoGet
      <4>1. (0 \in h.due <=> 0 \in g.due) /\ (1 \in h.due <=> 1 \in g.due)
        BY <1>1, <1>2, <3>3
      <4> QED BY <1>1, <3>3, <4>1 DEF CreditOf, BillOf, OnlyCredited, OnlyBilled, FirstEdge
    <3> QED BY <3>1, <3>2, <3>3
  <2>3. /\ BillOf(g, n, m) \in Nat /\ CreditOf(g, n, m) \in Nat
    BY <1>1, SizeBound DEF BillOf, CreditOf
  <2>4. 0 + BillOf(h, n, m) + CreditOf(g, n, m) <= 0 + BillOf(g, n, m) + CreditOf(h, n, m)
    BY <2>2, <2>3
  <2>5. ledger[m][n].received \in Nat /\ ledger[n][m].served \in Nat
    BY DEF EInv, TypeOK, Stats
  <2>6. /\ ledger'[m][n].received = ledger[m][n].received + 0
        /\ ledger'[n][m].served = ledger[n][m].served + 0
    BY <2>5
  <2> QED BY <1>1, <2>1, <2>4, <2>6, StepAgrees DEF g, h
<1> QED BY <1>4 DEF EdgesAgree

\* The fetcher credits what its first server has billed, or is about to.
LEMMA CreditAgrees ==
    ASSUME EInv, TypeOK', NEW s \in Streams, 0 \in gets[s].due, Book(s, 0),
           UNCHANGED given, Record(gets[s].route[1], gets[s].route[2], "received", gets[s].size)
    PROVE  EdgesAgree'
<1> DEFINE g == gets[s]
           h == gets'[s]
           k == g.route[1]
           l == g.route[2]
<1>1. /\ g \in Get /\ Flows(g)
      /\ \A t \in Streams \ {s} : gets'[t] = gets[t]
      /\ \/ h = NoGet /\ g.due = {0}
         \/ /\ h.route = g.route /\ h.passed = g.passed
            /\ h.size = g.size /\ h.due = g.due \ {0} /\ Flows(h)
  BY BookLeaves
<1>2. k \in Nodes /\ l \in Nodes
  BY <1>1, RouteOfGet
<1>3. g.size \in Nat
  BY <1>1, BytesType
<1>4. TypeOK /\ Record(k, l, "received", g.size)
  BY DEF EInv
<1>5. 0 \in g.due
  OBVIOUS
<1> HIDE DEF g, h, k, l
<1>6. ASSUME ~skewed', NEW n \in Nodes, NEW m \in Nodes, Even(n, m)'
      PROVE  ledger'[m][n].received + Behind(n, m)' <= ledger'[n][m].served + Ahead(n, m)'
  <2> DEFINE got == IF m = k /\ n = l THEN g.size ELSE 0
  <2>1. /\ ledger'[m][n].received = ledger[m][n].received + got
        /\ ledger'[n][m].served = ledger[n][m].served + 0
    BY <1>2, <1>3, <1>4, Enters
  <2>2. got \in Nat /\ ~skewed
    BY <1>3, <1>4, <1>6, SkewStays
  <2>3. FirstEdge(g, n, m) <=> (m = k /\ n = l)
    BY <1>1 DEF FirstEdge, k, l
  <2>4. BillOf(h, n, m) = 0 /\ CreditOf(g, n, m) = 0
    <3>1. ~OnlyBilled(h, n, m)
      BY <1>1, IdleIsKept DEF OnlyBilled, FirstEdge
    <3>2. ~OnlyCredited(g, n, m)
      BY <1>5 DEF OnlyCredited
    <3> QED BY <3>1, <3>2 DEF BillOf, CreditOf
  <2>5. FirstEdge(g, n, m) => OnlyBilled(g, n, m) \/ (OnlyCredited(h, n, m) /\ h.size = g.size)
    <3> SUFFICES ASSUME FirstEdge(g, n, m), 1 \in g.due
                 PROVE  OnlyCredited(h, n, m) /\ h.size = g.size
      BY <1>5 DEF OnlyBilled
    <3>1. h.route = g.route /\ h.size = g.size /\ h.due = g.due \ {0} /\ Flows(h)
      BY <1>1
    <3> QED BY <3>1 DEF OnlyCredited, FirstEdge
  <2>6. /\ BillOf(g, n, m) \in Nat /\ CreditOf(h, n, m) \in Nat
    <3>1. ASSUME NEW x \in Get \cup {NoGet}
          PROVE  BillOf(x, n, m) \in Nat /\ CreditOf(x, n, m) \in Nat
      BY SizeBound DEF BillOf, CreditOf
    <3>2. g \in Get \cup {NoGet} /\ h \in Get \cup {NoGet}
      BY <1>4 DEF TypeOK, g, h
    <3> QED BY <3>1, <3>2
  <2>7. got <= BillOf(g, n, m) + CreditOf(h, n, m)
    <3>1. CASE ~FirstEdge(g, n, m)
      <4>1. got = 0
        BY <2>3, <3>1
      <4> HIDE DEF got
      <4> QED BY <2>6, <4>1
    <3>2. CASE FirstEdge(g, n, m)
      <4>1. got = g.size
        BY <2>3, <3>2
      <4>2. BillOf(g, n, m) = g.size \/ CreditOf(h, n, m) = g.size
        BY <2>5, <3>2 DEF BillOf, CreditOf
      <4> HIDE DEF got
      <4> QED BY <1>3, <2>6, <4>1, <4>2
    <3> QED BY <3>1, <3>2
  <2> HIDE DEF got
  <2>8. got + BillOf(h, n, m) + CreditOf(g, n, m) <= 0 + BillOf(g, n, m) + CreditOf(h, n, m)
    BY <2>2, <2>4, <2>6, <2>7
  <2>9. Even(n, m)
    BY <1>6 DEF Even, EvenRates
  <2> QED BY <1>1, <2>1, <2>2, <2>8, <2>9, StepAgrees DEF g, h
<1> QED BY <1>6 DEF EdgesAgree

LEMMA BookAgrees ==
    ASSUME EInv, TypeOK', NEW s \in Streams, NEW i \in gets[s].due, Book(s, i)
    PROVE  EdgesAgree'
<1> DEFINE g == gets[s]
<1>1. \/ i = 0 /\ Record(g.route[i + 1], g.route[2], "received", g.size) /\ UNCHANGED given
      \/ i # 0 /\ Record(g.route[i + 1], g.route[i], "served", Bytes(g, i)) /\ UNCHANGED given
      \/ /\ i + 1 = Len(g.route) /\ given' = given \cup {<<g.route[i + 1], g.route[i]>>}
         /\ UNCHANGED <<ledger, skewed>>
  BY DEF Book
<1>2. CASE i = 0 /\ Record(g.route[i + 1], g.route[2], "received", g.size) /\ UNCHANGED given
  BY <1>2, CreditAgrees
<1>3. CASE i # 0 /\ Record(g.route[i + 1], g.route[i], "served", Bytes(g, i)) /\ UNCHANGED given
  BY <1>3, BillAgrees, RefusedAgrees
<1>4. CASE /\ i + 1 = Len(g.route) /\ given' = given \cup {<<g.route[i + 1], g.route[i]>>}
           /\ UNCHANGED <<ledger, skewed>>
  BY <1>4, GivenAgrees
<1> QED BY <1>1, <1>2, <1>3, <1>4

LEMMA CutShortAgrees ==
    ASSUME EInv, TypeOK', NEW s \in Streams, NEW i, CutShort(s, i)
    PROVE  DuesOnTheWay' /\ EdgesAgree'
<1> DEFINE g == gets[s]
           h == gets'[s]
           less == [g EXCEPT !.due = @ \ {i}]
<1>1. g \in Get /\ skewed' = TRUE
  BY DEF CutShort, EInv, TypeOK
<1>2. /\ less.route = g.route /\ less.passed = g.passed
      /\ less.refused = g.refused /\ less.due = g.due \ {i}
  BY <1>1 DEF Get
<1>3. \A t \in Streams \ {s} : gets'[t] = gets[t]
  BY DEF CutShort, EInv, TypeOK
<1>4. h = NoGet \/ (h = less /\ (g.refused \/ Flows(g)))
  BY DEF CutShort, EInv, TypeOK
<1>5. Kept(g)
  BY DEF EInv, DuesOnTheWay
<1> HIDE DEF less, g, h
<1>6. Kept(h)
  <2>1. CASE h = NoGet
    BY <2>1, IdleIsKept
  <2>2. CASE h = less /\ (g.refused \/ Flows(g))
    <3>1. h.refused = g.refused /\ h.due = g.due \ {i} /\ (Flows(h) <=> Flows(g))
      BY <1>2, <2>2 DEF Flows
    <3> QED BY <1>5, <2>2, <3>1 DEF Kept
  <2> QED BY <1>4, <2>1, <2>2
<1>7. DuesOnTheWay'
  BY <1>3, <1>6, OneDue DEF h
<1> QED BY <1>1, <1>7 DEF EdgesAgree

\* Time that passes halves both books of an edge whose ends forget at one rate, and
\* no Get is between its two.
LEMMA HalfLifeAgrees ==
    ASSUME EInv, TypeOK', NEW k, HalfLife(k)
    PROVE  DuesOnTheWay' /\ EdgesAgree'
<1>1. DuesOnTheWay'
  BY DEF HalfLife, EInv, DuesOnTheWay, Kept, Flows
<1>2. ASSUME ~skewed', NEW n \in Nodes, NEW m \in Nodes, Even(n, m)'
      PROVE  ledger'[m][n].received + Behind(n, m)' <= ledger'[n][m].served + Ahead(n, m)'
  <2>1. ~skewed /\ \A t \in Streams : ~HalfBooked(gets[t])
    BY <1>2 DEF HalfLife
  <2>2. ASSUME NEW t \in Streams
        PROVE  ~OnlyCredited(gets[t], n, m) /\ ~OnlyBilled(gets[t], n, m)
    <3>1. SUFFICES ASSUME Flows(gets[t])
                   PROVE  0 \in gets[t].due /\ 1 \in gets[t].due
      BY DEF OnlyCredited, OnlyBilled, FirstEdge
    <3>2. gets[t] \in Get
      BY <3>1, IdleIsKept DEF EInv, TypeOK
    <3>3. gets[t].passed \in Nat /\ gets[t].passed > 0
      BY <3>1, <3>2, RouteOfGet DEF Flows, Get
    <3>4. gets[t].due = 0..gets[t].passed
      BY <2>1, <3>1, <3>3 DEF HalfBooked, Flows
    <3> QED BY <3>3, <3>4
  <2>3. Credited(n, m) = {} /\ Billed(n, m) = {}
    BY <2>2 DEF Credited, Billed
  <2>4. Ahead(n, m) = 0 /\ Behind(n, m) = 0
    <3>1. Units({}, SizeOf) = {}
      BY DEF Units
    <3> QED BY <2>3, <3>1, FS_EmptySet DEF Ahead, Behind
  <2>5. Ahead(n, m)' = 0 /\ Behind(n, m)' = 0
    <3>1. gets' = gets
      BY DEF HalfLife
    <3>2. Ahead(n, m)' = Ahead(n, m) /\ Behind(n, m)' = Behind(n, m)
      BY <3>1 DEF Ahead, Behind, Units, SizeOf, Credited, Billed, OnlyCredited, OnlyBilled,
                  FirstEdge, Flows
    <3> QED BY <2>4, <3>2
  <2>6. ledger[m][n].received <= ledger[n][m].served
    <3>1. ledger[m][n].received + Behind(n, m) <= ledger[n][m].served + Ahead(n, m)
      <4>1. Even(n, m)
        BY <1>2 DEF Even, EvenRates, HalfLife
      <4> QED BY <2>1, <4>1 DEF EInv, EdgesAgree
    <3>2. ledger[m][n].received \in Nat /\ ledger[n][m].served \in Nat
      BY DEF EInv, TypeOK, Stats
    <3> QED BY <2>4, <3>1, <3>2
  <2>7. ledger[m][n].received \in Nat /\ ledger[n][m].served \in Nat
    BY DEF EInv, TypeOK, Stats
  <2>8. Rate[<<n, m>>] = Rate[<<m, n>>]
    BY <1>2 DEF Even, EvenRates
  <2>9. CASE Rate[<<n, m>>] = k
    <3>1. /\ ledger'[m][n].received = (ledger[m][n].received + 1) \div 2
          /\ ledger'[n][m].served = (ledger[n][m].served + 1) \div 2
      BY <2>8, <2>9 DEF HalfLife, FadedAll, Faded
    <3>2. \A x, y \in Nat : x <= y => /\ (x + 1) \div 2 \in Nat /\ (y + 1) \div 2 \in Nat
                                      /\ (x + 1) \div 2 <= (y + 1) \div 2
      OBVIOUS
    <3>3. /\ ledger'[m][n].received <= ledger'[n][m].served
          /\ ledger'[m][n].received \in Nat /\ ledger'[n][m].served \in Nat
      BY <2>6, <2>7, <3>1, <3>2
    <3> QED BY <2>5, <3>3
  <2>10. CASE Rate[<<n, m>>] # k
    <3>1. ledger'[m][n] = ledger[m][n] /\ ledger'[n][m] = ledger[n][m]
      BY <2>8, <2>10 DEF HalfLife, FadedAll
    <3> QED BY <2>5, <2>6, <2>7, <3>1
  <2> QED BY <2>9, <2>10
<1> QED BY <1>1, <1>2 DEF EdgesAgree

LEMMA RestartAgrees ==
    ASSUME EInv, NEW k \in Nodes, Restart(k)
    PROVE  DuesOnTheWay' /\ EdgesAgree'
<1>1. \A t \in Streams : gets'[t] = gets[t] \/ gets'[t] = NoGet
  BY DEF Restart
<1>2. \A t \in Streams : Kept(gets'[t])
  BY <1>1, IdleIsKept DEF EInv, DuesOnTheWay
<1>3. DuesOnTheWay'
  BY <1>2 DEF DuesOnTheWay, Kept, Flows
<1> QED BY <1>3 DEF Restart, EdgesAgree

LEMMA InitAgrees == Init => EInv
<1> SUFFICES ASSUME Init
             PROVE  EInv
  OBVIOUS
<1>1. TypeOK
  BY InitType
<1>2. DuesOnTheWay
  BY IdleIsKept DEF Init, DuesOnTheWay
<1>3. ASSUME NEW n \in Nodes, NEW m \in Nodes
      PROVE  ledger[m][n].received + Behind(n, m) <= ledger[n][m].served + Ahead(n, m)
  <2>1. Credited(n, m) = {} /\ Billed(n, m) = {}
    BY IdleIsKept DEF Init, Credited, Billed, OnlyCredited, OnlyBilled, FirstEdge
  <2>2. Units({}, SizeOf) = {}
    BY DEF Units
  <2>3. Ahead(n, m) = 0 /\ Behind(n, m) = 0
    BY <2>1, <2>2, FS_EmptySet DEF Ahead, Behind
  <2>4. ledger[m][n].received = 0 /\ ledger[n][m].served = 0
    BY DEF Init
  <2> QED BY <2>3, <2>4
<1>4. EdgesAgree
  BY <1>3 DEF EdgesAgree
<1> QED BY <1>1, <1>2, <1>4 DEF EInv

LEMMA NextAgrees == EInv /\ [Next]_vars => EInv'
<1> SUFFICES ASSUME EInv, [Next]_vars
             PROVE  EInv'
  OBVIOUS
<1>0. TypeOK'
  BY NextType DEF EInv
<1>1. ASSUME NEW s \in Streams, NEW r \in Routes, NEW z \in Sizes, Ask(s, r, z)
      PROVE  DuesOnTheWay' /\ EdgesAgree'
  BY <1>0, <1>1, AskAgrees
<1>2. ASSUME NEW s \in Streams, Gate(s)
      PROVE  DuesOnTheWay' /\ EdgesAgree'
  BY <1>0, <1>2, GateAgrees
<1>3. ASSUME NEW s \in Streams, NEW i \in gets[s].due, Book(s, i)
      PROVE  DuesOnTheWay' /\ EdgesAgree'
  BY <1>0, <1>3, BookDues, BookAgrees
<1>4. ASSUME NEW s \in Streams, NEW i, CutShort(s, i)
      PROVE  DuesOnTheWay' /\ EdgesAgree'
  BY <1>0, <1>4, CutShortAgrees
<1>5. ASSUME NEW k \in Rates, HalfLife(k)
      PROVE  DuesOnTheWay' /\ EdgesAgree'
  BY <1>0, <1>5, HalfLifeAgrees
<1>6. ASSUME NEW n \in Nodes, Restart(n)
      PROVE  DuesOnTheWay' /\ EdgesAgree'
  BY <1>6, RestartAgrees
<1>7. ASSUME UNCHANGED vars
      PROVE  DuesOnTheWay' /\ EdgesAgree'
  <2>1. UNCHANGED <<ledger, gets, given, skewed>>
    BY <1>7 DEF vars
  <2>2. DuesOnTheWay'
    BY <2>1 DEF EInv, DuesOnTheWay, Kept, Flows
  <2>3. \A n, m : Ahead(n, m)' = Ahead(n, m) /\ Behind(n, m)' = Behind(n, m)
    BY <2>1 DEF Ahead, Behind, Units, SizeOf, Credited, Billed, OnlyCredited, OnlyBilled,
                FirstEdge, Flows
  <2>4. EdgesAgree'
    BY <2>1, <2>3 DEF EInv, EdgesAgree, Even, EvenRates
  <2> QED BY <2>2, <2>4
<1>8. DuesOnTheWay' /\ EdgesAgree'
  BY <1>1, <1>2, <1>3, <1>4, <1>5, <1>6, <1>7 DEF Next
<1> QED BY <1>0, <1>8 DEF EInv

\* What only the fetcher has booked, its server still owes the bill of.
LEMMA AheadIsUnbilled ==
    ASSUME EInv, NEW n \in Nodes, NEW m \in Nodes, ~skewed, Even(n, m)
    PROVE  Backed(n, m)
<1>1. Credited(n, m) \in SUBSET Streams /\ Billed(n, m) \in SUBSET Streams
  BY DEF Credited, Billed
<1>2. Unbilled(n, m) \in SUBSET Streams /\ Credited(n, m) \in SUBSET Unbilled(n, m)
  <2>1. ASSUME NEW s \in Streams, OnlyCredited(gets[s], n, m)
        PROVE  OwedTo(gets[s], n, m)
    <3>1. /\ 1 \in gets[s].due \ {0}
          /\ gets[s].route[1] = m /\ gets[s].route[1 + 1] = n
      BY <2>1 DEF OnlyCredited, FirstEdge
    <3> QED BY <3>1 DEF OwedTo
  <2> QED BY <2>1 DEF Credited, Unbilled
<1>3. /\ Cardinality(Credited(n, m)) * Blob <= Cardinality(Unbilled(n, m)) * Blob
      /\ Cardinality(Credited(n, m)) * Blob \in Nat /\ Cardinality(Unbilled(n, m)) * Blob \in Nat
  BY <1>2, Budget, ReputationAssumption
<1>4. /\ Ahead(n, m) \in Nat /\ Ahead(n, m) <= Cardinality(Credited(n, m)) * Blob
      /\ Behind(n, m) \in Nat
  BY <1>1, UnitsFinite DEF Ahead, Behind
<1>5. ledger[m][n].received + Behind(n, m) <= ledger[n][m].served + Ahead(n, m)
  BY DEF EInv, EdgesAgree
<1>6. ledger[m][n].received \in Nat /\ ledger[n][m].served \in Nat
  BY DEF EInv, TypeOK, Stats
<1> QED BY <1>3, <1>4, <1>5, <1>6 DEF Backed

\* The two ledgers of an edge, kept by two nodes that never compare them but forget
\* at one rate: as long as no Get is cut short, no save fails, no time falls between
\* two books and no part of a blob was given over the edge for nothing, what
\* fetch_source credited is never more than handle_stream billed or is to bill.
THEOREM CreditBacked == Spec => []CreditIsBilled
<1>1. EInv => CreditIsBilled
  BY AheadIsUnbilled DEF EInv, CreditIsBilled, Even
<1> QED BY <1>1, InitAgrees, NextAgrees, PTL DEF Spec
=============================================================================
