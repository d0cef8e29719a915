---------------------------- MODULE GatewayProofs ----------------------------
(***************************************************************************)
(* Proofs about Gateway, for any number of GETs and peers and any sizes of *)
(* file, chunk, window and channel: a response promises what was asked,    *)
(* success has its first bytes, and a body is cut short only when every    *)
(* source has failed, which for a GET that is sure never happens.          *)
(***************************************************************************)
EXTENDS Gateway, WellFoundedInduction, TLAPS

Get == [pc : {"none"} \cup Working \cup Ended, status : {0, 200, 206, 416, 503},
        header : Headers \cup {<<>>}, start : Nat, end : Nat, cursor : Nat, sure : BOOLEAN]

Fetch == [pc : AtWork \cup {"none", "ok", "failed"}, start : Nat, end : Nat,
          todo : SUBSET Peers, source : SUBSET Peers, left : SUBSET AllChunks,
          ticks : 0..Queue, aborted : BOOLEAN]

TypeInv ==
    /\ store \subseteq AllChunks
    /\ known \subseteq Peers
    /\ get \in [Gets -> Get]
    /\ fetch \in [Gets -> Fetch]

-----------------------------------------------------------------------------
(* The argument.  Each part is about a GET g and its fetch f, the chunks s *)
(* in the store and whether a peer that delivers is known to have the      *)
(* file: of both a GET only ever sees more.                                *)

Opened == {"prefetch", "local", "look", "wait"}
Served == {"prefetch", "look", "wait"}
Body == {"look", "wait"}

\* What is promised was asked for, and success is answered with a body only.
Promises(g) ==
    /\ g.cursor \in g.start..g.end
    /\ g.pc \in Opened => <<g.start, g.end>> \in Promised(g.header)
    /\ g.pc \in Served => Size > 0
    /\ g.status \in {200, 206} => g.pc \in {"local"} \cup Body
    /\ g.status = 416 => Promised(g.header) = {}

\* What a fetch stays with is within the file, and what it need not deliver any
\* more is in the store.
Fetches(f, s) ==
    f.pc \in AtWork =>
        /\ f.end <= Size
        /\ f.pc = "source" => Covering(f.start, f.end) \ f.left \subseteq s

\* The fetch that a response, or its body, waits for: of from..upto - 1.
Awaits(f, s, from, upto) ==
    /\ f.pc # "none" /\ ~f.aborted
    /\ f.pc \in AtWork => f.start = from /\ f.end = upto
    /\ f.pc = "ok" => Covering(from, upto) \subseteq s

Waits(g, f, s) ==
    /\ g.pc = "prefetch" => Awaits(f, s, g.start, FirstWindow(g.start, g.end))
    /\ g.pc \in Body => /\ Awaits(f, s, g.start, g.end)
                        /\ Covering(g.start, FirstWindow(g.start, g.end)) \subseteq s
    /\ Size > 0 /\ g.pc = "short" => f.pc = "failed"

\* A GET that is sure has its range in the store or a source that delivers among
\* those that it has or will find.
StaysSure(g, f, s, reliable) ==
    g.sure =>
        /\ g.status # 503
        /\ Size > 0 => g.pc # "short"
        /\ g.pc \in Served =>
              /\ Covering(g.start, g.end) \subseteq s \/ reliable
              /\ f.pc # "failed"
              /\ f.pc = "source" => (f.todo \cup f.source) \cap Reliable # {}

Sound(g, f, s, reliable) ==
    Promises(g) /\ Fetches(f, s) /\ Waits(g, f, s) /\ StaysSure(g, f, s, reliable)

ReliableKnown == Reliable \cap known # {}

IInv == TypeInv /\ \A r \in Gets : Sound(get[r], fetch[r], store, ReliableKnown)

-----------------------------------------------------------------------------
(* Chunks and their bytes.                                                 *)

\* A longer range is covered by more chunks.
LEMMA CoveringGrows ==
    ASSUME NEW a \in Int, NEW b \in Int, NEW c \in Int, NEW d \in Int, a <= c, d <= b
    PROVE  Covering(c, d) \subseteq Covering(a, b)
<1>1. c..d - 1 \subseteq a..b - 1  OBVIOUS
<1> QED  BY <1>1 DEF Covering

\* Within the file there are only chunks of the file.
LEMMA CoveringOfFile ==
    ASSUME NEW a \in Nat, NEW b \in Int, b <= Size
    PROVE  Covering(a, b) \subseteq AllChunks
BY CoveringGrows, GatewayAssumption DEF AllChunks

\* Chunks are numbered from 0.
LEMMA ChunksAreNumbers == AllChunks \subseteq Nat
<1>1. Chunk \in Nat \ {0} /\ Size \in Nat  BY GatewayAssumption
<1> SUFFICES ASSUME NEW b \in 0..Size - 1 PROVE b \div Chunk \in Nat
    BY DEF AllChunks, Covering
<1>2. b \in Nat  BY <1>1
<1> QED  BY <1>1, <1>2

\* A set of numbers that is not empty has a least one.
LEMMA LeastExists ==
    ASSUME NEW S, S \subseteq Nat, S # {}
    PROVE  \E x \in S : \A y \in S : x <= y
<1>1. PICK x \in S : \A y \in S : ~(<<y, x>> \in OpToRel(<, Nat))
    BY WFMin, NatLessThanWellFounded, Zenon
<1>2. ASSUME NEW y \in S PROVE x <= y
  <2>1. ~(<<y, x>> \in OpToRel(<, Nat))  BY <1>1
  <2>2. x \in Nat /\ y \in Nat  OBVIOUS
  <2>3. ~(y < x)  BY <2>1, <2>2, Zenon DEF OpToRel
  <2> QED  BY <2>2, <2>3
<1> QED  BY <1>2

\* The next chunk is one of those that are left.
LEMMA MinIsLeft ==
    ASSUME NEW S, S \subseteq Nat, S # {}
    PROVE  Min(S) \in S
BY LeastExists DEF Min

\* What is present from cursor on has no gap.
LEMMA PresentShrinks ==
    ASSUME NEW a \in Int, NEW b \in Int, NEW c \in Int, c <= b, Present(a, b)
    PROVE  Present(a, c)
BY CoveringGrows DEF Present

\* The loop of available_end, which bisects lo..hi for the end of what is there.
Bisected(cursor, find) ==
    find = [w \in Nat \X Nat |->
              LET lo == w[1]
                  hi == w[2]
                  mid == lo + (hi - lo + 1) \div 2
              IN  IF lo >= hi THEN lo
                  ELSE IF Present(cursor, mid) THEN find[<<mid, hi>>] ELSE find[<<lo, mid - 1>>]]

Bisection(cursor) == CHOOSE find : Bisected(cursor, find)

LEMMA AvailableEndBisects ==
    ASSUME NEW cursor, NEW end
    PROVE  AvailableEnd(cursor, end) =
              IF cursor >= end \/ ~Present(cursor, cursor + 1) THEN cursor
              ELSE Bisection(cursor)[<<cursor + 1, end>>]
BY DEF AvailableEnd, Bisection, Bisected

\* The middle is above the lower bound, and not above the upper one.
Middle(lo, hi) == lo + (hi - lo + 1) \div 2

LEMMA MiddleIsBetween ==
    ASSUME NEW lo \in Nat, NEW hi \in Nat, lo < hi
    PROVE  /\ Middle(lo, hi) \in Nat /\ Middle(lo, hi) - 1 \in Nat
           /\ lo < Middle(lo, hi) /\ Middle(lo, hi) <= hi
BY DEF Middle

\* There is a function as available_end computes it: of lo and of what is present
\* in lo..hi, the greatest.
Ends(cursor, lo, hi) == {lo} \cup {k \in lo..hi : Present(cursor, k)}

IsLast(m, S) == m \in S /\ \A k \in S : k <= m

LastOf(S) == CHOOSE m : IsLast(m, S)

LEMMA LastIsTheOne ==
    ASSUME NEW S, S \subseteq Int, NEW m, IsLast(m, S)
    PROVE  LastOf(S) = m
<1> DEFINE x == LastOf(S)
<1>1. IsLast(x, S)  BY DEF LastOf
<1> HIDE DEF x
<1>2. x \in S /\ m \in S /\ x <= m /\ m <= x  BY <1>1 DEF IsLast
<1>3. x = m  BY <1>2
<1> QED  BY <1>3 DEF x

LEMMA LastExists ==
    ASSUME NEW cursor, NEW lo \in Nat, NEW hi \in Nat
    PROVE  IsLast(LastOf(Ends(cursor, lo, hi)), Ends(cursor, lo, hi))
<1> DEFINE S == Ends(cursor, lo, hi)
           top == IF lo < hi THEN hi ELSE lo
           T == {top - k : k \in S}
<1>1. S \subseteq lo..top /\ lo \in S /\ top \in Nat  BY DEF Ends
<1>2. T \subseteq Nat /\ T # {}  BY <1>1
<1>3. PICK x \in T : \A y \in T : x <= y  BY <1>2, LeastExists
<1>4. PICK m \in S : x = top - m  BY <1>3
<1>5. ASSUME NEW k \in S PROVE k <= m
  <2>1. x <= top - k  BY <1>3
  <2> QED  BY <2>1, <1>1, <1>4
<1>6. IsLast(m, S)  BY <1>5 DEF IsLast
<1> QED  BY <1>6 DEF LastOf

Last(cursor) == [w \in Nat \X Nat |-> LastOf(Ends(cursor, w[1], w[2]))]

LEMMA LastIsAt ==
    ASSUME NEW cursor, NEW lo \in Nat, NEW hi \in Nat
    PROVE  Last(cursor)[<<lo, hi>>] = LastOf(Ends(cursor, lo, hi))
BY DEF Last

LEMMA LastBisects ==
    ASSUME NEW cursor \in Nat
    PROVE  Bisected(cursor, Last(cursor))
<1>1. ASSUME NEW lo \in Nat, NEW hi \in Nat
      PROVE  LastOf(Ends(cursor, lo, hi)) =
                IF lo >= hi THEN lo
                ELSE IF Present(cursor, Middle(lo, hi)) THEN Last(cursor)[<<Middle(lo, hi), hi>>]
                ELSE Last(cursor)[<<lo, Middle(lo, hi) - 1>>]
  <2>1. CASE lo >= hi
    <3>1. IsLast(lo, Ends(cursor, lo, hi))  BY <2>1 DEF Ends, IsLast
    <3>2. Ends(cursor, lo, hi) \subseteq Int  BY DEF Ends
    <3> QED  BY <2>1, <3>1, <3>2, LastIsTheOne
  <2>2. CASE ~(lo >= hi)
    <3> DEFINE m == Middle(lo, hi)
    <3>1. m \in Nat /\ lo < m /\ m <= hi /\ m - 1 \in Nat  BY <2>2, MiddleIsBetween
    <3>2. Ends(cursor, lo, hi) \subseteq Int  BY DEF Ends
    <3> HIDE DEF m
    <3>3. CASE Present(cursor, m)
      <4> DEFINE x == LastOf(Ends(cursor, m, hi))
      <4>1. IsLast(x, Ends(cursor, m, hi))  BY <3>1, LastExists
      <4> HIDE DEF x
      <4>2. x \in Ends(cursor, lo, hi) /\ m <= x  BY <3>1, <3>3, <4>1 DEF IsLast, Ends
      <4>3. ASSUME NEW k \in Ends(cursor, lo, hi) PROVE k <= x
        <5>1. CASE k < m  BY <5>1, <4>2, <3>1, <3>2
        <5>2. CASE k >= m
          <6>1. k \in Ends(cursor, m, hi)  BY <5>2, <3>1 DEF Ends
          <6> QED  BY <6>1, <4>1 DEF IsLast
        <5> QED  BY <5>1, <5>2, <3>1, <3>2
      <4>4. IsLast(x, Ends(cursor, lo, hi))  BY <4>2, <4>3 DEF IsLast
      <4>5. LastOf(Ends(cursor, lo, hi)) = x  BY <4>4, <3>2, LastIsTheOne
      <4>6. Last(cursor)[<<m, hi>>] = x  BY <3>1, LastIsAt DEF x
      <4> QED  BY <4>5, <4>6, <2>2, <3>3 DEF m
    <3>4. CASE ~Present(cursor, m)
      <4>1. ASSUME NEW k \in lo..hi, Present(cursor, k) PROVE k \in lo..m - 1
        <5>1. CASE m <= k
          <6>1. Present(cursor, m)  BY <5>1, <4>1, <3>1, PresentShrinks
          <6> QED  BY <6>1, <3>4
        <5> QED  BY <5>1, <3>1
      <4>2. Ends(cursor, lo, hi) = Ends(cursor, lo, m - 1)  BY <4>1, <3>1 DEF Ends
      <4>3. Last(cursor)[<<lo, m - 1>>] = LastOf(Ends(cursor, lo, m - 1))  BY <3>1, LastIsAt
      <4> QED  BY <4>2, <4>3, <2>2, <3>4 DEF m
    <3> QED  BY <3>3, <3>4
  <2> QED  BY <2>1, <2>2
<1>2. Last(cursor) = [w \in Nat \X Nat |->
                IF w[1] >= w[2] THEN w[1]
                ELSE IF Present(cursor, Middle(w[1], w[2]))
                     THEN Last(cursor)[<<Middle(w[1], w[2]), w[2]>>]
                ELSE Last(cursor)[<<w[1], Middle(w[1], w[2]) - 1>>]]
  BY <1>1, Zenon DEF Last
<1> QED  BY <1>2, Zenon DEF Bisected, Middle

LEMMA BisectionExists ==
    ASSUME NEW cursor \in Nat
    PROVE  Bisected(cursor, Bisection(cursor))
<1>1. \E find : Bisected(cursor, find)  BY LastBisects, Zenon
<1> QED  BY <1>1, Zenon DEF Bisection

\* One turn of the loop.
LEMMA BisectionTurns ==
    ASSUME NEW cursor \in Nat, NEW lo \in Nat, NEW hi \in Nat
    PROVE  Bisection(cursor)[<<lo, hi>>] =
              IF lo >= hi THEN lo
              ELSE IF Present(cursor, Middle(lo, hi))
                   THEN Bisection(cursor)[<<Middle(lo, hi), hi>>]
              ELSE Bisection(cursor)[<<lo, Middle(lo, hi) - 1>>]
<1> DEFINE find == Bisection(cursor)
<1>1. Bisected(cursor, find)  BY BisectionExists
<1> HIDE DEF find
<1>2. find = [w \in Nat \X Nat |->
                 IF w[1] >= w[2] THEN w[1]
                 ELSE IF Present(cursor, Middle(w[1], w[2]))
                      THEN find[<<Middle(w[1], w[2]), w[2]>>]
                 ELSE find[<<w[1], Middle(w[1], w[2]) - 1>>]]
  BY <1>1, Zenon DEF Bisected, Middle
<1>3. <<lo, hi>> \in Nat \X Nat /\ <<lo, hi>>[1] = lo /\ <<lo, hi>>[2] = hi  OBVIOUS
<1>4. find[<<lo, hi>>] =
                 IF lo >= hi THEN lo
                 ELSE IF Present(cursor, Middle(lo, hi)) THEN find[<<Middle(lo, hi), hi>>]
                 ELSE find[<<lo, Middle(lo, hi) - 1>>]
  BY <1>2, <1>3
<1> QED  BY <1>4 DEF find

\* The loop ends within its bounds, and at the upper one if all is present.
StaysWithin(cursor, lo, hi) ==
    /\ Bisection(cursor)[<<lo, hi>>] \in lo..hi
    /\ Present(cursor, hi) => Bisection(cursor)[<<lo, hi>>] = hi

LEMMA BisectionEnds ==
    ASSUME NEW cursor \in Nat
    PROVE  \A lo, hi \in Nat : lo <= hi => StaysWithin(cursor, lo, hi)
<1> DEFINE Bad(lo, hi) == lo <= hi /\ ~StaysWithin(cursor, lo, hi)
           T == {n \in Nat : \E lo, hi \in Nat : n = hi - lo /\ Bad(lo, hi)}
<1> SUFFICES T = {}
  <2>1. ASSUME NEW lo \in Nat, NEW hi \in Nat, Bad(lo, hi) PROVE hi - lo \in T  BY <2>1
  <2> QED  BY <2>1
<1> SUFFICES ASSUME T # {} PROVE FALSE  OBVIOUS
<1>1. T \subseteq Nat  OBVIOUS
<1>2. PICK n \in T : \A k \in T : n <= k  BY <1>1, LeastExists
<1>3. PICK lo \in Nat, hi \in Nat : n = hi - lo /\ Bad(lo, hi)  BY <1>2
<1>4. ASSUME NEW x \in Nat, NEW y \in Nat, x <= y, y - x < hi - lo PROVE StaysWithin(cursor, x, y)
  <2>1. CASE Bad(x, y)
    <3>1. y - x \in T  BY <1>4, <2>1
    <3>2. n <= y - x  BY <3>1, <1>2
    <3> QED  BY <3>2, <1>3, <1>4
  <2> QED  BY <2>1, <1>4
<1> HIDE DEF T
<1>5. StaysWithin(cursor, lo, hi)
  <2>1. CASE lo >= hi
    <3>1. lo = hi  BY <2>1, <1>3
    <3>2. Bisection(cursor)[<<lo, hi>>] = lo  BY <2>1, BisectionTurns
    <3> QED  BY <3>1, <3>2 DEF StaysWithin
  <2>2. CASE ~(lo >= hi)
    <3> DEFINE m == Middle(lo, hi)
    <3>1. m \in Nat /\ m - 1 \in Nat /\ lo < m /\ m <= hi  BY <2>2, MiddleIsBetween
    <3>2. CASE Present(cursor, m)
      <4>1. Bisection(cursor)[<<lo, hi>>] = Bisection(cursor)[<<m, hi>>]
        BY <2>2, <3>2, BisectionTurns
      <4> HIDE DEF m
      <4>2. StaysWithin(cursor, m, hi)  BY <3>1, <1>4
      <4> QED  BY <4>1, <4>2, <3>1 DEF StaysWithin
    <3>3. CASE ~Present(cursor, m)
      <4>1. Bisection(cursor)[<<lo, hi>>] = Bisection(cursor)[<<lo, m - 1>>]
        BY <2>2, <3>3, BisectionTurns
      <4> HIDE DEF m
      <4>2. StaysWithin(cursor, lo, m - 1)  BY <3>1, <1>4
      <4>3. ~Present(cursor, hi)  BY <3>1, <3>3, PresentShrinks
      <4> QED  BY <4>1, <4>2, <4>3, <3>1 DEF StaysWithin
    <3> QED  BY <3>2, <3>3
  <2> QED  BY <2>1, <2>2
<1> QED  BY <1>3, <1>5

\* available_end stays between the cursor and the end, and is the end if all of
\* that is present.
LEMMA AvailableEndFits ==
    ASSUME NEW cursor \in Nat, NEW end \in Nat, cursor <= end
    PROVE  /\ AvailableEnd(cursor, end) \in cursor..end
           /\ Present(cursor, end) => AvailableEnd(cursor, end) = end
<1>1. CASE cursor = end
  <2>1. AvailableEnd(cursor, end) = cursor  BY <1>1, AvailableEndBisects
  <2> QED  BY <1>1, <2>1
<1>2. CASE cursor < end /\ ~Present(cursor, cursor + 1)
  <2>1. AvailableEnd(cursor, end) = cursor  BY <1>2, AvailableEndBisects
  <2>2. ~Present(cursor, end)
    <3>1. cursor + 1 \in Int /\ cursor + 1 <= end  BY <1>2
    <3> QED  BY <1>2, <3>1, PresentShrinks
  <2> QED  BY <2>1, <2>2
<1>3. CASE cursor < end /\ Present(cursor, cursor + 1)
  <2>1. StaysWithin(cursor, cursor + 1, end)  BY <1>3, BisectionEnds
  <2>2. AvailableEnd(cursor, end) = Bisection(cursor)[<<cursor + 1, end>>]
    BY <1>3, AvailableEndBisects
  <2> QED  BY <2>1, <2>2 DEF StaysWithin
<1> QED  BY <1>1, <1>2, <1>3

-----------------------------------------------------------------------------
(* parse_range.                                                            *)

\* What is promised is a piece of the file, but for an empty file without a
\* header, of which one byte is.
LEMMA PromisedFits ==
    ASSUME NEW h \in Headers \cup {<<>>}, NEW p \in Promised(h)
    PROVE  /\ p = <<p[1], p[2]>>
           /\ p[1] \in Nat /\ p[2] \in Nat /\ p[1] <= p[2]
           /\ Size > 0 => p[2] <= Size
<1>1. Size \in Nat /\ Missing \in Int \ Nat  BY GatewayAssumption
<1>2. CASE h = <<>>
  <2>1. p = <<0, IF Size = 0 THEN 1 ELSE Size>>  BY <1>2 DEF Promised
  <2> QED  BY <2>1, <1>1
<1>3. CASE h # <<>>
  <2> DEFINE a == h[1]
             b == h[2]
             first == FirstByte(a, b)
             last == IF Missing \in {a, b} \/ b >= Size THEN Size - 1 ELSE b
  <2>1. a \in {Missing} \cup Nat /\ b \in {Missing} \cup Nat  BY <1>3, GatewayAssumption
  <2>2. p \in ParseRange(a, b)  BY <1>3 DEF Promised
  <2>3. /\ ~(first > last \/ (a = Missing /\ b \in {Missing, 0}))
        /\ p = <<first, last + 1>>
    BY <2>2 DEF ParseRange
  <2> HIDE DEF a, b
  <2>4. first \in Nat /\ last \in Int  BY <1>1, <2>1, <2>3 DEF FirstByte
  <2>5. last <= Size - 1  BY <1>1, <2>1
  <2> HIDE DEF first, last
  <2> QED  BY <1>1, <2>3, <2>4, <2>5
<1> QED  BY <1>2, <1>3

\* Of a file that is not empty, what is promised is what the header asks for.
LEMMA PromisedIsAsked ==
    ASSUME Size > 0, NEW h \in Headers \cup {<<>>}
    PROVE  /\ \A p \in Promised(h) : p[1]..p[2] - 1 = Asked(h)
           /\ Promised(h) = {} => Asked(h) = {}
<1>1. Size \in Nat /\ Missing \in Int \ Nat  BY GatewayAssumption
<1>2. CASE h = <<>>
  <2>1. Promised(h) = {<<0, Size>>}  BY <1>1, <1>2 DEF Promised
  <2>2. Asked(h) = 0..Size - 1  BY <1>2 DEF Asked
  <2>3. ASSUME NEW p \in Promised(h) PROVE p[1]..p[2] - 1 = 0..Size - 1
    <3>1. p[1] = 0 /\ p[2] = Size  BY <2>1
    <3> QED  BY <3>1
  <2> QED  BY <2>1, <2>2, <2>3
<1>3. CASE h # <<>>
  <2> DEFINE a == h[1]
             b == h[2]
             first == FirstByte(a, b)
             last == IF Missing \in {a, b} \/ b >= Size THEN Size - 1 ELSE b
             none == first > last \/ (a = Missing /\ b \in {Missing, 0})
             asks(i) == IF a = Missing THEN b # Missing /\ i >= Size - b
                        ELSE i >= a /\ (b = Missing \/ i <= b)
  <2>1. a \in {Missing} \cup Nat /\ b \in {Missing} \cup Nat  BY <1>3, GatewayAssumption
  <2>2. Promised(h) = IF none THEN {} ELSE {<<first, last + 1>>}
    BY <1>3 DEF Promised, ParseRange
  <2>3. Asked(h) = {i \in 0..Size - 1 : asks(i)}  BY <1>3 DEF Asked
  <2> HIDE DEF a, b
  <2>4. first \in Int /\ last \in Int  BY <1>1, <2>1 DEF FirstByte
  <2>5. CASE none
    <3>1. ASSUME NEW i \in 0..Size - 1, asks(i) PROVE FALSE
      BY <1>1, <2>1, <2>5, <3>1 DEF FirstByte
    <3>2. Asked(h) = {}  BY <2>3, <3>1
    <3> QED  BY <2>2, <2>5, <3>2
  <2>6. CASE ~none
    <3>1. \A i \in Int : i \in first..last <=> i \in 0..Size - 1 /\ asks(i)
      BY <1>1, <2>1, <2>6 DEF FirstByte
    <3>2. Asked(h) = first..last  BY <2>3, <2>4, <3>1
    <3> HIDE DEF first, last, none
    <3>3. ASSUME NEW p \in Promised(h) PROVE p[1]..p[2] - 1 = first..last
      <4>1. p[1] = first /\ p[2] = last + 1  BY <2>2, <2>6
      <4>2. p[2] - 1 = last  BY <2>4, <4>1
      <4> QED  BY <4>1, <4>2
    <3>4. Promised(h) # {}  BY <2>2, <2>6
    <3> QED  BY <3>2, <3>3, <3>4
  <2> QED  BY <2>5, <2>6
<1> QED  BY <1>2, <1>3

-----------------------------------------------------------------------------
(* A step of one GET.                                                      *)

LEMMA InitiallySound == Init => IInv
<1> SUFFICES ASSUME Init PROVE IInv  OBVIOUS
<1>1. NoGet \in Get  BY DEF NoGet, Get
<1>2. NoFetch \in Fetch  BY GatewayAssumption DEF NoFetch, Fetch
<1>3. TypeInv  BY <1>1, <1>2 DEF Init, TypeInv
<1>4. Sound(NoGet, NoFetch, store, ReliableKnown)
  BY DEF NoGet, NoFetch, Sound, Promises, Fetches, Waits, Awaits, StaysSure, Opened, Served,
         Body, AtWork
<1>5. \A r \in Gets : get[r] = NoGet /\ fetch[r] = NoFetch  BY DEF Init
<1> QED  BY <1>3, <1>4, <1>5 DEF IInv

\* What a GET relies on stays true when the store grows and sources are learnt.
LEMMA SoundLasts ==
    ASSUME NEW g, NEW f, NEW s, NEW s2, NEW k, NEW k2, s \subseteq s2, k => k2,
           Sound(g, f, s, k)
    PROVE  Sound(g, f, s2, k2)
<1>1. Promises(g) /\ Fetches(f, s2)  BY DEF Sound, Fetches
<1>2. Waits(g, f, s2)  BY DEF Sound, Waits, Awaits
<1>3. StaysSure(g, f, s2, k2)  BY DEF Sound, StaysSure
<1> QED  BY <1>1, <1>2, <1>3 DEF Sound

\* A step that leaves GET r sound leaves all of them so.
Becomes(r, g, f) == get' = [get EXCEPT ![r] = g] /\ fetch' = [fetch EXCEPT ![r] = f]

LEMMA OneMoves ==
    ASSUME IInv, NEW r \in Gets, NEW g \in Get, NEW f \in Fetch, Becomes(r, g, f),
           store \subseteq store', store' \subseteq AllChunks, known' = known,
           Sound(g, f, store', ReliableKnown)
    PROVE  IInv'
<1>1. TypeInv'  BY DEF IInv, TypeInv, Becomes
<1>2. ReliableKnown' = ReliableKnown  BY DEF ReliableKnown
<1>3. ASSUME NEW q \in Gets PROVE Sound(get'[q], fetch'[q], store', ReliableKnown)
  <2>1. CASE q = r
    <3>1. get'[q] = g /\ fetch'[q] = f  BY <2>1 DEF IInv, TypeInv, Becomes
    <3> QED  BY <3>1
  <2>2. CASE q # r
    <3>1. get'[q] = get[q] /\ fetch'[q] = fetch[q]  BY <2>2 DEF IInv, TypeInv, Becomes
    <3>2. Sound(get[q], fetch[q], store, ReliableKnown)  BY DEF IInv
    <3>3. Sound(get[q], fetch[q], store', ReliableKnown)  BY <3>2, SoundLasts
    <3> QED  BY <3>1, <3>3
  <2> QED  BY <2>1, <2>2
<1> QED  BY <1>1, <1>2, <1>3 DEF IInv

LEMMA Unmoved ==
    ASSUME TypeInv, NEW r \in Gets
    PROVE  get = [get EXCEPT ![r] = get[r]] /\ fetch = [fetch EXCEPT ![r] = fetch[r]]
BY DEF TypeInv

LEMMA OfOne ==
    ASSUME IInv, NEW r \in Gets
    PROVE  /\ get[r] \in Get /\ fetch[r] \in Fetch
           /\ Sound(get[r], fetch[r], store, ReliableKnown)
BY DEF IInv, TypeInv

\* Of a GET that is over, and of a fetch, what Over, Done and Aborted leave.
LEMMA OverIs ==
    ASSUME NEW g \in Get, NEW pc \in Ended
    PROVE  /\ Over(g, pc) \in Get
           /\ Over(g, pc).pc = pc /\ Over(g, pc).status = 0
           /\ Over(g, pc).start = 0 /\ Over(g, pc).end = 0 /\ Over(g, pc).cursor = 0
           /\ Over(g, pc).sure = g.sure
<1> DEFINE n == NoGet
           x == g.sure
<1>1. /\ n \in Get /\ n.status = 0
      /\ n.start = 0 /\ n.end = 0 /\ n.cursor = 0
  BY DEF NoGet, Get
<1>2. x \in BOOLEAN /\ pc \in {"none"} \cup Working \cup Ended  BY DEF Get
<1>3. Over(g, pc) = [n EXCEPT !.pc = pc, !.sure = x]  BY DEF Over
<1> HIDE DEF n, x
<1>4. Over(g, pc).sure = x  BY <1>1, <1>3 DEF Get
<1>5. Over(g, pc) \in Get
  <2> DEFINE m == [n EXCEPT !.pc = pc]
  <2>1. m \in Get  BY <1>1, <1>2 DEF Get
  <2>2. Over(g, pc) = [m EXCEPT !.sure = x]  BY <1>3
  <2> HIDE DEF m
  <2> QED  BY <1>2, <2>1, <2>2 DEF Get
<1>6. Over(g, pc).pc = pc  BY <1>1, <1>3 DEF Get
<1>7. /\ Over(g, pc).status = 0
      /\ Over(g, pc).start = 0 /\ Over(g, pc).end = 0 /\ Over(g, pc).cursor = 0
  BY <1>1, <1>3 DEF Get
<1> QED  BY <1>4, <1>5, <1>6, <1>7, Zenon DEF x

\* A GET that is answered, one whose header is not satisfiable, and one of which
\* a range is promised.
Answered(g, pc, status) == [g EXCEPT !.pc = pc, !.status = status]

Unsatisfiable(g, header) == [g EXCEPT !.pc = "refused", !.header = header, !.status = 416]

OpenedAt(g, header, start, end, sure) ==
    [g EXCEPT !.header = header, !.start = start, !.end = end, !.cursor = start, !.sure = sure]

LEMMA AnsweredIs ==
    ASSUME NEW g \in Get, NEW pc \in {"none"} \cup Working \cup Ended,
           NEW status \in {0, 200, 206, 416, 503}
    PROVE  LET h == Answered(g, pc, status) IN
           /\ h \in Get
           /\ h.pc = pc /\ h.status = status /\ h.header = g.header
           /\ h.start = g.start /\ h.end = g.end /\ h.cursor = g.cursor /\ h.sure = g.sure
<1> DEFINE m == [g EXCEPT !.pc = pc]
           h == Answered(g, pc, status)
<1>1. /\ m \in Get
      /\ m.pc = pc /\ m.header = g.header
      /\ m.start = g.start /\ m.end = g.end /\ m.cursor = g.cursor /\ m.sure = g.sure
  BY DEF Get
<1>2. h = [m EXCEPT !.status = status]  BY DEF Answered
<1> HIDE DEF m, h
<1>3. /\ h \in Get
      /\ h.pc = pc /\ h.status = status /\ h.header = g.header
      /\ h.start = g.start /\ h.end = g.end /\ h.cursor = g.cursor /\ h.sure = g.sure
  BY <1>1, <1>2 DEF Get
<1> QED  BY <1>3 DEF h

LEMMA UnsatisfiableIs ==
    ASSUME NEW g \in Get, NEW header \in Headers
    PROVE  LET h == Unsatisfiable(g, header) IN
           /\ h \in Get
           /\ h.pc = "refused" /\ h.status = 416 /\ h.header = header
           /\ h.start = g.start /\ h.end = g.end /\ h.cursor = g.cursor /\ h.sure = g.sure
<1> DEFINE l == [g EXCEPT !.pc = "refused"]
           m == [l EXCEPT !.header = header]
           h == Unsatisfiable(g, header)
<1>1. "refused" \in {"none"} \cup Working \cup Ended  BY DEF Ended
<1>2. /\ l \in Get /\ l.pc = "refused"
      /\ l.start = g.start /\ l.end = g.end /\ l.cursor = g.cursor /\ l.sure = g.sure
  BY <1>1 DEF Get
<1>3. h = [m EXCEPT !.status = 416]  BY DEF Unsatisfiable
<1> HIDE DEF l, h
<1>4. /\ m \in Get /\ m.pc = "refused" /\ m.header = header
      /\ m.start = g.start /\ m.end = g.end /\ m.cursor = g.cursor /\ m.sure = g.sure
  BY <1>2 DEF Get
<1> HIDE DEF m
<1>5. /\ h \in Get
      /\ h.pc = "refused" /\ h.status = 416 /\ h.header = header
      /\ h.start = g.start /\ h.end = g.end /\ h.cursor = g.cursor /\ h.sure = g.sure
  BY <1>3, <1>4 DEF Get
<1> QED  BY <1>5 DEF h

LEMMA OpenedIs ==
    ASSUME NEW g \in Get, NEW header \in Headers, NEW start \in Nat, NEW end \in Nat,
           NEW sure \in BOOLEAN
    PROVE  LET h == OpenedAt(g, header, start, end, sure) IN
           /\ h \in Get
           /\ h.pc = g.pc /\ h.status = g.status /\ h.header = header
           /\ h.start = start /\ h.end = end /\ h.cursor = start /\ h.sure = sure
<1> DEFINE l == [g EXCEPT !.header = header]
           m == [l EXCEPT !.start = start]
           n == [m EXCEPT !.end = end]
           o == [n EXCEPT !.cursor = start]
           h == OpenedAt(g, header, start, end, sure)
<1>1. l \in Get /\ l.pc = g.pc /\ l.status = g.status /\ l.header = header  BY DEF Get
<1>2. h = [o EXCEPT !.sure = sure]  BY DEF OpenedAt
<1> HIDE DEF l, h
<1>3. m \in Get /\ m.pc = g.pc /\ m.status = g.status /\ m.header = header /\ m.start = start
  BY <1>1 DEF Get
<1> HIDE DEF m
<1>4. /\ n \in Get
      /\ n.pc = g.pc /\ n.status = g.status /\ n.header = header
      /\ n.start = start /\ n.end = end
  BY <1>3 DEF Get
<1> HIDE DEF n
<1>5. /\ o \in Get
      /\ o.pc = g.pc /\ o.status = g.status /\ o.header = header
      /\ o.start = start /\ o.end = end /\ o.cursor = start
  BY <1>4 DEF Get
<1> HIDE DEF o
<1>6. /\ h \in Get
      /\ h.pc = g.pc /\ h.status = g.status /\ h.header = header
      /\ h.start = start /\ h.end = end /\ h.cursor = start /\ h.sure = sure
  BY <1>2, <1>5 DEF Get
<1> QED  BY <1>6 DEF h

LEMMA DoneIs ==
    ASSUME NEW f \in Fetch, NEW pc \in {"ok", "failed"}
    PROVE  /\ Done(f, pc) \in Fetch
           /\ Done(f, pc).pc = pc /\ ~Done(f, pc).aborted
BY DEF Done, NoFetch, Fetch

LEMMA AbortedIs ==
    ASSUME NEW f \in Fetch
    PROVE  /\ Aborted(f) \in Fetch
           /\ Aborted(f).pc = f.pc /\ Aborted(f).start = f.start /\ Aborted(f).end = f.end
           /\ Aborted(f).left = f.left
<1> DEFINE over == f.aborted \/ f.pc \in AtWork
<1>1. Aborted(f) = [f EXCEPT !.aborted = over, !.ticks = 0]  BY DEF Aborted
<1>2. over \in BOOLEAN  BY Zenon
<1>3. 0 \in 0..Queue  BY GatewayAssumption
<1> HIDE DEF over
<1> QED  BY <1>1, <1>2, <1>3 DEF Fetch

-----------------------------------------------------------------------------
(* The fetch of a GET.                                                     *)

\* Asking a source keeps the range, and of the sources those not tried yet.
LEMMA AskIs ==
    ASSUME IInv, NEW r \in Gets, NEW sources \in SUBSET Peers, fetch[r].pc \in AtWork,
           Ask(r, sources)
    PROVE  \E f2 \in Fetch :
              /\ fetch' = [fetch EXCEPT ![r] = f2]
              /\ f2.pc = "source" /\ f2.start = fetch[r].start /\ f2.end = fetch[r].end
              /\ f2.left = Covering(f2.start, f2.end) /\ f2.aborted = fetch[r].aborted
              /\ f2.todo \cup f2.source = sources
<1> DEFINE f == fetch[r]
           c == Covering(f.start, f.end)
<1>1. f \in Fetch /\ Fetches(f, store)  BY OfOne DEF Sound
<1>2. PICK p \in sources :
         fetch' = [fetch EXCEPT ![r].pc = "source", ![r].source = {p},
                                ![r].todo = sources \ {p}, ![r].left = c]
  BY DEF Ask
<1> DEFINE f2 == [f EXCEPT !.pc = "source", !.source = {p}, !.todo = sources \ {p}, !.left = c]
<1>3. fetch' = [fetch EXCEPT ![r] = f2]  BY <1>2 DEF IInv, TypeInv
<1>4. c \in SUBSET AllChunks
  <2>1. f.start \in Nat /\ f.end \in Nat /\ f.end <= Size  BY <1>1 DEF Fetches, Fetch
  <2> QED  BY <2>1, CoveringOfFile
<1>5. c = Covering(f.start, f.end)  OBVIOUS
<1> HIDE DEF f, c
<1>6. /\ f2 \in Fetch
      /\ f2.pc = "source" /\ f2.start = f.start /\ f2.end = f.end
      /\ f2.left = c /\ f2.aborted = f.aborted
      /\ f2.todo = sources \ {p} /\ f2.source = {p}
  BY <1>1, <1>4 DEF Fetch, AtWork
<1>7. f2.todo \cup f2.source = sources  BY <1>6
<1> QED  BY <1>3, <1>5, <1>6, <1>7 DEF f

LEMMA AskedIsSound ==
    ASSUME NEW g, NEW f, NEW f2, NEW s, NEW k, NEW sources, Sound(g, f, s, k), f.pc \in AtWork,
           f2.pc = "source", f2.start = f.start, f2.end = f.end, f2.aborted = f.aborted,
           f2.left = Covering(f2.start, f2.end), f2.todo \cup f2.source = sources,
           g.sure /\ g.pc \in Served => sources \cap Reliable # {}
    PROVE  Sound(g, f2, s, k)
<1>1. Promises(g)  BY DEF Sound
<1>2. Fetches(f2, s)  BY DEF Sound, Fetches, AtWork
<1>3. Waits(g, f2, s)  BY DEF Sound, Waits, Awaits, AtWork, Body
<1>4. StaysSure(g, f2, s, k)  BY DEF Sound, StaysSure
<1> QED  BY <1>1, <1>2, <1>3, <1>4 DEF Sound

\* A fetch is over with its range in the store, or without, which no GET that is
\* sure waits for.
LEMMA DoneIsSound ==
    ASSUME NEW g, NEW f \in Fetch, NEW s, NEW k, Sound(g, f, s, k), f.pc \in AtWork,
           NEW pc \in {"ok", "failed"},
           pc = "ok" => Covering(f.start, f.end) \subseteq s,
           pc = "failed" => ~(g.sure /\ g.pc \in Served)
    PROVE  Sound(g, Done(f, pc), s, k)
<1> DEFINE d == Done(f, pc)
<1>1. d.pc = pc /\ ~d.aborted  BY DoneIs
<1> HIDE DEF d
<1>2. Promises(g)  BY DEF Sound
<1>3. Fetches(d, s)  BY <1>1 DEF Fetches, AtWork
<1>4. Waits(g, d, s)  BY <1>1 DEF Sound, Waits, Awaits, AtWork, Body
<1>5. StaysSure(g, d, s, k)  BY <1>1 DEF Sound, StaysSure
<1> QED  BY <1>2, <1>3, <1>4, <1>5 DEF Sound, d

LEMMA DoneKeeps ==
    ASSUME IInv, NEW r \in Gets, NEW pc \in {"ok", "failed"}, fetch[r].pc \in AtWork,
           pc = "ok" => Covering(fetch[r].start, fetch[r].end) \subseteq store,
           pc = "failed" => ~(get[r].sure /\ get[r].pc \in Served),
           fetch' = [fetch EXCEPT ![r] = Done(@, pc)], UNCHANGED <<store, known, get>>
    PROVE  IInv'
<1>1. get[r] \in Get /\ fetch[r] \in Fetch /\ Sound(get[r], fetch[r], store, ReliableKnown)
  BY OfOne
<1> DEFINE d == Done(fetch[r], pc)
<1>2. d \in Fetch  BY <1>1, DoneIs
<1>3. Sound(get[r], d, store, ReliableKnown)  BY <1>1, DoneIsSound
<1>4. get' = [get EXCEPT ![r] = get[r]]  BY Unmoved DEF IInv
<1>5. store' = store /\ known' = known /\ store \subseteq AllChunks  BY DEF IInv, TypeInv
<1>6. Becomes(r, get[r], d)  BY <1>4 DEF Becomes
<1> HIDE DEF d
<1> QED  BY <1>1, <1>2, <1>3, <1>5, <1>6, OneMoves

LEMMA AskKeeps ==
    ASSUME IInv, NEW r \in Gets, NEW sources \in SUBSET Peers, fetch[r].pc \in AtWork,
           get[r].sure /\ get[r].pc \in Served => sources \cap Reliable # {},
           Ask(r, sources), UNCHANGED <<store, known, get>>
    PROVE  IInv'
<1>1. get[r] \in Get /\ fetch[r] \in Fetch /\ Sound(get[r], fetch[r], store, ReliableKnown)
  BY OfOne
<1>2. PICK f2 \in Fetch :
         /\ fetch' = [fetch EXCEPT ![r] = f2]
         /\ f2.pc = "source" /\ f2.start = fetch[r].start /\ f2.end = fetch[r].end
         /\ f2.left = Covering(f2.start, f2.end) /\ f2.aborted = fetch[r].aborted
         /\ f2.todo \cup f2.source = sources
  BY AskIs
<1>3. Sound(get[r], f2, store, ReliableKnown)  BY <1>1, <1>2, AskedIsSound
<1>4. get' = [get EXCEPT ![r] = get[r]]  BY Unmoved DEF IInv
<1>5. store' = store /\ known' = known /\ store \subseteq AllChunks  BY DEF IInv, TypeInv
<1>6. Becomes(r, get[r], f2)  BY <1>2, <1>4 DEF Becomes
<1> QED  BY <1>1, <1>3, <1>5, <1>6, OneMoves

LEMMA StartFetchKeeps ==
    ASSUME IInv, NEW r \in Gets, StartFetch(r)
    PROVE  IInv'
<1> DEFINE f == fetch[r]
           wanted == Covering(f.start, f.end)
           local == Complete \/ wanted \subseteq store
<1>1. f \in Fetch /\ Sound(get[r], f, store, ReliableKnown)  BY OfOne
<1>2. f.pc = "begun" /\ f.pc \in AtWork /\ UNCHANGED <<store, known, get>>
  BY DEF StartFetch, AtWork
<1>3. wanted \subseteq AllChunks
  <2>1. f.start \in Nat /\ f.end \in Nat /\ f.end <= Size  BY <1>1, <1>2 DEF Sound, Fetches, Fetch
  <2> QED  BY <2>1, CoveringOfFile
<1>4. get[r].sure /\ get[r].pc \in Served => local \/ ReliableKnown
  <2> SUFFICES ASSUME get[r].sure, get[r].pc \in Served, ~ReliableKnown PROVE local  OBVIOUS
  <2>1. Covering(get[r].start, get[r].end) \subseteq store  BY <1>1 DEF Sound, StaysSure
  <2>2. f.start = get[r].start /\ f.end <= get[r].end
    <3>1. get[r].start \in Nat /\ get[r].end \in Nat /\ Window \in Nat
      BY OfOne, GatewayAssumption DEF Get
    <3>2. FirstWindow(get[r].start, get[r].end) <= get[r].end  BY <3>1 DEF FirstWindow
    <3> QED  BY <1>1, <1>2, <3>1, <3>2 DEF Sound, Waits, Awaits, Served, Body
  <2>3. wanted \subseteq Covering(get[r].start, get[r].end)
    <3>1. f.start \in Nat /\ f.end \in Nat /\ get[r].end \in Nat /\ get[r].start \in Nat
      BY OfOne DEF Get, Fetch
    <3> QED  BY <3>1, <2>2, CoveringGrows
  <2> QED  BY <2>1, <2>3
<1>5. CASE local /\ fetch' = [fetch EXCEPT ![r] = Done(@, "ok")]
  <2>1. wanted \subseteq store  BY <1>3, <1>5 DEF Complete
  <2> QED  BY <1>2, <1>5, <2>1, DoneKeeps
<1>6. CASE ~local /\ Ask(r, known)
  <2>1. known \in SUBSET Peers  BY DEF IInv, TypeInv
  <2>2. get[r].sure /\ get[r].pc \in Served => known \cap Reliable # {}
    BY <1>4, <1>6 DEF ReliableKnown
  <2> QED  BY <1>2, <1>6, <2>1, <2>2, AskKeeps
<1>7. CASE ~local /\ known = {} /\ fetch' = [fetch EXCEPT ![r] = Done(@, "failed")]
  <2>1. ~(get[r].sure /\ get[r].pc \in Served)  BY <1>4, <1>7 DEF ReliableKnown
  <2> QED  BY <1>2, <1>7, <2>1, DoneKeeps
<1> QED  BY <1>5, <1>6, <1>7 DEF StartFetch

LEMMA DeliverKeeps ==
    ASSUME IInv, NEW r \in Gets, Deliver(r)
    PROVE  IInv'
<1> DEFINE f == fetch[r]
           c == Min(f.left)
           ticks == f.ticks + (IF Listened(r) THEN 1 ELSE 0)
           f2 == [f EXCEPT !.left = f.left \ {c}, !.ticks = ticks]
<1>1. f \in Fetch /\ get[r] \in Get /\ Sound(get[r], f, store, ReliableKnown)  BY OfOne
<1>2. /\ f.pc = "source" /\ f.left # {}
      /\ Listened(r) => Room(r)
      /\ store' = store \cup {c} /\ UNCHANGED <<known, get>>
      /\ fetch' = [fetch EXCEPT ![r].left = @ \ {c},
                                ![r].ticks = @ + (IF Listened(r) THEN 1 ELSE 0)]
  BY DEF Deliver
<1>3. fetch' = [fetch EXCEPT ![r] = f2]  BY <1>2 DEF IInv, TypeInv
<1>4. c \in f.left /\ f.left \subseteq AllChunks
  <2>1. f.left \subseteq AllChunks  BY <1>1 DEF Fetch
  <2> QED  BY <1>2, <2>1, ChunksAreNumbers, MinIsLeft
<1>5. ticks \in 0..Queue
  <2>1. f.ticks \in 0..Queue /\ Queue \in Nat  BY <1>1, GatewayAssumption DEF Fetch
  <2> QED  BY <1>2, <2>1 DEF Room
<1> HIDE DEF f, c, ticks
<1>6. /\ f2 \in Fetch
      /\ f2.pc = f.pc /\ f2.start = f.start /\ f2.end = f.end /\ f2.aborted = f.aborted
      /\ f2.todo = f.todo /\ f2.source = f.source /\ f2.left = f.left \ {c}
  BY <1>1, <1>4, <1>5 DEF Fetch
<1> HIDE DEF f2
<1>7. Sound(get[r], f, store', ReliableKnown)  BY <1>1, <1>2, SoundLasts
<1>8. Sound(get[r], f2, store', ReliableKnown)
  <2>1. Promises(get[r])  BY <1>1 DEF Sound
  <2>2. Fetches(f2, store')  BY <1>1, <1>2, <1>6 DEF Sound, Fetches
  <2>3. Waits(get[r], f2, store')  BY <1>6, <1>7 DEF Sound, Waits, Awaits
  <2>4. StaysSure(get[r], f2, store', ReliableKnown)  BY <1>6, <1>7 DEF Sound, StaysSure
  <2> QED  BY <2>1, <2>2, <2>3, <2>4 DEF Sound
<1>9. store \subseteq store' /\ store' \subseteq AllChunks /\ known' = known
  BY <1>2, <1>4 DEF IInv, TypeInv
<1>10. get' = [get EXCEPT ![r] = get[r]]  BY <1>2, Unmoved DEF IInv
<1>11. Becomes(r, get[r], f2)  BY <1>3, <1>10 DEF Becomes
<1> QED  BY <1>1, <1>6, <1>8, <1>9, <1>11, OneMoves

LEMMA SourceOverKeeps ==
    ASSUME IInv, NEW r \in Gets, SourceOver(r)
    PROVE  IInv'
<1> DEFINE f == fetch[r]
<1>1. f \in Fetch /\ Sound(get[r], f, store, ReliableKnown)  BY OfOne
<1>2. f.pc = "source" /\ f.pc \in AtWork /\ UNCHANGED <<store, known, get>>
  BY DEF SourceOver, AtWork
<1>3. get[r].sure /\ get[r].pc \in Served /\ f.source \cap Reliable = {}
         => f.todo \cap Reliable # {}
  BY <1>1, <1>2 DEF Sound, StaysSure
<1>4. CASE f.left = {} /\ fetch' = [fetch EXCEPT ![r] = Done(@, "ok")]
  <2>1. Covering(f.start, f.end) \subseteq store  BY <1>1, <1>2, <1>4 DEF Sound, Fetches
  <2> QED  BY <1>2, <1>4, <2>1, DoneKeeps
<1>5. CASE f.source \cap Reliable = {} /\ Ask(r, f.todo)
  <2>1. f.todo \in SUBSET Peers  BY <1>1 DEF Fetch
  <2> QED  BY <1>2, <1>3, <1>5, <2>1, AskKeeps
<1>6. CASE /\ f.source \cap Reliable = {} /\ f.todo = {}
           /\ fetch' = [fetch EXCEPT ![r] = Done(@, "failed")]
  <2>1. ~(get[r].sure /\ get[r].pc \in Served)  BY <1>3, <1>6
  <2> QED  BY <1>2, <1>6, <2>1, DoneKeeps
<1> QED  BY <1>4, <1>5, <1>6 DEF SourceOver

LEMMA AbortKeeps ==
    ASSUME IInv, NEW r \in Gets, Abort(r)
    PROVE  IInv'
<1>1. fetch[r] \in Fetch /\ get[r] \in Get /\ Sound(get[r], fetch[r], store, ReliableKnown)
  BY OfOne
<1>2. fetch[r].aborted /\ fetch[r].pc \in AtWork /\ UNCHANGED <<store, known, get>>
      /\ fetch' = [fetch EXCEPT ![r] = NoFetch]
  BY DEF Abort
<1>3. NoFetch \in Fetch /\ NoFetch.pc = "none"  BY GatewayAssumption DEF NoFetch, Fetch
<1>4. get[r].pc \notin Served  BY <1>1, <1>2 DEF Sound, Waits, Awaits, Served, Body
<1>5. Sound(get[r], NoFetch, store, ReliableKnown)
  <2>1. Promises(get[r])  BY <1>1 DEF Sound
  <2>2. Fetches(NoFetch, store)  BY <1>3 DEF Fetches, AtWork
  <2>3. Waits(get[r], NoFetch, store)
    BY <1>1, <1>2, <1>4 DEF Sound, Waits, Served, Body, AtWork
  <2>4. StaysSure(get[r], NoFetch, store, ReliableKnown)  BY <1>1, <1>4 DEF Sound, StaysSure
  <2> QED  BY <2>1, <2>2, <2>3, <2>4 DEF Sound
<1>6. get' = [get EXCEPT ![r] = get[r]]  BY <1>2, Unmoved DEF IInv
<1>7. store' = store /\ known' = known /\ store \subseteq AllChunks  BY <1>2 DEF IInv, TypeInv
<1>8. Becomes(r, get[r], NoFetch)  BY <1>2, <1>6 DEF Becomes
<1> QED  BY <1>1, <1>3, <1>5, <1>7, <1>8, OneMoves

\* A peer that delivers is not forgotten.
LEMMA SourcesKeep ==
    ASSUME IInv, NEW p \in Peers, Learn(p) \/ Forget(p)
    PROVE  IInv'
<1>1. UNCHANGED <<store, get, fetch>> /\ known' \subseteq Peers
  BY DEF Learn, Forget, IInv, TypeInv
<1>2. ReliableKnown => ReliableKnown'  BY DEF Learn, Forget, ReliableKnown
<1>3. TypeInv'  BY <1>1 DEF IInv, TypeInv
<1>4. ASSUME NEW r \in Gets PROVE Sound(get[r], fetch[r], store, ReliableKnown')
  BY <1>2, OfOne, SoundLasts
<1> QED  BY <1>1, <1>3, <1>4 DEF IInv

-----------------------------------------------------------------------------
(* The handler and the body of a GET.                                      *)

\* The prefetch of a range that was promised.
LEMMA BegunIs ==
    ASSUME NEW from \in Nat, NEW upto \in Nat
    PROVE  /\ Begin(from, upto) \in Fetch
           /\ Begin(from, upto).pc = "begun" /\ ~Begin(from, upto).aborted
           /\ Begin(from, upto).start = from /\ Begin(from, upto).end = upto
<1>1. NoFetch \in Fetch /\ NoFetch.aborted = FALSE  BY GatewayAssumption DEF NoFetch, Fetch
<1>2. Begin(from, upto) = [NoFetch EXCEPT !.pc = "begun", !.start = from, !.end = upto]
  BY DEF Begin
<1> QED  BY <1>1, <1>2 DEF Fetch, AtWork

\* A first window is within the range, and longer than nothing.
LEMMA FirstWindowFits ==
    ASSUME NEW start \in Nat, NEW end \in Nat, start <= end
    PROVE  /\ FirstWindow(start, end) \in Nat
           /\ start <= FirstWindow(start, end) /\ FirstWindow(start, end) <= end
<1>1. Window \in Nat  BY GatewayAssumption
<1> QED  BY <1>1 DEF FirstWindow

\* What a GET that is not over has been promised.
LEMMA RangeOf ==
    ASSUME NEW g \in Get, Promises(g)
    PROVE  /\ g.start \in Nat /\ g.end \in Nat /\ g.cursor \in Nat
           /\ g.start <= g.cursor /\ g.cursor <= g.end
           /\ g.pc \in Opened /\ Size > 0 => g.end <= Size
           /\ g.pc \in Served => Size > 0
<1>1. g.start \in Nat /\ g.end \in Nat /\ g.cursor \in Nat  BY DEF Get
<1>2. g.start <= g.cursor /\ g.cursor <= g.end  BY <1>1 DEF Promises
<1>3. ASSUME g.pc \in Opened, Size > 0 PROVE g.end <= Size
  <2>1. <<g.start, g.end>> \in Promised(g.header)  BY <1>3 DEF Promises
  <2>2. g.header \in Headers \cup {<<>>}  BY DEF Get
  <2>3. <<g.start, g.end>>[2] = g.end  OBVIOUS
  <2> QED  BY <1>3, <2>1, <2>2, <2>3, PromisedFits
<1> QED  BY <1>1, <1>2, <1>3 DEF Promises

\* The end of a GET, of which the fetch and the rest stay as they are or are
\* aborted.
LEMMA EndKeeps ==
    ASSUME IInv, NEW r \in Gets, NEW pc \in Ended, NEW f \in Fetch,
           get' = [get EXCEPT ![r] = Over(get[r], pc)], fetch' = [fetch EXCEPT ![r] = f],
           UNCHANGED <<store, known>>,
           Fetches(f, store),
           pc = "short" => ~(get[r].sure /\ Size > 0),
           Size > 0 /\ pc = "short" => f.pc = "failed"
    PROVE  IInv'
<1>1. get[r] \in Get /\ fetch[r] \in Fetch /\ Sound(get[r], fetch[r], store, ReliableKnown)
  BY OfOne
<1> DEFINE h == Over(get[r], pc)
<1>2. h \in Get /\ h.pc = pc /\ h.status = 0 /\ h.sure = get[r].sure
      /\ h.start = 0 /\ h.end = 0 /\ h.cursor = 0
  BY <1>1, OverIs
<1> HIDE DEF h
<1>3. Sound(h, f, store, ReliableKnown)
  <2>1. Promises(h)  BY <1>2 DEF Promises, Opened, Served, Body, Ended
  <2>2. Waits(h, f, store)  BY <1>2 DEF Waits, Body, Ended
  <2>3. StaysSure(h, f, store, ReliableKnown)  BY <1>2 DEF StaysSure, Served, Ended
  <2> QED  BY <2>1, <2>2, <2>3 DEF Sound
<1>4. store' = store /\ known' = known /\ store \subseteq AllChunks  BY DEF IInv, TypeInv
<1>5. Becomes(r, h, f)  BY DEF h, Becomes
<1> QED  BY <1>2, <1>3, <1>4, <1>5, OneMoves

\* The body is dropped, and its fetch aborted.
LEMMA DroppedKeeps ==
    ASSUME IInv, NEW r \in Gets, NEW pc \in Ended, Dropped(r, pc), UNCHANGED <<store, known>>,
           pc = "short" => fetch[r].pc = "failed" /\ ~get[r].sure
    PROVE  IInv'
<1> DEFINE f == Aborted(fetch[r])
<1>1. fetch[r] \in Fetch /\ Fetches(fetch[r], store)  BY OfOne DEF Sound
<1>2. /\ f \in Fetch
      /\ f.pc = fetch[r].pc /\ f.start = fetch[r].start /\ f.end = fetch[r].end
      /\ f.left = fetch[r].left
  BY <1>1, AbortedIs
<1>3. get' = [get EXCEPT ![r] = Over(get[r], pc)] /\ fetch' = [fetch EXCEPT ![r] = f]
  BY DEF Dropped
<1> HIDE DEF f
<1>4. Fetches(f, store)  BY <1>1, <1>2 DEF Fetches
<1> QED  BY <1>2, <1>3, <1>4, EndKeeps

\* A body that leaves off waits for more of the range that it was promised.
LEMMA LookKeeps ==
    ASSUME IInv, NEW r \in Gets, Look(r)
    PROVE  IInv'
<1> DEFINE g == get[r]
           there == AvailableEnd(g.cursor, g.end)
           upto == IF there < g.cursor + MaxEmit THEN there ELSE g.cursor + MaxEmit
           pc == IF upto = g.cursor THEN "wait" ELSE "look"
           h == [g EXCEPT !.cursor = upto, !.pc = pc]
<1>1. g \in Get /\ fetch[r] \in Fetch /\ Sound(g, fetch[r], store, ReliableKnown)
  BY OfOne
<1>2. g.pc = "look" /\ UNCHANGED <<store, known>>  BY DEF Look
<1>3. CASE upto >= g.end
  <2>1. Dropped(r, "finished")  BY <1>3 DEF Look
  <2> QED  BY <1>2, <2>1, DroppedKeeps DEF Ended
<1>4. CASE ~(upto >= g.end)
  <2>1. get' = [get EXCEPT ![r].cursor = upto, ![r].pc = pc] /\ UNCHANGED fetch
    BY <1>4 DEF Look
  <2>2. get' = [get EXCEPT ![r] = h]  BY <2>1 DEF IInv, TypeInv
  <2>3. g.start \in Nat /\ g.end \in Nat /\ g.cursor \in Nat
        /\ g.start <= g.cursor /\ g.cursor <= g.end
    BY <1>1, RangeOf DEF Sound
  <2>4. there \in g.cursor..g.end /\ MaxEmit \in Nat
    BY <2>3, AvailableEndFits, GatewayAssumption
  <2> HIDE DEF there, g
  <2>5. upto \in g.cursor..g.end /\ upto \in Nat  BY <2>3, <2>4
  <2>6. pc \in Body  BY DEF Body
  <2> HIDE DEF upto, pc
  <2>7. /\ h \in Get
        /\ h.pc = pc /\ h.status = g.status /\ h.header = g.header
        /\ h.start = g.start /\ h.end = g.end /\ h.cursor = upto /\ h.sure = g.sure
    <3>1. pc \in {"none"} \cup Working \cup Ended  BY <2>6 DEF Body, Working
    <3> DEFINE m == [g EXCEPT !.cursor = upto]
    <3>2. /\ m \in Get
          /\ m.pc = g.pc /\ m.status = g.status /\ m.header = g.header
          /\ m.start = g.start /\ m.end = g.end /\ m.cursor = upto /\ m.sure = g.sure
      BY <1>1, <2>5 DEF Get
    <3>3. h = [m EXCEPT !.pc = pc]  OBVIOUS
    <3> HIDE DEF m, h
    <3> QED  BY <3>1, <3>2, <3>3 DEF Get
  <2> HIDE DEF h
  <2>8. Sound(h, fetch[r], store, ReliableKnown)
    <3>1. Promises(h)
      <4>1. h.cursor \in h.start..h.end  BY <2>3, <2>5, <2>7
      <4> QED  BY <1>1, <1>2, <2>6, <2>7, <4>1 DEF Sound, Promises, Opened, Served, Body
    <3>2. Fetches(fetch[r], store)  BY <1>1 DEF Sound
    <3>3. Waits(h, fetch[r], store)  BY <1>1, <1>2, <2>6, <2>7 DEF Sound, Waits, Body
    <3>4. StaysSure(h, fetch[r], store, ReliableKnown)
      BY <1>1, <1>2, <2>6, <2>7 DEF Sound, StaysSure, Served, Body
    <3> QED  BY <3>1, <3>2, <3>3, <3>4 DEF Sound
  <2>9. Becomes(r, h, fetch[r])  BY <2>1, <2>2, Unmoved DEF Becomes, IInv
  <2>10. store' = store /\ known' = known /\ store \subseteq AllChunks
    BY <1>2 DEF IInv, TypeInv
  <2> QED  BY <1>1, <2>7, <2>8, <2>9, <2>10, OneMoves
<1> QED  BY <1>3, <1>4

LEMMA WakeKeeps ==
    ASSUME IInv, NEW r \in Gets, Wake(r)
    PROVE  IInv'
<1> DEFINE g == get[r]
           f == fetch[r]
           h == [g EXCEPT !.pc = "look"]
           f2 == [f EXCEPT !.ticks = f.ticks - 1]
<1>1. g \in Get /\ f \in Fetch /\ Sound(g, f, store, ReliableKnown)  BY OfOne
<1>2. g.pc = "wait" /\ f.ticks > 0 /\ UNCHANGED <<store, known>>  BY DEF Wake
<1>3. get' = [get EXCEPT ![r] = h] /\ fetch' = [fetch EXCEPT ![r] = f2]
  BY DEF Wake, IInv, TypeInv
<1> HIDE DEF g, f
<1>4. f.ticks - 1 \in 0..Queue
  <2>1. f.ticks \in 0..Queue /\ Queue \in Nat  BY <1>1, GatewayAssumption DEF Fetch
  <2> QED  BY <1>2, <2>1
<1>5. /\ h \in Get
      /\ h.pc = "look" /\ h.status = g.status /\ h.header = g.header
      /\ h.start = g.start /\ h.end = g.end /\ h.cursor = g.cursor /\ h.sure = g.sure
  BY <1>1 DEF Get, Working
<1>6. /\ f2 \in Fetch
      /\ f2.pc = f.pc /\ f2.start = f.start /\ f2.end = f.end /\ f2.aborted = f.aborted
      /\ f2.todo = f.todo /\ f2.source = f.source /\ f2.left = f.left
  BY <1>1, <1>4 DEF Fetch
<1>7. Becomes(r, h, f2)  BY <1>3 DEF Becomes
<1> HIDE DEF h, f2
<1>8. Sound(h, f2, store, ReliableKnown)
  <2>1. Promises(h)  BY <1>1, <1>2, <1>5 DEF Sound, Promises, Opened, Served, Body
  <2>2. Fetches(f2, store)  BY <1>1, <1>6 DEF Sound, Fetches
  <2>3. Waits(h, f2, store)  BY <1>1, <1>2, <1>5, <1>6 DEF Sound, Waits, Awaits, Body
  <2>4. StaysSure(h, f2, store, ReliableKnown)
    BY <1>1, <1>2, <1>5, <1>6 DEF Sound, StaysSure, Served
  <2> QED  BY <2>1, <2>2, <2>3, <2>4 DEF Sound
<1>9. store' = store /\ known' = known /\ store \subseteq AllChunks
  BY <1>2 DEF IInv, TypeInv
<1> QED  BY <1>5, <1>6, <1>7, <1>8, <1>9, OneMoves

\* After the fetch is over all of the range is there, or every source has failed.
LEMMA DrainKeeps ==
    ASSUME IInv, NEW r \in Gets, Drain(r)
    PROVE  IInv'
<1> DEFINE g == get[r]
           f == fetch[r]
           pc == IF Final(r) < g.end THEN "short" ELSE "finished"
<1>1. g \in Get /\ f \in Fetch /\ Sound(g, f, store, ReliableKnown)  BY OfOne
<1>2. g.pc = "wait" /\ f.pc \notin AtWork /\ UNCHANGED <<store, known>> /\ Dropped(r, pc)
  BY DEF Drain
<1>3. g.start \in Nat /\ g.end \in Nat /\ g.cursor \in Nat
      /\ g.start <= g.cursor /\ g.cursor <= g.end
  BY <1>1, RangeOf DEF Sound
<1>4. f.pc \in {"ok", "failed"}
  <2>1. f.pc # "none"  BY <1>1, <1>2 DEF Sound, Waits, Awaits, Body
  <2> QED  BY <1>1, <1>2, <2>1 DEF Fetch
<1>5. f.pc = "ok" => ~(Final(r) < g.end)
  <2> SUFFICES ASSUME f.pc = "ok" PROVE Final(r) = g.end  BY <1>3
  <2>1. Covering(g.start, g.end) \subseteq store  BY <1>1, <1>2 DEF Sound, Waits, Awaits, Body
  <2>2. Present(g.cursor, g.end)
    <3>1. Covering(g.cursor, g.end) \subseteq Covering(g.start, g.end)  BY <1>3, CoveringGrows
    <3> QED  BY <2>1, <3>1 DEF Present
  <2> QED  BY <1>3, <2>2, AvailableEndFits DEF Final
<1>6. f.pc = "failed" => ~g.sure  BY <1>1, <1>2 DEF Sound, StaysSure, Served
<1>7. pc \in Ended  BY DEF Ended
<1>8. pc = "short" => f.pc = "failed" /\ ~g.sure  BY <1>4, <1>5, <1>6
<1> QED  BY <1>2, <1>7, <1>8, DroppedKeeps

LEMMA StreamLocalKeeps ==
    ASSUME IInv, NEW r \in Gets, StreamLocal(r)
    PROVE  IInv'
<1> DEFINE g == get[r]
           pc == IF Size < g.end THEN "short" ELSE "finished"
<1>1. g \in Get /\ fetch[r] \in Fetch /\ Sound(g, fetch[r], store, ReliableKnown)  BY OfOne
<1>2. g.pc = "local" /\ UNCHANGED <<store, known, fetch>>
      /\ get' = [get EXCEPT ![r] = Over(get[r], pc)]
  BY DEF StreamLocal
<1>3. Size > 0 => pc # "short"
  <2>1. Size > 0 => g.end <= Size  BY <1>1, <1>2, RangeOf DEF Sound, Opened
  <2>2. g.end \in Nat /\ Size \in Nat  BY <1>1, GatewayAssumption DEF Get
  <2> QED  BY <2>1, <2>2
<1>4. pc \in Ended  BY DEF Ended
<1>5. fetch' = [fetch EXCEPT ![r] = fetch[r]]  BY <1>2, Unmoved DEF IInv
<1>6. Fetches(fetch[r], store)  BY <1>1 DEF Sound
<1> HIDE DEF pc
<1> QED  BY <1>1, <1>2, <1>3, <1>4, <1>5, <1>6, EndKeeps

LEMMA LeaveKeeps ==
    ASSUME IInv, NEW r \in Gets, Leave(r)
    PROVE  IInv'
<1>1. fetch[r] \in Fetch /\ Fetches(fetch[r], store)  BY OfOne DEF Sound
<1>2. UNCHANGED <<store, known>> /\ get' = [get EXCEPT ![r] = Over(get[r], "gone")]
  BY DEF Leave
<1>3. CASE get[r].pc = "prefetch"
  <2>1. fetch' = [fetch EXCEPT ![r] = NoFetch]  BY <1>3 DEF Leave
  <2>2. NoFetch \in Fetch /\ NoFetch.pc = "none"  BY GatewayAssumption DEF NoFetch, Fetch
  <2>3. Fetches(NoFetch, store)  BY <2>2 DEF Fetches, AtWork
  <2> QED  BY <1>2, <2>1, <2>2, <2>3, EndKeeps DEF Ended
<1>4. CASE get[r].pc # "prefetch"
  <2>1. Dropped(r, "gone")  BY <1>4 DEF Leave, Dropped
  <2> QED  BY <1>2, <2>1, DroppedKeeps DEF Ended
<1> QED  BY <1>3, <1>4

\* The response waits for the first window, and for nothing else.
LEMMA RespondKeeps ==
    ASSUME IInv, NEW r \in Gets, Respond(r)
    PROVE  IInv'
<1> DEFINE g == get[r]
           f == fetch[r]
<1>1. g \in Get /\ f \in Fetch /\ Sound(g, f, store, ReliableKnown)  BY OfOne
<1>2. g.pc = "prefetch" /\ UNCHANGED <<store, known>>  BY DEF Respond
<1>3. store' = store /\ known' = known /\ store \subseteq AllChunks
  BY <1>2 DEF IInv, TypeInv
<1>4. CASE /\ f.pc = "ok"
           /\ get' = [get EXCEPT ![r].pc = "look", ![r].status = Success(g.header)]
           /\ fetch' = [fetch EXCEPT ![r] = Begin(g.start, g.end)]
  <2> DEFINE status == Success(g.header)
             g2 == Answered(g, "look", status)
             f2 == Begin(g.start, g.end)
  <2>1. get' = [get EXCEPT ![r] = g2]  BY <1>4 DEF IInv, TypeInv, Answered
  <2>2. Becomes(r, g2, f2)  BY <1>4, <2>1 DEF Becomes
  <2>3. g.start \in Nat /\ g.end \in Nat /\ Size > 0 /\ g.end <= Size
    BY <1>1, <1>2, RangeOf DEF Sound, Opened, Served
  <2>4. /\ f2 \in Fetch /\ f2.pc = "begun" /\ ~f2.aborted
        /\ f2.start = g.start /\ f2.end = g.end
    BY <2>3, BegunIs
  <2>5. status \in {200, 206}  BY DEF Success
  <2> HIDE DEF g, f, status, f2
  <2>6. /\ g2 \in Get
        /\ g2.pc = "look" /\ g2.status = status /\ g2.header = g.header
        /\ g2.start = g.start /\ g2.end = g.end /\ g2.cursor = g.cursor /\ g2.sure = g.sure
    <3>1. "look" \in {"none"} \cup Working \cup Ended  BY DEF Working
    <3>2. CASE status = 200  BY <1>1, <3>1, <3>2, AnsweredIs
    <3>3. CASE status = 206  BY <1>1, <3>1, <3>3, AnsweredIs
    <3> QED  BY <2>5, <3>2, <3>3
  <2> HIDE DEF g2
  <2>7. Promises(g2)
    BY <1>1, <1>2, <2>5, <2>6 DEF Sound, Promises, Opened, Served, Body
  <2>8. Fetches(f2, store)  BY <2>3, <2>4 DEF Fetches
  <2>9. Waits(g2, f2, store)
    BY <1>1, <1>2, <1>4, <2>4, <2>6 DEF Sound, Waits, Awaits, Body, AtWork
  <2>10. StaysSure(g2, f2, store, ReliableKnown)
    BY <1>1, <1>2, <2>4, <2>5, <2>6 DEF Sound, StaysSure, Served
  <2>11. Sound(g2, f2, store, ReliableKnown)  BY <2>7, <2>8, <2>9, <2>10 DEF Sound
  <2> QED  BY <1>3, <2>2, <2>4, <2>6, <2>11, OneMoves
<1>5. CASE /\ f.pc = "failed" /\ UNCHANGED fetch
           /\ get' = [get EXCEPT ![r] = [Over(@, "refused") EXCEPT !.status = 503]]
  <2> DEFINE over == Over(g, "refused")
             h == [over EXCEPT !.status = 503]
  <2>1. over \in Get /\ over.pc = "refused" /\ over.sure = g.sure
        /\ over.start = 0 /\ over.end = 0 /\ over.cursor = 0
    BY <1>1, OverIs DEF Ended
  <2>2. get' = [get EXCEPT ![r] = h]  BY <1>5
  <2>3. fetch' = [fetch EXCEPT ![r] = f]  BY <1>5, Unmoved DEF IInv
  <2>4. Becomes(r, h, f)  BY <2>2, <2>3 DEF Becomes
  <2>5. ~g.sure  BY <1>1, <1>2, <1>5 DEF Sound, StaysSure, Served
  <2> HIDE DEF over
  <2>6. /\ h \in Get
        /\ h.pc = "refused" /\ h.status = 503 /\ h.sure = g.sure
        /\ h.start = 0 /\ h.end = 0 /\ h.cursor = 0
    BY <2>1 DEF Get
  <2> HIDE DEF h
  <2>7. Promises(h)  BY <2>6 DEF Promises, Opened, Served, Body
  <2>8. Waits(h, f, store)  BY <2>6 DEF Waits, Body
  <2>9. StaysSure(h, f, store, ReliableKnown)  BY <2>5, <2>6 DEF StaysSure
  <2>10. Sound(h, f, store, ReliableKnown)  BY <1>1, <2>7, <2>8, <2>9 DEF Sound
  <2> QED  BY <1>1, <1>3, <2>4, <2>6, <2>10, OneMoves
<1> QED  BY <1>4, <1>5 DEF Respond, Prefetched

\* A header is answered 416, or the range it asks for is promised; a GET is sure if
\* that is local, or a source that delivers is known.
LEMMA OpenKeeps ==
    ASSUME IInv, NEW r \in Gets, NEW h \in Headers, Open(r, h)
    PROVE  IInv'
<1> DEFINE g == get[r]
           f == fetch[r]
<1>1. g \in Get /\ f \in Fetch /\ Sound(g, f, store, ReliableKnown)  BY OfOne
<1>2. g = NoGet /\ UNCHANGED <<store, known>>  BY DEF Open
<1>3. /\ g.pc = "none" /\ g.status = 0 /\ g.header = <<>> /\ ~g.sure
      /\ g.start = 0 /\ g.end = 0 /\ g.cursor = 0
  BY <1>2 DEF NoGet
<1>4. store' = store /\ known' = known /\ store \subseteq AllChunks
  BY <1>2 DEF IInv, TypeInv
<1>5. ASSUME NEW g2 \in Get, Becomes(r, g2, f),
             g2.pc = "refused", ~g2.sure, g2.start = 0, g2.end = 0, g2.cursor = 0,
             \/ g2.status = 503
             \/ g2.status = 416 /\ Promised(g2.header) = {}
      PROVE  IInv'
  <2>1. Promises(g2)  BY <1>5 DEF Promises, Opened, Served, Body
  <2>2. Waits(g2, f, store)  BY <1>5 DEF Waits, Body
  <2>3. StaysSure(g2, f, store, ReliableKnown)  BY <1>5 DEF StaysSure
  <2>4. Sound(g2, f, store, ReliableKnown)  BY <1>1, <2>1, <2>2, <2>3 DEF Sound
  <2> QED  BY <1>1, <1>4, <1>5, <2>4, OneMoves
<1>6. CASE /\ UNCHANGED fetch
           /\ get' = [get EXCEPT ![r] = [@ EXCEPT !.pc = "refused", !.status = 503]]
  <2> DEFINE g2 == Answered(g, "refused", 503)
  <2>1. Becomes(r, g2, f)  BY <1>6, Unmoved DEF Answered, Becomes, IInv
  <2>2. "refused" \in {"none"} \cup Working \cup Ended  BY DEF Ended
  <2> HIDE DEF g
  <2>3. /\ g2 \in Get /\ g2.pc = "refused" /\ g2.status = 503
        /\ g2.start = g.start /\ g2.end = g.end /\ g2.cursor = g.cursor /\ g2.sure = g.sure
    BY <1>1, <2>2, AnsweredIs
  <2> HIDE DEF g2
  <2> QED  BY <1>3, <1>5, <2>1, <2>3
<1>7. CASE /\ Promised(h) = {} /\ UNCHANGED fetch
           /\ get' = [get EXCEPT ![r] = [@ EXCEPT !.pc = "refused", !.header = h,
                                                  !.status = 416]]
  <2> DEFINE g2 == Unsatisfiable(g, h)
  <2>1. Becomes(r, g2, f)  BY <1>7, Unmoved DEF Unsatisfiable, Becomes, IInv
  <2> HIDE DEF g
  <2>2. /\ g2 \in Get /\ g2.pc = "refused" /\ g2.status = 416 /\ g2.header = h
        /\ g2.start = g.start /\ g2.end = g.end /\ g2.cursor = g.cursor /\ g2.sure = g.sure
    BY <1>1, UnsatisfiableIs
  <2> HIDE DEF g2
  <2> QED  BY <1>3, <1>5, <1>7, <2>1, <2>2
<1>8. ASSUME NEW p \in Promised(h), NEW s \in BOOLEAN
      PROVE  LET o == OpenedAt(NoGet, h, p[1], p[2], s) IN
             /\ p = <<p[1], p[2]>>
             /\ p[1] \in Nat /\ p[2] \in Nat /\ p[1] <= p[2]
             /\ Size > 0 => p[2] <= Size
             /\ o \in Get
             /\ o.pc = "none" /\ o.status = 0 /\ o.header = h
             /\ o.start = p[1] /\ o.end = p[2] /\ o.cursor = p[1] /\ o.sure = s
  <2>1. /\ p = <<p[1], p[2]>>
        /\ p[1] \in Nat /\ p[2] \in Nat /\ p[1] <= p[2]
        /\ Size > 0 => p[2] <= Size
    BY PromisedFits
  <2>2. NoGet \in Get /\ NoGet.pc = "none" /\ NoGet.status = 0  BY <1>1, <1>2, <1>3
  <2> QED  BY <2>1, <2>2, OpenedIs
<1>9. CASE /\ SizeIsKnown
           /\ \E p \in Promised(h) :
                LET opened == [NoGet EXCEPT !.header = h, !.start = p[1], !.end = p[2],
                                            !.cursor = p[1],
                                            !.sure = \/ Covering(p[1], p[2]) \subseteq store
                                                      \/ Reliable \cap known # {}]
                IN  IF Complete
                    THEN /\ get' = [get EXCEPT ![r] = [opened EXCEPT !.pc = "local",
                                                                     !.status = Success(h)]]
                         /\ UNCHANGED fetch
                    ELSE /\ get' = [get EXCEPT ![r] = [opened EXCEPT !.pc = "prefetch"]]
                         /\ fetch' = [fetch EXCEPT ![r] = Begin(p[1], FirstWindow(p[1], p[2]))]
  <2>1. PICK p \in Promised(h) :
          LET opened == OpenedAt(NoGet, h, p[1], p[2], \/ Covering(p[1], p[2]) \subseteq store
                                                        \/ Reliable \cap known # {})
          IN  IF Complete
              THEN get' = [get EXCEPT ![r] = Answered(opened, "local", Success(h))]
                   /\ UNCHANGED fetch
              ELSE get' = [get EXCEPT ![r] = [opened EXCEPT !.pc = "prefetch"]]
                   /\ fetch' = [fetch EXCEPT ![r] = Begin(p[1], FirstWindow(p[1], p[2]))]
    BY <1>9 DEF OpenedAt, Answered
  <2>2. PICK s \in BOOLEAN :
          /\ s <=> \/ Covering(p[1], p[2]) \subseteq store
                   \/ Reliable \cap known # {}
          /\ LET opened == OpenedAt(NoGet, h, p[1], p[2], s)
             IN  IF Complete
                 THEN get' = [get EXCEPT ![r] = Answered(opened, "local", Success(h))]
                      /\ UNCHANGED fetch
                 ELSE get' = [get EXCEPT ![r] = [opened EXCEPT !.pc = "prefetch"]]
                      /\ fetch' = [fetch EXCEPT ![r] = Begin(p[1], FirstWindow(p[1], p[2]))]
    BY <2>1, Zenon
  <2> DEFINE o == OpenedAt(NoGet, h, p[1], p[2], s)
  <2>3. /\ p = <<p[1], p[2]>>
        /\ p[1] \in Nat /\ p[2] \in Nat /\ p[1] <= p[2]
        /\ Size > 0 => p[2] <= Size
    BY <1>8
  <2>4. /\ o \in Get
        /\ o.pc = "none" /\ o.status = 0 /\ o.header = h
        /\ o.start = p[1] /\ o.end = p[2] /\ o.cursor = p[1] /\ o.sure = s
    BY <1>8
  <2>5. s => Covering(p[1], p[2]) \subseteq store \/ ReliableKnown
    BY <2>2 DEF ReliableKnown
  <2>6. o.cursor \in o.start..o.end /\ <<o.start, o.end>> \in Promised(o.header)
    BY <2>3, <2>4
  <2>7. CASE Complete
    <3> DEFINE status == Success(h)
               g2 == Answered(o, "local", status)
    <3>1. get' = [get EXCEPT ![r] = g2] /\ UNCHANGED fetch  BY <2>2, <2>7
    <3>2. Becomes(r, g2, f)  BY <3>1, Unmoved DEF Becomes, IInv
    <3>3. status \in {200, 206}  BY DEF Success
    <3> HIDE DEF o, status
    <3>4. /\ g2 \in Get
          /\ g2.pc = "local" /\ g2.status = status /\ g2.header = o.header
          /\ g2.start = o.start /\ g2.end = o.end /\ g2.cursor = o.cursor
      <4>1. "local" \in {"none"} \cup Working \cup Ended  BY DEF Working
      <4>2. o \in Get  BY <2>4
      <4>3. CASE status = 200  BY <4>1, <4>2, <4>3, AnsweredIs
      <4>4. CASE status = 206  BY <4>1, <4>2, <4>4, AnsweredIs
      <4> QED  BY <3>3, <4>3, <4>4
    <3> HIDE DEF g2
    <3>5. Promises(g2)  BY <2>6, <3>3, <3>4 DEF Promises, Opened, Served, Body
    <3>6. Waits(g2, f, store)  BY <3>4 DEF Waits, Body
    <3>7. StaysSure(g2, f, store, ReliableKnown)  BY <3>3, <3>4 DEF StaysSure, Served
    <3>8. Sound(g2, f, store, ReliableKnown)  BY <1>1, <3>5, <3>6, <3>7 DEF Sound
    <3> QED  BY <1>1, <1>4, <3>2, <3>4, <3>8, OneMoves
  <2>8. CASE ~Complete
    <3> DEFINE g2 == [o EXCEPT !.pc = "prefetch"]
               upto == FirstWindow(p[1], p[2])
               f2 == Begin(p[1], upto)
    <3>1. get' = [get EXCEPT ![r] = g2] /\ fetch' = [fetch EXCEPT ![r] = f2]  BY <2>2, <2>8
    <3>2. Becomes(r, g2, f2)  BY <3>1 DEF Becomes
    <3>3. Size > 0  BY <1>9, <2>8 DEF SizeIsKnown
    <3>4. upto \in Nat /\ upto <= Size
      <4>1. upto \in Nat /\ upto <= p[2]  BY <2>3, FirstWindowFits
      <4>2. Size \in Nat  BY GatewayAssumption
      <4> QED  BY <2>3, <3>3, <4>1, <4>2
    <3>5. /\ f2 \in Fetch /\ f2.pc = "begun" /\ ~f2.aborted
          /\ f2.start = p[1] /\ f2.end = upto
      BY <2>3, <3>4, BegunIs
    <3> HIDE DEF o, f2
    <3>6. /\ g2 \in Get
          /\ g2.pc = "prefetch" /\ g2.status = 0 /\ g2.header = o.header
          /\ g2.start = o.start /\ g2.end = o.end /\ g2.cursor = o.cursor /\ g2.sure = s
      BY <2>4 DEF Get, Working
    <3> HIDE DEF g2
    <3>7. Promises(g2)  BY <2>6, <3>3, <3>6 DEF Promises, Opened, Served, Body
    <3>8. Fetches(f2, store)  BY <3>4, <3>5 DEF Fetches
    <3>9. Waits(g2, f2, store)  BY <2>4, <3>5, <3>6 DEF Waits, Awaits, Body, AtWork
    <3>10. StaysSure(g2, f2, store, ReliableKnown)
      BY <2>4, <2>5, <3>5, <3>6 DEF StaysSure, Served
    <3>11. Sound(g2, f2, store, ReliableKnown)  BY <3>7, <3>8, <3>9, <3>10 DEF Sound
    <3> QED  BY <1>4, <3>2, <3>5, <3>6, <3>11, OneMoves
  <2> QED  BY <2>7, <2>8
<1> QED  BY <1>6, <1>7, <1>9 DEF Open

-----------------------------------------------------------------------------
(* The theorems.                                                           *)

LEMMA StepKeeps == IInv /\ [Next]_vars => IInv'
<1> SUFFICES ASSUME IInv, [Next]_vars PROVE IInv'  OBVIOUS
<1>1. ASSUME NEW p \in Peers, Learn(p) \/ Forget(p) PROVE IInv'  BY <1>1, SourcesKeep
<1>2. ASSUME NEW r \in Gets, NEW h \in Headers, Open(r, h) PROVE IInv'  BY <1>2, OpenKeeps
<1>3. ASSUME NEW r \in Gets, Serve(r) PROVE IInv'
  <2>1. CASE Respond(r)  BY <2>1, RespondKeeps
  <2>2. CASE Look(r)  BY <2>2, LookKeeps
  <2>3. CASE Wake(r)  BY <2>3, WakeKeeps
  <2>4. CASE Drain(r)  BY <2>4, DrainKeeps
  <2>5. CASE StreamLocal(r)  BY <2>5, StreamLocalKeeps
  <2> QED  BY <1>3, <2>1, <2>2, <2>3, <2>4, <2>5 DEF Serve
<1>4. ASSUME NEW r \in Gets, Fetching(r) PROVE IInv'
  <2>1. CASE StartFetch(r)  BY <2>1, StartFetchKeeps
  <2>2. CASE Deliver(r)  BY <2>2, DeliverKeeps
  <2>3. CASE SourceOver(r)  BY <2>3, SourceOverKeeps
  <2>4. CASE Abort(r)  BY <2>4, AbortKeeps
  <2> QED  BY <1>4, <2>1, <2>2, <2>3, <2>4 DEF Fetching
<1>5. ASSUME NEW r \in Gets, Leave(r) PROVE IInv'  BY <1>5, LeaveKeeps
<1>6. CASE UNCHANGED vars
  BY <1>6 DEF vars, IInv, TypeInv, ReliableKnown
<1> QED  BY <1>1, <1>2, <1>3, <1>4, <1>5, <1>6 DEF Next

\* Each GET, its fetch, the store and what is known of sources stay as the argument
\* above has them, whatever serve_file, fetch_range and the players do.
THEOREM Invariant == Spec => []IInv
<1>1. Init => IInv  BY InitiallySound
<1>2. IInv /\ [Next]_vars => IInv'  BY StepKeeps
<1> QED  BY <1>1, <1>2, PTL DEF Spec

\* Every GET and every fetch keeps its shape: a body stays within what its response
\* promised, and the progress channel within its capacity.
THEOREM TypeCorrect == Spec => []TypeOK
<1>1. IInv => TypeOK
  <2> SUFFICES ASSUME IInv, NEW r \in Gets
               PROVE  /\ get[r].pc \in {"none"} \cup Working \cup Ended
                      /\ get[r].status \in {0, 200, 206, 416, 503}
                      /\ get[r].start \in Nat /\ get[r].cursor \in get[r].start..get[r].end
                      /\ fetch[r].pc \in AtWork \cup {"none", "ok", "failed"}
                      /\ fetch[r].todo \cup fetch[r].source \subseteq Peers
                      /\ fetch[r].left \subseteq AllChunks /\ fetch[r].ticks \in 0..Queue
    BY DEF TypeOK, IInv, TypeInv
  <2>1. get[r] \in Get /\ fetch[r] \in Fetch /\ Promises(get[r])  BY OfOne DEF Sound
  <2>2. /\ get[r].pc \in {"none"} \cup Working \cup Ended
        /\ get[r].status \in {0, 200, 206, 416, 503} /\ get[r].start \in Nat
    BY <2>1 DEF Get
  <2>3. /\ fetch[r].pc \in AtWork \cup {"none", "ok", "failed"}
        /\ fetch[r].todo \cup fetch[r].source \subseteq Peers
        /\ fetch[r].left \subseteq AllChunks /\ fetch[r].ticks \in 0..Queue
    BY <2>1 DEF Fetch
  <2>4. get[r].cursor \in get[r].start..get[r].end  BY <2>1 DEF Promises
  <2> QED  BY <2>2, <2>3, <2>4
<1> QED  BY <1>1, Invariant, PTL

\* parse_range: whatever prefix, suffix or range a header names, of a file of any
\* size but 0, what a success promises is what was asked for, and 416 says that
\* there is nothing of it.
THEOREM PromisesWhatWasAsked == Spec => []PromiseIsWhatWasAsked
<1>1. IInv => PromiseIsWhatWasAsked
  <2> SUFFICES ASSUME IInv, Size > 0, NEW r \in Gets
               PROVE  /\ get[r].status \in {200, 206}
                            => get[r].start..get[r].end - 1 = Asked(get[r].header)
                      /\ get[r].status = 416 => Asked(get[r].header) = {}
    BY DEF PromiseIsWhatWasAsked
  <2> DEFINE g == get[r]
             p == <<g.start, g.end>>
  <2>1. g.header \in Headers \cup {<<>>} /\ Promises(g)  BY OfOne DEF Sound, Get
  <2>2. g.status \in {200, 206} => p \in Promised(g.header)
    BY <2>1 DEF Promises, Opened, Body
  <2>3. p[1] = g.start /\ p[2] = g.end  OBVIOUS
  <2>4. g.status = 416 => Promised(g.header) = {}  BY <2>1 DEF Promises
  <2> QED  BY <2>1, <2>2, <2>3, <2>4, PromisedIsAsked
<1> QED  BY <1>1, Invariant, PTL

\* prefetch_window: a response that announces success has its first window in the
\* store, however many windows, chunks and sources there are.
THEOREM SuccessHasBytes == Spec => []SuccessHasFirstWindow
<1>1. IInv => SuccessHasFirstWindow
  <2> SUFFICES ASSUME IInv, NEW r \in Gets, get[r].pc \in {"look", "wait"}
               PROVE  Present(get[r].start, FirstWindow(get[r].start, get[r].end))
    BY DEF SuccessHasFirstWindow
  <2>1. Waits(get[r], fetch[r], store)  BY OfOne DEF Sound
  <2> QED  BY <2>1 DEF Waits, Body, Present
<1> QED  BY <1>1, Invariant, PTL

\* serve_file and stream_windowed: a body of a file that is not empty ends short of
\* its Content-Length only when every source has failed.
THEOREM ShortMeansFailed ==
    ASSUME Size > 0
    PROVE  Spec => []ShortOnlyIfSourcesFailed
<1>1. IInv => ShortOnlyIfSourcesFailed
  BY OfOne DEF ShortOnlyIfSourcesFailed, Sound, Waits
<1> QED  BY <1>1, Invariant, PTL

\* fetch_range: a GET of a file that is not empty, whose range was local or listed by
\* a peer that delivers, is neither refused nor cut short, whatever other peers and
\* other GETs do.
THEOREM SureGetsAreServed ==
    ASSUME Size > 0
    PROVE  Spec => []SureIsServed
<1>1. IInv => SureIsServed
  BY OfOne DEF SureIsServed, Sound, StaysSure
<1> QED  BY <1>1, Invariant, PTL
=============================================================================
