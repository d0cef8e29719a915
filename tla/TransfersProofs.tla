--------------------------- MODULE TransfersProofs ---------------------------
(***************************************************************************)
(* Proofs about Transfers, for any transfers, sources and sizes: what a    *)
(* transfer calls done was fetched and is shown in full, one that found a  *)
(* source that works does not fail, and one that is over stays so.         *)
(***************************************************************************)
EXTENDS Transfers, SequenceTheorems, TLAPS

Pc == {"none", "spawned", "check", "list", "fetch", "drain", "export", "over"}
Task == [pc : Pc, todo : Seq(Peers), got : 0..Size, ok : BOOLEAN]

TypeInv ==
    /\ TypeOK
    /\ task \in [Ids -> Task]
    /\ queue \in [Ids -> Seq(1..Size)]

-----------------------------------------------------------------------------
(* The argument.  Each part is about one transfer, and about the chunks in *)
(* the store, which only become more.                                      *)

\* The status a client is shown goes with where run is.
StatusFits(t) ==
    /\ task[t].pc = "none" <=> info[t].status = "none"
    /\ task[t].pc = "spawned" <=> info[t].status = "queued"
    /\ task[t].pc \in {"check", "list", "fetch", "drain", "export"}
          <=> info[t].status = "active"

\* A source delivers in order; the export begins with all of it in the store.
DeliveredIsStored(t) ==
    /\ task[t].pc \in {"none", "spawned", "check", "list"} => task[t].got = 0
    /\ task[t].pc \in {"fetch", "drain"} => 1..task[t].got \subseteq have
    /\ task[t].pc = "drain" /\ task[t].ok => task[t].got = Length(t)
    /\ task[t].pc = "export" \/ info[t].status = "done" => Wanted(t) \subseteq have

\* Between two sources, and after the last one, no progress number is under way;
\* only a transfer that was cancelled or failed can leave any behind.
NothingUnderWay(t) ==
    task[t].pc \notin {"fetch", "drain", "over"} \/ info[t].status = "done"
        => queue[t] = <<>>

TotalFits(t) ==
    /\ info[t].status # "none" => info[t].total \in {0, Length(t)}
    /\ info[t].status = "done" =>
          info[t].total = Length(t) /\ info[t].transferred = Length(t)

\* What is left to try begins with the source at work, and a source that was
\* left without having delivered is none of those that always do.
TriedInTurn(t) ==
    /\ task[t].pc \in {"none", "spawned", "check", "list"} => task[t].todo = <<>>
    /\ task[t].pc \in {"fetch", "drain"} => task[t].todo # <<>>
    /\ task[t].pc = "drain" /\ ~task[t].ok => Head(task[t].todo) \notin Reliable
    /\ info[t].status = "failed" /\ t \notin BadOut =>
          \A i \in DOMAIN task[t].todo : task[t].todo[i] \notin Reliable

Sound(t) ==
    /\ StatusFits(t) /\ DeliveredIsStored(t) /\ NothingUnderWay(t)
    /\ TotalFits(t) /\ TriedInTurn(t)

IInv == TypeInv /\ \A t \in Ids : Sound(t)

-----------------------------------------------------------------------------
LEMMA LengthFacts ==
    ASSUME NEW t \in Ids
    PROVE  /\ Length(t) \in 1..Size /\ Length(t) \in Nat \ {0} /\ Size \in Nat \ {0}
           /\ Wanted(t) = 1..Length(t)
           /\ t \notin Ranged => Wanted(t) = Whole
<1>1. Size \in Nat \ {0}
  BY TransfersAssumption
<1>2. CASE t \in Ranged
  <2>1. Length(t) = 1 /\ Wanted(t) = {1}
    BY <1>2 DEF Length, Wanted
  <2>2. {1} = 1..1
    OBVIOUS
  <2> QED BY <1>1, <1>2, <2>1, <2>2
<1>3. CASE t \notin Ranged
  <2>1. Length(t) = Size /\ Wanted(t) = Whole
    BY <1>3 DEF Length, Wanted
  <2> QED BY <1>1, <2>1 DEF Whole
<1> QED BY <1>2, <1>3

LEMMA TailFacts ==
    ASSUME NEW S, NEW s \in Seq(S), s # <<>>
    PROVE  /\ Head(s) \in S /\ Tail(s) \in Seq(S) /\ Len(Tail(s)) = Len(s) - 1
           /\ Tail(s) = <<>> => \A i \in DOMAIN s : s[i] = Head(s)
<1>1. Head(s) \in S /\ Tail(s) \in Seq(S) /\ Len(Tail(s)) = Len(s) - 1
  BY HeadTailProperties
<1>2. Tail(s) = <<>> => Len(s) = 1
  BY <1>1
<1> QED BY <1>1, <1>2

LEMMA InitSound == Init => IInv
<1> SUFFICES ASSUME Init
             PROVE  IInv
  OBVIOUS
<1>1. Size \in Nat \ {0} /\ Queue \in Nat \ {0}
  BY TransfersAssumption
<1>2. NoInfo \in Info /\ Idle \in Task
  BY <1>1 DEF NoInfo, Info, Idle, Task, Pc, Terminal
<1>3. TypeInv
  <2>1. info \in [Ids -> Info] /\ task \in [Ids -> Task]
    BY <1>2 DEF Init
  <2>2. \A t \in Ids : queue[t] = <<>> /\ task[t] = Idle
    BY DEF Init
  <2>3. ASSUME NEW t \in Ids
        PROVE  task[t].got \in 0..Length(t) /\ queue[t] \in Seq(1..Length(t))
               /\ Len(queue[t]) <= Queue
    <3>1. Length(t) \in Nat \ {0} /\ queue[t] = <<>> /\ task[t].got = 0
      BY <2>2, LengthFacts DEF Idle
    <3> QED BY <1>1, <3>1
  <2> QED BY <2>1, <2>2, <2>3 DEF Init, TypeInv, TypeOK, Task, Pc
<1>4. ASSUME NEW t \in Ids
      PROVE  Sound(t)
  <2>1. task[t] = Idle /\ info[t] = NoInfo /\ queue[t] = <<>>
    BY DEF Init
  <2> QED BY <2>1 DEF Sound, StatusFits, DeliveredIsStored, NothingUnderWay, TotalFits,
                      TriedInTurn, Idle, NoInfo
<1> QED BY <1>3, <1>4 DEF IInv

\* A step of one transfer leaves the others as they are, whatever comes into the
\* store beside.
LEMMA OneTransfer ==
    ASSUME IInv, NEW t \in Ids, NEW i \in Info, NEW k \in Task, NEW q \in Seq(1..Length(t)),
           info' = [info EXCEPT ![t] = i],
           task' = [task EXCEPT ![t] = k],
           queue' = [queue EXCEPT ![t] = q],
           k.got <= Length(t), Len(q) <= Queue,
           have \subseteq have', have' \subseteq Whole,
           cancel' \in SUBSET Ids, unseen' \in SUBSET Ids,
           client' \in [Ids -> {"none", "waiting", "gone"} \cup Terminal],
           (info'[t] = i /\ task'[t] = k /\ queue'[t] = q) => Sound(t)'
    PROVE  IInv'
<1>1. /\ info \in [Ids -> Info] /\ task \in [Ids -> Task] /\ queue \in [Ids -> Seq(1..Size)]
  BY DEF IInv, TypeInv, TypeOK
<1>2. info'[t] = i /\ task'[t] = k /\ queue'[t] = q
  BY <1>1
<1>3. \A u \in Ids \ {t} : info'[u] = info[u] /\ task'[u] = task[u] /\ queue'[u] = queue[u]
  BY <1>1
<1>4. q \in Seq(1..Size)
  BY LengthFacts
<1>5. TypeInv'
  <2>1. info' \in [Ids -> Info] /\ task' \in [Ids -> Task] /\ queue' \in [Ids -> Seq(1..Size)]
    BY <1>1, <1>4
  <2>2. ASSUME NEW u \in Ids
        PROVE  /\ task'[u].got \in 0..Length(u)
               /\ queue'[u] \in Seq(1..Length(u)) /\ Len(queue'[u]) <= Queue
    <3>1. CASE u = t
      BY <1>2, <3>1, LengthFacts DEF Task
    <3>2. CASE u # t
      BY <1>3, <3>2 DEF IInv, TypeInv, TypeOK
    <3> QED BY <3>1, <3>2
  <2>3. \A u \in Ids : /\ task'[u].pc \in Pc /\ task'[u].todo \in Seq(Peers)
                      /\ task'[u].ok \in BOOLEAN
    BY <2>1 DEF Task
  <2> QED BY <2>1, <2>2, <2>3 DEF TypeInv, TypeOK, Pc
<1>6. ASSUME NEW u \in Ids \ {t}
      PROVE  Sound(u)'
  <2>1. Sound(u) /\ info'[u] = info[u] /\ task'[u] = task[u] /\ queue'[u] = queue[u]
    BY <1>3 DEF IInv
  <2> QED BY <2>1 DEF Sound, StatusFits, DeliveredIsStored, NothingUnderWay, TotalFits,
                      TriedInTurn
<1> QED BY <1>2, <1>5, <1>6 DEF IInv

-----------------------------------------------------------------------------
(* The operations, one by one.                                             *)

LEMMA TypesOf ==
    ASSUME IInv, NEW t \in Ids
    PROVE  /\ info \in [Ids -> Info] /\ task \in [Ids -> Task] /\ queue \in [Ids -> Seq(1..Size)]
           /\ info[t] \in Info /\ task[t] \in Task
           /\ queue[t] \in Seq(1..Length(t)) /\ Len(queue[t]) <= Queue
           /\ task[t].got \in 0..Length(t)
           /\ cancel \in SUBSET Ids /\ unseen \in SUBSET Ids /\ have \in SUBSET Whole
           /\ client \in [Ids -> {"none", "waiting", "gone"} \cup Terminal]
           /\ Sound(t)
BY DEF IInv, TypeInv, TypeOK

\* The queue as it is, for a step that leaves it alone.
LEMMA Same ==
    ASSUME IInv, NEW t \in Ids
    PROVE  /\ queue = [queue EXCEPT ![t] = queue[t]]
           /\ info = [info EXCEPT ![t] = info[t]]
           /\ task = [task EXCEPT ![t] = task[t]]
BY TypesOf

LEMMA InfoUpdate ==
    ASSUME NEW i \in Info
    PROVE  /\ \A st \in {"none", "queued", "active"} \cup Terminal :
                 /\ [i EXCEPT !.status = st] \in Info
                 /\ [i EXCEPT !.status = st].status = st
                 /\ [i EXCEPT !.status = st].total = i.total
                 /\ [i EXCEPT !.status = st].transferred = i.transferred
           /\ \A n \in 0..Size :
                 /\ Progressed(i, n) \in Info
                 /\ Progressed(i, n).status = i.status
                 /\ Progressed(i, n).total = i.total
                 /\ Progressed(i, n).transferred = n
BY DEF Info, Progressed

\* run ends, with a status that fits what there is.
LEMMA Ends ==
    ASSUME IInv, NEW t \in Ids, NEW i \in Info,
           Patched(t, i), Over(t), UNCHANGED <<cancel, queue, client, have>>,
           info[t].status # "none", i.status \in Terminal,
           i.total \in {0, Length(t)},
           i.status = "done" =>
              /\ Wanted(t) \subseteq have /\ queue[t] = <<>>
              /\ i.total = Length(t) /\ i.transferred = Length(t),
           i.status = "failed" /\ t \notin BadOut =>
              \A n \in DOMAIN task[t].todo : task[t].todo[n] \notin Reliable
    PROVE  IInv'
<1> DEFINE k == [Idle EXCEPT !.pc = "over", !.todo = task[t].todo]
<1>1. k \in Task /\ k.pc = "over" /\ k.todo = task[t].todo /\ k.got = 0
  <2>1. task[t].todo \in Seq(Peers) /\ 0 \in 0..Size
    BY TypesOf, LengthFacts DEF Task
  <2> QED BY <2>1 DEF Idle, Task, Pc
<1>2. /\ info' = [info EXCEPT ![t] = i] /\ task' = [task EXCEPT ![t] = k]
      /\ queue' = [queue EXCEPT ![t] = queue[t]]
      /\ unseen' \in {unseen, unseen \cup {t}}
  BY Same DEF Patched, Over
<1>3. Sound(t)
  BY TypesOf
<1> HIDE DEF k
<1>4. (info'[t] = i /\ task'[t] = k /\ queue'[t] = queue[t]) => Sound(t)'
  BY <1>1, <1>3 DEF Sound, StatusFits, DeliveredIsStored, NothingUnderWay, TotalFits,
                    TriedInTurn, Terminal
<1>5. k.got <= Length(t)
  BY <1>1, LengthFacts
<1>6. /\ have \subseteq have' /\ have' \subseteq Whole
      /\ cancel' \in SUBSET Ids /\ unseen' \in SUBSET Ids
      /\ client' \in [Ids -> {"none", "waiting", "gone"} \cup Terminal]
      /\ queue[t] \in Seq(1..Length(t)) /\ Len(queue[t]) <= Queue
  BY <1>2, TypesOf
<1> QED BY <1>1, <1>2, <1>4, <1>5, <1>6, OneTransfer

LEMMA CancelledSound ==
    ASSUME IInv, NEW t \in Ids, Cancelled(t)
    PROVE  IInv'
<1> DEFINE i == [info[t] EXCEPT !.status = "cancelled"]
<1>1. i \in Info /\ i.status = "cancelled" /\ i.total = info[t].total
  <2>1. info[t] \in Info
    BY TypesOf
  <2> QED BY <2>1 DEF Info, Terminal
<1>2. info[t].status # "none" /\ info[t].total \in {0, Length(t)}
  BY TypesOf DEF Cancelled, InTransfer, Sound, StatusFits, TotalFits
<1>3. Patched(t, i) /\ Over(t) /\ UNCHANGED <<cancel, queue, client, have>>
  BY DEF Cancelled
<1> HIDE DEF i
<1> QED BY <1>1, <1>2, <1>3, Ends DEF Terminal

\* fail, once every source that was left has failed.
LEMMA FailSound ==
    ASSUME IInv, NEW t \in Ids, Fail(t), UNCHANGED <<cancel, queue, client, have>>,
           info[t].status = "active",
           t \notin BadOut => \A n \in DOMAIN task[t].todo : task[t].todo[n] \notin Reliable
    PROVE  IInv'
<1> DEFINE i == [info[t] EXCEPT !.status = "failed"]
<1>1. i \in Info /\ i.status = "failed" /\ i.total = info[t].total
  <2>1. info[t] \in Info
    BY TypesOf
  <2> QED BY <2>1 DEF Info, Terminal
<1>2. info[t].total \in {0, Length(t)}
  BY TypesOf DEF Sound, TotalFits
<1>3. Patched(t, i) /\ Over(t)
  BY DEF Fail
<1> HIDE DEF i
<1> QED BY <1>1, <1>2, <1>3, Ends DEF Terminal

\* A step of run that changes nothing but where it is.
LEMMA Moves ==
    ASSUME IInv, NEW t \in Ids, NEW k \in Task,
           task' = [task EXCEPT ![t] = k], UNCHANGED <<info, cancel, queue, client, unseen, have>>,
           k.got <= Length(t),
           (info'[t] = info[t] /\ task'[t] = k /\ queue'[t] = queue[t]) => Sound(t)'
    PROVE  IInv'
<1>1. /\ info' = [info EXCEPT ![t] = info[t]] /\ queue' = [queue EXCEPT ![t] = queue[t]]
      /\ info[t] \in Info
  BY Same, TypesOf
<1>2. /\ have \subseteq have' /\ have' \subseteq Whole
      /\ cancel' \in SUBSET Ids /\ unseen' \in SUBSET Ids
      /\ client' \in [Ids -> {"none", "waiting", "gone"} \cup Terminal]
      /\ queue[t] \in Seq(1..Length(t)) /\ Len(queue[t]) <= Queue
  BY TypesOf
<1> QED BY <1>1, <1>2, OneTransfer

LEMMA CheckLocalSound ==
    ASSUME IInv, NEW t \in Ids, CheckLocal(t)
    PROVE  IInv'
<1> DEFINE pc == IF t \notin Ranged /\ have = Whole THEN "export" ELSE "list"
           k == [task[t] EXCEPT !.pc = pc]
<1>1. task[t] \in Task /\ task[t].got \in 0..Length(t) /\ Sound(t) /\ task \in [Ids -> Task]
  BY TypesOf
<1>2. /\ k \in Task /\ k.pc = pc /\ k.todo = task[t].todo /\ k.got = task[t].got
  BY <1>1 DEF Task, Pc
<1>3. /\ task' = [task EXCEPT ![t] = k] /\ UNCHANGED <<info, cancel, queue, client, unseen, have>>
      /\ task[t].pc = "check"
  BY <1>1 DEF CheckLocal
<1>4. pc \in {"export", "list"} /\ (pc = "export" => Wanted(t) \subseteq have)
  BY LengthFacts
<1>5. k.got <= Length(t)
  BY <1>1, <1>2, LengthFacts
<1> HIDE DEF pc, k
<1>6. (info'[t] = info[t] /\ task'[t] = k /\ queue'[t] = queue[t]) => Sound(t)'
  BY <1>1, <1>2, <1>3, <1>4 DEF Sound, StatusFits, DeliveredIsStored, NothingUnderWay,
                                TotalFits, TriedInTurn
<1> QED BY <1>2, <1>3, <1>5, <1>6, Moves

LEMMA ListSound ==
    ASSUME IInv, NEW t \in Ids, List(t)
    PROVE  IInv'
<1>1. /\ task[t] \in Task /\ task[t].got \in 0..Length(t) /\ Sound(t) /\ task \in [Ids -> Task]
      /\ task[t].pc = "list"
  BY TypesOf DEF List
<1>2. PICK l \in Listings :
          \/ /\ l # <<>>
             /\ task' = [task EXCEPT ![t].pc = "fetch", ![t].todo = l]
             /\ UNCHANGED <<info, unseen>>
          \/ /\ l = <<>>
             /\ Fail(t)
  BY DEF List
<1>3. UNCHANGED <<cancel, queue, client, have>>
  BY DEF List
<1>4. CASE l # <<>> /\ task' = [task EXCEPT ![t].pc = "fetch", ![t].todo = l]
           /\ UNCHANGED <<info, unseen>>
  <2> DEFINE k == [task[t] EXCEPT !.pc = "fetch", !.todo = l]
  <2>1. l \in Seq(Peers)
    BY TransfersAssumption
  <2>2. k \in Task /\ k.pc = "fetch" /\ k.todo = l /\ k.got = task[t].got
    BY <1>1, <2>1 DEF Task, Pc
  <2>3. task' = [task EXCEPT ![t] = k]
    BY <1>1, <1>4
  <2>4. k.got <= Length(t)
    BY <1>1, <2>2, LengthFacts
  <2> HIDE DEF k
  <2>5. (info'[t] = info[t] /\ task'[t] = k /\ queue'[t] = queue[t]) => Sound(t)'
    BY <1>1, <1>3, <1>4, <2>2 DEF Sound, StatusFits, DeliveredIsStored, NothingUnderWay,
                                  TotalFits, TriedInTurn
  <2> QED BY <1>3, <1>4, <2>2, <2>3, <2>4, <2>5, Moves
<1>5. CASE Fail(t)
  <2>1. info[t].status = "active" /\ task[t].todo = <<>>
    BY <1>1 DEF Sound, StatusFits, TriedInTurn
  <2> QED BY <1>3, <1>5, <2>1, FailSound
<1> QED BY <1>2, <1>4, <1>5

\* A chunk is stored before its number is sent.
LEMMA FetchSound ==
    ASSUME IInv, NEW t \in Ids, Fetch(t)
    PROVE  IInv'
<1> DEFINE n == task[t].got + 1
           k == [task[t] EXCEPT !.got = n]
           q == Append(queue[t], n)
<1>1. /\ task[t] \in Task /\ task[t].got \in 0..Length(t) /\ Sound(t) /\ task \in [Ids -> Task]
      /\ queue[t] \in Seq(1..Length(t)) /\ queue \in [Ids -> Seq(1..Size)]
      /\ have \in SUBSET Whole
  BY TypesOf
<1>2. /\ task[t].pc = "fetch" /\ task[t].got < Length(t) /\ Len(queue[t]) < Queue
      /\ have' = have \cup {n}
      /\ task' = [task EXCEPT ![t].got = n] /\ queue' = [queue EXCEPT ![t] = q]
      /\ UNCHANGED <<info, cancel, client, unseen>>
  BY <1>1 DEF Fetch
<1>3. n \in 1..Length(t) /\ n \in 0..Size /\ n \in Whole /\ n - 1 = task[t].got /\ n \in Nat
  <2>1. Length(t) \in 1..Size /\ Length(t) \in Nat /\ Size \in Nat /\ task[t].got \in Nat
    BY <1>1, LengthFacts
  <2>2. task[t].got < Length(t)
    BY <1>2
  <2> QED BY <2>1, <2>2 DEF Whole
<1>4. task' = [task EXCEPT ![t] = k]
  BY <1>1, <1>2
<1> HIDE DEF n
<1>5. k \in Task /\ k.pc = task[t].pc /\ k.todo = task[t].todo /\ k.got = n /\ k.ok = task[t].ok
  BY <1>1, <1>3 DEF Task
<1>6. q \in Seq(1..Length(t)) /\ Len(q) = Len(queue[t]) + 1
  BY <1>1, <1>3
<1>7. Len(q) <= Queue
  BY <1>1, <1>2, <1>6, TransfersAssumption
<1>8. 1..task[t].got \subseteq have /\ 1..n \subseteq (1..task[t].got) \cup {n}
  BY <1>1, <1>2, <1>3 DEF Sound, DeliveredIsStored
<1> HIDE DEF k, q
<1>9. (info'[t] = info[t] /\ task'[t] = k /\ queue'[t] = q) => Sound(t)'
  BY <1>1, <1>2, <1>5, <1>8 DEF Sound, StatusFits, DeliveredIsStored, NothingUnderWay,
                                TotalFits, TriedInTurn
<1>10. /\ have \subseteq have' /\ have' \subseteq Whole
       /\ cancel' \in SUBSET Ids /\ unseen' \in SUBSET Ids
       /\ client' \in [Ids -> {"none", "waiting", "gone"} \cup Terminal]
       /\ info' = [info EXCEPT ![t] = info[t]] /\ info[t] \in Info
  BY <1>2, <1>3, TypesOf, Same
<1>11. k.got <= Length(t)
  BY <1>3, <1>5, LengthFacts
<1> QED BY <1>2, <1>4, <1>5, <1>6, <1>7, <1>9, <1>10, <1>11, OneTransfer

LEMMA FetchOverSound ==
    ASSUME IInv, NEW t \in Ids, FetchOver(t)
    PROVE  IInv'
<1>1. /\ task[t] \in Task /\ task[t].got \in 0..Length(t) /\ Sound(t) /\ task \in [Ids -> Task]
      /\ task[t].pc = "fetch" /\ UNCHANGED <<info, cancel, queue, client, unseen, have>>
  BY TypesOf DEF FetchOver
<1>2. PICK ok \in BOOLEAN :
          /\ task' = [task EXCEPT ![t].pc = "drain", ![t].ok = ok]
          /\ IF ok THEN task[t].got = Length(t) ELSE Head(task[t].todo) \notin Reliable
  BY DEF FetchOver, Complete
<1> DEFINE k == [task[t] EXCEPT !.pc = "drain", !.ok = ok]
<1>3. k \in Task /\ k.pc = "drain" /\ k.todo = task[t].todo /\ k.got = task[t].got /\ k.ok = ok
  BY <1>1 DEF Task, Pc
<1>4. task' = [task EXCEPT ![t] = k]
  BY <1>1, <1>2
<1>5. k.got <= Length(t)
  BY <1>1, <1>3, LengthFacts
<1> HIDE DEF k
<1>6. (info'[t] = info[t] /\ task'[t] = k /\ queue'[t] = queue[t]) => Sound(t)'
  BY <1>1, <1>2, <1>3 DEF Sound, StatusFits, DeliveredIsStored, NothingUnderWay, TotalFits,
                          TriedInTurn
<1> QED BY <1>1, <1>3, <1>4, <1>5, <1>6, Moves

LEMMA DrainedSound ==
    ASSUME IInv, NEW t \in Ids, Drained(t)
    PROVE  IInv'
<1> DEFINE rest == Tail(task[t].todo)
<1>1. /\ task[t] \in Task /\ task[t].got \in 0..Length(t) /\ Sound(t) /\ task \in [Ids -> Task]
      /\ task[t].todo \in Seq(Peers)
  BY TypesOf DEF Task
<1>2. /\ task[t].pc = "drain" /\ queue[t] = <<>> /\ UNCHANGED <<cancel, queue, client, have>>
  BY DEF Drained, Pumped
<1>3. task[t].todo # <<>> /\ rest \in Seq(Peers) /\ Len(rest) = Len(task[t].todo) - 1
      /\ (rest = <<>> => \A i \in DOMAIN task[t].todo : task[t].todo[i] = Head(task[t].todo))
  <2>1. task[t].todo # <<>>
    BY <1>1, <1>2 DEF Sound, TriedInTurn
  <2> QED BY <1>1, <2>1, TailFacts
<1>4. CASE task[t].ok /\ task' = [task EXCEPT ![t].pc = "export"] /\ UNCHANGED <<info, unseen>>
  <2> DEFINE k == [task[t] EXCEPT !.pc = "export"]
  <2>1. k \in Task /\ k.pc = "export" /\ k.todo = task[t].todo /\ k.got = task[t].got
    BY <1>1 DEF Task, Pc
  <2>2. task' = [task EXCEPT ![t] = k]
    BY <1>1, <1>4
  <2>3. k.got <= Length(t)
    BY <1>1, <2>1, LengthFacts
  <2>4. Wanted(t) \subseteq have
    BY <1>1, <1>2, <1>4, LengthFacts DEF Sound, DeliveredIsStored
  <2> HIDE DEF k
  <2>5. (info'[t] = info[t] /\ task'[t] = k /\ queue'[t] = queue[t]) => Sound(t)'
    BY <1>1, <1>2, <2>1, <2>4 DEF Sound, StatusFits, DeliveredIsStored, NothingUnderWay,
                                  TotalFits, TriedInTurn
  <2> QED BY <1>2, <1>4, <2>1, <2>2, <2>3, <2>5, Moves
<1>5. CASE /\ rest # <<>> /\ UNCHANGED <<info, unseen>> /\ ~task[t].ok
           /\ task' = [task EXCEPT ![t].pc = "fetch", ![t].todo = rest, ![t].got = 0]
  <2> DEFINE k == [task[t] EXCEPT !.pc = "fetch", !.todo = rest, !.got = 0]
  <2>1. 0 \in 0..Size /\ 0 <= Length(t)
    BY LengthFacts
  <2>2. task' = [task EXCEPT ![t] = k]
    BY <1>1, <1>5
  <2>3. k \in Task /\ k.pc = "fetch" /\ k.todo = rest /\ k.got = 0
    BY <1>1, <1>3, <2>1 DEF Task, Pc
  <2> HIDE DEF k
  <2>4. (info'[t] = info[t] /\ task'[t] = k /\ queue'[t] = queue[t]) => Sound(t)'
    BY <1>1, <1>2, <1>5, <2>3 DEF Sound, StatusFits, DeliveredIsStored, NothingUnderWay,
                                  TotalFits, TriedInTurn
  <2> QED BY <1>2, <1>5, <2>1, <2>2, <2>3, <2>4, Moves
<1>6. CASE ~task[t].ok /\ rest = <<>> /\ Fail(t)
  <2>1. info[t].status = "active" /\ Head(task[t].todo) \notin Reliable
    BY <1>1, <1>2, <1>6 DEF Sound, StatusFits, TriedInTurn
  <2> QED BY <1>2, <1>3, <1>6, <2>1, FailSound
<1> QED BY <1>4, <1>5, <1>6 DEF Drained, After

LEMMA ExportSound ==
    ASSUME IInv, NEW t \in Ids, Export(t)
    PROVE  IInv'
<1>1. /\ task[t] \in Task /\ info[t] \in Info /\ Sound(t)
      /\ task[t].pc = "export" /\ UNCHANGED <<cancel, queue, client, have>>
  BY TypesOf DEF Export
<1>2. info[t].status = "active" /\ Wanted(t) \subseteq have /\ queue[t] = <<>>
      /\ info[t].total \in {0, Length(t)}
  BY <1>1 DEF Sound, StatusFits, DeliveredIsStored, NothingUnderWay, TotalFits
<1>3. CASE t \in BadOut
  <2>1. Fail(t)
    BY <1>3 DEF Export
  <2> QED BY <1>1, <1>2, <1>3, <2>1, FailSound
<1>4. CASE t \notin BadOut
  <2> DEFINE total == IF info[t].total = 0 THEN Length(t) ELSE info[t].total
             i == [status |-> "done", transferred |-> total, total |-> total]
  <2>1. total = Length(t)
    BY <1>2
  <2>2. i \in Info /\ i.status = "done" /\ i.total = Length(t) /\ i.transferred = Length(t)
    BY <2>1, LengthFacts DEF Info, Terminal
  <2>3. Patched(t, i) /\ Over(t)
    BY <1>4 DEF Export
  <2> HIDE DEF i, total
  <2> QED BY <1>1, <1>2, <2>2, <2>3, Ends DEF Terminal
<1> QED BY <1>3, <1>4

\* A number the pump takes out belongs to a transfer that is not done.
LEMMA PumpSound ==
    ASSUME IInv, NEW t \in Ids, Pump(t)
    PROVE  IInv'
<1> DEFINE n == Head(queue[t])
           i == Progressed(info[t], n)
           q == Tail(queue[t])
<1>1. /\ task[t] \in Task /\ info[t] \in Info /\ Sound(t) /\ task[t].got \in 0..Length(t)
      /\ queue[t] \in Seq(1..Length(t)) /\ queue[t] # <<>> /\ Len(queue[t]) <= Queue
      /\ queue \in [Ids -> Seq(1..Size)]
      /\ UNCHANGED <<task, cancel, client, have>>
  BY TypesOf DEF Pump
<1>2. n \in 0..Size /\ q \in Seq(1..Length(t)) /\ Len(q) <= Queue
  <2>1. n \in 1..Length(t) /\ q \in Seq(1..Length(t)) /\ Len(q) = Len(queue[t]) - 1
    BY <1>1, TailFacts
  <2>2. Len(queue[t]) \in Nat /\ Queue \in Nat
    BY <1>1, TransfersAssumption
  <2> QED BY <1>1, <2>1, <2>2, LengthFacts
<1>3. i \in Info /\ i.status = info[t].status /\ i.total = info[t].total
  BY <1>1, <1>2, InfoUpdate
<1>4. /\ info' = [info EXCEPT ![t] = i] /\ task' = [task EXCEPT ![t] = task[t]]
      /\ queue' = [queue EXCEPT ![t] = q] /\ unseen' \in {unseen, unseen \cup {t}}
  BY <1>1, Same DEF Pump, Patched
<1> HIDE DEF n, i, q
<1>5. task[t].pc \in {"fetch", "drain", "over"} /\ info[t].status # "done"
  BY <1>1 DEF Sound, NothingUnderWay
<1>6. (info'[t] = i /\ task'[t] = task[t] /\ queue'[t] = q) => Sound(t)'
  BY <1>1, <1>3, <1>5 DEF Sound, StatusFits, DeliveredIsStored, NothingUnderWay, TotalFits,
                          TriedInTurn
<1>7. /\ have \subseteq have' /\ have' \subseteq Whole
      /\ cancel' \in SUBSET Ids /\ unseen' \in SUBSET Ids
      /\ client' \in [Ids -> {"none", "waiting", "gone"} \cup Terminal]
  BY <1>1, <1>4, TypesOf
<1>8. task[t].got <= Length(t)
  BY <1>1, LengthFacts
<1> QED BY <1>1, <1>2, <1>3, <1>4, <1>6, <1>7, <1>8, OneTransfer

LEMMA StartSound ==
    ASSUME IInv, NEW t \in Ids, Start(t)
    PROVE  IInv'
<1>1. /\ task[t] \in Task /\ Sound(t) /\ task[t].got \in 0..Length(t) /\ task \in [Ids -> Task]
      /\ info[t].status = "none" /\ UNCHANGED <<cancel, queue, have>>
  BY TypesOf DEF Start
<1>2. PICK total \in {0, Length(t)} :
          info' = [info EXCEPT ![t] = [status |-> "queued", transferred |-> 0, total |-> total]]
  BY DEF Start
<1> DEFINE i == [status |-> "queued", transferred |-> 0, total |-> total]
           k == [task[t] EXCEPT !.pc = "spawned"]
<1>3. i \in Info /\ i.status = "queued" /\ i.total \in {0, Length(t)}
  BY LengthFacts DEF Info
<1>4. k \in Task /\ k.pc = "spawned" /\ k.todo = task[t].todo /\ k.got = task[t].got
  BY <1>1 DEF Task, Pc
<1>5. /\ info' = [info EXCEPT ![t] = i] /\ task' = [task EXCEPT ![t] = k]
      /\ queue' = [queue EXCEPT ![t] = queue[t]]
  BY <1>1, <1>2, Same DEF Start
<1> HIDE DEF i, k
<1>6. (info'[t] = i /\ task'[t] = k /\ queue'[t] = queue[t]) => Sound(t)'
  BY <1>1, <1>3, <1>4 DEF Sound, StatusFits, DeliveredIsStored, NothingUnderWay, TotalFits,
                          TriedInTurn
<1>7. /\ have \subseteq have' /\ have' \subseteq Whole
      /\ cancel' \in SUBSET Ids /\ unseen' \in SUBSET Ids
      /\ client' \in [Ids -> {"none", "waiting", "gone"} \cup Terminal]
      /\ queue[t] \in Seq(1..Length(t)) /\ Len(queue[t]) <= Queue
  BY <1>1, TypesOf DEF Start
<1>8. k.got <= Length(t)
  BY <1>1, <1>4, LengthFacts
<1> QED BY <1>3, <1>4, <1>5, <1>6, <1>7, <1>8, OneTransfer

LEMMA ActivateSound ==
    ASSUME IInv, NEW t \in Ids, Activate(t)
    PROVE  IInv'
<1>1. /\ task[t] \in Task /\ Sound(t) /\ task[t].got \in 0..Length(t) /\ task \in [Ids -> Task]
      /\ info[t] \in Info /\ task[t].pc = "spawned" /\ UNCHANGED <<cancel, queue, client, have>>
  BY TypesOf DEF Activate
<1> DEFINE i == [info[t] EXCEPT !.status = "active"]
           k == [task[t] EXCEPT !.pc = "check"]
<1>2. i \in Info /\ i.status = "active" /\ i.total = info[t].total
  BY <1>1 DEF Info
<1>3. k \in Task /\ k.pc = "check" /\ k.todo = task[t].todo /\ k.got = task[t].got
  BY <1>1 DEF Task, Pc
<1>4. /\ info' = [info EXCEPT ![t] = i] /\ task' = [task EXCEPT ![t] = k]
      /\ queue' = [queue EXCEPT ![t] = queue[t]] /\ unseen' \in {unseen, unseen \cup {t}}
  BY <1>1, Same DEF Activate, Patched
<1> HIDE DEF i, k
<1>5. (info'[t] = i /\ task'[t] = k /\ queue'[t] = queue[t]) => Sound(t)'
  BY <1>1, <1>2, <1>3 DEF Sound, StatusFits, DeliveredIsStored, NothingUnderWay, TotalFits,
                          TriedInTurn
<1>6. /\ have \subseteq have' /\ have' \subseteq Whole
      /\ cancel' \in SUBSET Ids /\ unseen' \in SUBSET Ids
      /\ client' \in [Ids -> {"none", "waiting", "gone"} \cup Terminal]
      /\ queue[t] \in Seq(1..Length(t)) /\ Len(queue[t]) <= Queue
  BY <1>1, <1>4, TypesOf
<1>7. k.got <= Length(t)
  BY <1>1, <1>3, LengthFacts
<1> QED BY <1>2, <1>3, <1>4, <1>5, <1>6, <1>7, OneTransfer

LEMMA ClientSound ==
    ASSUME IInv, NEW t \in Ids, Cancel(t) \/ Follow(t) \/ Leave(t)
    PROVE  IInv'
<1>1. UNCHANGED <<info, task, queue, have>>
  BY DEF Cancel, Follow, Leave
<1>2. \A u \in Ids : Sound(u)'
  BY <1>1 DEF IInv, Sound, StatusFits, DeliveredIsStored, NothingUnderWay, TotalFits,
              TriedInTurn
<1>3. /\ cancel' \in SUBSET Ids /\ unseen' \in SUBSET Ids
      /\ client' \in [Ids -> {"none", "waiting", "gone"} \cup Terminal]
  BY TypesOf DEF Cancel, Follow, Leave
<1> QED BY <1>1, <1>2, <1>3 DEF IInv, TypeInv, TypeOK

LEMMA SoundNext == IInv /\ [Next]_vars => IInv'
<1> SUFFICES ASSUME IInv, [Next]_vars
             PROVE  IInv'
  OBVIOUS
<1>1. CASE UNCHANGED vars
  BY <1>1 DEF vars, IInv, TypeInv, TypeOK, Sound, StatusFits, DeliveredIsStored,
              NothingUnderWay, TotalFits, TriedInTurn
<1> QED BY <1>1, CancelledSound, CheckLocalSound, ListSound, FetchSound, FetchOverSound,
           DrainedSound, ExportSound, PumpSound, StartSound, ActivateSound, ClientSound
        DEF Next, Run

-----------------------------------------------------------------------------
(* The theorems.                                                           *)

\* Every variable keeps its shape, and no progress number is beyond what the
\* source in turn has delivered at most.
THEOREM TypeCorrect == Spec => []TypeOK
<1>1. IInv => TypeOK
  BY DEF IInv, TypeInv
<1> QED BY <1>1, InitSound, SoundNext, PTL DEF Spec

\* run: what is exported and called done is in the store, verified, whoever
\* fetched it.
THEOREM WhatIsDoneWasFetched == Spec => []DoneWasFetched
<1>1. IInv => DoneWasFetched
  BY DEF IInv, Sound, DeliveredIsStored, DoneWasFetched
<1> QED BY <1>1, InitSound, SoundNext, PTL DEF Spec

\* transfer and its pump: what a client sees of a transfer that is done is all of
\* it, as no progress number is left to overwrite that.
THEOREM WhatIsDoneIsShown == Spec => []DoneShowsTotal
<1>1. IInv => DoneShowsTotal
  BY DEF IInv, Sound, TotalFits, DoneShowsTotal
<1> QED BY <1>1, InitSound, SoundNext, PTL DEF Spec

\* transfer, which tries one candidate after the other: with one among them that
\* delivers, only the output can make a transfer fail.
THEOREM SourcesAreTried == Spec => []WorkingSourceIsUsed
<1>1. IInv => WorkingSourceIsUsed
  BY DEF IInv, Sound, TriedInTurn, WorkingSourceIsUsed
<1> QED BY <1>1, InitSound, SoundNext, PTL DEF Spec

\* run, patch and the pump, which may outlive it: nothing changes the status of a
\* transfer that is over.
THEOREM OverIsOver == Spec => TerminalIsFinal
<1>1. ASSUME IInv, [Next]_vars
      PROVE  [\A t \in Ids : info[t].status \in Terminal => info'[t].status = info[t].status]_vars
  <2> SUFFICES ASSUME NEW t \in Ids, info[t].status \in Terminal, Next
               PROVE  info'[t].status = info[t].status
    BY <1>1
  <2>1. task[t].pc = "over" /\ info \in [Ids -> Info] /\ info[t].status # "none"
    BY <1>1, TypesOf DEF Sound, StatusFits, Terminal, Task, Pc
  <2>2. PICK u \in Ids : Start(u) \/ Cancel(u) \/ Run(u) \/ Pump(u) \/ Follow(u) \/ Leave(u)
    BY DEF Next
  <2>3. CASE u # t
    BY <2>1, <2>2, <2>3 DEF Start, Cancel, Run, Cancelled, Activate, CheckLocal, List, Fetch,
       FetchOver, Drained, Export, Pump, Follow, Leave, Patched, Fail
  <2>4. CASE u = t
    <3>1. ~Start(t) /\ ~Run(t)
      BY <2>1 DEF Start, Run, Cancelled, InTransfer, Activate, CheckLocal, List, Fetch,
         FetchOver, Drained, Export
    <3>2. CASE Pump(t)
      BY <2>1, <3>2 DEF Pump, Patched, Progressed, Info
    <3>3. CASE Cancel(t) \/ Follow(t) \/ Leave(t)
      BY <3>3 DEF Cancel, Follow, Leave
    <3> QED BY <2>2, <2>4, <3>1, <3>2, <3>3
  <2> QED BY <2>3, <2>4
<1> QED BY <1>1, InitSound, SoundNext, PTL DEF Spec, TerminalIsFinal
=============================================================================
