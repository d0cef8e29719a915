------------------------------ MODULE HubProofs ------------------------------
(***************************************************************************)
(* Proofs about Hub, for any members, numbers of epochs, messages and      *)
(* restarts: its types, that an answered way in lasts, that what waits is  *)
(* kept, and, with the embedded relay, that messages stay readable.        *)
(***************************************************************************)
EXTENDS Hub, TLAPS

USE DEF group, registry, tickets, dms, events, answers

-----------------------------------------------------------------------------
(* Types.                                                                  *)

LEMMA EpochFacts ==
    /\ MaxEpoch \in Nat /\ MaxEpoch > 0 /\ MaxSpent \in Nat /\ MaxRestarts \in Nat
    /\ 0 \in Epochs /\ 1 \in Epochs
    /\ \A e \in Epochs : e \in Nat /\ e <= MaxEpoch
    /\ \A e \in Epochs : e < MaxEpoch => e + 1 \in Epochs
    /\ \A e \in Epochs : e..MaxEpoch \subseteq Epochs
BY HubAssumption DEF Epochs

LEMMA OwnerIsNoMember ==
    Owner \notin Members /\ Owner \in Nodes /\ Members \subseteq Nodes
BY HubAssumption DEF Members, Nodes

LEMMA FlowFacts ==
    /\ Idle \in Flow
    /\ \A e \in Epochs : /\ [kind |-> "create", pc |-> "joined", epoch |-> e] \in Flow
                         /\ \A k \in {"join", "drain", "admit"} :
                               [kind |-> k, pc |-> "asked", epoch |-> 0] \in Flow
    /\ [kind |-> "queue", pc |-> "saving", epoch |-> 0] \in Flow
BY EpochFacts DEF Idle, Flow

\* What changes of a flow leaves it one.
LEMMA FlowUpdate ==
    ASSUME NEW f \in [Nodes -> Flow], NEW n \in Nodes
    PROVE  /\ \A pc \in {"idle", "asked", "merged", "answered", "joined", "inserted", "saved"} :
                 /\ [f EXCEPT ![n].pc = pc] \in [Nodes -> Flow]
                 /\ \A e \in Epochs :
                       [f EXCEPT ![n].pc = pc, ![n].epoch = e] \in [Nodes -> Flow]
           /\ [f EXCEPT ![n].kind = "orphan"] \in [Nodes -> Flow]
           /\ \A g \in Flow : [f EXCEPT ![n] = g] \in [Nodes -> Flow]
BY DEF Flow

\* ... and so each of the ways an action changes n's way in.
LEMMA FlowStep ==
    ASSUME TypeOK, NEW n \in Nodes,
           \/ flow' = flow
           \/ \E pc \in {"answered", "joined", "inserted", "saved"} : Goto(n, pc)
           \/ Done(n)
           \/ flow' = [flow EXCEPT ![n].kind = "orphan"]
           \/ \E k \in {"join", "drain", "admit"} :
                 flow' = [flow EXCEPT ![n] = [kind |-> k, pc |-> "asked", epoch |-> 0]]
           \/ flow' = [flow EXCEPT ![n] = [kind |-> "queue", pc |-> "saving", epoch |-> 0]]
    PROVE  flow' \in [Nodes -> Flow]
<1>1. flow \in [Nodes -> Flow]
  BY DEF TypeOK
<1>2. ASSUME NEW pc \in {"answered", "joined", "inserted", "saved"}, Goto(n, pc)
      PROVE  flow' \in [Nodes -> Flow]
  BY <1>1, <1>2, FlowUpdate DEF Goto
<1>3. ASSUME NEW g \in Flow, flow' = [flow EXCEPT ![n] = g]
      PROVE  flow' \in [Nodes -> Flow]
  BY <1>1, <1>3, FlowUpdate
<1>4. ASSUME flow' = [flow EXCEPT ![n].kind = "orphan"]
      PROVE  flow' \in [Nodes -> Flow]
  BY <1>1, <1>4, FlowUpdate
<1>5. Done(n) => flow' \in [Nodes -> Flow]
  BY <1>3, FlowFacts DEF Done
<1>6. ASSUME NEW k \in {"join", "drain", "admit"},
             flow' = [flow EXCEPT ![n] = [kind |-> k, pc |-> "asked", epoch |-> 0]]
      PROVE  flow' \in [Nodes -> Flow]
  <2>1. [kind |-> k, pc |-> "asked", epoch |-> 0] \in Flow
    BY FlowFacts, EpochFacts
  <2> QED BY <1>3, <1>6, <2>1
<1>7. ASSUME flow' = [flow EXCEPT ![n] = [kind |-> "queue", pc |-> "saving", epoch |-> 0]]
      PROVE  flow' \in [Nodes -> Flow]
  BY <1>3, <1>7, FlowFacts
<1> QED BY <1>1, <1>2, <1>4, <1>5, <1>6, <1>7

LEMMA MessageType ==
    ASSUME NEW n \in Nodes, NEW e \in Epochs
    PROVE  Message(n, e) \in ChatEvent /\ Message(n, e) \in Event
BY DEF Message, ChatEvent, Event

LEMMA CommitType ==
    ASSUME NEW e \in Epochs
    PROVE  Commit(e) \in Event
BY OwnerIsNoMember DEF Commit, Event

LEMMA InitType == Init => TypeOK
BY EpochFacts, FlowFacts, OwnerIsNoMember DEF Init, TypeOK

LEMMA AddMemberType ==
    ASSUME TypeOK, NEW m \in Members, AddMember(m)
    PROVE  TypeOK'
<1> DEFINE e == mls[Owner].epoch + 1
<1>1. mls[Owner].epoch \in Epochs /\ mls[Owner].epoch < MaxEpoch
  BY OwnerIsNoMember DEF TypeOK, AddMember
<1>2. e \in Epochs
  BY <1>1, EpochFacts
<1>3. mls' = [mls EXCEPT ![Owner].epoch = e]
      /\ flow' = [flow EXCEPT ![m].pc = "merged", ![m].epoch = e]
  BY DEF AddMember
<1> HIDE DEF e
<1>4. flow' \in [Nodes -> Flow]
  BY <1>2, <1>3, FlowUpdate, OwnerIsNoMember DEF TypeOK
<1>5. mls' \in [Nodes -> [epoch : Epochs, joined : Epochs]]
  BY <1>2, <1>3 DEF TypeOK
<1> QED BY <1>4, <1>5 DEF AddMember, TypeOK

LEMMA SendType ==
    ASSUME TypeOK, NEW n \in Nodes, Send(n)
    PROVE  TypeOK'
<1> DEFINE ev == Message(n, mls[n].epoch)
<1>1. ev \in ChatEvent /\ ev \in Event
  BY MessageType DEF TypeOK
<1>2. PICK stored \in BOOLEAN, posts \in BOOLEAN :
          /\ relay' = IF stored THEN relay \cup {ev} ELSE relay
          /\ ext' = IF posts THEN ext \cup {ev} ELSE ext
          /\ sent' = IF stored \/ posts THEN sent \cup {ev} ELSE sent
  BY DEF Send
<1>3. got' = [got EXCEPT ![n] = @ \cup {ev}]
  BY DEF Send
<1> HIDE DEF ev
<1>4. got' \in [Nodes -> SUBSET ChatEvent]
  BY <1>1, <1>3 DEF TypeOK
<1>5. relay' \in SUBSET Event /\ ext' \in SUBSET ChatEvent /\ sent' \in SUBSET ChatEvent
  BY <1>1, <1>2 DEF TypeOK
<1> QED BY <1>4, <1>5 DEF Send, TypeOK

LEMMA LogType ==
    ASSUME TypeOK, NEW n \in Nodes, Log(n)
    PROVE  TypeOK'
<1>1. PICK evs \in SUBSET {ev \in Fetchable(n) : IsNew(n, ev)}, e \in mls[n].epoch..MaxEpoch :
          /\ mls' = [mls EXCEPT ![n].epoch = e]
          /\ got' = [got EXCEPT ![n] = @ \cup
                {ev \in evs : ~ev.commit /\ mls[n].joined <= ev.epoch /\ ev.epoch <= e}]
  BY DEF Log
<1> DEFINE new == {ev \in evs : ~ev.commit /\ mls[n].joined <= ev.epoch /\ ev.epoch <= e}
<1>2. e \in Epochs
  BY EpochFacts DEF TypeOK
<1>3. Fetchable(n) \subseteq Event
  BY DEF Fetchable, TypeOK, Event, ChatEvent
<1>4. new \subseteq ChatEvent
  BY <1>3 DEF Event, ChatEvent
<1>5. got' = [got EXCEPT ![n] = @ \cup new]
  BY <1>1
<1> HIDE DEF new
<1>6. got' \in [Nodes -> SUBSET ChatEvent]
  BY <1>4, <1>5 DEF TypeOK
<1>7. mls' \in [Nodes -> [epoch : Epochs, joined : Epochs]]
  BY <1>1, <1>2 DEF TypeOK
<1> QED BY <1>6, <1>7 DEF Log, TypeOK

LEMMA RestartOwnerType ==
    ASSUME TypeOK, RestartOwner
    PROVE  TypeOK'
<1>1. \A m \in Members : Commit(flow[m].epoch) \in Event
  BY CommitType, OwnerIsNoMember DEF TypeOK, Flow
<1>2. Owed \subseteq Event
  BY <1>1 DEF Owed
<1>3. \A n \in Nodes : [flow[n] EXCEPT !.kind = "orphan"] \in Flow
  BY DEF TypeOK, Flow
<1>4. flow' \in [Nodes -> Flow]
  BY <1>3, FlowFacts DEF RestartOwner, TypeOK
<1>5. restarts' \in 0..MaxRestarts
  BY EpochFacts DEF RestartOwner, TypeOK
<1> QED BY <1>2, <1>4, <1>5 DEF RestartOwner, TypeOK

LEMMA RestartMemberType ==
    ASSUME TypeOK, NEW m \in Members, RestartMember(m)
    PROVE  TypeOK'
<1> DEFINE f == flow[m]
           next == CASE f.kind = "admit" /\ f.pc \in {"asked", "merged", "answered"} -> f
                     [] f.kind # "admit" /\ f.pc = "merged" -> [f EXCEPT !.kind = "orphan"]
                     [] OTHER -> Idle
<1>1. m \in Nodes /\ f \in Flow
  BY OwnerIsNoMember DEF TypeOK
<1>2. [f EXCEPT !.kind = "orphan"] \in Flow
  BY <1>1 DEF Flow
<1>3. next \in Flow
  <2> HIDE DEF f
  <2> QED BY <1>1, <1>2, FlowFacts
<1>4. flow' = [flow EXCEPT ![m] = next]
  BY <1>1 DEF RestartMember, TypeOK
<1> HIDE DEF next
<1>5. flow' \in [Nodes -> Flow]
  BY <1>1, <1>3, <1>4, FlowUpdate DEF TypeOK
<1>6. restarts' \in 0..MaxRestarts
  BY EpochFacts DEF RestartMember, TypeOK
<1>7. /\ chat' \in SUBSET Nodes /\ undrained' \in SUBSET Members /\ hubs' \in SUBSET Nodes
      /\ queue' \in SUBSET Members /\ qfile' \in SUBSET Members
      /\ torn' \in SUBSET Nodes /\ spoilt' \in SUBSET Members
  BY <1>1 DEF RestartMember, TypeOK
<1> QED BY <1>5, <1>6, <1>7 DEF RestartMember, TypeOK

LEMMA NextType == TypeOK /\ [Next]_vars => TypeOK'
<1> SUFFICES ASSUME TypeOK, [Next]_vars
             PROVE  TypeOK'
  OBVIOUS
<1>1. CASE Create
  BY <1>1, EpochFacts, FlowFacts, FlowUpdate, OwnerIsNoMember DEF Create, TypeOK
<1>2. CASE RestartOwner
  BY <1>2, RestartOwnerType
<1>3. ASSUME NEW m \in Members, Join(m) \/ Drain(m)
      PROVE  TypeOK'
  <2>1. m \in Nodes
    BY OwnerIsNoMember
  <2>2. flow' \in [Nodes -> Flow]
    BY <1>3, <2>1, FlowStep DEF Join, Drain
  <2> QED BY <1>3, <2>2 DEF Join, Drain, TypeOK
<1>15. ASSUME NEW m \in Members, JoinQueued(m) \/ SaveOther(m) \/ EndSave(m)
       PROVE  TypeOK'
  <2>1. m \in Nodes
    BY OwnerIsNoMember
  <2>2. flow' \in [Nodes -> Flow]
    BY <1>15, <2>1, FlowStep DEF JoinQueued, SaveOther, EndSave
  <2>3. CASE JoinQueued(m)
    BY <2>1, <2>2, <2>3 DEF JoinQueued, TypeOK
  <2>4. CASE SaveOther(m)
    BY <2>1, <2>2, <2>4 DEF SaveOther, TypeOK
  <2>5. CASE EndSave(m)
    <3>1. qfile' \in SUBSET Members /\ spoilt' \in SUBSET Members /\ queued' \in SUBSET Members
      BY <2>5 DEF EndSave, TypeOK
    <3> QED BY <2>2, <2>5, <3>1 DEF EndSave, TypeOK
  <2> QED BY <1>15, <2>3, <2>4, <2>5
<1>4. ASSUME NEW m \in Members, Request(m)
      PROVE  TypeOK'
  BY <1>4 DEF Request, TypeOK
<1>5. ASSUME NEW m \in Members, HandleDm(m) \/ Admit(m)
      PROVE  TypeOK'
  <2>1. m \in Nodes
    BY OwnerIsNoMember
  <2>2. flow' \in [Nodes -> Flow]
    BY <1>5, <2>1, FlowStep DEF HandleDm, Admit, StartAdmit
  <2> QED BY <1>5, <2>2 DEF HandleDm, Admit, StartAdmit, TypeOK
<1>6. ASSUME NEW m \in Members, AddMember(m)
      PROVE  TypeOK'
  BY <1>6, AddMemberType
<1>7. ASSUME NEW m \in Members, PublishCommit(m)
      PROVE  TypeOK'
  <2>1. m \in Nodes /\ Commit(flow[m].epoch) \in Event
    BY CommitType, OwnerIsNoMember DEF TypeOK, Flow
  <2>2. flow' \in [Nodes -> Flow]
    BY <1>7, <2>1, FlowStep DEF PublishCommit
  <2> QED BY <1>7, <2>1, <2>2 DEF PublishCommit, TypeOK
<1>8. ASSUME NEW m \in Members, JoinFromWelcome(m)
      PROVE  TypeOK'
  <2>1. flow[m].epoch \in Epochs
    BY OwnerIsNoMember DEF TypeOK, Flow
  <2> QED BY <1>8, <2>1, FlowUpdate, OwnerIsNoMember DEF JoinFromWelcome, Goto, TypeOK
<1>9. ASSUME NEW m \in Members, LoseCall(m)
      PROVE  TypeOK'
  <2>1. m \in Nodes
    BY OwnerIsNoMember
  <2>2. flow' \in [Nodes -> Flow]
    BY <1>9, <2>1, FlowStep DEF LoseCall
  <2> QED BY <1>9, <2>2 DEF LoseCall, TypeOK
<1>10. ASSUME NEW m \in Members, RestartMember(m)
       PROVE  TypeOK'
  BY <1>10, RestartMemberType
<1>11. ASSUME NEW n \in Nodes, InsertHub(n) \/ SaveHubs(n) \/ Answer(n)
       PROVE  TypeOK'
  <2>1. flow' \in [Nodes -> Flow]
    BY <1>11, FlowStep DEF InsertHub, SaveHubs, Answer
  <2> QED BY <1>11, <2>1 DEF InsertHub, SaveHubs, Answer, TypeOK
<1>12. ASSUME NEW n \in Nodes, Send(n)
       PROVE  TypeOK'
  BY <1>12, SendType
<1>13. ASSUME NEW n \in Nodes, Log(n)
       PROVE  TypeOK'
  BY <1>13, LogType
<1>14. CASE UNCHANGED vars
  BY <1>14 DEF vars, TypeOK
<1> QED BY <1>1, <1>2, <1>3, <1>4, <1>5, <1>6, <1>7, <1>8, <1>9, <1>10, <1>11, <1>12,
           <1>13, <1>14, <1>15 DEF Next

\* Every operation of chat.rs keeps the registry, the queues, the ways in and the
\* events what they should be.
THEOREM TypeCorrect == Spec => []TypeOK
BY InitType, NextType, PTL DEF Spec

-----------------------------------------------------------------------------
(* What is answered lasts, and what waits is kept.                         *)

\* How far a way in has got says what is on the disks by then.
WayIn(n) ==
    /\ flow[n].pc \in {"merged", "answered"} => n \in roster /\ flow[n].epoch > 0
    /\ flow[n].pc \in {"joined", "inserted", "saved"} =>
          n \in roster \cup {Owner} /\ mls[n].epoch > 0
    /\ flow[n].pc = "saved" => n \in file \cup unsaved

WaysIn == \A n \in Nodes : WayIn(n)

\* A ticket in the queue is in its file too, or is being written there, or a write
\* of the file went wrong; one that is being queued is in neither for certain.
TicketsAreSaved ==
    /\ queue \subseteq qfile \cup torn \cup spoilt
    /\ \A m \in Nodes : At(m, "saving") => m \in queue \cap torn

DInv == TypeOK /\ WaysIn /\ TicketsAreSaved /\ AckedJoinIsDurable /\ WaitingIsKept

LEMMA InitDurable == Init => DInv
<1> SUFFICES ASSUME Init
             PROVE  WaysIn /\ TicketsAreSaved /\ AckedJoinIsDurable /\ WaitingIsKept
  BY InitType DEF DInv
<1>1. \A n \in Nodes : flow[n].pc = "idle"
  BY DEF Init, Idle
<1> QED BY <1>1 DEF Init, WaysIn, WayIn, TicketsAreSaved, At, AckedJoinIsDurable, WaitingIsKept

\* A log takes no node back.
LEMMA LogGoesOn ==
    ASSUME TypeOK, NEW n \in Nodes, Log(n)
    PROVE  \E e \in Epochs : e >= mls[n].epoch /\ mls' = [mls EXCEPT ![n].epoch = e]
<1>1. PICK e \in mls[n].epoch..MaxEpoch : mls' = [mls EXCEPT ![n].epoch = e]
  BY DEF Log
<1>2. mls[n].epoch \in Epochs
  BY DEF TypeOK
<1>3. e \in Epochs /\ e >= mls[n].epoch
  BY <1>2, EpochFacts
<1> QED BY <1>1, <1>3

\* Who is in the group, by either state, and who has it on disk stays so.
LEMMA DisksGrow ==
    ASSUME DInv, [Next]_vars
    PROVE  /\ roster \subseteq roster' /\ file \cup unsaved \subseteq (file \cup unsaved)'
           /\ \A n \in Nodes : mls[n].epoch > 0 => mls'[n].epoch > 0
<1> DEFINE Up == \A n \in Nodes : mls[n].epoch > 0 => mls'[n].epoch > 0
<1> USE DEF DInv
<1>1. roster \subseteq roster' /\ file \cup unsaved \subseteq (file \cup unsaved)'
  BY DEF Next, vars, Create, RestartOwner, Join, JoinQueued, SaveOther, EndSave, Drain,
         Request, HandleDm, Admit, AddMember, PublishCommit, JoinFromWelcome, LoseCall,
         RestartMember, InsertHub, SaveHubs, Answer, Send, Log
<1>2. CASE Create
  BY <1>2, OwnerIsNoMember DEF Create, TypeOK
<1>3. ASSUME NEW m \in Members, AddMember(m)
      PROVE  Up
  <2>1. mls[Owner].epoch \in Nat
    BY OwnerIsNoMember, EpochFacts DEF TypeOK
  <2>2. mls' = [mls EXCEPT ![Owner].epoch = mls[Owner].epoch + 1]
    BY <1>3 DEF AddMember
  <2> QED BY <2>1, <2>2 DEF TypeOK
<1>4. ASSUME NEW m \in Members, JoinFromWelcome(m)
      PROVE  Up
  <2>1. flow[m].epoch > 0
    BY <1>4, OwnerIsNoMember DEF JoinFromWelcome, At, WaysIn, WayIn
  <2> QED BY <1>4, <2>1 DEF JoinFromWelcome, TypeOK
<1>5. ASSUME NEW n \in Nodes, Log(n)
      PROVE  Up
  <2>1. PICK e \in Epochs : e >= mls[n].epoch /\ mls' = [mls EXCEPT ![n].epoch = e]
    BY <1>5, LogGoesOn
  <2>2. mls[n].epoch \in Nat /\ e \in Nat
    BY EpochFacts DEF TypeOK
  <2> QED BY <2>1, <2>2 DEF TypeOK
<1>6. mls' = mls \/ Create \/ (\E m \in Members : AddMember(m) \/ JoinFromWelcome(m))
      \/ \E n \in Nodes : Log(n)
  BY DEF Next, vars, RestartOwner, Join, JoinQueued, SaveOther, EndSave, Drain, Request,
         HandleDm, Admit, PublishCommit, LoseCall, RestartMember, InsertHub, SaveHubs, Answer,
         Send
<1> QED BY <1>1, <1>2, <1>3, <1>4, <1>5, <1>6

\* A way in that does not move, or is given up, stays as it should be.
LEMMA WayInStays ==
    ASSUME DInv, [Next]_vars, NEW n \in Nodes,
           flow'[n].pc \in {"idle", "asked", "saving"}
              \/ (flow'[n].pc = flow[n].pc /\ flow'[n].epoch = flow[n].epoch)
    PROVE  WayIn(n)'
BY DisksGrow DEF DInv, WaysIn, WayIn

LEMMA OthersStay ==
    ASSUME DInv, [Next]_vars, NEW m \in Nodes, WayIn(m)',
           \A n \in Nodes \ {m} : flow'[n] = flow[n]
    PROVE  WaysIn'
BY WayInStays DEF WaysIn

LEMMA WaysInNext ==
    ASSUME DInv, [Next]_vars
    PROVE  WaysIn'
<1> USE DEF DInv
<1>1. CASE Create
  <2>1. /\ flow' = [flow EXCEPT ![Owner] = [kind |-> "create", pc |-> "joined", epoch |-> 1]]
        /\ mls' = [mls EXCEPT ![Owner] = [epoch |-> 1, joined |-> 1]]
    BY <1>1 DEF Create
  <2>2. WayIn(Owner)'
    BY <2>1, OwnerIsNoMember DEF WayIn, TypeOK
  <2> QED BY <2>1, <2>2, OwnerIsNoMember, OthersStay DEF TypeOK
<1>2. CASE RestartOwner
  <2>1. ASSUME NEW n \in Nodes
        PROVE  WayIn(n)'
    <3>1. flow'[n] \in {Idle, flow[n], [flow[n] EXCEPT !.kind = "orphan"]}
      BY <1>2 DEF RestartOwner
    <3>2. flow[n] \in Flow
      BY DEF TypeOK
    <3> QED BY <3>1, <3>2, WayInStays DEF Idle, Flow
  <2> QED BY <2>1 DEF WaysIn
<1>13. ASSUME NEW m \in Members, JoinQueued(m) \/ EndSave(m)
       PROVE  WaysIn'
  <2>1. \/ flow' = flow \/ flow' = [flow EXCEPT ![m] = Idle]
        \/ flow' = [flow EXCEPT ![m] = [kind |-> "queue", pc |-> "saving", epoch |-> 0]]
    BY <1>13 DEF JoinQueued, EndSave, Done
  <2>2. m \in Nodes /\ flow \in [Nodes -> Flow]
    BY OwnerIsNoMember DEF TypeOK
  <2>3. \A n \in Nodes : flow'[n] = flow[n] \/ flow'[n].pc \in {"idle", "saving"}
    BY <2>1, <2>2 DEF Idle
  <2> QED BY <2>3, WayInStays DEF WaysIn
<1>3. ASSUME NEW m \in Members, Join(m) \/ Drain(m) \/ HandleDm(m) \/ Admit(m)
      PROVE  WaysIn'
  <2>1. flow' = flow \/ \E k \in {"join", "drain", "admit"} :
            flow' = [flow EXCEPT ![m] = [kind |-> k, pc |-> "asked", epoch |-> 0]]
    BY <1>3 DEF Join, Drain, HandleDm, Admit, StartAdmit
  <2>2. m \in Nodes /\ flow \in [Nodes -> Flow]
    BY OwnerIsNoMember DEF TypeOK
  <2>3. \A n \in Nodes : flow'[n] = flow[n] \/ flow'[n].pc = "asked"
    BY <2>1, <2>2
  <2> QED BY <2>3, WayInStays DEF WaysIn
<1>4. ASSUME NEW m \in Members, AddMember(m)
      PROVE  WaysIn'
  <2> DEFINE e == mls[Owner].epoch + 1
  <2>1. flow' = [flow EXCEPT ![m].pc = "merged", ![m].epoch = e] /\ m \in roster'
    BY <1>4 DEF AddMember
  <2>2. m \in Nodes /\ flow \in [Nodes -> Flow] /\ e > 0
    BY OwnerIsNoMember, EpochFacts DEF TypeOK
  <2> HIDE DEF e
  <2>3. flow'[m].pc = "merged" /\ flow'[m].epoch = e
    BY <2>1, <2>2 DEF Flow
  <2>4. WayIn(m)'
    BY <2>1, <2>2, <2>3 DEF WayIn
  <2> QED BY <2>1, <2>2, <2>4, OthersStay
<1>5. ASSUME NEW m \in Members, PublishCommit(m)
      PROVE  WaysIn'
  <2>1. m \in Nodes /\ flow \in [Nodes -> Flow] /\ flow[m].pc = "merged"
    BY <1>5, OwnerIsNoMember DEF TypeOK, PublishCommit, At
  <2>2. flow' = [flow EXCEPT ![m] = Idle] \/ flow' = [flow EXCEPT ![m].pc = "answered"]
    BY <1>5 DEF PublishCommit, Done, Goto
  <2>3. flow'[m].pc = "idle" \/ (flow'[m].pc = "answered" /\ flow'[m].epoch = flow[m].epoch)
    BY <2>1, <2>2 DEF Idle, Flow
  <2>4. WayIn(m)'
    BY <2>1, <2>3, DisksGrow DEF WayIn, WaysIn
  <2> QED BY <2>1, <2>2, <2>4, OthersStay
<1>6. ASSUME NEW m \in Members, JoinFromWelcome(m)
      PROVE  WaysIn'
  <2>1. /\ m \in Nodes /\ flow \in [Nodes -> Flow] /\ flow[m].pc = "answered"
        /\ flow' = [flow EXCEPT ![m].pc = "joined"]
        /\ mls' = [mls EXCEPT ![m] = [epoch |-> flow[m].epoch, joined |-> flow[m].epoch]]
    BY <1>6, OwnerIsNoMember DEF TypeOK, JoinFromWelcome, At, Goto
  <2>2. flow'[m].pc = "joined"
    BY <2>1 DEF Flow
  <2>3. mls'[m].epoch = flow[m].epoch
    BY <2>1 DEF TypeOK
  <2>4. flow[m].epoch > 0 /\ m \in roster'
    BY <2>1, DisksGrow DEF WaysIn, WayIn
  <2>5. WayIn(m)'
    BY <2>2, <2>3, <2>4 DEF WayIn
  <2> QED BY <2>1, <2>5, OthersStay
<1>7. ASSUME NEW m \in Members, LoseCall(m)
      PROVE  WaysIn'
  <2>1. m \in Nodes /\ flow \in [Nodes -> Flow]
    BY OwnerIsNoMember DEF TypeOK
  <2>2. flow' = [flow EXCEPT ![m] = Idle] \/ flow' = [flow EXCEPT ![m].kind = "orphan"]
    BY <1>7 DEF LoseCall, Done
  <2>3. flow'[m].pc = "idle" \/ (flow'[m].pc = flow[m].pc /\ flow'[m].epoch = flow[m].epoch)
    BY <2>1, <2>2 DEF Idle, Flow
  <2>4. WayIn(m)'
    BY <2>1, <2>3, WayInStays
  <2> QED BY <2>1, <2>2, <2>4, OthersStay
<1>8. ASSUME NEW m \in Members, RestartMember(m)
      PROVE  WaysIn'
  <2>1. m \in Nodes /\ flow \in [Nodes -> Flow] /\ flow[m] \in Flow
    BY OwnerIsNoMember DEF TypeOK
  <2>2. \E g \in {Idle, flow[m], [flow[m] EXCEPT !.kind = "orphan"]} :
           flow' = [flow EXCEPT ![m] = g]
    BY <1>8, <2>1 DEF RestartMember
  <2>3. flow'[m].pc = "idle" \/ (flow'[m].pc = flow[m].pc /\ flow'[m].epoch = flow[m].epoch)
    BY <2>1, <2>2 DEF Idle, Flow
  <2>4. WayIn(m)'
    BY <2>1, <2>3, WayInStays
  <2> QED BY <2>1, <2>2, <2>4, OthersStay
<1>9. ASSUME NEW n \in Nodes, InsertHub(n) \/ SaveHubs(n)
      PROVE  WaysIn'
  <2>1. flow \in [Nodes -> Flow]
    BY DEF TypeOK
  <2>2. \/ flow[n].pc = "joined" /\ flow' = [flow EXCEPT ![n].pc = "inserted"]
        \/ /\ flow[n].pc = "inserted" /\ flow' = [flow EXCEPT ![n].pc = "saved"]
           /\ n \in (file \cup unsaved)'
    BY <1>9 DEF InsertHub, SaveHubs, At, Goto
  <2>3. \/ flow[n].pc = "joined" /\ flow'[n].pc = "inserted"
        \/ flow[n].pc = "inserted" /\ flow'[n].pc = "saved" /\ n \in (file \cup unsaved)'
    BY <2>1, <2>2 DEF Flow
  <2>4. WayIn(n)'
    BY <2>3, DisksGrow DEF WaysIn, WayIn
  <2> QED BY <2>1, <2>2, <2>4, OthersStay
<1>10. ASSUME NEW n \in Nodes, Answer(n)
       PROVE  WaysIn'
  <2>1. flow \in [Nodes -> Flow] /\ flow' = [flow EXCEPT ![n] = Idle]
    BY <1>10 DEF TypeOK, Answer, Done
  <2>2. WayIn(n)'
    BY <2>1, WayInStays DEF Idle
  <2> QED BY <2>1, <2>2, OthersStay
<1>11. CASE flow' = flow
  BY <1>11, WayInStays DEF WaysIn
<1>12. \/ flow' = flow \/ Create \/ RestartOwner
       \/ \E m \in Members :
             \/ Join(m) \/ JoinQueued(m) \/ EndSave(m)
             \/ Drain(m) \/ HandleDm(m) \/ Admit(m) \/ AddMember(m)
             \/ PublishCommit(m) \/ JoinFromWelcome(m) \/ LoseCall(m) \/ RestartMember(m)
       \/ \E n \in Nodes : InsertHub(n) \/ SaveHubs(n) \/ Answer(n)
  BY DEF Next, vars, SaveOther, Request, Send, Log
<1> QED BY <1>1, <1>2, <1>3, <1>4, <1>5, <1>6, <1>7, <1>8, <1>9, <1>10, <1>11, <1>12, <1>13

LEMMA TicketsNext ==
    ASSUME DInv, [Next]_vars
    PROVE  TicketsAreSaved'
<1> USE DEF DInv
<1>1. flow \in [Nodes -> Flow] /\ Members \subseteq Nodes /\ Owner \in Nodes
      /\ queue \subseteq Members
  BY OwnerIsNoMember DEF TypeOK
<1>2. queue \subseteq qfile \cup torn \cup spoilt
      /\ \A n \in Nodes : At(n, "saving") => n \in queue \cap torn
  BY DEF TicketsAreSaved
<1>3. ASSUME NEW m \in Members, JoinQueued(m)
      PROVE  TicketsAreSaved'
  <2>1. \A n \in Nodes : n # m => flow'[n] = flow[n]
    BY <1>1, <1>3 DEF JoinQueued
  <2>2. m \in queue' \cap torn' \/ (flow' = flow /\ UNCHANGED <<queue, torn>>)
    BY <1>3 DEF JoinQueued
  <2>3. queue \subseteq queue' /\ torn \subseteq torn' /\ queue' \subseteq queue \cup torn'
        /\ qfile' = qfile /\ spoilt' = spoilt
    BY <1>3 DEF JoinQueued
  <2> QED BY <1>2, <2>1, <2>2, <2>3 DEF TicketsAreSaved, At
<1>4. ASSUME NEW m \in Members, SaveOther(m)
      PROVE  TicketsAreSaved'
  BY <1>2, <1>4 DEF SaveOther, TicketsAreSaved, At
<1>5. ASSUME NEW m \in Members, EndSave(m)
      PROVE  TicketsAreSaved'
  <2>1. queue' = queue /\ torn' = torn \ {m}
    BY <1>5 DEF EndSave
  <2>2. queue' \subseteq qfile' \cup torn' \cup spoilt'
    BY <1>2, <1>5 DEF EndSave
  <2>3. flow' = [flow EXCEPT ![m] = Idle] \/ (flow' = flow /\ ~At(m, "saving"))
    BY <1>5 DEF EndSave, Done
  <2>4. \A n \in Nodes : flow'[n].pc = "saving" => flow[n].pc = "saving" /\ n # m
    BY <1>1, <2>3 DEF At, Idle
  <2> QED BY <1>2, <2>1, <2>2, <2>4 DEF TicketsAreSaved, At
<1>6. ASSUME NEW m \in Members, RestartMember(m)
      PROVE  TicketsAreSaved'
  <2>1. /\ queue' = (queue \ {m}) \cup (qfile' \cap {m}) /\ torn' = torn \ {m}
        /\ \A n \in Nodes \ {m} : /\ n \in qfile => n \in qfile'
                                  /\ n \in spoilt => n \in spoilt'
    BY <1>6 DEF RestartMember
  <2>2. queue' \subseteq qfile' \cup torn' \cup spoilt'
    BY <1>1, <1>2, <2>1
  <2>3. \E g \in {Idle, flow[m], [flow[m] EXCEPT !.kind = "orphan"]} :
           /\ flow' = [flow EXCEPT ![m] = g]
           /\ g = Idle \/ flow[m].pc \in {"asked", "merged", "answered"}
    BY <1>1, <1>6 DEF RestartMember
  <2>4. flow[m] \in Flow
    BY <1>1
  <2>5. \A n \in Nodes : flow'[n].pc = "saving" => flow[n].pc = "saving" /\ n # m
    BY <1>1, <2>3, <2>4 DEF Idle, Flow
  <2> QED BY <1>2, <2>1, <2>2, <2>5 DEF TicketsAreSaved, At
<1>7. ASSUME NEW n \in Nodes, Answer(n)
      PROVE  TicketsAreSaved'
  <2>1. /\ queue' \subseteq queue /\ torn \subseteq torn' /\ qfile' = qfile /\ spoilt' = spoilt
        /\ \A k \in Nodes : k # n /\ k \in queue => k \in queue'
    BY <1>7 DEF Answer
  <2>2. flow' = [flow EXCEPT ![n] = Idle]
    BY <1>7 DEF Answer, Done
  <2>3. \A k \in Nodes : flow'[k].pc = "saving" => flow[k].pc = "saving" /\ k # n
    BY <1>1, <2>2 DEF Idle
  <2> QED BY <1>2, <2>1, <2>3 DEF TicketsAreSaved, At
<1>8. ASSUME UNCHANGED tickets, \A n \in Nodes : flow'[n].pc = "saving" => flow[n].pc = "saving"
      PROVE  TicketsAreSaved'
  BY <1>2, <1>8 DEF TicketsAreSaved, At
<1>9. CASE UNCHANGED vars
  BY <1>8, <1>9 DEF vars
<1>10. CASE Create
  BY <1>1, <1>8, <1>10 DEF Create
<1>11. CASE RestartOwner
  BY <1>1, <1>8, <1>11 DEF RestartOwner, Idle, Flow
<1>12. ASSUME NEW m \in Members, Join(m) \/ Drain(m) \/ Request(m) \/ HandleDm(m) \/ Admit(m)
       PROVE  TicketsAreSaved'
  <2>1. flow' = flow \/ \E k \in {"join", "drain", "admit"} :
            flow' = [flow EXCEPT ![m] = [kind |-> k, pc |-> "asked", epoch |-> 0]]
    BY <1>12 DEF Join, Drain, Request, HandleDm, Admit, StartAdmit
  <2>2. UNCHANGED tickets
    BY <1>12 DEF Join, Drain, Request, HandleDm, Admit
  <2> QED BY <1>1, <1>8, <2>1, <2>2
<1>13. ASSUME NEW m \in Members,
              AddMember(m) \/ PublishCommit(m) \/ JoinFromWelcome(m) \/ LoseCall(m)
       PROVE  TicketsAreSaved'
  <2>1. UNCHANGED tickets
    BY <1>13 DEF AddMember, PublishCommit, JoinFromWelcome, LoseCall
  <2>2. CASE AddMember(m)
    <3> DEFINE e == mls[Owner].epoch + 1
    <3>1. flow' = [flow EXCEPT ![m].pc = "merged", ![m].epoch = e]
      BY <2>2 DEF AddMember
    <3> HIDE DEF e
    <3> QED BY <1>1, <1>8, <2>1, <3>1 DEF Flow
  <2>3. CASE PublishCommit(m) \/ JoinFromWelcome(m) \/ LoseCall(m)
    <3>1. \/ flow' = [flow EXCEPT ![m] = Idle] \/ flow' = [flow EXCEPT ![m].kind = "orphan"]
          \/ \E pc \in {"answered", "joined"} : flow' = [flow EXCEPT ![m].pc = pc]
      BY <2>3 DEF PublishCommit, JoinFromWelcome, LoseCall, Done, Goto
    <3> QED BY <1>1, <1>8, <2>1, <3>1 DEF Idle, Flow
  <2> QED BY <1>13, <2>2, <2>3
<1>14. ASSUME NEW n \in Nodes, InsertHub(n) \/ SaveHubs(n)
       PROVE  TicketsAreSaved'
  <2>1. UNCHANGED tickets
        /\ \E pc \in {"inserted", "saved"} : flow' = [flow EXCEPT ![n].pc = pc]
    BY <1>14 DEF InsertHub, SaveHubs, Goto
  <2> QED BY <1>1, <1>8, <2>1 DEF Flow
<1>15. ASSUME NEW n \in Nodes, Send(n) \/ Log(n)
       PROVE  TicketsAreSaved'
  BY <1>8, <1>15 DEF Send, Log
<1> QED BY <1>3, <1>4, <1>5, <1>6, <1>7, <1>9, <1>10, <1>11, <1>12, <1>13, <1>14, <1>15
        DEF Next

LEMMA AckedNext ==
    ASSUME DInv, [Next]_vars
    PROVE  AckedJoinIsDurable'
<1>1. \A n \in acked' : n \in acked \/ (n \in Nodes /\ flow[n].pc = "saved")
  BY DEF Next, vars, Create, RestartOwner, Join, JoinQueued, SaveOther, EndSave, Drain,
         Request, HandleDm, Admit, AddMember, PublishCommit, JoinFromWelcome, LoseCall,
         RestartMember, InsertHub, SaveHubs, Answer, Send, Log, At
<1>2. \A n \in acked' : /\ n \in Nodes /\ n \in roster \cup {Owner}
                        /\ mls[n].epoch > 0 /\ n \in file \cup unsaved
  BY <1>1 DEF DInv, TypeOK, AckedJoinIsDurable, WaysIn, WayIn
<1> QED BY <1>2, DisksGrow DEF AckedJoinIsDurable

LEMMA WaitingNext ==
    ASSUME DInv, [Next]_vars
    PROVE  WaitingIsKept'
<1> USE DEF DInv
<1> DEFINE Kept(m) == m \in file \cup unsaved \/ m \in queue \cap (qfile \cup torn)
<1>1. /\ \A m \in queued \ spoilt : Kept(m)
      /\ queue \subseteq qfile \cup torn \cup spoilt
      /\ \A n \in Nodes : At(n, "saving") => n \in queue \cap torn
      /\ \A n \in Nodes : flow[n].pc = "saved" => n \in file \cup unsaved
  BY DEF WaitingIsKept, TicketsAreSaved, WaysIn, WayIn
<1>2. file \cup unsaved \subseteq file' \cup unsaved' /\ Members \subseteq Nodes
  BY DisksGrow, OwnerIsNoMember
<1>3. ASSUME NEW m \in Members, JoinQueued(m)
      PROVE  WaitingIsKept'
  BY <1>1, <1>2, <1>3 DEF JoinQueued, WaitingIsKept
<1>4. ASSUME NEW m \in Members, SaveOther(m)
      PROVE  WaitingIsKept'
  BY <1>1, <1>2, <1>4 DEF SaveOther, WaitingIsKept
<1>5. ASSUME NEW m \in Members, EndSave(m)
      PROVE  WaitingIsKept'
  <2>1. \A n \in queued' : n \in queued \/ (n = m /\ m \in queue)
    BY <1>1, <1>2, <1>5 DEF EndSave
  <2>2. queue' = queue /\ file' = file /\ unsaved' = unsaved /\ torn' = torn \ {m}
        /\ \A n \in Nodes \ {m} : /\ n \in qfile => n \in qfile'
                                  /\ n \in spoilt => n \in spoilt'
    BY <1>5 DEF EndSave
  <2>3. m \in spoilt' \/ (spoilt' = spoilt \ (queue \cap {m}) /\ (m \in queue => m \in qfile'))
    BY <1>5 DEF EndSave
  <2>4. queued' \subseteq Nodes
    <3>1. TypeOK'
      BY NextType
    <3> QED BY <1>2, <3>1 DEF TypeOK
  <2> QED BY <1>1, <2>1, <2>2, <2>3, <2>4 DEF WaitingIsKept
<1>6. ASSUME NEW m \in Members, RestartMember(m)
      PROVE  WaitingIsKept'
  BY <1>1, <1>2, <1>6 DEF RestartMember, WaitingIsKept
<1>7. ASSUME NEW n \in Nodes, Answer(n)
      PROVE  WaitingIsKept'
  BY <1>1, <1>2, <1>7 DEF Answer, At, WaitingIsKept
<1>8. CASE UNCHANGED <<tickets, queued>>
  BY <1>1, <1>2, <1>8 DEF WaitingIsKept
<1>9. CASE Create \/ RestartOwner \/ UNCHANGED vars
  BY <1>8, <1>9 DEF Create, RestartOwner, vars
<1>10. ASSUME NEW m \in Members,
              \/ Join(m) \/ Drain(m) \/ Request(m) \/ HandleDm(m) \/ Admit(m)
              \/ AddMember(m) \/ PublishCommit(m) \/ JoinFromWelcome(m) \/ LoseCall(m)
       PROVE  UNCHANGED <<tickets, queued>>
  BY <1>10 DEF Join, Drain, Request, HandleDm, Admit, AddMember, PublishCommit,
               JoinFromWelcome, LoseCall
<1>11. ASSUME NEW n \in Nodes, InsertHub(n) \/ SaveHubs(n) \/ Send(n) \/ Log(n)
       PROVE  UNCHANGED <<tickets, queued>>
  BY <1>11 DEF InsertHub, SaveHubs, Send, Log
<1> QED BY <1>3, <1>4, <1>5, <1>6, <1>7, <1>8, <1>9, <1>10, <1>11 DEF Next

LEMMA DurableNext == DInv /\ [Next]_vars => DInv'
BY NextType, WaysInNext, TicketsNext, AckedNext, WaitingNext DEF DInv

\* create, complete_hub_join and handle_welcome: whichever calls are lost and
\* whoever restarts, who was told Ok is a member by both group states, and has the
\* hub in hubs.json unless the write of it failed, which the code only logs.
THEOREM AnsweredJoinLasts == Spec => []AckedJoinIsDurable
<1>1. DInv => AckedJoinIsDurable
  BY DEF DInv
<1> QED BY <1>1, InitDurable, DurableNext, PTL DEF Spec

\* join with chat off: whichever calls fail and whoever restarts, a ticket answered
\* "queued" is in the queue and in its file until the hub is in hubs.json, unless a
\* write of either file failed or a restart cut the queue's short.
THEOREM NothingWaitingIsLost == Spec => []WaitingIsKept
<1>1. DInv => WaitingIsKept
  BY DEF DInv
<1> QED BY <1>1, InitDurable, DurableNext, PTL DEF Spec

-----------------------------------------------------------------------------
(* Messages stay readable.                                                 *)

\* Nobody is ahead of the owner, nor is a commit anybody could follow.
Behind ==
    /\ \A n \in Nodes : /\ mls[n].epoch <= mls[Owner].epoch
                        /\ flow[n].epoch <= mls[Owner].epoch
                        /\ mls[n].joined > 0 => mls[n].epoch > 0
    /\ \A ev \in relay : ev.commit => ev.epoch <= mls[Owner].epoch

\* Every commit was published, or is owed, or a restart took it.
CommitsAreOut ==
    \A e \in 2..mls[Owner].epoch : Commit(e) \in relay \cup Owed \cup forgotten

SentIsOut ==
    \A ev \in sent : /\ ev \in relay \cup ext \cup forgotten
                     /\ ev.epoch <= mls[Owner].epoch

RInv == TypeOK /\ Behind /\ CommitsAreOut /\ SentIsOut

LEMMA InitReadable == Init => RInv
<1> SUFFICES ASSUME Init
             PROVE  Behind /\ CommitsAreOut /\ SentIsOut
  BY InitType DEF RInv
<1>1. Behind /\ SentIsOut
  BY OwnerIsNoMember DEF Init, Behind, SentIsOut, Idle
<1>2. mls[Owner].epoch = 0
  BY OwnerIsNoMember DEF Init
<1> QED BY <1>1, <1>2 DEF CommitsAreOut

\* A log ends at most where the owner is.
LEMMA LogIsBehind ==
    ASSUME TypeOK, Behind, NEW n \in Nodes, Log(n)
    PROVE  \E e \in Epochs : /\ mls[n].epoch <= e /\ e <= mls[Owner].epoch
                            /\ mls' = [mls EXCEPT ![n].epoch = e]
<1>1. PICK evs \in SUBSET {ev \in Fetchable(n) : IsNew(n, ev)}, e \in mls[n].epoch..MaxEpoch :
          /\ Follows(mls[n].epoch, e, evs)
          /\ mls' = [mls EXCEPT ![n].epoch = e]
  BY DEF Log
<1>2. /\ mls[n].epoch \in Nat /\ mls[Owner].epoch \in Nat /\ MaxEpoch \in Nat
      /\ mls[n].epoch <= mls[Owner].epoch /\ mls[n].epoch \in Epochs
  BY OwnerIsNoMember, EpochFacts DEF TypeOK, Behind
<1>3. e \in Epochs /\ e \in Nat /\ mls[n].epoch <= e
  BY <1>2, EpochFacts
<1>4. e <= mls[Owner].epoch
  <2> DEFINE k == mls[Owner].epoch + 1
  <2> SUFFICES ASSUME e > mls[Owner].epoch
               PROVE  FALSE
    BY <1>2, <1>3
  <2>1. k \in mls[n].epoch + 1..e
    BY <1>2, <1>3
  <2>2. Commit(k) \in evs
    BY <1>1, <2>1 DEF Follows
  <2>3. Commit(k) \in relay \/ Commit(k) \in ext
    BY <2>2 DEF Fetchable
  <2>4. Commit(k).commit = TRUE /\ Commit(k).epoch = k
    BY DEF Commit
  <2>5. Commit(k) \notin ext
    BY <2>4 DEF TypeOK, ChatEvent
  <2>6. k <= mls[Owner].epoch
    BY <2>3, <2>4, <2>5 DEF Behind
  <2> QED BY <1>2, <2>6
<1> QED BY <1>1, <1>3, <1>4

LEMMA OwnerGoesOn ==
    ASSUME TypeOK, Behind, [Next]_vars
    PROVE  mls[Owner].epoch <= mls'[Owner].epoch
<1>1. Owner \in Nodes /\ mls[Owner].epoch \in Nat
  BY OwnerIsNoMember, EpochFacts DEF TypeOK
<1>2. CASE Create
  BY <1>1, <1>2 DEF Create, TypeOK
<1>3. ASSUME NEW m \in Members, AddMember(m)
      PROVE  mls[Owner].epoch <= mls'[Owner].epoch
  <2>1. mls' = [mls EXCEPT ![Owner].epoch = mls[Owner].epoch + 1]
    BY <1>3 DEF AddMember
  <2> QED BY <1>1, <2>1 DEF TypeOK
<1>4. ASSUME NEW m \in Members, JoinFromWelcome(m)
      PROVE  mls[Owner].epoch <= mls'[Owner].epoch
  <2>1. mls'[Owner] = mls[Owner]
    BY <1>4, OwnerIsNoMember DEF JoinFromWelcome, TypeOK
  <2> QED BY <1>1, <2>1
<1>5. ASSUME NEW n \in Nodes, Log(n)
      PROVE  mls[Owner].epoch <= mls'[Owner].epoch
  <2>1. PICK e \in Epochs : mls[n].epoch <= e /\ mls' = [mls EXCEPT ![n].epoch = e]
    BY <1>5, LogIsBehind
  <2> QED BY <1>1, <2>1, EpochFacts DEF TypeOK
<1>6. CASE mls' = mls
  BY <1>1, <1>6
<1>7. mls' = mls \/ Create \/ (\E m \in Members : AddMember(m) \/ JoinFromWelcome(m))
      \/ \E n \in Nodes : Log(n)
  BY DEF Next, vars, RestartOwner, Join, JoinQueued, SaveOther, EndSave, Drain, Request,
         HandleDm, Admit, PublishCommit, LoseCall, RestartMember, InsertHub, SaveHubs, Answer,
         Send
<1> QED BY <1>2, <1>3, <1>4, <1>5, <1>6, <1>7

\* A commit that is owed stays owed until it is published or forgotten.
LEMMA MergedStays ==
    ASSUME TypeOK, [Next]_vars, NEW m \in Members, flow[m].pc = "merged"
    PROVE  \/ flow'[m].pc = "merged" /\ flow'[m].epoch = flow[m].epoch
           \/ Commit(flow[m].epoch) \in relay' \cup forgotten'
<1> DEFINE Stays == flow'[m].pc = "merged" /\ flow'[m].epoch = flow[m].epoch
           Out == Commit(flow[m].epoch) \in relay' \cup forgotten'
<1>1. m \in Nodes /\ m # Owner /\ flow \in [Nodes -> Flow] /\ flow[m] \in Flow
  BY OwnerIsNoMember DEF TypeOK
<1>2. CASE RestartOwner
  <2>1. Commit(flow[m].epoch) \in Owed
    BY DEF Owed, At
  <2> QED BY <1>2, <2>1 DEF RestartOwner
<1>3. ASSUME NEW k \in Members, PublishCommit(k)
      PROVE  Stays \/ Out
  <2>1. CASE k = m
    BY <1>3, <2>1 DEF PublishCommit
  <2>2. CASE k # m
    BY <1>1, <1>3, <2>2 DEF PublishCommit, Done, Goto
  <2> QED BY <2>1, <2>2
<1>4. ASSUME NEW k \in Members, LoseCall(k)
      PROVE  Stays
  <2>1. CASE k = m
    <3>1. flow' = [flow EXCEPT ![m].kind = "orphan"]
      BY <1>4, <2>1 DEF LoseCall, At
    <3> QED BY <1>1, <3>1 DEF Flow
  <2>2. CASE k # m
    BY <1>1, <1>4, <2>2 DEF LoseCall, Done
  <2> QED BY <2>1, <2>2
<1>5. ASSUME NEW k \in Members, RestartMember(k)
      PROVE  Stays
  <2>1. CASE k = m
    <3>1. \E g \in {flow[m], [flow[m] EXCEPT !.kind = "orphan"]} : flow' = [flow EXCEPT ![m] = g]
      BY <1>1, <1>5, <2>1 DEF RestartMember
    <3> QED BY <1>1, <3>1 DEF Flow
  <2>2. CASE k # m
    BY <1>1, <1>5, <2>2 DEF RestartMember
  <2> QED BY <2>1, <2>2
<1>6. ASSUME NEW k \in Nodes, k # m, \A n \in Nodes : n # k => flow'[n] = flow[n]
      PROVE  Stays
  BY <1>1, <1>6
<1>7. ASSUME NEW k \in Members, Join(k) \/ JoinQueued(k) \/ EndSave(k) \/ Drain(k)
                                \/ HandleDm(k) \/ Admit(k) \/ AddMember(k) \/ JoinFromWelcome(k)
      PROVE  flow' = flow \/ (k # m /\ \A n \in Nodes : n # k => flow'[n] = flow[n])
  BY <1>1, <1>7 DEF Join, JoinQueued, EndSave, Drain, HandleDm, Admit, StartAdmit, AddMember,
                   JoinFromWelcome, At, Goto, Done
<1>8. ASSUME NEW k \in Nodes, InsertHub(k) \/ SaveHubs(k) \/ Answer(k)
      PROVE  k # m /\ \A n \in Nodes : n # k => flow'[n] = flow[n]
  BY <1>1, <1>8 DEF InsertHub, SaveHubs, Answer, At, Goto, Done
<1>9. Create => \A n \in Nodes : n # Owner => flow'[n] = flow[n]
  BY <1>1 DEF Create
<1>10. \/ flow' = flow \/ Create \/ RestartOwner
       \/ \E k \in Members :
             \/ Join(k) \/ JoinQueued(k) \/ EndSave(k)
             \/ Drain(k) \/ HandleDm(k) \/ Admit(k) \/ AddMember(k)
             \/ PublishCommit(k) \/ JoinFromWelcome(k) \/ LoseCall(k) \/ RestartMember(k)
       \/ \E k \in Nodes : InsertHub(k) \/ SaveHubs(k) \/ Answer(k)
  BY DEF Next, vars, SaveOther, Request, Send, Log
<1>11. Members \subseteq Nodes /\ Owner \in Nodes
  BY OwnerIsNoMember
<1> QED BY <1>1, <1>2, <1>3, <1>4, <1>5, <1>6, <1>7, <1>8, <1>9, <1>10, <1>11

\* What is out stays out.
LEMMA OutStays ==
    ASSUME TypeOK, [Next]_vars
    PROVE  /\ relay \cup Owed \cup forgotten \subseteq (relay \cup Owed \cup forgotten)'
           /\ relay \subseteq relay' \cup forgotten'
           /\ forgotten \subseteq forgotten' /\ ext \subseteq ext'
<1> DEFINE Kept == /\ relay \subseteq relay' \cup forgotten'
                   /\ forgotten \subseteq forgotten' /\ ext \subseteq ext'
<1>1. Kept
  <2>1. CASE RestartOwner
    BY <2>1 DEF RestartOwner
  <2>2. ASSUME NEW m \in Members, PublishCommit(m)
        PROVE  Kept
    BY <2>2 DEF PublishCommit
  <2>3. ASSUME NEW n \in Nodes, Send(n)
        PROVE  Kept
    BY <2>3 DEF Send
  <2>4. CASE UNCHANGED <<relay, forgotten, ext>>
    BY <2>4
  <2>5. ASSUME NEW m \in Members,
               \/ Join(m) \/ JoinQueued(m) \/ SaveOther(m) \/ EndSave(m) \/ Drain(m)
               \/ Request(m) \/ HandleDm(m) \/ Admit(m) \/ AddMember(m)
               \/ JoinFromWelcome(m) \/ LoseCall(m) \/ RestartMember(m)
        PROVE  UNCHANGED <<relay, forgotten, ext>>
    BY <2>5 DEF Join, JoinQueued, SaveOther, EndSave, Drain, Request, HandleDm, Admit,
                AddMember, JoinFromWelcome, LoseCall, RestartMember
  <2>6. ASSUME NEW n \in Nodes, InsertHub(n) \/ SaveHubs(n) \/ Answer(n) \/ Log(n)
        PROVE  UNCHANGED <<relay, forgotten, ext>>
    BY <2>6 DEF InsertHub, SaveHubs, Answer, Log
  <2>7. CASE Create \/ UNCHANGED vars
    BY <2>4, <2>7 DEF Create, vars
  <2> QED BY <2>1, <2>2, <2>3, <2>4, <2>5, <2>6, <2>7 DEF Next
<1>2. ASSUME NEW m \in Members, flow[m].pc = "merged"
      PROVE  Commit(flow[m].epoch) \in relay' \cup Owed' \cup forgotten'
  BY <1>2, MergedStays DEF Owed, At
<1>3. Owed \subseteq relay' \cup Owed' \cup forgotten'
  BY <1>2 DEF Owed, At
<1> QED BY <1>1, <1>3

LEMMA BehindNext ==
    ASSUME RInv, [Next]_vars
    PROVE  Behind'
<1> DEFINE E == mls[Owner].epoch
<1> USE DEF RInv
<1>1. /\ Owner \in Nodes /\ E \in Nat /\ E <= E' /\ E' \in Nat
      /\ mls \in [Nodes -> [epoch : Epochs, joined : Epochs]]
      /\ flow \in [Nodes -> Flow]
  <2>1. TypeOK'
    BY NextType
  <2> QED BY <2>1, OwnerGoesOn, OwnerIsNoMember, EpochFacts DEF TypeOK
<1>2. ASSUME NEW n \in Nodes
      PROVE  flow'[n].epoch \in Nat /\ flow'[n].epoch <= E'
  <2>1. flow[n].epoch \in Nat /\ flow[n].epoch <= E
    BY <1>1, EpochFacts DEF Behind, Flow
  <2>2. flow'[n].epoch \in {0, flow[n].epoch} \/ flow'[n].epoch = E'
    <3>1. CASE Create
      BY <1>1, <3>1, OwnerIsNoMember DEF Create
    <3>2. ASSUME NEW m \in Members, AddMember(m)
          PROVE  flow'[n].epoch = flow[n].epoch \/ flow'[n].epoch = E'
      <4> DEFINE e == mls[Owner].epoch + 1
      <4>1. flow' = [flow EXCEPT ![m].pc = "merged", ![m].epoch = e]
            /\ mls' = [mls EXCEPT ![Owner].epoch = e]
        BY <3>2 DEF AddMember
      <4> HIDE DEF e
      <4> QED BY <1>1, <4>1 DEF Flow
    <3>3. CASE RestartOwner
      BY <3>3, <1>1 DEF RestartOwner, Idle, Flow
    <3>4. ASSUME NEW m \in Members, RestartMember(m)
          PROVE  flow'[n].epoch \in {0, flow[n].epoch}
      BY <3>4, <1>1, OwnerIsNoMember DEF RestartMember, Idle, Flow
    <3>5. ASSUME NEW m \in Members,
                 Join(m) \/ JoinQueued(m) \/ Drain(m) \/ HandleDm(m) \/ Admit(m)
          PROVE  flow'[n].epoch \in {0, flow[n].epoch}
      BY <3>5, <1>1, OwnerIsNoMember DEF Join, JoinQueued, Drain, HandleDm, Admit,
         StartAdmit
    <3>6. ASSUME NEW m \in Nodes, Done(m) \/ (\E pc : Goto(m, pc))
                                  \/ flow' = [flow EXCEPT ![m].kind = "orphan"]
          PROVE  flow'[n].epoch \in {0, flow[n].epoch}
      BY <3>6, <1>1 DEF Done, Goto, Idle, Flow
    <3>7. \/ flow' = flow \/ Create \/ RestartOwner
          \/ \E m \in Members : \/ AddMember(m) \/ RestartMember(m) \/ Join(m) \/ JoinQueued(m)
                                 \/ Drain(m) \/ HandleDm(m) \/ Admit(m)
          \/ \E m \in Nodes : \/ Done(m) \/ (\E pc : Goto(m, pc))
                               \/ flow' = [flow EXCEPT ![m].kind = "orphan"]
      BY OwnerIsNoMember DEF Next, vars, SaveOther, EndSave, Request, PublishCommit,
         JoinFromWelcome, LoseCall, InsertHub, SaveHubs, Answer, Send, Log
    <3> QED BY <3>1, <3>2, <3>3, <3>4, <3>5, <3>6, <3>7
  <2> QED BY <1>1, <2>1, <2>2
<1>3. ASSUME NEW n \in Nodes
      PROVE  mls'[n].epoch <= E' /\ (mls'[n].joined > 0 => mls'[n].epoch > 0)
  <2> DEFINE Good == mls'[n].epoch <= E' /\ (mls'[n].joined > 0 => mls'[n].epoch > 0)
  <2>1. /\ mls[n].epoch \in Nat /\ mls[n].joined \in Nat /\ mls[n].epoch <= E
        /\ mls[n].joined > 0 => mls[n].epoch > 0
    BY <1>1, EpochFacts DEF Behind
  <2>2. CASE Create
    BY <1>1, <2>1, <2>2 DEF Create
  <2>3. ASSUME NEW m \in Members, AddMember(m)
        PROVE  Good
    <3>1. mls' = [mls EXCEPT ![Owner].epoch = mls[Owner].epoch + 1]
      BY <2>3 DEF AddMember
    <3> QED BY <1>1, <2>1, <3>1
  <2>4. ASSUME NEW m \in Members, JoinFromWelcome(m)
        PROVE  Good
    <3>1. /\ mls' = [mls EXCEPT ![m] = [epoch |-> flow[m].epoch, joined |-> flow[m].epoch]]
          /\ m \in Nodes /\ flow[m].epoch <= E /\ flow[m].epoch \in Nat
      BY <1>1, <2>4, OwnerIsNoMember, EpochFacts DEF JoinFromWelcome, Behind, Flow
    <3> QED BY <1>1, <2>1, <3>1
  <2>5. ASSUME NEW k \in Nodes, Log(k)
        PROVE  Good
    <3>1. PICK e \in Epochs : /\ mls[k].epoch <= e /\ e <= E
                              /\ mls' = [mls EXCEPT ![k].epoch = e]
      BY <2>5, LogIsBehind
    <3>2. e \in Nat
      BY EpochFacts
    <3> QED BY <1>1, <2>1, <3>1, <3>2
  <2>6. CASE mls' = mls
    BY <1>1, <2>1, <2>6
  <2>7. mls' = mls \/ Create \/ (\E m \in Members : AddMember(m) \/ JoinFromWelcome(m))
        \/ \E k \in Nodes : Log(k)
    BY DEF Next, vars, RestartOwner, Join, JoinQueued, SaveOther, EndSave, Drain,
           Request, HandleDm, Admit, PublishCommit, LoseCall, RestartMember, InsertHub,
           SaveHubs, Answer, Send
  <2> QED BY <2>2, <2>3, <2>4, <2>5, <2>6, <2>7
<1>4. ASSUME NEW ev \in relay', ev.commit
      PROVE  ev.epoch <= E'
  <2>1. ASSUME ev \in relay
        PROVE  ev.epoch <= E'
    <3>1. ev.epoch <= E /\ ev.epoch \in Nat
      BY <1>4, <2>1, EpochFacts DEF Behind, TypeOK, Event
    <3> QED BY <1>1, <3>1
  <2>2. ASSUME NEW m \in Members, PublishCommit(m)
        PROVE  ev.epoch <= E'
    <3>1. ev \in relay \/ ev = Commit(flow[m].epoch)
      BY <1>4, <2>2 DEF PublishCommit
    <3>2. m \in Nodes /\ flow[m].epoch <= E /\ flow[m].epoch \in Nat
      BY <1>1, OwnerIsNoMember, EpochFacts DEF Behind, Flow
    <3> QED BY <1>1, <2>1, <3>1, <3>2 DEF Commit
  <2>3. ASSUME NEW n \in Nodes, Send(n)
        PROVE  ev \in relay
    <3>1. ev \in relay \/ ev = Message(n, mls[n].epoch)
      BY <1>4, <2>3 DEF Send
    <3> QED BY <1>4, <3>1 DEF Message
  <2>4. relay' \subseteq relay \/ (\E m \in Members : PublishCommit(m))
        \/ (\E n \in Nodes : Send(n))
    BY DEF Next, vars, Create, RestartOwner, Join, JoinQueued, SaveOther, EndSave,
           Drain, Request, HandleDm, Admit, AddMember, JoinFromWelcome, LoseCall,
           RestartMember, InsertHub, SaveHubs, Answer, Log
  <2> QED BY <1>4, <2>1, <2>2, <2>3, <2>4
<1> QED BY <1>2, <1>3, <1>4 DEF Behind

LEMMA CommitsNext ==
    ASSUME RInv, [Next]_vars
    PROVE  CommitsAreOut'
<1> DEFINE E == mls[Owner].epoch
           Out == relay \cup Owed \cup forgotten
<1> USE DEF RInv
<1>1. E \in Nat /\ E' \in Nat /\ Out \subseteq Out'
      /\ mls \in [Nodes -> [epoch : Epochs, joined : Epochs]] /\ Owner \in Nodes
  <2>1. TypeOK'
    BY NextType
  <2> QED BY <2>1, OutStays, OwnerIsNoMember, EpochFacts DEF TypeOK
<1>2. ASSUME NEW m \in Members, AddMember(m)
      PROVE  E' = E + 1 /\ Commit(E') \in Owed'
  <2> DEFINE e == mls[Owner].epoch + 1
  <2>1. flow' = [flow EXCEPT ![m].pc = "merged", ![m].epoch = e]
        /\ mls' = [mls EXCEPT ![Owner].epoch = e]
    BY <1>2 DEF AddMember
  <2>2. m \in Nodes /\ flow \in [Nodes -> Flow]
    BY OwnerIsNoMember DEF TypeOK
  <2>3. E' = e
    BY <1>1, <2>1
  <2>4. flow'[m].pc = "merged" /\ flow'[m].epoch = e
    <3> HIDE DEF e
    <3> QED BY <2>1, <2>2 DEF Flow
  <2> QED BY <2>3, <2>4 DEF Owed, At
<1>3. E' = E \/ E' \in {0, 1} \/ \E m \in Members : AddMember(m)
  <2>1. CASE Create
    BY <1>1, <2>1 DEF Create
  <2>2. ASSUME NEW m \in Members, JoinFromWelcome(m)
        PROVE  E' = E
    BY <1>1, <2>2, OwnerIsNoMember DEF JoinFromWelcome
  <2>3. ASSUME NEW n \in Nodes, Log(n)
        PROVE  E' = E
    <3>1. PICK e \in Epochs : /\ mls[n].epoch <= e /\ e <= E
                              /\ mls' = [mls EXCEPT ![n].epoch = e]
      BY <2>3, LogIsBehind
    <3>2. e \in Nat
      BY EpochFacts
    <3> QED BY <1>1, <3>1, <3>2
  <2>4. mls' = mls \/ Create \/ (\E m \in Members : AddMember(m) \/ JoinFromWelcome(m))
        \/ \E n \in Nodes : Log(n)
    BY DEF Next, vars, RestartOwner, Join, JoinQueued, SaveOther, EndSave, Drain,
           Request, HandleDm, Admit, PublishCommit, LoseCall, RestartMember, InsertHub,
           SaveHubs, Answer, Send
  <2> QED BY <2>1, <2>2, <2>3, <2>4
<1>4. ASSUME NEW e \in 2..E'
      PROVE  Commit(e) \in Out'
  <2>1. CASE e \in 2..E
    BY <1>1, <2>1 DEF CommitsAreOut
  <2>2. CASE e \notin 2..E
    <3>1. \E m \in Members : AddMember(m)
      BY <1>1, <1>3, <1>4, <2>2
    <3>2. E' = E + 1 /\ Commit(E') \in Owed'
      BY <1>2, <3>1
    <3>3. e = E'
      BY <1>1, <1>4, <2>2, <3>2
    <3> QED BY <3>2, <3>3
  <2> QED BY <2>1, <2>2
<1> QED BY <1>4 DEF CommitsAreOut

LEMMA SentNext ==
    ASSUME RInv, [Next]_vars
    PROVE  SentIsOut'
<1> DEFINE E == mls[Owner].epoch
<1> USE DEF RInv
<1>1. E \in Nat /\ E' \in Nat /\ E <= E'
  <2>1. TypeOK'
    BY NextType
  <2> QED BY <2>1, OwnerGoesOn, OwnerIsNoMember, EpochFacts DEF TypeOK
<1>2. ASSUME NEW ev \in sent
      PROVE  ev \in (relay \cup ext \cup forgotten)' /\ ev.epoch <= E'
  <2>1. ev \in relay \cup ext \cup forgotten /\ ev.epoch <= E /\ ev.epoch \in Nat
    BY EpochFacts DEF SentIsOut, TypeOK, ChatEvent
  <2> QED BY <1>1, <2>1, OutStays
<1>3. ASSUME NEW n \in Nodes, Send(n), NEW ev \in sent', ev \notin sent
      PROVE  ev \in (relay \cup ext \cup forgotten)' /\ ev.epoch <= E'
  <2> DEFINE msg == Message(n, mls[n].epoch)
  <2>1. PICK stored \in BOOLEAN, posts \in BOOLEAN :
            /\ relay' = IF stored THEN relay \cup {msg} ELSE relay
            /\ ext' = IF posts THEN ext \cup {msg} ELSE ext
            /\ sent' = IF stored \/ posts THEN sent \cup {msg} ELSE sent
    BY <1>3 DEF Send
  <2>2. msg.epoch = mls[n].epoch
    BY DEF Message
  <2> HIDE DEF msg
  <2>3. ev = msg /\ ev \in relay' \cup ext'
    BY <1>3, <2>1
  <2>4. mls[n].epoch <= E /\ mls[n].epoch \in Nat
    BY EpochFacts DEF Behind, TypeOK
  <2> QED BY <1>1, <2>2, <2>3, <2>4
<1>4. sent' = sent \/ \E n \in Nodes : Send(n)
  BY DEF Next, vars, Create, RestartOwner, Join, JoinQueued, SaveOther, EndSave, Drain,
         Request, HandleDm, Admit, AddMember, PublishCommit, JoinFromWelcome, LoseCall,
         RestartMember, InsertHub, SaveHubs, Answer, Log
<1> QED BY <1>2, <1>3, <1>4 DEF SentIsOut

LEMMA ReadableNext == RInv /\ [Next]_vars => RInv'
BY NextType, BehindNext, CommitsNext, SentNext DEF RInv

\* With the embedded relay a node finds where it looks all it needs for a message.
LEMMA Readable == RInv => (Embedded => MessagesCanBeRead)
<1> SUFFICES ASSUME RInv, Embedded, NEW ev \in sent, NEW n \in Nodes,
                    0 < mls[n].joined, mls[n].joined <= ev.epoch
             PROVE  {ev} \cup {Commit(e) : e \in mls[n].epoch + 1..ev.epoch}
                        \subseteq Fetchable(n) \cup Owed \cup forgotten
  BY DEF MessagesCanBeRead
<1> USE DEF RInv
<1>1. Fetchable(n) = relay \cup ext
  BY DEF Fetchable
<1>2. /\ mls[n].epoch \in Nat /\ mls[n].joined \in Nat /\ mls[Owner].epoch \in Nat
      /\ ev.epoch \in Nat /\ mls[n].epoch > 0 /\ ev.epoch <= mls[Owner].epoch
  BY OwnerIsNoMember, EpochFacts DEF TypeOK, ChatEvent, Behind, SentIsOut
<1>3. ev \in relay \cup ext \cup forgotten
  BY DEF SentIsOut
<1>4. ASSUME NEW e \in mls[n].epoch + 1..ev.epoch
      PROVE  Commit(e) \in relay \cup Owed \cup forgotten
  <2>1. e \in 2..mls[Owner].epoch
    BY <1>2
  <2> QED BY <2>1 DEF CommitsAreOut
<1> QED BY <1>1, <1>3, <1>4

\* add_member, send and log: when the owner's relay is served, a message a relay
\* was said to have stays readable for whoever was in the group when it was sent,
\* but for what a restart of the owner took.
THEOREM SentMessagesStayReadable == Spec => [](Embedded => MessagesCanBeRead)
BY InitReadable, ReadableNext, Readable, PTL DEF Spec
=============================================================================
