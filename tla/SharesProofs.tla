---------------------------- MODULE SharesProofs ----------------------------
(***************************************************************************)
(* Proofs about Shares, for any connections, names, initial files and      *)
(* numbers of commands, edits, signals and crashes: its types, and that a  *)
(* command nobody interferes with leaves a whole file and keeps its word.  *)
(***************************************************************************)
EXTENDS Shares, TLAPS

USE DEF file, history

-----------------------------------------------------------------------------
(* Types.                                                                  *)

Lefts == [commands : 0..MaxCommands, byhand : 0..MaxByHand, hups : 0..MaxHups,
          ends : 0..MaxEnds]

LEMMA TaskFacts == Loop \in Tasks /\ Clients \subseteq Tasks /\ Loop \notin Clients
BY SharesAssumption DEF Tasks

LEMMA ContentFacts ==
    /\ Cut \in Content /\ Torn \in Content
    /\ \A text \in Content : text.shares \subseteq Names /\ text.view \subseteq Names
    /\ \A text \in Initial : /\ text \in Content /\ text.kind = "whole"
                             /\ text.view \subseteq text.shares
BY SharesAssumption DEF Cut, Torn, Content, Kind

LEMMA IdleType == Idle \in Local /\ Idle.pc = "idle" /\ Idle.fd = "none" /\ Idle.op = "none"
BY SharesAssumption, ContentFacts DEF Idle, Local, Pc

LEMMA WithoutType ==
    ASSUME NEW text \in Content, NEW n \in Names
    PROVE  /\ Without(text, n) \in Content
           /\ Without(text, n).shares = text.shares \ {n}
           /\ Without(text, n).view = text.view \ {n}
           /\ Without(text, n).kind = text.kind
BY DEF Without, Content

LEMMA WithType ==
    ASSUME NEW text \in Content, NEW n \in Names
    PROVE  /\ [text EXCEPT !.shares = @ \cup {n}] \in Content
           /\ [text EXCEPT !.shares = @ \cup {n}].shares = text.shares \cup {n}
           /\ [text EXCEPT !.shares = @ \cup {n}].view = text.view
           /\ [text EXCEPT !.shares = @ \cup {n}].kind = text.kind
BY DEF Content

\* What changes of a task leaves it one.
LEMMA LocalUpdate ==
    ASSUME NEW t \in Local
    PROVE  /\ \A pc \in Pc : [t EXCEPT !.pc = pc] \in Local
           /\ \A pc \in Pc, text \in Content :
                 [t EXCEPT !.pc = pc, !.text = text] \in Local
           /\ \A pc \in Pc, fd \in {"none", "tmp", "conf", "gone"} :
                 [t EXCEPT !.pc = pc, !.fd = fd] \in Local
           /\ \A pc \in Pc, op \in {"none", "add", "rm", "revert", "reload"} :
                 /\ [t EXCEPT !.pc = pc, !.op = op] \in Local
                 /\ \A text \in Content :
                       [t EXCEPT !.op = op, !.pc = pc, !.text = text] \in Local
           /\ [t EXCEPT !.fd = Moved(t.fd)] \in Local
BY DEF Local, Moved

LEMMA InitType == Init => TypeOK
<1> SUFFICES ASSUME Init
             PROVE  TypeOK
  OBVIOUS
<1>1. conf \in Content /\ config \in Content
  BY ContentFacts DEF Init
<1>2. task \in [Tasks -> Local]
  BY IdleType DEF Init
<1>3. left \in [commands : 0..MaxCommands, byhand : 0..MaxByHand, hups : 0..MaxHups,
                ends : 0..MaxEnds]
  BY SharesAssumption DEF Init
<1> QED BY <1>1, <1>2, <1>3 DEF Init, TypeOK

\* One task goes on; what it leaves of the others it leaves of their type.
LEMMA OneTaskType ==
    ASSUME TypeOK, NEW w \in Tasks, NEW t \in Local, task' = [task EXCEPT ![w] = t]
    PROVE  task' \in [Tasks -> Local]
BY DEF TypeOK

LEMMA StepTypes ==
    ASSUME TypeOK, NEW w \in Tasks
    PROVE  /\ task[w] \in Local /\ task[w].name \in Names /\ task[w].text \in Content
           /\ \A pc \in Pc : Goto(w, pc) => task' \in [Tasks -> Local]
           /\ Done(w) => task' \in [Tasks -> Local]
<1>1. task[w] \in Local /\ task \in [Tasks -> Local]
  BY DEF TypeOK
<1>2. ASSUME NEW pc \in Pc, Goto(w, pc)
      PROVE  task' \in [Tasks -> Local]
  <2>1. [task[w] EXCEPT !.pc = pc] \in Local
    BY <1>1, LocalUpdate
  <2>2. task' = [task EXCEPT ![w] = [task[w] EXCEPT !.pc = pc]]
    BY <1>1, <1>2 DEF Goto
  <2> QED BY <2>1, <2>2, OneTaskType
<1>3. Done(w) => task' \in [Tasks -> Local]
  BY OneTaskType, IdleType DEF Done
<1> QED BY <1>1, <1>2, <1>3 DEF Local

LEMMA EditType ==
    ASSUME TypeOK, NEW c \in Clients, NEW op \in {"add", "rm"}, NEW n \in Names,
           NEW text \in Content, Edit(c, op, n, text), misread' \in BOOLEAN
    PROVE  TypeOK'
<1> DEFINE t == [Idle EXCEPT !.pc = "open", !.op = op, !.name = n, !.text = text]
<1>1. t \in Local
  BY IdleType DEF Local, Pc
<1>2. task' = [task EXCEPT ![c] = t]
  BY DEF Edit
<1> HIDE DEF t
<1>3. task' \in [Tasks -> Local]
  BY <1>1, <1>2, OneTaskType, TaskFacts
<1>4. left' \in Lefts
  BY SharesAssumption DEF Edit, TypeOK, Lefts
<1> QED BY <1>3, <1>4 DEF Edit, TypeOK, Lefts

LEMMA StartEditType ==
    ASSUME TypeOK, NEW c \in Clients, NEW op \in {"add", "rm"}, NEW n \in Names,
           StartEdit(c, op, n)
    PROVE  TypeOK'
<1> DEFINE text == IF op = "add" THEN [conf EXCEPT !.shares = @ \cup {n}] ELSE Without(conf, n)
<1>1. text \in Content
  BY WithType, WithoutType DEF TypeOK
<1>2. Edit(c, op, n, text) /\ misread' \in BOOLEAN
  BY DEF StartEdit, TypeOK
<1> HIDE DEF text
<1> QED BY <1>1, <1>2, EditType

LEMMA AddUnreadType ==
    ASSUME TypeOK, NEW c \in Clients, NEW n \in Names, AddUnread(c, n)
    PROVE  TypeOK'
<1> DEFINE text == [Cut EXCEPT !.shares = {n}]
<1>1. text \in Content
  BY DEF Content, Cut, Kind
<1>2. Edit(c, "add", n, text) /\ misread' \in BOOLEAN
  BY DEF AddUnread
<1> HIDE DEF text
<1> QED BY <1>1, <1>2, EditType

LEMMA FileStepType ==
    ASSUME TypeOK, NEW c \in Clients, OpenTmp(c) \/ WriteTmp(c) \/ Rename(c)
    PROVE  TypeOK'
<1>1. task[c] \in Local /\ c \in Tasks /\ task[c].text \in Content
  BY StepTypes, TaskFacts
<1>2. CASE OpenTmp(c)
  <2>1. task' = [task EXCEPT ![c] = [task[c] EXCEPT !.pc = "write", !.fd = "tmp"]]
    BY <1>1, <1>2 DEF OpenTmp, TypeOK
  <2>2. task' \in [Tasks -> Local]
    BY <1>1, <2>1, LocalUpdate, OneTaskType DEF Pc
  <2> QED BY <1>2, <2>2, ContentFacts DEF OpenTmp, TypeOK
<1>3. CASE WriteTmp(c)
  <2>1. task' = [task EXCEPT ![c] = [task[c] EXCEPT !.pc = "rename", !.fd = "none"]]
    BY <1>1, <1>3 DEF WriteTmp, TypeOK
  <2>2. task' \in [Tasks -> Local]
    BY <1>1, <2>1, LocalUpdate, OneTaskType DEF Pc
  <2>3. \A was : Written(task[c].text, was) \subseteq Content
    BY <1>1, ContentFacts DEF Written
  <2>4. conf' \in Content /\ tmp' \in Content \cup {None}
    BY <1>3, <2>3 DEF WriteTmp, TypeOK
  <2> QED BY <1>3, <2>2, <2>4 DEF WriteTmp, TypeOK
<1>4. CASE Rename(c)
  <2>1. conf' \in Content /\ tmp' \in Content \cup {None}
    BY <1>4 DEF Rename, TypeOK
  <2>2. task' \in [Tasks -> Local]
    <3>1. CASE tmp # None
      <4>1. \A w \in Tasks : [task[w] EXCEPT !.fd = Moved(task[w].fd)] \in Local
        BY StepTypes, LocalUpdate
      <4>2. \A w \in Tasks : [task[w] EXCEPT !.pc = "load"] \in Local
        BY StepTypes, LocalUpdate DEF Pc
      <4>3. task' = [w \in Tasks |->
                        IF w = c THEN [task[w] EXCEPT !.pc = "load"]
                        ELSE [task[w] EXCEPT !.fd = Moved(task[w].fd)]]
        BY <1>4, <3>1, StepTypes DEF Rename, Local
      <4> QED BY <4>1, <4>2, <4>3
    <3>2. CASE tmp = None
      BY <1>1, <1>4, <3>2, StepTypes DEF Rename, Pc
    <3> QED BY <3>1, <3>2
  <2> QED BY <1>4, <2>1, <2>2 DEF Rename, TypeOK
<1> QED BY <1>2, <1>3, <1>4

LEMMA ApplyStepType ==
    ASSUME TypeOK, NEW w \in Tasks, Load(w) \/ Store(w) \/ EndScan(w)
    PROVE  TypeOK'
<1>1. task[w] \in Local /\ task[w].name \in Names /\ task[w].text \in Content
  BY StepTypes
<1>2. CASE Load(w)
  <2>1. task' \in [Tasks -> Local]
    <3>1. CASE Loads(conf)
      <4>1. task' = [task EXCEPT ![w] = [task[w] EXCEPT !.pc = "store", !.text = conf]]
        BY <1>1, <1>2, <3>1 DEF Load, TypeOK
      <4> QED BY <1>1, <4>1, LocalUpdate, OneTaskType DEF TypeOK, Pc
    <3>2. CASE ~Loads(conf)
      BY <1>2, <3>2, StepTypes DEF Load, Pc
    <3> QED BY <3>1, <3>2
  <2>2. promise' \in [Names -> {"none", "present", "absent", "reverted"}]
    BY <1>1, <1>2 DEF Load, TypeOK
  <2> QED BY <1>2, <2>1, <2>2 DEF Load, TypeOK
<1>3. CASE Store(w)
  <2>1. task' \in [Tasks -> Local]
    BY <1>3, StepTypes DEF Store, Pc
  <2>2. promise' \in [Names -> {"none", "present", "absent", "reverted"}]
    BY <1>1, <1>3 DEF Store, TypeOK
  <2> QED BY <1>1, <1>3, <2>1, <2>2 DEF Store, Begin, TypeOK
<1>4. CASE EndScan(w)
  <2>1. task' \in [Tasks -> Local]
    BY <1>4, StepTypes DEF EndScan
  <2> QED BY <1>4, <2>1 DEF EndScan, TypeOK
<1> QED BY <1>2, <1>3, <1>4

LEMMA RevertType ==
    ASSUME TypeOK, NEW c \in Clients, Revert(c)
    PROVE  TypeOK'
<1> DEFINE there == conf.kind # "torn" /\ task[c].name \in conf.shares
           pc == IF there THEN "open" ELSE "load"
           text == IF there THEN Without(conf, task[c].name) ELSE task[c].text
<1>1. task[c] \in Local /\ c \in Tasks /\ task[c].name \in Names /\ task[c].text \in Content
  BY StepTypes, TaskFacts
<1>2. pc \in Pc /\ text \in Content
  BY <1>1, WithoutType DEF Pc, TypeOK
<1>3. task' = [task EXCEPT ![c] = [task[c] EXCEPT !.op = "revert", !.pc = pc, !.text = text]]
  BY <1>1 DEF Revert, TypeOK
<1> HIDE DEF pc, text
<1>4. task' \in [Tasks -> Local]
  BY <1>1, <1>2, <1>3, LocalUpdate, OneTaskType
<1> QED BY <1>4 DEF Revert, TypeOK

LEMMA SignalType ==
    ASSUME TypeOK, Hup \/ AskToStop \/ TakeHup \/ TakeStop \/ Exit \/ Crash
    PROVE  TypeOK'
<1>1. CASE Hup
  <2>1. left' \in Lefts
    BY <1>1, SharesAssumption DEF Hup, TypeOK, Lefts
  <2> QED BY <1>1, <2>1 DEF Hup, TypeOK, Lefts
<1>2. CASE AskToStop
  <2>1. left' \in Lefts
    BY <1>2, SharesAssumption DEF AskToStop, TypeOK, Lefts
  <2> QED BY <1>2, <2>1 DEF AskToStop, TypeOK, Lefts
<1>3. CASE TakeHup
  <2>1. task' = [task EXCEPT ![Loop] = [task[Loop] EXCEPT !.pc = "load", !.op = "reload"]]
    BY <1>3, TaskFacts DEF TakeHup, TypeOK
  <2>2. task' \in [Tasks -> Local]
    BY <2>1, StepTypes, LocalUpdate, OneTaskType, TaskFacts DEF Pc
  <2> QED BY <1>3, <2>2 DEF TakeHup, TypeOK
<1>4. CASE TakeStop
  <2>1. task' \in [Tasks -> Local]
    BY <1>4, StepTypes, TaskFacts DEF TakeStop, Pc
  <2> QED BY <1>4, <2>1 DEF TakeStop, TypeOK
<1>5. CASE Exit
  BY <1>5, IdleType DEF Exit, Die, TypeOK
<1>6. CASE Crash
  <2>1. left' \in Lefts
    BY <1>6, SharesAssumption DEF Crash, TypeOK, Lefts
  <2> QED BY <1>6, <2>1, IdleType DEF Crash, Die, TypeOK, Lefts
<1> QED BY <1>1, <1>2, <1>3, <1>4, <1>5, <1>6

LEMMA NextType == TypeOK /\ [Next]_vars => TypeOK'
<1> SUFFICES ASSUME TypeOK, [Next]_vars
             PROVE  TypeOK'
  OBVIOUS
<1>1. CASE PauseScan \/ CancelScan
  BY <1>1 DEF PauseScan, CancelScan, TypeOK
<1>2. CASE Start
  BY <1>2 DEF Start, TypeOK
<1>3. CASE EditByHand
  <2>1. left' \in Lefts
    BY <1>3, SharesAssumption DEF EditByHand, TypeOK, Lefts
  <2>2. conf' \in Content
    BY <1>3 DEF EditByHand, TypeOK, Content
  <2> QED BY <1>3, <2>1, <2>2 DEF EditByHand, TypeOK, Lefts
<1>4. CASE UNCHANGED vars
  BY <1>4 DEF vars, TypeOK
<1> QED BY <1>1, <1>2, <1>3, <1>4, StartEditType, AddUnreadType, FileStepType, ApplyStepType,
           RevertType, SignalType DEF Next

\* Whatever the commands, the signal loop and the hands at the file do between one
\* another's calls, the state stays what the code takes it to be.
THEOREM TypeCorrect == Spec => []TypeOK
BY InitType, NextType, PTL DEF Spec

-----------------------------------------------------------------------------
(* The argument.                                                           *)

\* The signal loop only reloads.
LoopReloads ==
    /\ task[Loop].pc \in {"idle", "load", "store", "scan", "exit"}
    /\ task[Loop].pc \in {"load", "store"} => task[Loop].op = "reload"

\* Where an edit nobody else interferes with has got, and what the files and the
\* answers then are.
EditIsAt(c) ==
    LET t == task[c]
    IN  /\ IF t.pc = "write" THEN t.fd = "tmp" /\ tmp = Cut ELSE t.fd = "none"
        /\ t.pc = "rename" => tmp = t.text
        /\ t.pc \in {"open", "write", "rename"} =>
              /\ t.text.kind = "whole" /\ (broken \/ t.text.view \subseteq t.text.shares)
              /\ t.text.shares = IF t.op = "add" THEN conf.shares \cup {t.name}
                                                 ELSE conf.shares \ {t.name}
        /\ Busy(c) => t.op \in {"add", "rm", "revert"} /\ promise[t.name] = "none"
        /\ t.pc \in {"load", "store", "revert"} => (t.op = "add" <=> t.name \in conf.shares)
        /\ t.pc = "revert" => t.op = "add"
        /\ t.pc = "store" => t.text.shares = conf.shares

OneAtATime == \A c, d \in Clients : Busy(c) /\ Busy(d) => c = d

ConfIsWhole == conf.kind = "whole" /\ (broken \/ conf.view \subseteq conf.shares)

\* A reload that no command was applied beside has read the shares there are.
ReloadIsFresh ==
    raced \/ /\ Busy(Loop) => \A c \in Clients : ~Busy(c)
             /\ task[Loop].pc = "store" => task[Loop].text.shares = conf.shares

PromisesHold ==
    \A n \in Names :
        /\ promise[n] = "present" =>
              n \in conf.shares /\ (up /\ ~raced => n \in config.shares)
        /\ promise[n] = "absent" =>
              n \notin conf.shares /\ (up /\ ~raced => n \notin config.shares)
        /\ promise[n] = "reverted" => n \notin conf.shares

Alone ==
    /\ OneAtATime /\ ConfIsWhole /\ ReloadIsFresh /\ PromisesHold
    /\ \A c \in Clients : EditIsAt(c)

IInv == TypeOK /\ LoopReloads /\ (overlapped \/ misread \/ Alone)

LEMMA InitAlone == Init => IInv
<1> SUFFICES ASSUME Init
             PROVE  LoopReloads /\ Alone
  BY InitType DEF IInv
<1>1. \A w \in Tasks : task[w].pc = "idle" /\ task[w].fd = "none"
  BY IdleType DEF Init
<1>2. LoopReloads /\ OneAtATime /\ \A c \in Clients : ~Busy(c) /\ EditIsAt(c)
  BY <1>1, TaskFacts DEF LoopReloads, OneAtATime, Busy, EditIsAt
<1>3. ConfIsWhole
  BY ContentFacts DEF Init, ConfIsWhole
<1>4. ReloadIsFresh
  BY <1>1, <1>2, TaskFacts DEF ReloadIsFresh
<1>5. PromisesHold
  BY DEF Init, PromisesHold
<1> QED BY <1>2, <1>3, <1>4, <1>5 DEF Alone

\* What a step leaves alone goes on as it was.
LEMMA EditStays ==
    ASSUME NEW c \in Clients, EditIsAt(c),
           task'[c] = task[c], tmp' = tmp \/ task[c].pc \notin {"write", "rename"},
           conf'.shares = conf.shares \/ ~Busy(c),
           promise'[task[c].name] = promise[task[c].name] \/ ~Busy(c),
           broken => broken'
    PROVE  EditIsAt(c)'
BY DEF EditIsAt, Busy

LEMMA RestIsIdle ==
    ASSUME OneAtATime, NEW c \in Clients, Busy(c)
    PROVE  \A d \in Clients \ {c} : ~Busy(d)
BY DEF OneAtATime

LEMMA BusyIsKept ==
    ASSUME OneAtATime, \A c \in Clients : Busy(c)' => Busy(c)
    PROVE  OneAtATime'
BY DEF OneAtATime

\* Another task that only had its descriptor moved had none.
LEMMA NoneMoves ==
    ASSUME TypeOK, NEW c \in Clients, EditIsAt(c), ~Busy(c)
    PROVE  [task[c] EXCEPT !.fd = Moved(@)] = task[c]
<1>1. task[c] \in Local /\ task[c].fd = "none"
  BY TaskFacts DEF TypeOK, EditIsAt, Busy
<1> QED BY <1>1 DEF Local, Moved

LEMMA LoopNext == TypeOK /\ LoopReloads /\ [Next]_vars => LoopReloads'
<1> SUFFICES ASSUME TypeOK, LoopReloads, [Next]_vars
             PROVE  LoopReloads'
  OBVIOUS
<1>1. Loop \in Tasks /\ task \in [Tasks -> Local] /\ task[Loop] \in Local /\ Clients \subseteq Tasks
  BY TaskFacts DEF TypeOK
<1>2. ASSUME task'[Loop].pc = task[Loop].pc, task'[Loop].op = task[Loop].op
      PROVE  LoopReloads'
  BY <1>2 DEF LoopReloads
<1>3. ASSUME task'[Loop].pc \in {"idle", "scan", "exit"}
      PROVE  LoopReloads'
  BY <1>3 DEF LoopReloads
<1>4. ASSUME NEW c \in Clients, \/ \E op \in {"add", "rm"}, n \in Names : StartEdit(c, op, n)
                               \/ \E n \in Names : AddUnread(c, n)
      PROVE  LoopReloads'
  <2>1. task'[Loop] = task[Loop]
    BY <1>1, <1>4, TaskFacts DEF StartEdit, AddUnread, Edit
  <2> QED BY <1>2, <2>1
<1>5. ASSUME NEW c \in Clients, \/ OpenTmp(c) \/ WriteTmp(c) \/ Revert(c)
                               \/ Load(c) \/ Store(c) \/ EndScan(c)
      PROVE  LoopReloads'
  <2>1. task'[Loop] = task[Loop]
    BY <1>1, <1>5, TaskFacts DEF OpenTmp, WriteTmp, Revert, Load, Store, EndScan, Goto, Done
  <2> QED BY <1>2, <2>1
<1>6. ASSUME NEW c \in Clients, Rename(c)
      PROVE  LoopReloads'
  <2>1. task'[Loop].pc = task[Loop].pc /\ task'[Loop].op = task[Loop].op
    BY <1>1, <1>6, TaskFacts DEF Rename, Goto, Done, Local
  <2> QED BY <1>2, <2>1
<1>7. CASE Load(Loop)
  <2>1. task[Loop].op = "reload"
    BY <1>7 DEF Load, At, LoopReloads
  <2>2. task' = [task EXCEPT ![Loop].pc = "store", ![Loop].text = conf]
        \/ task' = [task EXCEPT ![Loop] = Idle]
    BY <1>7, <2>1 DEF Load, Done
  <2>3. (task'[Loop].pc = "store" /\ task'[Loop].op = "reload") \/ task'[Loop] = Idle
    BY <1>1, <2>1, <2>2 DEF Local
  <2> QED BY <2>3, IdleType DEF LoopReloads
<1>8. CASE Store(Loop)
  <2>1. task'[Loop].pc = "scan" \/ task'[Loop] = Idle
    BY <1>1, <1>8 DEF Store, Goto, Done, Local
  <2> QED BY <1>3, <2>1, IdleType
<1>9. CASE EndScan(Loop)
  BY <1>1, <1>3, <1>9, IdleType DEF EndScan, Done
<1>10. CASE TakeHup
  <2>1. task'[Loop].pc = "load" /\ task'[Loop].op = "reload"
    BY <1>1, <1>10 DEF TakeHup, Local
  <2> QED BY <2>1 DEF LoopReloads
<1>11. CASE TakeStop
  <2>1. task'[Loop].pc = "exit"
    BY <1>1, <1>11 DEF TakeStop, Goto, Local
  <2> QED BY <1>3, <2>1
<1>12. CASE Exit \/ Crash
  BY <1>1, <1>3, <1>12, IdleType DEF Exit, Crash, Die
<1>13. CASE task' = task
  BY <1>2, <1>13
<1>14. PauseScan \/ CancelScan \/ Hup \/ AskToStop \/ Start \/ EditByHand \/ UNCHANGED vars
       => task' = task
  BY DEF PauseScan, CancelScan, Hup, AskToStop, Start, EditByHand, vars
<1> QED BY <1>4, <1>5, <1>6, <1>7, <1>8, <1>9, <1>10, <1>11, <1>12, <1>13, <1>14
        DEF Next, Tasks

-----------------------------------------------------------------------------
(* One command at a time.                                                  *)

LEMMA StartEditAlone ==
    ASSUME IInv, NEW c \in Clients, NEW op \in {"add", "rm"}, NEW n \in Names,
           StartEdit(c, op, n), ~overlapped', ~misread'
    PROVE  Alone'
<1> DEFINE text == IF op = "add" THEN [conf EXCEPT !.shares = @ \cup {n}] ELSE Without(conf, n)
           t == [Idle EXCEPT !.pc = "open", !.op = op, !.name = n, !.text = text]
<1> USE DEF IInv
<1>1. Alone /\ (\A d \in Clients : ~Busy(d)) /\ c \in Tasks /\ conf' = conf /\ config' = config
  BY TaskFacts DEF StartEdit, Edit
<1>2. /\ text \in Content
      /\ text.shares = IF op = "add" THEN conf.shares \cup {n} ELSE conf.shares \ {n}
      /\ text.kind = "whole" /\ (broken \/ text.view \subseteq text.shares)
  <2>1. conf \in Content /\ conf.kind = "whole" /\ (broken \/ conf.view \subseteq conf.shares)
    BY <1>1 DEF Alone, ConfIsWhole, TypeOK
  <2>2. CASE op = "add"
    BY <2>1, <2>2, WithType
  <2>3. CASE op = "rm"
    BY <2>1, <2>3, WithoutType
  <2> QED BY <2>2, <2>3
<1>3. task' = [task EXCEPT ![c] = t]
  BY DEF StartEdit, Edit
<1> HIDE DEF text
<1>4. /\ t.pc = "open" /\ t.op = op /\ t.name = n /\ t.text = text /\ t.fd = "none"
  BY IdleType DEF Local
<1> HIDE DEF t
<1>5. task'[c] = t /\ \A w \in Tasks \ {c} : task'[w] = task[w]
  BY <1>1, <1>3 DEF TypeOK
<1>6. promise' = [promise EXCEPT ![n] = "none"] /\ broken' = broken /\ up' = up
      /\ raced' = (raced \/ Busy(Loop)) /\ tmp' = tmp
  BY DEF StartEdit, Edit
<1>7. EditIsAt(c)'
  BY <1>1, <1>2, <1>4, <1>5, <1>6 DEF EditIsAt, Busy, TypeOK
<1>8. ASSUME NEW d \in Clients, d # c
      PROVE  EditIsAt(d)' /\ ~Busy(d)'
  <2>1. task'[d] = task[d] /\ ~Busy(d) /\ EditIsAt(d)
    BY <1>1, <1>5, <1>8, TaskFacts DEF Alone
  <2> QED BY <1>1, <1>6, <2>1, EditStays DEF Busy
<1>9. OneAtATime'
  BY <1>8 DEF OneAtATime
<1>10. ReloadIsFresh'
  <2>1. task'[Loop] = task[Loop]
    BY <1>5, TaskFacts
  <2> QED BY <1>1, <1>6, <2>1 DEF Alone, ReloadIsFresh, Busy
<1>11. PromisesHold'
  BY <1>1, <1>6 DEF Alone, PromisesHold, TypeOK
<1>12. ConfIsWhole'
  BY <1>1, <1>6 DEF Alone, ConfIsWhole
<1> QED BY <1>7, <1>8, <1>9, <1>10, <1>11, <1>12 DEF Alone

\* A command that goes on without touching the shares, the answers or the history.
LEMMA OneGoesOn ==
    ASSUME IInv, Alone, NEW c \in Clients, Busy(c), EditIsAt(c)',
           \A d \in Tasks \ {c} : task'[d] = task[d],
           conf' = conf, promise' = promise, broken' = broken, raced' = raced,
           config' = config, up' = up
    PROVE  Alone'
<1>1. \A d \in Clients \ {c} : ~Busy(d) /\ task'[d] = task[d]
  BY RestIsIdle, TaskFacts DEF Alone
<1>2. \A d \in Clients \ {c} : EditIsAt(d)' /\ ~Busy(d)'
  BY <1>1, EditStays DEF Alone, Busy
<1>3. OneAtATime'
  BY <1>2 DEF OneAtATime
<1>4. ReloadIsFresh'
  <2>1. task'[Loop] = task[Loop]
    BY TaskFacts
  <2>2. Busy(Loop) => \A d \in Clients : raced \/ ~Busy(d)
    BY DEF Alone, ReloadIsFresh
  <2> QED BY <2>1, <2>2 DEF Alone, ReloadIsFresh, Busy
<1> QED BY <1>2, <1>3, <1>4 DEF Alone, PromisesHold, ConfIsWhole

LEMMA OpenTmpAlone ==
    ASSUME IInv, Alone, NEW c \in Clients, OpenTmp(c)
    PROVE  Alone'
<1>1. task[c] \in Local /\ task \in [Tasks -> Local] /\ c \in Tasks
  BY TaskFacts DEF IInv, TypeOK
<1>2. task' = [task EXCEPT ![c].pc = "write", ![c].fd = "tmp"] /\ tmp' = Cut
      /\ task[c].pc = "open"
  BY DEF OpenTmp, At
<1>3. task'[c] = [task[c] EXCEPT !.pc = "write", !.fd = "tmp"]
  BY <1>1, <1>2
<1>4. EditIsAt(c)'
  <2>1. EditIsAt(c) /\ UNCHANGED <<conf, promise, broken>>
    BY DEF Alone, OpenTmp
  <2>2. /\ task'[c].pc = "write" /\ task'[c].fd = "tmp" /\ task'[c].op = task[c].op
        /\ task'[c].text = task[c].text /\ task'[c].name = task[c].name
    BY <1>1, <1>3 DEF Local
  <2> QED BY <1>2, <2>1, <2>2 DEF EditIsAt, Busy
<1> QED BY <1>1, <1>2, <1>4, OneGoesOn DEF OpenTmp, Busy

LEMMA WriteTmpAlone ==
    ASSUME IInv, Alone, NEW c \in Clients, WriteTmp(c)
    PROVE  Alone'
<1>1. task[c] \in Local /\ task \in [Tasks -> Local] /\ c \in Tasks
  BY TaskFacts DEF IInv, TypeOK
<1>2. task[c].pc = "write" /\ task[c].fd = "tmp" /\ tmp = Cut
  BY DEF WriteTmp, At, Alone, EditIsAt
<1>3. tmp' = task[c].text /\ conf' = conf
  BY <1>2 DEF WriteTmp, Written
<1>4. task' = [task EXCEPT ![c].pc = "rename", ![c].fd = "none"]
  BY DEF WriteTmp
<1>5. task'[c] = [task[c] EXCEPT !.pc = "rename", !.fd = "none"]
  BY <1>1, <1>4
<1>6. EditIsAt(c)'
  BY <1>1, <1>2, <1>3, <1>5 DEF Alone, EditIsAt, Busy, WriteTmp, Local
<1> QED BY <1>1, <1>2, <1>3, <1>4, <1>6, OneGoesOn DEF WriteTmp, Busy

LEMMA RenameAlone ==
    ASSUME IInv, Alone, NEW c \in Clients, Rename(c)
    PROVE  Alone'
<1> USE DEF IInv
<1>1. /\ task[c] \in Local /\ task \in [Tasks -> Local] /\ c \in Tasks /\ Loop \in Tasks
      /\ Loop # c
  BY TaskFacts DEF TypeOK
<1> DEFINE text == task[c].text
           n == task[c].name
<1>2. /\ task[c].pc = "rename" /\ task[c].fd = "none" /\ tmp = text /\ text.kind = "whole"
      /\ broken \/ text.view \subseteq text.shares
      /\ text.shares = IF task[c].op = "add" THEN conf.shares \cup {n} ELSE conf.shares \ {n}
      /\ promise[n] = "none" /\ task[c].op \in {"add", "rm", "revert"}
  BY DEF Rename, At, Alone, EditIsAt, Busy
<1>3. tmp # None
  BY <1>2 DEF None, Cut
<1>4. conf' = text /\ UNCHANGED <<promise, broken, raced, config, up>>
      /\ task' = [w \in Tasks |-> IF w = c THEN [task[w] EXCEPT !.pc = "load"]
                                  ELSE [task[w] EXCEPT !.fd = Moved(@)]]
  BY <1>2, <1>3 DEF Rename
<1>5. task'[c] = [task[c] EXCEPT !.pc = "load"]
  BY <1>1, <1>4
<1>6. task'[c].pc = "load" /\ task'[c].op = task[c].op /\ task'[c].name = n
      /\ task'[c].fd = "none"
  BY <1>1, <1>2, <1>5 DEF Local
<1>7. EditIsAt(c)'
  BY <1>1, <1>2, <1>4, <1>6 DEF EditIsAt, Busy
<1>8. ASSUME NEW d \in Clients, d # c
      PROVE  EditIsAt(d)' /\ ~Busy(d)'
  <2>1. ~Busy(d) /\ EditIsAt(d)
    BY <1>2, <1>8, RestIsIdle DEF Alone, Busy
  <2>2. task'[d] = task[d]
    BY <1>4, <1>8, <2>1, NoneMoves, TaskFacts
  <2> QED BY <1>4, <2>1, <2>2, EditStays DEF Busy
<1>9. OneAtATime'
  BY <1>8 DEF OneAtATime
<1>10. ReloadIsFresh'
  <2>1. raced \/ ~Busy(Loop)
    BY <1>2 DEF Alone, ReloadIsFresh, Busy
  <2>2. task'[Loop].pc = task[Loop].pc
    BY <1>1, <1>4 DEF Local
  <2> QED BY <1>4, <2>1, <2>2 DEF ReloadIsFresh, Busy
<1>11. \A m \in Names : m # n => (m \in conf'.shares <=> m \in conf.shares)
  BY <1>2, <1>4
<1>12. PromisesHold'
  <2> HIDE DEF n, text
  <2> QED BY <1>2, <1>4, <1>11 DEF Alone, PromisesHold
<1>13. ConfIsWhole'
  BY <1>2, <1>4 DEF ConfIsWhole
<1> QED BY <1>7, <1>8, <1>9, <1>10, <1>12, <1>13 DEF Alone

LEMMA RevertAlone ==
    ASSUME IInv, Alone, NEW c \in Clients, Revert(c)
    PROVE  Alone'
<1> USE DEF IInv
<1> DEFINE n == task[c].name
           text == Without(conf, n)
<1>1. task[c] \in Local /\ task \in [Tasks -> Local] /\ c \in Tasks /\ n \in Names
  BY TaskFacts DEF TypeOK, Local
<1>2. /\ task[c].pc = "revert" /\ task[c].fd = "none" /\ promise[n] = "none"
      /\ task[c].op = "add" /\ n \in conf.shares /\ conf.kind = "whole"
      /\ broken \/ conf.view \subseteq conf.shares
  BY DEF Revert, At, Alone, EditIsAt, ConfIsWhole, Busy
<1>3. text.kind = "whole" /\ text.shares = conf.shares \ {n}
      /\ (broken \/ text.view \subseteq text.shares)
  BY <1>1, <1>2, WithoutType DEF TypeOK
<1>4. task' = [task EXCEPT ![c].op = "revert", ![c].pc = "open", ![c].text = text]
  BY <1>1, <1>2 DEF Revert
<1> HIDE DEF text
<1>5. task'[c] = [task[c] EXCEPT !.op = "revert", !.pc = "open", !.text = text]
  BY <1>1, <1>4
<1>6. /\ task'[c].pc = "open" /\ task'[c].op = "revert" /\ task'[c].text = text
      /\ task'[c].name = n /\ task'[c].fd = "none"
  BY <1>1, <1>2, <1>5 DEF Local
<1>7. UNCHANGED <<conf, tmp, promise, broken, raced, config, up>>
  BY DEF Revert
<1>8. EditIsAt(c)'
  BY <1>2, <1>3, <1>6, <1>7 DEF EditIsAt, Busy
<1> QED BY <1>1, <1>2, <1>4, <1>7, <1>8, OneGoesOn DEF Busy

\* A command that ends, with its answer.
LEMMA OneEnds ==
    ASSUME IInv, Alone, NEW c \in Clients, Busy(c),
           task'[c].pc \in {"idle", "scan"}, task'[c].fd = "none",
           \A d \in Tasks \ {c} : task'[d] = task[d],
           conf' = conf, broken' = broken, raced' = raced, PromisesHold'
    PROVE  Alone'
<1>1. \A d \in Clients \ {c} : ~Busy(d) /\ task'[d] = task[d]
  BY RestIsIdle, TaskFacts DEF Alone
<1>2. ASSUME NEW d \in Clients \ {c}
      PROVE  EditIsAt(d)' /\ ~Busy(d)'
  <2>1. ~Busy(d) /\ EditIsAt(d) /\ task'[d] = task[d]
    BY <1>1 DEF Alone
  <2> QED BY <2>1, EditStays DEF Busy
<1>3. EditIsAt(c)' /\ ~Busy(c)'
  BY DEF EditIsAt, Busy
<1>4. OneAtATime'
  BY <1>2 DEF OneAtATime
<1>5. ReloadIsFresh'
  <2>1. task'[Loop] = task[Loop]
    BY TaskFacts
  <2> QED BY <1>2, <1>3, <2>1 DEF Alone, ReloadIsFresh, Busy
<1> QED BY <1>2, <1>3, <1>4, <1>5 DEF Alone, ConfIsWhole

LEMMA LoadAlone ==
    ASSUME IInv, Alone, NEW c \in Clients, Load(c)
    PROVE  Alone'
<1> USE DEF IInv
<1> DEFINE n == task[c].name
<1>1. task[c] \in Local /\ task \in [Tasks -> Local] /\ c \in Tasks /\ n \in Names
      /\ promise \in [Names -> {"none", "present", "absent", "reverted"}]
  BY TaskFacts DEF TypeOK, Local
<1>2. /\ task[c].pc = "load" /\ task[c].fd = "none" /\ task[c].op \in {"add", "rm", "revert"}
      /\ task[c].op = "add" <=> n \in conf.shares
      /\ promise[n] = "none" /\ Busy(c)
  BY DEF Load, At, Alone, EditIsAt, Busy
<1>3. UNCHANGED <<conf, tmp, broken, raced, config, up>>
  BY DEF Load
<1>4. CASE Loads(conf)
  <2>1. task' = [task EXCEPT ![c].pc = "store", ![c].text = conf] /\ promise' = promise
    BY <1>4 DEF Load
  <2>2. task'[c] = [task[c] EXCEPT !.pc = "store", !.text = conf]
    BY <1>1, <2>1
  <2>3. /\ task'[c].pc = "store" /\ task'[c].fd = "none" /\ task'[c].op = task[c].op
        /\ task'[c].name = n /\ task'[c].text = conf
    BY <1>1, <1>2, <2>2 DEF Local
  <2>4. EditIsAt(c)'
    BY <1>2, <1>3, <2>1, <2>3 DEF EditIsAt, Busy
  <2> QED BY <1>1, <1>2, <1>3, <2>1, <2>4, OneGoesOn
<1>5. CASE ~Loads(conf) /\ task[c].op = "add"
  <2>1. task' = [task EXCEPT ![c].pc = "revert"] /\ promise' = promise
    BY <1>5 DEF Load, Goto
  <2>2. task'[c] = [task[c] EXCEPT !.pc = "revert"]
    BY <1>1, <2>1
  <2>3. /\ task'[c].pc = "revert" /\ task'[c].fd = "none" /\ task'[c].op = "add"
        /\ task'[c].name = n
    BY <1>1, <1>2, <1>5, <2>2 DEF Local
  <2>4. EditIsAt(c)'
    BY <1>2, <1>3, <1>5, <2>1, <2>3 DEF EditIsAt, Busy
  <2> QED BY <1>1, <1>2, <1>3, <2>1, <2>4, OneGoesOn
<1>6. CASE ~Loads(conf) /\ task[c].op # "add"
  <2>1. task' = [task EXCEPT ![c] = Idle]
    BY <1>6 DEF Load, Done
  <2>2. promise' = promise \/ promise' = [promise EXCEPT ![n] = "reverted"]
    BY DEF Load
  <2>3. n \notin conf'.shares
    BY <1>2, <1>3, <1>6
  <2>4. PromisesHold'
    <3> HIDE DEF n
    <3> QED BY <1>1, <1>3, <2>2, <2>3 DEF Alone, PromisesHold
  <2>5. task'[c] = Idle
    BY <1>1, <2>1
  <2> QED BY <1>1, <1>2, <1>3, <2>1, <2>4, <2>5, IdleType, OneEnds
<1> QED BY <1>4, <1>5, <1>6

LEMMA StoreAlone ==
    ASSUME IInv, Alone, NEW c \in Clients, Store(c)
    PROVE  Alone'
<1> USE DEF IInv
<1> DEFINE n == task[c].name
           a == CASE task[c].op = "add" -> "present"
                  [] task[c].op = "rm"  -> "absent"
                  [] OTHER              -> "reverted"
<1>1. task[c] \in Local /\ task \in [Tasks -> Local] /\ c \in Tasks /\ n \in Names
      /\ promise \in [Names -> {"none", "present", "absent", "reverted"}]
  BY TaskFacts DEF TypeOK, Local
<1>2. /\ task[c].fd = "none" /\ task[c].op \in {"add", "rm", "revert"}
      /\ task[c].op = "add" <=> n \in conf.shares
      /\ task[c].text.shares = conf.shares /\ Busy(c)
  BY DEF Store, At, Alone, EditIsAt, Busy
<1>3. /\ UNCHANGED <<conf, tmp, broken, raced, up>> /\ config'.shares = conf'.shares
      /\ promise' = [promise EXCEPT ![n] = a]
  BY <1>2 DEF Store
<1>4. IF n \in conf.shares THEN a = "present" ELSE a \in {"absent", "reverted"}
  BY <1>2
<1>5. PromisesHold'
  <2> HIDE DEF n, a
  <2> QED BY <1>1, <1>3, <1>4 DEF Alone, PromisesHold
<1>6. task' = [task EXCEPT ![c] = Idle] \/ task' = [task EXCEPT ![c].pc = "scan"]
  BY DEF Store, Done, Goto
<1>7. task'[c] = Idle \/ task'[c] = [task[c] EXCEPT !.pc = "scan"]
  BY <1>1, <1>6
<1>8. task'[c].pc \in {"idle", "scan"} /\ task'[c].fd = "none"
  BY <1>1, <1>2, <1>7, IdleType DEF Local
<1> QED BY <1>1, <1>2, <1>3, <1>5, <1>6, <1>8, OneEnds

\* What is no part of a command: it may end one, and takes no share.
LEMMA Aside ==
    ASSUME IInv, Alone,
           \A c \in Clients : task'[c] = task[c]
                                 \/ (task'[c].pc \in {"idle", "scan"} /\ task'[c].fd = "none"),
           task'[Loop] = task[Loop] \/ ~Busy(Loop)',
           tmp' = tmp, conf'.shares = conf.shares, promise' = promise,
           broken => broken', raced' = raced, ConfIsWhole',
           ~up' \/ raced' \/ config'.shares = conf.shares \/ (up /\ config' = config)
    PROVE  Alone'
<1>1. \A c \in Clients : EditIsAt(c)' /\ (Busy(c)' => Busy(c))
  <2> SUFFICES ASSUME NEW c \in Clients
               PROVE  EditIsAt(c)' /\ (Busy(c)' => Busy(c))
    OBVIOUS
  <2>1. CASE task'[c] = task[c]
    BY <2>1, EditStays DEF Alone, Busy
  <2>2. CASE task'[c].pc \in {"idle", "scan"} /\ task'[c].fd = "none"
    BY <2>2 DEF EditIsAt, Busy
  <2> QED BY <2>1, <2>2
<1>2. OneAtATime'
  BY <1>1, BusyIsKept DEF Alone
<1>3. ReloadIsFresh'
  <2>1. CASE task'[Loop] = task[Loop]
    BY <1>1, <2>1 DEF Alone, ReloadIsFresh, Busy
  <2>2. CASE ~Busy(Loop)'
    BY <2>2 DEF ReloadIsFresh, Busy
  <2> QED BY <2>1, <2>2
<1>4. PromisesHold'
  BY DEF Alone, PromisesHold
<1> QED BY <1>1, <1>2, <1>3, <1>4 DEF Alone

LEMMA LoopAlone ==
    ASSUME IInv, Alone, Load(Loop) \/ Store(Loop) \/ TakeHup \/ TakeStop
    PROVE  Alone'
<1> USE DEF IInv
<1>1. /\ task[Loop] \in Local /\ task \in [Tasks -> Local] /\ Loop \in Tasks
      /\ Clients \subseteq Tasks /\ Loop \notin Clients
  BY TaskFacts DEF TypeOK
<1>2. \A c \in Clients : task'[c] = task[c]
  BY <1>1 DEF Load, Store, TakeHup, TakeStop, Goto, Done
<1>3. UNCHANGED <<conf, tmp, broken, up>>
  BY DEF Load, Store, TakeHup, TakeStop
<1>4. ConfIsWhole'
  BY <1>3 DEF Alone, ConfIsWhole
<1>5. CASE Load(Loop)
  <2>1. task[Loop].op = "reload" /\ Busy(Loop) /\ UNCHANGED <<raced, config>>
        /\ promise' = promise
    BY <1>5 DEF Load, At, LoopReloads, Busy
  <2>2. CASE ~Loads(conf)
    <3>1. task' = [task EXCEPT ![Loop] = Idle]
      BY <1>5, <2>1, <2>2 DEF Load, Done
    <3>2. ~Busy(Loop)'
      BY <1>1, <3>1, IdleType DEF Busy
    <3>3. up
      BY <1>5 DEF Load, At
    <3> QED BY <1>2, <1>3, <1>4, <2>1, <3>2, <3>3, Aside
  <2>3. CASE Loads(conf)
    <3>1. task' = [task EXCEPT ![Loop].pc = "store", ![Loop].text = conf]
      BY <1>5, <2>3 DEF Load
    <3>2. task'[Loop].text = conf
      BY <1>1, <3>1 DEF Local
    <3>3. ReloadIsFresh'
      BY <1>2, <1>3, <2>1, <3>2 DEF Alone, ReloadIsFresh, Busy
    <3>4. \A c \in Clients : EditIsAt(c)'
      BY <1>2, <1>3, <2>1, EditStays DEF Alone
    <3>5. OneAtATime'
      BY <1>2, BusyIsKept DEF Alone, Busy
    <3>6. PromisesHold'
      BY <1>3, <2>1 DEF Alone, PromisesHold
    <3> QED BY <1>4, <3>3, <3>4, <3>5, <3>6 DEF Alone
  <2> QED BY <2>2, <2>3
<1>6. CASE Store(Loop)
  <2>1. /\ task[Loop].op = "reload" /\ task[Loop].pc = "store" /\ config' = task[Loop].text
        /\ raced' = raced
    BY <1>6 DEF Store, At, LoopReloads
  <2>2. promise' = promise /\ task' = [task EXCEPT ![Loop].pc = "scan"]
    BY <1>6, <2>1 DEF Store, Goto
  <2>3. ~Busy(Loop)'
    BY <1>1, <2>2 DEF Busy, Local
  <2>4. raced' \/ config'.shares = conf.shares
    BY <2>1 DEF Alone, ReloadIsFresh
  <2> QED BY <1>2, <1>3, <1>4, <2>1, <2>2, <2>3, <2>4, Aside
<1>7. CASE TakeHup
  <2>1. raced' = (raced \/ \E c \in Clients : Busy(c)) /\ UNCHANGED <<config, promise>>
        /\ task' = [task EXCEPT ![Loop].pc = "load", ![Loop].op = "reload"]
    BY <1>7 DEF TakeHup
  <2>2. task'[Loop].pc = "load"
    BY <1>1, <2>1 DEF Local
  <2>3. ReloadIsFresh'
    BY <1>2, <2>1, <2>2 DEF ReloadIsFresh, Busy
  <2>4. \A c \in Clients : EditIsAt(c)'
    BY <1>2, <1>3, <2>1, EditStays DEF Alone
  <2>5. OneAtATime'
    BY <1>2, BusyIsKept DEF Alone, Busy
  <2>6. PromisesHold'
    BY <1>3, <2>1 DEF Alone, PromisesHold
  <2> QED BY <1>4, <2>3, <2>4, <2>5, <2>6 DEF Alone
<1>8. CASE TakeStop
  <2>1. UNCHANGED <<config, promise, raced>> /\ task' = [task EXCEPT ![Loop].pc = "exit"] /\ up
    BY <1>8 DEF TakeStop, Goto, At
  <2>2. ~Busy(Loop)'
    BY <1>1, <2>1 DEF Busy, Local
  <2> QED BY <1>2, <1>3, <1>4, <2>1, <2>2, Aside
<1> QED BY <1>5, <1>6, <1>7, <1>8

LEMMA RestAlone ==
    ASSUME IInv, Alone, \/ \E w \in Tasks : EndScan(w)
                        \/ PauseScan \/ CancelScan \/ Hup \/ AskToStop \/ Exit \/ Crash
                        \/ Start \/ EditByHand \/ UNCHANGED vars
    PROVE  Alone'
<1> USE DEF IInv
<1>1. task \in [Tasks -> Local] /\ Loop \in Tasks /\ Clients \subseteq Tasks
  BY TaskFacts DEF TypeOK
<1>2. ASSUME NEW w \in Tasks, EndScan(w)
      PROVE  Alone'
  <2>1. task' = [task EXCEPT ![w] = Idle] /\ up
        /\ UNCHANGED <<conf, tmp, config, up, promise, raced, broken>>
    BY <1>2 DEF EndScan, Done, At
  <2>2. \A v \in Tasks : task'[v] = task[v] \/ task'[v] = Idle
    BY <1>1, <2>1
  <2>3. ConfIsWhole'
    BY <2>1 DEF Alone, ConfIsWhole
  <2> QED BY <1>1, <2>1, <2>2, <2>3, IdleType, Aside DEF Busy
<1>3. CASE Exit \/ Crash
  <2>1. task' = [w \in Tasks |-> Idle] /\ ~up'
        /\ UNCHANGED <<conf, tmp, config, promise, raced, broken>>
    BY <1>3 DEF Exit, Crash, Die
  <2>2. \A v \in Tasks : task'[v] = Idle
    BY <2>1
  <2>3. ConfIsWhole'
    BY <2>1 DEF Alone, ConfIsWhole
  <2> QED BY <1>1, <2>1, <2>2, <2>3, IdleType, Aside DEF Busy
<1>4. CASE Start
  <2>1. config' = conf /\ UNCHANGED <<conf, tmp, task, promise, raced, broken>>
    BY <1>4 DEF Start
  <2>2. ConfIsWhole'
    BY <2>1 DEF Alone, ConfIsWhole
  <2> QED BY <2>1, <2>2, Aside
<1>5. CASE EditByHand
  <2>1. PICK view \in SUBSET Names :
            /\ conf' = [conf EXCEPT !.view = view]
            /\ broken' = (broken \/ ~view \subseteq conf.shares)
    BY <1>5 DEF EditByHand
  <2>2. conf'.shares = conf.shares /\ conf'.view = view /\ conf'.kind = conf.kind
    BY <2>1 DEF TypeOK, Content
  <2>3. ConfIsWhole'
    BY <2>1, <2>2 DEF Alone, ConfIsWhole
  <2>4. UNCHANGED <<tmp, config, up, task, promise, raced>> /\ (broken => broken')
    BY <1>5, <2>1 DEF EditByHand
  <2>5. PromisesHold'
    BY <2>2, <2>4 DEF Alone, PromisesHold
  <2>6. \A c \in Clients : EditIsAt(c)'
    BY <2>2, <2>4, EditStays DEF Alone
  <2> QED BY <2>2, <2>3, <2>4, <2>5, <2>6 DEF Alone, OneAtATime, ReloadIsFresh, Busy
<1>6. CASE PauseScan \/ CancelScan \/ Hup \/ AskToStop \/ UNCHANGED vars
  <2>1. UNCHANGED <<conf, tmp, config, up, task, promise, raced, broken>>
    BY <1>6 DEF PauseScan, CancelScan, Hup, AskToStop, vars
  <2>2. /\ ConfIsWhole' /\ PromisesHold' /\ OneAtATime' /\ ReloadIsFresh'
    BY <2>1 DEF Alone, ConfIsWhole, PromisesHold, OneAtATime, ReloadIsFresh, Busy
  <2>3. \A c \in Clients : EditIsAt(c)'
    BY <2>1, EditStays DEF Alone
  <2> QED BY <2>2, <2>3 DEF Alone
<1> QED BY <1>2, <1>3, <1>4, <1>5, <1>6

LEMMA AloneNext == IInv /\ [Next]_vars => IInv'
<1> SUFFICES ASSUME IInv, [Next]_vars, ~overlapped', ~misread'
             PROVE  Alone'
  BY NextType, LoopNext DEF IInv
<1>1. ASSUME NEW c \in Clients, NEW op \in {"add", "rm"}, NEW n \in Names, StartEdit(c, op, n)
      PROVE  Alone'
  BY <1>1, StartEditAlone
<1>2. ~overlapped /\ ~misread
  <2>1. ASSUME NEW c \in Clients, NEW op \in {"add", "rm"}, NEW n \in Names, NEW text,
               Edit(c, op, n, text), misread => misread'
        PROVE  ~overlapped /\ ~misread
    <3>1. overlapped' = (overlapped \/ \E d \in Clients : Busy(d))
      BY <2>1 DEF Edit
    <3> QED BY <2>1, <3>1
  <2>5. ASSUME NEW c \in Clients, NEW op \in {"add", "rm"}, NEW n \in Names, StartEdit(c, op, n)
        PROVE  ~overlapped /\ ~misread
    BY <2>1, <2>5 DEF StartEdit
  <2>2. ASSUME NEW c \in Clients, OpenTmp(c) \/ WriteTmp(c) \/ Rename(c) \/ Revert(c)
        PROVE  ~overlapped /\ ~misread
    BY <2>2 DEF OpenTmp, WriteTmp, Rename, Revert
  <2>3. ASSUME NEW w \in Tasks, Load(w) \/ Store(w) \/ EndScan(w)
        PROVE  ~overlapped /\ ~misread
    BY <2>3 DEF Load, Store, EndScan
  <2>4. CASE PauseScan \/ CancelScan \/ Hup \/ AskToStop \/ TakeHup \/ TakeStop \/ Exit
             \/ Crash \/ Start \/ EditByHand \/ UNCHANGED vars
    BY <2>4 DEF PauseScan, CancelScan, Hup, AskToStop, TakeHup, TakeStop, Exit, Crash, Die,
                Start, EditByHand, vars
  <2>6. \A c \in Clients, n \in Names : ~AddUnread(c, n)
    BY DEF AddUnread
  <2> QED BY <2>2, <2>3, <2>4, <2>5, <2>6 DEF Next
<1>3. Alone
  BY <1>2 DEF IInv
<1>4. \A c \in Clients, n \in Names : ~AddUnread(c, n)
  BY DEF AddUnread
<1> QED BY <1>1, <1>3, <1>4, OpenTmpAlone, WriteTmpAlone, RenameAlone, RevertAlone,
           LoadAlone, StoreAlone, LoopAlone, RestAlone DEF Next, Tasks

\* write_config_atomic: one command at a time, that can read the file, leaves, wherever
\* the daemon dies, a file it starts with and that has lost nothing.
THEOREM FileStaysWhole == Spec => []FileIsWhole
<1>1. IInv => FileIsWhole
  BY DEF IInv, Alone, ConfIsWhole, FileIsWhole, Loads
<1> QED BY <1>1, InitAlone, AloneNext, PTL DEF Spec

\* handle_share_add and handle_share_remove: what they answer stays true in the file
\* and in use, as long as they can read it and come one at a time, whatever is reloaded, edited by hand or restarted beside.
THEOREM AnswersAreKept == Spec => []AckedEditIsKept
<1>1. IInv => AckedEditIsKept
  BY DEF IInv, Alone, PromisesHold, AckedEditIsKept
<1> QED BY <1>1, InitAlone, AloneNext, PTL DEF Spec
=============================================================================
