------------------------------ MODULE Transfers ------------------------------
(***************************************************************************)
(* The background transfer manager (filestrd/src/transfers.rs): start,     *)
(* run, transfer, patch, fail, export and Transfers::cancel, the part of   *)
(* fetch_source (search.rs) they wait for, and the control connection that *)
(* follows a foreground transfer, stream_transfer (ctl_server.rs).         *)
(*                                                                         *)
(* All transfers here are of one blob of Size chunks, so that they share   *)
(* what is in the local store.  A transfer is a task; each source it tries *)
(* gets a second task, the pump, that takes the progress numbers out of a  *)
(* bounded channel and patches the transfer's info.  Cancelling drops the  *)
(* first task's future wherever it waits and leaves the pump to itself.    *)
(***************************************************************************)
EXTENDS Naturals, Sequences

CONSTANTS
    Ids,         \* transfer ids
    Size,        \* chunks of the blob
    Ranged,      \* the transfers of a range: the first chunk
    Peers,       \* sources there may be
    Reliable,    \* those of them that answer without fault
    Listings,    \* what candidates() may return: sequences of sources
    Queue,       \* capacity of the progress channel
    BadOut       \* transfers whose output cannot be written

ASSUME TransfersAssumption ==
    /\ Size \in Nat \ {0} /\ Queue \in Nat \ {0}
    /\ Ranged \subseteq Ids /\ BadOut \subseteq Ids
    /\ Reliable \subseteq Peers
    /\ Listings \subseteq Seq(Peers)

VARIABLES
    info,     \* info[t]: TransferInfo of the map's entry, as the watch has it
    task,     \* task[t]: where run is
    cancel,   \* the transfers whose token is cancelled
    queue,    \* queue[t]: progress numbers between fetch_source and the pump
    client,   \* client[t]: the foreground control connection of t
    unseen,   \* the transfers whose watch has a value the client has not seen
    have      \* chunks of the blob in the local store

vars == <<info, task, cancel, queue, client, unseen, have>>

Terminal == {"done", "failed", "cancelled"}

\* "none" before the transfer is started.
NoInfo == [status |-> "none", transferred |-> 0, total |-> 0]
Info == [status: {"none", "queued", "active"} \cup Terminal,
         transferred: 0..Size, total: 0..Size]

\* todo has the source at work and the ones after it; got, the chunks it has
\* delivered; ok, how it went.
Idle == [pc |-> "none", todo |-> <<>>, got |-> 0, ok |-> FALSE]

Whole == 1..Size
Wanted(t) == IF t \in Ranged THEN {1} ELSE Whole
Length(t) == IF t \in Ranged THEN 1 ELSE Size

Init ==
    /\ info = [t \in Ids |-> NoInfo]
    /\ task = [t \in Ids |-> Idle]
    /\ cancel = {}
    /\ queue = [t \in Ids |-> <<>>]
    /\ client = [t \in Ids |-> "none"]
    /\ unseen = {}
    /\ have = {}

-----------------------------------------------------------------------------
\* Mutant: only progress is published.
Patched_ProgressOnly(t, i) ==
    /\ info' = [info EXCEPT ![t] = i]
    /\ unseen' = IF client[t] = "waiting" /\ i.transferred # info[t].transferred
                 THEN unseen \cup {t} ELSE unseen

\* patch: the info and, if there still is a receiver, its copy on the watch.
Patched(t, i) ==
    /\ info' = [info EXCEPT ![t] = i]
    /\ unseen' = IF client[t] = "waiting" THEN unseen \cup {t} ELSE unseen

\* start, for a get the client follows; one in the background is one it leaves
\* at once.  The size of the blob may not be known; that of a range is.
Start(t) ==
    /\ info[t].status = "none"
    /\ \E total \in {Length(t)} \cup (IF t \in Ranged THEN {} ELSE {0}) :
          info' = [info EXCEPT ![t] = [status |-> "queued", transferred |-> 0, total |-> total]]
    /\ unseen' = unseen \cup {t}
    /\ task' = [task EXCEPT ![t].pc = "spawned"]
    /\ client' = [client EXCEPT ![t] = "waiting"]
    /\ UNCHANGED <<cancel, queue, have>>

\* Transfers::cancel, at any time, also of a transfer that is over.
Cancel(t) ==
    /\ info[t].status # "none"
    /\ cancel' = cancel \cup {t}
    /\ UNCHANGED <<info, task, queue, client, unseen, have>>

\* The end of run; what it had left to try is kept as history.
Over(t) == task' = [task EXCEPT ![t] = [Idle EXCEPT !.pc = "over", !.todo = task[t].todo]]

\* The task waits inside transfer, so its select! still looks at the token.
InTransfer(t) == task[t].pc \in {"spawned", "check", "list", "fetch", "drain"}

\* run's cancelled branch: the transfer future is dropped.
Cancelled(t) ==
    /\ t \in cancel /\ InTransfer(t)
    /\ Patched(t, [info[t] EXCEPT !.status = "cancelled"])
    /\ Over(t)
    /\ UNCHANGED <<cancel, queue, client, have>>

Activate(t) ==
    /\ task[t].pc = "spawned"
    /\ Patched(t, [info[t] EXCEPT !.status = "active"])
    /\ task' = [task EXCEPT ![t].pc = "check"]
    /\ UNCHANGED <<cancel, queue, client, have>>

\* A whole blob that is complete in the store, perhaps by another transfer's
\* doing, needs no source.
CheckLocal(t) ==
    /\ task[t].pc = "check"
    /\ task' = [task EXCEPT ![t].pc =
                   IF t \notin Ranged /\ have = Whole THEN "export" ELSE "list"]
    /\ UNCHANGED <<info, cancel, queue, client, unseen, have>>

\* fail
Fail(t) ==
    /\ Patched(t, [info[t] EXCEPT !.status = "failed"])
    /\ Over(t)

\* candidates, and the error if there are none.
List(t) ==
    /\ task[t].pc = "list"
    /\ \E l \in Listings :
          \/ /\ l # <<>>
             /\ task' = [task EXCEPT ![t].pc = "fetch", ![t].todo = l]
             /\ UNCHANGED <<info, unseen>>
          \/ /\ l = <<>>
             /\ Fail(t)
    /\ UNCHANGED <<cancel, queue, client, have>>

\* One more verified chunk from the source, and its progress number.
Fetch(t) ==
    /\ task[t].pc = "fetch" /\ task[t].got < Length(t)
    /\ Len(queue[t]) < Queue
    /\ have' = have \cup {task[t].got + 1}
    /\ task' = [task EXCEPT ![t].got = @ + 1]
    /\ queue' = [queue EXCEPT ![t] = Append(@, task[t].got + 1)]
    /\ UNCHANGED <<info, cancel, client, unseen>>

\* Mutant: a stream that ends before everything came is taken for a complete one.
Complete_AtEnd(t) == task[t].got > 0

\* GetProgressItem::Done
Complete(t) == task[t].got = Length(t)

\* fetch_source returns: done, or with any of its errors and timeouts, which a
\* source that works does not cause.  The sender is dropped.
FetchOver(t) ==
    /\ task[t].pc = "fetch"
    /\ \/ /\ Complete(t)
          /\ task' = [task EXCEPT ![t].pc = "drain", ![t].ok = TRUE]
       \/ /\ Head(task[t].todo) \notin Reliable
          /\ task' = [task EXCEPT ![t].pc = "drain", ![t].ok = FALSE]
    /\ UNCHANGED <<info, cancel, queue, client, unseen, have>>

\* Mutant: the same source is tried again.
After_Again(todo) == todo

\* Mutant: the first source that fails fails the transfer.
After_None(todo) == <<>>

\* The sources that are left to try.
After(todo) == Tail(todo)

\* Mutant: the pump is not waited for.
Pumped_Detached(t) == TRUE

\* The pump is over when the sender is dropped and the channel empty.
Pumped(t) == queue[t] = <<>>

\* transfer goes on when the pump is over: to the export, to the next source or,
\* without one, to the error.
Drained(t) ==
    LET rest == After(task[t].todo)
    IN  /\ task[t].pc = "drain" /\ Pumped(t)
        /\ \/ /\ task[t].ok
              /\ task' = [task EXCEPT ![t].pc = "export"]
              /\ UNCHANGED <<info, unseen>>
           \/ /\ ~task[t].ok /\ rest # <<>>
              /\ task' = [task EXCEPT ![t].pc = "fetch", ![t].todo = rest, ![t].got = 0]
              /\ UNCHANGED <<info, unseen>>
           \/ /\ ~task[t].ok /\ rest = <<>>
              /\ Fail(t)
        /\ UNCHANGED <<cancel, queue, client, have>>

\* export, and the last patch of run.  The token is no longer looked at.
Export(t) ==
    LET total == IF info[t].total = 0 THEN Length(t) ELSE info[t].total
    IN  /\ task[t].pc = "export"
        /\ IF t \in BadOut THEN Fail(t)
           ELSE /\ Patched(t, [status |-> "done", transferred |-> total, total |-> total])
                /\ Over(t)
        /\ UNCHANGED <<cancel, queue, client, have>>

\* Mutant: the pump marks the transfer as active.
Progressed_Active(i, n) == [i EXCEPT !.transferred = n, !.status = "active"]

\* Mutant: the numbers are taken for increments.
Progressed_Sum(i, n) == [i EXCEPT !.transferred = @ + n]

Progressed(i, n) == [i EXCEPT !.transferred = n]

\* One step of the pump, which may outlive the transfer.
Pump(t) ==
    /\ queue[t] # <<>>
    /\ Patched(t, Progressed(info[t], Head(queue[t])))
    /\ queue' = [queue EXCEPT ![t] = Tail(@)]
    /\ UNCHANGED <<task, cancel, client, have>>

\* stream_transfer looks at the watch when it has changed and answers once the
\* status is terminal.
Follow(t) ==
    /\ client[t] = "waiting" /\ t \in unseen
    /\ unseen' = unseen \ {t}
    /\ client' = [client EXCEPT ![t] = IF info[t].status \in Terminal THEN info[t].status ELSE @]
    /\ UNCHANGED <<info, task, cancel, queue, have>>

\* The client goes away; the transfer does not notice.
Leave(t) ==
    /\ client[t] = "waiting"
    /\ client' = [client EXCEPT ![t] = "gone"]
    /\ unseen' = unseen \ {t}
    /\ UNCHANGED <<info, task, cancel, queue, have>>

Run(t) ==
    \/ Cancelled(t) \/ Activate(t) \/ CheckLocal(t) \/ List(t)
    \/ Fetch(t) \/ FetchOver(t) \/ Drained(t) \/ Export(t)

Next == \E t \in Ids : Start(t) \/ Cancel(t) \/ Run(t) \/ Pump(t) \/ Follow(t) \/ Leave(t)

Spec == Init /\ [][Next]_vars

\* The runtime polls the tasks, every wait of fetch_source has a timeout, and
\* a connection that is there reads what it is sent.
FairSpec ==
    /\ Spec
    /\ \A t \in Ids : WF_vars(Run(t)) /\ WF_vars(Pump(t)) /\ WF_vars(Follow(t))

-----------------------------------------------------------------------------
\* Every variable has its shape; no progress number is beyond what is fetched,
\* though sources that take turns each count from zero.
TypeOK ==
    /\ info \in [Ids -> Info]
    /\ \A t \in Ids :
          /\ task[t].pc \in {"none", "spawned", "check", "list", "fetch", "drain", "export", "over"}
          /\ task[t].todo \in Seq(Peers)
          /\ task[t].got \in 0..Length(t) /\ task[t].ok \in BOOLEAN
          /\ queue[t] \in Seq(1..Length(t)) /\ Len(queue[t]) <= Queue
    /\ cancel \in SUBSET Ids /\ unseen \in SUBSET Ids
    /\ client \in [Ids -> {"none", "waiting", "gone"} \cup Terminal]
    /\ have \in SUBSET Whole

\* run: what a transfer exports and calls done was fetched and verified, by
\* itself, by a transfer it shares the blob with, or by several sources in turn.
DoneWasFetched ==
    \A t \in Ids : task[t].pc = "export" \/ info[t].status = "done" => Wanted(t) \subseteq have

\* transfer waits for its pump before it goes on, so no progress number that is
\* still under way overwrites what a finished transfer shows.
DoneShowsTotal ==
    \A t \in Ids : info[t].status = "done" =>
        /\ info[t].transferred = info[t].total
        /\ info[t].total = Length(t)

\* "Stream the content into our store from the first source that works": a
\* transfer that found one among its candidates and whose output can be written
\* does not fail.
WorkingSourceIsUsed ==
    \A t \in Ids \ BadOut :
        info[t].status = "failed" =>
            \A i \in DOMAIN task[t].todo : task[t].todo[i] \notin Reliable

\* A transfer that is over stays so, whatever is cancelled, pumped or patched
\* after it.
TerminalIsFinal ==
    [][\A t \in Ids : info[t].status \in Terminal => info'[t].status = info[t].status]_vars

\* Each transfer ends: every source is tried once, and nothing that fails, is
\* slow or goes away holds it up.
TransfersEnd ==
    \A t \in Ids : info[t].status # "none" ~> info[t].status \in Terminal

\* A foreground get is answered with how the transfer ended, though the watch
\* keeps only the last of several values.
ClientIsAnswered ==
    \A t \in Ids :
        client[t] = "waiting" ~> client[t] = "gone" \/ (client[t] \in Terminal /\ client[t] = info[t].status)
=============================================================================
