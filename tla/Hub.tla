--------------------------------- MODULE Hub ---------------------------------
(***************************************************************************)
(* One hub of the chat plane: its registry on every node, the three ways   *)
(* in (hub join, a join queued while chat was off, hub request and hub     *)
(* admit), and its messages (filestrd/src/chat.rs, with the wrapper over   *)
(* MLS, the in-memory relay and its transport in filestr-chat).            *)
(*                                                                         *)
(* MLS is a library.  A commit takes its group from one epoch to the next; *)
(* a node reads a message of an epoch it was in, once it is at that epoch, *)
(* and follows a commit of the epoch it is at.  What it cannot process it  *)
(* ignores and may be offered again.  The MLS store and hubs.json survive  *)
(* a restart, pending_hubs.json does unless it was being written, and the  *)
(* relay does not.                                                         *)
(***************************************************************************)
EXTENDS Naturals, FiniteSets

CONSTANTS
    Owner,        \* the node the hub is created on
    Invited,      \* the nodes that have a ticket for it
    Askers,       \* the nodes that have its address, and ask to be admitted
    Embedded,     \* [chat] embedded_relay of the owner
    External,     \* an external relay is in [chat] relays of every node
    FullDisk,     \* the nodes whose writes of hubs.json and pending_hubs.json may fail
    MaxEpoch,     \* bound on the epochs of the group
    MaxSpent,     \* bound on the messages sent and the writes that failed, together
    MaxRestarts   \* bound on the restarts of all nodes

ASSUME HubAssumption ==
    /\ Owner \notin Invited \cup Askers
    /\ Embedded \in BOOLEAN /\ External \in BOOLEAN
    /\ MaxEpoch \in Nat \ {0}
    /\ MaxSpent \in Nat /\ MaxRestarts \in Nat

VARIABLES
    mls,        \* mls[n]: the epoch n is at and the one it joined in, 0 if none
    got,        \* got[n]: the messages in n's MLS store
    roster,     \* the members by the owner's group state
    hubs,       \* the nodes whose registry has the hub
    file,       \* the nodes whose hubs.json has it
    unsaved,    \* history: those whose last write of hubs.json for the hub failed
    queue,      \* the members with the hub's ticket in PendingHubs
    qfile,      \* the members whose pending_hubs.json has it
    torn,       \* those whose pending_hubs.json is truncated and being written
    spoilt,     \* history: those of whose pending_hubs.json a write failed or was
                \* cut short since the ticket was last in it
    chat,       \* the nodes that run with chat enabled
    undrained,  \* the members whose startup has yet to drain its queue
    requests,   \* the members with a request ticket no admit has used
    posted,     \* those whose request is gift-wrapped on an external relay
    seen,       \* the gift wraps the owner's listener has seen
    pending,    \* ChatState::pending
    flow,       \* flow[n]: n's way into the hub, on whichever node it is
    relay,      \* the owner's in-memory relay
    ext,        \* the external relay
    forgotten,  \* history: what a restart took from the relay or the way there
    sent,       \* history: messages whose author was told a relay has them
    acked,      \* history: nodes whose create, join or admit was answered Ok
    queued,     \* history: members whose join was answered "queued"
    tried,      \* history: requests admitted, by hand or by auto_admit
    restarts

vars == <<mls, got, roster, hubs, file, unsaved, queue, qfile, torn, spoilt, chat,
          undrained, requests, posted, seen, pending, flow, relay, ext, forgotten, sent, acked, queued, tried, restarts>>
group == <<mls, got, roster>>
tickets == <<queue, qfile, torn, spoilt>>
registry == <<hubs, file, unsaved, tickets, chat, undrained>>
dms == <<requests, posted, seen, pending, tried>>
events == <<relay, ext, forgotten, sent>>
answers == <<acked, queued>>

Members == Invited \cup Askers
Nodes == Members \cup {Owner}
Epochs == 0..MaxEpoch

\* A commit is named by the epoch it begins, a message by its author and epoch.
Commit(e) == [by |-> Owner, epoch |-> e, commit |-> TRUE]
Message(n, e) == [by |-> n, epoch |-> e, commit |-> FALSE]
Event == [by : Nodes, epoch : Epochs, commit : BOOLEAN]
ChatEvent == [by : Nodes, epoch : Epochs, commit : {FALSE}]

Idle == [kind |-> "none", pc |-> "idle", epoch |-> 0]
Flow == [kind : {"none", "create", "join", "queue", "drain", "admit", "orphan"},
         pc : {"idle", "saving", "asked", "merged", "answered", "joined", "inserted", "saved"},
         epoch : Epochs]

At(n, pc) == flow[n].pc = pc
Goto(n, pc) == flow' = [flow EXCEPT ![n].pc = pc]
Done(n) == flow' = [flow EXCEPT ![n] = Idle]

Init ==
    /\ mls = [n \in Nodes |-> [epoch |-> 0, joined |-> 0]]
    /\ got = [n \in Nodes |-> {}]
    /\ roster = {} /\ hubs = {} /\ file = {} /\ unsaved = {}
    /\ queue = {} /\ qfile = {} /\ torn = {} /\ spoilt = {}
    /\ \E S \in SUBSET Members : chat = S \cup {Owner}
    /\ undrained = {}
    /\ requests = {} /\ posted = {} /\ seen = {} /\ pending = {} /\ tried = {}
    /\ flow = [n \in Nodes |-> Idle]
    /\ relay = {} /\ ext = {} /\ forgotten = {} /\ sent = {}
    /\ acked = {} /\ queued = {}
    /\ restarts = 0

\* What is left of MaxSpent is for either of the two.
Messages == UNION {got[n] : n \in Nodes}
Spent == Cardinality(Messages) + Cardinality(unsaved \cup spoilt)

CanFail(n) == n \in FullDisk /\ Spent < MaxSpent

-----------------------------------------------------------------------------
(* The ways in, up to the owner.                                           *)

\* chat::create, up to the group in the MLS store.
Create ==
    /\ mls[Owner].epoch = 0 /\ At(Owner, "idle")
    /\ mls' = [mls EXCEPT ![Owner] = [epoch |-> 1, joined |-> 1]]
    /\ flow' = [flow EXCEPT ![Owner] = [kind |-> "create", pc |-> "joined", epoch |-> 1]]
    /\ UNCHANGED <<got, roster, registry, dms, events, answers, restarts>>

\* chat::join with a ticket chat::invite made for a hub in its registry, its
\* invite redeemed: the Join request goes to the owner ...
Join(m) ==
    /\ m \in Invited \cap chat /\ m \notin hubs
    /\ At(m, "idle") /\ Owner \in hubs
    /\ flow' = [flow EXCEPT ![m] = [kind |-> "join", pc |-> "asked", epoch |-> 0]]
    /\ UNCHANGED <<group, registry, dms, events, answers, restarts>>

\* ... or, with chat off, the ticket is put in the queue, which is saved, unless it
\* is there already, and the user told so.  The lock of the queue is held meanwhile.
JoinQueued(m) ==
    /\ m \in Invited \ (chat \cup torn)
    /\ At(m, "idle") /\ Owner \in hubs
    /\ \/ /\ m \notin queue
          /\ queue' = queue \cup {m}
          /\ torn' = torn \cup {m}
          /\ flow' = [flow EXCEPT ![m] = [kind |-> "queue", pc |-> "saving", epoch |-> 0]]
          /\ UNCHANGED queued
       \/ /\ m \in queue
          /\ queued' = queued \cup {m}
          /\ UNCHANGED <<queue, torn, flow>>
    /\ UNCHANGED <<group, hubs, file, unsaved, qfile, spoilt, chat, undrained, dms, events,
                   acked, restarts>>

\* The queue is saved on account of another hub's ticket, queued or drained, which is
\* of no account to one that does not hold this hub's.
SaveOther(m) ==
    /\ m \in (queue \cup qfile) \ torn
    /\ torn' = torn \cup {m}
    /\ UNCHANGED <<group, hubs, file, unsaved, queue, qfile, spoilt, chat, undrained, dms, flow,
                   events, answers, restarts>>

\* PendingHubs::save writes the tickets in place and passes over every error: the
\* file may be left as it was or cut short, which loads as an empty queue.
EndSave(m) ==
    /\ m \in torn
    /\ torn' = torn \ {m}
    /\ \/ /\ qfile' = (qfile \ {m}) \cup (queue \cap {m})
          /\ spoilt' = spoilt \ (queue \cap {m})
       \/ /\ CanFail(m)
          /\ qfile' \in {qfile, qfile \ {m}}
          /\ spoilt' = spoilt \cup {m}
    /\ IF At(m, "saving")
       THEN Done(m) /\ queued' = queued \cup {m}
       ELSE UNCHANGED <<flow, queued>>
    /\ UNCHANGED <<group, hubs, file, unsaved, queue, chat, undrained, dms, events, acked,
                   restarts>>

\* Mutant: the queue is emptied before its tickets are worked off.
Drain_Emptied(m) ==
    /\ At(m, "idle") /\ m \in undrained \ torn
    /\ undrained' = undrained \ {m}
    /\ queue' = queue \ {m}
    /\ torn' = torn \cup {m}
    /\ flow' = [flow EXCEPT ![m] = [kind |-> "drain", pc |-> "asked", epoch |-> 0]]
    /\ UNCHANGED <<group, hubs, file, unsaved, qfile, spoilt, chat, dms, events, answers,
                   restarts>>

\* chat::process_pending_hubs, once after the start.
Drain(m) ==
    /\ At(m, "idle") /\ m \in undrained \ torn
    /\ undrained' = undrained \ {m}
    /\ flow' = [flow EXCEPT ![m] = [kind |-> "drain", pc |-> "asked", epoch |-> 0]]
    /\ UNCHANGED <<group, hubs, file, unsaved, tickets, chat, dms, events, answers, restarts>>

\* chat::request: a ticket with an invite and a key package, to be pasted or,
\* given an address, posted in a gift wrap; an error when no relay takes it.
Request(m) ==
    /\ m \in Askers \cap chat /\ m \notin hubs \cup requests \cup tried
    /\ requests' = requests \cup {m}
    /\ posted' \in {posted} \cup (IF External THEN {posted \cup {m}} ELSE {})
    /\ UNCHANGED <<group, registry, seen, pending, tried, flow, events, answers, restarts>>

StartAdmit(m) ==
    /\ flow' = [flow EXCEPT ![m] = [kind |-> "admit", pc |-> "asked", epoch |-> 0]]
    /\ tried' = tried \cup {m}

\* chat::handle_dm, for a gift wrap a listener delivers, whichever relays it
\* came by.  auto_admit is read for each; the admit it spawns fails when there
\* is no hub, and nobody tries again.
HandleDm(m) ==
    /\ m \in posted \ seen
    /\ seen' = seen \cup {m}
    /\ \/ /\ pending' = pending \cup {m}
          /\ UNCHANGED <<tried, flow>>
       \/ /\ At(m, "idle") /\ Owner \in hubs
          /\ StartAdmit(m)
          /\ UNCHANGED pending
       \/ /\ Owner \notin hubs
          /\ tried' = tried \cup {m}
          /\ UNCHANGED <<pending, flow>>
    /\ UNCHANGED <<group, registry, requests, posted, events, answers, restarts>>

\* chat::admit by hand, with resolve_owned_hub and the requester's invite
\* redeemed.  Nothing leaves `pending`.
Admit(m) ==
    /\ m \in requests /\ At(m, "idle")
    /\ Owner \in hubs
    /\ StartAdmit(m)
    /\ UNCHANGED <<group, registry, requests, posted, seen, pending, events, answers, restarts>>

-----------------------------------------------------------------------------
(* The owner adds the member, the member joins.                            *)

\* Mls::add_member refuses a key package the group has.  Whether it takes a
\* new one of somebody who is a member already is up to the library.
CanAdd(m) == flow[m].kind # "admit" \/ m \in requests

\* chat::add_member, up to the merged commit: the group on the owner's disk has
\* the member.
AddMember(m) ==
    /\ At(m, "asked") /\ CanAdd(m)
    /\ Owner \in hubs /\ mls[Owner].epoch < MaxEpoch
    /\ LET e == mls[Owner].epoch + 1
       IN  /\ mls' = [mls EXCEPT ![Owner].epoch = e]
           /\ flow' = [flow EXCEPT ![m].pc = "merged", ![m].epoch = e]
    /\ roster' = roster \cup {m}
    /\ requests' = IF flow[m].kind = "admit" THEN requests \ {m} ELSE requests
    /\ UNCHANGED <<got, registry, posted, seen, pending, tried, events, answers, restarts>>

\* Mutant: nothing is published when the one who asked has hung up.
PublishCommit_Abandoned(m) ==
    /\ At(m, "merged")
    /\ IF flow[m].kind = "orphan"
       THEN Done(m) /\ UNCHANGED relay
       ELSE Goto(m, "answered") /\ relay' = relay \cup {Commit(flow[m].epoch)}
    /\ UNCHANGED <<group, registry, dms, ext, forgotten, sent, answers, restarts>>

\* ... and from there on: the commit is published for the other members, to the
\* in-memory relay only, and the welcome sent.
PublishCommit(m) ==
    /\ At(m, "merged")
    /\ relay' = relay \cup {Commit(flow[m].epoch)}
    /\ IF flow[m].kind = "orphan" THEN Done(m) ELSE Goto(m, "answered")
    /\ UNCHANGED <<group, registry, dms, ext, forgotten, sent, answers, restarts>>

\* Mls::join_from_welcome, on the answer to Join or on the Welcome request.
JoinFromWelcome(m) ==
    /\ At(m, "answered") /\ m \in chat
    /\ mls' = [mls EXCEPT ![m] = [epoch |-> flow[m].epoch, joined |-> flow[m].epoch]]
    /\ Goto(m, "joined")
    /\ UNCHANGED <<got, roster, registry, dms, events, answers, restarts>>

\* Mutant: handle_welcome does not save the registry.
InsertHub_Unsaved(n) ==
    /\ At(n, "joined")
    /\ hubs' = hubs \cup {n}
    /\ Goto(n, IF flow[n].kind = "admit" THEN "saved" ELSE "inserted")
    /\ UNCHANGED <<group, file, unsaved, tickets, chat, undrained, dms, events, answers, restarts>>

\* create, complete_hub_join and handle_welcome: the record is inserted ...
InsertHub(n) ==
    /\ At(n, "joined")
    /\ hubs' = hubs \cup {n}
    /\ Goto(n, "inserted")
    /\ UNCHANGED <<group, file, unsaved, tickets, chat, undrained, dms, events, answers, restarts>>

\* ... and hubs.json written, beside the old one; a failure is only logged.
SaveHubs(n) ==
    /\ At(n, "inserted")
    /\ \/ /\ file' = file \cup {n}
          /\ unsaved' = unsaved \ {n}
       \/ /\ CanFail(n)
          /\ unsaved' = unsaved \cup {n}
          /\ UNCHANGED file
    /\ Goto(n, "saved")
    /\ UNCHANGED <<group, hubs, tickets, chat, undrained, dms, events, answers, restarts>>

\* Then create, join or admit is answered, or the drained ticket removed and the
\* queue saved.
Answer(n) ==
    /\ At(n, "saved")
    /\ Done(n)
    /\ acked' = IF flow[n].kind \in {"create", "join", "admit"} THEN acked \cup {n} ELSE acked
    /\ IF flow[n].kind = "drain"
       THEN n \notin torn /\ queue' = queue \ {n} /\ torn' = torn \cup {n}
       ELSE UNCHANGED <<queue, torn>>
    /\ UNCHANGED <<group, hubs, file, unsaved, qfile, spoilt, chat, undrained, dms, events,
                   queued, restarts>>

\* A call between the two nodes fails or its answer is lost.  What the other
\* node has begun it finishes, unasked for.
LoseCall(m) ==
    /\ \/ /\ At(m, "asked") \/ At(m, "answered")
          /\ Done(m)
       \/ /\ \/ At(m, "merged") /\ flow[m].kind # "admit"
             \/ flow[m].kind = "admit" /\ flow[m].pc \in {"joined", "inserted", "saved"}
          /\ flow' = [flow EXCEPT ![m].kind = "orphan"]
    /\ UNCHANGED <<group, registry, dms, events, answers, restarts>>

-----------------------------------------------------------------------------
(* Messages.                                                               *)

\* chat::send.  The message is in the author's own store whatever becomes of
\* it.  The owner's goes to its relay; a member's goes to the owner, where it is
\* stored if the relay is served, or the call fails, or the relay's OK does not
\* come in time, which is no failure.  Then to the external relay, if it answers.
Send(n) ==
    LET ev == Message(n, mls[n].epoch)
    IN  /\ n \in hubs \cap chat /\ mls[n].epoch > 0
        /\ ev \notin got[n] /\ Spent < MaxSpent
        /\ got' = [got EXCEPT ![n] = @ \cup {ev}]
        /\ \E stored \in BOOLEAN, posts \in BOOLEAN :
              /\ n = Owner => stored
              /\ stored => n = Owner \/ Embedded
              /\ posts => External
              /\ relay' = IF stored THEN relay \cup {ev} ELSE relay
              /\ ext' = IF posts THEN ext \cup {ev} ELSE ext
              /\ sent' = IF stored \/ posts THEN sent \cup {ev} ELSE sent
        /\ UNCHANGED <<mls, roster, registry, dms, flow, forgotten, answers, restarts>>

\* What n can fetch; a fetch that fails or is cut short returns less.
Fetchable(n) == (IF n = Owner \/ Embedded THEN relay ELSE {}) \cup ext

\* With these events a node gets from epoch e to `last`: along the commits without
\* a gap.
Follows(e, last, evs) ==
    /\ \A k \in e + 1..last : Commit(k) \in evs
    /\ last = MaxEpoch \/ Commit(last + 1) \notin evs

IsNew(n, ev) == IF ev.commit THEN ev.epoch > mls[n].epoch ELSE ev \notin got[n]

\* Mutant: commits are taken for messages.
Log_Commits(n) ==
    /\ n \in hubs \cap chat /\ mls[n].epoch > 0
    /\ \E evs \in SUBSET {ev \in Fetchable(n) : IsNew(n, ev)}, e \in mls[n].epoch..MaxEpoch :
          /\ Follows(mls[n].epoch, e, evs)
          /\ mls' = [mls EXCEPT ![n].epoch = e]
          /\ got' = [got EXCEPT ![n] = @ \cup
                        {ev \in evs : mls[n].joined <= ev.epoch /\ ev.epoch <= e}]
    /\ UNCHANGED <<roster, registry, dms, flow, events, answers, restarts>>

\* chat::log: fetch, and process everything in whatever order it came.
Log(n) ==
    /\ n \in hubs \cap chat /\ mls[n].epoch > 0
    /\ \E evs \in SUBSET {ev \in Fetchable(n) : IsNew(n, ev)}, e \in mls[n].epoch..MaxEpoch :
          /\ Follows(mls[n].epoch, e, evs)
          /\ mls' = [mls EXCEPT ![n].epoch = e]
          /\ got' = [got EXCEPT ![n] = @ \cup
                        {ev \in evs : ~ev.commit /\ mls[n].joined <= ev.epoch /\ ev.epoch <= e}]
    /\ UNCHANGED <<roster, registry, dms, flow, events, answers, restarts>>

-----------------------------------------------------------------------------
(* Restarts.                                                               *)

Owed == {Commit(flow[m].epoch) : m \in {k \in Members : At(k, "merged")}}

\* The owner's daemon dies and starts again: ChatState::open.  Whatever it was
\* about to answer is gone; a welcome a member has is worked off.
RestartOwner ==
    /\ restarts < MaxRestarts
    /\ restarts' = restarts + 1
    /\ forgotten' = forgotten \cup relay \cup Owed
    /\ relay' = {} /\ seen' = {} /\ pending' = {}
    /\ hubs' = (hubs \ {Owner}) \cup (file \cap {Owner})
    /\ flow' = [n \in Nodes |->
                   IF n = Owner \/ flow[n].pc \in {"asked", "merged", "answered"} THEN Idle
                   ELSE IF flow[n].kind = "admit" THEN [flow[n] EXCEPT !.kind = "orphan"]
                   ELSE flow[n]]
    /\ UNCHANGED <<group, file, unsaved, tickets, chat, undrained, requests, posted, tried, ext,
                   sent, answers>>

\* A member's, with chat enabled or not from now on.  An admit goes on without
\* it until it has to answer.
RestartMember(m) ==
    /\ restarts < MaxRestarts
    /\ restarts' = restarts + 1
    /\ hubs' = (hubs \ {m}) \cup (file \cap {m})
    /\ qfile' = IF m \in torn THEN qfile \ {m} ELSE qfile
    /\ spoilt' = IF m \in torn THEN spoilt \cup {m} ELSE spoilt
    /\ torn' = torn \ {m}
    /\ queue' = (queue \ {m}) \cup (qfile' \cap {m})
    /\ chat' \in {chat \cup {m}, chat \ {m}}
    /\ undrained' = IF m \in queue' \cap chat' THEN undrained \cup {m} ELSE undrained \ {m}
    /\ flow' = [flow EXCEPT ![m] =
                   CASE @.kind = "admit" /\ @.pc \in {"asked", "merged", "answered"} -> @
                     [] @.kind # "admit" /\ @.pc = "merged" -> [@ EXCEPT !.kind = "orphan"]
                     [] OTHER -> Idle]
    /\ UNCHANGED <<group, file, unsaved, dms, events, answers>>

Next ==
    \/ Create \/ RestartOwner
    \/ \E m \in Members :
          \/ Join(m) \/ JoinQueued(m) \/ SaveOther(m) \/ EndSave(m) \/ Drain(m)
          \/ Request(m) \/ HandleDm(m) \/ Admit(m)
          \/ AddMember(m) \/ PublishCommit(m) \/ JoinFromWelcome(m)
          \/ LoseCall(m) \/ RestartMember(m)
    \/ \E n \in Nodes :
          InsertHub(n) \/ SaveHubs(n) \/ Answer(n) \/ Send(n) \/ Log(n)

Spec == Init /\ [][Next]_vars

-----------------------------------------------------------------------------
TypeOK ==
    /\ mls \in [Nodes -> [epoch : Epochs, joined : Epochs]]
    /\ got \in [Nodes -> SUBSET ChatEvent]
    /\ roster \in SUBSET Members
    /\ hubs \in SUBSET Nodes /\ file \in SUBSET Nodes /\ unsaved \in SUBSET Nodes
    /\ queue \in SUBSET Members /\ qfile \in SUBSET Members
    /\ torn \in SUBSET Nodes /\ spoilt \in SUBSET Members /\ undrained \in SUBSET Members
    /\ chat \in SUBSET Nodes
    /\ requests \in SUBSET Members /\ posted \in SUBSET Members
    /\ seen \in SUBSET Members /\ pending \in SUBSET Members /\ tried \in SUBSET Members
    /\ flow \in [Nodes -> Flow]
    /\ relay \in SUBSET Event /\ ext \in SUBSET ChatEvent
    /\ forgotten \in SUBSET Event /\ sent \in SUBSET ChatEvent
    /\ acked \in SUBSET Nodes /\ queued \in SUBSET Members
    /\ restarts \in 0..MaxRestarts

\* add_member, send and log: a message its author was told is on a relay can
\* still be read by every node that was in the group when it was sent, that is,
\* the node has it, or it and the commits up to its epoch that the node lacks are
\* where the node looks or on their way there.  Only a restart of the owner,
\* which empties the relay, takes any of them away.
MessagesCanBeRead ==
    \A ev \in sent, n \in Nodes :
        0 < mls[n].joined /\ mls[n].joined <= ev.epoch =>
            \/ ev \in got[n]
            \/ LET needed == {ev} \cup {Commit(e) : e \in mls[n].epoch + 1..ev.epoch}
               IN  needed \subseteq Fetchable(n) \cup Owed \cup forgotten

\* create, join and admit: whoever was told Ok is in the group by the owner's
\* state and by its own, through every restart, and its hubs.json has the hub unless
\* writing it failed, which is not said.
AckedJoinIsDurable ==
    \A n \in acked : n \in roster \cup {Owner} /\ mls[n].epoch > 0 /\ n \in file \cup unsaved

\* join with chat off: a join that was answered "queued" waits in the queue and in
\* its file until hubs.json has the hub, through every restart, whichever calls fail,
\* unless a write of either file failed or a restart came while the queue's was being
\* written.
WaitingIsKept ==
    \A m \in queued \ spoilt : m \in file \cup unsaved \/ m \in queue \cap (qfile \cup torn)

=============================================================================
