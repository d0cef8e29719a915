------------------------------- MODULE Gateway -------------------------------
(***************************************************************************)
(* GETs of one file through the HTTP gateway: serve_file with its range    *)
(* arithmetic, the prefetch and the windowed body (filestrd/src/           *)
(* http_bridge.rs), fetch_range and candidates (transfers.rs), which fill  *)
(* the local store, and what browses record about who has the file.        *)
(*                                                                         *)
(* The store holds chunks; ranges and bodies are in bytes.  A GET is three *)
(* parties: the handler, then the body, which hyper polls as long as the   *)
(* player is there; the fetch, which the handler calls for the first       *)
(* window and the body runs as a task of its own; and the player, who may  *)
(* leave at any time.  Whether a request is conditional, what type the     *)
(* file has and HEAD requests, which get a GET's headers, are left out.    *)
(***************************************************************************)
EXTENDS Integers, FiniteSetsExt

CONSTANTS
    Peers,      \* the node's peers
    Reliable,   \* those that list the file at every browse and always deliver it
    Gets,       \* GETs of the file
    Headers,    \* Range headers: <<>>, or <<a, b>> for "bytes=a-b"
    Missing,    \* a or b where it is left out
    Size,       \* bytes of the file
    Chunk,      \* bytes of a chunk
    Window,     \* PREFETCH_WINDOW
    MaxEmit,    \* MAX_EMIT
    Queue       \* capacity of the progress channel

ASSUME GatewayAssumption ==
    /\ Reliable \subseteq Peers
    /\ {Chunk, Window, MaxEmit, Queue} \subseteq Nat \ {0}
    /\ Size \in Nat /\ Missing \in Int \ Nat
    /\ \A h \in Headers : h = <<>> \/ h \in ({Missing} \cup Nat) \X ({Missing} \cup Nat)

VARIABLES
    store,    \* the chunks in the local store
    known,    \* the peers that RecentSources or BrowseSources has for the file
    get,      \* get[r]: handler and body of GET r
    fetch     \* fetch[r]: the fetch_range at work for r

vars == <<store, known, get, fetch>>

\* The chunks that cover bytes from..upto - 1.
Covering(from, upto) == {b \div Chunk : b \in from..upto - 1}
AllChunks == Covering(0, Size)
Complete == store = AllChunks

\* The response has status, start..end - 1 is what it promises and cursor how far
\* its body is; sure says that the range was local, or listed by a peer that
\* delivers it, when it was asked for.
NoGet == [pc |-> "none", status |-> 0, header |-> <<>>, start |-> 0, end |-> 0, cursor |-> 0,
          sure |-> FALSE]

Working == {"prefetch", "local", "look", "wait"}
Ended == {"refused", "finished", "short", "gone"}

\* Of a GET that is over the outcome is left.
Over(g, pc) == [NoGet EXCEPT !.pc = pc, !.sure = g.sure]

\* start..end - 1 is wanted; todo has the sources left to try, the one at work
\* apart, which has still to deliver the chunks in left; ticks is the channel.
NoFetch == [pc |-> "none", start |-> 0, end |-> 0, todo |-> {}, source |-> {}, left |-> {},
            ticks |-> 0, aborted |-> FALSE]

AtWork == {"begun", "source"}

\* A fetch that is over leaves its ticks.
Done(f, pc) == [NoFetch EXCEPT !.pc = pc, !.ticks = f.ticks]

\* Earlier GETs may have left any part of the file, and a browse any source.
Init ==
    /\ store \in SUBSET AllChunks
    /\ known \in SUBSET Peers
    /\ get = [r \in Gets |-> NoGet]
    /\ fetch = [r \in Gets |-> NoFetch]

-----------------------------------------------------------------------------
(* Where the file is.                                                      *)

\* p answers a browse and lists the file (collect_files: RecentSources::insert,
\* BrowseSources::replace_peer), or relays a hit for it (RecentSources::insert).
Learn(p) ==
    /\ known' = known \cup {p}
    /\ UNCHANGED <<store, get, fetch>>

\* p's latest answer is without the file, and later ones of others have pushed it
\* out of RecentSources.
Forget(p) ==
    /\ p \notin Reliable
    /\ known' = known \ {p}
    /\ UNCHANGED <<store, get, fetch>>

\* known_size; for a peer's file a size of 0 is passed over.
SizeIsKnown == Complete \/ (Size > 0 /\ known # {})

-----------------------------------------------------------------------------
(* serve_file, up to the response.                                         *)

\* Mutant: a suffix is taken from one byte too early.
FirstByte_Suffix(a, b) ==
    IF a # Missing THEN a ELSE IF b < Size THEN Size - b - 1 ELSE 0

FirstByte(a, b) ==
    IF a # Missing THEN a ELSE IF b < Size THEN Size - b ELSE 0

\* parse_range, with its end exclusive; empty if unsatisfiable.
ParseRange(a, b) ==
    LET first == FirstByte(a, b)
        last == IF Missing \in {a, b} \/ b >= Size THEN Size - 1 ELSE b
    IN  IF first > last \/ (a = Missing /\ b \in {Missing, 0}) THEN {}
        ELSE {<<first, last + 1>>}

\* Without a header the end is size.saturating_sub(1), inclusive.
Promised(h) ==
    IF h = <<>> THEN {<<0, IF Size = 0 THEN 1 ELSE Size>>} ELSE ParseRange(h[1], h[2])

Begin(from, upto) == [NoFetch EXCEPT !.pc = "begun", !.start = from, !.end = upto]

Success(h) == IF h = <<>> THEN 200 ELSE 206

FirstWindow(start, end) == IF end < start + Window THEN end ELSE start + Window

\* 503 and 416, the body of a file that is all local, or the prefetch.
Open(r, h) ==
    /\ get[r] = NoGet
    /\ \/ /\ ~SizeIsKnown
          /\ get' = [get EXCEPT ![r] = [@ EXCEPT !.pc = "refused", !.status = 503]]
          /\ UNCHANGED fetch
       \/ /\ SizeIsKnown /\ Promised(h) = {}
          /\ get' = [get EXCEPT ![r] = [@ EXCEPT !.pc = "refused", !.header = h, !.status = 416]]
          /\ UNCHANGED fetch
       \/ /\ SizeIsKnown
          /\ \E p \in Promised(h) :
                LET opened == [NoGet EXCEPT !.header = h, !.start = p[1], !.end = p[2],
                                            !.cursor = p[1],
                                            !.sure = \/ Covering(p[1], p[2]) \subseteq store
                                                      \/ Reliable \cap known # {}]
                IN  IF Complete
                    THEN /\ get' = [get EXCEPT ![r] = [opened EXCEPT !.pc = "local",
                                                                     !.status = Success(h)]]
                         /\ UNCHANGED fetch
                    ELSE /\ get' = [get EXCEPT ![r] = [opened EXCEPT !.pc = "prefetch"]]
                         /\ fetch' = [fetch EXCEPT ![r] = Begin(p[1], FirstWindow(p[1], p[2]))]
    /\ UNCHANGED <<store, known>>

\* Mutant: the response does not wait for the first window.
Prefetched_AtOnce(r) == fetch[r].pc # "failed"

Prefetched(r) == fetch[r].pc = "ok"

\* The first window is there and the body begins, with a fetch of all of it; or
\* nobody delivers it.
Respond(r) ==
    /\ get[r].pc = "prefetch"
    /\ \/ /\ Prefetched(r)
          /\ get' = [get EXCEPT ![r].pc = "look", ![r].status = Success(get[r].header)]
          /\ fetch' = [fetch EXCEPT ![r] = Begin(get[r].start, get[r].end)]
       \/ /\ fetch[r].pc = "failed"
          /\ get' = [get EXCEPT ![r] = [Over(@, "refused") EXCEPT !.status = 503]]
          /\ UNCHANGED fetch
    /\ UNCHANGED <<store, known>>

-----------------------------------------------------------------------------
(* fetch_range.                                                            *)

\* fetch_source on a candidate, for all of the range; in what order they are
\* tried is not modelled.
Ask(r, sources) ==
    \E p \in sources :
        fetch' = [fetch EXCEPT ![r].pc = "source", ![r].source = {p}, ![r].todo = sources \ {p},
                               ![r].left = Covering(fetch[r].start, fetch[r].end)]

\* What is local needs no source; with none known it fails.  The three are looked
\* up one after the other, which shows nowhere: the store only grows.
StartFetch(r) ==
    LET f == fetch[r]
        local == Complete \/ Covering(f.start, f.end) \subseteq store
    IN  /\ f.pc = "begun"
        /\ \/ local /\ fetch' = [fetch EXCEPT ![r] = Done(@, "ok")]
           \/ ~local /\ Ask(r, known)
           \/ /\ ~local /\ known = {}
              /\ fetch' = [fetch EXCEPT ![r] = Done(@, "failed")]
        /\ UNCHANGED <<store, known, get>>

\* Mutant: the receiver of the prefetch is kept, and nobody reads from it.
Listened_Always(r) == TRUE

\* The body reads the channel; of the prefetch the receiver is dropped.
Listened(r) == get[r].pc \in {"look", "wait"}

\* Mutant: ticks are sent without waiting for room.
Room_Any(r) == TRUE

Room(r) == fetch[r].ticks < Queue

\* The next chunk arrives verified and is stored; its tick waits for room, or is
\* lost if nobody listens.
Deliver(r) ==
    /\ fetch[r].pc = "source" /\ fetch[r].left # {}
    /\ LET c == Min(fetch[r].left)
           ticks == IF Listened(r) THEN 1 ELSE 0
       IN  /\ Listened(r) => Room(r)
           /\ store' = store \cup {c}
           /\ fetch' = [fetch EXCEPT ![r].left = @ \ {c}, ![r].ticks = @ + ticks]
    /\ UNCHANGED <<known, get>>

\* Mutant: only one candidate is tried.
SourceOver_Once(r) ==
    /\ fetch[r].pc = "source"
    /\ \/ fetch[r].left = {} /\ fetch' = [fetch EXCEPT ![r] = Done(@, "ok")]
       \/ /\ fetch[r].source \cap Reliable = {}
          /\ fetch' = [fetch EXCEPT ![r] = Done(@, "failed")]
    /\ UNCHANGED <<store, known, get>>

\* The source is done; or it fails, stalls or refuses, and the next is asked.
SourceOver(r) ==
    /\ fetch[r].pc = "source"
    /\ \/ fetch[r].left = {} /\ fetch' = [fetch EXCEPT ![r] = Done(@, "ok")]
       \/ /\ fetch[r].source \cap Reliable = {}
          /\ \/ Ask(r, fetch[r].todo)
             \/ fetch[r].todo = {} /\ fetch' = [fetch EXCEPT ![r] = Done(@, "failed")]
    /\ UNCHANGED <<store, known, get>>

\* An aborted task ends, where it next waits.
Abort(r) ==
    /\ fetch[r].aborted /\ fetch[r].pc \in AtWork
    /\ fetch' = [fetch EXCEPT ![r] = NoFetch]
    /\ UNCHANGED <<store, known, get>>

-----------------------------------------------------------------------------
(* The body.                                                               *)

Present(from, upto) == Covering(from, upto) \subseteq store

\* available_end: the end of what is present from cursor on, by bisection.
AvailableEnd(cursor, end) ==
    LET Find[w \in Nat \X Nat] ==
            LET lo == w[1]
                hi == w[2]
                mid == lo + (hi - lo + 1) \div 2
            IN  IF lo >= hi THEN lo
                ELSE IF Present(cursor, mid) THEN Find[<<mid, hi>>] ELSE Find[<<lo, mid - 1>>]
    IN  IF cursor >= end \/ ~Present(cursor, cursor + 1) THEN cursor
        ELSE Find[<<cursor + 1, end>>]

\* AbortOnDrop: the task ends where it next waits, and its ticks are lost.
Aborted(f) == [f EXCEPT !.aborted = @ \/ f.pc \in AtWork, !.ticks = 0]

\* The body is over.
Dropped(r, pc) ==
    /\ get' = [get EXCEPT ![r] = Over(@, pc)]
    /\ fetch' = [fetch EXCEPT ![r] = Aborted(@)]

\* What is there is sent, at most MaxEmit at a time; if nothing is, it waits.
Look(r) ==
    LET there == AvailableEnd(get[r].cursor, get[r].end)
        upto == IF there < get[r].cursor + MaxEmit THEN there ELSE get[r].cursor + MaxEmit
    IN  /\ get[r].pc = "look"
        /\ IF upto >= get[r].end THEN Dropped(r, "finished")
           ELSE /\ get' = [get EXCEPT ![r].cursor = upto,
                                      ![r].pc = IF upto = get[r].cursor THEN "wait" ELSE "look"]
                /\ UNCHANGED fetch
        /\ UNCHANGED <<store, known>>

\* rx.recv gives a tick ...
Wake(r) ==
    /\ get[r].pc = "wait" /\ fetch[r].ticks > 0
    /\ get' = [get EXCEPT ![r].pc = "look"]
    /\ fetch' = [fetch EXCEPT ![r].ticks = @ - 1]
    /\ UNCHANGED <<store, known>>

\* Mutant: when the fetch is over the body does not look again.
Final_Stale(r) == get[r].cursor

Final(r) == AvailableEnd(get[r].cursor, get[r].end)

\* ... or the end of the fetch, after which the body looks once more.
Drain(r) ==
    /\ get[r].pc = "wait" /\ fetch[r].ticks = 0 /\ fetch[r].pc \notin AtWork
    /\ Dropped(r, IF Final(r) < get[r].end THEN "short" ELSE "finished")
    /\ UNCHANGED <<store, known>>

\* stream_local: what the file has of the range.
StreamLocal(r) ==
    /\ get[r].pc = "local"
    /\ get' = [get EXCEPT ![r] = Over(@, IF Size < @.end THEN "short" ELSE "finished")]
    /\ UNCHANGED <<store, known, fetch>>

\* The player goes away: handler or body are dropped, with the prefetch at once.
Leave(r) ==
    /\ get[r].pc \in Working
    /\ get' = [get EXCEPT ![r] = Over(@, "gone")]
    /\ fetch' = [fetch EXCEPT ![r] = IF get[r].pc = "prefetch" THEN NoFetch
                                     ELSE Aborted(@)]
    /\ UNCHANGED <<store, known>>

Serve(r) == Respond(r) \/ Look(r) \/ Wake(r) \/ Drain(r) \/ StreamLocal(r)
Fetching(r) == StartFetch(r) \/ Deliver(r) \/ SourceOver(r) \/ Abort(r)

Next ==
    \/ \E p \in Peers : Learn(p) \/ Forget(p)
    \/ \E r \in Gets :
          \/ \E h \in Headers : Open(r, h)
          \/ Serve(r) \/ Fetching(r) \/ Leave(r)

Spec == Init /\ [][Next]_vars

\* The runtime polls the tasks, a player that is there reads, and every wait of
\* fetch_source has a timeout.
FairSpec ==
    /\ Spec
    /\ \A r \in Gets : WF_vars(Serve(r)) /\ WF_vars(Fetching(r))

-----------------------------------------------------------------------------
\* Every variable has its shape.
TypeOK ==
    /\ store \subseteq AllChunks
    /\ known \subseteq Peers
    /\ \A r \in Gets :
          /\ get[r].pc \in {"none"} \cup Working \cup Ended
          /\ get[r].status \in {0, 200, 206, 416, 503}
          /\ get[r].start \in Nat /\ get[r].cursor \in get[r].start..get[r].end
          /\ fetch[r].pc \in AtWork \cup {"none", "ok", "failed"}
          /\ fetch[r].todo \cup fetch[r].source \subseteq Peers
          /\ fetch[r].left \subseteq AllChunks /\ fetch[r].ticks \in 0..Queue

\* The bytes a Range header asks for (RFC 9110, 14.1.2).
Asked(h) ==
    {i \in 0..Size - 1 :
        h # <<>> => IF h[1] = Missing THEN h[2] # Missing /\ i >= Size - h[2]
                    ELSE i >= h[1] /\ (h[2] = Missing \/ i <= h[2])}

\* parse_range, for prefixes, suffixes and ends past the file: what is promised
\* is what was asked for, and 416 says there is nothing of it.
PromiseIsWhatWasAsked ==
    Size > 0 => \A r \in Gets :
        /\ get[r].status \in {200, 206} => get[r].start..get[r].end - 1 = Asked(get[r].header)
        /\ get[r].status = 416 => Asked(get[r].header) = {}

\* prefetch_window, "BEFORE committing a 2xx": bytes are there when success is
\* announced.
SuccessHasFirstWindow ==
    \A r \in Gets : get[r].pc \in {"look", "wait"} =>
        Present(get[r].start, FirstWindow(get[r].start, get[r].end))

\* serve_file, "never a 206/200 whose body then truncates": a body ends short of
\* what was promised only when every source has failed.
ShortOnlyIfSourcesFailed ==
    \A r \in Gets : get[r].pc = "short" => fetch[r].pc = "failed"

\* fetch_range and candidates: a range that was local when it was asked for, or
\* that a peer had listed which delivers, is served, whoever else has gone away
\* and whatever else was asked for since.
SureIsServed ==
    \A r \in Gets : get[r].sure => get[r].status # 503 /\ get[r].pc # "short"

\* Every GET ends, or the player leaves.
GetsEnd == \A r \in Gets : get[r].pc # "none" ~> get[r].pc \in Ended
=============================================================================
