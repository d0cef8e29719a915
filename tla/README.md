# TLA+ models and proofs of filestr

filestr is a friend-to-friend file sharing daemon (`filestrd`), a library
(`libfilestr`) with the data it keeps, a client (`filestrctl`), a chat crate
(`filestr-chat`) and front ends. Nodes let each other in with invite tickets,
search each other's shares through the grant graph, fetch blobs hop by hop and
keep score of who gave what. This directory holds models of its core logic in
TLA+, the TLC configurations that check them, and proofs for TLAPS.

`PROJECT.json` lists the runs, a mutant per property (a plausible bug of the
code that the property catches), which source lines every definition stands
for, the hazards the properties are for, and the theorems.

    tlc -workers 2 -config MCGrants.cfg MCGrants     # a run
    tlapm GrantsProofs.tla                           # a module of proofs

## 1. Inventory

| component | source | state it keeps | what makes it correct | status |
|---|---|---|---|---|
| Grants and enrollment | `libfilestr/src/grants.rs`; `mint_invite`, `redeem_ticket`, `handle_revoke` in `ctl_server.rs`; `Redeem` in `p2p.rs` | grant list and peer list, in memory behind a mutex and on disk | a token enrolls one node; a revocation that was acknowledged stays; an enrollment holds on both sides | modelled without views and renames: `Grants`, `Enrollment` |
| Share index and scan | `filestrd/src/index.rs`, `main.rs` (`do_scan`), `ScanCtl` in `state.rs` | live index, index cache, thumbnails, token, progress and pause flag of the newest scan | no stale hash is served; a finished scan serves what is shared, once; every scan ends | modelled: `Scan` |
| Federated search | `search.rs`, both `handle_search`, `SeenQueries` and `Handles` in `state.rs` | ids of queries seen, minted handles | no duplicates in a cyclic graph, only permitted routes, resolvable hits, an end | modelled for one query: `Search` |
| Reputation | `libfilestr/src/reputation.rs`, the gate and bills in `p2p.rs`, `fetch_source` and `relay_get` in `search.rs` | served and received counters per neighbour | debt stays bounded, credit is backed by a bill, a denied debt fades | modelled: `Reputation` |
| Transfers | `transfers.rs`, `stream_transfer` in `ctl_server.rs` | the map of transfers, a watch, a cancel token and a progress channel for each | exports what was fetched, ends once, tells its client | modelled: `Transfers` |
| HTTP gateway | `http_bridge.rs`, `fetch_range` in `transfers.rs`, `RecentSources` and `BrowseSources` in `state.rs` | who has listed what, the local part of each blob, a fetch and a progress channel per GET | promises what was asked for, keeps the promise while a source delivers, ends every GET | GETs of one file modelled: `Gateway`; listings not |
| Hubs and chat | `chat.rs`, `filestr-chat/` | hub registry, pending requests, MLS groups | nobody told Ok is left outside the group, a message a relay has can be read, a queued join is not lost | modelled for one hub: `Hub` |
| Share configuration | `share add`/`rm` and `apply_config` in `ctl_server.rs`, `config.rs` | the configuration file and its `.tmp`, the configuration in memory | the file is never cut or torn, an acknowledged edit stays | modelled: `Shares` |
| Daemon start and stop | `main.rs` | signal loop, the order of what is loaded and closed | stops when told to | signal loop, reload and stop: `Shares`; what is loaded is in the `Init` and `Restart` of the modules |
| Control socket, peer protocol | `ctl_server.rs`, `p2p.rs`, `libfilestr/src/{ctl,p2p}.rs` | none beside the above | | the handlers that change state are in the module of what they change; framing and dispatch are not modelled |
| Tickets, keys, paths, metadata, priority, CLI, plugin, Flutter app, build scripts | | none, or fixed at start | | not modelled: encodings, pure I/O or other programs |

How they interact. The control socket and the peer protocol call into every
other part; each connection or stream is a task. Parts share state behind async
locks (`grants` mutex, `index` RwLock, `config` RwLock, the reputation mutex),
never held across the network except `index.read` in `run_search`. A rescan
works in a task of its own, with a `CancellationToken` and a `Notify` the
control side signals. A search makes one task per peer and one channel per
call; a fetch goes from relay to relay as a chain of streams, and a transfer is
a task with a second one that pumps its progress.

What is hard about it: two scans writing one index; the copies of one query
racing through a cyclic graph; several nodes holding one ticket; saves that
fail after the memory changed; a commit that is made, published and answered in
three steps to a relay that forgets; a file that is edited by several tasks;
calls cut short anywhere on a route whose ends keep separate books; cancellation
that drops a future wherever it waits. The hazards in `PROJECT.json` have them
one by one with their line.

## 2. Modules

    Enrollment ──implemented by── Grants ── MCGrants
                                    └────── GrantsProofs
    Scan ── MCScan                               Search ── MCSearch
       └─── ScanProofs                                └─── SearchProofs
    Transfers ── MCTransfers                     Gateway ── MCGateway
            └─── TransfersProofs                       └─── GatewayProofs
    Reputation ── MCReputation                   Hub ── MCHub
             └─── ReputationProofs                 └─── HubProofs
    Shares ── MCShares
         └─── SharesProofs

**Grants** has every node's list twice: `mem` (behind the mutex) and `disk` (what
the last successful save wrote). One action is one critical section of the code with
its save; a save can fail on the nodes in `FullDisk`, which leaves memory changed
and the caller with an error, as the code does. `call[r][t]` is `redeem_ticket`
between its awaits: request sent, answer received, then the symmetric half on the
redeemer's side. `told`, `closed` and `severed` are history: who was answered
`Redeemed`, which revocations were acknowledged, whom a revocation hit. A ticket and
its `token_id` are one value: the id is a prefix of the random token
(`grants.rs:229`), and two tokens with one prefix do not occur. **Enrollment** is
what this promises: one holder per token, nobody after the close. `KeepsPromise` is
the refinement, with the holder of a token read off `told`.

**Scan** has each scan as a task with a program counter at the points where the code
awaits: the walk, the publication of the reused entries, the loop head (where
`paused` is loaded), the `select!` with its biased order, the push of a joined
entry, the snapshot and the pruning. Hashing jobs finish on their own. A version of
a file is its content; its stamp is its size with its mtime in whole seconds, which
an edit may leave as it was or bring back (`Histories`), and stamp 0 is an mtime of
0, which the fast path does not trust. An entry remembers the stamp the walk saw
(`seen`) and the version that was imported (`hash`), and the hazard is that the file
never had both at once. `clobbered` is history: the scans over whose index another
scan wrote.

**Search** is one query over a graph of peers, grants, reshare flags and views, in
which each node has its own `max_ttl`, `fanout` and `result_cap`.
A call is named by the route the query took, so its state is a function from
routes; a handle is the route to the file it stands for. `pend` is a call's
channel. A node forwards, relays each hit under a handle it mints, and answers
`SearchDone` when its channel is empty and its forwards are gone. The TTL
a call has is the least of what it was sent with and its node's `max_ttl`. Up to
`Failures` early timeouts, hangs and restarts may happen.

**Reputation** has a Get as a route and the set `due` of books it is still to be
entered in. Gates let it through hop by hop; then each handler bills, and the
fetcher credits, in any order, each possibly cut short. A refusal on the way is
spliced back, and the relays bill what they spliced (`Extra`). Bytes are units. A
counter of the code is a float that is halved and never reaches 0; here it is that
number rounded up to units, so one that was raised never returns to 0 either. Each node has a
half-life for each of its peers (`Rate`), `Never` where the decay is off, and
`HalfLife(k)` halves the counters of one half-life. An owner in `Partial` may have
just the part of the blob it serves, and then bills nothing. `given` and `skewed`
are history: whom a node served for nothing, and that something happened after
which two ledgers need not agree.

**Transfers** has `run` and the pump of each transfer as two tasks, the local
store they share, and the client that follows the watch. Cancelling drops the
first task's future at any await inside `transfer`, and not during the export.

**Gateway** is GETs of one file. `get[r]` is the handler and then the body of a
GET, `fetch[r]` the `fetch_range` at work for it: first the prefetch, which the
handler awaits and which nobody listens to, then the task the body spawns,
listens to and aborts when it is dropped. The store has chunks, ranges have
bytes, so a window may begin inside a chunk; `AvailableEnd` is the bisection of
the code. `known` is the union of `RecentSources` and `BrowseSources` for the
file, as every reader takes both.

**Hub** is one hub, its owner, nodes with a ticket and nodes with its address.
`flow[n]` is a node's way in: `hub create`, `hub join`, the drain of a join that was
queued while chat was off, or `hub admit`, by hand or by `auto_admit` from the
listener. A way in goes through the calls of `chat.rs` one by one: the membership
commit (`AddMember`), its publication to the in-memory relay, the welcome, the
registry entry, `save_hubs`, the answer. The caller can go away in between, which
drops the stream and not what is on the owner. `mls[n]` is the epoch a node is at
and the one it joined in; it can read what was sent in these. The MLS store and the
two JSON files survive a restart, the owner's relay does not. On a node in
`FullDisk` a write of `hubs.json` may fail (`unsaved`), which is logged and answered
Ok. `pending_hubs.json` is written in place with its errors ignored: `JoinQueued`,
`SaveOther` or the answer to a drain begins a write (`torn`), `EndSave` ends it, and
a write that fails, or a restart in the middle of one, leaves a file that is cut
short and loads as an empty queue (`spoilt`). `unsaved`, `spoilt`, `forgotten`,
`sent`, `acked`, `queued` and `tried` are history. A node has one way in at a time.

**Shares** has each control connection and the signal loop as a task with its
locals: the text it read, the descriptor it holds. `StartEdit` reads and edits;
`AddUnread` is a `share add` that cannot read the file, and takes it for an empty
one (`misread`). Then come `OpenTmp`, `WriteTmp`, `Rename`, `Load`, and `Store` or
`Revert`. A descriptor that is open follows its file when that is renamed, so the
`.tmp` of one command can be what another renames; a write over bytes of another
writer can leave what does not parse. SIGHUP goes from `TakeHup` to `Load`, `Store`
and the scan it waits for, which somebody may pause. `Crash` may come at any point,
`EditByHand` writes a view of any names.

## 3. Runs

| run | instance | checks |
|---|---|---|
| `grants` | 3 nodes, 1 token, every save may fail | `TokenEnrollsOneNode`, `AckedRevokeIsFinal`, `EnrollmentIsMutual`, the refinement `KeepsPromise` |
| `scan` | 2 files, 2 versions with a new stamp or the same, 2 scans, 2 jobs, edits and a configuration change | `ReuseIsSound`, `SettledIndexIsExact` |
| `scan_live` | 1 file, 2 scans, cancel and pause | `ScansEnd` |
| `search` | 16 grant graphs on 3 nodes, those with a hop to relay over also with one restriction; a square, a line, two stars, one of them wider than its fanout, and a triangle with a tail on 4; a triangle with two views; a line and a fork with a relay of a smaller `max_ttl` | `NoDuplicateHits`, `HitsResolve`, `HitsArePermitted`, `FindsAllInReach`, `SearchEnds` |
| `reputation` | 3 nodes, 2 open Gets, a direct and a relayed route, whole or ranged; a node with a part of the blob, one with a full disk, two half-lives | `DebtIsBounded`, `CreditIsBilled`, `DenialsFade` |
| `transfers` | a whole and a ranged transfer of one blob, 2 sources | `DoneWasFetched`, `DoneShowsTotal`, `WorkingSourceIsUsed`, `TerminalIsFinal`, `TransfersEnd`, `ClientIsAnswered` |
| `gateway` | 2 GETs of a file of 4 bytes in 2 chunks; a prefix that passes the end, a range across the chunks, a suffix, one past the file; one peer that delivers and one that need not | `PromiseIsWhatWasAsked`, `SuccessHasFirstWindow`, `ShortOnlyIfSourcesFailed`, `SureIsServed`, `GetsEnd` |
| `hub` | an owner, a node with a ticket, a node with the address; both relays; 3 epochs, a restart, a message or a write that fails on either disk of the first two | `MessagesCanBeRead`, `AckedJoinIsDurable`, `WaitingIsKept` |
| `shares` | 2 connections, one of which may fail to read the file, 2 names, 2 commands, an edit by hand, a SIGHUP, a crash or a stop | `FileIsWhole`, `AckedEditIsKept`, `StopIsHeeded` |
| `reshare`, `scan_resume`, `scan_clobber` | small (`reshare`: 2 nodes, 2 tokens) | one property each, which the code violates: section 5 |

`TypeOK` is in the run of each module. Runs use `CHECK_DEADLOCK FALSE`: each of
these systems really comes to rest (all calls answered, every scan over, no
transfer left).

### Bounds, and why they are enough

- `Grants`: three nodes and one token have a race of two redeemers with a
  grantor. A second ticket between nodes
  that know each other takes two tokens: only `reshare` has them, and for the
  properties of `grants` the theorems of section 4 cover any number. `MaxGrants`
  bounds a list at the token and a symmetric grant for each other node.
- `Scan`: two scans are one superseded and one that supersedes; a third would
  only repeat the pair. Two versions tell a stale hash from a true one, and the
  second has either a stamp the file never had or that of the first. Longer
  histories, in which a stamp returns or is missing, are proved. Two
  jobs at a time give joins in either order. `Requests` selects what is asked
  of the daemon in a run. Without `cancel` and `pause` in `scan`, the only
  cancelled scan is a superseded one; `scan_live` has both.
- `Search`: three nodes have every cycle through the user and past it; the
  square is the smallest graph where two routes of equal length meet beyond the
  first hop, one star is where `result_cap` ends a search, the other has more
  peers than the fanout, which is 2 and enough for all else. `MaxTtl` is 3, the
  longest simple route on four nodes and every node's `max_ttl` but where a relay's
  is 1 or 0: on the line it cuts the query short, in the fork it ends one of two
  routes to an owner. `cap` is 4, above what can be found; the
  first star has 2. One failure at a time.
- `Reputation`: two open Gets are what lets a peer run up debt behind the gate;
  a blob of two units has ranges that are smaller than it. `MaxBooked` stops new
  Gets, not the books of those that are open. An allowance of 0 is the smallest,
  under which a denial comes soonest. Two nodes forget at one rate and the third at
  another, so there is an edge of each kind.
- `Transfers`: two chunks are needed for a source that fails in the middle; a
  queue of 2 can hold an old number when its transfer ends. It is never full
  when there is more to send: a full queue only delays, as the pump never waits.
- `Gateway`: with two chunks a window can be all of a range or a part of it, a
  source can fail in between, and another GET can bring what is missing. `Queue`
  is 1 so that a full channel occurs; `MaxEmit` is 3, no multiple of a chunk, so
  that a body stops inside one.
- `Hub`: the two members are the two ways in, of which one runs while the other
  is queued, waits or is under way. Epoch 1 is the hub, 2 and 3 the additions,
  so the first member has a commit to follow. One message may be sent in any of
  these epochs by anyone in it, or one write fails, of `hubs.json` or of the queue
  (`MaxSpent` is for both: no property relates a message to a file). A restart is of
  either side, at any point. For more of them, of more nodes, messages and failures,
  the three properties are proved.
- `Shares`: two connections are the least that can overlap, two names the least
  that can be lost to each other; the view names the share that is there, so a
  removal has to prune it and a removal by hand breaks it. One crash or stop at
  any point, one SIGHUP that meets either command, one edit by hand to reload. One
  of the connections may fail to read the file, the other never does.

Symmetry is used over nodes, tokens and files, and only in runs of safety
properties.

### Fairness

- `Scan`: weak fairness of each scan's next step and of its jobs. The runtime
  polls tasks that are ready, hashing a file is finite. No request is fair:
  nobody need resume, cancel or rescan.
- `Search`: weak fairness of the steps of nodes that run, and of the deadline of
  a call to a node that hangs (`search.timeout_secs` is a timer). Nothing makes
  a failure happen.
- `Transfers`: weak fairness of run, pump and client, for each transfer. Every
  wait in `fetch_source` has a timeout, which is what makes `FetchOver` fair; a
  connection that is open is read by its writer loop. No source is fair except
  the ones in `Reliable`, in that they do not fail.
- `Gateway`: weak fairness of each GET's handler and body, and of its fetch, for
  the same reasons. hyper polls a body as long as its player reads; a player
  that stops reading and stays is not covered. Nobody need leave.
- `Shares`: weak fairness of the signal loop: it takes a request to stop, loads
  and stores a reload, sees the end of the scan it waits for unless that is
  paused, and exits. A paused scan ends only if somebody resumes or cancels it,
  so `StopIsHeeded` demands nothing while one is paused. No client is fair.
- `Hub`, `Grants` and `Reputation` have no fairness: nothing here is promised to
  happen. That a denial ends is not, either: with an allowance of 0 or the decay off
  it need not. `DenialsFade` says what each step does to a denied debt.

## 4. Proofs

`GrantsProofs` proves for all sets of nodes and tokens and every bound, from
`GrantsAssumption` (ids, tokens and the two markers are distinct):

- `TypeCorrect`, `OneNodePerToken` (`TokenEnrollsOneNode`), `RevokeIsFinal`
  (`AckedRevokeIsFinal`), `EnrollmentHoldsOnBothSides` (`EnrollmentIsMutual`) and
  `GrantsImplementsEnrollment` (`KeepsPromise`).
- The inductive invariant of the first three is `IInv`. Neither of the two safety
  properties is inductive: that nobody else is told about a token follows only
  because every answer was saved before it was sent (`ToldIsBacked`: memory and
  disk both have the grant pinned to whom was told, or revoked), because a token
  is in at most one entry of one list (`TokensAreApart`); and a closed token
  cannot be minted a second time because it is still in some list
  (`ClosedIsKept`).
- The lemmas show that each edit of a store `Grows` it: no entry goes away, a
  pinned entry stays pinned to the same node, a revoked one stays revoked. Every
  action then is one or two `Grows` steps, and the invariants are preserved
  under `Grows` and under the copy from memory to disk or back.
- `EnrollmentIsMutual` speaks of a ticket's peer entries on the redeemer; what
  makes it inductive is what holds before these are written: a redeemer with an
  answer in hand is admitted already, in memory and on disk (`IsAdmitted`, from
  the save before the answer), and the entry and the symmetric grant are in one
  save (`AdmitsInReturn`). A store `Keeps` both under every edit but a revoke,
  and a revoke marks whom it hits as `severed`.
- The refinement maps a `HandleRedeem` that was answered to `Enroll` or to a
  stutter when the same node is answered again, an acknowledged `Revoke` to
  `Close`, and every other step to a stutter.

`ReputationProofs` proves for any number of nodes, streams and routes and any
half-lives, from `ReputationAssumption` (routes visit a node once, ranges lie within
a blob, streams are finitely many):

- `TypeCorrect`, and `DebtBounded` (`DebtIsBounded`): what a peer owes plus the
  largest bill for every Get it was let through for stays within its allowance and
  one such bill per stream. The largest is a blob with what a relay splices besides,
  `Blob + Extra`. The inductive invariant adds the same bound for the ledger on disk
  (`DiskIsBounded`), which a restart makes the ledger. The gate is the only step
  that adds an unbilled Get, and there were fewer than all streams unbilled at that
  moment; a bill turns what was reserved for it into debt of at most that; a
  half-life never raises a debt that is positive.
- `CreditBacked` (`CreditIsBilled`), with the invariant `EInv`. The property says
  that no credit is ahead of the bills; what it does not say, and a step needs, is
  by how much. `EdgesAgree` counts both ways on every edge: the bytes the fetcher
  has credited and its server not billed yet (`Ahead`), and those that are billed
  and not credited (`Behind`). It is about edges that are `Even`: both ends forget
  at one rate, and no part of a blob was given over them for nothing. With unlike
  half-lives credit outlives the bill, which is so in the code too. A book that is
  entered moves its Get from one count to the other, or out. Time halves both
  ledgers, which is even only with no Get half-booked; otherwise `skewed` records
  it. `DuesOnTheWay`: a Get still at the gates owes the bills of those it passed, a
  refused one those of its relays only and no credit (`Kept`).
- `DenialsDoFade` (`DenialsFade`), an action property. The gate is shut, so nothing
  new is owed; of a node whose saves succeed the file is the ledger (`FInv`), so a
  restart does not bring an older debt back; halving and rounding up both counters
  lowers a debt above one unit (`FadedLowers`).

`HubProofs` proves for any members with and without tickets, any bounds and any
choice of relays, from `HubAssumption`:

- `TypeCorrect`, `AnsweredJoinLasts` (`AckedJoinIsDurable`) and
  `NothingWaitingIsLost` (`WaitingIsKept`), with the invariant `DInv`. A node was in
  the registry, and in its file unless the write of it failed (`unsaved`), before it
  was told Ok, and no step takes it out (`WaysIn`: what each point of a way in has
  already done). A queued join leaves the queue only when the drain has the hub, and
  the file holds it, or is being written with it (`TicketsAreSaved`), unless a write
  failed or a restart cut one short.
- `SentMessagesStayReadable`: `MessagesCanBeRead` where the owner runs the
  embedded relay. The invariant `RInv` follows the commits: each one a member is
  `Behind` is in the relay, or forgotten, or about to be published by the way in
  that made it (`CommitsAreOut`); every message is in the epoch of its author
  (`SentIsOut`). Without the embedded relay the property is false: section 5.

`SharesProofs` proves for any connections, names and bounds, from
`SharesAssumption`:

- `TypeCorrect`, `FileStaysWhole` (`FileIsWhole`) and `AnswersAreKept`
  (`AckedEditIsKept`). As long as no two commands overlapped, there is at most
  one of them between its read and its end (`OneAtATime`), the `.tmp` and the
  descriptor are its own, and what it is about to rename is the file with its
  edit (`EditIsAt`); a reload only reads, and what it has read is fresh unless it
  raced with a command (`ReloadIsFresh`). Both properties except the runs in
  which commands did overlap or an addition could not read the file (`misread`), as
  nothing prevents what then happens.

`ScanProofs` proves for any finite set of files and any number of scans and
versions, from `ScanAssumption`:

- `TypeCorrect`, `ReuseSound` (`ReuseIsSound`) and `IndexExact`
  (`SettledIndexIsExact`). `ReuseIsSound` is about the index and its cache, but
  their entries come from tasks: so `AllSound` says of every entry, wherever it
  is, that its file had a version with the stamp it remembers, no later than the one
  that was hashed, and that no later than the one it has now (`Sound`); of a file
  still to be hashed it says the first (`Past`). When the stamp is the one the file
  has now, and no earlier version had it, all three versions are one. Any history of
  stamps is allowed; the property makes an exception of files that come back to a
  stamp they had (`FreshlyStamped`), for which the code does serve a stale hash:
  section 5.
- For `SettledIndexIsExact`, `NewestIsParted` follows every configured file
  through the newest scan: it is in the index, hashed, to be hashed or skipped,
  and in one of these only. `Tidy` says what each point of the loop has emptied,
  so that at its end all of it is in the index or skipped. Another scan that
  writes to the index in the meantime makes the scan `clobbered`.

`SearchProofs` proves for any set of nodes and any grants, reshare flags and
views, from `SearchAssumption` and `NetworksAssumption` (the networks that are
considered are networks):

- `TypeCorrect`, `HitsPermitted` (`HitsArePermitted`), `HitsCanBeFetched`
  (`HitsResolve`) and `NoneTwice` (`NoDuplicateHits`). All are about hits that
  were shown; the invariant is about the calls they come through. Each route was
  agreed to, hop by hop, when it was made (`RoutesAgree`), a caller's handler ran
  before it asked (`Chain`), a hit in a channel or on the screen names with the
  route that has it a call that found it, and all its handles are kept
  (`HitsAreFound`).
- Without a restart one call per node was let in by `SeenQueries` (`OneCopy`), so
  an owner is found by one route.
- `FindsAll` (`FindsAllInReach`): a search that ended with nothing lost, no cap hit
  and no peer left out by the fanout has shown every file in reach, in any graph. It
  takes two arguments. `Completeness` is the invariant of such a search: a call
  outlives those it made (`Attended`); one that is over without having run was
  refused, by its grant or because its node had answered another copy (`Refused`,
  `Answered`); one that ran asked everyone it may (`Spread`); the TTL of a call is
  what the user's search and the `max_ttl` of each node on its route leave of it
  after its hops, no less and no more (`Counted`); and the hit of each call that
  found a file is in a channel on its way back or on the screen (`Travels`). A
  disturbed search stays disturbed (`StaysUndisturbed`), so each step need preserve
  this only where it still applies. Then, when the root is over, so is every call
  (`AllClosed`). The first node of an owner's route that was not reached would have
  been asked by the one before, which answered a copy that came over a route its
  nodes agreed to and that visits none twice (`IsAFirstCopy`). `InReach` counts a
  route only if every copy that may be the first at one of its nodes `Spares` the
  hops that are left from there, so the copy that was answered did too, and the next
  node was asked (`OneHopFurther`, `RouteReached`). What a reached node found cannot
  be in a channel any more, so it was shown (`ReachedIsShown`).
- The proof corrected the property. As first stated it was false in graphs the run
  did not have: with more peers than `fanout`, and where an owner shows its file to
  one asker and not to another (section 5). `Undisturbed` and `InReach` now say so,
  and account for each node's own `max_ttl`, and the run has all three.

`TransfersProofs` proves for any peers, sizes and transfers, from
`TransfersAssumption`:

- `TypeCorrect`, `WhatIsDoneWasFetched` (`DoneWasFetched`), `WhatIsDoneIsShown`
  (`DoneShowsTotal`) and `SourcesAreTried` (`WorkingSourceIsUsed`). The invariant
  ties the status a client is shown to where `run` is (`StatusFits`), what a
  source delivered to the store (`DeliveredIsStored`), and has the channel to the
  pump empty whenever nobody fetches (`NothingUnderWay`), which is why no late
  number overwrites a total. A source that was left behind is none that works
  (`TriedInTurn`).
- `OverIsOver` (`TerminalIsFinal`), an action property, from the same invariant.

`GatewayProofs` proves for any GETs, peers and sizes of file, chunk, window and
channel, from `GatewayAssumption`:

- `TypeCorrect`, `PromisesWhatWasAsked` (`PromiseIsWhatWasAsked`),
  `SuccessHasBytes` (`SuccessHasFirstWindow`), and of a file that is not empty
  `ShortMeansFailed` (`ShortOnlyIfSourcesFailed`) and `SureGetsAreServed`
  (`SureIsServed`). Of an empty file the last two are false: section 5.
- A fetch forgets its range when it is over, so the invariant says what it leaves
  behind: a response that waits has a fetch of its own range that was not
  aborted, and one that is `ok` has all of it in the store (`Waits`); what a
  source need not deliver any more is there (`Fetches`). A GET that is sure has
  its range in the store or a source that delivers, known, to try or at work
  (`StaysSure`). The store only grows, and such a source is never forgotten, so
  what other GETs do disturbs neither (`SoundLasts`).
- `AvailableEnd` bisects by a recursive function. That there is one is shown by
  giving it in closed form (`LastBisects`), and that the loop stays between its
  bounds and finds the end when all is present by a least counterexample
  (`BisectionEnds`), which needs no induction over an operator.

For these proofs the models were brought into a form that the prover can expand,
with the same meaning: no `:>` and `@@`, no `@` within an `EXCEPT` that is itself
in one, and the bisection as a function of the pair of its bounds.

Every invariant and action property of a passing run has its theorem. Only model-checked is what is
liveness under fairness, out of the reach of the prover: `ScansEnd`,
`SearchEnds`, `TransfersEnd`, `ClientIsAnswered`, `GetsEnd` and
`StopIsHeeded`.

## 5. Where code and documentation disagree

Checked, each by a run that expects the violation:

- `reshare`. The `Redeem` handler records the redeemer as a peer with
  `allow_reshare: true`, and `upsert_peer` replaces the whole entry
  (`p2p.rs:158`). A node that had this peer under a grant without that
  permission re-serves its content from then on; `DESIGN.md:187` says honest
  clients honor the flag.
- `scan_resume`. `resume_scan` uses `notify_waiters`; a resume between the load
  of `paused` and the creation of the `Notified` (`index.rs:246`) is lost, and
  a scan that has no jobs left waits although nobody pauses it.
- `scan_clobber`. The walk does not look at its token, so a superseded scan can
  publish its partial index over the one that replaced it (`index.rs:232`).

Seen while modelling, and not stated as properties of a run.

In the index and the ledgers:

- An edit of the same size within the second of the version that was indexed, or
  one that keeps the mtime, is taken for no edit, and the old hash is served for the
  new content by every later scan (`index.rs:196`, `index.rs:202`). `DESIGN.md:127`
  says "incremental rehash on change". `ReuseIsSound` makes an exception of it.
- `blob_size` answers nothing for a blob that is not complete in the store
  (`p2p.rs:90`), so an owner with a part of it bills nothing at all for a range it
  serves (`p2p.rs:271`), which the fetcher credits; the comment at `p2p.rs:270` says
  "bill the full blob size". `CreditIsBilled` makes an exception of it (`given`).
- `half_life_days` is each node's own, with overrides per peer (`config.rs:48`), so
  credit can outlive the bill it came from; `CreditIsBilled` is about two nodes that
  have the same half-life for each other.
- A counter is halved and never reaches 0 (`reputation.rs:85`), and a half-life of 0
  turns the decay off (`reputation.rs:81`). Where the allowance is 0 or the decay is
  off, a denial of a peer that gives nothing does not end; `DESIGN.md` 9.1 says that
  "neither grudges nor goodwill are permanent".

In the gateway, search and transfers:

- A GET of a file of 0 bytes without a Range header promises one byte: the end
  is `size.saturating_sub(1)`, inclusive (`http_bridge.rs:776`). The body ends
  before it, which the comment at line 797 excludes. The file of the `gateway`
  run is not empty.
- A node answers the first copy of a query with that copy's TTL, or its own
  `max_ttl` if that is less (`p2p.rs:334`, `p2p.rs:347`), so if the copy came a
  longer way, or over a node with a smaller `max_ttl`, nodes within the TTL on
  another route are not asked. `FindsAllInReach` demands a file only along a route
  for which every possible first copy has the hops to spare (`InReach`; the triangle
  with a tail and the fork are where it matters).
- It answers that copy with the view of whoever relayed it and no other, so a file
  that only another of its askers may see is found or missed by who comes first
  (`p2p.rs:333`). `ShownAnyway` excludes such an owner.
- A Get of a range is billed as the whole blob, which the comment there says is
  meant (`p2p.rs:270`), and the gateway reads a file in several ranges. A relay
  bills its client and never credits its upstream (`p2p.rs:263`).
- Of two browses of a peer that overlap the older listing may stay
  (`http_bridge.rs:318`).
- A cancel during an export is acknowledged and the transfer ends as done
  (`transfers.rs:42`); the total of a range that passes the end of its blob is
  its length (`transfers.rs:70`).
- The pruning deletes covers of files a newer scan has hashed since the
  snapshot (`main.rs:124`).

In the hubs:

- `add_member` publishes its commit to the in-memory relay only (`chat.rs:717`).
  With `Embedded = FALSE` nobody but the owner can read that relay, and
  `MessagesCanBeRead` is violated as soon as a member has to follow a commit;
  `DESIGN.md:225` says a hub can run "entirely over public/self-hosted nostr
  relays". With it, a restart of the owner loses the commits nobody has fetched
  yet, for which the property makes an exception (`forgotten`); `DESIGN.md:117`
  says membership and history survive restarts.
- `send` reports success when the event is handed to the client, without the
  relay's answer (`chat.rs:780`).
- `pending` is never emptied: an admitted request stays in the list. An
  `auto_admit` that failed is tried again only after a restart.
- A save of `hubs.json` that fails is only logged (`chat.rs:86`), and create, join
  and admit are answered Ok all the same (`chat.rs:198`, `chat.rs:285`): a restart
  then forgets a hub whose group the MLS store has. `AckedJoinIsDurable` makes an
  exception of it (`unsaved`). Two `save_hubs` may finish in the wrong order
  (`chat.rs:76`), which takes two hubs to matter.
- `PendingHubs::save` writes `pending_hubs.json` in place and ignores every error,
  and a file that does not parse is loaded as an empty queue (`state.rs:205`). A
  crash in the middle of any save takes all the tickets that were answered "queued"
  before; the comment at `state.rs:197` says "Persisted so a restart doesn't lose
  them". `WaitingIsKept` makes an exception of it (`spoilt`).

In the share configuration, when two commands run at once (`overlapped`):

- An edit is lost, or one command renames the `.tmp` the other is writing. A
  crash then leaves a cut file, although `ctl_server.rs:529` says the rename is
  "so a crash can't truncate it".
- A reload that races with an add can leave the older configuration in memory.

And when one runs alone: a `share add` that cannot read the file edits an empty one
(`ctl_server.rs:486`) and replaces it, other settings and shares included, although
the comment at line 483 says "preserving its formatting" (`misread`); the reversal
of an add that is rejected removes the name from views that named it before,
although the answer says the configuration was reverted (`ctl_server.rs:462`); a
`share rm` that is rejected stays in the file; SIGHUP waits for its scan inside the
signal loop, which hears no request to stop while that scan is paused
(`main.rs:419`).

## 6. Abstractions

- Views, path and ignore rules, metadata and the matching of names are left out
  of all modules; a view in `Search` is whether it shows the one matching file.
- Files are their own share roots in `Scan`. The import of a
  file sees one version of it.
- Handle expiry (an hour) and the eviction of query ids (after 4096) are far
  beyond one query and not in `Search`.
- Policies do not change in `Reputation`, and the exponential decay is taken in
  steps of a half-life; it is exponential, so it composes. What stands for a counter
  is the float of the code rounded up to units after each step, which lets pass a
  debt of a fraction of a unit that the code may deny.
- Conditional requests, HEAD, content types and header syntax are not in `Gateway`,
  nor is the eviction from the LRU of `RecentSources`; the file is a peer's, never
  in the own share index, and the handle of a hit that a peer relays is its peer.
- `Hub` has one hub, and a write of `hubs.json` for another hub is not in it, nor is
  a removal of members: `mls.rs` has a `remove_member` that nothing calls. `pending`
  and `seen` of the listener have no property of their own. A subscription that lags
  behind the relay's broadcast, and a revocation of the grant of a member, are
  not in it. MLS is seen through epochs: a node can read what was sent in an
  epoch it was in, even when it has moved on; an event it cannot process stays
  to be offered again; adding a member a second time may work or fail; the
  welcome is processed and accepted in one step.
- `Shares` has one view, a table of its own; a `view = {...}` written inline is
  not pruned by `share rm`. Paths are valid, and the file exists; that a
  `share add` cannot read it is `AddUnread`. The scan is
  what of module `Scan` the signal loop can see; that one which was paused and
  resumed may hang is the subject of `scan_resume`.
- The blob store is iroh's: an import, an export or a chunk is one step, and a
  chunk that arrives is verified. MLS and the transport are libraries.

## 7. Not modelled, and what is left

Not modelled: tickets, keys, paths, media metadata, priority, the command line
client, the plugin, the Flutter app and the build scripts. They encode, format
or compute once at start, and keep no state that two steps could disagree about.
Framing, version checks and dispatch of the two protocols are single steps of
the handlers.

Left to do, in this order:

1. **Listings** of the gateway: overlapping browses, playlists over them.
2. **IndexLock**: the order in which search, scan and configuration take their
   locks, with the bounded channel in the middle.
3. Two hubs in `Hub`, for the saves that finish in the wrong order; a composition
   of `Hub` with `Grants` in which a revocation falls between join and welcome.
4. Views in `Grants` (`active_for` takes the oldest grant), expiry of handles in
   `Search`, and a composition of `Grants` with `Search` in which a revocation
   meets a query.
