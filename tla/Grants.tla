------------------------------- MODULE Grants -------------------------------
(***************************************************************************)
(* The access-control list of every node (libfilestr/src/grants.rs) and    *)
(* the enrollment exchange that edits it on two nodes: mint_invite,        *)
(* redeem_ticket and handle_revoke (filestrd/src/ctl_server.rs) and the    *)
(* Redeem branch of handle_stream (filestrd/src/p2p.rs).                   *)
(*                                                                         *)
(* Each node has the list in memory, under one async mutex, and the copy   *)
(* the last successful save left on disk.  A save that fails leaves the    *)
(* memory changed and the caller with an error; a restart loads the disk.  *)
(* A ticket is a string anybody may hold, so any node may redeem any token *)
(* that was handed out, several nodes may race for one, and an answer may  *)
(* be lost after the grantor acted on the request.                         *)
(***************************************************************************)
EXTENDS Naturals, Sequences

CONSTANTS
    Nodes,      \* node ids
    Tokens,     \* invite tokens; a token stands for its token_id too
    NoOne,      \* "not pinned", "no ticket"
    Symmetric,  \* the label the symmetric half of a redemption is given
    FullDisk,   \* the nodes whose saves may fail
    MaxGrants   \* bound on the length of one node's grant list

ASSUME GrantsAssumption ==
    /\ MaxGrants \in Nat
    /\ FullDisk \subseteq Nodes
    /\ Nodes \cap Tokens = {}
    /\ NoOne \notin Nodes \cup Tokens
    /\ Symmetric \notin Nodes \cup Tokens \cup {NoOne}

VARIABLES
    mem,      \* mem[n]: the Grants value behind n's mutex
    disk,     \* disk[n]: what n's last successful save wrote
    issuer,   \* issuer[t]: the node whose ticket carries t, once handed out
    expired,  \* the tokens whose expires_at has passed
    call,     \* call[r][t]: r's redeem_ticket of t
    told,     \* history: <<t, r>> once an answer Redeemed for t went to r
    closed,   \* history: tokens a revoke hit and was acknowledged for
    severed   \* history: severed[n]: nodes a revoke at n has hit

vars == <<mem, disk, issuer, expired, call, told, closed, severed>>

-----------------------------------------------------------------------------
\* A grant without a token (Grants::allow) carries the peer's node id as its id.
Grant == [id: Tokens \cup Nodes, reshare: BOOLEAN,
          state: {"Issued", "Active", "Revoked"}, node: Nodes \cup {NoOne}]

Peer == [reshare: BOOLEAN, label: {"ticket", "symmetric"}]
NoPeer == [reshare |-> FALSE, label |-> "none"]

Store == [grants: Seq(Grant), peers: [Nodes -> Peer \cup {NoPeer}]]

EmptyStore == [grants |-> <<>>, peers |-> [n \in Nodes |-> NoPeer]]

Idle == [pc |-> "idle", reshare |-> FALSE]
Call == [pc: {"idle", "sent", "answered"}, reshare: BOOLEAN]

-----------------------------------------------------------------------------
(* The operations of grants.rs on one store.                               *)

ActiveFor(s, n) ==
    {i \in DOMAIN s.grants : s.grants[i].state = "Active" /\ s.grants[i].node = n}

\* Grants::issue
Issue(s, t, reshare) ==
    [s EXCEPT !.grants = Append(@, [id |-> t, reshare |-> reshare,
                                    state |-> "Issued", node |-> NoOne])]

\* The two branches of Grants::redeem: the token is already pinned to this
\* node, or it is still issued and not expired.
PinnedTo(s, t, r) == {i \in ActiveFor(s, r) : s.grants[i].id = t}

\* Mutant: a burned token is accepted again.
Redeemable_AnyState(s, t) ==
    {i \in DOMAIN s.grants : s.grants[i].id = t /\ t \notin expired}

Redeemable(s, t) ==
    {i \in DOMAIN s.grants : /\ s.grants[i].state = "Issued"
                             /\ s.grants[i].id = t
                             /\ t \notin expired}

Pin(s, i, r) ==
    [s EXCEPT !.grants[i] = [@ EXCEPT !.state = "Active", !.node = r]]

\* Mutant: the insert branch is missing, only a known peer is updated.
UpsertPeer_NoInsert(s, n, reshare, label) ==
    [s EXCEPT !.peers[n].reshare = reshare]

\* Grants::upsert_peer replaces the whole entry of a peer already known.
UpsertPeer(s, n, reshare, label) ==
    [s EXCEPT !.peers[n] = [reshare |-> reshare, label |-> label]]

\* Grants::allow
Allow(s, n) ==
    IF ActiveFor(s, n) # {} THEN s
    ELSE [s EXCEPT !.grants = Append(@, [id |-> n, reshare |-> TRUE,
                                         state |-> "Active", node |-> n])]

\* Grants::revoke and Grants::drop_peers.  A needle names a token, a node, or
\* the label every symmetric entry has.
Hits(g, needle) ==
    /\ g.state # "Revoked"
    /\ \/ g.id = needle
       \/ g.node = needle
       \/ /\ needle = Symmetric
          /\ g.id \in Nodes

DropsPeer(s, n, needle) ==
    /\ s.peers[n] # NoPeer
    /\ \/ needle = n
       \/ /\ needle = Symmetric
          /\ s.peers[n].label = "symmetric"

HitGrants(s, needle) == {i \in DOMAIN s.grants : Hits(s.grants[i], needle)}
HitPeers(s, needle) == {n \in Nodes : DropsPeer(s, n, needle)}

\* Mutant: only redeemed grants are revoked, an unused invite keeps working.
RevokeMatching_ActiveOnly(s, needle) ==
    [grants |-> [i \in DOMAIN s.grants |->
                    IF i \in HitGrants(s, needle) /\ s.grants[i].state = "Active"
                    THEN [s.grants[i] EXCEPT !.state = "Revoked"]
                    ELSE s.grants[i]],
     peers  |-> [n \in Nodes |->
                    IF n \in HitPeers(s, needle) THEN NoPeer ELSE s.peers[n]]]

RevokeMatching(s, needle) ==
    [grants |-> [i \in DOMAIN s.grants |->
                    IF i \in HitGrants(s, needle)
                    THEN [s.grants[i] EXCEPT !.state = "Revoked"]
                    ELSE s.grants[i]],
     peers  |-> [n \in Nodes |->
                    IF n \in HitPeers(s, needle) THEN NoPeer ELSE s.peers[n]]]

-----------------------------------------------------------------------------
Init ==
    /\ mem = [n \in Nodes |-> EmptyStore]
    /\ disk = [n \in Nodes |-> EmptyStore]
    /\ issuer = [t \in Tokens |-> NoOne]
    /\ expired = {}
    /\ call = [r \in Nodes |-> [t \in Tokens |-> Idle]]
    /\ told = {}
    /\ closed = {}
    /\ severed = [n \in Nodes |-> {}]

\* Mutant: the list is saved before it is changed.
Saved_TooEarly(n) == disk' = [disk EXCEPT ![n] = mem[n]]

\* GrantStore::save: every mutation ends in one, and it may fail.
Saved(n) == disk' = [disk EXCEPT ![n] = mem'[n]]
SaveFailed(n) == n \in FullDisk /\ UNCHANGED disk

\* A token is 16 random bytes: a minted one is in no list and in no ticket.
Holds(s, t) == \E i \in DOMAIN s.grants : s.grants[i].id = t
Fresh(t) ==
    /\ issuer[t] = NoOne
    /\ t \notin expired
    /\ \A n \in Nodes : ~Holds(mem[n], t) /\ ~Holds(disk[n], t)

\* ctl_server::mint_invite: the ticket is returned only if the save succeeds.
Mint(n, t, reshare) ==
    /\ Fresh(t)
    /\ Len(mem[n].grants) < MaxGrants
    /\ mem' = [mem EXCEPT ![n] = Issue(@, t, reshare)]
    /\ \/ Saved(n) /\ issuer' = [issuer EXCEPT ![t] = n]
       \/ SaveFailed(n) /\ UNCHANGED issuer
    /\ UNCHANGED <<expired, call, told, closed, severed>>

\* Wall-clock time passes a ticket's expires_at.
Expire(t) ==
    /\ issuer[t] # NoOne /\ t \notin expired
    /\ expired' = expired \cup {t}
    /\ UNCHANGED <<mem, disk, issuer, call, told, closed, severed>>

\* ctl_server::redeem_ticket, up to the request on the wire.
SendRedeem(r, t) ==
    /\ issuer[t] \notin {NoOne, r}
    /\ call[r][t] = Idle
    /\ call' = [call EXCEPT ![r][t].pc = "sent"]
    /\ UNCHANGED <<mem, disk, issuer, expired, told, closed, severed>>

\* The Redeem branch of p2p::handle_stream: under the grants lock the token is
\* redeemed, the redeemer recorded as a peer and the list saved; only then is
\* Redeemed written.  A failed save drops the stream without an answer, the
\* memory already changed.
HandleRedeem(r, t) ==
    LET n == issuer[t]
        s == mem[n]
    IN  /\ call[r][t].pc = "sent"
        /\ \E i \in IF PinnedTo(s, t, r) # {} THEN PinnedTo(s, t, r) ELSE Redeemable(s, t) :
              /\ mem' = [mem EXCEPT ![n] = UpsertPeer(
                            IF i \in PinnedTo(s, t, r) THEN s ELSE Pin(s, i, r),
                            r, TRUE, "symmetric")]
              /\ \/ /\ Saved(n)
                    /\ call' = [call EXCEPT ![r][t] = [pc |-> "answered",
                                                       reshare |-> s.grants[i].reshare]]
                    /\ told' = told \cup {<<t, r>>}
                 \/ /\ SaveFailed(n)
                    /\ call' = [call EXCEPT ![r][t] = Idle]
                    /\ UNCHANGED told
        /\ UNCHANGED <<issuer, expired, closed, severed>>

\* redeem_ticket, from the answer on: record the grantor as a peer with the
\* reshare flag it answered, and let it in in return.
FinishRedeem(r, t) ==
    /\ call[r][t].pc = "answered"
    /\ Len(mem[r].grants) < MaxGrants \/ ActiveFor(mem[r], issuer[t]) # {}
    /\ mem' = [mem EXCEPT ![r] =
                  Allow(UpsertPeer(@, issuer[t], call[r][t].reshare, "ticket"), issuer[t])]
    /\ Saved(r) \/ SaveFailed(r)
    /\ call' = [call EXCEPT ![r][t] = Idle]
    /\ UNCHANGED <<issuer, expired, told, closed, severed>>

\* The call ends without an enrollment: the connection is lost before or after
\* the request was handled, or the grantor answered Denied.
LoseCall(r, t) ==
    /\ call[r][t] # Idle
    /\ call' = [call EXCEPT ![r][t] = Idle]
    /\ UNCHANGED <<mem, disk, issuer, expired, told, closed, severed>>

\* ctl_server::handle_revoke: an error when nothing matched or the save failed.
Revoke(n, needle) ==
    LET hit == HitGrants(mem[n], needle)
        pinned == {mem[n].grants[i].node : i \in hit} \ {NoOne}
    IN  /\ hit # {} \/ HitPeers(mem[n], needle) # {}
        /\ mem' = [mem EXCEPT ![n] = RevokeMatching(@, needle)]
        /\ severed' = [severed EXCEPT ![n] = @ \cup pinned \cup HitPeers(mem[n], needle)]
        /\ \/ /\ Saved(n)
              /\ closed' = closed \cup ({mem[n].grants[i].id : i \in hit} \cap Tokens)
           \/ SaveFailed(n) /\ UNCHANGED closed
        /\ UNCHANGED <<issuer, expired, call, told>>

\* The daemon dies and is started again: it reads back what was saved, and the
\* connections it was in are gone.
Restart(n) ==
    /\ mem' = [mem EXCEPT ![n] = disk[n]]
    /\ call' = [r \in Nodes |-> [t \in Tokens |->
                   IF r = n \/ issuer[t] = n THEN Idle ELSE call[r][t]]]
    /\ UNCHANGED <<disk, issuer, expired, told, closed, severed>>

Next ==
    \/ \E n \in Nodes, t \in Tokens, b \in BOOLEAN : Mint(n, t, b)
    \/ \E t \in Tokens : Expire(t)
    \/ \E r \in Nodes, t \in Tokens :
          \/ SendRedeem(r, t)
          \/ HandleRedeem(r, t)
          \/ FinishRedeem(r, t)
          \/ LoseCall(r, t)
    \/ \E n \in Nodes, needle \in Nodes \cup Tokens \cup {Symmetric} : Revoke(n, needle)
    \/ \E n \in Nodes : Restart(n)

Spec == Init /\ [][Next]_vars

-----------------------------------------------------------------------------
\* Every variable has the shape the code gives it: lists of grants and peers,
\* at most one call of a node per token.
TypeOK ==
    /\ mem \in [Nodes -> Store]
    /\ disk \in [Nodes -> Store]
    /\ issuer \in [Tokens -> Nodes \cup {NoOne}]
    /\ expired \in SUBSET Tokens
    /\ call \in [Nodes -> [Tokens -> Call]]
    /\ told \in SUBSET (Tokens \X Nodes)
    /\ closed \in SUBSET Tokens
    /\ severed \in [Nodes -> SUBSET Nodes]

\* Grants::redeem "burns the token": however answers are lost, saves fail and
\* daemons restart, one token never gets a Redeemed answer out to two nodes.
TokenEnrollsOneNode ==
    \A t \in Tokens, r1, r2 \in Nodes : <<t, r1>> \in told /\ <<t, r2>> \in told => r1 = r2

\* handle_revoke: once it has answered, the grant is dead on disk as well as in
\* memory, so no restart or later redemption brings the token back.
AckedRevokeIsFinal ==
    \A n \in Nodes, t \in closed :
        /\ \A i \in DOMAIN mem[n].grants :
              mem[n].grants[i].id = t => mem[n].grants[i].state = "Revoked"
        /\ \A i \in DOMAIN disk[n].grants :
              disk[n].grants[i].id = t => disk[n].grants[i].state = "Revoked"

\* redeem_ticket and the Redeem handler, "symmetric": a node that has saved a
\* grantor as its peer has a grant there that survives the grantor's restart,
\* the grantor knows it as a peer, and has a grant in return; only a revoke
\* leaves one side enrolled without the other.
EnrollmentIsMutual ==
    \A r, n \in Nodes :
        disk[r].peers[n].label = "ticket" =>
            /\ r \notin severed[n] =>
                  ActiveFor(disk[n], r) # {} /\ disk[n].peers[r] # NoPeer
            /\ n \notin severed[r] => ActiveFor(disk[r], n) # {}

\* DESIGN 7.5, "honest clients honor it": with no exchange of the two nodes
\* open, a node that re-serves a peer's content (search.rs reads the flag of
\* its peer entry) has a grant from that peer that says it may.
ReshareWasGranted ==
    \A r, n \in Nodes :
        /\ mem[r].peers[n].reshare
        /\ ActiveFor(mem[n], r) # {}
        /\ \A t \in Tokens : call[r][t] = Idle /\ call[n][t] = Idle
        => \E i \in ActiveFor(mem[n], r) : mem[n].grants[i].reshare

\* Whom the grantor told it is enrolled by each token.
Holder ==
    [t \in Tokens |-> IF \E r \in Nodes : <<t, r>> \in told
                      THEN CHOOSE r \in Nodes : <<t, r>> \in told
                      ELSE NoOne]

\* What invites promise (module Enrollment), with the told answers as holders.
Promise == INSTANCE Enrollment WITH holder <- Holder, closed <- closed

\* The exchange of mint_invite, redeem_ticket, the Redeem handler and
\* handle_revoke does what Enrollment says, and nothing else, on every behaviour.
KeepsPromise == Promise!EnrollSpec
=============================================================================
