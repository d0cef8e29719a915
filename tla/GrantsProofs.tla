---------------------------- MODULE GrantsProofs ----------------------------
(***************************************************************************)
(* Proofs about Grants, for any nodes, tokens, disks and list bound: its   *)
(* types, that a token enrolls one node, that an acknowledged revoke is    *)
(* final, that enrollment is mutual, and that it implements Enrollment.    *)
(***************************************************************************)
EXTENDS Grants, TLAPS

-----------------------------------------------------------------------------
(* Every operation on a list yields a list.                                *)

LEMMA EmptyStoreType == EmptyStore \in Store
BY DEF EmptyStore, Store, NoPeer

LEMMA StoreParts ==
    ASSUME NEW s \in Store
    PROVE  /\ s.grants \in Seq(Grant)
           /\ s.peers \in [Nodes -> Peer \cup {NoPeer}]
           /\ s = [grants |-> s.grants, peers |-> s.peers]
BY DEF Store

LEMMA AppendType ==
    ASSUME NEW s \in Store, NEW g \in Grant
    PROVE  [s EXCEPT !.grants = Append(@, g)] \in Store
<1>1. Append(s.grants, g) \in Seq(Grant)
  BY StoreParts
<1> QED BY <1>1, StoreParts DEF Store

LEMMA IssueType ==
    ASSUME NEW s \in Store, NEW t \in Tokens, NEW b \in BOOLEAN
    PROVE  Issue(s, t, b) \in Store
<1>1. [id |-> t, reshare |-> b, state |-> "Issued", node |-> NoOne] \in Grant
  BY DEF Grant
<1> QED BY <1>1, AppendType DEF Issue

LEMMA PinType ==
    ASSUME NEW s \in Store, NEW i \in DOMAIN s.grants, NEW r \in Nodes
    PROVE  Pin(s, i, r) \in Store
<1> DEFINE g == [s.grants[i] EXCEPT !.state = "Active", !.node = r]
           l == [s.grants EXCEPT ![i] = g]
<1>1. g \in Grant
  <2>1. s.grants[i] \in Grant
    BY StoreParts
  <2> QED BY <2>1 DEF Grant
<1>2. l \in Seq(Grant)
  BY <1>1, StoreParts
<1>3. Pin(s, i, r) = [s EXCEPT !.grants = l]
  BY StoreParts DEF Pin
<1> QED BY <1>2, <1>3, StoreParts DEF Store

LEMMA UpsertType ==
    ASSUME NEW s \in Store, NEW n \in Nodes, NEW b \in BOOLEAN,
           NEW l \in {"ticket", "symmetric"}
    PROVE  UpsertPeer(s, n, b, l) \in Store
BY DEF UpsertPeer, Store, Peer

LEMMA AllowType ==
    ASSUME NEW s \in Store, NEW n \in Nodes
    PROVE  Allow(s, n) \in Store
<1>1. [id |-> n, reshare |-> TRUE, state |-> "Active", node |-> n] \in Grant
  BY DEF Grant
<1> QED BY <1>1, AppendType DEF Allow

LEMMA RevokeParts ==
    ASSUME NEW s \in Store, NEW needle
    PROVE  LET new == RevokeMatching(s, needle)
           IN  /\ DOMAIN new.grants = 1..Len(s.grants)
               /\ \A i \in 1..Len(s.grants) :
                     new.grants[i] = IF i \in HitGrants(s, needle)
                                     THEN [s.grants[i] EXCEPT !.state = "Revoked"]
                                     ELSE s.grants[i]
               /\ new.grants = [i \in 1..Len(s.grants) |-> new.grants[i]]
               /\ new.peers \in [Nodes -> Peer \cup {NoPeer}]
               /\ new = [grants |-> new.grants, peers |-> new.peers]
<1>1. DOMAIN s.grants = 1..Len(s.grants)
  BY StoreParts
<1> QED BY <1>1, StoreParts DEF RevokeMatching

LEMMA RevokeType ==
    ASSUME NEW s \in Store, NEW needle
    PROVE  RevokeMatching(s, needle) \in Store
<1> DEFINE new == RevokeMatching(s, needle)
<1> HIDE DEF new
<1>1. /\ new.grants = [i \in 1..Len(s.grants) |-> new.grants[i]]
      /\ \A i \in 1..Len(s.grants) :
            new.grants[i] = IF i \in HitGrants(s, needle)
                            THEN [s.grants[i] EXCEPT !.state = "Revoked"]
                            ELSE s.grants[i]
      /\ new.peers \in [Nodes -> Peer \cup {NoPeer}]
      /\ new = [grants |-> new.grants, peers |-> new.peers]
  BY RevokeParts DEF new
<1>2. ASSUME NEW i \in 1..Len(s.grants)
      PROVE  new.grants[i] \in Grant
  <2>1. s.grants[i] \in Grant
    BY StoreParts
  <2>2. [s.grants[i] EXCEPT !.state = "Revoked"] \in Grant
    BY <2>1 DEF Grant
  <2>3. new.grants[i] = IF i \in HitGrants(s, needle)
                        THEN [s.grants[i] EXCEPT !.state = "Revoked"]
                        ELSE s.grants[i]
    BY <1>1
  <2> QED BY <2>1, <2>2, <2>3
<1>3. Len(s.grants) \in Nat
  BY StoreParts
<1>4. new.grants \in Seq(Grant)
  <2>1. new.grants \in [1..Len(s.grants) -> Grant]
    BY <1>1, <1>2
  <2> QED BY <2>1, <1>3
<1> QED BY <1>1, <1>4 DEF Store, new

-----------------------------------------------------------------------------
(* Type correctness.                                                       *)

\* A call is only ever of a ticket somebody handed out.
CallsHaveIssuer ==
    \A r \in Nodes, t \in Tokens : call[r][t].pc # "idle" => issuer[t] \in Nodes

TypeInv == TypeOK /\ CallsHaveIssuer

LEMMA TypeInvInit == Init => TypeInv
BY EmptyStoreType DEF Init, TypeInv, TypeOK, CallsHaveIssuer, Idle, Call

LEMMA TypeInvNext == TypeInv /\ [Next]_vars => TypeInv'
<1> SUFFICES ASSUME TypeInv, [Next]_vars
             PROVE  TypeInv'
  OBVIOUS
<1> USE GrantsAssumption DEF TypeInv, TypeOK, CallsHaveIssuer
<1>1. ASSUME NEW n \in Nodes, NEW t \in Tokens, NEW b \in BOOLEAN, Mint(n, t, b)
      PROVE  TypeInv'
  <2>1. mem' = [mem EXCEPT ![n] = Issue(@, t, b)]
    BY <1>1 DEF Mint
  <2>2. mem' \in [Nodes -> Store]
    BY <2>1, IssueType
  <2>3. disk' \in [Nodes -> Store]
    BY <1>1, <2>2 DEF Mint, Saved, SaveFailed
  <2>4. issuer' = issuer \/ issuer' = [issuer EXCEPT ![t] = n]
    BY <1>1 DEF Mint
  <2>5. UNCHANGED <<expired, call, told, closed, severed>>
    BY <1>1 DEF Mint
  <2> QED BY <2>2, <2>3, <2>4, <2>5
<1>2. ASSUME NEW t \in Tokens, Expire(t)
      PROVE  TypeInv'
  BY <1>2 DEF Expire
<1>3. ASSUME NEW r \in Nodes, NEW t \in Tokens, SendRedeem(r, t)
      PROVE  TypeInv'
  BY <1>3 DEF SendRedeem, Call, Idle
<1>4. ASSUME NEW r \in Nodes, NEW t \in Tokens, HandleRedeem(r, t)
      PROVE  TypeInv'
  <2> DEFINE n == issuer[t]
             s == mem[n]
  <2>1. n \in Nodes /\ s \in Store
    BY <1>4 DEF HandleRedeem
  <2>2. PICK i \in IF PinnedTo(s, t, r) # {} THEN PinnedTo(s, t, r) ELSE Redeemable(s, t) :
              /\ mem' = [mem EXCEPT ![n] = UpsertPeer(
                            IF i \in PinnedTo(s, t, r) THEN s ELSE Pin(s, i, r),
                            r, TRUE, "symmetric")]
              /\ \/ /\ Saved(n)
                    /\ call' = [call EXCEPT ![r][t] = [pc |-> "answered",
                                                       reshare |-> s.grants[i].reshare]]
                    /\ told' = told \cup {<<t, r>>}
                 \/ /\ SaveFailed(n)
                    /\ call' = [call EXCEPT ![r][t] = Idle]
                    /\ UNCHANGED told
    BY <1>4 DEF HandleRedeem
  <2>3. i \in DOMAIN s.grants
    BY <2>2 DEF PinnedTo, Redeemable, ActiveFor
  <2>4. (IF i \in PinnedTo(s, t, r) THEN s ELSE Pin(s, i, r)) \in Store
    BY <2>1, <2>3, PinType
  <2>5. mem' \in [Nodes -> Store]
    BY <2>1, <2>2, <2>4, UpsertType
  <2>6. disk' \in [Nodes -> Store]
    BY <2>1, <2>2, <2>5 DEF Saved, SaveFailed
  <2>7. s.grants[i].reshare \in BOOLEAN
    <3>1. s.grants[i] \in Grant
      BY <2>1, <2>3, StoreParts
    <3> QED BY <3>1 DEF Grant
  <2>8. call' \in [Nodes -> [Tokens -> Call]]
    <3>1. Idle \in Call /\ [pc |-> "answered", reshare |-> s.grants[i].reshare] \in Call
      BY <2>7 DEF Call, Idle
    <3>2. PICK c \in Call : call' = [call EXCEPT ![r][t] = c]
      BY <2>2, <3>1
    <3> QED BY <3>2
  <2>9. UNCHANGED <<issuer, expired, closed, severed>>
    BY <1>4 DEF HandleRedeem
  <2>10. CallsHaveIssuer'
    BY <2>1, <2>2, <2>9 DEF Idle
  <2>11. told' \in SUBSET (Tokens \X Nodes)
    BY <2>2
  <2> QED BY <2>5, <2>6, <2>8, <2>9, <2>10, <2>11
<1>5. ASSUME NEW r \in Nodes, NEW t \in Tokens, FinishRedeem(r, t)
      PROVE  TypeInv'
  <2> DEFINE n == issuer[t]
             s == UpsertPeer(mem[r], n, call[r][t].reshare, "ticket")
  <2>1. n \in Nodes /\ call[r][t].reshare \in BOOLEAN
    BY <1>5 DEF FinishRedeem, Call
  <2>2. Allow(s, n) \in Store
    BY <2>1, UpsertType, AllowType
  <2>3. mem' = [mem EXCEPT ![r] = Allow(s, n)]
    BY <1>5 DEF FinishRedeem
  <2>4. mem' \in [Nodes -> Store]
    BY <2>2, <2>3
  <2>5. disk' \in [Nodes -> Store]
    BY <1>5, <2>4 DEF FinishRedeem, Saved, SaveFailed
  <2>6. call' = [call EXCEPT ![r][t] = Idle] /\ UNCHANGED <<issuer, expired, told, closed, severed>>
    BY <1>5 DEF FinishRedeem
  <2>7. call' \in [Nodes -> [Tokens -> Call]] /\ CallsHaveIssuer'
    BY <2>6 DEF Call, Idle
  <2> QED BY <2>4, <2>5, <2>6, <2>7
<1>6. ASSUME NEW r \in Nodes, NEW t \in Tokens, LoseCall(r, t)
      PROVE  TypeInv'
  BY <1>6 DEF LoseCall, Call, Idle
<1>7. ASSUME NEW n \in Nodes, NEW needle, Revoke(n, needle)
      PROVE  TypeInv'
  <2>1. RevokeMatching(mem[n], needle) \in Store
    BY RevokeType
  <2>2. mem' \in [Nodes -> Store] /\ disk' \in [Nodes -> Store]
    BY <1>7, <2>1 DEF Revoke, Saved, SaveFailed
  <2>3. closed' \in SUBSET Tokens
    BY <1>7 DEF Revoke
  <2>4. {mem[n].grants[i].node : i \in HitGrants(mem[n], needle)} \ {NoOne} \subseteq Nodes
    <3> SUFFICES ASSUME NEW i \in DOMAIN mem[n].grants
                 PROVE  mem[n].grants[i].node \in Nodes \cup {NoOne}
      BY DEF HitGrants
    <3>1. mem[n].grants[i] \in Grant
      BY StoreParts
    <3> QED BY <3>1 DEF Grant
  <2>5. HitPeers(mem[n], needle) \subseteq Nodes
    BY DEF HitPeers
  <2>6. severed' \in [Nodes -> SUBSET Nodes]
    BY <1>7, <2>4, <2>5 DEF Revoke
  <2> QED BY <1>7, <2>2, <2>3, <2>6 DEF Revoke
<1>8. ASSUME NEW n \in Nodes, Restart(n)
      PROVE  TypeInv'
  BY <1>8 DEF Restart, Call, Idle
<1>9. CASE UNCHANGED vars
  BY <1>9 DEF vars
<1> QED BY <1>1, <1>2, <1>3, <1>4, <1>5, <1>6, <1>7, <1>8, <1>9 DEF Next

\* Whatever fails or restarts, the lists, calls and histories of every node keep
\* the shape the code gives them.
THEOREM TypeCorrect == Spec => []TypeOK
<1>1. TypeInv => TypeOK
  BY DEF TypeInv
<1> QED BY <1>1, TypeInvInit, TypeInvNext, PTL DEF Spec

-----------------------------------------------------------------------------
(* What no operation on a list does: it forgets no grant and no burned     *)
(* token, revives no revoked one, and adds at most one grant, whose token, *)
(* if it has one, is among the new tokens T.                               *)

Burned(g) == g.state \in {"Active", "Revoked"}

Grows(s, new, T) ==
    /\ Len(new.grants) \in Len(s.grants)..Len(s.grants) + 1
    /\ \A i \in DOMAIN s.grants :
          /\ new.grants[i].id = s.grants[i].id
          /\ Burned(s.grants[i]) => Burned(new.grants[i]) /\ new.grants[i].node = s.grants[i].node
          /\ s.grants[i].state = "Revoked" => new.grants[i].state = "Revoked"
    /\ \A i \in DOMAIN new.grants \ DOMAIN s.grants : new.grants[i].id \in Tokens => new.grants[i].id \in T

-----------------------------------------------------------------------------
(* The inductive invariant.                                                *)

\* A list has at most one grant for a token.
OneGrantPerToken(s) ==
    \A i, j \in DOMAIN s.grants :
        s.grants[i].id = s.grants[j].id /\ s.grants[i].id \in Tokens => i = j

\* One node at most has a token in its list, in memory or saved.
HasToken(n, t) == Holds(mem[n], t) \/ Holds(disk[n], t)

TokensAreApart ==
    /\ \A n \in Nodes : OneGrantPerToken(mem[n]) /\ OneGrantPerToken(disk[n])
    /\ \A n, m \in Nodes, t \in Tokens : HasToken(n, t) /\ HasToken(m, t) => n = m

\* An answer Redeemed is backed by a burned grant, in memory and saved.
Backs(s, t, r) ==
    \E i \in DOMAIN s.grants : s.grants[i].id = t /\ s.grants[i].node = r /\ Burned(s.grants[i])

ToldIsBacked ==
    \A t \in Tokens, r \in Nodes : <<t, r>> \in told =>
        /\ issuer[t] \in Nodes
        /\ Backs(mem[issuer[t]], t, r) /\ Backs(disk[issuer[t]], t, r)

\* A closed token is still in some list, so that it is never minted again.
ClosedIsKept ==
    \A t \in closed : \E n \in Nodes : Holds(mem[n], t) /\ Holds(disk[n], t)

IInv == TypeInv /\ TokensAreApart /\ ToldIsBacked /\ ClosedIsKept /\ AckedRevokeIsFinal

-----------------------------------------------------------------------------
(* What growing preserves.                                                 *)

LEMMA GrowsDomain ==
    ASSUME NEW s \in Store, NEW new \in Store, NEW T, Grows(s, new, T)
    PROVE  /\ DOMAIN s.grants = 1..Len(s.grants) /\ Len(s.grants) \in Nat
           /\ DOMAIN new.grants = 1..Len(new.grants) /\ Len(new.grants) \in Nat
           /\ DOMAIN s.grants \subseteq DOMAIN new.grants
           /\ DOMAIN new.grants \ DOMAIN s.grants \subseteq {Len(s.grants) + 1}
<1>1. /\ DOMAIN s.grants = 1..Len(s.grants) /\ Len(s.grants) \in Nat
      /\ DOMAIN new.grants = 1..Len(new.grants) /\ Len(new.grants) \in Nat
  BY StoreParts
<1>2. Len(new.grants) \in Len(s.grants)..Len(s.grants) + 1
  BY DEF Grows
<1> QED BY <1>1, <1>2

LEMMA GrowsHolds ==
    ASSUME NEW s \in Store, NEW new \in Store, NEW T, Grows(s, new, T), NEW t \in Tokens
    PROVE  /\ Holds(s, t) => Holds(new, t)
           /\ Holds(new, t) => Holds(s, t) \/ t \in T
BY GrowsDomain DEF Grows, Holds

LEMMA GrowsBacks ==
    ASSUME NEW s \in Store, NEW new \in Store, NEW T, Grows(s, new, T),
           NEW t, NEW r, Backs(s, t, r)
    PROVE  Backs(new, t, r)
<1>1. PICK i \in DOMAIN s.grants :
          s.grants[i].id = t /\ s.grants[i].node = r /\ Burned(s.grants[i])
  BY DEF Backs
<1>2. i \in DOMAIN new.grants
  BY GrowsDomain
<1>3. new.grants[i].id = t /\ new.grants[i].node = r /\ Burned(new.grants[i])
  BY <1>1 DEF Grows
<1> QED BY <1>2, <1>3 DEF Backs

LEMMA GrowsApart ==
    ASSUME NEW s \in Store, NEW new \in Store, NEW T, Grows(s, new, T),
           OneGrantPerToken(s), \A t \in T : ~Holds(s, t)
    PROVE  OneGrantPerToken(new)
<1> SUFFICES ASSUME NEW i \in DOMAIN new.grants, NEW j \in DOMAIN new.grants,
                    new.grants[i].id = new.grants[j].id, new.grants[i].id \in Tokens
             PROVE  i = j
  BY DEF OneGrantPerToken
<1>1. CASE i \in DOMAIN s.grants /\ j \in DOMAIN s.grants
  BY <1>1 DEF Grows, OneGrantPerToken
<1>2. CASE i \notin DOMAIN s.grants /\ j \notin DOMAIN s.grants
  BY <1>2, GrowsDomain
<1>3. CASE i \in DOMAIN s.grants /\ j \notin DOMAIN s.grants
  <2>1. new.grants[j].id \in T
    BY <1>3 DEF Grows
  <2>2. s.grants[i].id = new.grants[j].id
    BY <1>3 DEF Grows
  <2> QED BY <1>3, <2>1, <2>2 DEF Holds
<1>4. CASE i \notin DOMAIN s.grants /\ j \in DOMAIN s.grants
  <2>1. new.grants[i].id \in T
    BY <1>4 DEF Grows
  <2>2. s.grants[j].id = new.grants[i].id
    BY <1>4 DEF Grows
  <2> QED BY <1>4, <2>1, <2>2 DEF Holds
<1> QED BY <1>1, <1>2, <1>3, <1>4

\* Every grant of a token is revoked.
Dead(s, t) == \A i \in DOMAIN s.grants : s.grants[i].id = t => s.grants[i].state = "Revoked"

LEMMA GrowsDead ==
    ASSUME NEW s \in Store, NEW new \in Store, NEW T, Grows(s, new, T),
           NEW t \in Tokens, t \notin T, Dead(s, t)
    PROVE  Dead(new, t)
BY DEF Grows, Dead

-----------------------------------------------------------------------------
(* The operations on a list grow it.                                       *)

LEMMA AppendGrows ==
    ASSUME NEW s \in Store, NEW g \in Grant, NEW T, g.id \in Tokens => g.id \in T
    PROVE  Grows(s, [s EXCEPT !.grants = Append(@, g)], T)
<1> DEFINE new == [s EXCEPT !.grants = Append(@, g)]
<1>1. new.grants = Append(s.grants, g)
  BY StoreParts
<1>2. /\ Len(s.grants) \in Nat /\ DOMAIN s.grants = 1..Len(s.grants)
      /\ Len(new.grants) = Len(s.grants) + 1
      /\ DOMAIN new.grants = 1..Len(s.grants) + 1
      /\ \A i \in 1..Len(s.grants) : new.grants[i] = s.grants[i]
      /\ new.grants[Len(s.grants) + 1] = g
  BY <1>1, StoreParts
<1>3. \A i \in DOMAIN new.grants \ DOMAIN s.grants : new.grants[i] = g
  BY <1>2
<1> HIDE DEF new
<1>4. Grows(s, new, T)
  BY <1>2, <1>3 DEF Grows
<1> QED BY <1>4 DEF new

LEMMA IssueGrows ==
    ASSUME NEW s \in Store, NEW t \in Tokens, NEW b \in BOOLEAN
    PROVE  Grows(s, Issue(s, t, b), {t})
<1> DEFINE g == [id |-> t, reshare |-> b, state |-> "Issued", node |-> NoOne]
<1>1. g \in Grant /\ g.id = t
  BY DEF Grant
<1> QED BY <1>1, AppendGrows DEF Issue

LEMMA UpsertGrants ==
    ASSUME NEW s \in Store, NEW n, NEW b, NEW l
    PROVE  UpsertPeer(s, n, b, l).grants = s.grants
BY StoreParts DEF UpsertPeer

LEMMA PinGrows ==
    ASSUME NEW s \in Store, NEW i \in DOMAIN s.grants, s.grants[i].state = "Issued",
           NEW r \in Nodes
    PROVE  Grows(s, Pin(s, i, r), {})
<1> DEFINE g == [s.grants[i] EXCEPT !.state = "Active", !.node = r]
           new == Pin(s, i, r)
<1>1. new.grants = [s.grants EXCEPT ![i] = g]
  BY StoreParts DEF Pin
<1>2. g.id = s.grants[i].id
  <2>1. s.grants[i] \in Grant
    BY StoreParts
  <2> QED BY <2>1 DEF Grant
<1>3. Len(new.grants) = Len(s.grants) /\ DOMAIN new.grants = DOMAIN s.grants /\ Len(s.grants) \in Nat
  BY <1>1, StoreParts
<1>4. \A k \in DOMAIN s.grants : k # i => new.grants[k] = s.grants[k]
  BY <1>1, StoreParts
<1>5. new.grants[i] = g
  BY <1>1, StoreParts
<1> HIDE DEF new, g
<1>6. Grows(s, new, {})
  BY <1>2, <1>3, <1>4, <1>5 DEF Grows, Burned
<1> QED BY <1>6 DEF new

LEMMA SameGrows ==
    ASSUME NEW s \in Store
    PROVE  Grows(s, s, {})
<1>1. Len(s.grants) \in Nat
  BY StoreParts
<1> QED BY <1>1 DEF Grows

LEMMA AllowGrows ==
    ASSUME NEW s \in Store, NEW n \in Nodes
    PROVE  Grows(s, Allow(s, n), {})
<1> DEFINE g == [id |-> n, reshare |-> TRUE, state |-> "Active", node |-> n]
<1>1. g \in Grant /\ g.id \notin Tokens
  BY GrantsAssumption DEF Grant
<1>2. Grows(s, [s EXCEPT !.grants = Append(@, g)], {})
  BY <1>1, AppendGrows
<1> QED BY <1>2, SameGrows DEF Allow

LEMMA RevokeGrows ==
    ASSUME NEW s \in Store, NEW needle
    PROVE  /\ Grows(s, RevokeMatching(s, needle), {})
           /\ \A i \in HitGrants(s, needle) :
                 RevokeMatching(s, needle).grants[i].state = "Revoked"
<1> DEFINE new == RevokeMatching(s, needle)
<1>1. DOMAIN s.grants = 1..Len(s.grants) /\ Len(s.grants) \in Nat
  BY StoreParts
<1>2. /\ DOMAIN new.grants = 1..Len(s.grants)
      /\ \A i \in 1..Len(s.grants) :
            new.grants[i] = IF i \in HitGrants(s, needle)
                            THEN [s.grants[i] EXCEPT !.state = "Revoked"]
                            ELSE s.grants[i]
  BY RevokeParts
<1>3. Len(new.grants) = Len(s.grants)
  <2>1. new.grants \in Seq(Grant)
    BY RevokeType, StoreParts
  <2> QED BY <1>1, <1>2, <2>1
<1>4. ASSUME NEW i \in DOMAIN s.grants
      PROVE  /\ new.grants[i].id = s.grants[i].id
             /\ new.grants[i].node = s.grants[i].node
             /\ Burned(s.grants[i]) => Burned(new.grants[i])
             /\ s.grants[i].state = "Revoked" => new.grants[i].state = "Revoked"
             /\ i \in HitGrants(s, needle) => new.grants[i].state = "Revoked"
  <2>1. s.grants[i] \in Grant
    BY StoreParts
  <2>2. new.grants[i] = [s.grants[i] EXCEPT !.state = "Revoked"] \/ new.grants[i] = s.grants[i]
    BY <1>1, <1>2
  <2>3. i \in HitGrants(s, needle) => new.grants[i] = [s.grants[i] EXCEPT !.state = "Revoked"]
    BY <1>1, <1>2
  <2> HIDE DEF new
  <2> QED BY <2>1, <2>2, <2>3 DEF Grant, Burned
<1> HIDE DEF new
<1>5. Grows(s, new, {})
  BY <1>1, <1>2, <1>3, <1>4 DEF Grows
<1> QED BY <1>4, <1>5 DEF new, HitGrants

-----------------------------------------------------------------------------
(* One node's list grows, and is saved or not.                             *)

LEMMA GrowStep ==
    ASSUME IInv, NEW n \in Nodes, NEW new \in Store, NEW T \in SUBSET Tokens,
           \A t \in T : Fresh(t), Grows(mem[n], new, T),
           mem' = [mem EXCEPT ![n] = new],
           disk' = disk \/ disk' = [disk EXCEPT ![n] = new]
    PROVE  /\ TokensAreApart'
           /\ \A m \in Nodes, t \in Tokens, r \in Nodes :
                 Backs(mem[m], t, r) /\ Backs(disk[m], t, r)
                 => Backs(mem'[m], t, r) /\ Backs(disk'[m], t, r)
           /\ \A m \in Nodes, t \in Tokens :
                 Holds(mem[m], t) /\ Holds(disk[m], t)
                 => Holds(mem'[m], t) /\ Holds(disk'[m], t)
           /\ \A t \in closed, m \in Nodes : Dead(mem'[m], t) /\ Dead(disk'[m], t)
<1>0. mem \in [Nodes -> Store] /\ disk \in [Nodes -> Store] /\ closed \subseteq Tokens
  BY DEF IInv, TypeInv, TypeOK
<1>1. \A m \in Nodes : mem'[m] = IF m = n THEN new ELSE mem[m]
  BY <1>0
<1>2. \A m \in Nodes : disk'[m] = disk[m] \/ (m = n /\ disk'[m] = new)
  BY <1>0
<1>3. \A t \in T, m \in Nodes : ~Holds(mem[m], t) /\ ~Holds(disk[m], t)
  BY DEF Fresh
<1>4. ASSUME NEW m \in Nodes, NEW t \in Tokens, HasToken(m, t)'
      PROVE  HasToken(m, t) \/ (m = n /\ t \in T)
  <2>1. Holds(mem'[m], t) \/ Holds(disk'[m], t)
    BY <1>4 DEF HasToken, Holds
  <2>2. Holds(new, t) => Holds(mem[n], t) \/ t \in T
    BY <1>0, GrowsHolds
  <2> QED BY <1>1, <1>2, <2>1, <2>2 DEF HasToken
<1>5. TokensAreApart'
  <2>1. OneGrantPerToken(new)
    BY <1>0, <1>3, GrowsApart DEF IInv, TokensAreApart
  <2>2. ASSUME NEW m \in Nodes
        PROVE  OneGrantPerToken(mem'[m]) /\ OneGrantPerToken(disk'[m])
    BY <1>1, <1>2, <2>1 DEF IInv, TokensAreApart
  <2>3. ASSUME NEW m \in Nodes, NEW k \in Nodes, NEW t \in Tokens,
               HasToken(m, t)', HasToken(k, t)'
        PROVE  m = k
    BY <1>3, <1>4, <2>3 DEF IInv, TokensAreApart, HasToken
  <2> QED BY <2>2, <2>3 DEF TokensAreApart, OneGrantPerToken
<1>6. ASSUME NEW m \in Nodes, NEW t \in Tokens, NEW r \in Nodes,
             Backs(mem[m], t, r), Backs(disk[m], t, r)
      PROVE  Backs(mem'[m], t, r) /\ Backs(disk'[m], t, r)
  <2>1. m = n => Backs(new, t, r)
    BY <1>0, <1>6, GrowsBacks
  <2> QED BY <1>1, <1>2, <1>6, <2>1
<1>7. ASSUME NEW m \in Nodes, NEW t \in Tokens, Holds(mem[m], t), Holds(disk[m], t)
      PROVE  Holds(mem'[m], t) /\ Holds(disk'[m], t)
  <2>1. m = n => Holds(new, t)
    BY <1>0, <1>7, GrowsHolds
  <2> QED BY <1>1, <1>2, <1>7, <2>1
<1>8. ASSUME NEW t \in closed, NEW m \in Nodes
      PROVE  Dead(mem'[m], t) /\ Dead(disk'[m], t)
  <2>1. Dead(mem[m], t) /\ Dead(disk[m], t)
    BY DEF IInv, AckedRevokeIsFinal, Dead
  <2>2. t \notin T
    BY <1>3 DEF IInv, ClosedIsKept
  <2>3. m = n => Dead(new, t)
    BY <1>0, <2>1, <2>2, GrowsDead
  <2> QED BY <1>1, <1>2, <2>1, <2>3
<1> QED BY <1>5, <1>6, <1>7, <1>8

\* What the step leaves to show when it tells nobody and closes nothing.
LEMMA QuietGrowStep ==
    ASSUME IInv, TypeInv', NEW n \in Nodes, NEW new \in Store, NEW T \in SUBSET Tokens,
           \A t \in T : Fresh(t), Grows(mem[n], new, T),
           mem' = [mem EXCEPT ![n] = new],
           disk' = disk \/ disk' = [disk EXCEPT ![n] = new],
           \A t \in Tokens : issuer[t] # NoOne => issuer'[t] = issuer[t],
           told' = told, closed' = closed
    PROVE  IInv'
<1>1. ToldIsBacked'
  <2> SUFFICES ASSUME NEW t \in Tokens, NEW r \in Nodes, <<t, r>> \in told
               PROVE  /\ issuer'[t] \in Nodes
                      /\ Backs(mem'[issuer'[t]], t, r) /\ Backs(disk'[issuer'[t]], t, r)
    BY DEF ToldIsBacked, Backs
  <2>1. /\ issuer[t] \in Nodes
        /\ Backs(mem[issuer[t]], t, r) /\ Backs(disk[issuer[t]], t, r)
    BY DEF IInv, ToldIsBacked
  <2>2. issuer'[t] = issuer[t]
    BY <2>1, GrantsAssumption
  <2> QED BY <2>1, <2>2, GrowStep
<1>2. ClosedIsKept'
  <2>1. closed \subseteq Tokens
    BY DEF IInv, TypeInv, TypeOK
  <2>2. \A t \in closed : \E m \in Nodes : Holds(mem[m], t) /\ Holds(disk[m], t)
    BY DEF IInv, ClosedIsKept
  <2>3. \A t \in closed : \E m \in Nodes : Holds(mem'[m], t) /\ Holds(disk'[m], t)
    BY <2>1, <2>2, GrowStep
  <2> QED BY <2>3 DEF ClosedIsKept, Holds
<1>3. AckedRevokeIsFinal'
  BY GrowStep DEF AckedRevokeIsFinal, Dead
<1>4. TokensAreApart'
  BY GrowStep
<1> QED BY <1>1, <1>2, <1>3, <1>4 DEF IInv

-----------------------------------------------------------------------------
(* The redemption of a token, handled.                                     *)

LEMMA RedeemStep ==
    ASSUME IInv, TypeInv', NEW r \in Nodes, NEW t \in Tokens, HandleRedeem(r, t)
    PROVE  /\ IInv'
           /\ told' # told => t \notin closed /\ told' = told \cup {<<t, r>>}
<1> DEFINE n == issuer[t]
           s == mem[n]
<1>1. n \in Nodes /\ s \in Store /\ mem \in [Nodes -> Store] /\ disk \in [Nodes -> Store]
  BY DEF HandleRedeem, IInv, TypeInv, TypeOK, CallsHaveIssuer
<1>2. PICK i \in IF PinnedTo(s, t, r) # {} THEN PinnedTo(s, t, r) ELSE Redeemable(s, t) :
          /\ mem' = [mem EXCEPT ![n] = UpsertPeer(
                            IF i \in PinnedTo(s, t, r) THEN s ELSE Pin(s, i, r),
                            r, TRUE, "symmetric")]
          /\ \/ /\ Saved(n)
                /\ call' = [call EXCEPT ![r][t] = [pc |-> "answered",
                                                   reshare |-> s.grants[i].reshare]]
                /\ told' = told \cup {<<t, r>>}
             \/ /\ SaveFailed(n)
                /\ call' = [call EXCEPT ![r][t] = Idle]
                /\ UNCHANGED told
  BY DEF HandleRedeem
<1> DEFINE s1 == IF i \in PinnedTo(s, t, r) THEN s ELSE Pin(s, i, r)
           new == UpsertPeer(s1, r, TRUE, "symmetric")
<1>3. i \in DOMAIN s.grants /\ s.grants[i].id = t
  BY <1>2 DEF PinnedTo, Redeemable, ActiveFor
<1>4. \/ i \in PinnedTo(s, t, r) /\ s.grants[i].state = "Active" /\ s.grants[i].node = r
      \/ i \notin PinnedTo(s, t, r) /\ s.grants[i].state = "Issued"
  BY <1>2 DEF PinnedTo, Redeemable, ActiveFor
<1>5. s1 \in Store /\ Grows(s, s1, {})
  BY <1>1, <1>3, <1>4, PinType, PinGrows, SameGrows
<1> HIDE DEF s1
<1>6. new \in Store /\ new.grants = s1.grants
  BY <1>5, UpsertType, UpsertGrants
<1> USE DEF s1
<1>7. Grows(s, new, {})
  BY <1>5, <1>6 DEF Grows
<1>8. Backs(s1, t, r)
  <2>1. CASE i \in PinnedTo(s, t, r)
    BY <1>3, <1>4, <2>1 DEF Backs, Burned
  <2>2. CASE i \notin PinnedTo(s, t, r)
    <3>1. s.grants[i] \in Grant
      BY <1>1, <1>3, StoreParts
    <3> DEFINE g == [s.grants[i] EXCEPT !.state = "Active", !.node = r]
    <3>2. g.id = t /\ g.node = r /\ g.state = "Active"
      BY <1>3, <3>1 DEF Grant
    <3>3. s1.grants = [s.grants EXCEPT ![i] = g]
      BY <1>1, <1>3, <2>2, StoreParts DEF Pin
    <3>4. i \in DOMAIN s1.grants /\ s1.grants[i] = g
      BY <1>3, <3>3
    <3> QED BY <3>2, <3>4 DEF Backs, Burned
  <2> QED BY <2>1, <2>2
<1>9. Backs(new, t, r)
  BY <1>6, <1>8 DEF Backs
<1> HIDE DEF s1, new
<1>10. mem' = [mem EXCEPT ![n] = new]
  BY <1>2 DEF s1, new
<1>11. mem'[n] = new /\ (disk' = disk \/ disk' = [disk EXCEPT ![n] = new])
  BY <1>1, <1>2, <1>10 DEF Saved, SaveFailed
<1>12. issuer' = issuer /\ closed' = closed
  BY DEF HandleRedeem
<1>13. /\ TokensAreApart'
       /\ \A m \in Nodes, u \in Tokens, q \in Nodes :
             Backs(mem[m], u, q) /\ Backs(disk[m], u, q)
             => Backs(mem'[m], u, q) /\ Backs(disk'[m], u, q)
       /\ \A m \in Nodes, u \in Tokens :
             Holds(mem[m], u) /\ Holds(disk[m], u)
             => Holds(mem'[m], u) /\ Holds(disk'[m], u)
       /\ \A u \in closed, m \in Nodes : Dead(mem'[m], u) /\ Dead(disk'[m], u)
  BY <1>1, <1>6, <1>7, <1>10, <1>11, GrowStep
<1>14. ToldIsBacked'
  <2> SUFFICES ASSUME NEW u \in Tokens, NEW q \in Nodes, <<u, q>> \in told'
               PROVE  /\ issuer[u] \in Nodes
                      /\ Backs(mem'[issuer[u]], u, q) /\ Backs(disk'[issuer[u]], u, q)
    BY <1>12 DEF ToldIsBacked, Backs
  <2>1. CASE <<u, q>> \in told
    BY <1>13, <2>1 DEF IInv, ToldIsBacked
  <2>2. CASE <<u, q>> \notin told
    <3>1. u = t /\ q = r /\ Saved(n)
      BY <1>2, <2>2
    <3>2. disk'[n] = new
      BY <1>1, <1>11, <3>1 DEF Saved
    <3> QED BY <1>1, <1>9, <1>11, <3>1, <3>2
  <2> QED BY <2>1, <2>2
<1>15. ClosedIsKept' /\ AckedRevokeIsFinal'
  <2>1. closed \subseteq Tokens
    BY DEF IInv, TypeInv, TypeOK
  <2>2. \A u \in closed : \E m \in Nodes : Holds(mem[m], u) /\ Holds(disk[m], u)
    BY DEF IInv, ClosedIsKept
  <2>3. \A u \in closed : \E m \in Nodes : Holds(mem'[m], u) /\ Holds(disk'[m], u)
    BY <1>13, <2>1, <2>2
  <2>4. ClosedIsKept'
    BY <1>12, <2>3 DEF ClosedIsKept, Holds
  <2>5. AckedRevokeIsFinal'
    BY <1>12, <1>13 DEF AckedRevokeIsFinal, Dead
  <2> QED BY <2>4, <2>5
<1>16. t \notin closed
  BY <1>1, <1>3, <1>4 DEF IInv, AckedRevokeIsFinal
<1> QED BY <1>2, <1>13, <1>14, <1>15, <1>16 DEF IInv

LEMMA RevokeStep ==
    ASSUME IInv, TypeInv', NEW n \in Nodes, NEW needle, Revoke(n, needle)
    PROVE  IInv'
<1> DEFINE s == mem[n]
           new == RevokeMatching(s, needle)
           ids == {s.grants[i].id : i \in HitGrants(s, needle)} \cap Tokens
<1>1. s \in Store /\ mem \in [Nodes -> Store] /\ disk \in [Nodes -> Store]
  BY DEF IInv, TypeInv, TypeOK
<1>2. new \in Store /\ Grows(s, new, {})
  BY <1>1, RevokeType, RevokeGrows
<1>8. \A i \in HitGrants(s, needle) : new.grants[i].state = "Revoked"
  BY <1>1, RevokeGrows
<1> HIDE DEF new
<1>9. mem' = [mem EXCEPT ![n] = new]
  BY DEF Revoke, new
<1>3. mem'[n] = new
  BY <1>1, <1>9
<1>4. disk' = disk \/ disk' = [disk EXCEPT ![n] = new]
  BY <1>3 DEF Revoke, Saved, SaveFailed
<1>10. {} \in SUBSET Tokens /\ \A t \in {} : Fresh(t)
  OBVIOUS
<1> HIDE DEF ids
<1>5. issuer' = issuer /\ told' = told
  BY DEF Revoke
<1>6. CASE closed' = closed
  BY <1>2, <1>4, <1>5, <1>6, <1>9, <1>10, QuietGrowStep
<1>7. CASE Saved(n) /\ closed' = closed \cup ids
  <2>1. disk'[n] = new
    BY <1>1, <1>3, <1>7 DEF Saved
  <2>2. /\ TokensAreApart'
        /\ \A m \in Nodes, u \in Tokens, q \in Nodes :
              Backs(mem[m], u, q) /\ Backs(disk[m], u, q)
              => Backs(mem'[m], u, q) /\ Backs(disk'[m], u, q)
        /\ \A m \in Nodes, u \in Tokens :
              Holds(mem[m], u) /\ Holds(disk[m], u)
              => Holds(mem'[m], u) /\ Holds(disk'[m], u)
        /\ \A u \in closed, m \in Nodes : Dead(mem'[m], u) /\ Dead(disk'[m], u)
    BY <1>2, <1>4, <1>9, <1>10, GrowStep
  <2>3. ToldIsBacked'
    BY <1>5, <2>2 DEF IInv, ToldIsBacked, Backs
  <2>4. ASSUME NEW u \in ids
        PROVE  /\ Holds(new, u) /\ Dead(new, u)
               /\ \A m \in Nodes : Dead(mem'[m], u) /\ Dead(disk'[m], u)
    <3>1. PICK i \in HitGrants(s, needle) : s.grants[i].id = u
      BY DEF ids
    <3>2. i \in DOMAIN s.grants
      BY DEF HitGrants
    <3>3. i \in DOMAIN new.grants /\ new.grants[i].id = u /\ new.grants[i].state = "Revoked"
      BY <1>1, <1>2, <1>8, <3>1, <3>2, GrowsDomain DEF Grows
    <3>4. Holds(new, u)
      BY <3>3 DEF Holds
    <3>5. OneGrantPerToken(new)
      BY <1>3, <2>2 DEF TokensAreApart, OneGrantPerToken
    <3>6. Dead(new, u)
      BY <3>3, <3>5 DEF ids, OneGrantPerToken, Dead
    <3>7. ASSUME NEW m \in Nodes, m # n
          PROVE  ~Holds(mem'[m], u) /\ ~Holds(disk'[m], u)
      BY <1>3, <2>2, <3>4, <3>7 DEF ids, TokensAreApart, HasToken, Holds
    <3>8. ASSUME NEW m \in Nodes, m # n
          PROVE  Dead(mem'[m], u) /\ Dead(disk'[m], u)
      BY <3>7, <3>8 DEF Dead, Holds
    <3> QED BY <1>3, <2>1, <3>4, <3>6, <3>8
  <2>5. ClosedIsKept'
    <3>1. closed \subseteq Tokens
      BY DEF IInv, TypeInv, TypeOK
    <3>2. \A u \in closed : \E m \in Nodes : Holds(mem'[m], u) /\ Holds(disk'[m], u)
      BY <2>2, <3>1 DEF IInv, ClosedIsKept
    <3>3. \A u \in ids : Holds(mem'[n], u) /\ Holds(disk'[n], u)
      BY <1>3, <2>1, <2>4
    <3> QED BY <1>7, <3>2, <3>3 DEF ClosedIsKept, Holds
  <2>6. AckedRevokeIsFinal'
    BY <1>7, <2>2, <2>4 DEF AckedRevokeIsFinal, Dead
  <2> QED BY <2>2, <2>3, <2>5, <2>6 DEF IInv
<1> QED BY <1>6, <1>7 DEF Revoke, ids

-----------------------------------------------------------------------------
(* The induction.                                                          *)

LEMMA IInvInit == Init => IInv
<1> SUFFICES ASSUME Init PROVE IInv
  OBVIOUS
<1>1. \A n \in Nodes : mem[n].grants = <<>> /\ disk[n].grants = <<>>
  BY DEF Init, EmptyStore
<1>2. TokensAreApart
  BY <1>1 DEF TokensAreApart, OneGrantPerToken, HasToken, Holds
<1>3. ToldIsBacked /\ ClosedIsKept /\ AckedRevokeIsFinal
  BY DEF Init, ToldIsBacked, ClosedIsKept, AckedRevokeIsFinal
<1> QED BY <1>2, <1>3, TypeInvInit DEF IInv

LEMMA IInvNext == IInv /\ [Next]_vars => IInv'
<1> SUFFICES ASSUME IInv, [Next]_vars
             PROVE  IInv'
  OBVIOUS
<1>0. TypeInv'
  BY TypeInvNext DEF IInv
<1>1. ASSUME UNCHANGED <<mem, disk, issuer, told, closed>>
      PROVE  IInv'
  BY <1>0, <1>1 DEF IInv, TokensAreApart, OneGrantPerToken, HasToken, Holds,
                    ToldIsBacked, Backs, ClosedIsKept, AckedRevokeIsFinal
<1>2. mem \in [Nodes -> Store] /\ disk \in [Nodes -> Store]
  BY DEF IInv, TypeInv, TypeOK
<1>3. ASSUME NEW n \in Nodes, NEW t \in Tokens, NEW b \in BOOLEAN, Mint(n, t, b)
      PROVE  IInv'
  <2> DEFINE new == Issue(mem[n], t, b)
  <2>1. new \in Store /\ Grows(mem[n], new, {t})
    BY <1>2, IssueType, IssueGrows
  <2> HIDE DEF new
  <2>2. mem' = [mem EXCEPT ![n] = new] /\ Fresh(t)
    BY <1>3 DEF Mint, new
  <2>3. disk' = disk \/ disk' = [disk EXCEPT ![n] = new]
    BY <1>2, <1>3, <2>2 DEF Mint, Saved, SaveFailed
  <2>4. {t} \in SUBSET Tokens /\ \A u \in {t} : Fresh(u)
    BY <2>2
  <2>5. \A u \in Tokens : issuer[u] # NoOne => issuer'[u] = issuer[u]
    BY <1>3, <2>2 DEF Mint, Fresh, IInv, TypeInv, TypeOK
  <2>6. told' = told /\ closed' = closed
    BY <1>3 DEF Mint
  <2> QED BY <1>0, <2>1, <2>2, <2>3, <2>4, <2>5, <2>6, QuietGrowStep
<1>4. ASSUME NEW r \in Nodes, NEW t \in Tokens, FinishRedeem(r, t)
      PROVE  IInv'
  <2> DEFINE n == issuer[t]
             s == UpsertPeer(mem[r], n, call[r][t].reshare, "ticket")
             new == Allow(s, n)
  <2>1. n \in Nodes /\ call[r][t].reshare \in BOOLEAN
    BY <1>4 DEF FinishRedeem, Call, IInv, TypeInv, TypeOK, CallsHaveIssuer
  <2>2. s \in Store /\ s.grants = mem[r].grants
    BY <1>2, <2>1, UpsertType, UpsertGrants
  <2>3. mem' = [mem EXCEPT ![r] = new]
    BY <1>4 DEF FinishRedeem
  <2> HIDE DEF s
  <2>4. new \in Store /\ Grows(s, new, {})
    BY <2>1, <2>2, AllowType, AllowGrows
  <2> HIDE DEF new
  <2>5. Grows(mem[r], new, {})
    BY <2>2, <2>4 DEF Grows
  <2>6. disk' = disk \/ disk' = [disk EXCEPT ![r] = new]
    BY <1>2, <1>4, <2>3 DEF FinishRedeem, Saved, SaveFailed
  <2>7. {} \in SUBSET Tokens /\ \A u \in {} : Fresh(u)
    OBVIOUS
  <2>8. UNCHANGED <<issuer, told, closed>>
    BY <1>4 DEF FinishRedeem
  <2> QED BY <1>0, <2>3, <2>4, <2>5, <2>6, <2>7, <2>8, QuietGrowStep
<1>5. ASSUME NEW n \in Nodes, Restart(n)
      PROVE  IInv'
  <2>1. /\ \A m \in Nodes : mem'[m] = IF m = n THEN disk[m] ELSE mem[m]
        /\ UNCHANGED <<disk, issuer, told, closed>>
    BY <1>2, <1>5 DEF Restart
  <2>2. \A m \in Nodes, t \in Tokens : HasToken(m, t)' => HasToken(m, t)
    BY <2>1 DEF HasToken, Holds
  <2>3. TokensAreApart'
    BY <2>1, <2>2 DEF IInv, TokensAreApart, OneGrantPerToken
  <2>4. ToldIsBacked'
    BY <2>1 DEF IInv, ToldIsBacked, Backs
  <2>5. ClosedIsKept'
    BY <2>1 DEF IInv, ClosedIsKept, Holds
  <2>6. AckedRevokeIsFinal'
    BY <2>1 DEF IInv, AckedRevokeIsFinal
  <2> QED BY <1>0, <2>3, <2>4, <2>5, <2>6 DEF IInv
<1>6. ASSUME NEW t \in Tokens, Expire(t)
      PROVE  IInv'
  BY <1>1, <1>6 DEF Expire
<1>7. ASSUME NEW r \in Nodes, NEW t \in Tokens, SendRedeem(r, t) \/ LoseCall(r, t)
      PROVE  IInv'
  BY <1>1, <1>7 DEF SendRedeem, LoseCall
<1>8. CASE UNCHANGED vars
  BY <1>1, <1>8 DEF vars
<1> QED BY <1>0, <1>3, <1>4, <1>5, <1>6, <1>7, <1>8, RedeemStep, RevokeStep DEF Next

LEMMA IInvAlways == Spec => []IInv
BY IInvInit, IInvNext, PTL DEF Spec

-----------------------------------------------------------------------------
(* What follows from it.                                                   *)

LEMMA ToldOnce == IInv => TokenEnrollsOneNode
<1> SUFFICES ASSUME IInv, NEW t \in Tokens, NEW r1 \in Nodes, NEW r2 \in Nodes,
                    <<t, r1>> \in told, <<t, r2>> \in told
             PROVE  r1 = r2
  BY DEF TokenEnrollsOneNode
<1> DEFINE s == mem[issuer[t]]
<1>1. issuer[t] \in Nodes /\ Backs(s, t, r1) /\ Backs(s, t, r2)
  BY DEF IInv, ToldIsBacked
<1>2. OneGrantPerToken(s)
  BY <1>1 DEF IInv, TokensAreApart
<1> QED BY <1>1, <1>2 DEF Backs, OneGrantPerToken

\* Grants::redeem burns the token for good: however answers are lost, saves
\* fail and daemons restart, one token never gets an answer Redeemed out to two
\* nodes.
THEOREM OneNodePerToken == Spec => []TokenEnrollsOneNode
BY IInvAlways, ToldOnce, PTL

\* What handle_revoke has acknowledged stays revoked in memory and on disk, so
\* no restart and no later redemption revives the token.
THEOREM RevokeIsFinal == Spec => []AckedRevokeIsFinal
<1>1. IInv => AckedRevokeIsFinal
  BY DEF IInv
<1> QED BY <1>1, IInvAlways, PTL

-----------------------------------------------------------------------------
(* Enrollment is mutual.                                                   *)

\* A store that still admits and knows every node but those in S.
Keeps(s, new, S) ==
    \A x \in Nodes \ S : /\ ActiveFor(s, x) # {} => ActiveFor(new, x) # {}
                         /\ s.peers[x] # NoPeer => new.peers[x] # NoPeer

LEMMA AppendKeeps ==
    ASSUME NEW s \in Store, NEW g \in Grant
    PROVE  LET new == [s EXCEPT !.grants = Append(@, g)]
           IN  /\ Keeps(s, new, {}) /\ new.peers = s.peers
               /\ \A x \in Nodes : g.state = "Active" /\ g.node = x => ActiveFor(new, x) # {}
<1> DEFINE new == [s EXCEPT !.grants = Append(@, g)]
<1>1. new.grants = Append(s.grants, g) /\ new.peers = s.peers
  BY StoreParts
<1>2. /\ DOMAIN s.grants = 1..Len(s.grants) /\ DOMAIN new.grants = 1..Len(s.grants) + 1
      /\ \A i \in DOMAIN s.grants : i \in DOMAIN new.grants /\ new.grants[i] = s.grants[i]
      /\ new.grants[Len(s.grants) + 1] = g /\ Len(s.grants) + 1 \in DOMAIN new.grants
  BY <1>1, StoreParts
<1> HIDE DEF new
<1>3. Keeps(s, new, {})
  BY <1>1, <1>2 DEF Keeps, ActiveFor
<1>4. \A x \in Nodes : g.state = "Active" /\ g.node = x => ActiveFor(new, x) # {}
  BY <1>2 DEF ActiveFor
<1> QED BY <1>1, <1>3, <1>4 DEF new

LEMMA PinKeeps ==
    ASSUME NEW s \in Store, NEW i \in DOMAIN s.grants, s.grants[i].state = "Issued",
           NEW r \in Nodes
    PROVE  /\ Keeps(s, Pin(s, i, r), {}) /\ Pin(s, i, r).peers = s.peers
           /\ ActiveFor(Pin(s, i, r), r) # {}
<1> DEFINE g == [s.grants[i] EXCEPT !.state = "Active", !.node = r]
           new == Pin(s, i, r)
<1>1. new.grants = [s.grants EXCEPT ![i] = g] /\ new.peers = s.peers
  BY StoreParts DEF Pin
<1>2. g.state = "Active" /\ g.node = r
  <2>1. s.grants[i] \in Grant
    BY StoreParts
  <2> QED BY <2>1 DEF Grant
<1> HIDE DEF g
<1>3. DOMAIN new.grants = DOMAIN s.grants /\ new.grants[i] = g
      /\ \A k \in DOMAIN s.grants : k # i => new.grants[k] = s.grants[k]
  BY <1>1, StoreParts
<1> HIDE DEF new
<1>4. Keeps(s, new, {})
  BY <1>1, <1>3 DEF Keeps, ActiveFor
<1>5. ActiveFor(new, r) # {}
  BY <1>2, <1>3 DEF ActiveFor
<1> QED BY <1>1, <1>4, <1>5 DEF new

LEMMA UpsertKeeps ==
    ASSUME NEW s \in Store, NEW n \in Nodes, NEW b \in BOOLEAN,
           NEW l \in {"ticket", "symmetric"}
    PROVE  /\ Keeps(s, UpsertPeer(s, n, b, l), {})
           /\ UpsertPeer(s, n, b, l).peers[n].label = l
           /\ \A x \in Nodes : x # n => UpsertPeer(s, n, b, l).peers[x] = s.peers[x]
<1> DEFINE new == UpsertPeer(s, n, b, l)
<1>1. /\ new.grants = s.grants
      /\ new.peers[n] = [reshare |-> b, label |-> l]
      /\ \A x \in Nodes : x # n => new.peers[x] = s.peers[x]
  BY StoreParts DEF UpsertPeer
<1>2. new.peers[n] # NoPeer /\ new.peers[n].label = l
  BY <1>1 DEF NoPeer
<1> HIDE DEF new
<1>3. Keeps(s, new, {})
  BY <1>1, <1>2 DEF Keeps, ActiveFor
<1> QED BY <1>1, <1>2, <1>3 DEF new

LEMMA UpsertKnows ==
    ASSUME NEW s \in Store, NEW n \in Nodes, NEW b \in BOOLEAN,
           NEW l \in {"ticket", "symmetric"}
    PROVE  UpsertPeer(s, n, b, l).peers[n] # NoPeer
BY UpsertKeeps DEF NoPeer

\* A revoke takes only whom it hits.
LEMMA RevokeKeeps ==
    ASSUME NEW s \in Store, NEW needle
    PROVE  LET new == RevokeMatching(s, needle)
               pinned == {s.grants[i].node : i \in HitGrants(s, needle)} \ {NoOne}
           IN  /\ Keeps(s, new, pinned \cup HitPeers(s, needle))
               /\ \A x \in Nodes : new.peers[x] \in {s.peers[x], NoPeer}
<1> DEFINE new == RevokeMatching(s, needle)
           pinned == {s.grants[i].node : i \in HitGrants(s, needle)} \ {NoOne}
<1>1. /\ DOMAIN new.grants = DOMAIN s.grants
      /\ \A i \in DOMAIN s.grants :
            i \notin HitGrants(s, needle) => new.grants[i] = s.grants[i]
  <2>1. DOMAIN s.grants = 1..Len(s.grants)
    BY StoreParts
  <2>2. /\ DOMAIN new.grants = 1..Len(s.grants)
        /\ \A i \in 1..Len(s.grants) :
              new.grants[i] = IF i \in HitGrants(s, needle)
                              THEN [s.grants[i] EXCEPT !.state = "Revoked"]
                              ELSE s.grants[i]
    BY RevokeParts
  <2> HIDE DEF new
  <2> QED BY <2>1, <2>2
<1>2. \A x \in Nodes : new.peers[x] = IF x \in HitPeers(s, needle) THEN NoPeer ELSE s.peers[x]
  BY DEF RevokeMatching
<1> HIDE DEF new
<1>3. ASSUME NEW x \in Nodes, x \notin pinned, ActiveFor(s, x) # {}
      PROVE  ActiveFor(new, x) # {}
  <2>1. PICK i \in DOMAIN s.grants : s.grants[i].state = "Active" /\ s.grants[i].node = x
    BY <1>3 DEF ActiveFor
  <2>2. i \notin HitGrants(s, needle)
    BY <1>3, <2>1, GrantsAssumption
  <2> QED BY <1>1, <2>1, <2>2 DEF ActiveFor
<1>4. Keeps(s, new, pinned \cup HitPeers(s, needle))
  BY <1>2, <1>3 DEF Keeps
<1> QED BY <1>2, <1>4 DEF new

\* n admits r and knows it, in memory and on disk.
Admits(n, r) ==
    \A s \in {mem[n], disk[n]} : ActiveFor(s, r) # {} /\ s.peers[r] # NoPeer

\* Who has the grantor as its peer, or was answered, is admitted there ...
IsAdmitted ==
    /\ \A r, n \in Nodes : "ticket" \in {mem[r].peers[n].label, disk[r].peers[n].label} =>
          r \in severed[n] \/ Admits(n, r)
    /\ \A r \in Nodes, t \in Tokens : call[r][t].pc = "answered" =>
          r \in severed[issuer[t]] \/ Admits(issuer[t], r)

\* ... and admits it in return.
AdmitsInReturn ==
    \A r, n \in Nodes : \A s \in {mem[r], disk[r]} :
        s.peers[n].label = "ticket" => n \in severed[r] \/ ActiveFor(s, n) # {}

MInv == TypeInv /\ IsAdmitted /\ AdmitsInReturn

LEMMA InitMutual == Init => MInv
<1> SUFFICES ASSUME Init
             PROVE  IsAdmitted /\ AdmitsInReturn
  BY TypeInvInit DEF MInv
<1>1. \A n, x \in Nodes : mem[n].peers[x].label = "none" /\ disk[n].peers[x].label = "none"
  BY DEF Init, EmptyStore, NoPeer
<1>2. \A r \in Nodes, t \in Tokens : call[r][t].pc = "idle"
  BY DEF Init, Idle
<1> QED BY <1>1, <1>2 DEF IsAdmitted, AdmitsInReturn

\* One node's store changes and is saved or not; severed names whom it dropped.
StoreStep(n, new) ==
    /\ mem' = [mem EXCEPT ![n] = new]
    /\ disk' = [disk EXCEPT ![n] = new] \/ disk' = disk
    /\ \A x \in Nodes : severed[x] \subseteq severed'[x]
    /\ Keeps(mem[n], new, severed'[n])
    /\ \A x \in Nodes : new.peers[x].label = "ticket" =>
          \/ mem[n].peers[x].label = "ticket"
          \/ ActiveFor(new, x) # {} /\ (n \in severed[x] \/ Admits(x, n))

\* A call was answered before, or is answered by a grantor that admits its node.
CallsStep ==
    \A r \in Nodes, t \in Tokens : call'[r][t].pc = "answered" =>
        \/ call[r][t].pc = "answered" /\ issuer'[t] = issuer[t]
        \/ \E m \in Nodes : /\ m = issuer'[t]
                            /\ \A s \in {mem'[m], disk'[m]} :
                                  ActiveFor(s, r) # {} /\ s.peers[r] # NoPeer

LEMMA MutualStep ==
    ASSUME MInv, NEW n \in Nodes, NEW new \in Store, StoreStep(n, new), CallsStep
    PROVE  (IsAdmitted /\ AdmitsInReturn)'
<1> USE DEF MInv
<1>1. mem \in [Nodes -> Store] /\ disk \in [Nodes -> Store]
  BY DEF TypeInv, TypeOK
<1>2. /\ mem'[n] = new /\ disk'[n] \in {disk[n], new}
      /\ \A m \in Nodes : m # n => mem'[m] = mem[m] /\ disk'[m] = disk[m]
  BY <1>1 DEF StoreStep
<1>3. ASSUME NEW m \in Nodes, NEW x \in Nodes, Admits(m, x), x \notin severed'[m]
      PROVE  Admits(m, x)'
  <2>1. CASE m # n
    BY <1>2, <1>3, <2>1 DEF Admits
  <2>2. CASE m = n
    <3>1. ActiveFor(new, x) # {} /\ new.peers[x] # NoPeer
      BY <1>3, <2>2 DEF Admits, Keeps, StoreStep
    <3> QED BY <1>2, <1>3, <2>2, <3>1 DEF Admits
  <2> QED BY <2>1, <2>2
<1>4. ASSUME NEW r \in Nodes, NEW m \in Nodes,
             "ticket" \in {mem'[r].peers[m].label, disk'[r].peers[m].label}
      PROVE  r \in severed'[m] \/ Admits(m, r)'
  <2>1. "ticket" \in {mem[r].peers[m].label, disk[r].peers[m].label}
        \/ r \in severed[m] \/ Admits(m, r)
    BY <1>2, <1>4 DEF StoreStep
  <2>2. r \in severed[m] \/ Admits(m, r)
    BY <2>1 DEF IsAdmitted
  <2> QED BY <1>3, <2>2 DEF StoreStep
<1>5. ASSUME NEW r \in Nodes, NEW t \in Tokens, call'[r][t].pc = "answered"
      PROVE  \E m \in Nodes : m = issuer'[t] /\ (r \in severed'[m] \/ Admits(m, r)')
  <2>1. CASE call[r][t].pc = "answered" /\ issuer'[t] = issuer[t]
    <3>1. PICK m \in Nodes : m = issuer[t]
      BY <2>1 DEF TypeInv, CallsHaveIssuer
    <3>2. r \in severed[m] \/ Admits(m, r)
      BY <2>1, <3>1 DEF IsAdmitted
    <3> QED BY <1>3, <2>1, <3>1, <3>2 DEF StoreStep
  <2>2. CASE \E m \in Nodes : /\ m = issuer'[t]
                              /\ \A s \in {mem'[m], disk'[m]} :
                                    ActiveFor(s, r) # {} /\ s.peers[r] # NoPeer
    BY <2>2 DEF Admits
  <2> QED BY <1>5, <2>1, <2>2 DEF CallsStep
<1>6. ASSUME NEW r \in Nodes, NEW m \in Nodes, NEW s \in {mem'[r], disk'[r]},
             s.peers[m].label = "ticket"
      PROVE  m \in severed'[r] \/ ActiveFor(s, m) # {}
  <2>1. CASE s \in {mem[r], disk[r]}
    BY <1>6, <2>1 DEF AdmitsInReturn, StoreStep
  <2>2. CASE s \notin {mem[r], disk[r]}
    <3>1. r = n /\ s = new
      BY <1>2, <2>2
    <3>0. Keeps(mem[n], new, severed'[n]) /\ severed[n] \subseteq severed'[n]
          /\ \A x \in Nodes : new.peers[x].label = "ticket" =>
                mem[n].peers[x].label = "ticket" \/ ActiveFor(new, x) # {}
      BY DEF StoreStep
    <3>2. mem[n].peers[m].label = "ticket" => m \in severed[n] \/ ActiveFor(mem[n], m) # {}
      BY DEF AdmitsInReturn
    <3> QED BY <1>6, <3>0, <3>1, <3>2 DEF Keeps
  <2> QED BY <2>1, <2>2
<1>7. IsAdmitted'
  <2>1. ASSUME NEW r \in Nodes, NEW t \in Tokens, call'[r][t].pc = "answered"
        PROVE  r \in severed'[issuer'[t]]
                  \/ \A s \in {mem'[issuer'[t]], disk'[issuer'[t]]} :
                        ActiveFor(s, r) # {} /\ s.peers[r] # NoPeer
    BY <1>5, <2>1 DEF Admits
  <2>2. ASSUME NEW r \in Nodes, NEW n1 \in Nodes,
               "ticket" \in {mem'[r].peers[n1].label, disk'[r].peers[n1].label}
        PROVE  r \in severed'[n1] \/ \A s \in {mem'[n1], disk'[n1]} :
                                        ActiveFor(s, r) # {} /\ s.peers[r] # NoPeer
    BY <1>4, <2>2 DEF Admits
  <2> QED BY <2>1, <2>2 DEF IsAdmitted, Admits
<1>8. AdmitsInReturn'
  BY <1>6 DEF AdmitsInReturn
<1> QED BY <1>7, <1>8

LEMMA MutualNext == MInv /\ [Next]_vars => MInv'
<1> SUFFICES ASSUME MInv, [Next]_vars
             PROVE  (IsAdmitted /\ AdmitsInReturn)'
  BY TypeInvNext DEF MInv
<1> USE DEF MInv
<1>1. /\ TypeInv' /\ mem \in [Nodes -> Store] /\ disk \in [Nodes -> Store]
      /\ severed \in [Nodes -> SUBSET Nodes] /\ severed' \in [Nodes -> SUBSET Nodes]
      /\ call \in [Nodes -> [Tokens -> Call]]
  BY TypeInvNext DEF TypeInv, TypeOK
<1>2. ASSUME NEW n \in Nodes, NEW t \in Tokens, NEW b \in BOOLEAN, Mint(n, t, b)
      PROVE  (IsAdmitted /\ AdmitsInReturn)'
  <2> DEFINE new == Issue(mem[n], t, b)
  <2>1. new \in Store /\ Keeps(mem[n], new, {}) /\ new.peers = mem[n].peers
    <3>1. [id |-> t, reshare |-> b, state |-> "Issued", node |-> NoOne] \in Grant
      BY DEF Grant
    <3> QED BY <1>1, <3>1, IssueType, AppendKeeps DEF Issue
  <2>2. mem' = [mem EXCEPT ![n] = new] /\ severed' = severed /\ call' = call
    BY <1>2 DEF Mint
  <2>3. disk' = [disk EXCEPT ![n] = new] \/ disk' = disk
    BY <1>1, <1>2, <2>2 DEF Mint, Saved, SaveFailed
  <2>4. \A u \in Tokens : issuer[u] # NoOne => issuer'[u] = issuer[u]
    BY <1>2 DEF Mint, Fresh, TypeInv, TypeOK
  <2>5. \A r \in Nodes, u \in Tokens : call[r][u].pc = "answered" => issuer'[u] = issuer[u]
    BY <2>4, GrantsAssumption DEF TypeInv, CallsHaveIssuer
  <2> HIDE DEF new
  <2>6. Keeps(mem[n], new, severed'[n])
    BY <2>1 DEF Keeps
  <2>7. StoreStep(n, new)
    BY <2>1, <2>2, <2>3, <2>6 DEF StoreStep
  <2>8. CallsStep
    BY <2>2, <2>5 DEF CallsStep
  <2> QED BY <2>1, <2>7, <2>8, MutualStep
<1>3. ASSUME NEW r \in Nodes, NEW t \in Tokens, HandleRedeem(r, t)
      PROVE  (IsAdmitted /\ AdmitsInReturn)'
  <2> DEFINE n == issuer[t]
             s == mem[n]
  <2>1. n \in Nodes /\ s \in Store
    BY <1>1, <1>3 DEF HandleRedeem, TypeInv, CallsHaveIssuer
  <2>2. PICK i \in IF PinnedTo(s, t, r) # {} THEN PinnedTo(s, t, r) ELSE Redeemable(s, t) :
            /\ mem' = [mem EXCEPT ![n] = UpsertPeer(
                              IF i \in PinnedTo(s, t, r) THEN s ELSE Pin(s, i, r),
                              r, TRUE, "symmetric")]
            /\ \/ /\ Saved(n)
                  /\ call' = [call EXCEPT ![r][t] = [pc |-> "answered",
                                                     reshare |-> s.grants[i].reshare]]
                  /\ told' = told \cup {<<t, r>>}
               \/ /\ SaveFailed(n)
                  /\ call' = [call EXCEPT ![r][t] = Idle]
                  /\ UNCHANGED told
    BY <1>3 DEF HandleRedeem
  <2> DEFINE s1 == IF i \in PinnedTo(s, t, r) THEN s ELSE Pin(s, i, r)
             new == UpsertPeer(s1, r, TRUE, "symmetric")
  <2>3. s1 \in Store /\ Keeps(s, s1, {}) /\ s1.peers = s.peers /\ ActiveFor(s1, r) # {}
    <3>1. CASE i \in PinnedTo(s, t, r)
      BY <2>1, <3>1 DEF Keeps, PinnedTo
    <3>2. CASE i \notin PinnedTo(s, t, r)
      <4>1. i \in DOMAIN s.grants /\ s.grants[i].state = "Issued"
        BY <2>2, <3>2 DEF Redeemable
      <4> QED BY <2>1, <3>2, <4>1, PinType, PinKeeps
    <3> QED BY <3>1, <3>2
  <2> HIDE DEF s1
  <2>4. /\ new \in Store /\ Keeps(s1, new, {}) /\ new.grants = s1.grants
        /\ new.peers[r] # NoPeer /\ new.peers[r].label = "symmetric"
        /\ \A x \in Nodes : x # r => new.peers[x] = s1.peers[x]
    <3>1. new \in Store
      BY <2>3, UpsertType
    <3>4. new.grants = s1.grants
      BY <2>3, UpsertGrants
    <3>2. Keeps(s1, new, {}) /\ new.peers[r].label = "symmetric"
      BY <2>3, UpsertKeeps
    <3>3. \A x \in Nodes : x # r => new.peers[x] = s1.peers[x]
      BY <2>3, UpsertKeeps
    <3>5. new.peers[r] # NoPeer
      BY <2>3, UpsertKnows
    <3> QED BY <3>1, <3>2, <3>3, <3>4, <3>5
  <2>5. mem' = [mem EXCEPT ![n] = new] /\ severed' = severed /\ issuer' = issuer
    BY <1>3, <2>2 DEF HandleRedeem, s1
  <2> HIDE DEF new
  <2>6. Keeps(s, new, severed'[n]) /\ ActiveFor(new, r) # {}
    BY <2>3, <2>4 DEF Keeps, ActiveFor
  <2>7. \A x \in Nodes : new.peers[x].label = "ticket" => s.peers[x].label = "ticket"
    BY <2>3, <2>4
  <2>8. mem'[n] = new
    BY <1>1, <2>1, <2>5
  <2>9. disk' = [disk EXCEPT ![n] = new] \/ disk' = disk
    BY <2>2, <2>8 DEF Saved, SaveFailed
  <2>10. ASSUME NEW q \in Nodes, NEW u \in Tokens, call'[q][u].pc = "answered"
         PROVE  \/ call[q][u].pc = "answered"
                \/ \E m \in Nodes : /\ m = issuer'[u]
                                    /\ \A st \in {mem'[m], disk'[m]} :
                                          ActiveFor(st, q) # {} /\ st.peers[q] # NoPeer
    <3>1. CASE q = r /\ u = t
      <4>1. Saved(n)
        BY <1>1, <2>2, <2>10, <3>1 DEF Idle
      <4>2. disk'[n] = new
        BY <1>1, <2>1, <2>8, <4>1 DEF Saved
      <4>3. \A st \in {mem'[n], disk'[n]} : ActiveFor(st, q) # {} /\ st.peers[q] # NoPeer
        BY <2>4, <2>6, <2>8, <3>1, <4>2
      <4> QED BY <2>1, <2>5, <3>1, <4>3
    <3>2. CASE q # r \/ u # t
      <4>1. call \in [Nodes -> [Tokens -> Call]]
        BY <1>1
      <4>2. PICK c : call' = [call EXCEPT ![r][t] = c]
        BY <2>2
      <4>3. call'[q][u] = call[q][u]
        BY <3>2, <4>1, <4>2
      <4> QED BY <2>10, <4>3
    <3> QED BY <3>1, <3>2
  <2>11. CallsStep
    BY <2>5, <2>10 DEF CallsStep
  <2>12. PICK m \in Nodes : m = n
    BY <2>1
  <2>13. StoreStep(m, new)
    BY <2>5, <2>6, <2>7, <2>9, <2>12 DEF StoreStep
  <2> QED BY <2>4, <2>11, <2>13, MutualStep
<1>4. ASSUME NEW r \in Nodes, NEW t \in Tokens, FinishRedeem(r, t)
      PROVE  (IsAdmitted /\ AdmitsInReturn)'
  <2> DEFINE n == issuer[t]
             s1 == UpsertPeer(mem[r], n, call[r][t].reshare, "ticket")
             new == Allow(s1, n)
  <2>1. n \in Nodes /\ mem[r] \in Store /\ call[r][t].reshare \in BOOLEAN
        /\ call[r][t].pc = "answered"
    BY <1>1, <1>4 DEF FinishRedeem, TypeInv, CallsHaveIssuer, Call
  <2>2. /\ s1 \in Store /\ Keeps(mem[r], s1, {})
        /\ \A x \in Nodes : x # n => s1.peers[x] = mem[r].peers[x]
    <3>1. s1 \in Store /\ Keeps(mem[r], s1, {})
      BY <2>1, UpsertType, UpsertKeeps
    <3>2. \A x \in Nodes : x # n => s1.peers[x] = mem[r].peers[x]
      BY <2>1, UpsertKeeps
    <3> QED BY <3>1, <3>2
  <2> HIDE DEF s1
  <2>3. new \in Store /\ Keeps(s1, new, {}) /\ new.peers = s1.peers /\ ActiveFor(new, n) # {}
    <3> DEFINE g == [id |-> n, reshare |-> TRUE, state |-> "Active", node |-> n]
    <3>1. g \in Grant
      BY <2>1 DEF Grant
    <3>2. CASE ActiveFor(s1, n) # {}
      BY <2>1, <2>2, <3>2, AllowType DEF Allow, Keeps
    <3>3. CASE ActiveFor(s1, n) = {}
      <4>1. new = [s1 EXCEPT !.grants = Append(@, g)]
        BY <3>3 DEF Allow
      <4>2. g.state = "Active" /\ g.node = n
        OBVIOUS
      <4> HIDE DEF g, new
      <4>3. Keeps(s1, new, {}) /\ new.peers = s1.peers /\ ActiveFor(new, n) # {}
        BY <2>1, <2>2, <3>1, <4>1, <4>2, AppendKeeps
      <4> QED BY <2>1, <2>2, <4>3, AllowType DEF new
    <3> QED BY <3>2, <3>3
  <2>4. mem' = [mem EXCEPT ![r] = new] /\ severed' = severed /\ issuer' = issuer
        /\ call' = [call EXCEPT ![r][t] = Idle]
    BY <1>4 DEF FinishRedeem, s1
  <2>5. disk' = [disk EXCEPT ![r] = new] \/ disk' = disk
    BY <1>1, <1>4, <2>4 DEF FinishRedeem, Saved, SaveFailed
  <2> HIDE DEF new
  <2>6. Keeps(mem[r], new, severed'[r])
    BY <2>2, <2>3 DEF Keeps
  <2>7. r \in severed[n] \/ Admits(n, r)
    BY <2>1 DEF IsAdmitted
  <2>8. \A x \in Nodes : new.peers[x].label = "ticket" =>
           \/ mem[r].peers[x].label = "ticket"
           \/ ActiveFor(new, x) # {} /\ (r \in severed[x] \/ Admits(x, r))
    BY <2>2, <2>3, <2>7
  <2>9. \A q \in Nodes, u \in Tokens : call'[q][u].pc = "answered" => call[q][u].pc = "answered"
    BY <1>1, <2>4 DEF Idle
  <2>10. StoreStep(r, new)
    BY <2>4, <2>5, <2>6, <2>8 DEF StoreStep
  <2>11. CallsStep
    BY <2>4, <2>9 DEF CallsStep
  <2> QED BY <2>3, <2>10, <2>11, MutualStep
<1>5. ASSUME NEW n \in Nodes, NEW needle, Revoke(n, needle)
      PROVE  (IsAdmitted /\ AdmitsInReturn)'
  <2> DEFINE new == RevokeMatching(mem[n], needle)
             gone == ({mem[n].grants[i].node : i \in HitGrants(mem[n], needle)} \ {NoOne})
                        \cup HitPeers(mem[n], needle)
  <2>1. /\ new \in Store /\ Keeps(mem[n], new, gone)
        /\ \A x \in Nodes : new.peers[x] \in {mem[n].peers[x], NoPeer}
    BY <1>1, RevokeType, RevokeKeeps
  <2>2. mem' = [mem EXCEPT ![n] = new] /\ issuer' = issuer /\ call' = call
        /\ severed' = [severed EXCEPT ![n] = @ \cup gone]
    BY <1>5 DEF Revoke
  <2>3. disk' = [disk EXCEPT ![n] = new] \/ disk' = disk
    BY <1>1, <1>5, <2>2 DEF Revoke, Saved, SaveFailed
  <2> HIDE DEF new, gone
  <2>4. Keeps(mem[n], new, severed'[n]) /\ \A x \in Nodes : severed[x] \subseteq severed'[x]
    BY <1>1, <2>1, <2>2 DEF Keeps
  <2>5. \A x \in Nodes : new.peers[x].label = "ticket" => mem[n].peers[x].label = "ticket"
    BY <2>1 DEF NoPeer
  <2>6. StoreStep(n, new)
    BY <2>2, <2>3, <2>4, <2>5 DEF StoreStep
  <2>7. CallsStep
    BY <2>2 DEF CallsStep
  <2> QED BY <2>1, <2>6, <2>7, MutualStep
<1>6. ASSUME NEW n \in Nodes, Restart(n)
      PROVE  (IsAdmitted /\ AdmitsInReturn)'
  <2>1. /\ mem' = [mem EXCEPT ![n] = disk[n]] /\ disk' = disk /\ severed' = severed
        /\ issuer' = issuer
        /\ call' = [r \in Nodes |-> [t \in Tokens |->
                       IF r = n \/ issuer[t] = n THEN Idle ELSE call[r][t]]]
    BY <1>6 DEF Restart
  <2>2. \A m \in Nodes : mem'[m] \in {mem[m], disk[m]}
    BY <1>1, <2>1
  <2>3. \A m, x \in Nodes : Admits(m, x) => Admits(m, x)'
    BY <2>1, <2>2 DEF Admits
  <2>4. \A r \in Nodes, t \in Tokens : call'[r][t].pc = "answered" =>
            call[r][t].pc = "answered" /\ issuer[t] \in Nodes
    BY <2>1 DEF Idle, TypeInv, CallsHaveIssuer
  <2>5. AdmitsInReturn'
    BY <2>1, <2>2 DEF AdmitsInReturn
  <2>6. ASSUME NEW r \in Nodes, NEW t \in Tokens, call'[r][t].pc = "answered"
        PROVE  \E m \in Nodes : m = issuer'[t] /\ (r \in severed'[m] \/ Admits(m, r)')
    <3>1. PICK m \in Nodes : m = issuer[t]
      BY <2>4, <2>6
    <3>2. r \in severed[m] \/ Admits(m, r)
      BY <2>4, <2>6, <3>1 DEF IsAdmitted
    <3> QED BY <2>1, <2>3, <3>1, <3>2
  <2>7. ASSUME NEW r \in Nodes, NEW m \in Nodes,
               "ticket" \in {mem'[r].peers[m].label, disk'[r].peers[m].label}
        PROVE  r \in severed'[m] \/ Admits(m, r)'
    <3>1. r \in severed[m] \/ Admits(m, r)
      BY <2>1, <2>2, <2>7 DEF IsAdmitted
    <3> QED BY <2>1, <2>3, <3>1
  <2>8. IsAdmitted'
    <3>1. ASSUME NEW r \in Nodes, NEW t \in Tokens, call'[r][t].pc = "answered"
          PROVE  r \in severed'[issuer'[t]]
                    \/ \A s \in {mem'[issuer'[t]], disk'[issuer'[t]]} :
                          ActiveFor(s, r) # {} /\ s.peers[r] # NoPeer
      BY <2>6, <3>1 DEF Admits
    <3>2. ASSUME NEW r \in Nodes, NEW m \in Nodes,
                 "ticket" \in {mem'[r].peers[m].label, disk'[r].peers[m].label}
          PROVE  r \in severed'[m] \/ \A s \in {mem'[m], disk'[m]} :
                                         ActiveFor(s, r) # {} /\ s.peers[r] # NoPeer
      BY <2>7, <3>2 DEF Admits
    <3> QED BY <3>1, <3>2 DEF IsAdmitted, Admits
  <2> QED BY <2>5, <2>8
<1>7. CASE UNCHANGED <<mem, disk, issuer, severed>>
           /\ \A r \in Nodes, t \in Tokens : call'[r][t].pc = "answered" =>
                 call[r][t].pc = "answered"
  BY <1>7 DEF IsAdmitted, AdmitsInReturn, Admits
<1>8. ASSUME \/ \E r \in Nodes, t \in Tokens : SendRedeem(r, t) \/ LoseCall(r, t)
             \/ \E t \in Tokens : Expire(t)
             \/ UNCHANGED vars
      PROVE  UNCHANGED <<mem, disk, issuer, severed>>
             /\ \A r \in Nodes, t \in Tokens : call'[r][t].pc = "answered" =>
                   call[r][t].pc = "answered"
  <2>1. UNCHANGED <<mem, disk, issuer, severed>>
    BY <1>8 DEF SendRedeem, LoseCall, Expire, vars
  <2>2. ASSUME NEW q \in Nodes, NEW u \in Tokens, call'[q][u].pc = "answered"
        PROVE  call[q][u].pc = "answered"
    <3>1. ASSUME NEW r \in Nodes, NEW t \in Tokens, SendRedeem(r, t) \/ LoseCall(r, t)
          PROVE  call[q][u].pc = "answered"
      <4>1. call' = [call EXCEPT ![r][t].pc = "sent"] \/ call' = [call EXCEPT ![r][t] = Idle]
        BY <3>1 DEF SendRedeem, LoseCall
      <4>2. call \in [Nodes -> [Tokens -> Call]]
        BY <1>1
      <4>3. CASE call' = [call EXCEPT ![r][t].pc = "sent"]
        <5>1. q = r /\ u = t => call'[q][u].pc = "sent"
          BY <4>2, <4>3 DEF Call
        <5>2. ~ (q = r /\ u = t) => call'[q][u] = call[q][u]
          BY <4>2, <4>3
        <5> QED BY <2>2, <5>1, <5>2
      <4>4. CASE call' = [call EXCEPT ![r][t] = Idle]
        <5>1. q = r /\ u = t => call'[q][u].pc = "idle"
          BY <4>2, <4>4 DEF Idle
        <5>2. ~ (q = r /\ u = t) => call'[q][u] = call[q][u]
          BY <4>2, <4>4
        <5> QED BY <2>2, <5>1, <5>2
      <4> QED BY <4>1, <4>3, <4>4
    <3>2. CASE call' = call
      BY <2>2, <3>2
    <3> QED BY <1>8, <3>1, <3>2 DEF Expire, vars
  <2> QED BY <2>1, <2>2
<1> QED BY <1>2, <1>3, <1>4, <1>5, <1>6, <1>7, <1>8 DEF Next

\* redeem_ticket and the Redeem handler: whatever answers are lost, saves fail and
\* daemons restart, whoever has saved its grantor as a peer is admitted there for
\* good and admits it in return, until a revoke.
THEOREM EnrollmentHoldsOnBothSides == Spec => []EnrollmentIsMutual
<1>1. MInv => EnrollmentIsMutual
  BY DEF MInv, IsAdmitted, AdmitsInReturn, Admits, EnrollmentIsMutual
<1> QED BY <1>1, InitMutual, MutualNext, PTL DEF Spec

-----------------------------------------------------------------------------
(* Grants implements Enrollment.                                           *)

LEMMA PromiseInit == Init => Promise!EnrollInit
BY DEF Init, Promise!EnrollInit, Holder

LEMMA HolderNext ==
    ASSUME TokenEnrollsOneNode', NEW r \in Nodes, NEW t \in Tokens,
           told' = told \cup {<<t, r>>}, told' # told
    PROVE  Holder[t] = NoOne /\ Holder' = [Holder EXCEPT ![t] = r]
<1>1. \A q \in Nodes : <<t, q>> \in told' => q = r
  BY DEF TokenEnrollsOneNode
<1>2. \A q \in Nodes : <<t, q>> \notin told
  BY <1>1
<1>3. Holder[t] = NoOne
  BY <1>2 DEF Holder
<1>4. (CHOOSE q \in Nodes : <<t, q>> \in told') = r
  BY <1>1
<1>5. Holder'[t] = r
  BY <1>4 DEF Holder
<1>6. ASSUME NEW u \in Tokens, u # t
      PROVE  Holder'[u] = Holder[u]
  <2>1. \A q \in Nodes : <<u, q>> \in told' <=> <<u, q>> \in told
    BY <1>6
  <2>2. (CHOOSE q \in Nodes : <<u, q>> \in told') = (CHOOSE q \in Nodes : <<u, q>> \in told)
    BY <2>1
  <2> QED BY <2>1, <2>2 DEF Holder
<1>7. Holder = [u \in Tokens |-> Holder[u]] /\ Holder' = [u \in Tokens |-> Holder'[u]]
  BY DEF Holder
<1> QED BY <1>3, <1>5, <1>6, <1>7

LEMMA PromiseNext ==
    IInv /\ IInv' /\ [Next]_vars => [Promise!EnrollNext]_(Promise!enrollVars)
<1> SUFFICES ASSUME IInv, IInv', [Next]_vars
             PROVE  [Promise!EnrollNext]_(Promise!enrollVars)
  OBVIOUS
<1>0. TokenEnrollsOneNode'
  BY ToldOnce, PTL
<1>1. ASSUME told' = told, closed' = closed
      PROVE  UNCHANGED Promise!enrollVars
  BY <1>1 DEF Promise!enrollVars, Holder
<1>2. ASSUME NEW r \in Nodes, NEW t \in Tokens, HandleRedeem(r, t)
      PROVE  [Promise!EnrollNext]_(Promise!enrollVars)
  <2>1. closed' = closed
    BY <1>2 DEF HandleRedeem
  <2>2. CASE told' = told
    BY <1>1, <2>1, <2>2
  <2>3. CASE told' # told
    <3>1. t \notin closed /\ told' = told \cup {<<t, r>>}
      BY <1>2, <2>3, RedeemStep DEF IInv
    <3>2. Holder[t] = NoOne /\ Holder' = [Holder EXCEPT ![t] = r]
      BY <1>0, <2>3, <3>1, HolderNext
    <3>3. Promise!Enroll(t, r)
      BY <2>1, <3>1, <3>2 DEF Promise!Enroll
    <3> QED BY <3>3 DEF Promise!EnrollNext
  <2> QED BY <2>2, <2>3
<1>3. ASSUME NEW n \in Nodes, NEW needle, Revoke(n, needle)
      PROVE  [Promise!EnrollNext]_(Promise!enrollVars)
  <2>1. told' = told
    BY <1>3 DEF Revoke
  <2>2. Holder' = Holder
    BY <2>1 DEF Holder
  <2>3. CASE closed' = closed
    BY <1>1, <2>1, <2>3
  <2>4. CASE closed' # closed
    <3>1. PICK S \in SUBSET Tokens : closed' = closed \cup S
      BY <1>3, <2>4 DEF Revoke
    <3>2. Promise!Close(S)
      BY <2>2, <3>1 DEF Promise!Close
    <3> QED BY <3>2 DEF Promise!EnrollNext
  <2> QED BY <2>3, <2>4
<1>4. ASSUME NEW n \in Nodes, NEW t \in Tokens, NEW b \in BOOLEAN, Mint(n, t, b)
      PROVE  told' = told /\ closed' = closed
  BY <1>4 DEF Mint
<1>5. ASSUME NEW t \in Tokens, Expire(t)
      PROVE  told' = told /\ closed' = closed
  BY <1>5 DEF Expire
<1>6. ASSUME NEW r \in Nodes, NEW t \in Tokens,
             SendRedeem(r, t) \/ FinishRedeem(r, t) \/ LoseCall(r, t)
      PROVE  told' = told /\ closed' = closed
  BY <1>6 DEF SendRedeem, FinishRedeem, LoseCall
<1>7. ASSUME NEW n \in Nodes, Restart(n)
      PROVE  told' = told /\ closed' = closed
  BY <1>7 DEF Restart
<1>8. CASE UNCHANGED vars
  BY <1>1, <1>8 DEF vars
<1> QED BY <1>1, <1>2, <1>3, <1>4, <1>5, <1>6, <1>7, <1>8 DEF Next

\* The enrollment exchange implements Enrollment: a token is promised to one
\* node, and to nobody once its revocation was acknowledged.
THEOREM GrantsImplementsEnrollment == Spec => KeepsPromise
BY IInvAlways, PromiseInit, PromiseNext, PTL DEF Spec, KeepsPromise, Promise!EnrollSpec

=============================================================================
