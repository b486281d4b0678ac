---------------------------- MODULE TunnelTables ----------------------------
(***************************************************************************)
(* Lemmas about the tables of one node of Tunnel: what each operation of    *)
(* src/peer.c on sessions and pending_hs keeps true of them.  A lemma is     *)
(* about the tables before and after, whatever the rest of the state.       *)
(***************************************************************************)
EXTENDS Tunnel, FiniteSetTheorems, WellFoundedInduction, TLAPS

\* What OneSessionPerPub and RekeyingHasPending say of the tables of one node.
OnePerPub(tab) ==
    \A i, j \in Slot :
        tab[i].active /\ tab[j].active /\ tab[i].static_pub = tab[j].static_pub => i = j

Marked(n, tab, pend) ==
    \A i \in Slot : tab[i].active /\ tab[i].rekeying =>
        \E j \in Slot : /\ pend[j].active
                        /\ Config[n][pend[j].cfg_idx].pub = tab[i].static_pub

NodeInv(n, tab, slots, pend) ==
    /\ TableOK(n, tab, slots)
    /\ PendingOK(n, pend)
    /\ OnePerPub(tab)
    /\ Marked(n, tab, pend)

\* Every session of new that is active is the one tab has in its slot, as far as
\* these invariants go.
Keeps(tab, new) ==
    /\ new \in [Slot -> Session]
    /\ \A i \in Slot : new[i].active =>
          /\ tab[i].active
          /\ new[i].addr = tab[i].addr
          /\ new[i].static_pub = tab[i].static_pub
          /\ new[i].session_key = tab[i].session_key

\* Only the mark of the session of pub has changed; in Unmarks it is cleared.
Marks(tab, slots, pub, new) ==
    /\ Keeps(tab, new)
    /\ \A i \in Slot : ~IsFirst(i, ByPub(tab, slots, pub)) => new[i] = tab[i]

Unmarks(tab, slots, pub, new) ==
    /\ Marks(tab, slots, pub, new)
    /\ \A i \in Slot : IsFirst(i, ByPub(tab, slots, pub)) => ~new[i].rekeying

\* A new session of pub in slot i, not marked; the others are as they were.
PutsNew(tab, new, i, pub) ==
    /\ new \in [Slot -> Session]
    /\ new[i].active
    /\ new[i].addr \in Addr
    /\ new[i].static_pub = pub
    /\ new[i].session_key \in SessionKey
    /\ ~new[i].rekeying
    /\ \A k \in Slot \ {i} : new[k] = tab[k]

\* No pending handshake has changed but those with pub.
EndsOnly(n, pend, pnew, pub) ==
    /\ PendingOK(n, pnew)
    /\ \A j \in Slot : pend[j].active /\ Config[n][pend[j].cfg_idx].pub # pub
                         => pnew[j] = pend[j]

\* A session in which only times, numbers and the previous key have changed.
Touches(s, new) ==
    /\ new \in Session
    /\ new.active = s.active
    /\ new.addr = s.addr
    /\ new.static_pub = s.static_pub
    /\ new.session_key = s.session_key
    /\ new.rekeying = s.rekeying
-----------------------------------------------------------------------------
(***************************************************************************)
(* Records.                                                                *)
(***************************************************************************)

\* An element of a sequence.
LEMMA ElementOf ==
    ASSUME NEW S, NEW s \in Seq(S), NEW c \in 1 .. Len(s)
    PROVE  s[c] \in S
OBVIOUS

\* A peer of the config file has a key, perhaps a host, and routes.
LEMMA ConfigType ==
    ASSUME NEW n \in Node, NEW c \in CfgIdx(n)
    PROVE  /\ Config[n][c].pub \in Node
           /\ Config[n][c].pub \in Known(n)
           /\ Config[n][c].host \in Node \cup {Nil}
           /\ Config[n][c].routes \in SUBSET Prefix
<1>1. Config[n] \in Seq([pub : Node, host : Node \cup {Nil}, routes : SUBSET Prefix])
  BY ConfigAssumption, Zenon
<1>2. Config[n][c] \in [pub : Node, host : Node \cup {Nil}, routes : SUBSET Prefix]
  BY <1>1, ElementOf, Zenon DEF CfgIdx
<1>. QED
  BY <1>2 DEF Known

\* What handlers set in a session.
LEMMA SessionUpdates ==
    ASSUME NEW s \in Session, NEW t \in Nat, NEW b \in BOOLEAN, NEW q \in Nat
    PROVE  /\ [s EXCEPT !.rekeying = b] \in Session
           /\ Touches(s, [s EXCEPT !.last_seen = t])
           /\ Touches(s, [s EXCEPT !.last_seen = t, !.prev_key_active = b])
           /\ Touches(s, [s EXCEPT !.last_seen = t, !.prev_key_active = b,
                                   !.recv_seq = @ \cup {q}])
           /\ Touches(s, [s EXCEPT !.send_seq = @ + 1])
           /\ Touches(s, [s EXCEPT !.send_seq = @ + 1, !.last_sent = t])
<1>1. [s EXCEPT !.rekeying = b] \in Session
  BY DEF Session
<1>2. Touches(s, [s EXCEPT !.last_seen = t])
  BY DEF Session, Touches
<1>3. Touches(s, [s EXCEPT !.last_seen = t, !.prev_key_active = b])
  BY Zenon DEF Session, Touches
<1>4. Touches(s, [s EXCEPT !.last_seen = t, !.prev_key_active = b, !.recv_seq = @ \cup {q}])
  BY Zenon DEF Session, Touches
<1>. DEFINE q1 == s.send_seq + 1
<1>0. q1 \in Nat
  BY DEF Session
<1>. HIDE DEF q1
<1>5. Touches(s, [s EXCEPT !.send_seq = q1])
  BY <1>0 DEF Session, Touches
<1>6. Touches(s, [s EXCEPT !.send_seq = q1, !.last_sent = t])
  BY <1>0, Zenon DEF Session, Touches
<1>. QED
  BY <1>1, <1>2, <1>3, <1>4, <1>5, <1>6 DEF q1

\* The zeroed session.
LEMMA NoSessionType == NoSession \in Session
BY DEF NoSession, Session

\* What session_init sets.
LEMMA SessionInitType ==
    ASSUME NEW s \in Session, NEW a \in Addr, NEW pub \in Node, NEW key \in SessionKey,
           NEW routes \in SUBSET Prefix, NEW t \in Nat
    PROVE  /\ SessionInit(s, a, pub, key, routes, t) \in Session
           /\ SessionInit(s, a, pub, key, routes, t).active
           /\ SessionInit(s, a, pub, key, routes, t).addr = a
           /\ SessionInit(s, a, pub, key, routes, t).static_pub = pub
           /\ SessionInit(s, a, pub, key, routes, t).session_key = key
           /\ ~SessionInit(s, a, pub, key, routes, t).rekeying
BY GraceAssumption DEF SessionInit, Session

\* Both sides derive a key of the right type from a handshake packet.
LEMMA KeyTypes ==
    ASSUME NEW pkt \in Packet, pkt.kind = "handshake", NEW n \in Node, NEW m \in Node,
           NEW e \in Ephemeral
    PROVE  /\ pkt.sealed.pub \in Node
           /\ ServerKey(pkt, e, n) \in SessionKey
           /\ ClientKey(pkt, e, n, m) \in SessionKey
           /\ ServerPacket(Psk[n], pkt, e, n) \in Packet
           /\ ClientPacket(Psk[n], e, n, m) \in Packet
<1>1. /\ pkt.eph \in Ephemeral
      /\ pkt.sealed.pub \in Node
  BY DEF Packet
<1>2. \A x, y \in Ephemeral \cup Node : DH(x, y) \in Secret
  BY DEF DH, Secret, PublicKey
<1>3. ServerKey(pkt, e, n) \in SessionKey
  BY <1>1, <1>2 DEF ServerKey, DeriveSessionKey, SessionKey
<1>4. ClientKey(pkt, e, n, m) \in SessionKey
  BY <1>1, <1>2 DEF ClientKey, DeriveSessionKey, SessionKey
<1>5. ServerPacket(Psk[n], pkt, e, n) \in Packet
  BY <1>1, <1>2 DEF ServerPacket, HandshakePacket, Seal, Packet
<1>6. ClientPacket(Psk[n], e, n, m) \in Packet
  BY <1>1, <1>2 DEF ClientPacket, HandshakePacket, Seal, Packet
<1>. QED
  BY <1>1, <1>3, <1>4, <1>5, <1>6
-----------------------------------------------------------------------------
(***************************************************************************)
(* Tables of one node.                                                     *)
(***************************************************************************)

\* What keeps addresses and keys keeps the shape of the table.
LEMMA KeepsInv ==
    ASSUME NEW n \in Node, NEW tab, NEW new, NEW slots,
           TableOK(n, tab, slots), OnePerPub(tab), Keeps(tab, new)
    PROVE  TableOK(n, new, slots) /\ OnePerPub(new)
BY DEF TableOK, OnePerPub, Keeps

\* Where a pub has its one session, find_session_by_pub finds it.
LEMMA FirstByPub ==
    ASSUME NEW n \in Node, NEW tab, NEW slots, TableOK(n, tab, slots), OnePerPub(tab),
           NEW i \in Slot, tab[i].active
    PROVE  IsFirst(i, ByPub(tab, slots, tab[i].static_pub))
BY MaxPeersAssumption DEF TableOK, OnePerPub, IsFirst, ByPub, Slot

\* rekeying = 1 in the session find_session_by_pub returns.
LEMMA MarkKeeps ==
    ASSUME NEW tab \in [Slot -> Session], NEW slots, NEW pub
    PROVE  Marks(tab, slots, pub, SetRekeying(tab, slots, pub, TRUE))
<1>. DEFINE new == SetRekeying(tab, slots, pub, TRUE)
<1>1. \A i \in Slot : new[i] = IF IsFirst(i, ByPub(tab, slots, pub))
                                 THEN [tab[i] EXCEPT !.rekeying = TRUE] ELSE tab[i]
  BY DEF SetRekeying
<1>2. new = [i \in Slot |-> new[i]]
  BY DEF SetRekeying
<1>3. \A i \in Slot : [tab[i] EXCEPT !.rekeying = TRUE] \in Session
  BY SessionUpdates, Zenon
<1>4. \A i \in Slot : LET s == [tab[i] EXCEPT !.rekeying = TRUE]
                      IN  /\ s.active = tab[i].active
                          /\ s.addr = tab[i].addr
                          /\ s.static_pub = tab[i].static_pub
                          /\ s.session_key = tab[i].session_key
                          /\ s.rekeying = TRUE
  BY DEF Session
<1>5. new \in [Slot -> Session]
  BY <1>1, <1>2, <1>3, Zenon
<1>. HIDE DEF new
<1>6. Keeps(tab, new)
  BY <1>1, <1>4, <1>5, Zenon DEF Keeps
<1>. QED
  BY <1>1, <1>4, <1>6, Zenon DEF new, Marks

\* rekeying = 0 in the session find_session_by_pub returns.
LEMMA ClearKeeps ==
    ASSUME NEW tab \in [Slot -> Session], NEW slots, NEW pub
    PROVE  Unmarks(tab, slots, pub, SetRekeying(tab, slots, pub, FALSE))
<1>. DEFINE new == SetRekeying(tab, slots, pub, FALSE)
<1>1. \A i \in Slot : new[i] = IF IsFirst(i, ByPub(tab, slots, pub))
                                 THEN [tab[i] EXCEPT !.rekeying = FALSE] ELSE tab[i]
  BY DEF SetRekeying
<1>2. new = [i \in Slot |-> new[i]]
  BY DEF SetRekeying
<1>3. \A i \in Slot : [tab[i] EXCEPT !.rekeying = FALSE] \in Session
  BY SessionUpdates, Zenon
<1>4. \A i \in Slot : LET s == [tab[i] EXCEPT !.rekeying = FALSE]
                      IN  /\ s.active = tab[i].active
                          /\ s.addr = tab[i].addr
                          /\ s.static_pub = tab[i].static_pub
                          /\ s.session_key = tab[i].session_key
                          /\ s.rekeying = FALSE
  BY DEF Session
<1>5. new \in [Slot -> Session]
  BY <1>1, <1>2, <1>3, Zenon
<1>. HIDE DEF new
<1>6. Keeps(tab, new)
  BY <1>1, <1>4, <1>5, Zenon DEF Keeps
<1>. QED
  BY <1>1, <1>4, <1>6, Zenon DEF new, Marks, Unmarks

\* session_init.
LEMMA SessionInitPuts ==
    ASSUME NEW tab \in [Slot -> Session], NEW i \in Slot, NEW a \in Addr, NEW pub \in Node,
           NEW key \in SessionKey, NEW routes \in SUBSET Prefix, NEW t \in Nat
    PROVE  PutsNew(tab, [tab EXCEPT ![i] = SessionInit(tab[i], a, pub, key, routes, t)], i, pub)
<1>. DEFINE s == SessionInit(tab[i], a, pub, key, routes, t)
<1>1. s \in Session /\ s.active /\ s.addr = a /\ s.static_pub = pub
        /\ s.session_key = key /\ ~s.rekeying
  BY SessionInitType
<1>. HIDE DEF s
<1>2. PutsNew(tab, [tab EXCEPT ![i] = s], i, pub)
  BY <1>1 DEF PutsNew
<1>. QED
  BY <1>2 DEF s

\* A new session in the slot alloc_session returns is the only one of its peer.
LEMMA InstallKeeps ==
    ASSUME NEW n \in Node, NEW tab, NEW slots, TableOK(n, tab, slots), OnePerPub(tab),
           NEW pub \in Known(n), NEW a, NEW i \in Slot, AllocSession(tab, slots, pub, a, i),
           NEW new, PutsNew(tab, new, i, pub)
    PROVE  TableOK(n, new, SlotsWith(slots, i)) /\ OnePerPub(new)
<1>1. tab \in [Slot -> Session] /\ slots \in 0 .. MaxPeers
  BY DEF TableOK
<1>2. SlotsWith(slots, i) \in 0 .. MaxPeers /\ i <= SlotsWith(slots, i)
        /\ slots <= SlotsWith(slots, i)
  BY <1>1, MaxPeersAssumption DEF SlotsWith, Slot
<1>3. TableOK(n, new, SlotsWith(slots, i))
  <2>. SUFFICES ASSUME NEW k \in Slot, new[k].active
                PROVE  /\ k <= SlotsWith(slots, i)
                       /\ new[k].addr \in Addr
                       /\ new[k].static_pub \in Known(n)
                       /\ new[k].session_key \in SessionKey
    BY <1>2 DEF TableOK, PutsNew
  <2>1. CASE k = i
    BY <2>1, <1>2 DEF PutsNew
  <2>2. CASE k # i
    <3>1. new[k] = tab[k]
      BY <2>2 DEF PutsNew
    <3>2. k <= slots /\ tab[k].addr \in Addr /\ tab[k].static_pub \in Known(n)
            /\ tab[k].session_key \in SessionKey
      BY <3>1 DEF TableOK
    <3>. QED
      BY <3>1, <3>2, <1>1, <1>2, MaxPeersAssumption DEF Slot
  <2>. QED
    BY <2>1, <2>2
<1>4. \A j \in Slot \ {i} : ~(tab[j].active /\ tab[j].static_pub = pub)
  <2>. SUFFICES ASSUME NEW j \in Slot \ {i}, tab[j].active, tab[j].static_pub = pub
                PROVE  FALSE
    OBVIOUS
  <2>1. j \in ByPub(tab, slots, pub)
    BY MaxPeersAssumption DEF ByPub, TableOK, Slot
  <2>2. i \in ByPub(tab, slots, pub)
    BY <2>1 DEF AllocSession, IsFirst
  <2>. QED
    BY <2>2 DEF OnePerPub, ByPub
<1>5. OnePerPub(new)
  BY <1>4 DEF OnePerPub, PutsNew
<1>. QED
  BY <1>3, <1>5

\* What leaves keys and marks alone leaves a node's invariant alone.
LEMMA KeepsNodeInv ==
    ASSUME NEW n \in Node, NEW tab, NEW new, NEW slots, NEW pend,
           NodeInv(n, tab, slots, pend), Keeps(tab, new),
           \A i \in Slot : new[i].active /\ new[i].rekeying => tab[i].rekeying
    PROVE  NodeInv(n, new, slots, pend)
<1>1. TableOK(n, new, slots) /\ OnePerPub(new)
  BY KeepsInv DEF NodeInv
<1>2. Marked(n, new, pend)
  BY DEF Marked, Keeps, NodeInv
<1>. QED
  BY <1>1, <1>2 DEF NodeInv

\* One session of the table replaced by an update of itself.
LEMMA UpdateNodeInv ==
    ASSUME NEW n \in Node, NEW tab, NEW slots, NEW pend, NodeInv(n, tab, slots, pend),
           NEW i \in Slot, NEW s, Touches(tab[i], s)
    PROVE  NodeInv(n, [tab EXCEPT ![i] = s], slots, pend)
<1>. DEFINE new == [tab EXCEPT ![i] = s]
<1>1. tab \in [Slot -> Session]
  BY DEF NodeInv, TableOK
<1>2. /\ new \in [Slot -> Session]
      /\ new[i] = s
      /\ \A k \in Slot \ {i} : new[k] = tab[k]
  BY <1>1 DEF Touches
<1>. HIDE DEF new
<1>3. Keeps(tab, new)
  BY <1>2 DEF Keeps, Touches
<1>4. \A k \in Slot : new[k].active /\ new[k].rekeying => tab[k].rekeying
  BY <1>2 DEF Touches
<1>. QED
  BY <1>3, <1>4, KeepsNodeInv, Zenon DEF new

\* initiate_outbound_handshake: the session of the peer is marked, and the new
\* pending handshake is the one it is marked for.
LEMMA StartNodeInv ==
    ASSUME NEW n \in Node, NEW tab, NEW slots, NEW pend,
           NodeInv(n, tab, slots, pend),
           NEW pub, NEW j \in Slot, ~pend[j].active, NEW p \in PendingHs, p.active
    PROVE  /\ p.cfg_idx \in CfgIdx(n)
           /\ p.eph \in Ephemeral
           /\ pub = Config[n][p.cfg_idx].pub
           => NodeInv(n, SetRekeying(tab, slots, pub, TRUE), slots, [pend EXCEPT ![j] = p])
<1>. DEFINE new  == SetRekeying(tab, slots, pub, TRUE)
<1>0. tab \in [Slot -> Session]
  BY DEF NodeInv, TableOK
<1>3. Marks(tab, slots, pub, new)
  BY <1>0, MarkKeeps, Zenon
<1>. HAVE p.cfg_idx \in CfgIdx(n) /\ p.eph \in Ephemeral /\ pub = Config[n][p.cfg_idx].pub
<1>. DEFINE pnew == [pend EXCEPT ![j] = p]
<1>1. pend \in [Slot -> PendingHs]
  BY DEF NodeInv, PendingOK
<1>2. /\ pnew \in [Slot -> PendingHs]
      /\ pnew[j] = p
      /\ \A k \in Slot \ {j} : pnew[k] = pend[k]
  BY <1>1
<1>. HIDE DEF pnew, new
<1>4. TableOK(n, new, slots) /\ OnePerPub(new)
  BY <1>3, KeepsInv DEF NodeInv, Marks
<1>5. PendingOK(n, pnew)
  BY <1>2 DEF PendingOK, NodeInv
<1>6. Marked(n, new, pnew)
  <2>. SUFFICES ASSUME NEW i \in Slot, new[i].active, new[i].rekeying
                PROVE  \E k \in Slot : /\ pnew[k].active
                                       /\ Config[n][pnew[k].cfg_idx].pub = new[i].static_pub
    BY DEF Marked
  <2>1. CASE IsFirst(i, ByPub(tab, slots, pub))
    <3>1. new[i].static_pub = Config[n][p.cfg_idx].pub
      BY <2>1, <1>3 DEF IsFirst, ByPub, Keeps, Marks
    <3>. QED
      BY <3>1, <1>2
  <2>2. CASE ~IsFirst(i, ByPub(tab, slots, pub))
    BY <2>2, <1>2, <1>3 DEF NodeInv, Marked, Marks
  <2>. QED
    BY <2>1, <2>2
<1>. QED
  BY <1>4, <1>5, <1>6, Zenon DEF NodeInv, new, pnew

\* initiate_outbound_handshake fails: the mark is cleared.
LEMMA ClearNodeInv ==
    ASSUME NEW n \in Node, NEW tab, NEW slots, NEW pend, NodeInv(n, tab, slots, pend), NEW pub
    PROVE  NodeInv(n, SetRekeying(tab, slots, pub, FALSE), slots, pend)
<1>. DEFINE new == SetRekeying(tab, slots, pub, FALSE)
<1>1. tab \in [Slot -> Session]
  BY DEF NodeInv, TableOK
<1>2. Unmarks(tab, slots, pub, new)
  BY <1>1, ClearKeeps, Zenon
<1>. HIDE DEF new
<1>3. \A i \in Slot : new[i].active /\ new[i].rekeying => tab[i].rekeying
  BY <1>2 DEF Unmarks, Marks
<1>. QED
  BY <1>2, <1>3, KeepsNodeInv, Zenon DEF new, Unmarks, Marks

\* Some pending handshakes end, and no session left in new is marked for one of
\* them: no mark has lost its handshake.
LEMMA EndedNodeInv ==
    ASSUME NEW n \in Node, NEW tab, NEW slots, NEW pend, NodeInv(n, tab, slots, pend),
           NEW new, Keeps(tab, new),
           \A i \in Slot : new[i].active /\ new[i].rekeying => tab[i].rekeying,
           NEW pnew \in [Slot -> PendingHs],
           \A j \in Slot : ~pnew[j].active \/ pnew[j] = pend[j],
           \A i, j \in Slot :
               /\ pend[j].active /\ ~pnew[j].active
               /\ new[i].active
               /\ new[i].static_pub = Config[n][pend[j].cfg_idx].pub
               => ~new[i].rekeying
    PROVE  NodeInv(n, new, slots, pnew)
<1>1. TableOK(n, new, slots) /\ OnePerPub(new)
  BY KeepsInv DEF NodeInv
<1>2. PendingOK(n, pnew)
  BY DEF PendingOK, NodeInv
<1>3. Marked(n, new, pnew)
  <2>. SUFFICES ASSUME NEW i \in Slot, new[i].active, new[i].rekeying
                PROVE  \E k \in Slot : /\ pnew[k].active
                                       /\ Config[n][pnew[k].cfg_idx].pub = new[i].static_pub
    BY DEF Marked
  <2>1. tab[i].active /\ tab[i].rekeying /\ tab[i].static_pub = new[i].static_pub
    BY DEF Keeps
  <2>2. PICK j \in Slot : pend[j].active /\ Config[n][pend[j].cfg_idx].pub = tab[i].static_pub
    BY <2>1 DEF NodeInv, Marked
  <2>3. pnew[j] = pend[j]
    BY <2>1, <2>2
  <2>. QED
    BY <2>1, <2>2, <2>3
<1>. QED
  BY <1>1, <1>2, <1>3 DEF NodeInv

\* A pending handshake ends, and the session find_session_by_pub returns for its
\* peer is no longer marked: it is the only one that can have been.
LEMMA FailNodeInv ==
    ASSUME NEW n \in Node, NEW tab, NEW slots, NEW pend, NodeInv(n, tab, slots, pend),
           NEW j \in Slot, NEW pub
    PROVE  pub = Config[n][pend[j].cfg_idx].pub =>
               NodeInv(n, SetRekeying(tab, slots, pub, FALSE), slots,
                       [pend EXCEPT ![j] = NoPending])
<1>. DEFINE new  == SetRekeying(tab, slots, pub, FALSE)
<1>0. tab \in [Slot -> Session]
  BY DEF NodeInv, TableOK
<1>2. Unmarks(tab, slots, pub, new)
  BY <1>0, ClearKeeps, Zenon
<1>. HAVE pub = Config[n][pend[j].cfg_idx].pub
<1>. DEFINE pnew == [pend EXCEPT ![j] = NoPending]
<1>1. pend \in [Slot -> PendingHs]
  BY DEF NodeInv, PendingOK
<1>3. /\ pnew \in [Slot -> PendingHs]
      /\ ~pnew[j].active
      /\ \A k \in Slot \ {j} : pnew[k] = pend[k]
  BY <1>1 DEF NoPending, PendingHs
<1>. HIDE DEF new, pnew
<1>4. \A i \in Slot : new[i].active /\ new[i].rekeying => tab[i].rekeying
  BY <1>2 DEF Unmarks, Marks
<1>5. \A i \in Slot : new[i].active /\ new[i].static_pub = pub => ~new[i].rekeying
  <2>. SUFFICES ASSUME NEW i \in Slot, new[i].active, new[i].static_pub = pub
                PROVE  ~new[i].rekeying
    OBVIOUS
  <2>1. tab[i].active /\ tab[i].static_pub = pub
    BY <1>2 DEF Keeps, Unmarks, Marks
  <2>2. IsFirst(i, ByPub(tab, slots, pub))
    BY <2>1, FirstByPub DEF NodeInv
  <2>. QED
    BY <2>2, <1>2 DEF Unmarks
<1>6. \A i, k \in Slot :
          /\ pend[k].active /\ ~pnew[k].active
          /\ new[i].active
          /\ new[i].static_pub = Config[n][pend[k].cfg_idx].pub
          => ~new[i].rekeying
  BY <1>3, <1>5
<1>7. \A k \in Slot : ~pnew[k].active \/ pnew[k] = pend[k]
  BY <1>3, SMTT(20)
<1>8. NodeInv(n, new, slots, pnew)
  BY <1>2, <1>3, <1>4, <1>6, <1>7, EndedNodeInv, Zenon DEF Unmarks, Marks
<1>. QED
  BY <1>8, Zenon DEF new, pnew

\* A key is installed for pub: no other session is marked for pub, so pending
\* handshakes with pub may end.
LEMMA InstallNodeInv ==
    ASSUME NEW n \in Node, NEW tab, NEW slots, NEW pend, NodeInv(n, tab, slots, pend),
           NEW pub \in Known(n), NEW a, NEW i \in Slot, AllocSession(tab, slots, pub, a, i),
           NEW new, PutsNew(tab, new, i, pub),
           NEW pnew, EndsOnly(n, pend, pnew, pub)
    PROVE  NodeInv(n, new, SlotsWith(slots, i), pnew)
<1>1. TableOK(n, tab, slots) /\ OnePerPub(tab) /\ Marked(n, tab, pend)
  BY DEF NodeInv
<1>2. TableOK(n, new, SlotsWith(slots, i)) /\ OnePerPub(new)
  BY <1>1, InstallKeeps, SMTT(20)
<1>3. Marked(n, new, pnew)
  <2>. SUFFICES ASSUME NEW k \in Slot, new[k].active, new[k].rekeying
                PROVE  \E j \in Slot : /\ pnew[j].active
                                       /\ Config[n][pnew[j].cfg_idx].pub = new[k].static_pub
    BY DEF Marked
  <2>1. k # i /\ new[k] = tab[k] /\ new[k].static_pub # pub
    BY <1>2 DEF OnePerPub, PutsNew
  <2>2. PICK j \in Slot : pend[j].active /\ Config[n][pend[j].cfg_idx].pub = tab[k].static_pub
    BY <2>1, <1>1 DEF Marked
  <2>. QED
    BY <2>1, <2>2 DEF EndsOnly
<1>. QED
  BY <1>2, <1>3 DEF NodeInv, EndsOnly

\* The tables of a process that has just started.
LEMMA EmptyNodeInv ==
    ASSUME NEW n \in Node
    PROVE  NodeInv(n, [i \in Slot |-> NoSession], 0, [j \in Slot |-> NoPending])
<1>1. ~NoSession.active /\ ~NoPending.active /\ NoPending \in PendingHs
  BY DEF NoSession, NoPending, PendingHs
<1>2. TableOK(n, [i \in Slot |-> NoSession], 0)
  BY <1>1, NoSessionType, MaxPeersAssumption DEF TableOK
<1>3. PendingOK(n, [j \in Slot |-> NoPending])
  BY <1>1 DEF PendingOK
<1>. QED
  BY <1>1, <1>2, <1>3 DEF NodeInv, OnePerPub, Marked
-----------------------------------------------------------------------------
(***************************************************************************)
(* The session table is never full.                                        *)
(***************************************************************************)

\* A loop over slots that finds any slot finds a first one.
LEMMA FirstExists ==
    ASSUME NEW S, S \subseteq Nat, S # {}
    PROVE  \E i \in S : IsFirst(i, S)
<1>1. PICK i \in S : \A j \in S : ~(<<j, i>> \in OpToRel(<, Nat))
  BY NatLessThanWellFounded, WFMin, Zenon
<1>2. \A j \in S : ~(j < i)
  BY <1>1, Zenon DEF OpToRel
<1>3. \A j \in S : i <= j
  BY <1>2
<1>. QED
  BY <1>3 DEF IsFirst

\* The config file has no more keys than entries.
LEMMA KnownBound ==
    ASSUME NEW n \in Node
    PROVE  IsFiniteSet(Known(n)) /\ Cardinality(Known(n)) \in Nat
             /\ Cardinality(Known(n)) <= MaxPeers
<1>. DEFINE len == Len(Config[n])
            f   == [c \in CfgIdx(n) |-> Config[n][c].pub]
<1>1. len \in Nat /\ len <= MaxPeers
  BY ConfigAssumption
<1>2. IsFiniteSet(CfgIdx(n)) /\ Cardinality(CfgIdx(n)) = len
  <2>1. 1 \in Int /\ len \in Int
    BY <1>1
  <2>. HIDE DEF len
  <2>2. IsFiniteSet(1 .. len) /\ Cardinality(1 .. len) = IF 1 > len THEN 0 ELSE len - 1 + 1
    BY <2>1, FS_Interval
  <2>. QED
    BY <2>2, <1>1 DEF CfgIdx, len
<1>3. f \in Surjection(CfgIdx(n), Known(n))
  BY DEF Surjection, Known
<1>4. IsFiniteSet(Known(n)) /\ Cardinality(Known(n)) <= Cardinality(CfgIdx(n))
  BY <1>2, <1>3, FS_Surjection
<1>5. Cardinality(Known(n)) \in Nat
  BY <1>4, FS_CardinalityType
<1>. QED
  BY <1>1, <1>2, <1>4, <1>5, MaxPeersAssumption

\* Were every slot taken by a session of another peer than pub, there would be more
\* peers than the config file has.
LEMMA SlotLeft ==
    ASSUME NEW n \in Node, NEW tab, NEW slots, TableOK(n, tab, slots), OnePerPub(tab),
           NEW pub \in Known(n), ByPub(tab, slots, pub) = {}, Free(tab, slots) = {}
    PROVE  slots < MaxPeers
<1>. SUFFICES ASSUME slots = MaxPeers PROVE FALSE
  BY MaxPeersAssumption DEF TableOK
<1>. DEFINE others == Known(n) \ {pub}
            f      == [i \in Slot |-> tab[i].static_pub]
<1>1. \A i \in Slot : tab[i].active /\ tab[i].static_pub \in others
  BY DEF Free, ByPub, Slot, TableOK
<1>2. f \in [Slot -> others]
  BY <1>1
<1>3. IsFiniteSet(Slot) /\ Cardinality(Slot) = MaxPeers
  BY MaxPeersAssumption, FS_Interval DEF Slot
<1>4. IsFiniteSet(others) /\ Cardinality(others) = Cardinality(Known(n)) - 1
  BY KnownBound, FS_RemoveElement
<1>5. Cardinality(others) < Cardinality(Slot)
  BY <1>3, <1>4, KnownBound, MaxPeersAssumption
<1>. HIDE DEF others
<1>6. PICK i \in Slot, j \in Slot : i # j /\ f[i] = f[j]
  <2>. HIDE DEF f
  <2>. QED
    BY <1>2, <1>3, <1>4, <1>5, FS_PigeonHole
<1>. QED
  BY <1>1, <1>6 DEF OnePerPub

\* alloc_session finds a slot for every peer of the config file.
LEMMA AllocSucceeds ==
    ASSUME NEW n \in Node, NEW tab, NEW slots, TableOK(n, tab, slots), OnePerPub(tab),
           NEW pub \in Known(n), NEW a
    PROVE  \E i \in Slot : AllocSession(tab, slots, pub, a, i)
<1>1. slots \in 0 .. MaxPeers /\ 1 .. slots \subseteq Slot /\ 1 .. slots \subseteq Nat
  BY MaxPeersAssumption DEF TableOK, Slot
<1>. DEFINE P == ByPub(tab, slots, pub)
            A == ByAddr(tab, slots, a)
            F == Free(tab, slots)
<1>2. P \subseteq 1 .. slots /\ A \subseteq 1 .. slots /\ F \subseteq 1 .. slots
  BY DEF ByPub, ByAddr, Free
<1>. HIDE DEF P, A, F
<1>3. CASE P # {}
  <2>1. PICK i \in P : IsFirst(i, P)
    BY <1>1, <1>2, <1>3, FirstExists, Zenon
  <2>. QED
    BY <2>1, <1>1, <1>2 DEF AllocSession, P
<1>4. CASE P = {} /\ A # {}
  <2>1. PICK i \in A : IsFirst(i, A)
    BY <1>1, <1>2, <1>4, FirstExists, Zenon
  <2>. QED
    BY <2>1, <1>1, <1>2, <1>4 DEF AllocSession, P, A
<1>5. CASE P = {} /\ A = {} /\ F # {}
  <2>1. PICK i \in F : IsFirst(i, F)
    BY <1>1, <1>2, <1>5, FirstExists, Zenon
  <2>. QED
    BY <2>1, <1>1, <1>2, <1>5 DEF AllocSession, P, A, F
<1>6. CASE P = {} /\ A = {} /\ F = {}
  <2>1. slots < MaxPeers
    BY <1>6, SlotLeft DEF P, F
  <2>2. slots + 1 \in Slot
    BY <2>1, <1>1, MaxPeersAssumption DEF Slot
  <2>. QED
    BY <2>1, <2>2, <1>6 DEF AllocSession, P, A, F
<1>. QED
  BY <1>3, <1>4, <1>5, <1>6
=============================================================================
