---------------------------- MODULE TunnelChecks ----------------------------
(***************************************************************************)
(* The inductive invariant of Tunnel, and the steps of the periodic check  *)
(* of event_loop: each keeps the invariant.                                *)
(***************************************************************************)
EXTENDS TunnelTables

\* The inductive invariant, from the invariants the runs check.
IInv == TypeOK /\ OneSessionPerPub /\ RekeyingHasPending

LoopType  == [phase : Phase, i : Nat, now : Nat, last_rekey_check : Nat]
NetType   == [Addr \X Addr -> Seq(Packet)]
Accepting == [key : SessionKey, seq : Nat, prev : BOOLEAN]

EnvOK == /\ clock \in Nat /\ faults \in Nat /\ reads \in Nat
         /\ where \in [Node -> Addr]
         /\ ephs \in [Node -> Nat]
         /\ precomp_eph \in [Node -> Ephemeral \cup {Nil}]

NodesOK == /\ sessions \in [Node -> [Slot -> Session]]
           /\ session_slots \in [Node -> 0 .. MaxPeers]
           /\ pending_hs \in [Node -> [Slot -> PendingHs]]
           /\ \A n \in Node : NodeInv(n, sessions[n], session_slots[n], pending_hs[n])

CfgOK == /\ DOMAIN last_attempt = Node
         /\ DOMAIN endpoint = Node
         /\ \A n \in Node : /\ last_attempt[n] \in [CfgIdx(n) -> Nat]
                            /\ endpoint[n] \in [CfgIdx(n) -> Addr \cup {Nil}]

HistOK == /\ installs \in [Node -> Seq(Installation)]
          /\ accepts \in [Node -> Seq(Accepting)]
          /\ written \in [Node -> SUBSET Payload]

\* The same, part by part.
Parts == /\ EnvOK
         /\ net \in NetType
         /\ loop \in [Node -> LoopType]
         /\ NodesOK
         /\ CfgOK
         /\ HistOK

\* The parts are the invariant: TypeOK, OneSessionPerPub and RekeyingHasPending.
LEMMA PartsAreIInv == Parts <=> IInv
<1>1. {clock, faults, reads} \subseteq Nat
        <=> clock \in Nat /\ faults \in Nat /\ reads \in Nat
  OBVIOUS
<1>2. {DOMAIN last_attempt, DOMAIN endpoint} = {Node}
        <=> DOMAIN last_attempt = Node /\ DOMAIN endpoint = Node
  OBVIOUS
<1>3. OneSessionPerPub <=> \A n \in Node : OnePerPub(sessions[n])
  BY DEF OneSessionPerPub, OnePerPub
<1>4. RekeyingHasPending <=> \A n \in Node : Marked(n, sessions[n], pending_hs[n])
  BY DEF RekeyingHasPending, Marked
<1>. QED
  BY <1>1, <1>2, <1>3, <1>4, Zenon
     DEF Parts, IInv, TypeOK, EnvOK, NodesOK, CfgOK, HistOK, NodeInv, LoopType, NetType, Accepting

\* A step that changes the tables of one node.
LEMMA NodeStep ==
    ASSUME NodesOK, NEW n \in Node,
           NodeInv(n, sessions'[n], session_slots'[n], pending_hs'[n]),
           sessions' = [sessions EXCEPT ![n] = sessions'[n]],
           session_slots' = [session_slots EXCEPT ![n] = session_slots'[n]],
           pending_hs' = [pending_hs EXCEPT ![n] = pending_hs'[n]]
    PROVE  NodesOK'
<1>1. /\ sessions'[n] \in [Slot -> Session]
      /\ session_slots'[n] \in 0 .. MaxPeers
      /\ pending_hs'[n] \in [Slot -> PendingHs]
  BY DEF NodeInv, TableOK, PendingOK
<1>2. /\ sessions' \in [Node -> [Slot -> Session]]
      /\ session_slots' \in [Node -> 0 .. MaxPeers]
      /\ pending_hs' \in [Node -> [Slot -> PendingHs]]
  BY <1>1, Zenon DEF NodesOK
<1>3. \A m \in Node : NodeInv(m, sessions'[m], session_slots'[m], pending_hs'[m])
  <2>. SUFFICES ASSUME NEW m \in Node, m # n
                PROVE  NodeInv(m, sessions'[m], session_slots'[m], pending_hs'[m])
    OBVIOUS
  <2>1. /\ sessions'[m] = sessions[m]
        /\ session_slots'[m] = session_slots[m]
        /\ pending_hs'[m] = pending_hs[m]
    BY DEF NodesOK
  <2>. QED
    BY <2>1 DEF NodesOK
<1>. QED
  BY <1>2, <1>3 DEF NodesOK

\* The tables are left alone.
LEMMA NodesSame ==
    ASSUME NodesOK, UNCHANGED <<sessions, session_slots, pending_hs>>
    PROVE  NodesOK'
BY DEF NodesOK

\* Last attempts and endpoints are left alone.
LEMMA CfgSame ==
    ASSUME CfgOK, UNCHANGED <<last_attempt, endpoint>>
    PROVE  CfgOK'
BY DEF CfgOK

\* The history is left alone.
LEMMA HistSame ==
    ASSUME HistOK, UNCHANGED hist
    PROVE  HistOK'
BY DEF HistOK, hist

\* The faults of a step are counted.
LEMMA ChargeType ==
    ASSUME faults \in Nat, NEW f, Charge(f)
    PROVE  faults' \in Nat
<1>1. IsFiniteSet({"loss", "duplicate", "reorder", "delay", "send", "keygen", "dns", "block",
                   "restart", "roam"})
  <2>1. IsFiniteSet({"loss"}) /\ IsFiniteSet({"duplicate"}) /\ IsFiniteSet({"reorder"})
          /\ IsFiniteSet({"delay"}) /\ IsFiniteSet({"send"}) /\ IsFiniteSet({"keygen"})
          /\ IsFiniteSet({"dns"}) /\ IsFiniteSet({"block"}) /\ IsFiniteSet({"restart"})
          /\ IsFiniteSet({"roam"})
    BY FS_Singleton, Zenon
  <2>2. IsFiniteSet({"loss"} \cup {"duplicate"} \cup {"reorder"} \cup {"delay"})
    BY <2>1, FS_Union, Zenon
  <2>3. IsFiniteSet({"send"} \cup {"keygen"} \cup {"dns"})
    BY <2>1, FS_Union, Zenon
  <2>4. IsFiniteSet({"block"} \cup {"restart"} \cup {"roam"})
    BY <2>1, FS_Union, Zenon
  <2>5. IsFiniteSet(({"loss"} \cup {"duplicate"} \cup {"reorder"} \cup {"delay"})
                      \cup ({"send"} \cup {"keygen"} \cup {"dns"})
                      \cup ({"block"} \cup {"restart"} \cup {"roam"}))
    BY <2>2, <2>3, <2>4, FS_Union, Zenon
  <2>6. ({"loss"} \cup {"duplicate"} \cup {"reorder"} \cup {"delay"})
          \cup ({"send"} \cup {"keygen"} \cup {"dns"})
          \cup ({"block"} \cup {"restart"} \cup {"roam"})
        = {"loss", "duplicate", "reorder", "delay", "send", "keygen", "dns", "block",
           "restart", "roam"}
    OBVIOUS
  <2>. QED
    BY <2>5, <2>6
<1>2. IsFiniteSet(Faults)
  BY <1>1, FaultsAssumption, FS_Subset, Zenon
<1>3. Cardinality(f) \in Nat
  BY <1>2, FS_Subset, FS_CardinalityType DEF Charge
<1>. QED
  BY <1>3 DEF Charge

\* Sequences of packets, and of records of the history.
LEMMA HeadTail ==
    ASSUME NEW S, NEW s \in Seq(S), s # <<>>
    PROVE  Head(s) \in S /\ Tail(s) \in Seq(S)
OBVIOUS

\* A sequence with one more element.
LEMMA AppendType ==
    ASSUME NEW S, NEW s \in Seq(S), NEW e \in S
    PROVE  Append(s, e) \in Seq(S)
OBVIOUS

\* sendto puts a packet on its way.
LEMMA SendType ==
    ASSUME NEW nt \in NetType, NEW l, NEW p \in Packet
    PROVE  [nt EXCEPT ![l] = Append(@, p)] \in NetType
BY AppendType, Zenon DEF NetType

\* The packet a handler takes, and the network without it.
LEMMA IncomingType ==
    ASSUME Parts, NEW n \in Node, NEW a \in Addr, Incoming(n, a)
    PROVE  Pkt(n, a) \in Packet /\ Rest(n, a) \in NetType
<1>1. <<a, where[n]>> \in Addr \X Addr
  BY DEF Parts, EnvOK
<1>2. Inbox(n, a) \in Seq(Packet) /\ Inbox(n, a) # <<>>
  BY <1>1 DEF Parts, NetType, Inbox, Incoming
<1>3. Head(Inbox(n, a)) \in Packet /\ Tail(Inbox(n, a)) \in Seq(Packet)
  BY <1>2, HeadTail
<1>4. Rest(n, a) = [net EXCEPT ![<<a, where[n]>>] = Tail(Inbox(n, a))]
  BY DEF Rest, Inbox
<1>. QED
  BY <1>3, <1>4, Zenon DEF Parts, NetType, Pkt

\* forward_to_peer from an active session.
LEMMA ForwardInv ==
    ASSUME Parts, NEW n \in Node, NEW tab, NEW nt \in NetType, NEW i \in Slot,
           NodeInv(n, tab, session_slots[n], pending_hs[n]), tab[i].active,
           NEW payload \in Payload \cup {Nil}, Forward(n, tab, nt, i, payload),
           UNCHANGED <<session_slots, pending_hs>>
    PROVE  faults' \in Nat /\ net' \in NetType /\ NodesOK'
<1>. DEFINE pkt == [kind |-> "data", key |-> tab[i].session_key, seq |-> tab[i].send_seq,
                    payload |-> payload]
            sent == [tab[i] EXCEPT !.send_seq = @ + 1, !.last_sent = clock]
            kept == [tab[i] EXCEPT !.send_seq = @ + 1]
<1>1. tab[i] \in Session /\ tab[i].session_key \in SessionKey /\ clock \in Nat
        /\ tab \in [Slot -> Session]
  BY DEF NodeInv, TableOK, Parts, EnvOK
<1>2. pkt \in Packet
  BY <1>1 DEF Packet, Session
<1>3. Touches(tab[i], sent)
  BY <1>1, SessionUpdates, Zenon
<1>4. Touches(tab[i], kept)
  BY <1>1, SessionUpdates, Zenon
<1>5. faults \in Nat /\ NodesOK
  BY DEF Parts, EnvOK
<1>6. /\ session_slots' = [session_slots EXCEPT ![n] = session_slots'[n]]
      /\ session_slots'[n] = session_slots[n]
      /\ pending_hs' = [pending_hs EXCEPT ![n] = pending_hs'[n]]
      /\ pending_hs'[n] = pending_hs[n]
  BY DEF Parts, NodesOK
<1>7. CASE /\ Charge({})
           /\ sessions' = [sessions EXCEPT ![n] = [tab EXCEPT ![i] = sent]]
           /\ net' = [nt EXCEPT ![<<where[n], tab[i].addr>>] = Append(@, pkt)]
  <2>. HIDE DEF pkt, sent, kept
  <2>1. NodeInv(n, [tab EXCEPT ![i] = sent], session_slots[n], pending_hs[n])
    BY <1>3, UpdateNodeInv
  <2>2. /\ sessions'[n] = [tab EXCEPT ![i] = sent]
        /\ sessions' = [sessions EXCEPT ![n] = sessions'[n]]
    BY <1>5, <1>7 DEF NodesOK
  <2>3. NodesOK'
    BY <2>1, <2>2, <1>5, <1>6, NodeStep
  <2>4. net' \in NetType
    BY <1>2, <1>7, SendType, Zenon
  <2>. QED
    BY <2>3, <2>4, <1>5, <1>7, ChargeType
<1>8. CASE /\ Charge({"send"})
           /\ sessions' = [sessions EXCEPT ![n] = [tab EXCEPT ![i] = kept]]
           /\ net' = nt
  <2>. HIDE DEF pkt, sent, kept
  <2>1. NodeInv(n, [tab EXCEPT ![i] = kept], session_slots[n], pending_hs[n])
    BY <1>4, UpdateNodeInv
  <2>2. /\ sessions'[n] = [tab EXCEPT ![i] = kept]
        /\ sessions' = [sessions EXCEPT ![n] = sessions'[n]]
    BY <1>5, <1>8 DEF NodesOK
  <2>3. NodesOK'
    BY <2>1, <2>2, <1>5, <1>6, NodeStep
  <2>. QED
    BY <2>3, <1>5, <1>8, ChargeType
<1>. QED
  BY <1>7, <1>8, Zenon DEF Forward
-----------------------------------------------------------------------------
(***************************************************************************)
(* The periodic check.                                                     *)
(***************************************************************************)

\* The check is due: last_rekey_check is set.
LEMMA BeginCheckInv ==
    ASSUME Parts, NEW n \in Node, BeginCheck(n)
    PROVE  Parts'
<1>1. loop' \in [Node -> LoopType]
  <2>1. [phase |-> "connect", i |-> 1, now |-> clock, last_rekey_check |-> clock] \in LoopType
    BY DEF LoopType, Phase, Parts, EnvOK
  <2>. QED
    BY <2>1 DEF BeginCheck, Parts
<1>. QED
  BY <1>1, NodesSame, CfgSame, HistSame DEF BeginCheck, Parts, EnvOK, NetType, env, peer

\* The check is over.
LEMMA EndCheckInv ==
    ASSUME Parts, NEW n \in Node, EndCheck(n)
    PROVE  Parts'
<1>1. loop' \in [Node -> LoopType]
  <2>1. Idle(loop[n].last_rekey_check) \in LoopType
    BY DEF LoopType, Phase, Parts, Idle
  <2>. QED
    BY <2>1 DEF EndCheck, Parts
<1>. QED
  BY <1>1, NodesSame, CfgSame, HistSame DEF EndCheck, Parts, EnvOK, NetType, env, peer

\* The loops of the check move on.
LEMMA LoopUpdates ==
    ASSUME NEW l \in LoopType, NEW k \in Nat
    PROVE  /\ [l EXCEPT !.i = k] \in LoopType
           /\ [l EXCEPT !.phase = "keepalive", !.i = k] \in LoopType
BY Zenon DEF LoopType, Phase

\* resolve_endpoint finds an address for a peer that has a host.
LEMMA ResolvedType ==
    ASSUME where \in [Node -> Addr], NEW n \in Node, NEW c \in CfgIdx(n)
    PROVE  Resolved(n, c) \in Addr \cup {Nil}
BY ConfigType DEF Resolved

\* An attempt to connect sets last_attempt and endpoint of one peer.
LEMMA CfgStep ==
    ASSUME CfgOK, NEW n \in Node, NEW c \in CfgIdx(n), NEW t \in Nat, NEW a \in Addr \cup {Nil},
           last_attempt' = [last_attempt EXCEPT ![n][c] = t],
           endpoint' = [endpoint EXCEPT ![n][c] = a]
    PROVE  CfgOK'
<1>1. DOMAIN last_attempt' = Node /\ DOMAIN endpoint' = Node
  BY DEF CfgOK
<1>2. \A m \in Node : last_attempt'[m] \in [CfgIdx(m) -> Nat]
  BY DEF CfgOK
<1>3. \A m \in Node : endpoint'[m] \in [CfgIdx(m) -> Addr \cup {Nil}]
  BY DEF CfgOK
<1>. QED
  BY <1>1, <1>2, <1>3 DEF CfgOK

\* initiate_outbound_handshake with success.
LEMMA InitiateInv ==
    ASSUME Parts, NEW n \in Node, NEW c \in CfgIdx(n), NEW a \in Addr \cup {Nil},
           NEW pub, pub = Config[n][c].pub,
           InitiateOutboundHandshake(n, c, a),
           sessions' = [sessions EXCEPT ![n] = SetRekeying(sessions[n], session_slots[n], pub, TRUE)],
           session_slots' = session_slots
    PROVE  NodesOK' /\ net' \in NetType /\ ephs' \in [Node -> Nat]
<1>. DEFINE eph == <<n, ephs[n] + 1>>
            p   == [active |-> TRUE, cfg_idx |-> c, sent_at |-> clock, eph |-> eph,
                    server_addr |-> a]
            pkt == ClientPacket(Psk[n], eph, n, pub)
<1>1. clock \in Nat /\ ephs \in [Node -> Nat] /\ net \in NetType /\ NodesOK
  BY DEF Parts, EnvOK
<1>2. eph \in Ephemeral
  BY <1>1 DEF Ephemeral
<1>3. pkt \in Packet
  <2>1. pub \in Node
    BY ConfigType
  <2>2. DH(eph, pub) \in Secret
    BY <2>1, <1>2 DEF DH, Secret, PublicKey
  <2>. HIDE DEF eph
  <2>. QED
    BY <2>2, <1>2 DEF ClientPacket, HandshakePacket, Seal, Packet
<1>4. p \in PendingHs /\ p.active /\ p.cfg_idx = c /\ p.eph = eph
  BY <1>1, <1>2 DEF PendingHs, CfgIdx
<1>. HIDE DEF eph, p, pkt
<1>5. PICK j \in Slot : IsFirst(j, FreePending(n)) /\ pending_hs' = [pending_hs EXCEPT ![n][j] = p]
  BY Zenon DEF InitiateOutboundHandshake, p, eph
<1>6. ephs' = [ephs EXCEPT ![n] = @ + 1]
        /\ net' = [net EXCEPT ![<<where[n], a>>] = Append(@, pkt)]
  BY DEF InitiateOutboundHandshake, pkt, eph
<1>7. NodesOK'
  <2>. DEFINE pend == pending_hs[n]
              new  == SetRekeying(sessions[n], session_slots[n], pub, TRUE)
  <2>1. NodeInv(n, sessions[n], session_slots[n], pend) /\ ~pend[j].active
    BY <1>1, <1>5 DEF NodesOK, IsFirst, FreePending
  <2>2. p.cfg_idx \in CfgIdx(n) /\ p.eph \in Ephemeral /\ pub = Config[n][p.cfg_idx].pub
    BY <1>2, <1>4
  <2>3. NodeInv(n, new, session_slots[n], [pend EXCEPT ![j] = p])
    BY <2>1, <2>2, <1>4, StartNodeInv, Zenon
  <2>. HIDE DEF new
  <2>4. sessions'[n] = new /\ sessions' = [sessions EXCEPT ![n] = sessions'[n]]
    BY <1>1 DEF NodesOK, new
  <2>5. pending_hs'[n] = [pend EXCEPT ![j] = p]
          /\ pending_hs' = [pending_hs EXCEPT ![n] = pending_hs'[n]]
    BY <1>1, <1>5 DEF NodesOK
  <2>6. session_slots'[n] = session_slots[n]
          /\ session_slots' = [session_slots EXCEPT ![n] = session_slots'[n]]
    BY <1>1 DEF NodesOK
  <2>. QED
    BY <2>3, <2>4, <2>5, <2>6, <1>1, NodeStep, Zenon
<1>8. net' \in NetType
  BY <1>1, <1>3, <1>6, SendType, Zenon
<1>. QED
  BY <1>1, <1>6, <1>7, <1>8

\* One peer of the connect loop: resolved, then started, or failed and unmarked.
LEMMA ConnectInv ==
    ASSUME Parts, NEW n \in Node, Connect(n)
    PROVE  Parts'
<1>1. PICK c \in CfgIdx(n), f \in SUBSET {"dns", "send"} :
          LET addr    == IF "dns" \in f THEN endpoint[n][c] ELSE Resolved(n, c)
              started == "send" \notin f /\ FreePending(n) # {}
          IN  /\ Charge(f)
              /\ endpoint' = [endpoint EXCEPT ![n][c] = addr]
              /\ last_attempt' = [last_attempt EXCEPT ![n][c] = clock]
              /\ loop' = [loop EXCEPT ![n].i = c + 1]
              /\ sessions' = [sessions EXCEPT ![n] =
                    SetRekeying(sessions[n], session_slots[n], Config[n][c].pub, started)]
              /\ \/ started /\ InitiateOutboundHandshake(n, c, addr)
                 \/ ~started /\ UNCHANGED <<pending_hs, ephs, net>>
  BY Zenon DEF Connect
<1>2. UNCHANGED <<clock, reads, where, session_slots, precomp_eph, hist>>
  BY DEF Connect
<1>. DEFINE addr    == IF "dns" \in f THEN endpoint[n][c] ELSE Resolved(n, c)
            started == "send" \notin f /\ FreePending(n) # {}
            pub     == Config[n][c].pub
<1>3. EnvOK /\ NodesOK /\ CfgOK /\ HistOK /\ net \in NetType /\ loop \in [Node -> LoopType]
        /\ clock \in Nat /\ faults \in Nat /\ where \in [Node -> Addr] /\ ephs \in [Node -> Nat]
  BY DEF Parts, EnvOK
<1>4. addr \in Addr \cup {Nil}
  BY <1>3, ResolvedType DEF CfgOK
<1>. HIDE DEF addr, pub
<1>5. CfgOK'
  BY <1>1, <1>3, <1>4, CfgStep, Zenon DEF addr
<1>6. loop' \in [Node -> LoopType]
  <2>1. c + 1 \in Nat /\ loop[n] \in LoopType
    BY <1>3 DEF CfgIdx
  <2>2. [loop[n] EXCEPT !.i = c + 1] \in LoopType
    BY <2>1, LoopUpdates, Zenon
  <2>. QED
    BY <2>2, <1>1, <1>3
<1>7. faults' \in Nat
  BY <1>1, <1>3, ChargeType
<1>8. NodesOK' /\ net' \in NetType /\ ephs' \in [Node -> Nat]
  <2>1. CASE started
    <3>1. sessions' = [sessions EXCEPT ![n] = SetRekeying(sessions[n], session_slots[n], pub, TRUE)]
      BY <2>1, <1>1, Zenon DEF pub
    <3>2. InitiateOutboundHandshake(n, c, addr)
      BY <2>1, <1>1 DEF addr
    <3>3. pub = Config[n][c].pub /\ session_slots' = session_slots
      BY <1>2 DEF pub
    <3>. QED
      BY <3>1, <3>2, <3>3, <1>4, InitiateInv, Zenon
  <2>2. CASE ~started
    <3>. DEFINE new == SetRekeying(sessions[n], session_slots[n], pub, FALSE)
    <3>1. sessions' = [sessions EXCEPT ![n] = new]
      BY <2>2, <1>1, Zenon DEF pub
    <3>2. NodeInv(n, new, session_slots[n], pending_hs[n])
      BY <1>3, ClearNodeInv, Zenon DEF NodesOK
    <3>. HIDE DEF new
    <3>3. sessions'[n] = new /\ sessions' = [sessions EXCEPT ![n] = sessions'[n]]
      BY <3>1, <1>3 DEF NodesOK
    <3>4. UNCHANGED <<pending_hs, ephs, net, session_slots>>
      BY <2>2, <1>1, <1>2
    <3>5. /\ session_slots'[n] = session_slots[n]
          /\ session_slots' = [session_slots EXCEPT ![n] = session_slots'[n]]
          /\ pending_hs'[n] = pending_hs[n]
          /\ pending_hs' = [pending_hs EXCEPT ![n] = pending_hs'[n]]
      BY <3>4, <1>3 DEF NodesOK
    <3>. QED
      BY <3>2, <3>3, <3>4, <3>5, <1>3, NodeStep
  <2>. QED
    BY <2>1, <2>2
<1>. QED
  BY <1>2, <1>3, <1>5, <1>6, <1>7, <1>8, HistSame DEF Parts, EnvOK

\* The pending handshakes that have timed out end, silent sessions go, and the
\* marks of the timed out handshakes are cleared.
LEMMA ExpireInv ==
    ASSUME Parts, NEW n \in Node, Expire(n)
    PROVE  Parts'
<1>. DEFINE tab   == sessions[n]
            slots == session_slots[n]
            pend  == pending_hs[n]
            gaveUp(i) == \E j \in TimedOut(n) :
                            IsFirst(i, ByPub(tab, slots, Config[n][pend[j].cfg_idx].pub))
            after(i)  == [tab[i] EXCEPT !.active   = @ /\ ~Silent(tab[i], loop[n].now),
                                        !.rekeying = @ /\ ~gaveUp(i)]
            new   == [i \in Slot |-> after(i)]
            pnew  == [j \in Slot |-> IF j \in TimedOut(n) THEN NoPending ELSE pend[j]]
<1>1. EnvOK /\ NodesOK /\ CfgOK /\ HistOK /\ net \in NetType /\ loop \in [Node -> LoopType]
        /\ NodeInv(n, tab, slots, pend)
  BY DEF Parts, NodesOK
<1>2. tab \in [Slot -> Session] /\ pend \in [Slot -> PendingHs]
  BY <1>1 DEF NodeInv, TableOK, PendingOK
<1>3. /\ sessions' = [sessions EXCEPT ![n] = new]
      /\ pending_hs' = [pending_hs EXCEPT ![n] = pnew]
      /\ loop' = [loop EXCEPT ![n].phase = "keepalive", ![n].i = 1]
      /\ UNCHANGED <<env, net, ephs, session_slots, last_attempt, endpoint, precomp_eph, hist>>
  BY Zenon DEF Expire
<1>4. \A i \in Slot :
          /\ after(i) \in Session
          /\ after(i).active = (tab[i].active /\ ~Silent(tab[i], loop[n].now))
          /\ after(i).rekeying = (tab[i].rekeying /\ ~gaveUp(i))
          /\ after(i).addr = tab[i].addr
          /\ after(i).static_pub = tab[i].static_pub
          /\ after(i).session_key = tab[i].session_key
  <2>. SUFFICES ASSUME NEW i \in Slot
                PROVE  /\ after(i) \in Session
                       /\ after(i).active = (tab[i].active /\ ~Silent(tab[i], loop[n].now))
                       /\ after(i).rekeying = (tab[i].rekeying /\ ~gaveUp(i))
                       /\ after(i).addr = tab[i].addr
                       /\ after(i).static_pub = tab[i].static_pub
                       /\ after(i).session_key = tab[i].session_key
    BY Zenon
  <2>1. tab[i] \in Session
    BY <1>2
  <2>. DEFINE stays == tab[i].active /\ ~Silent(tab[i], loop[n].now)
              marked == tab[i].rekeying /\ ~gaveUp(i)
  <2>2. stays \in BOOLEAN /\ marked \in BOOLEAN
    BY Zenon
  <2>3. after(i) = [tab[i] EXCEPT !.active = stays, !.rekeying = marked]
    BY Zenon
  <2>. HIDE DEF stays, marked, tab, after
  <2>4. /\ after(i) \in Session
        /\ after(i).active = stays
        /\ after(i).rekeying = marked
        /\ after(i).addr = tab[i].addr
        /\ after(i).static_pub = tab[i].static_pub
        /\ after(i).session_key = tab[i].session_key
    BY <2>1, <2>2, <2>3, Zenon DEF Session
  <2>. QED
    BY <2>4, Zenon DEF stays, marked
<1>5. \A i \in Slot : new[i] = after(i)
  OBVIOUS
<1>6. /\ pnew \in [Slot -> PendingHs]
      /\ \A j \in Slot : pnew[j] = pend[j] \/ (j \in TimedOut(n) /\ ~pnew[j].active)
      /\ \A j \in TimedOut(n) : ~pnew[j].active
  BY <1>2 DEF NoPending, PendingHs, TimedOut
<1>. HIDE DEF after, gaveUp, pnew
<1>7. new \in [Slot -> Session]
  BY <1>4
<1>. HIDE DEF new
<1>8. Keeps(tab, new)
  BY <1>4, <1>5, <1>7, Zenon DEF Keeps
<1>9. \A i \in Slot : new[i].active /\ new[i].rekeying => tab[i].rekeying
  BY <1>4, <1>5, Zenon
<1>10. \A i, j \in Slot :
           /\ pend[j].active /\ ~pnew[j].active
           /\ new[i].active
           /\ new[i].static_pub = Config[n][pend[j].cfg_idx].pub
           => ~new[i].rekeying
  <2>. SUFFICES ASSUME NEW i \in Slot, NEW j \in Slot, pend[j].active, ~pnew[j].active,
                       new[i].active, new[i].static_pub = Config[n][pend[j].cfg_idx].pub
                PROVE  ~new[i].rekeying
    OBVIOUS
  <2>1. j \in TimedOut(n)
    BY <1>6
  <2>2. tab[i].active /\ tab[i].static_pub = Config[n][pend[j].cfg_idx].pub
    BY <1>8 DEF Keeps
  <2>3. IsFirst(i, ByPub(tab, slots, Config[n][pend[j].cfg_idx].pub))
    BY <2>2, <1>1, FirstByPub, Zenon DEF NodeInv
  <2>4. gaveUp(i)
    BY <2>1, <2>3, Zenon DEF gaveUp
  <2>. QED
    BY <2>4, <1>4, <1>5, Zenon
<1>11. \A j \in Slot : ~pnew[j].active \/ pnew[j] = pend[j]
  BY <1>6
<1>12. NodeInv(n, new, slots, pnew)
  BY <1>1, <1>6, <1>8, <1>9, <1>10, <1>11, EndedNodeInv, Zenon
<1>13. NodesOK'
  <2>1. /\ sessions'[n] = new
        /\ sessions' = [sessions EXCEPT ![n] = sessions'[n]]
        /\ pending_hs'[n] = pnew
        /\ pending_hs' = [pending_hs EXCEPT ![n] = pending_hs'[n]]
        /\ session_slots'[n] = slots
        /\ session_slots' = [session_slots EXCEPT ![n] = session_slots'[n]]
    BY <1>1, <1>3 DEF NodesOK
  <2>. QED
    BY <2>1, <1>1, <1>12, NodeStep
<1>14. loop' \in [Node -> LoopType]
  <2>1. [loop[n] EXCEPT !.phase = "keepalive", !.i = 1] \in LoopType
    BY <1>1, LoopUpdates, Zenon
  <2>2. loop' = [loop EXCEPT ![n] = [loop[n] EXCEPT !.phase = "keepalive", !.i = 1]]
    BY <1>1, <1>3, Zenon
  <2>. QED
    BY <2>1, <2>2, <1>1
<1>. QED
  BY <1>1, <1>3, <1>13, <1>14, CfgSame, HistSame DEF Parts, EnvOK, env

\* A keepalive to one quiet session.
LEMMA KeepaliveInv ==
    ASSUME Parts, NEW n \in Node, Keepalive(n)
    PROVE  Parts'
<1>1. PICK i \in Slot : /\ IsFirst(i, Quiet(n))
                        /\ Forward(n, sessions[n], net, i, Nil)
                        /\ loop' = [loop EXCEPT ![n].i = i + 1]
  BY Zenon DEF Keepalive
<1>2. UNCHANGED <<clock, reads, where, ephs, session_slots, pending_hs, last_attempt,
                  endpoint, precomp_eph, hist>>
  BY DEF Keepalive
<1>3. EnvOK /\ NodesOK /\ CfgOK /\ HistOK /\ net \in NetType /\ loop \in [Node -> LoopType]
        /\ NodeInv(n, sessions[n], session_slots[n], pending_hs[n])
  BY DEF Parts, NodesOK
<1>4. sessions[n][i].active
  BY <1>1 DEF IsFirst, Quiet
<1>5. faults' \in Nat /\ net' \in NetType /\ NodesOK'
  BY <1>1, <1>2, <1>3, <1>4, ForwardInv
<1>6. loop' \in [Node -> LoopType]
  <2>1. i + 1 \in Nat /\ loop[n] \in LoopType
    BY <1>3 DEF Slot
  <2>2. [loop[n] EXCEPT !.i = i + 1] \in LoopType
    BY <2>1, LoopUpdates, Zenon
  <2>. QED
    BY <2>2, <1>1, <1>3
<1>. QED
  BY <1>2, <1>3, <1>5, <1>6, CfgSame, HistSame DEF Parts, EnvOK
=============================================================================
