--------------------------- MODULE TunnelPackets ----------------------------
(***************************************************************************)
(* The handlers of event_loop for packets, from the TUN device and from the*)
(* socket: each keeps the inductive invariant of Tunnel.                   *)
(***************************************************************************)
EXTENDS TunnelChecks

\* route_lookup returns an active session.
LEMMA RouteActive ==
    ASSUME NEW tab, NEW slots, NEW dst, NEW i, RouteLookup(tab, slots, dst, i)
    PROVE  tab[i].active
BY DEF RouteLookup, Candidates

\* A packet from the TUN device, forwarded to the session of its route.
LEMMA TunReadInv ==
    ASSUME Parts, NEW n \in Node, TunRead(n)
    PROVE  Parts'
<1>1. PICK src \in Sources[n], dst \in Destinations, i \in Slot :
          /\ RouteLookup(sessions[n], session_slots[n], dst, i)
          /\ Forward(n, sessions[n], net, i, [src |-> src, dst |-> dst, from |-> n])
  BY Zenon DEF TunRead
<1>2. reads' = reads + 1
        /\ UNCHANGED <<clock, where, ephs, loop, session_slots, pending_hs, last_attempt,
                       endpoint, precomp_eph, hist>>
  BY DEF TunRead
<1>3. EnvOK /\ NodesOK /\ CfgOK /\ HistOK /\ net \in NetType /\ loop \in [Node -> LoopType]
        /\ NodeInv(n, sessions[n], session_slots[n], pending_hs[n])
  BY DEF Parts, NodesOK
<1>4. sessions[n][i].active
  BY <1>1, RouteActive
<1>. DEFINE payload == [src |-> src, dst |-> dst, from |-> n]
<1>5. payload \in Payload \cup {Nil}
  BY NodeAssumption DEF Payload
<1>. HIDE DEF payload
<1>6. Forward(n, sessions[n], net, i, payload)
  BY <1>1 DEF payload
<1>7. faults' \in Nat /\ net' \in NetType /\ NodesOK'
  BY <1>2, <1>3, <1>4, <1>5, <1>6, ForwardInv
<1>. QED
  BY <1>2, <1>3, <1>7, CfgSame, HistSame DEF Parts, EnvOK

\* alloc_session and session_init for a peer of the config file, with at most
\* pending handshakes with that peer ended.
LEMMA InstallInv ==
    ASSUME Parts, NEW n \in Node, NEW pub \in Node, pub \in Known(n), NEW a \in Addr,
           NEW key \in SessionKey, NEW routes \in SUBSET Prefix,
           NEW role \in {"client", "server"}, Install(n, pub, a, key, routes, role),
           EndsOnly(n, pending_hs[n], pending_hs'[n], pub),
           pending_hs' = [pending_hs EXCEPT ![n] = pending_hs'[n]],
           UNCHANGED <<accepts, written>>
    PROVE  NodesOK' /\ HistOK'
<1>1. PICK i \in Slot :
          /\ AllocSession(sessions[n], session_slots[n], pub, a, i)
          /\ sessions' = [sessions EXCEPT ![n] =
                [sessions[n] EXCEPT ![i] = SessionInit(sessions[n][i], a, pub, key, routes, clock)]]
          /\ session_slots' = [session_slots EXCEPT ![n] = SlotsWith(session_slots[n], i)]
          /\ installs' = [installs EXCEPT ![n] =
                Append(@, [pub |-> pub, key |-> key, role |-> role, at |-> clock])]
  BY Zenon DEF Install
<1>2. NodesOK /\ HistOK /\ clock \in Nat /\ sessions[n] \in [Slot -> Session]
        /\ NodeInv(n, sessions[n], session_slots[n], pending_hs[n])
  BY DEF Parts, EnvOK, NodesOK
<1>. DEFINE new == [sessions[n] EXCEPT ![i] =
                       SessionInit(sessions[n][i], a, pub, key, routes, clock)]
            rec == [pub |-> pub, key |-> key, role |-> role, at |-> clock]
<1>3. PutsNew(sessions[n], new, i, pub)
  BY <1>2, SessionInitPuts, Zenon
<1>4. rec \in Installation
  BY <1>2 DEF Installation
<1>. HIDE DEF new, rec
<1>5. NodeInv(n, new, SlotsWith(session_slots[n], i), pending_hs'[n])
  <2>1. AllocSession(sessions[n], session_slots[n], pub, a, i)
    BY <1>1
  <2>2. NodeInv(n, sessions[n], session_slots[n], pending_hs[n])
    BY <1>2
  <2>. QED
    BY <2>1, <2>2, <1>3, InstallNodeInv, Zenon
<1>6. /\ sessions'[n] = new
      /\ sessions' = [sessions EXCEPT ![n] = sessions'[n]]
      /\ session_slots'[n] = SlotsWith(session_slots[n], i)
      /\ session_slots' = [session_slots EXCEPT ![n] = session_slots'[n]]
  BY <1>1, <1>2 DEF NodesOK, new
<1>7. NodesOK'
  BY <1>2, <1>5, <1>6, NodeStep, Zenon
<1>8. HistOK'
  <2>1. installs' = [installs EXCEPT ![n] = Append(installs[n], rec)]
    BY <1>1 DEF rec
  <2>2. Append(installs[n], rec) \in Seq(Installation)
    BY <1>2, <1>4, AppendType, Zenon DEF HistOK
  <2>3. installs' \in [Node -> Seq(Installation)]
    BY <2>1, <2>2, <1>2, Zenon DEF HistOK
  <2>. QED
    BY <2>3, <1>2, Zenon DEF HistOK
<1>. QED
  BY <1>7, <1>8

\* A valid response: the pending handshake ends and its key is installed, in a
\* session that is not marked.
LEMMA RecvResponseInv ==
    ASSUME Parts, NEW n \in Node, NEW a \in Addr, RecvResponse(n, a)
    PROVE  Parts'
<1>. DEFINE pend == pending_hs[n]
            pkt  == Pkt(n, a)
<1>1. PICK j \in Slot :
          LET cfg == Config[n][pend[j].cfg_idx]
          IN  /\ IsFirst(j, Awaiting(n, a))
              /\ pending_hs' = [pending_hs EXCEPT ![n][j] = NoPending]
              /\ Install(n, cfg.pub, a, ClientKey(pkt, pend[j].eph, n, cfg.pub), cfg.routes, "client")
  BY Zenon DEF RecvResponse
<1>2. /\ Incoming(n, a)
      /\ IsHandshake(pkt, Psk[n])
      /\ net' = Rest(n, a)
      /\ UNCHANGED <<env, ephs, loop, last_attempt, endpoint, precomp_eph, accepts, written>>
  BY Zenon DEF RecvResponse, IsResponse
<1>3. pkt \in Packet /\ pkt.kind = "handshake" /\ Rest(n, a) \in NetType
  BY <1>2, IncomingType DEF IsHandshake
<1>4. EnvOK /\ NodesOK /\ CfgOK /\ HistOK /\ loop \in [Node -> LoopType] /\ PendingOK(n, pend)
  BY DEF Parts, NodesOK, NodeInv
<1>5. pend[j].active /\ pend[j].cfg_idx \in CfgIdx(n) /\ pend[j].eph \in Ephemeral
        /\ pend \in [Slot -> PendingHs]
  BY <1>1, <1>4, Zenon DEF IsFirst, Awaiting, PendingOK
<1>. DEFINE c      == pend[j].cfg_idx
            pub    == Config[n][c].pub
            routes == Config[n][c].routes
            key    == ClientKey(pkt, pend[j].eph, n, pub)
            pnew   == [pend EXCEPT ![j] = NoPending]
<1>6. pub \in Node /\ pub \in Known(n) /\ routes \in SUBSET Prefix
  BY <1>5, ConfigType, Zenon
<1>. HIDE DEF pkt
<1>7. key \in SessionKey
  BY <1>3, <1>5, <1>6, KeyTypes, Zenon
<1>8. EndsOnly(n, pend, pnew, pub)
  BY <1>4, <1>5, Zenon DEF EndsOnly, PendingOK, NoPending, PendingHs
<1>9. pending_hs'[n] = pnew /\ pending_hs' = [pending_hs EXCEPT ![n] = pending_hs'[n]]
  BY <1>1, <1>4, Zenon DEF NodesOK
<1>10. Install(n, pub, a, key, routes, "client") /\ "client" \in {"client", "server"}
  BY <1>1, Zenon
<1>11. UNCHANGED <<accepts, written>>
  BY <1>2
<1>. HIDE DEF pnew, key, routes, pub
<1>12. NodesOK' /\ HistOK'
  BY <1>6, <1>7, <1>8, <1>9, <1>10, <1>11, InstallInv
<1>. QED
  BY <1>2, <1>3, <1>4, <1>12, CfgSame DEF Parts, EnvOK, env

\* A response that does not verify: the pending handshake ends, and the mark of
\* its peer's session with it.
LEMMA RecvBadResponseInv ==
    ASSUME Parts, NEW n \in Node, NEW a \in Addr, RecvBadResponse(n, a)
    PROVE  Parts'
<1>. DEFINE pend == pending_hs[n]
<1>1. PICK j \in Slot :
          /\ pending_hs' = [pending_hs EXCEPT ![n][j] = NoPending]
          /\ sessions' = [sessions EXCEPT ![n] =
                SetRekeying(sessions[n], session_slots[n], Config[n][pend[j].cfg_idx].pub, FALSE)]
  BY Zenon DEF RecvBadResponse
<1>2. /\ Incoming(n, a)
      /\ net' = Rest(n, a)
      /\ UNCHANGED <<env, ephs, loop, session_slots, last_attempt, endpoint, precomp_eph, hist>>
  BY DEF RecvBadResponse, IsResponse
<1>3. Rest(n, a) \in NetType
  BY <1>2, IncomingType
<1>4. EnvOK /\ NodesOK /\ CfgOK /\ HistOK /\ loop \in [Node -> LoopType]
        /\ NodeInv(n, sessions[n], session_slots[n], pend)
  BY DEF Parts, NodesOK
<1>. DEFINE pub  == Config[n][pend[j].cfg_idx].pub
            new  == SetRekeying(sessions[n], session_slots[n], pub, FALSE)
            pnew == [pend EXCEPT ![j] = NoPending]
<1>5. pub = Config[n][pend[j].cfg_idx].pub
  OBVIOUS
<1>. HIDE DEF pub
<1>6. NodeInv(n, new, session_slots[n], pnew)
  BY <1>4, <1>5, FailNodeInv, Zenon
<1>7. /\ sessions' = [sessions EXCEPT ![n] = new]
      /\ pending_hs' = [pending_hs EXCEPT ![n] = pnew]
  BY <1>1 DEF pub
<1>. HIDE DEF new, pnew
<1>8. /\ sessions'[n] = new
      /\ sessions' = [sessions EXCEPT ![n] = sessions'[n]]
      /\ session_slots'[n] = session_slots[n]
      /\ session_slots' = [session_slots EXCEPT ![n] = session_slots'[n]]
      /\ pending_hs'[n] = pnew
      /\ pending_hs' = [pending_hs EXCEPT ![n] = pending_hs'[n]]
  BY <1>2, <1>4, <1>7 DEF NodesOK
<1>9. NodesOK'
  BY <1>4, <1>6, <1>8, NodeStep
<1>. QED
  BY <1>2, <1>3, <1>4, <1>9, CfgSame, HistSame DEF Parts, EnvOK, env

\* An initiation without an answer.
LEMMA IgnoreInitiationInv ==
    ASSUME Parts, NEW n \in Node, NEW a \in Addr, IgnoreInitiation(n, a)
    PROVE  Parts'
<1>1. /\ Incoming(n, a)
      /\ net' = Rest(n, a)
      /\ UNCHANGED <<clock, reads, where, ephs, loop, peer, hist>>
      /\ Charge({}) \/ Charge({"send"})
  BY DEF IgnoreInitiation, IsInitiation
<1>2. Rest(n, a) \in NetType
  BY <1>1, IncomingType
<1>3. EnvOK /\ NodesOK /\ CfgOK /\ HistOK /\ loop \in [Node -> LoopType] /\ faults \in Nat
  BY DEF Parts, EnvOK
<1>4. faults' \in Nat
  BY <1>1, <1>3, ChargeType
<1>. QED
  BY <1>1, <1>2, <1>3, <1>4, NodesSame, CfgSame, HistSame DEF Parts, EnvOK, peer

\* The response and the new ephemeral key pair.
LEMMA AnswerInv ==
    ASSUME Parts, NEW n \in Node, NEW a \in Addr, IsInitiation(n, a), Answers(n, a), Answer(n, a)
    PROVE  /\ Pkt(n, a) \in Packet
           /\ Pkt(n, a).kind = "handshake"
           /\ precomp_eph[n] \in Ephemeral
           /\ net' \in NetType
           /\ faults' \in Nat
           /\ ephs' \in [Node -> Nat]
           /\ precomp_eph' \in [Node -> Ephemeral \cup {Nil}]
<1>. DEFINE pkt  == Pkt(n, a)
            resp == ServerPacket(Psk[n], pkt, precomp_eph[n], n)
<1>1. pkt \in Packet /\ pkt.kind = "handshake" /\ Rest(n, a) \in NetType
  BY IncomingType DEF IsHandshake, IsInitiation
<1>2. faults \in Nat /\ ephs \in [Node -> Nat] /\ precomp_eph \in [Node -> Ephemeral \cup {Nil}]
  BY DEF Parts, EnvOK
<1>3. precomp_eph[n] \in Ephemeral
  BY <1>2 DEF Answers
<1>. HIDE DEF pkt
<1>4. resp \in Packet
  BY <1>1, <1>3, KeyTypes, Zenon
<1>5. net' = [Rest(n, a) EXCEPT ![<<where[n], a>>] = Append(@, resp)]
  BY DEF Answer, pkt
<1>. HIDE DEF resp
<1>6. net' \in NetType
  BY <1>1, <1>4, <1>5, SendType, Zenon
<1>7. faults' \in Nat
  <2>1. Charge({}) \/ Charge({"keygen"})
    BY DEF Answer
  <2>. QED
    BY <2>1, <1>2, ChargeType
<1>8. ephs' \in [Node -> Nat] /\ precomp_eph' \in [Node -> Ephemeral \cup {Nil}]
  <2>1. <<n, ephs[n] + 1>> \in Ephemeral
    BY <1>2 DEF Ephemeral
  <2>2. CASE UNCHANGED <<ephs, precomp_eph>>
    BY <2>2, <1>2
  <2>3. CASE /\ ephs' = [ephs EXCEPT ![n] = @ + 1]
             /\ precomp_eph' = [precomp_eph EXCEPT ![n] = <<n, ephs[n] + 1>>]
    BY <2>1, <2>3, <1>2
  <2>. QED
    BY <2>2, <2>3 DEF Answer
<1>. QED
  BY <1>1, <1>3, <1>6, <1>7, <1>8 DEF pkt

\* An initiation that is answered and then refused.
LEMMA RefuseInitiationInv ==
    ASSUME Parts, NEW n \in Node, NEW a \in Addr, RefuseInitiation(n, a)
    PROVE  Parts'
<1>1. /\ IsInitiation(n, a) /\ Answers(n, a) /\ Answer(n, a)
      /\ UNCHANGED <<clock, reads, where, loop, sessions, session_slots, pending_hs,
                     last_attempt, endpoint, hist>>
  BY DEF RefuseInitiation
<1>2. net' \in NetType /\ faults' \in Nat /\ ephs' \in [Node -> Nat]
        /\ precomp_eph' \in [Node -> Ephemeral \cup {Nil}]
  BY <1>1, AnswerInv
<1>3. EnvOK /\ NodesOK /\ CfgOK /\ HistOK /\ loop \in [Node -> LoopType]
  BY DEF Parts
<1>. QED
  BY <1>1, <1>2, <1>3, NodesSame, CfgSame, HistSame DEF Parts, EnvOK

\* An initiation that is answered and accepted: its key is installed.
LEMMA AcceptInitiationInv ==
    ASSUME Parts, NEW n \in Node, NEW a \in Addr, AcceptInitiation(n, a)
    PROVE  Parts'
<1>. DEFINE pkt == Pkt(n, a)
            pub == pkt.sealed.pub
            key == ServerKey(pkt, precomp_eph[n], n)
<1>1. /\ IsInitiation(n, a) /\ Answers(n, a) /\ Answer(n, a)
      /\ UNCHANGED <<clock, reads, where, loop, pending_hs, last_attempt, endpoint, accepts, written>>
  BY Zenon DEF AcceptInitiation
<1>2. PICK c \in CfgIdx(n) : /\ Config[n][c].pub = pub
                             /\ Install(n, pub, a, key, Config[n][c].routes, "server")
  BY Zenon DEF AcceptInitiation, IsFirst
<1>3. /\ pkt \in Packet /\ pkt.kind = "handshake" /\ precomp_eph[n] \in Ephemeral
      /\ net' \in NetType /\ faults' \in Nat /\ ephs' \in [Node -> Nat]
      /\ precomp_eph' \in [Node -> Ephemeral \cup {Nil}]
  BY <1>1, AnswerInv
<1>4. EnvOK /\ NodesOK /\ CfgOK /\ HistOK /\ loop \in [Node -> LoopType]
        /\ PendingOK(n, pending_hs[n]) /\ pending_hs \in [Node -> [Slot -> PendingHs]]
  BY DEF Parts, NodesOK, NodeInv
<1>. HIDE DEF pkt
<1>5. key \in SessionKey
  BY <1>3, KeyTypes, Zenon
<1>6. pub \in Node /\ pub \in Known(n) /\ Config[n][c].routes \in SUBSET Prefix
  BY <1>2, ConfigType
<1>. HIDE DEF pub, key
<1>. DEFINE routes == Config[n][c].routes
<1>7. EndsOnly(n, pending_hs[n], pending_hs'[n], pub)
        /\ pending_hs' = [pending_hs EXCEPT ![n] = pending_hs'[n]]
  BY <1>1, <1>4, Zenon DEF EndsOnly
<1>8. Install(n, pub, a, key, routes, "server") /\ routes \in SUBSET Prefix
        /\ "server" \in {"client", "server"}
  BY <1>2, <1>6, Zenon
<1>9. UNCHANGED <<accepts, written>>
  BY <1>1
<1>. HIDE DEF routes
<1>10. NodesOK' /\ HistOK'
  BY <1>5, <1>6, <1>7, <1>8, <1>9, InstallInv, Zenon
<1>. QED
  BY <1>1, <1>3, <1>4, <1>10, CfgSame DEF Parts, EnvOK

\* A data packet from an address without a session.
LEMMA DropUnknownInv ==
    ASSUME Parts, NEW n \in Node, NEW a \in Addr, DropUnknown(n, a)
    PROVE  Parts'
<1>1. /\ Incoming(n, a)
      /\ net' = Rest(n, a)
      /\ UNCHANGED <<env, ephs, loop, peer, hist>>
  BY Zenon DEF DropUnknown, IsData
<1>2. Rest(n, a) \in NetType
  BY <1>1, IncomingType
<1>3. EnvOK /\ NodesOK /\ CfgOK /\ HistOK /\ loop \in [Node -> LoopType]
  BY DEF Parts
<1>. QED
  BY <1>1, <1>2, <1>3, NodesSame, CfgSame, HistSame DEF Parts, EnvOK, env, peer

\* A session of n is replaced by an update of itself.
LEMMA TouchStep ==
    ASSUME NodesOK, NEW n \in Node, NEW i \in Slot, NEW s, Touches(sessions[n][i], s),
           sessions' = [sessions EXCEPT ![n] = [sessions[n] EXCEPT ![i] = s]],
           UNCHANGED <<session_slots, pending_hs>>
    PROVE  NodesOK'
<1>. DEFINE new == [sessions[n] EXCEPT ![i] = s]
<1>1. NodeInv(n, sessions[n], session_slots[n], pending_hs[n])
  BY DEF NodesOK
<1>2. NodeInv(n, new, session_slots[n], pending_hs[n])
  BY <1>1, UpdateNodeInv
<1>. HIDE DEF new
<1>3. sessions' = [sessions EXCEPT ![n] = new]
  BY DEF new
<1>4. /\ sessions'[n] = new
      /\ sessions' = [sessions EXCEPT ![n] = sessions'[n]]
      /\ session_slots'[n] = session_slots[n]
      /\ session_slots' = [session_slots EXCEPT ![n] = session_slots'[n]]
      /\ pending_hs'[n] = pending_hs[n]
      /\ pending_hs' = [pending_hs EXCEPT ![n] = pending_hs'[n]]
  BY <1>3 DEF NodesOK
<1>. QED
  BY <1>2, <1>4, NodeStep, Zenon

\* A data packet that no key opens, or that is not new.
LEMMA DropDataInv ==
    ASSUME Parts, NEW n \in Node, NEW a \in Addr, DropData(n, a)
    PROVE  Parts'
<1>1. /\ net' = Rest(n, a)
      /\ UNCHANGED <<env, ephs, loop, session_slots, pending_hs, last_attempt, endpoint,
                     precomp_eph, hist>>
  BY DEF DropData
<1>2. PICK i \in Slot :
          /\ DataFor(n, a, i)
          /\ \/ sessions' = [sessions EXCEPT ![n][i].last_seen = clock]
             \/ sessions' = [sessions EXCEPT ![n][i].last_seen = clock,
                                             ![n][i].prev_key_active = FALSE]
  BY Zenon DEF DropData
<1>3. Rest(n, a) \in NetType
  BY <1>2, IncomingType DEF DataFor, IsData
<1>4. EnvOK /\ NodesOK /\ CfgOK /\ HistOK /\ loop \in [Node -> LoopType] /\ clock \in Nat
        /\ sessions \in [Node -> [Slot -> Session]] /\ sessions[n][i] \in Session
  BY DEF Parts, EnvOK, NodesOK
<1>. DEFINE s  == sessions[n][i]
            s1 == [s EXCEPT !.last_seen = clock]
            s2 == [s EXCEPT !.last_seen = clock, !.prev_key_active = FALSE]
<1>5. Touches(s, s1) /\ Touches(s, s2)
  <2>1. Touches(s, s1)
    BY <1>4, SessionUpdates, Zenon
  <2>2. Touches(s, s2)
    BY <1>4, Zenon DEF Session, Touches
  <2>. QED
    BY <2>1, <2>2
<1>6. \/ sessions' = [sessions EXCEPT ![n] = [sessions[n] EXCEPT ![i] = s1]]
      \/ sessions' = [sessions EXCEPT ![n] = [sessions[n] EXCEPT ![i] = s2]]
  BY <1>2, <1>4
<1>. HIDE DEF s1, s2
<1>7. NodesOK'
  BY <1>1, <1>4, <1>5, <1>6, TouchStep, Zenon
<1>. QED
  BY <1>1, <1>3, <1>4, <1>7, CfgSame, HistSame DEF Parts, EnvOK, env

\* A packet that opens under a key of the session is a data packet.
LEMMA DataPacket ==
    ASSUME NEW pkt \in Packet, pkt.kind = "data"
    PROVE  pkt.key \in SessionKey /\ pkt.seq \in Nat /\ pkt.payload \in Payload \cup {Nil}
BY DEF Packet

\* A data packet that is accepted: relayed, written or dropped by its source.
LEMMA AcceptDataInv ==
    ASSUME Parts, NEW n \in Node, NEW a \in Addr, AcceptData(n, a)
    PROVE  Parts'
<1>. DEFINE pkt   == Pkt(n, a)
            slots == session_slots[n]
            pend  == pending_hs[n]
            tabOf(i, prev) == [sessions[n] EXCEPT ![i] = Accepted(sessions[n][i], pkt, prev)]
<1>1. UNCHANGED <<clock, reads, where, ephs, loop, session_slots, pending_hs, last_attempt,
                  endpoint, precomp_eph, installs>>
  BY DEF AcceptData
<1>2. PICK i \in Slot, prev \in BOOLEAN :
          /\ DataFor(n, a, i)
          /\ UnderCurrentKey(sessions[n][i], pkt) \/ UnderPrevKey(sessions[n][i], pkt, clock)
          /\ accepts' = [accepts EXCEPT ![n] =
                Append(@, [key |-> pkt.key, seq |-> pkt.seq, prev |-> prev])]
          /\ \/ /\ \E k \in Slot : /\ RelaysTo(tabOf(i, prev), slots, i, pkt.payload, k)
                                   /\ Forward(n, tabOf(i, prev), Rest(n, a), k, pkt.payload)
                /\ UNCHANGED written
             \/ /\ Charge({})
                /\ sessions' = [sessions EXCEPT ![n] = tabOf(i, prev)]
                /\ net' = Rest(n, a)
                /\ written' = [written EXCEPT ![n] =
                      @ \cup {p \in {pkt.payload} : Passes(sessions[n][i], p)}]
  BY Zenon DEF AcceptData
<1>3. pkt \in Packet /\ Rest(n, a) \in NetType /\ pkt.kind = "data"
  BY <1>2, IncomingType, Zenon DEF DataFor, IsData, UnderCurrentKey, UnderPrevKey
<1>4. EnvOK /\ NodesOK /\ CfgOK /\ HistOK /\ loop \in [Node -> LoopType] /\ clock \in Nat
        /\ faults \in Nat /\ sessions \in [Node -> [Slot -> Session]] /\ sessions[n][i] \in Session
        /\ NodeInv(n, sessions[n], slots, pend)
  BY DEF Parts, EnvOK, NodesOK
<1>. HIDE DEF pkt
<1>5. pkt.key \in SessionKey /\ pkt.seq \in Nat /\ pkt.payload \in Payload \cup {Nil}
  BY <1>3, DataPacket
<1>. DEFINE s == Accepted(sessions[n][i], pkt, prev)
<1>6. Touches(sessions[n][i], s)
  <2>1. CASE prev
    <3>1. s = [sessions[n][i] EXCEPT !.last_seen = clock]
      BY <2>1 DEF Accepted
    <3>. HIDE DEF s
    <3>. QED
      BY <3>1, <1>4, SessionUpdates, Zenon
  <2>2. CASE ~prev
    <3>1. s = [sessions[n][i] EXCEPT !.last_seen = clock, !.prev_key_active = FALSE,
                                     !.recv_seq = @ \cup {pkt.seq}]
      BY <2>2 DEF Accepted
    <3>. HIDE DEF s
    <3>. QED
      BY <3>1, <1>4, <1>5, Zenon DEF Session, Touches
  <2>. QED
    BY <2>1, <2>2
<1>. HIDE DEF s
<1>. DEFINE tab == [sessions[n] EXCEPT ![i] = s]
<1>7. NodeInv(n, tab, slots, pend)
  BY <1>4, <1>6, UpdateNodeInv, Zenon
<1>8. tabOf(i, prev) = tab
  BY DEF s
<1>. HIDE DEF tabOf
<1>9. accepts' \in [Node -> Seq(Accepting)]
  <2>. DEFINE rec == [key |-> pkt.key, seq |-> pkt.seq, prev |-> prev]
  <2>1. rec \in Accepting
    BY <1>5 DEF Accepting
  <2>. HIDE DEF rec
  <2>2. accepts \in [Node -> Seq(Accepting)] /\ accepts' = [accepts EXCEPT ![n] = Append(accepts[n], rec)]
    BY <1>2, <1>4, Zenon DEF HistOK, rec
  <2>3. Append(accepts[n], rec) \in Seq(Accepting)
    BY <2>1, <2>2, AppendType
  <2>. QED
    BY <2>2, <2>3
<1>10. written' \in [Node -> SUBSET Payload]
  <2>1. {p \in {pkt.payload} : Passes(sessions[n][i], p)} \subseteq Payload
    BY <1>5 DEF Passes
  <2>. QED
    BY <2>1, <1>2, <1>4, Zenon DEF HistOK
<1>11. faults' \in Nat /\ net' \in NetType /\ NodesOK'
  <2>1. CASE \E k \in Slot : /\ RelaysTo(tabOf(i, prev), slots, i, pkt.payload, k)
                             /\ Forward(n, tabOf(i, prev), Rest(n, a), k, pkt.payload)
    <3>1. PICK k \in Slot : /\ RelaysTo(tab, slots, i, pkt.payload, k)
                            /\ Forward(n, tab, Rest(n, a), k, pkt.payload)
      BY <2>1, <1>8, Zenon
    <3>. DEFINE payload == pkt.payload
                nt == Rest(n, a)
    <3>. HIDE DEF tab
    <3>2. tab[k].active
      BY <3>1, RouteActive DEF RelaysTo
    <3>3. UNCHANGED <<session_slots, pending_hs>>
      BY <1>1
    <3>4. Forward(n, tab, nt, k, payload) /\ nt \in NetType /\ payload \in Payload \cup {Nil}
      BY <3>1, <1>3, <1>5
    <3>5. NodeInv(n, tab, session_slots[n], pending_hs[n])
      BY <1>7, Zenon
    <3>. HIDE DEF payload, nt
    <3>. QED
      BY <3>2, <3>3, <3>4, <3>5, ForwardInv, ZenonT(30)
  <2>2. CASE /\ Charge({})
             /\ sessions' = [sessions EXCEPT ![n] = tabOf(i, prev)]
             /\ net' = Rest(n, a)
    <3>1. sessions' = [sessions EXCEPT ![n] = [sessions[n] EXCEPT ![i] = s]]
      BY <2>2, <1>8
    <3>2. NodesOK'
      BY <3>1, <1>1, <1>4, <1>6, TouchStep, Zenon
    <3>. QED
      BY <3>2, <2>2, <1>3, <1>4, ChargeType, Zenon
  <2>. QED
    BY <2>1, <2>2, <1>2
<1>. QED
  BY <1>1, <1>4, <1>9, <1>10, <1>11, CfgSame, Zenon DEF Parts, EnvOK, HistOK
=============================================================================
