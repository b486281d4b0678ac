---------------------------- MODULE TunnelProofs ----------------------------
(***************************************************************************)
(* Theorems about Tunnel, for every set of nodes, every configuration and  *)
(* every bound.                                                            *)
(***************************************************************************)
EXTENDS TunnelPackets

(***************************************************************************)
(* Time, the network, and what happens to a process.                        *)
(***************************************************************************)

\* Time passes.
LEMMA TickInv ==
    ASSUME Parts, Tick
    PROVE  Parts'
BY NodesSame, CfgSame, HistSame DEF Tick, Parts, EnvOK, peer, NetType

\* A packet is lost, duplicated or overtaken.
LEMMA DisturbInv ==
    ASSUME Parts, NEW l \in Addr \X Addr, Disturb(l)
    PROVE  Parts'
<1>1. net \in NetType /\ net[l] \in Seq(Packet) /\ faults \in Nat
  BY DEF Parts, EnvOK, NetType
<1>2. Head(net[l]) \in Packet /\ Tail(net[l]) \in Seq(Packet)
  BY <1>1, HeadTail DEF Disturb
<1>3. Append(net[l], Head(net[l])) \in Seq(Packet) /\ Append(Tail(net[l]), Head(net[l])) \in Seq(Packet)
  BY <1>1, <1>2, AppendType
<1>4. net' \in NetType
  BY <1>1, <1>2, <1>3, Zenon DEF Disturb, NetType
<1>5. faults' \in Nat
  BY <1>1, ChargeType DEF Disturb
<1>6. UNCHANGED <<clock, reads, where, ephs, loop, peer, hist>>
  BY DEF Disturb
<1>7. EnvOK /\ NodesOK /\ CfgOK /\ HistOK /\ loop \in [Node -> LoopType]
  BY DEF Parts
<1>. QED
  BY <1>4, <1>5, <1>6, <1>7, NodesSame, CfgSame, HistSame DEF Parts, EnvOK, peer

\* A process starts again with empty tables.
LEMMA RestartInv ==
    ASSUME Parts, NEW n \in Node, Restart(n)
    PROVE  Parts'
<1>1. /\ Charge({"restart"}) \/ Charge({"restart", "keygen"})
      /\ \/ precomp_eph' = [precomp_eph EXCEPT ![n] = <<n, ephs[n] + 1>>]
         \/ precomp_eph' = [precomp_eph EXCEPT ![n] = Nil]
      /\ loop' = [loop EXCEPT ![n] = Idle(0)]
      /\ ephs' = [ephs EXCEPT ![n] = @ + 1]
      /\ UNCHANGED <<clock, reads, where, net, accepts, written>>
  BY DEF Restart
<1>2. EnvOK /\ NodesOK /\ CfgOK /\ HistOK /\ loop \in [Node -> LoopType] /\ net \in NetType
        /\ clock \in Nat /\ faults \in Nat /\ ephs \in [Node -> Nat] /\ where \in [Node -> Addr]
        /\ precomp_eph \in [Node -> Ephemeral \cup {Nil}]
  BY DEF Parts, EnvOK
<1>3. faults' \in Nat
  BY <1>1, <1>2, ChargeType
<1>4. ephs' \in [Node -> Nat] /\ precomp_eph' \in [Node -> Ephemeral \cup {Nil}]
  <2>1. <<n, ephs[n] + 1>> \in Ephemeral
    BY <1>2 DEF Ephemeral
  <2>. QED
    BY <2>1, <1>1, <1>2
<1>5. loop' \in [Node -> LoopType]
  <2>1. Idle(0) \in LoopType
    BY DEF Idle, LoopType, Phase
  <2>. QED
    BY <2>1, <1>1, <1>2
<1>6. NodesOK'
  <2>. DEFINE tab  == [i \in Slot |-> NoSession]
              pend == [j \in Slot |-> NoPending]
  <2>1. /\ sessions' = [sessions EXCEPT ![n] = tab]
        /\ session_slots' = [session_slots EXCEPT ![n] = 0]
        /\ pending_hs' = [pending_hs EXCEPT ![n] = pend]
    BY DEF Restart
  <2>2. NodeInv(n, tab, 0, pend)
    BY EmptyNodeInv
  <2>. HIDE DEF tab, pend
  <2>3. /\ sessions'[n] = tab
        /\ sessions' = [sessions EXCEPT ![n] = sessions'[n]]
        /\ session_slots'[n] = 0
        /\ session_slots' = [session_slots EXCEPT ![n] = session_slots'[n]]
        /\ pending_hs'[n] = pend
        /\ pending_hs' = [pending_hs EXCEPT ![n] = pending_hs'[n]]
    BY <2>1, <1>2 DEF NodesOK
  <2>. QED
    BY <2>2, <2>3, <1>2, NodeStep
<1>7. CfgOK'
  <2>1. /\ last_attempt' = [last_attempt EXCEPT ![n] = [c \in CfgIdx(n) |-> 0]]
        /\ endpoint' = [endpoint EXCEPT ![n] = [c \in CfgIdx(n) |-> Resolved(n, c)]]
    BY DEF Restart
  <2>2. [c \in CfgIdx(n) |-> Resolved(n, c)] \in [CfgIdx(n) -> Addr \cup {Nil}]
    BY <1>2, ResolvedType
  <2>. QED
    BY <2>1, <2>2, <1>2 DEF CfgOK
<1>8. HistOK'
  <2>. DEFINE rec == [pub |-> Nil, key |-> Nil, role |-> "boot", at |-> clock]
  <2>1. rec \in Installation
    BY <1>2 DEF Installation
  <2>. HIDE DEF rec
  <2>2. installs' = [installs EXCEPT ![n] = Append(installs[n], rec)]
    BY DEF Restart, rec
  <2>3. Append(installs[n], rec) \in Seq(Installation)
    BY <2>1, <1>2, AppendType DEF HistOK
  <2>. QED
    BY <2>2, <2>3, <1>1, <1>2 DEF HistOK
<1>. QED
  BY <1>1, <1>2, <1>3, <1>4, <1>5, <1>6, <1>7, <1>8 DEF Parts, EnvOK

\* The address of a node changes.
LEMMA RoamInv ==
    ASSUME Parts, NEW n \in Node, Roam(n)
    PROVE  Parts'
<1>1. PICK a \in Addr : where' = [where EXCEPT ![n] = a]
  BY Zenon DEF Roam
<1>2. Charge({"roam"}) /\ UNCHANGED <<clock, reads, net, ephs, loop, peer, hist>>
  BY DEF Roam
<1>3. EnvOK /\ NodesOK /\ CfgOK /\ HistOK /\ loop \in [Node -> LoopType] /\ net \in NetType
        /\ faults \in Nat
  BY DEF Parts, EnvOK
<1>4. faults' \in Nat
  BY <1>2, <1>3, ChargeType
<1>5. where' \in [Node -> Addr]
  BY <1>1, <1>3 DEF EnvOK
<1>. QED
  BY <1>2, <1>3, <1>4, <1>5, NodesSame, CfgSame, HistSame DEF Parts, EnvOK, peer

\* Nothing happens.
LEMMA StutterInv ==
    ASSUME Parts, UNCHANGED vars
    PROVE  Parts'
<1>1. UNCHANGED <<clock, faults, reads, where, net, ephs, loop, peer, hist>>
  BY DEF vars, env
<1>2. EnvOK /\ NodesOK /\ CfgOK /\ HistOK /\ loop \in [Node -> LoopType] /\ net \in NetType
  BY DEF Parts
<1>. QED
  BY <1>1, <1>2, NodesSame, CfgSame, HistSame DEF Parts, EnvOK, peer

\* Every step keeps the invariant.
LEMMA NextInv ==
    ASSUME Parts, [Next]_vars
    PROVE  Parts'
<1>1. CASE Tick
  BY <1>1, TickInv
<1>2. ASSUME NEW n \in Node,
             \/ BeginCheck(n) \/ Connect(n) \/ Expire(n) \/ Keepalive(n) \/ EndCheck(n)
             \/ TunRead(n) \/ Restart(n) \/ Roam(n)
      PROVE  Parts'
  BY <1>2, BeginCheckInv, ConnectInv, ExpireInv, KeepaliveInv, EndCheckInv, TunReadInv,
     RestartInv, RoamInv
<1>3. ASSUME NEW n \in Node, NEW a \in Addr,
             \/ RecvResponse(n, a) \/ RecvBadResponse(n, a)
             \/ IgnoreInitiation(n, a) \/ RefuseInitiation(n, a) \/ AcceptInitiation(n, a)
             \/ DropUnknown(n, a) \/ DropData(n, a) \/ AcceptData(n, a)
      PROVE  Parts'
  BY <1>3, RecvResponseInv, RecvBadResponseInv, IgnoreInitiationInv, RefuseInitiationInv,
     AcceptInitiationInv, DropUnknownInv, DropDataInv, AcceptDataInv
<1>4. ASSUME NEW l \in Addr \X Addr, Disturb(l)
      PROVE  Parts'
  BY <1>4, DisturbInv
<1>5. CASE UNCHANGED vars
  BY <1>5, StutterInv
<1>. QED
  BY <1>1, <1>2, <1>3, <1>4, <1>5 DEF Next, End

\* The processes start in the invariant.
LEMMA InitInv ==
    ASSUME Init
    PROVE  Parts
<1>1. EnvOK
  BY NodeAssumption, ClockAssumption DEF Init, EnvOK, Ephemeral
<1>2. net \in NetType
  BY DEF Init, NetType
<1>3. loop \in [Node -> LoopType]
  BY DEF Init, Idle, LoopType, Phase
<1>4. NodesOK
  <2>. DEFINE tab  == [i \in Slot |-> NoSession]
              pend == [j \in Slot |-> NoPending]
  <2>1. /\ sessions = [n \in Node |-> tab]
        /\ session_slots = [n \in Node |-> 0]
        /\ pending_hs = [n \in Node |-> pend]
    BY DEF Init
  <2>2. \A n \in Node : NodeInv(n, tab, 0, pend)
    BY EmptyNodeInv
  <2>3. tab \in [Slot -> Session] /\ pend \in [Slot -> PendingHs] /\ 0 \in 0 .. MaxPeers
    BY NoSessionType, MaxPeersAssumption DEF NoPending, PendingHs
  <2>. HIDE DEF tab, pend
  <2>. QED
    BY <2>1, <2>2, <2>3 DEF NodesOK
<1>5. CfgOK
  <2>1. where \in [Node -> Addr]
    BY NodeAssumption DEF Init
  <2>. QED
    BY <2>1, ResolvedType DEF Init, CfgOK
<1>6. HistOK
  BY DEF Init, HistOK
<1>. QED
  BY <1>1, <1>2, <1>3, <1>4, <1>5, <1>6 DEF Parts
-----------------------------------------------------------------------------
(***************************************************************************)
(* Theorems.                                                               *)
(***************************************************************************)

\* The invariant holds in every reachable state.
LEMMA Inductive == Spec => []IInv
<1>1. Init => IInv
  BY InitInv, PartsAreIInv
<1>2. IInv /\ [Next]_vars => IInv'
  <2>1. ASSUME Parts, [Next]_vars PROVE Parts'
    BY <2>1, NextInv
  <2>2. Parts' <=> IInv'
    BY PartsAreIInv, PTL
  <2>. QED
    BY <2>1, <2>2, PartsAreIInv
<1>. QED
  BY <1>1, <1>2, PTL DEF Spec

\* Every handler of event_loop, whatever the network does and whichever step of it
\* fails, leaves tables of the right shape: an active session is in a slot that is
\* searched and belongs to a peer of the config file, a pending handshake has its
\* key pair and its peer.
THEOREM TypeCorrect == Spec => []TypeOK
BY Inductive, PTL DEF IInv

\* A node never has two sessions with a peer, for any number of peers and slots:
\* alloc_session looks the key up before it reuses a slot by address.
THEOREM OneSession == Spec => []OneSessionPerPub
BY Inductive, PTL DEF IInv

\* A session marked rekeying has a pending handshake with its peer: the mark is
\* never left behind by a response, a failure, a timeout or an inbound handshake.
THEOREM MarkHasPending == Spec => []RekeyingHasPending
BY Inductive, PTL DEF IInv

\* alloc_session never returns NULL for a peer of the config file: a full table
\* would hold more peers than the file, since no peer has two sessions.
THEOREM TableHasRoom == Spec => []TableNeverFull
<1>1. IInv => TableNeverFull
  <2>. SUFFICES ASSUME Parts PROVE TableNeverFull
    BY PartsAreIInv
  <2>1. \A n \in Node : TableOK(n, sessions[n], session_slots[n]) /\ OnePerPub(sessions[n])
    BY DEF Parts, NodesOK, NodeInv
  <2>. QED
    BY <2>1, AllocSucceeds, Zenon DEF TableNeverFull
<1>. QED
  BY <1>1, Inductive, PTL
=============================================================================
