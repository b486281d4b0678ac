--------------------------- MODULE StartupProofs ---------------------------
(***************************************************************************)
(* load_config stays within its arrays, and the event loop starts only with *)
(* a checked configuration, for every stream of YAML events and every size  *)
(* of the tables.                                                           *)
(***************************************************************************)
EXTENDS Startup, TLAPS

\* What has been acquired follows from how far the program has come, and from the
\* checks on the configuration does not change.
Stage ==
    /\ step \in {"load", "check", "key", "exit"} => held = {}
    /\ step \in {"key", "tun", "socket", "bind", "eph", "enter", "loop"} => Checks(loader.opt, loader.peers)
    /\ step = "tun" => held = {"static_key"}
    /\ step = "socket" => held = {"static_key", "tun_fd"}
    /\ step \in {"bind", "eph", "enter", "loop"} => held = {"static_key", "tun_fd", "sock_fd"}

IInv == TypeOK /\ Stage

Events == [type : {"scalar", "map_start", "seq_start", "map_end", "seq_end", "stream_end"},
           value : Scalars, resolves : BOOLEAN]

Safe(l) == l \in Loader /\ Bounded(l)

-----------------------------------------------------------------------------
\* The options keep their types.
LEMMA SetOptionType ==
    ASSUME NEW opt \in Opt, NEW key, NEW v \in Scalars
    PROVE  SetOption(opt, key, v) \in Opt
<1>1. CASE key \in IntOptions
  <2>1. Atoi(v) \in {Atoi(w) : w \in Scalars}
    OBVIOUS
  <2> QED
    BY <1>1, <2>1 DEF SetOption, Opt
<1>2. CASE key \notin IntOptions /\ key \in TextOptions
  BY <1>2 DEF SetOption, Opt, Text
<1>3. CASE key \notin IntOptions /\ key \notin TextOptions
  BY <1>3 DEF SetOption
<1> QED
  BY <1>1, <1>2, <1>3

LEMMA NoPeerType == NoPeer \in Peer /\ Len(NoPeer.routes) = 0
BY DEF NoPeer, Peer

\* A change of the loader that leaves the peers alone.
LEMMA SamePeers ==
    ASSUME NEW l, Safe(l), NEW k, k \in Loader, k.peers = l.peers,
           k.state \in {"peer_map", "peer_val", "allowed_ips_seq"} => l.peers # <<>>
    PROVE  Safe(k)
BY DEF Safe, Bounded

\* A change of one peer.
LEMMA OnePeer ==
    ASSUME NEW l, Safe(l), NEW k, k \in Loader, NEW p \in Peer, Len(p.routes) <= MaxRoutes,
           NEW i \in DOMAIN l.peers, k.peers = [l.peers EXCEPT ![i] = p]
    PROVE  Safe(k)
<1>1. l.peers \in Seq(Peer)
  BY DEF Safe, Loader
<1>2. /\ Len(k.peers) = Len(l.peers) /\ DOMAIN k.peers = DOMAIN l.peers /\ k.peers # <<>>
      /\ \A j \in DOMAIN l.peers : k.peers[j] = IF j = i THEN p ELSE l.peers[j]
  BY <1>1
<1> QED
  BY <1>2 DEF Safe, Bounded

LEMMA RootSafe ==
    ASSUME NEW l, Safe(l), NEW ev \in Events PROVE Safe(S_ROOT(l, ev).l)
<1> DEFINE k == [l EXCEPT !.key = ev.value, !.state = "root_val"]
<1>1. k \in Loader /\ k.peers = l.peers /\ k.state = "root_val"
  BY DEF Safe, Loader, States, Events
<1>2. Safe(k)
  BY <1>1, SamePeers
<1> QED
  BY <1>2 DEF S_ROOT, Keep

LEMMA RootValSafe ==
    ASSUME NEW l, Safe(l), NEW ev \in Events PROVE Safe(S_ROOT_VAL(l, ev).l)
<1> DEFINE o == SetOption(l.opt, l.key, ev.value)
           k == [l EXCEPT !.opt = o, !.key = "", !.state = "root"]
           q == [[l EXCEPT !.key = ""] EXCEPT !.state = "peers_seq"]
<1>0. "" \in Scalars
  BY DEF Scalars
<1>1. o \in Opt
  BY SetOptionType DEF Safe, Loader, Events
<1> HIDE DEF o
<1>2. k \in Loader /\ k.peers = l.peers /\ k.state = "root"
  BY <1>0, <1>1 DEF Safe, Loader, States
<1>3. q \in Loader /\ q.peers = l.peers /\ q.state = "peers_seq"
  BY <1>0 DEF Safe, Loader, States
<1>4. Safe(k) /\ Safe(q)
  BY <1>2, <1>3, SamePeers
<1>5. S_ROOT_VAL(l, ev).l \in {k, q, l}
  BY DEF S_ROOT_VAL, Keep, Goto, o
<1> QED
  BY <1>4, <1>5

LEMMA PeersSeqSafe ==
    ASSUME NEW l, Safe(l), NEW ev \in Events PROVE Safe(S_PEERS_SEQ(l, ev).l)
<1> DEFINE k == [l EXCEPT !.state = "root"]
           q == [l EXCEPT !.peers = Append(@, NoPeer), !.state = "peer_map"]
<1>1. l.peers \in Seq(Peer)
  BY DEF Safe, Loader
<1>2. k \in Loader /\ k.peers = l.peers /\ k.state = "root"
  BY DEF Safe, Loader, States
<1>3. Safe(k)
  BY <1>2, SamePeers
<1>4. ASSUME Len(l.peers) < MaxPeers PROVE Safe(q)
  <2>1. Append(l.peers, NoPeer) \in Seq(Peer)
    BY <1>1, NoPeerType
  <2>2. q \in Loader /\ q.peers = Append(l.peers, NoPeer) /\ q.state = "peer_map"
    BY <2>1 DEF Safe, Loader, States
  <2>3. /\ Len(q.peers) = Len(l.peers) + 1 /\ q.peers # <<>>
        /\ \A i \in DOMAIN q.peers : q.peers[i] = IF i \in DOMAIN l.peers THEN l.peers[i] ELSE NoPeer
    BY <1>1, <2>2, NoPeerType
  <2>4. Len(q.peers) <= MaxPeers
    BY <1>1, <1>4, <2>3, BoundsAssumption
  <2> QED
    BY <2>2, <2>3, <2>4, NoPeerType, BoundsAssumption DEF Safe, Bounded
<1>5. S_PEERS_SEQ(l, ev).l \in {k, l} \/ (Len(l.peers) < MaxPeers /\ S_PEERS_SEQ(l, ev).l = q)
  BY <1>1, BoundsAssumption DEF S_PEERS_SEQ, Keep, Goto, Refuse
<1> QED
  BY <1>3, <1>4, <1>5

LEMMA PeerMapSafe ==
    ASSUME NEW l, Safe(l), l.state = "peer_map", NEW ev \in Events PROVE Safe(S_PEER_MAP(l, ev).l)
<1> DEFINE k == [l EXCEPT !.state = "peers_seq"]
           q == [l EXCEPT !.peer_key = ev.value, !.state = "peer_val"]
<1>1. k \in Loader /\ k.peers = l.peers /\ k.state = "peers_seq"
  BY DEF Safe, Loader, States
<1>2. q \in Loader /\ q.peers = l.peers /\ q.state = "peer_val" /\ l.peers # <<>>
  BY DEF Safe, Loader, States, Events, Bounded
<1>3. Safe(k) /\ Safe(q)
  BY <1>1, <1>2, SamePeers
<1>4. S_PEER_MAP(l, ev).l \in {k, q, l}
  BY DEF S_PEER_MAP, Keep, Goto
<1> QED
  BY <1>3, <1>4

LEMMA PeerValSafe ==
    ASSUME NEW l, Safe(l), l.state = "peer_val", NEW ev \in Events PROVE Safe(S_PEER_VAL(l, ev).l)
<1> DEFINE pc == Len(l.peers)
           next == [l EXCEPT !.peer_key = "", !.state = "peer_map"]
           seq == [[l EXCEPT !.peer_key = ""] EXCEPT !.state = "allowed_ips_seq"]
           pub == [l.peers[pc] EXCEPT !.pub = Hex(ev.value)]
           end == [l.peers[pc] EXCEPT !.endpoint = Endpoint(ev.value)]
           With(p) == [next EXCEPT !.peers = [l.peers EXCEPT ![pc] = p]]
<1>0. "" \in Scalars /\ ev.value \in Scalars
  BY DEF Scalars, Events
<1>1. l.peers \in Seq(Peer) /\ l.peers # <<>>
  BY DEF Safe, Loader, Bounded
<1>2. pc \in DOMAIN l.peers /\ l.peers[pc] \in Peer /\ Len(l.peers[pc].routes) <= MaxRoutes
  BY <1>1 DEF Safe, Bounded
<1>3. next \in Loader /\ next.peers = l.peers /\ seq \in Loader /\ seq.peers = l.peers
  BY <1>0 DEF Safe, Loader, States
<1>4. Safe(next) /\ Safe(seq)
  BY <1>1, <1>3, SamePeers
<1>5. ASSUME NEW p \in Peer, Len(p.routes) <= MaxRoutes PROVE Safe(With(p))
  <2>1. [l.peers EXCEPT ![pc] = p] \in Seq(Peer)
    BY <1>1
  <2> HIDE DEF next
  <2>2. With(p) \in Loader /\ With(p).peers = [l.peers EXCEPT ![pc] = p]
    BY <1>3, <2>1 DEF Loader
  <2> QED
    BY <1>2, <1>5, <2>2, OnePeer
<1>6. /\ pub \in Peer /\ Len(pub.routes) <= MaxRoutes
      /\ end \in Peer /\ Len(end.routes) <= MaxRoutes
  BY <1>0, <1>2 DEF Peer
<1>7. Safe(With(pub)) /\ Safe(With(end))
  BY <1>5, <1>6
<1>8. /\ [next EXCEPT !.peers[pc].pub = Hex(ev.value)] = With(pub)
      /\ [next EXCEPT !.peers[pc].endpoint = Endpoint(ev.value)] = With(end)
  BY <1>1, <1>2, <1>3
<1>9. S_PEER_VAL(l, ev).l \in {l, next, seq, With(pub), With(end)}
  BY <1>8 DEF S_PEER_VAL, PeerVal, Keep, Goto, Refuse
<1> QED
  BY <1>4, <1>7, <1>9

LEMMA AllowedIpsSafe ==
    ASSUME NEW l, Safe(l), l.state = "allowed_ips_seq", NEW ev \in Events
    PROVE  Safe(S_ALLOWED_IPS_SEQ(l, ev).l)
<1> DEFINE pc == Len(l.peers)
           next == [l EXCEPT !.state = "peer_map"]
           p == [l.peers[pc] EXCEPT !.routes = Append(@, Cidr(ev.value))]
           q == [l EXCEPT !.peers = [l.peers EXCEPT ![pc] = p]]
<1>1. l.peers \in Seq(Peer) /\ l.peers # <<>>
  BY DEF Safe, Loader, Bounded
<1>2. pc \in DOMAIN l.peers /\ l.peers[pc] \in Peer /\ Len(l.peers[pc].routes) <= MaxRoutes
  BY <1>1 DEF Safe, Bounded
<1>3. next \in Loader /\ next.peers = l.peers
  BY DEF Safe, Loader, States
<1>4. Safe(next)
  BY <1>1, <1>3, SamePeers
<1>5. ASSUME Len(l.peers[pc].routes) < MaxRoutes PROVE Safe(q)
  <2> DEFINE C == {Cidr(v) : v \in Scalars}
  <2>1. Cidr(ev.value) \in C
    BY DEF Events
  <2>2. l.peers[pc].routes \in Seq(C)
    BY <1>2 DEF Peer
  <2> HIDE DEF C
  <2>3. /\ Append(l.peers[pc].routes, Cidr(ev.value)) \in Seq(C)
        /\ Len(Append(l.peers[pc].routes, Cidr(ev.value))) = Len(l.peers[pc].routes) + 1
        /\ Len(l.peers[pc].routes) \in Nat
    BY <2>1, <2>2
  <2>4. p \in Peer /\ Len(p.routes) <= MaxRoutes
    <3>1. p.routes = Append(l.peers[pc].routes, Cidr(ev.value))
      BY <1>2 DEF Peer
    <3>2. p \in Peer
      BY <1>2, <2>3 DEF Peer, C
    <3> QED
      BY <1>5, <2>3, <3>1, <3>2, BoundsAssumption
  <2> HIDE DEF p
  <2>5. [l.peers EXCEPT ![pc] = p] \in Seq(Peer)
    BY <1>1, <2>4
  <2>6. q \in Loader /\ q.peers = [l.peers EXCEPT ![pc] = p]
    BY <2>5 DEF Safe, Loader
  <2> QED
    BY <1>2, <2>4, <2>6, OnePeer
<1>6. [l EXCEPT !.peers[pc].routes = Append(@, Cidr(ev.value))] = q
  BY <1>1, <1>2 DEF Safe, Loader
<1>7. Len(l.peers[pc].routes) \in Nat
  BY <1>2 DEF Peer
<1>8. \/ S_ALLOWED_IPS_SEQ(l, ev).l \in {l, next}
      \/ Len(l.peers[pc].routes) < MaxRoutes /\ S_ALLOWED_IPS_SEQ(l, ev).l = q
  BY <1>6, <1>7, BoundsAssumption DEF S_ALLOWED_IPS_SEQ, Keep, Goto, Refuse
<1> QED
  BY <1>4, <1>5, <1>8

\* Every event is handled within the arrays.
LEMMA HandleSafe ==
    ASSUME NEW l, Safe(l), NEW ev \in Events PROVE Safe(Handle(l, ev).l)
<1>1. l.state \in States
  BY DEF Safe, Loader
<1> QED
  BY <1>1, RootSafe, RootValSafe, PeersSeqSafe, PeerMapSafe, PeerValSafe, AllowedIpsSafe
  DEF Handle, States

-----------------------------------------------------------------------------
LEMMA FreshSafe == Safe(Fresh)
<1>1. Default \in Opt
  <2>1. DefaultNum \in [IntOptions -> {DefaultNum[k] : k \in IntOptions}]
    BY DefaultAssumption
  <2> QED
    BY <2>1 DEF Default, Opt
<1>2. Fresh \in Loader
  BY <1>1 DEF Fresh, Loader, States, Scalars
<1>3. Fresh.peers = <<>> /\ Fresh.state = "root"
  BY DEF Fresh
<1>4. Len(<<>>) = 0 /\ DOMAIN <<>> = {}
  OBVIOUS
<1>5. Bounded(Fresh)
  BY <1>3, <1>4, BoundsAssumption DEF Bounded
<1> QED
  BY <1>2, <1>5 DEF Safe

LEMMA InitInv == Init => IInv
BY FreshSafe DEF Init, IInv, TypeOK, Stage, Safe

LEMMA TurnInv ==
    ASSUME IInv, step = "load", NEW ev \in Events, Turn(ev) PROVE IInv'
<1>1. Safe(loader')
  BY HandleSafe DEF IInv, TypeOK, Safe, Turn
<1>2. step' \in {"exit", "check", "load"} /\ held' = {} /\ precomp' = precomp
  BY DEF Turn, IInv, Stage
<1> QED
  BY <1>1, <1>2 DEF IInv, TypeOK, Stage, Safe

LEMMA ExitInv == ASSUME Exit PROVE IInv'
BY FreshSafe DEF Exit, IInv, TypeOK, Stage, Safe

LEMMA AcquireInv ==
    ASSUME IInv, NEW from, NEW thing, NEW to, Acquire(from, thing, to),
           <<from, thing, to>> \in {<<"key", "static_key", "tun">>, <<"tun", "tun_fd", "socket">>,
                                    <<"socket", "sock_fd", "bind">>}
    PROVE  IInv'
<1>1. loader' = loader /\ precomp' = precomp /\ step = from /\ step' = to /\ held' = held \cup {thing}
  BY DEF Acquire
<1> QED
  BY <1>1 DEF IInv, TypeOK, Stage

LEMMA NextInv == IInv /\ [Next]_vars => IInv'
<1> SUFFICES ASSUME IInv, [Next]_vars PROVE IInv'
  OBVIOUS
<1>1. CASE Key
  <2>1. PICK k \in Keys : Turn(Event("scalar", k, FALSE))
    BY <1>1 DEF Key
  <2> QED
    BY <1>1, <2>1, TurnInv DEF Key, Event, Events, Scalars
<1>2. CASE Scalar
  <2>1. PICK v \in Values, r \in BOOLEAN : Turn(Event("scalar", v, r))
    BY <1>2 DEF Scalar
  <2> QED
    BY <1>2, <2>1, TurnInv DEF Scalar, Event, Events, Scalars
<1>3. CASE Start
  <2>1. PICK type \in {"map_start", "seq_start"} : Turn(Event(type, "", FALSE))
    BY <1>3 DEF Start, Starts
  <2> QED
    BY <1>3, <2>1, TurnInv DEF Start, Event, Events, Scalars
<1>4. CASE End
  <2>1. PICK type \in {"map_end", "seq_end"} : Turn(Event(type, "", FALSE))
    BY <1>4 DEF End, Ends
  <2> QED
    BY <1>4, <2>1, TurnInv DEF End, Event, Events, Scalars
<1>5. CASE StreamEnd
  BY <1>5, TurnInv DEF StreamEnd, Event, Events, Scalars
<1>6. CASE Exit
  BY <1>6, ExitInv
<1>7. CASE Check
  BY <1>7, ExitInv DEF Check, IInv, TypeOK, Stage
<1>8. CASE load_static_key \/ open_tunnel \/ OpenSocket
  BY <1>8, AcquireInv, ExitInv DEF load_static_key, open_tunnel, OpenSocket
<1>9. CASE Bind \/ event_loop
  BY <1>9, ExitInv DEF Bind, event_loop, IInv, TypeOK, Stage
<1>10. CASE refresh_precomp_eph
  BY <1>10 DEF refresh_precomp_eph, IInv, TypeOK, Stage
<1>11. CASE UNCHANGED vars
  BY <1>11 DEF vars, IInv, TypeOK, Stage
<1> QED
  BY <1>1, <1>2, <1>3, <1>4, <1>5, <1>6, <1>7, <1>8, <1>9, <1>10, <1>11 DEF Next, LoadFails, LeaveLoop, Ended

\* Whatever events the parser delivers, load_config never writes past peer_configs or the
\* routes of a peer, and never to a peer that does not exist.
THEOREM LoaderInBounds == Spec => []TypeOK
BY InitInv, NextInv, PTL DEF Spec, IInv

\* main and start_peer open nothing for a configuration that fails the checks, and start
\* the event loop only with everything it needs.
THEOREM LoopReady == Spec => []LoopStartsReady
<1>1. IInv => LoopStartsReady
  <2> SUFFICES ASSUME IInv PROVE LoopStartsReady
    OBVIOUS
  <2>1. held # {} => Checks(loader.opt, loader.peers)
    BY DEF IInv, TypeOK, Stage
  <2>2. step = "loop" => held = {"static_key", "tun_fd", "sock_fd"}
    BY DEF IInv, Stage
  <2> DEFINE o == loader.opt
  <2>3. ASSUME held # {}
        PROVE  /\ o.text["interface"] # "" /\ loader.peers # <<>>
               /\ \A k \in IntOptions \ {"session_expiry"} : o.num[k] > 0
               /\ o.num["session_expiry"] > o.num["rekey_after"]
    <3>1. Checks(o, loader.peers)
      BY <2>1, <2>3
    <3> HIDE DEF o
    <3> QED
      BY <3>1 DEF Checks
  <2> QED
    BY <2>2, <2>3 DEF LoopStartsReady
<1> QED
  BY <1>1, InitInv, NextInv, PTL DEF Spec
=============================================================================
