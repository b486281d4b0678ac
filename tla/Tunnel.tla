------------------------------- MODULE Tunnel -------------------------------
(***************************************************************************)
(* Peers of src/peer.c and the network between them.  Each node is one      *)
(* process running event_loop; nodes share nothing but the datagrams in     *)
(* flight and the time.                                                     *)
(*                                                                         *)
(* An iteration of event_loop is, every CheckInterval seconds, the periodic *)
(* check (BeginCheck, Connect for each outbound peer that is due, Expire,   *)
(* Keepalive for each quiet session, EndCheck), and then a packet from the  *)
(* socket or from the TUN device.  No packet is read during a check; time   *)
(* may pass during one only while getaddrinfo blocks, and the check goes on *)
(* with the time it started at (loop[n].now).                               *)
(***************************************************************************)
EXTENDS Sessions, Sequences, FiniteSets

CONSTANTS
    Node,               \* the peers; a node stands for its static key pair
    Addr,               \* UDP addresses (IP and port)
    Home,               \* Home[n]: the address of n at first
    Psk,                \* Psk[n]: the pre-shared key of n, or Nil
    Config,             \* Config[n]: the sequence peer_configs of n
    Sources,            \* Sources[n]: source addresses of what n reads from TUN
    Destinations,       \* destination addresses of what is read from TUN
    CheckInterval,      \* the literal 10 of event_loop
    RekeyAfter,         \* cfg_rekey_after
    ReconnectInterval,  \* cfg_reconnect_interval
    SessionExpiry,      \* cfg_session_expiry
    HandshakeTimeout,   \* cfg_handshake_timeout
    HandshakeCooldown,  \* cfg_handshake_cooldown
    KeepaliveInterval,  \* keepalive_interval
    Epoch,              \* the time at first: long after 0, as time(NULL) is
    MaxTime,            \* bound: the clock stops here
    MaxLag,             \* bound: how late a periodic check may be
    MaxReads,           \* bound: packets read from TUN devices
    Faults,             \* the kinds of fault that may happen
    MaxFaults           \* bound: how many of them may happen

\* The options a config file may set are checked by main.
ASSUME OptionsAssumption ==
    /\ RekeyAfter \in Nat \ {0}
    /\ ReconnectInterval \in Nat \ {0}
    /\ SessionExpiry \in Nat /\ SessionExpiry > RekeyAfter
    /\ HandshakeTimeout \in Nat \ {0}
    /\ HandshakeCooldown \in Nat \ {0}
    /\ KeepaliveInterval \in Nat \ {0}

ASSUME ClockAssumption ==
    /\ CheckInterval \in Nat \ {0}
    /\ Epoch \in Nat \ {0}
    /\ {MaxTime, MaxLag, MaxReads, MaxFaults} \subseteq Nat

ASSUME NodeAssumption ==
    /\ Nil \notin Node
    /\ Nil \notin Addr
    /\ Home \in [Node -> Addr]
    /\ Sources \in [Node -> SUBSET Ip]
    /\ Destinations \subseteq Ip

\* load_config: a peer is a key, the routes and, if it has an endpoint, the node
\* whose host name that is.  It refuses more than MAX_PEERS of them.
ASSUME ConfigAssumption ==
    /\ Config \in [Node -> Seq([pub : Node, host : Node \cup {Nil}, routes : SUBSET Prefix])]
    /\ \A n \in Node : Len(Config[n]) <= MaxPeers

ASSUME FaultsAssumption ==
    Faults \subseteq {"loss", "duplicate", "reorder", "delay", "send", "keygen",
                      "dns", "block", "restart", "roam"}

VARIABLES
    clock,          \* time(NULL), the same at every node
    net,            \* net[<<a, b>>]: datagrams on their way from a to b
    faults,         \* how many faults have happened
    reads,          \* how many packets have been read from TUN devices
    where,          \* where[n]: the address n is reached at
    ephs,           \* ephs[n]: how many ephemeral key pairs n has generated
    loop,           \* loop[n]: where n is in event_loop
    sessions,       \* sessions[n]
    session_slots,  \* session_slots[n]
    pending_hs,     \* pending_hs[n]
    last_attempt,   \* last_attempt[n][i]: that of peer_configs[i]
    endpoint,       \* endpoint[n][i]: that of peer_configs[i]
    precomp_eph,    \* precomp_eph[n]: the pre-generated ephemeral key pair
    installs,       \* history: installs[n], the calls of session_init
    accepts,        \* history: accepts[n], the data packets accepted
    written         \* history: written[n], the payloads written to the TUN device

peer == <<sessions, session_slots, pending_hs, last_attempt, endpoint, precomp_eph>>
hist == <<installs, accepts, written>>
env  == <<clock, faults, reads, where>>
vars == <<env, net, ephs, loop, peer, hist>>
-----------------------------------------------------------------------------
CfgIdx(n)   == 1 .. Len(Config[n])
Known(n)    == {Config[n][c].pub : c \in CfgIdx(n)}
Ephemeral   == Node \X Nat
PublicKey   == Node \cup Ephemeral
Secret      == SUBSET PublicKey
SessionKey  == Secret \X Secret \X Secret \X Ephemeral \X Ephemeral \X Node \X Node
\* What n reads from its TUN device; from is n, for the properties only.
Payload     == [src : Ip, dst : Ip, from : Node]
Packet ==
    [kind : {"handshake"}, eph : Ephemeral, sealed : [secret : Secret, pub : Node],
     hmac : {Psk[n] : n \in Node}]
    \cup
    [kind : {"data"}, key : SessionKey, seq : Nat, payload : Payload \cup {Nil}]
Session ==
    [active : BOOLEAN, addr : Addr \cup {Nil}, static_pub : Node \cup {Nil},
     session_key : SessionKey \cup {Nil}, prev_session_key : SessionKey \cup {Nil},
     prev_key_active : BOOLEAN, prev_key_expires : Nat, last_seen : Nat,
     last_sent : Nat, last_handshake : Nat, rekeying : BOOLEAN, send_seq : Nat,
     recv_seq : SUBSET Nat, routes : SUBSET Prefix]
PendingHs ==
    [active : BOOLEAN, cfg_idx : Nat, sent_at : Nat, eph : Ephemeral \cup {Nil},
     server_addr : Addr \cup {Nil}]

Phase   == {"wait", "connect", "keepalive"}
Installation ==
    [pub : Node \cup {Nil}, key : SessionKey \cup {Nil},
     role : {"client", "server", "boot"}, at : Nat]

\* An active session of n is in a slot that counts, and has an address, a key of
\* the config file and a session key.
TableOK(n, tab, slots) ==
    /\ tab \in [Slot -> Session]
    /\ slots \in 0 .. MaxPeers
    /\ \A i \in Slot : tab[i].active => /\ i <= slots
                                        /\ tab[i].addr \in Addr
                                        /\ tab[i].static_pub \in Known(n)
                                        /\ tab[i].session_key \in SessionKey

PendingOK(n, pend) ==
    /\ pend \in [Slot -> PendingHs]
    /\ \A j \in Slot : pend[j].active => pend[j].cfg_idx \in CfgIdx(n) /\ pend[j].eph \in Ephemeral

TypeOK ==
    /\ {clock, faults, reads} \subseteq Nat
    /\ net \in [Addr \X Addr -> Seq(Packet)]
    /\ where \in [Node -> Addr]
    /\ ephs \in [Node -> Nat]
    /\ loop \in [Node -> [phase : Phase, i : Nat, now : Nat, last_rekey_check : Nat]]
    /\ sessions \in [Node -> [Slot -> Session]]
    /\ session_slots \in [Node -> 0 .. MaxPeers]
    /\ pending_hs \in [Node -> [Slot -> PendingHs]]
    /\ {DOMAIN last_attempt, DOMAIN endpoint} = {Node}
    /\ precomp_eph \in [Node -> Ephemeral \cup {Nil}]
    /\ \A n \in Node :
          /\ TableOK(n, sessions[n], session_slots[n])
          /\ PendingOK(n, pending_hs[n])
          /\ last_attempt[n] \in [CfgIdx(n) -> Nat]
          /\ endpoint[n] \in [CfgIdx(n) -> Addr \cup {Nil}]
    /\ installs \in [Node -> Seq(Installation)]
    /\ accepts \in [Node -> Seq([key : SessionKey, seq : Nat, prev : BOOLEAN])]
    /\ written \in [Node -> SUBSET Payload]
-----------------------------------------------------------------------------
NoPending ==
    [active |-> FALSE, cfg_idx |-> 0, sent_at |-> 0, eph |-> Nil, server_addr |-> Nil]

\* At the top of event_loop: a last_rekey_check of 0 makes the first check due.
Idle(last) == [phase |-> "wait", i |-> 0, now |-> 0, last_rekey_check |-> last]

\* What resolve_endpoint finds for the host of peer_configs[c]: the address that
\* host has now.
Resolved(n, c) == IF Config[n][c].host = Nil THEN Nil ELSE where[Config[n][c].host]

Init ==
    /\ clock = Epoch
    /\ net = [l \in Addr \X Addr |-> <<>>]
    /\ faults = 0
    /\ reads = 0
    /\ where = Home
    /\ ephs = [n \in Node |-> 1]
    /\ loop = [n \in Node |-> Idle(0)]
    /\ sessions = [n \in Node |-> [i \in Slot |-> NoSession]]
    /\ session_slots = [n \in Node |-> 0]
    /\ pending_hs = [n \in Node |-> [j \in Slot |-> NoPending]]
    /\ last_attempt = [n \in Node |-> [c \in CfgIdx(n) |-> 0]]
    /\ endpoint = [n \in Node |-> [c \in CfgIdx(n) |-> Resolved(n, c)]]
    /\ precomp_eph = [n \in Node |-> <<n, 1>>]
    /\ installs = [n \in Node |-> <<>>]
    /\ accepts = [n \in Node |-> <<>>]
    /\ written = [n \in Node |-> {}]

\* The step meets exactly the faults in f.
Charge(f) ==
    /\ f \subseteq Faults
    /\ faults + Cardinality(f) <= MaxFaults
    /\ faults' = faults + Cardinality(f)

\* rekeying = b in the session find_session_by_pub returns, if there is one.
SetRekeying(tab, slots, pub, b) ==
    [i \in Slot |-> IF IsFirst(i, ByPub(tab, slots, pub))
                      THEN [tab[i] EXCEPT !.rekeying = b]
                      ELSE tab[i]]

\* alloc_session and session_init.  alloc_session never returns NULL: see
\* TableNeverFull.
Install(n, pub, addr, key, routes, role) ==
    \E i \in Slot :
        /\ AllocSession(sessions[n], session_slots[n], pub, addr, i)
        /\ sessions' = [sessions EXCEPT ![n][i] = SessionInit(@, addr, pub, key, routes, clock)]
        /\ session_slots' = [session_slots EXCEPT ![n] = SlotsWith(@, i)]
        /\ installs' = [installs EXCEPT ![n] =
              Append(@, [pub |-> pub, key |-> key, role |-> role, at |-> clock])]

\* forward_to_peer to the session in slot i of the table tab, over the network
\* nt.  The number is used up even if the packet cannot be encrypted or sent.
Forward(n, tab, nt, i, payload) ==
    LET s    == tab[i]
        pkt  == [kind |-> "data", key |-> s.session_key, seq |-> s.send_seq,
                 payload |-> payload]
    IN  \/ /\ Charge({})
           /\ sessions' = [sessions EXCEPT ![n] =
                 [tab EXCEPT ![i] = [s EXCEPT !.send_seq = @ + 1, !.last_sent = clock]]]
           /\ net' = [nt EXCEPT ![<<where[n], s.addr>>] = Append(@, pkt)]
        \/ /\ Charge({"send"})
           /\ sessions' = [sessions EXCEPT ![n] =
                 [tab EXCEPT ![i] = [s EXCEPT !.send_seq = @ + 1]]]
           /\ net' = nt
-----------------------------------------------------------------------------
(***************************************************************************)
(* The periodic check of event_loop.                                       *)
(***************************************************************************)

BeginCheck(n) ==
    /\ loop[n].phase = "wait"
    /\ clock - loop[n].last_rekey_check >= CheckInterval
    /\ loop' = [loop EXCEPT ![n] =
          [phase |-> "connect", i |-> 1, now |-> clock, last_rekey_check |-> clock]]
    /\ UNCHANGED <<env, net, ephs, peer, hist>>

\* Mutant: a peer that did not answer is not tried again.
NeedsHandshakeOnce(n, c) ==
    /\ Config[n][c].host # Nil
    /\ last_attempt[n][c] = 0

\* needs and ready for peer_configs[c].  The session is rekeyed when four fifths
\* of RekeyAfter have passed.
NeedsHandshake(n, c) ==
    LET S == ByPub(sessions[n], session_slots[n], Config[n][c].pub)
    IN  /\ Config[n][c].host # Nil
        /\ \A i \in S : IsFirst(i, S) =>
              /\ loop[n].now >= sessions[n][i].last_handshake + (RekeyAfter * 4) \div 5
              /\ ~sessions[n][i].rekeying
        /\ loop[n].now - last_attempt[n][c] >= ReconnectInterval

\* The peers the loop over peer_configs has still to connect.
ToConnect(n) == {c \in CfgIdx(n) : c >= loop[n].i /\ NeedsHandshake(n, c)}

FreePending(n) == {j \in Slot : ~pending_hs[n][j].active}

\* initiate_outbound_handshake to addr when there is a free slot and the packet
\* can be sent.
InitiateOutboundHandshake(n, c, addr) ==
    LET eph == <<n, ephs[n] + 1>>
    IN  /\ \E j \in Slot :
              /\ IsFirst(j, FreePending(n))
              /\ pending_hs' = [pending_hs EXCEPT ![n][j] =
                    [active |-> TRUE, cfg_idx |-> c, sent_at |-> clock,
                     eph |-> eph, server_addr |-> addr]]
        /\ ephs' = [ephs EXCEPT ![n] = @ + 1]
        /\ net' = [net EXCEPT ![<<where[n], addr>>] =
              Append(@, ClientPacket(Psk[n], eph, n, Config[n][c].pub))]

\* resolve_endpoint and initiate_outbound_handshake for the next peer that is due.
\* A name that does not resolve leaves the old endpoint in use.
Connect(n) ==
    /\ loop[n].phase = "connect"
    /\ \E c \in CfgIdx(n), f \in SUBSET {"dns", "send"} :
          LET addr    == IF "dns" \in f THEN endpoint[n][c] ELSE Resolved(n, c)
              started == "send" \notin f /\ FreePending(n) # {}
          IN  /\ IsFirst(c, ToConnect(n))
              /\ Charge(f)
              /\ endpoint' = [endpoint EXCEPT ![n][c] = addr]
              /\ last_attempt' = [last_attempt EXCEPT ![n][c] = clock]
              /\ loop' = [loop EXCEPT ![n].i = c + 1]
              /\ sessions' = [sessions EXCEPT ![n] =
                    SetRekeying(@, session_slots[n], Config[n][c].pub, started)]
              /\ \/ started /\ InitiateOutboundHandshake(n, c, addr)
                 \/ ~started /\ UNCHANGED <<pending_hs, ephs, net>>
    /\ UNCHANGED <<clock, reads, where, session_slots, precomp_eph, hist>>

TimedOut(n) ==
    {j \in Slot : /\ pending_hs[n][j].active
                  /\ loop[n].now - pending_hs[n][j].sent_at >= HandshakeTimeout}

\* When a session was last heard of, its handshake if never since.
LastHeard(s) == IF s.last_seen > 0 THEN s.last_seen ELSE s.last_handshake

\* Mutant: silence is counted from what this side sent.
SilentSinceSent(s, now) == s.active /\ now - s.last_sent > SessionExpiry

Silent(s, now) == s.active /\ now - LastHeard(s) > SessionExpiry

\* The loops that expire pending handshakes and sessions.
Expire(n) ==
    LET tab   == sessions[n]
        slots == session_slots[n]
        gaveUp(i) == \E j \in TimedOut(n) :
                        IsFirst(i, ByPub(tab, slots, Config[n][pending_hs[n][j].cfg_idx].pub))
    IN  /\ loop[n].phase = "connect"
        /\ ToConnect(n) = {}
        /\ pending_hs' = [pending_hs EXCEPT ![n] =
              [j \in Slot |-> IF j \in TimedOut(n) THEN NoPending ELSE @[j]]]
        /\ sessions' = [sessions EXCEPT ![n] =
              [i \in Slot |-> [tab[i] EXCEPT
                  !.active   = @ /\ ~Silent(tab[i], loop[n].now),
                  !.rekeying = @ /\ ~gaveUp(i)]]]
        /\ loop' = [loop EXCEPT ![n].phase = "keepalive", ![n].i = 1]
        /\ UNCHANGED <<env, net, ephs, session_slots, last_attempt, endpoint,
                       precomp_eph, hist>>

\* The sessions the keepalive loop has still to send to.
Quiet(n) ==
    {i \in loop[n].i .. session_slots[n] :
        /\ sessions[n][i].active
        /\ loop[n].now - sessions[n][i].last_sent >= KeepaliveInterval}

Keepalive(n) ==
    /\ loop[n].phase = "keepalive"
    /\ \E i \in Slot :
          /\ IsFirst(i, Quiet(n))
          /\ Forward(n, sessions[n], net, i, Nil)
          /\ loop' = [loop EXCEPT ![n].i = i + 1]
    /\ UNCHANGED <<clock, reads, where, ephs, session_slots, pending_hs,
                   last_attempt, endpoint, precomp_eph, hist>>

EndCheck(n) ==
    /\ loop[n].phase = "keepalive"
    /\ Quiet(n) = {}
    /\ loop' = [loop EXCEPT ![n] = Idle(@.last_rekey_check)]
    /\ UNCHANGED <<env, net, ephs, peer, hist>>
-----------------------------------------------------------------------------
(***************************************************************************)
(* epoll_wait, and a packet from the TUN device.                           *)
(***************************************************************************)

\* In epoll_wait, which is first called after the first check.
Waiting(n) == loop[n].phase = "wait" /\ loop[n].last_rekey_check > 0

\* A packet without a route is dropped, which changes nothing.
TunRead(n) ==
    /\ Waiting(n)
    /\ reads < MaxReads
    /\ reads' = reads + 1
    /\ \E src \in Sources[n], dst \in Destinations, i \in Slot :
          /\ RouteLookup(sessions[n], session_slots[n], dst, i)
          /\ Forward(n, sessions[n], net, i, [src |-> src, dst |-> dst, from |-> n])
    /\ UNCHANGED <<clock, where, ephs, loop, session_slots, pending_hs,
                   last_attempt, endpoint, precomp_eph, hist>>
-----------------------------------------------------------------------------
(***************************************************************************)
(* A packet from the socket: handlers for the first datagram on its way     *)
(* from address a to n.                                                    *)
(***************************************************************************)

Inbox(n, a) == net[<<a, where[n]>>]
Pkt(n, a)   == Head(Inbox(n, a))
Rest(n, a)  == [net EXCEPT ![<<a, where[n]>>] = Tail(@)]

Incoming(n, a) == Waiting(n) /\ Inbox(n, a) # <<>>

\* The pending handshakes with address a.
Awaiting(n, a) == {j \in Slot : pending_hs[n][j].active /\ pending_hs[n][j].server_addr = a}

\* Any handshake packet from that address, an initiation of the other side
\* included, is taken for the response to the first of them.
IsResponse(n, a) ==
    /\ Incoming(n, a)
    /\ IsHandshake(Pkt(n, a), Psk[n])
    /\ Awaiting(n, a) # {}

RecvResponse(n, a) ==
    /\ IsResponse(n, a)
    /\ \E j \in Slot :
          LET cfg == Config[n][pending_hs[n][j].cfg_idx]
              eph == pending_hs[n][j].eph
          IN  /\ IsFirst(j, Awaiting(n, a))
              /\ ClientAccepts(Pkt(n, a), Psk[n], eph, cfg.pub)
              /\ pending_hs' = [pending_hs EXCEPT ![n][j] = NoPending]
              /\ Install(n, cfg.pub, a, ClientKey(Pkt(n, a), eph, n, cfg.pub),
                         cfg.routes, "client")
    /\ net' = Rest(n, a)
    /\ UNCHANGED <<env, ephs, loop, last_attempt, endpoint, precomp_eph, accepts, written>>

\* Mutant: a failed response leaves the session marked rekeying.
BadResponseKeepsMark(n, a) ==
    /\ IsResponse(n, a)
    /\ \E j \in Slot :
          LET pub == Config[n][pending_hs[n][j].cfg_idx].pub
          IN  /\ IsFirst(j, Awaiting(n, a))
              /\ ~ClientAccepts(Pkt(n, a), Psk[n], pending_hs[n][j].eph, pub)
              /\ pending_hs' = [pending_hs EXCEPT ![n][j] = NoPending]
    /\ net' = Rest(n, a)
    /\ UNCHANGED <<env, ephs, loop, sessions, session_slots, last_attempt, endpoint,
                   precomp_eph, hist>>

\* handshake_client_recv failed: the pending handshake is over all the same.
RecvBadResponse(n, a) ==
    /\ IsResponse(n, a)
    /\ \E j \in Slot :
          LET pub == Config[n][pending_hs[n][j].cfg_idx].pub
          IN  /\ IsFirst(j, Awaiting(n, a))
              /\ ~ClientAccepts(Pkt(n, a), Psk[n], pending_hs[n][j].eph, pub)
              /\ pending_hs' = [pending_hs EXCEPT ![n][j] = NoPending]
              /\ sessions' = [sessions EXCEPT ![n] =
                    SetRekeying(@, session_slots[n], pub, FALSE)]
    /\ net' = Rest(n, a)
    /\ UNCHANGED <<env, ephs, loop, session_slots, last_attempt, endpoint,
                   precomp_eph, hist>>

\* An initiation.  The tie-breaking loop finds no pending handshake with this
\* address: had there been one, the packet would have been its response.
IsInitiation(n, a) ==
    /\ Incoming(n, a)
    /\ IsHandshake(Pkt(n, a), Psk[n])
    /\ Awaiting(n, a) = {}

\* Mutants: no cooldown at all, or none by address.
NeverInCooldown(n, S)  == FALSE
NoAddrCooldown(n, a)   == FALSE

\* The first session in S was keyed less than HandshakeCooldown ago.
InCooldown(n, S) ==
    \E i \in S : IsFirst(i, S) /\ clock - sessions[n][i].last_handshake < HandshakeCooldown

AddrInCooldown(n, a)  == InCooldown(n, ByAddr(sessions[n], session_slots[n], a))
PubInCooldown(n, pub) == InCooldown(n, ByPub(sessions[n], session_slots[n], pub))

\* handshake_server_respond gets as far as sending its response.
Answers(n, a) ==
    /\ ~AddrInCooldown(n, a)
    /\ ServerAccepts(Pkt(n, a), Psk[n], n)
    /\ precomp_eph[n] # Nil

\* No response: cooldown, a packet that does not verify, or a failed sendto.
IgnoreInitiation(n, a) ==
    /\ IsInitiation(n, a)
    /\ \/ ~Answers(n, a) /\ Charge({})
       \/ Answers(n, a) /\ Charge({"send"})
    /\ net' = Rest(n, a)
    /\ UNCHANGED <<clock, reads, where, ephs, loop, peer, hist>>

\* Mutant: the key pair is not refreshed.
AnswerSameKey(n, a) ==
    LET resp == ServerPacket(Psk[n], Pkt(n, a), precomp_eph[n], n)
    IN  /\ net' = [Rest(n, a) EXCEPT ![<<where[n], a>>] = Append(@, resp)]
        /\ Charge({})
        /\ UNCHANGED <<ephs, precomp_eph>>

\* The response is sent, and refresh_precomp_eph replaces the key pair used for
\* it; when no new one can be made the old one stays in use.
Answer(n, a) ==
    LET resp == ServerPacket(Psk[n], Pkt(n, a), precomp_eph[n], n)
    IN  /\ net' = [Rest(n, a) EXCEPT ![<<where[n], a>>] = Append(@, resp)]
        /\ \/ /\ Charge({})
              /\ ephs' = [ephs EXCEPT ![n] = @ + 1]
              /\ precomp_eph' = [precomp_eph EXCEPT ![n] = <<n, ephs[n] + 1>>]
           \/ /\ Charge({"keygen"})
              /\ UNCHANGED <<ephs, precomp_eph>>

\* Answered, and only then refused: an unknown key, or one in cooldown.
RefuseInitiation(n, a) ==
    LET pub == Pkt(n, a).sealed.pub
    IN  /\ IsInitiation(n, a)
        /\ Answers(n, a)
        /\ Answer(n, a)
        /\ pub \notin Known(n) \/ PubInCooldown(n, pub)
        /\ UNCHANGED <<clock, reads, where, loop, sessions, session_slots, pending_hs,
                       last_attempt, endpoint, hist>>

AcceptInitiation(n, a) ==
    LET pub == Pkt(n, a).sealed.pub
    IN  /\ IsInitiation(n, a)
        /\ Answers(n, a)
        /\ Answer(n, a)
        /\ ~PubInCooldown(n, pub)
        /\ \E c \in CfgIdx(n) :
              /\ IsFirst(c, {d \in CfgIdx(n) : Config[n][d].pub = pub})
              /\ Install(n, pub, a, ServerKey(Pkt(n, a), precomp_eph[n], n),
                         Config[n][c].routes, "server")
        /\ UNCHANGED <<clock, reads, where, loop, pending_hs, last_attempt, endpoint,
                       accepts, written>>

\* Whatever is not a handshake of the right size is taken for a data packet.
IsData(n, a) == Incoming(n, a) /\ ~IsHandshake(Pkt(n, a), Psk[n])

\* i is the slot find_session_by_addr returns for a data packet from a.
DataFor(n, a, i) ==
    /\ IsData(n, a)
    /\ IsFirst(i, ByAddr(sessions[n], session_slots[n], a))

DropUnknown(n, a) ==
    /\ IsData(n, a)
    /\ ByAddr(sessions[n], session_slots[n], a) = {}
    /\ net' = Rest(n, a)
    /\ UNCHANGED <<env, ephs, loop, peer, hist>>

\* Dropped, though last_seen is already set: neither key opens it, or the current
\* key does and the number is not new.
DropData(n, a) ==
    /\ \E i \in Slot :
          LET s == sessions[n][i]
          IN  /\ DataFor(n, a, i)
              /\ \/ /\ ~UnderCurrentKey(s, Pkt(n, a))
                    /\ ~UnderPrevKey(s, Pkt(n, a), clock)
                    /\ sessions' = [sessions EXCEPT ![n][i].last_seen = clock]
                 \/ /\ UnderCurrentKey(s, Pkt(n, a))
                    /\ ~IsFresh(s, Pkt(n, a).seq)
                    /\ sessions' = [sessions EXCEPT ![n][i].last_seen = clock,
                                                    ![n][i].prev_key_active = FALSE]
    /\ net' = Rest(n, a)
    /\ UNCHANGED <<env, ephs, loop, session_slots, pending_hs, last_attempt, endpoint,
                   precomp_eph, hist>>

\* The session after it accepted a packet: the first one under the current key
\* retires the previous one, and a packet under the previous key is not checked
\* for replay.
Accepted(s, pkt, prev) ==
    IF prev THEN [s EXCEPT !.last_seen = clock]
            ELSE [s EXCEPT !.last_seen = clock,
                           !.prev_key_active = FALSE,
                           !.recv_seq = @ \cup {pkt.seq}]

\* A payload, not a keepalive, whose source address is allowed.
Passes(s, payload) == payload # Nil /\ CheckAllowedSrc(s.routes, payload.src)

\* k is the slot the payload received in slot i is relayed to.
RelaysTo(tab, slots, i, payload, k) ==
    /\ Passes(tab[i], payload)
    /\ RouteLookup(tab, slots, payload.dst, k)
    /\ k # i

\* A keepalive ends here, so does a payload with a source address that is not
\* allowed; any other is relayed or written to the TUN device.
AcceptData(n, a) ==
    /\ \E i \in Slot, prev \in BOOLEAN :
          LET s     == sessions[n][i]
              pkt   == Pkt(n, a)
              tab   == [sessions[n] EXCEPT ![i] = Accepted(s, pkt, prev)]
              slots == session_slots[n]
          IN  /\ DataFor(n, a, i)
              /\ \/ ~prev /\ UnderCurrentKey(s, pkt) /\ IsFresh(s, pkt.seq)
                 \/ prev /\ UnderPrevKey(s, pkt, clock)
              /\ accepts' = [accepts EXCEPT ![n] =
                    Append(@, [key |-> pkt.key, seq |-> pkt.seq, prev |-> prev])]
              /\ \/ /\ \E k \in Slot : /\ RelaysTo(tab, slots, i, pkt.payload, k)
                                       /\ Forward(n, tab, Rest(n, a), k, pkt.payload)
                    /\ UNCHANGED written
                 \/ /\ \A k \in Slot : ~RelaysTo(tab, slots, i, pkt.payload, k)
                    /\ Charge({})
                    /\ sessions' = [sessions EXCEPT ![n] = tab]
                    /\ net' = Rest(n, a)
                    /\ written' = [written EXCEPT ![n] =
                          @ \cup {p \in {pkt.payload} : Passes(s, p)}]
    /\ UNCHANGED <<clock, reads, where, ephs, loop, session_slots, pending_hs,
                   last_attempt, endpoint, precomp_eph, installs>>
-----------------------------------------------------------------------------
(***************************************************************************)
(* Time, the network, and what happens to a process.                        *)
(***************************************************************************)

\* n need not act before the next tick: its check is not late, and it is not in
\* the middle of one unless a name is being resolved.
MayWait(n) ==
    /\ clock - loop[n].last_rekey_check < CheckInterval + MaxLag
    /\ \/ loop[n].phase = "wait"
       \/ loop[n].phase = "connect" /\ ToConnect(n) # {} /\ "block" \in Faults

Tick ==
    /\ clock < MaxTime
    /\ \A n \in Node : MayWait(n)
    /\ "delay" \in Faults \/ \A n \in Node, a \in Addr : Inbox(n, a) = <<>>
    /\ clock' = clock + 1
    /\ UNCHANGED <<faults, reads, where, net, ephs, loop, peer, hist>>

\* A datagram is lost, arrives a second time, or is overtaken.
Disturb(l) ==
    /\ net[l] # <<>>
    /\ \/ Charge({"loss"}) /\ net' = [net EXCEPT ![l] = Tail(@)]
       \/ Charge({"duplicate"}) /\ net' = [net EXCEPT ![l] = Append(@, Head(@))]
       \/ Charge({"reorder"}) /\ net' = [net EXCEPT ![l] = Append(Tail(@), Head(@))]
    /\ UNCHANGED <<clock, reads, where, ephs, loop, peer, hist>>

\* The process exits, by a signal or by goto done, and systemd starts it again.
\* Nothing but the static key outlives it.
Restart(n) ==
    /\ \/ /\ Charge({"restart"})
          /\ precomp_eph' = [precomp_eph EXCEPT ![n] = <<n, ephs[n] + 1>>]
       \/ /\ Charge({"restart", "keygen"})
          /\ precomp_eph' = [precomp_eph EXCEPT ![n] = Nil]
    /\ loop' = [loop EXCEPT ![n] = Idle(0)]
    /\ sessions' = [sessions EXCEPT ![n] = [i \in Slot |-> NoSession]]
    /\ session_slots' = [session_slots EXCEPT ![n] = 0]
    /\ pending_hs' = [pending_hs EXCEPT ![n] = [j \in Slot |-> NoPending]]
    /\ last_attempt' = [last_attempt EXCEPT ![n] = [c \in CfgIdx(n) |-> 0]]
    /\ endpoint' = [endpoint EXCEPT ![n] = [c \in CfgIdx(n) |-> Resolved(n, c)]]
    /\ ephs' = [ephs EXCEPT ![n] = @ + 1]
    /\ installs' = [installs EXCEPT ![n] =
          Append(@, [pub |-> Nil, key |-> Nil, role |-> "boot", at |-> clock])]
    /\ UNCHANGED <<clock, reads, where, net, accepts, written>>

\* The address of n changes, as behind a NAT.
Roam(n) ==
    /\ Charge({"roam"})
    /\ \E a \in Addr : /\ \A m \in Node : where[m] # a
                       /\ where' = [where EXCEPT ![n] = a]
    /\ UNCHANGED <<clock, reads, net, ephs, loop, peer, hist>>

\* The bound on time, not the system, ends a behaviour.
End == clock = MaxTime /\ UNCHANGED vars

Next ==
    \/ Tick
    \/ \E n \in Node :
          \/ BeginCheck(n) \/ Connect(n) \/ Expire(n) \/ Keepalive(n) \/ EndCheck(n)
          \/ TunRead(n) \/ Restart(n) \/ Roam(n)
          \/ \E a \in Addr :
                \/ RecvResponse(n, a) \/ RecvBadResponse(n, a)
                \/ IgnoreInitiation(n, a) \/ RefuseInitiation(n, a) \/ AcceptInitiation(n, a)
                \/ DropUnknown(n, a) \/ DropData(n, a) \/ AcceptData(n, a)
    \/ \E l \in Addr \X Addr : Disturb(l)
    \/ End

Spec == Init /\ [][Next]_vars

\* What the peers and the clock do of themselves: no traffic and no fault.
Progress ==
    \/ Tick
    \/ \E n \in Node :
          \/ BeginCheck(n) \/ Connect(n) \/ Expire(n) \/ Keepalive(n) \/ EndCheck(n)
          \/ \E a \in Addr :
                \/ RecvResponse(n, a) \/ RecvBadResponse(n, a)
                \/ IgnoreInitiation(n, a) \/ RefuseInitiation(n, a) \/ AcceptInitiation(n, a)
                \/ DropUnknown(n, a) \/ DropData(n, a) \/ AcceptData(n, a)

\* Time passes and a process that has something to do does it: epoll_wait returns
\* by its timeout at the latest, and no handler blocks for ever.
FairSpec == Spec /\ WF_vars(Progress)
-----------------------------------------------------------------------------
(***************************************************************************)
(* Properties.                                                             *)
(***************************************************************************)

\* A node has at most one active session with a peer, though alloc_session also
\* reuses slots by address and the table has free slots between used ones.
OneSessionPerPub ==
    \A n \in Node : \A i, j \in Slot :
        /\ sessions[n][i].active
        /\ sessions[n][j].active
        /\ sessions[n][i].static_pub = sessions[n][j].static_pub
        => i = j

\* A session marked rekeying has a pending handshake that will end, and with it
\* the mark: no order of responses, timeouts and failures leaves a session that
\* the periodic check would never rekey again.
RekeyingHasPending ==
    \A n \in Node : \A i \in Slot :
        sessions[n][i].active /\ sessions[n][i].rekeying =>
            \E j \in Slot :
                /\ pending_hs[n][j].active
                /\ Config[n][pending_hs[n][j].cfg_idx].pub = sessions[n][i].static_pub

\* alloc_session has a slot for every peer of the config file: the branches for a
\* full session table are never taken.
TableNeverFull ==
    \A n \in Node : \A pub \in Known(n), a \in Addr :
        \E i \in Slot : AllocSession(sessions[n], session_slots[n], pub, a, i)

Installed(n) == {installs[n][k] : k \in DOMAIN installs[n]}

\* A key the initiator installs has been installed by the responder: a completed
\* handshake leaves no side without the other.
KeyAgreement ==
    \A n \in Node : \A e \in Installed(n) :
        e.role = "client" =>
            \E f \in Installed(e.pub) : f.role = "server" /\ f.pub = n /\ f.key = e.key

\* session_init never installs a key a second time: with it the packet numbers
\* and the replay window would start again under a key already used.
NoKeyReinstall ==
    \A n \in Node : \A j, k \in DOMAIN installs[n] :
        j # k /\ installs[n][j].key = installs[n][k].key => installs[n][j].key = Nil

\* A packet under the current key is accepted at most once, over all sessions and
\* rekeys of a node.  (Packets under the previous key skip check_replay.)
AtMostOnce ==
    \A n \in Node : \A j, k \in DOMAIN accepts[n] :
        /\ j # k
        /\ ~accepts[n][j].prev
        /\ ~accepts[n][k].prev
        => <<accepts[n][j].key, accepts[n][j].seq>> # <<accepts[n][k].key, accepts[n][k].seq>>

\* Two inbound handshakes with a peer are accepted HandshakeCooldown apart, unless
\* the node restarted between them.
CooldownRespected ==
    \A n \in Node : \A j, k \in DOMAIN installs[n] :
        /\ j < k
        /\ installs[n][j].role = "server"
        /\ installs[n][k].role = "server"
        /\ installs[n][j].pub = installs[n][k].pub
        /\ \A m \in j .. k : installs[n][m].role # "boot"
        => installs[n][k].at - installs[n][j].at >= HandshakeCooldown

\* The previous key of a session is one agreed with the same peer.
PrevKeyOfPeer ==
    \A n \in Node : \A i \in Slot :
        LET s == sessions[n][i]
        IN  s.active /\ s.prev_key_active =>
                \E e \in Installed(n) : e.key = s.prev_session_key /\ e.pub = s.static_pub

\* A session from which nothing arrives ends: it outlives SessionExpiry by no more
\* than the time to the next check.
SilentSessionsExpire ==
    \A n \in Node : \A i \in Slot :
        loop[n].phase = "wait" /\ sessions[n][i].active =>
            clock - LastHeard(sessions[n][i]) <= SessionExpiry + CheckInterval + MaxLag

\* Rekeying loses no packet: as long as nothing is lost, reordered or restarted, a
\* data packet that arrives finds its session, and is under its current key or
\* under a previous one that is still good.
InOrderDecrypts ==
    \A n \in Node : \A a \in Addr :
        faults = 0 /\ IsData(n, a) =>
            \E i \in Slot : /\ DataFor(n, a, i)
                            /\ \/ UnderCurrentKey(sessions[n][i], Pkt(n, a))
                               \/ UnderPrevKey(sessions[n][i], Pkt(n, a), clock)

\* n and m can talk: each has a session with the other, under the same key and at
\* the other's address.
InSync(n, m) ==
    \E i, j \in Slot :
        LET s == sessions[n][i]
            t == sessions[m][j]
        IN  /\ s.active /\ s.static_pub = m /\ s.addr = where[m]
            /\ t.active /\ t.static_pub = n /\ t.addr = where[n]
            /\ s.session_key = t.session_key

\* What a fault may cost: a session is found useless when it is due for a rekey, a
\* failed attempt is repeated after ReconnectInterval, both at a check.
RecoveryTime == MaxFaults * (RekeyAfter + ReconnectInterval + CheckInterval + MaxLag)

\* A peer with an endpoint and the peer it connects to find a common key again
\* after lost datagrams, failed calls and restarts of either, with nobody's help;
\* only a peer that could not generate a key pair when it started never answers.
Recovers ==
    \A n \in Node : \A c \in CfgIdx(n) :
        LET m == Config[n][c].pub
        IN  (Config[n][c].host = m /\ n \in Known(m) /\ clock + RecoveryTime <= MaxTime)
                ~> (InSync(n, m) \/ precomp_eph[m] = Nil)
-----------------------------------------------------------------------------
(***************************************************************************)
(* What README.md says of the peers, and the code does not do.              *)
(***************************************************************************)

\* README.md: "Both sides retain the old session key for 90 seconds (prev_key
\* grace period) to decrypt in-flight packets during the switchover".  A packet
\* under the key replaced less than PrevKeyGrace ago is decrypted.
PrevKeyRetained ==
    \A n \in Node : \A a \in Addr, i \in Slot : \A j \in DOMAIN installs[n] :
        /\ DataFor(n, a, i)
        /\ Pkt(n, a).kind = "data"
        /\ Pkt(n, a).key = installs[n][j].key
        /\ j + 1 \in DOMAIN installs[n]
        /\ installs[n][j + 1].key = sessions[n][i].session_key
        /\ clock <= installs[n][j + 1].at + PrevKeyGrace
        => UnderPrevKey(sessions[n][i], Pkt(n, a), clock)
=============================================================================
