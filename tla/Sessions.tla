------------------------------ MODULE Sessions ------------------------------
(***************************************************************************)
(* The session table of src/peer.c: peer_session_t, the lookups over the    *)
(* array sessions[0 .. session_slots - 1], alloc_session and session_init.  *)
(* A table is a function on Slot, numbered from 1.  A loop that returns the *)
(* first slot in some set S is the predicate IsFirst(i, S); NULL is S = {}. *)
(***************************************************************************)
EXTENDS Routes, Handshake

CONSTANTS
    MaxPeers,           \* MAX_PEERS, 64 in the source
    PrevKeyGrace,       \* cfg_prev_key_grace
    ReplayWindowSize    \* REPLAY_WINDOW_WORDS * 64

ASSUME MaxPeersAssumption     == MaxPeers \in Nat \ {0}
ASSUME GraceAssumption        == PrevKeyGrace \in Nat \ {0}
ASSUME ReplayWindowAssumption == ReplayWindowSize \in Nat \ {0}

Slot == 1 .. MaxPeers

IsFirst(i, S) == i \in S /\ \A j \in S : i <= j
-----------------------------------------------------------------------------
\* The zeroed peer_session_t of the static array.  recv_seq stands for
\* recv_seq_highest and recv_seq_window: the numbers accepted under
\* session_key, which is all check_replay depends on (ReplayWindow).
NoSession ==
    [active           |-> FALSE,
     addr             |-> Nil,
     static_pub       |-> Nil,
     session_key      |-> Nil,
     prev_session_key |-> Nil,
     prev_key_active  |-> FALSE,
     prev_key_expires |-> 0,
     last_seen        |-> 0,
     last_sent        |-> 0,
     last_handshake   |-> 0,
     rekeying         |-> FALSE,
     send_seq         |-> 0,
     recv_seq         |-> {},
     routes           |-> {}]

\* find_session_by_addr, find_session_by_pub and the free slots, as sets.
ByAddr(tab, slots, addr) == {i \in 1 .. slots : tab[i].active /\ tab[i].addr = addr}
ByPub(tab, slots, pub)   == {i \in 1 .. slots : tab[i].active /\ tab[i].static_pub = pub}
Free(tab, slots)         == {i \in 1 .. slots : ~tab[i].active}

\* Mutants: the key is not looked up first; the last slot is never used.
AllocByAddr(tab, slots, pub, addr, i) ==
    \/ IsFirst(i, ByAddr(tab, slots, addr))
    \/ ByAddr(tab, slots, addr) = {} /\ slots < MaxPeers /\ i = slots + 1

AllocOneShort(tab, slots, pub, addr, i) ==
    \/ IsFirst(i, ByPub(tab, slots, pub))
    \/ ByPub(tab, slots, pub) = {} /\ slots + 1 < MaxPeers /\ i = slots + 1

\* alloc_session returns slot i: the slot of the key, else of the address, else
\* a free one, else one more.
AllocSession(tab, slots, pub, addr, i) ==
    \/ IsFirst(i, ByPub(tab, slots, pub))
    \/ /\ ByPub(tab, slots, pub) = {}
       /\ \/ IsFirst(i, ByAddr(tab, slots, addr))
          \/ /\ ByAddr(tab, slots, addr) = {}
             /\ \/ IsFirst(i, Free(tab, slots))
                \/ Free(tab, slots) = {} /\ slots < MaxPeers /\ i = slots + 1

\* Mutant: the new slot is not counted.
SlotsUnchanged(slots, i) == slots

\* session_slots after alloc_session has returned slot i.
SlotsWith(slots, i) == IF i > slots THEN i ELSE slots

\* Mutants: the previous key is dropped at once; a slot that was not in use has
\* a previous key too.
SessionInitForgets(s, addr, pub, key, routes, t) ==
    [NoSession EXCEPT !.active = TRUE, !.addr = addr, !.static_pub = pub,
        !.session_key = key, !.prev_session_key = s.session_key,
        !.prev_key_active = FALSE, !.prev_key_expires = t + PrevKeyGrace,
        !.last_sent = t, !.last_handshake = t, !.routes = routes]

SessionInitAlways(s, addr, pub, key, routes, t) ==
    [NoSession EXCEPT !.active = TRUE, !.addr = addr, !.static_pub = pub,
        !.session_key = key, !.prev_session_key = s.session_key,
        !.prev_key_active = TRUE, !.prev_key_expires = t + PrevKeyGrace,
        !.last_sent = t, !.last_handshake = t, !.routes = routes]

\* session_init at time t: a key of an active slot becomes the previous key.
SessionInit(s, addr, pub, key, routes, t) ==
    [active           |-> TRUE,
     addr             |-> addr,
     static_pub       |-> pub,
     session_key      |-> key,
     prev_session_key |-> IF s.active THEN s.session_key ELSE s.prev_session_key,
     prev_key_active  |-> s.active,
     prev_key_expires |-> IF s.active THEN t + PrevKeyGrace ELSE s.prev_key_expires,
     last_seen        |-> 0,
     last_sent        |-> t,
     last_handshake   |-> t,
     rekeying         |-> FALSE,
     send_seq         |-> 0,
     recv_seq         |-> {},
     routes           |-> routes]
-----------------------------------------------------------------------------
\* The routes that match dst, each with the slot of its session.
Candidates(tab, slots, dst) ==
    {c \in (1 .. slots) \X (UNION {tab[j].routes : j \in 1 .. slots}) :
        tab[c[1]].active /\ c[2] \in tab[c[1]].routes /\ Matches(dst, c[2])}

\* Mutant: the first session, whatever its routes.
RouteFirst(tab, slots, dst, i) == IsFirst(i, {j \in 1 .. slots : tab[j].active})

\* route_lookup returns slot i: a longest match, in the first slot that has one.
RouteLookup(tab, slots, dst, i) ==
    \E c \in Candidates(tab, slots, dst) :
        /\ c[1] = i
        /\ \A d \in Candidates(tab, slots, dst) :
              \/ d[2].prefix_len < c[2].prefix_len
              \/ d[2].prefix_len = c[2].prefix_len /\ i <= d[1]

\* Mutant: a number in the window is not looked up in it.
NotTooOld(s, seq) == \A newer \in s.recv_seq : newer < seq + ReplayWindowSize

\* check_replay returns 0.
IsFresh(s, seq) ==
    /\ seq \notin s.recv_seq
    /\ \A newer \in s.recv_seq : newer < seq + ReplayWindowSize

\* decrypt_packet succeeds under the current key, or else under the previous one.
UnderCurrentKey(s, pkt) == pkt.kind = "data" /\ pkt.key = s.session_key

UnderPrevKey(s, pkt, t) ==
    /\ ~UnderCurrentKey(s, pkt)
    /\ s.prev_key_active
    /\ t <= s.prev_key_expires
    /\ pkt.kind = "data"
    /\ pkt.key = s.prev_session_key
=============================================================================
