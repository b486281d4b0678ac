------------------------------ MODULE Startup ------------------------------
(***************************************************************************)
(* From the start of the program to its event loop: load_config reads the   *)
(* events of the YAML parser, main checks the options and loads the static  *)
(* key, start_peer opens the TUN device and the socket.                     *)
(*                                                                         *)
(* The parser is external.  It turns the file into a stream of events that  *)
(* is well nested: open is the stack of the collections it is in, and each  *)
(* mapping of the stack remembers the key whose value comes next.  Keys are  *)
(* scalars.  What the scalars of the file say is given by operators.        *)
(***************************************************************************)
EXTENDS Integers, Sequences, SequencesExt

CONSTANTS
    Keys, Values,   \* the scalars of the file: as keys, and as values or entries
    Atoi(_),        \* the number that atoi reads
    Hex(_),         \* the key that hex_to_bytes reads, NoKey if it refuses
    Endpoint(_),    \* the host:port that the code accepts, NoEndpoint if it refuses
    Cidr(_),        \* the prefix that parse_cidr reads, NoPrefix if it refuses
    NoKey, NoEndpoint, NoPrefix,
    DefaultNum,     \* the value of each numeric option when the file does not set it
    MaxPeers, MaxRoutes,  \* MAX_PEERS, MAX_ROUTES_PER_PEER
    MaxDepth,       \* bound: how deep collections are nested
    MaxSet          \* bound: how many values the root mapping has

ASSUME BoundsAssumption == MaxPeers \in Nat \ {0} /\ MaxRoutes \in Nat

VARIABLES
    step,    \* what the program does next
    loader,  \* the variables of load_config, the options and peer_configs
    open,    \* the collections the YAML parser is in
    root,    \* the document: "none" not begun, "open", "done"
    set,     \* values read so far in the root mapping
    held,    \* what has been acquired: the static key, the TUN device, the socket
    precomp, \* an ephemeral key pair is ready for the first handshake
    meant    \* what a reader takes the file to say; shaped while it has the documented shape

vars == <<step, loader, open, root, set, held, precomp, meant>>
parser == <<open, root, set, meant>>

IntOptions == {"port", "keepalive_interval", "rekey_after", "reconnect_interval", "session_expiry",
               "prev_key_grace", "handshake_timeout", "handshake_cooldown"}
TextOptions == {"interface", "address", "private_key_file", "pre_shared_key"}

ASSUME DefaultAssumption == DefaultNum = [k \in IntOptions |-> DefaultNum[k]]

\* Of a text only whether it is empty matters, of the pre-shared key whether it is given.
Default == [num  |-> DefaultNum,
            text |-> [k \in TextOptions |-> IF k = "private_key_file" THEN "text" ELSE ""]]

Scalars == Keys \cup Values \cup {""}

Peer == [pub      : {Hex(v) : v \in Scalars} \cup {NoKey},
         endpoint : {Endpoint(v) : v \in Scalars} \cup {NoEndpoint},
         routes   : Seq({Cidr(v) : v \in Scalars})]

Opt == [num  : [IntOptions -> {Atoi(v) : v \in Scalars} \cup {DefaultNum[k] : k \in IntOptions}],
        text : [TextOptions -> {"", "text"}]]

States == {"root", "root_val", "peers_seq", "peer_map", "peer_val", "allowed_ips_seq"}

Loader == [state : States, key : Scalars, peer_key : Scalars,
           opt : Opt, peers : Seq(Peer)]

NoPeer == [pub |-> NoKey, endpoint |-> NoEndpoint, routes |-> <<>>]

Text(key, v) == IF v = "" /\ key # "pre_shared_key" THEN "" ELSE "text"

\* The assignments of one root key; a key that is not an option changes nothing.
SetOption(opt, key, v) ==
    IF key \in IntOptions THEN [opt EXCEPT !.num[key] = Atoi(v)]
    ELSE IF key \in TextOptions THEN [opt EXCEPT !.text[key] = Text(key, v)]
    ELSE opt

-----------------------------------------------------------------------------
(***************************************************************************)
(* load_config: one event in one state of the loader.  The result has ok    *)
(* FALSE when the code gives up.                                            *)
(***************************************************************************)
Keep(l)  == [l |-> l, ok |-> TRUE]
Refuse(l) == [l |-> l, ok |-> FALSE]
Goto(l, s) == Keep([l EXCEPT !.state = s])

\* key and peer_key are written before they are next compared, so a key is forgotten
\* once its value begins.

S_ROOT(l, ev) ==
    IF ev.type = "scalar" THEN Keep([l EXCEPT !.key = ev.value, !.state = "root_val"]) ELSE Keep(l)

S_ROOT_VAL(l, ev) ==
    IF ev.type = "scalar"
    THEN Keep([l EXCEPT !.opt = SetOption(@, l.key, ev.value), !.key = "", !.state = "root"])
    ELSE IF ev.type = "seq_start" /\ l.key = "peers" THEN Goto([l EXCEPT !.key = ""], "peers_seq")
    ELSE Keep(l)

\* Mutant: one peer more than the table holds.
PeersSeqOneMore(l, ev) ==
    CASE ev.type = "seq_end" -> Goto(l, "root")
      [] ev.type = "map_start" /\ Len(l.peers) > MaxPeers -> Refuse(l)
      [] ev.type = "map_start" /\ Len(l.peers) <= MaxPeers ->
            Keep([l EXCEPT !.peers = Append(@, NoPeer), !.state = "peer_map"])
      [] OTHER -> Keep(l)

S_PEERS_SEQ(l, ev) ==
    CASE ev.type = "seq_end" -> Goto(l, "root")
      [] ev.type = "map_start" /\ Len(l.peers) >= MaxPeers -> Refuse(l)
      [] ev.type = "map_start" /\ Len(l.peers) < MaxPeers ->
            Keep([l EXCEPT !.peers = Append(@, NoPeer), !.state = "peer_map"])
      [] OTHER -> Keep(l)

S_PEER_MAP(l, ev) ==
    CASE ev.type = "map_end" -> Goto(l, "peers_seq")
      [] ev.type = "scalar"  -> Keep([l EXCEPT !.peer_key = ev.value, !.state = "peer_val"])
      [] OTHER -> Keep(l)

\* The value goes to peer pc.  ev.resolves: whether the name of the endpoint can be resolved.
PeerVal(l, ev, pc) ==
    LET next == [l EXCEPT !.peer_key = "", !.state = "peer_map"]
    IN  IF ev.type = "scalar" THEN
            CASE l.peer_key = "public_key" ->
                    IF Hex(ev.value) = NoKey THEN Refuse(l)
                    ELSE Keep([next EXCEPT !.peers[pc].pub = Hex(ev.value)])
              [] l.peer_key = "endpoint" ->
                    IF Endpoint(ev.value) = NoEndpoint \/ ~ev.resolves THEN Refuse(l)
                    ELSE Keep([next EXCEPT !.peers[pc].endpoint = Endpoint(ev.value)])
              [] OTHER -> Keep(next)
        ELSE IF ev.type = "seq_start" /\ l.peer_key = "allowed_ips"
        THEN Goto([l EXCEPT !.peer_key = ""], "allowed_ips_seq")
        ELSE Keep(l)

\* Mutant: the values go to the first peer of the file.
PeerValFirst(l, ev) == PeerVal(l, ev, 1)

S_PEER_VAL(l, ev) == PeerVal(l, ev, Len(l.peers))

S_ALLOWED_IPS_SEQ(l, ev) ==
    LET pc == Len(l.peers)
    IN  CASE ev.type = "seq_end" -> Goto(l, "peer_map")
          [] ev.type = "scalar" ->
                IF Len(l.peers[pc].routes) >= MaxRoutes \/ Cidr(ev.value) = NoPrefix THEN Refuse(l)
                ELSE Keep([l EXCEPT !.peers[pc].routes = Append(@, Cidr(ev.value))])
          [] OTHER -> Keep(l)

Handle(l, ev) ==
    CASE l.state = "root"            -> S_ROOT(l, ev)
      [] l.state = "root_val"        -> S_ROOT_VAL(l, ev)
      [] l.state = "peers_seq"       -> S_PEERS_SEQ(l, ev)
      [] l.state = "peer_map"        -> S_PEER_MAP(l, ev)
      [] l.state = "peer_val"        -> S_PEER_VAL(l, ev)
      [] l.state = "allowed_ips_seq" -> S_ALLOWED_IPS_SEQ(l, ev)

\* One turn of the loop: the event is handled, and the load ends with it or goes on.
Turn(ev) ==
    LET r == Handle(loader, ev)
    IN  /\ loader' = r.l
        /\ step' = IF ~r.ok THEN "exit" ELSE IF ev.type = "stream_end" THEN "check" ELSE "load"
        /\ UNCHANGED <<held, precomp>>

-----------------------------------------------------------------------------
(***************************************************************************)
(* What the file says.  The documented file is a mapping; the value of      *)
(* "peers" in it is a sequence of mappings, the value of "allowed_ips" in    *)
(* one of those a sequence of scalars, and every other value a scalar.      *)
(***************************************************************************)

\* The keys that lead to the place where the parser is; "-" is an entry of a sequence.
Path == [i \in DOMAIN open |-> IF open[i].kind = "map" THEN open[i].key ELSE "-"]

\* The kind of value the documented shape has there.
Expected(path) ==
    CASE path \in {<<>>, <<"peers", "-">>}                       -> "map"
      [] path \in {<<"peers">>, <<"peers", "-", "allowed_ips">>} -> "seq"
      [] OTHER                                                   -> "scalar"

Unshaped == [shaped |-> FALSE, opt |-> Default, peers |-> <<>>]

Says(path, kind, v) ==
    LET pc == Len(meant.peers)
        In(place) == Len(path) = 3 /\ SubSeq(path, 1, 2) = <<"peers", "-">> /\ path[3] = place
    IN  CASE ~meant.shaped \/ kind # Expected(path) -> Unshaped
          [] Len(path) = 1 /\ kind = "scalar" -> [meant EXCEPT !.opt = SetOption(@, path[1], v)]
          [] path = <<"peers", "-">>  -> [meant EXCEPT !.peers = Append(@, NoPeer)]
          [] In("public_key")         -> [meant EXCEPT !.peers[pc].pub = Hex(v)]
          [] In("endpoint")           -> [meant EXCEPT !.peers[pc].endpoint = Endpoint(v)]
          [] Len(path) = 4            -> [meant EXCEPT !.peers[pc].routes = Append(@, Cidr(v))]
          [] OTHER                    -> meant

-----------------------------------------------------------------------------
(***************************************************************************)
(* The events of the parser.                                                *)
(***************************************************************************)
Event(type, v, resolves) == [type |-> type, value |-> v, resolves |-> resolves]

Starts(kind) == IF kind = "map" THEN "map_start" ELSE "seq_start"
Ends(kind)   == IF kind = "map" THEN "map_end" ELSE "seq_end"

AwaitsKey   == open # <<>> /\ Last(open).kind = "map" /\ Last(open).key = ""
AwaitsValue == IF open = <<>> THEN root = "none" ELSE ~AwaitsKey /\ root = "open"

\* Which keys lead to a place matters as long as the file has the documented shape; after
\* that only how the parser must go on.
Nest(stack) ==
    IF meant'.shaped THEN stack
    ELSE [i \in DOMAIN stack |->
            [stack[i] EXCEPT !.key = IF @ = "" THEN "" ELSE "x"]]

\* The value of the key has been read.
ValueRead(stack) ==
    IF stack = <<>> THEN <<>> ELSE [stack EXCEPT ![Len(stack)].key = ""]

Key ==
    /\ step = "load" /\ AwaitsKey
    /\ UNCHANGED <<root, meant>>
    /\ \E k \in Keys :
        /\ Turn(Event("scalar", k, FALSE))
        /\ open' = Nest([open EXCEPT ![Len(open)].key = k])
    /\ set' = IF loader'.opt = loader.opt THEN set ELSE set + 1
    /\ set' <= MaxSet

Scalar ==
    /\ step = "load" /\ AwaitsValue
    /\ \E v \in Values, resolves \in BOOLEAN :
        /\ Turn(Event("scalar", v, resolves))
        /\ meant' = Says(Path, "scalar", v)
    /\ open' = Nest(ValueRead(open))
    /\ root' = IF open = <<>> THEN "done" ELSE root
    /\ set' = IF loader'.opt = loader.opt THEN set ELSE set + 1
    /\ set' <= MaxSet

Start ==
    /\ step = "load" /\ AwaitsValue /\ Len(open) < MaxDepth
    /\ \E kind \in {"map", "seq"} :
        /\ Turn(Event(Starts(kind), "", FALSE))
        /\ meant' = Says(Path, kind, "")
        /\ open' = Nest(Append(open, [kind |-> kind, key |-> ""]))
    /\ root' = "open"
    /\ UNCHANGED set

End ==
    /\ step = "load" /\ open # <<>>
    /\ Last(open).kind = "map" => AwaitsKey
    /\ Turn(Event(Ends(Last(open).kind), "", FALSE))
    /\ open' = ValueRead(Front(open))
    /\ root' = IF Len(open) = 1 THEN "done" ELSE root
    /\ UNCHANGED <<set, meant>>

StreamEnd ==
    /\ step = "load" /\ open = <<>>
    /\ Turn(Event("stream_end", "", FALSE))
    /\ meant' = IF root = "none" THEN Unshaped ELSE meant
    /\ UNCHANGED <<open, root, set>>

-----------------------------------------------------------------------------
(***************************************************************************)
(* main and start_peer.                                                     *)
(***************************************************************************)
Fresh == [state |-> "root", key |-> "", peer_key |-> "", opt |-> Default, peers |-> <<>>]

Init ==
    /\ step = "load" /\ open = <<>> /\ root = "none" /\ set = 0 /\ held = {} /\ precomp = FALSE
    /\ loader = Fresh
    /\ meant = [shaped |-> TRUE, opt |-> Default, peers |-> <<>>]

\* The process is gone, and its memory with it.
Exit ==
    /\ step' = "exit" /\ loader' = Fresh /\ open' = <<>> /\ root' = "done" /\ set' = 0
    /\ meant' = Unshaped /\ held' = {} /\ precomp' = FALSE

Acquire(from, thing, to) ==
    /\ step = from /\ step' = to
    /\ held' = held \cup {thing}
    /\ UNCHANGED <<loader, parser, precomp>>

\* The file cannot be opened, or the parser meets an error in it.
LoadFails == step = "load" /\ Exit

MaxPort == 65535

\* Mutant: a session may expire as soon as it is due for a new key.
ChecksLax(o, peers) ==
    /\ o.text["interface"] # "" /\ peers # <<>>
    /\ o.num["port"] <= MaxPort
    /\ \A k \in IntOptions \ {"session_expiry"} : o.num[k] > 0
    /\ o.num["session_expiry"] >= o.num["rekey_after"]

\* The checks of main, in whatever order: each of them ends the program.
Checks(o, peers) ==
    /\ o.text["interface"] # "" /\ peers # <<>>
    /\ o.num["port"] <= MaxPort
    /\ \A k \in IntOptions \ {"session_expiry"} : o.num[k] > 0
    /\ o.num["session_expiry"] > o.num["rekey_after"]

Check ==
    /\ step = "check"
    /\ IF Checks(loader.opt, loader.peers)
       THEN step' = "key" /\ UNCHANGED <<loader, parser, held, precomp>>
       ELSE Exit

load_static_key == Acquire("key", "static_key", "tun") \/ (step = "key" /\ Exit)

\* /dev/net/tun cannot be opened, or TUNSETIFF is refused and the descriptor closed again.
open_tunnel == Acquire("tun", "tun_fd", "socket") \/ (step = "tun" /\ Exit)

OpenSocket == Acquire("socket", "sock_fd", "bind") \/ (step = "socket" /\ Exit)

\* The address is not one, or the port is taken.
Bind ==
    \/ step = "bind" /\ step' = "eph" /\ UNCHANGED <<loader, parser, held, precomp>>
    \/ step = "bind" /\ Exit

\* A failure leaves no key pair behind, and the loop starts all the same.
refresh_precomp_eph ==
    /\ step = "eph" /\ step' = "enter"
    /\ precomp' \in BOOLEAN
    /\ UNCHANGED <<loader, parser, held>>

\* event_loop needs two cipher contexts and an epoll descriptor; without them it returns,
\* start_peer closes what it opened and the program ends.
event_loop ==
    \/ step = "enter" /\ step' = "loop" /\ UNCHANGED <<loader, parser, held, precomp>>
    \/ step = "enter" /\ Exit

\* The loop is left when a signal has set stop_flag, or when epoll reports an error.
LeaveLoop == step = "loop" /\ Exit

Ended == step = "exit" /\ UNCHANGED vars

Next ==
    \/ Key \/ Scalar \/ Start \/ End \/ StreamEnd \/ LoadFails \/ Check \/ load_static_key
    \/ open_tunnel \/ OpenSocket \/ Bind \/ refresh_precomp_eph
    \/ event_loop \/ LeaveLoop \/ Ended

Spec == Init /\ [][Next]_vars

-----------------------------------------------------------------------------
\* The loader is inside the arrays: a peer exists whenever one is being written.
Bounded(l) ==
    /\ Len(l.peers) <= MaxPeers
    /\ \A i \in DOMAIN l.peers : Len(l.peers[i].routes) <= MaxRoutes
    /\ l.state \in {"peer_map", "peer_val", "allowed_ips_seq"} => l.peers # <<>>

\* Whatever the file holds, load_config stays within peer_configs and routes: no more
\* than MAX_PEERS peers and MAX_ROUTES_PER_PEER routes, and a peer to write to whenever
\* the loader is inside one.
TypeOK ==
    /\ step \in {"load", "check", "key", "tun", "socket", "bind", "eph", "enter", "loop",
                "exit"}
    /\ loader \in Loader /\ Bounded(loader)
    /\ held \subseteq {"static_key", "tun_fd", "sock_fd"} /\ precomp \in BOOLEAN

\* A file of the documented shape, with keys in any order, unknown keys and repeated ones,
\* is read as it is written: every option and every field of every peer has the value that
\* stands under its key, in the right peer, while it is read and when the loop starts.
ReadsAsWritten ==
    meant.shaped /\ step # "exit" => loader.opt = meant.opt /\ loader.peers = meant.peers

\* Nothing is acquired for a configuration that is refused, and the event loop starts
\* only with the static key, the TUN device and the socket, at least one peer, and options
\* that meet the assumptions under which the loop is verified (OptionsAssumption of Tunnel).
LoopStartsReady ==
    LET o == loader.opt
    IN  /\ held # {} => /\ o.text["interface"] # "" /\ loader.peers # <<>>
                        /\ \A k \in IntOptions \ {"session_expiry"} : o.num[k] > 0
                        /\ o.num["session_expiry"] > o.num["rekey_after"]
        /\ step = "loop" => held = {"static_key", "tun_fd", "sock_fd"}
=============================================================================
