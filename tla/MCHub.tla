------------------------------- MODULE MCHub -------------------------------
(***************************************************************************)
(* The deployment of config/*.yaml: spokes A and B connect to the relay R,  *)
(* which has no endpoint for them.  On the overlay network R is 1, A is 2   *)
(* and B is 3; a host behind B also sends with the address of A, and nobody *)
(* behind R sends.                                                         *)
(***************************************************************************)
EXTENDS Tunnel, TLC

CONSTANTS A, B, R,         \* the nodes
          a1, a2, a3, a4,  \* addresses: of R, A and B at first, and a spare one
          k1               \* a pre-shared key

MCNode == {A, B, R}
MCHome == A :> a2 @@ B :> a3 @@ R :> a1
MCPsk  == A :> k1 @@ B :> k1 @@ R :> k1
MCSources == A :> {2} @@ B :> {3, 2} @@ R :> {}
MCDestinations == {2, 3}
Overlay == A :> 2 @@ B :> 3 @@ R :> 1

\* A spoke routes the whole overlay network to R, R one address to each spoke.
ToHub      == [pub |-> R, host |-> R, routes |-> {Cidr(0, 0)}]
ToSpoke(n) == [pub |-> n, host |-> Nil, routes |-> {Cidr(Overlay[n], 2)}]
HubConfig  == A :> <<ToHub>> @@ B :> <<ToHub>> @@ R :> <<ToSpoke(A), ToSpoke(B)>>

\* A is not in the config file of R.
UnknownConfig == [HubConfig EXCEPT ![R] = <<ToSpoke(B)>>]
-----------------------------------------------------------------------------
\* What reaches the TUN device of a spoke from others is addressed to it: the relay
\* shortcut picks the session of the destination, and no other spoke can open the
\* packet.  (Both directions have one key: a spoke that is given the address the
\* relay had would accept its own packets.)
SpokesGetTheirTraffic ==
    \A n \in {A, B} : \A p \in written[n] : p.from # n => p.dst = Overlay[n]

\* A payload from elsewhere with the address of a spoke comes from that spoke,
\* however it was relayed: AllowedIPs is enforced where the packet enters.
SourceIsSpoke ==
    \A n \in Node : \A p \in written[n] : \A m \in {A, B} :
        p.from # n /\ p.src = Overlay[m] => p.from = m
=============================================================================
