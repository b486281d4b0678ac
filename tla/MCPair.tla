------------------------------- MODULE MCPair -------------------------------
(***************************************************************************)
(* Two peers: A, which connects, and R.  Addresses of two bits: R is 1 and  *)
(* A is 2 on the overlay network, which is all four addresses.              *)
(***************************************************************************)
EXTENDS Tunnel, TLC

CONSTANTS A, R,        \* the nodes
          a1, a2, a3,  \* addresses: of R, of A at first, and a spare one
          k1           \* a pre-shared key

MCNode == {A, R}
MCHome == A :> a2 @@ R :> a1
MCPsk  == A :> k1 @@ R :> k1
MCSources == A :> {2} @@ R :> {1}
MCDestinations == {1, 2}

\* A spoke routes the whole overlay network to R; R is not given an endpoint.
ToHub   == [pub |-> R, host |-> R, routes |-> {Cidr(0, 0)}]
ToSpoke == [pub |-> A, host |-> Nil, routes |-> {Cidr(2, 2)}]
SpokeConfig == A :> <<ToHub>> @@ R :> <<ToSpoke>>

\* Both sides have an endpoint, so both may initiate.
MeshConfig == A :> <<ToHub>> @@ R :> <<[ToSpoke EXCEPT !.host = A]>>
-----------------------------------------------------------------------------
\* The key of A is the higher one.
HigherKey(n, m) == n = A /\ m = R

\* The comment on the tie-breaking loop of event_loop: "if we have a pending
\* outbound to this peer, the side with the higher pub key wins and ignores the
\* inbound initiation".  Its pending handshake outlives the other's initiation.
HigherKeyWins ==
    [][\A n \in Node, a \in Addr, j \in Slot :
          /\ IsResponse(n, a)
          /\ j \in Awaiting(n, a)
          /\ ServerAccepts(Pkt(n, a), Psk[n], n)
          /\ HigherKey(n, Pkt(n, a).sealed.pub)
          /\ net' = Rest(n, a)
          => pending_hs'[n][j].active]_vars
=============================================================================
