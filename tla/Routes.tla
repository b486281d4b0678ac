------------------------------- MODULE Routes -------------------------------
(***************************************************************************)
(* AllowedIPs prefixes of src/peer.c.  An address is a number of AddrBits   *)
(* bits (32 in the source); ip & mask keeps its prefix_len high bits, so a  *)
(* prefix is its network and its length and the mask is not stored.         *)
(***************************************************************************)
EXTENDS Integers

CONSTANT AddrBits   \* bits of an address, 32 in the source

ASSUME AddrBitsAssumption == AddrBits \in Nat \ {0}

Ip     == 0 .. 2^AddrBits - 1
Prefix == [network : Ip, prefix_len : 0 .. AddrBits]

\* ip & mask, for the mask parse_cidr makes of a prefix length.
Masked(ip, prefix_len) == ip - (ip % 2^(AddrBits - prefix_len))

Matches(ip, prefix) == Masked(ip, prefix.prefix_len) = prefix.network

\* parse_cidr on an address with a length: the host bits are cleared.
Cidr(ip, prefix_len) ==
    [network |-> Masked(ip, prefix_len), prefix_len |-> prefix_len]

\* Mutant: no check of the source address.
AllowAnySrc(routes, src) == TRUE

\* A peer without routes may use any source address.
CheckAllowedSrc(routes, src) == routes = {} \/ \E r \in routes : Matches(src, r)
=============================================================================
