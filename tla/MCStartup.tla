----------------------------- MODULE MCStartup -----------------------------
(***************************************************************************)
(* An instance of Startup.  "x" is a key the program does not know; as a    *)
(* value it is no number, key, endpoint or prefix.                          *)
(***************************************************************************)
EXTENDS Startup

MCKeys == {"interface", "rekey_after", "session_expiry", "peers",
           "public_key", "endpoint", "allowed_ips", "x"}

MCValues == {"aa", "h:1", "10.0.0.0/8"}

MCAtoi(v) == IF v = "10.0.0.0/8" THEN 10 ELSE 0

MCHex(v) == IF v = "aa" THEN "aa" ELSE NoKey

MCEndpoint(v) == IF v = "h:1" THEN v ELSE NoEndpoint

MCCidr(v) == IF v = "10.0.0.0/8" THEN v ELSE NoPrefix

MCDefaultNum == [k \in IntOptions |-> IF k = "session_expiry" THEN 10 ELSE 2]
=============================================================================
