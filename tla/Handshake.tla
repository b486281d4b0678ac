----------------------------- MODULE Handshake -----------------------------
(***************************************************************************)
(* The handshake computations of src/common.c, on symbolic keys.  A public  *)
(* key stands for its key pair; a Diffie-Hellman secret is the set of the   *)
(* two public keys it is shared by, so both ends compute the same one; a    *)
(* hash is the tuple of its inputs; what AES-GCM seals opens only with the  *)
(* key that sealed it.  An initiation and a response have the same format.  *)
(***************************************************************************)

CONSTANT Nil   \* no key, no address, no payload

DH(a, b) == {a, b}

\* encrypt_identity and decrypt_identity.
Seal(secret, pub)     == [secret |-> secret, pub |-> pub]
Opens(secret, sealed) == sealed.secret = secret

DeriveSessionKey(ecdh_eph, ecdh_sc_es, ecdh_ec_ss, c_eph, s_eph, c_pub, s_pub) ==
    <<ecdh_eph, ecdh_sc_es, ecdh_ec_ss, c_eph, s_eph, c_pub, s_pub>>

\* The wire format of both directions.  Packets are not altered on their way, so
\* an HMAC is the pre-shared key it was made with (Nil: the packet has none).
HandshakePacket(psk, eph, secret, pub) ==
    [kind |-> "handshake", eph |-> eph, sealed |-> Seal(secret, pub), hmac |-> psk]

\* nr == hs_size and the magic: a peer with a pre-shared key and one without it
\* do not recognise each other's handshakes.
IsHandshake(pkt, psk) == pkt.kind = "handshake" /\ (pkt.hmac = Nil <=> psk = Nil)

HmacVerifies(pkt, psk) == psk # Nil => pkt.hmac = psk
-----------------------------------------------------------------------------
\* handshake_client_send: what is sent from client to server.
ClientPacket(psk, eph, client, server) ==
    HandshakePacket(psk, eph, DH(eph, server), client)

\* handshake_client_recv: when it returns 0, and the key it then derives.
ClientAccepts(pkt, psk, eph, server) ==
    /\ HmacVerifies(pkt, psk)
    /\ Opens(DH(eph, pkt.eph), pkt.sealed)
    /\ pkt.sealed.pub = server

ClientKey(pkt, eph, client, server) ==
    DeriveSessionKey(DH(eph, pkt.eph), DH(client, pkt.eph), DH(eph, server),
                     eph, pkt.eph, client, pkt.sealed.pub)

\* handshake_server_respond: when it gets as far as sending, what it sends, and
\* the key it then derives.
ServerAccepts(pkt, psk, server) ==
    /\ HmacVerifies(pkt, psk)
    /\ Opens(DH(server, pkt.eph), pkt.sealed)

ServerPacket(psk, pkt, eph, server) ==
    HandshakePacket(psk, eph, DH(eph, pkt.eph), server)

ServerKey(pkt, eph, server) ==
    DeriveSessionKey(DH(eph, pkt.eph), DH(eph, pkt.sealed.pub), DH(server, pkt.eph),
                     pkt.eph, eph, pkt.sealed.pub, server)
=============================================================================
