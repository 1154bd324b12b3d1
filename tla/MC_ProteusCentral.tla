-------------------------- MODULE MC_ProteusCentral --------------------------
(* ProteusCentral for TLC: two peers, p1 with a legacy Cryptobox session,   *)
(* three identity keys (the legacy one and two IdentityKeyPair::new may     *)
(* return), one one-time prekey id and the last-resort id.                  *)
EXTENDS ProteusCentral, TLC

CONSTANTS p1, p2, kL, k1, k2

MC_Peers == {p1, p2}
MC_Keys == {kL, k1, k2}
MC_PrekeyIds == {1, 65535}
====
