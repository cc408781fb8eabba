------------------------------- MODULE MCAead -------------------------------
(***************************************************************************)
(* An instance of the AEAD framing for TLC.  A behaviour is about TCP      *)
(* streams (AeadStream) or about datagrams (AeadDatagram).                 *)
(***************************************************************************)
EXTENDS AeadStreamInv

CONSTANTS c1, c2, c3, s1, s2, s3, s4

\* The connection c1 sends two chunks, the others one; c3 begins with the salt
\* of c1.
Salts == [c \in Conn |-> IF c = c2 THEN s2 ELSE s1]
Chunks == [c \in Conn |-> IF c = c1 THEN 2 ELSE 1]

VARIABLE part

MCInit ==
    \/ part = "TCP" /\ Init /\ Datagrams!Init /\ cipher = "aead"
    \/ part = "UDP" /\ Init /\ Datagrams!Init

MCNext ==
    \/ part = "TCP" /\ Next /\ UNCHANGED <<part, cipher, net, filter, delivered>>
    \/ part = "UDP" /\ Datagrams!Next /\ UNCHANGED <<part, vars>>

MCSpec == MCInit /\ [][MCNext]_<<part, vars, cipher, net, filter, delivered>>
=============================================================================
