--------------------------- MODULE MCClientPackets ---------------------------
(***************************************************************************)
(* An instance for TLC of what the client does with packets.  A behaviour  *)
(* is about the queries of the DNS proxy (DnsProxy), about the bytes of    *)
(* the packets sent back (PacketRewrite), or about the reading of a DNS    *)
(* message (DnsMessage).                                                   *)
(***************************************************************************)
EXTENDS DnsProxy, PacketRewrite, DnsMessage

\* Addresses, ports and payloads are at both ends of the range of a byte and of
\* a Short; a message is a header and what follows it.
Tun == <<10, 8, 0, 2>>
Peers == {<<8, 8, 8, 8>>, <<255, 254, 253, 128>>}
Ports == {443, -1, -32768}
Lengths == {20, 24}
Payloads == UNION {[1..n -> {0, 1, 255}] : n \in 0..3}
Messages == {[i \in 1..12 |-> 200] \o tail : tail \in {<<>>, <<255>>, <<0>>, <<128, 0, 255>>}}

\* The names of a DNS message are at both ends of it.
Places == {30, 34, 38, 42, 300, 484, 488, 492, 496}
Sizes == {20, 470}
Cuts == (0..13) \cup {20, 35, 46, 48, 49, 55}

VARIABLE part

NoPacket == phase = "dns" /\ PacketInit

NoText ==
    /\ message = <<>> /\ chain = <<>> /\ cut = 0 /\ reading = "received"
    /\ questions = 0 /\ records = 0 /\ buffer = Slice /\ pos = 0
    /\ length = 0 /\ sb = <<>> /\ back = 0 /\ domains = <<>>

MCInit ==
    /\ Init
    /\ \/ part = "queries" /\ NoPacket /\ NoText
       \/ part = "packets" /\ PacketInit /\ NoText
       \/ part = "messages" /\ MessageInit /\ NoPacket

MCNext ==
    \/ part = "queries" /\ Next /\ UNCHANGED <<part, packetVars, messageVars>>
    \/ part = "packets" /\ PacketNext /\ UNCHANGED <<part, vars, messageVars>>
    \/ part = "messages" /\ MessageNext /\ UNCHANGED <<part, vars, packetVars>>

MCSpec ==
    /\ MCInit /\ [][MCNext]_<<part, vars, packetVars, messageVars>>
    /\ WF_vars(EndPut) /\ WF_vars(UdpThread)
==============================================================================
