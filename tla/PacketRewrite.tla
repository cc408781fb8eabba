----------------------------- MODULE PacketRewrite ----------------------------
(***************************************************************************)
(* The bytes of the packets that VpnThread and the DNS proxy send back to  *)
(* the tun device: reading and writing of fields (EasyValue.kt,            *)
(* IPPacket.kt, TCPPacket.kt, UDPPacket.kt), the Internet checksum         *)
(* (Checksum.kt), the rewriting of a TCP packet on its way to the local    *)
(* proxy and of the proxy's answer, and the making of a DNS reply.  Which  *)
(* entry of the port map or of the query map applies is decided in TcpNat  *)
(* and DnsProxy.                                                           *)
(*                                                                         *)
(* A ByteArray is a function from 0; a byte is 0..255 whatever its sign in *)
(* Kotlin, a Short is signed, and the Int of an IP address is its 4 bytes. *)
(***************************************************************************)
EXTENDS Integers, Sequences

CONSTANTS
    LocalIP,            \* address of the tun device
    mLocalServicePort,  \* port of the local proxy
    PeerIP, Port,       \* addresses and ports of the packets tried
    HeaderLength,       \* lengths of IP headers tried
    Payload,            \* payloads of TCP segments tried
    Message,            \* DNS messages tried
    BufferSize,         \* of RECEIVE_BUFFER: 2000 in the code (UDPProxyServer.kt:22)
    MaxReplies          \* bound: DNS replies made in one buffer

Byte == 0..255
Short == {n \in Int : -32768 <= n /\ n < 32768}

\* A packet is no longer than the MTU of the tun device (SSVpnConfig.kt:11), and
\* FromBytes refuses a message without a header or of more than 512 bytes.
MTU == 20000

ASSUME PacketAssumption ==
    /\ LocalIP \in [1..4 -> Byte] /\ PeerIP \subseteq [1..4 -> Byte]
    /\ mLocalServicePort \in Short /\ Port \subseteq Short
    /\ HeaderLength \subseteq {20, 24, 28, 32, 36, 40, 44, 48, 52, 56, 60}
    /\ Payload \subseteq Seq(Byte) /\ Message \subseteq Seq(Byte)
    /\ \A hl \in HeaderLength, p \in Payload : hl + 20 + Len(p) <= MTU
    /\ \A msg \in Message : 12 <= Len(msg) /\ Len(msg) <= 512 /\ 28 + Len(msg) <= BufferSize
    /\ BufferSize \in Nat /\ 28 <= BufferSize /\ BufferSize <= MTU /\ MaxReplies \in Nat

VARIABLES
    mData,   \* the packet
    phase,   \* who has written it
    peer,    \* the entry of the port map, or of the query map
    content, \* history: the payload, or the message, the packet was given
    replies

packetVars == <<mData, phase, peer, content, replies>>

-----------------------------------------------------------------------------
(* EasyValue.kt *)

toShort(v) == IF v % 65536 < 32768 THEN v % 65536 ELSE (v % 65536) - 65536

readShort(d, o) == toShort(256 * d[o] + d[o + 1])

\* The arithmetic shift of a negative Short rounds down, as \div does.
writeShort(d, o, v) == [d EXCEPT ![o] = (v \div 256) % 256, ![o + 1] = v % 256]

readInt(d, o) == [i \in 1..4 |-> d[o + i - 1]]

writeInt(d, o, ip) ==
    [i \in DOMAIN d |-> IF i \in o..o + 3 THEN ip[i - o + 1] ELSE d[i]]

-----------------------------------------------------------------------------
(* Checksum.kt *)

\* What a loop adds up: Total(w)[n] is the sum of w[0] to w[n - 1].
Total(w) == LET sum[n \in Nat] == IF n = 0 THEN 0 ELSE sum[n - 1] + w[n - 1]
            IN  sum

\* The word at o, without its sign.
word(d, o) == readShort(d, o) % 65536

words(d, o) == [k \in Nat |-> word(d, o + 2 * k)]

\* Mutant: the last byte of an odd number counts as the low byte of its word.
getsum_OddLow(d, o, len) ==
    Total(words(d, o))[len \div 2] + (IF len % 2 = 1 THEN d[o + len - 1] ELSE 0)

getsum(d, o, len) ==
    Total(words(d, o))[len \div 2] + (IF len % 2 = 1 THEN 256 * d[o + len - 1] ELSE 0)

\* check and 0xFFFF, check shr 16.
low(check) == check % 65536
high(check) == check \div 65536

Folded[check \in Nat] ==
    IF high(check) = 0 THEN check ELSE Folded[low(check) + high(check)]

\* inv of a Long, cut to a Short.
checksum(sum, d, o, len) == toShort(-1 - Folded[sum + getsum(d, o, len)])

-----------------------------------------------------------------------------
(* IPPacket.kt; a TCP or UDP header begins where the IP header ends *)

getHeaderLength(d) == (d[0] % 16) * 4
getTotalLength(d) == readShort(d, 2)
getProtocol(d) == d[9]
getSourceIP(d) == readInt(d, 12)
getDestinationIP(d) == readInt(d, 16)
setSourceIP(d, ip) == writeInt(d, 12, ip)
setDestinationIP(d, ip) == writeInt(d, 16, ip)
getSourcePort(d) == readShort(d, getHeaderLength(d))
getDestinationPort(d) == readShort(d, getHeaderLength(d) + 2)
setSourcePort(d, port) == writeShort(d, getHeaderLength(d), port)
setDestinationPort(d, port) == writeShort(d, getHeaderLength(d) + 2, port)

TCP == 6
UDP == 17

\* Where the checksum of a TCP header and that of a UDP header are.
offset_crc(proto) == IF proto = TCP THEN 16 ELSE 6

\* tcpChecksum and udpChecksum: both checksums are cleared and computed again,
\* that of the body over the addresses, the protocol and the length as well.
Checksums(d) ==
    LET hl   == getHeaderLength(d)
        d1   == writeShort(d, 10, 0)
        d2   == writeShort(d1, 10, checksum(0, d1, 0, hl))
        body == getTotalLength(d2) - hl
        o    == hl + offset_crc(getProtocol(d))
        sum  == getsum(d2, 12, 8) + getProtocol(d2) + body
        d3   == writeShort(d2, o, 0)
    IN  IF body < 0 THEN d2 ELSE writeShort(d3, o, checksum(sum, d3, hl, body))

-----------------------------------------------------------------------------
(* External: the packets of the kernel.  Their checksums are left to the    *)
(* device, so they hold whatever value.                                     *)

Packet(proto, hl, src, dst, sport, dport, head, data) ==
    LET n == hl + head + Len(data)
        d == [i \in 0..n - 1 |-> CASE i = 0 -> 64 + (hl \div 4)
                                   [] i = 9 -> proto
                                   [] i \in 20..hl - 1 -> 1
                                   [] i = hl + 12 /\ proto = TCP -> 80
                                   [] i >= hl + head -> data[i - hl - head + 1]
                                   [] OTHER -> 0]
        e == setDestinationIP(setSourceIP(writeShort(d, 2, n), src), dst)
        f == setDestinationPort(setSourcePort(e, sport), dport)
    IN  writeShort(f, hl + offset_crc(proto), 4660)

TcpHead == 20

-----------------------------------------------------------------------------
(* TCP *)

\* An app has sent a packet to a peer; the port of the proxy is no app's.
AppPacket ==
    \E ip \in PeerIP, sport, port \in Port, hl \in HeaderLength, p \in Payload :
        /\ sport # mLocalServicePort
        /\ mData = Packet(TCP, hl, LocalIP, ip, sport, port, TcpHead, p)
        /\ peer = [ip |-> ip, port |-> port, local |-> sport]
        /\ content = p

\* The packet of an app, to the proxy.
processOut(d) ==
    Checksums(setDestinationPort(setDestinationIP(setSourceIP(d, getDestinationIP(d)), LocalIP),
              mLocalServicePort))

\* The packet of the proxy, to the app.
processIn(d) ==
    Checksums(setDestinationIP(setSourcePort(setSourceIP(d, getDestinationIP(d)), peer.port),
              LocalIP))

processTCPPacket ==
    /\ phase \in {"app", "proxy"}
    /\ getSourceIP(mData) = LocalIP
    /\ IF getSourcePort(mData) = mLocalServicePort
       THEN mData' = processIn(mData) /\ phase' = "toapp"
       ELSE mData' = processOut(mData) /\ phase' = "toproxy"
    /\ UNCHANGED <<peer, content, replies>>

\* External: the proxy answers on the connection it has accepted.
ProxyAnswers ==
    /\ phase = "toproxy" /\ phase' = "proxy"
    /\ \E hl \in HeaderLength, p \in Payload :
         /\ mData' = Packet(TCP, hl, getDestinationIP(mData), getSourceIP(mData),
                            getDestinationPort(mData), getSourcePort(mData), TcpHead, p)
         /\ content' = p
    /\ UNCHANGED <<peer, replies>>

-----------------------------------------------------------------------------
(* DNS replies *)

\* The receive buffer: setDefault has filled in its IP header.
setDefault == [i \in 0..BufferSize - 1 |-> CASE i = 0 -> 69 [] i = 8 -> 64 [] OTHER -> 0]

\* A message is received behind the room for the headers; the rest of the
\* buffer keeps what the last reply left there.
ReceiveReply(msg) ==
    [i \in DOMAIN mData |-> IF i \in 28..27 + Len(msg) THEN msg[i - 27] ELSE mData[i]]

processResponse(d, state, size) ==
    LET a == writeShort(d, 28, state.id)
        b == [setDestinationIP(setSourceIP(a, state.ip), LocalIP) EXCEPT ![9] = UDP]
        c == writeShort(b, 2, 20 + 8 + size)
        e == setDestinationPort(setSourcePort(c, state.port), state.local)
    IN  Checksums(writeShort(e, 24, 8 + size))

DnsReply ==
    /\ phase = "dns" /\ replies < MaxReplies
    /\ replies' = replies + 1
    /\ \E ip \in PeerIP, local, id \in Port, msg \in Message :
         /\ peer' = [ip |-> ip, port |-> 53, local |-> local, id |-> id]
         /\ mData' = processResponse(ReceiveReply(msg), peer', Len(msg))
         /\ content' = msg
    /\ UNCHANGED phase

-----------------------------------------------------------------------------
PacketInit ==
    /\ replies = 0
    /\ \/ phase = "app" /\ AppPacket
       \/ /\ phase = "dns" /\ mData = setDefault
          /\ peer = [ip |-> LocalIP, port |-> 0, local |-> 0, id |-> 0] /\ content = <<>>

PacketNext == processTCPPacket \/ ProxyAnswers \/ DnsReply

PacketSpec == PacketInit /\ [][PacketNext]_packetVars

-----------------------------------------------------------------------------
(* Properties *)

PacketTypeOK ==
    /\ \A i \in DOMAIN mData : mData[i] \in Byte
    /\ phase \in {"app", "toproxy", "proxy", "toapp", "dns"}
    /\ peer.ip \in PeerIP \cup {LocalIP} /\ replies \in 0..MaxReplies

\* The reference: what a receiver adds up, byte by byte, is a multiple of 65535.
weight(i) == IF i % 2 = 0 THEN 256 ELSE 1

Weighted(d, o, len) == Total([i \in Nat |-> d[o + i] * weight(i)])[len]

Valid(d) ==
    LET hl   == getHeaderLength(d)
        body == getTotalLength(d) - hl
    IN  /\ Weighted(d, 0, hl) % 65535 = 0
        /\ (Weighted(d, 12, 8) + getProtocol(d) + body + Weighted(d, hl, body)) % 65535 = 0

\* Whatever a packet held before, the kernel accepts its header and its body
\* once it has been rewritten: the checksums of IPPacket.kt:157 and 259 agree
\* with the definition of the Internet checksum for odd and even lengths, with
\* IP options, with bytes that are negative in Kotlin, and in a buffer that has
\* held a longer reply.
ChecksumsHold ==
    (phase \in {"toproxy", "toapp"} \/ (phase = "dns" /\ replies > 0)) => Valid(mData)

DataAt(o, s) == \A i \in 1..Len(s) : mData[o + i - 1] = s[i]

\* An app that has sent to a peer gets the answer of the proxy from that peer's
\* address and port, on its own port, with the proxy's data and no more
\* (IPPacket.kt:182, 217); so does the sender of a DNS query, with its own query
\* ID (DNSPacket.kt:87).
AnswerComesFromPeer ==
    LET hl   == getHeaderLength(mData)
        ends == /\ getSourceIP(mData) = peer.ip /\ getSourcePort(mData) = peer.port
                /\ getDestinationIP(mData) = LocalIP /\ getDestinationPort(mData) = peer.local
    IN  /\ phase = "toapp" =>
             /\ ends /\ DataAt(hl + TcpHead, content)
             /\ getTotalLength(mData) = hl + TcpHead + Len(content)
        /\ phase = "dns" /\ replies > 0 =>
             /\ ends /\ readShort(mData, 28) = peer.id
             /\ \A i \in 3..Len(content) : mData[27 + i] = content[i]
             /\ getTotalLength(mData) = hl + readShort(mData, 24)
             /\ readShort(mData, 24) = 8 + Len(content)

\* A rewritten packet is right: the kernel accepts its checksums, whatever it
\* held before (IPPacket.kt:157, 259), and the answer to an app's packet or DNS
\* query comes from the peer it was sent to, with the data of the answer and no
\* more (IPPacket.kt:182, 217, DNSPacket.kt:87).
RewrittenPacketsAreRight == PacketTypeOK /\ ChecksumsHold /\ AnswerComesFromPeer
==============================================================================
