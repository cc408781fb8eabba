-------------------------------- MODULE TcpNat --------------------------------
(***************************************************************************)
(* The translation of TCP packets (IPPacket.kt, PortMapping.kt), run by    *)
(* VpnThread (SSVpnService.kt) on every packet it reads from the tun       *)
(* device, and the accepting side of the local proxy (TCPProxyServer.kt).  *)
(*                                                                         *)
(* A packet of an app from local:sport to ip:port goes back to the device  *)
(* as one from ip:sport to the proxy's port; a packet of the proxy to      *)
(* ip:sport goes back as one from ip:port to local:sport.  The port comes  *)
(* from a map keyed by sport alone.  The kernel that sends and receives    *)
(* the packets at both ends is external.                                   *)
(***************************************************************************)
EXTENDS Naturals, Sequences

CONSTANTS
    Flow,      \* connections apps open: records of sport, ip and port
    Together,  \* bound: which of them are opened in one behaviour
    None,      \* no entry, packet or address
    MaxTun     \* bound: packets in the device before more are sent unasked

ASSUME NatAssumption ==
    /\ Flow # {}
    /\ \A f \in Flow : f = [sport |-> f.sport, ip |-> f.ip, port |-> f.port]
    /\ Together \subseteq SUBSET Flow
    /\ MaxTun \in Nat

Port == {f.sport : f \in Flow}
Ip == {f.ip : f \in Flow}
DPort == {f.port : f \in Flow}

\* The proxy's end of a connection, as the kernel tells them apart.
End == Ip \X Port

EndOf(f) == <<f.ip, f.sport>>

VARIABLES
    mSessionMap,  \* the entry of each source port: an IPort or None
    tun,          \* packets the kernel has sent into the device
    packet,       \* the packet VpnThread is working on, or None
    app,          \* "unused", "new", "syn" or "open": each app's end of its connection
    proxy,        \* "none", "syn", "backlog" or "accepted": each proxy end
    dest,         \* what getDestAddress returned for each accepted end
    maker,        \* history: the flow whose SYN made each end
    answered      \* history: which flow got data from which end

vars == <<mSessionMap, tun, packet, app, proxy, dest, maker, answered>>

\* mPacketsSent is compared with 2 only: 3 stands for more.
IPort == [ip : Ip, port : DPort, mPacketsSent : 0..3]

Up == [way : {"up"}, kind : {"syn", "ack", "data", "rst"}, sport : Port, ip : Ip, port : DPort]
Down == [way : {"down"}, kind : {"synack", "data"}, sport : Port, ip : Ip]

\* The constant None is none of the values it stands beside.
ASSUME NoneAssumption ==
    None \notin IPort \cup Up \cup Down \cup Flow \cup (Ip \X DPort)

UpPacket(kind, sport, ip, port) ==
    [way |-> "up", kind |-> kind, sport |-> sport, ip |-> ip, port |-> port]

DownPacket(kind, e) == [way |-> "down", kind |-> kind, sport |-> e[2], ip |-> e[1]]

TypeOK ==
    /\ mSessionMap \in [Port -> IPort \cup {None}]
    /\ tun \in Seq(Up \cup Down)
    /\ packet \in Up \cup Down \cup {None}
    /\ app \in [Flow -> {"unused", "new", "syn", "open"}]
    /\ proxy \in [End -> {"none", "syn", "backlog", "accepted"}]
    /\ dest \in [End -> (Ip \X DPort) \cup {None}]
    /\ maker \in [End -> Flow \cup {None}]
    /\ answered \subseteq End \X Flow

Init ==
    /\ mSessionMap = [s \in Port |-> None]
    /\ tun = <<>>
    /\ packet = None
    /\ \E F \in Together : app = [f \in Flow |-> IF f \in F THEN "new" ELSE "unused"]
    /\ proxy = [e \in End |-> "none"]
    /\ dest = [e \in End |-> None]
    /\ maker = [e \in End |-> None]
    /\ answered = {}

-----------------------------------------------------------------------------
(* The kernel's two ends *)

Room == Len(tun) < MaxTun

Opened(f) == app[f] \in {"syn", "open"}

\* An app opens a connection, or the kernel sends its SYN again.
SendSyn(f) ==
    /\ Room
    /\ app[f] \in {"new", "syn"}
    /\ app' = [app EXCEPT ![f] = "syn"]
    /\ tun' = Append(tun, UpPacket("syn", f.sport, f.ip, f.port))
    /\ UNCHANGED <<mSessionMap, packet, proxy, dest, maker, answered>>

SendData(f) ==
    /\ Room
    /\ app[f] = "open"
    /\ tun' = Append(tun, UpPacket("data", f.sport, f.ip, f.port))
    /\ UNCHANGED <<mSessionMap, packet, app, proxy, dest, maker, answered>>

\* The answer to a SYN that nobody has acknowledged is sent again.
RepeatSynAck(e) ==
    /\ Room
    /\ proxy[e] = "syn"
    /\ tun' = Append(tun, DownPacket("synack", e))
    /\ UNCHANGED <<mSessionMap, packet, app, proxy, dest, maker, answered>>

Reply(e) ==
    /\ Room
    /\ proxy[e] = "accepted" /\ dest[e] # None
    /\ tun' = Append(tun, DownPacket("data", e))
    /\ UNCHANGED <<mSessionMap, packet, app, proxy, dest, maker, answered>>

\* A translated packet of an app arrives at the proxy's end.
ToProxy(p) ==
    LET e == <<p.ip, p.sport>>
        made == p.kind = "syn" /\ proxy[e] = "none"
    IN
    /\ proxy' = [proxy EXCEPT ![e] =
           CASE made -> "syn"
             [] p.kind = "rst" -> "none"
             [] p.kind \in {"ack", "data"} /\ proxy[e] = "syn" -> "backlog"
             [] OTHER -> @]
    /\ maker' = [maker EXCEPT ![e] =
           IF made THEN [sport |-> p.sport, ip |-> p.ip, port |-> p.port] ELSE @]
    /\ tun' = IF p.kind = "syn" /\ proxy[e] \in {"none", "syn"}
              THEN Append(tun, DownPacket("synack", e)) ELSE tun

\* A packet of the proxy arrives at the app's end as if it came from ip:port; the
\* kernel answers a packet that belongs to no connection with a reset.
ToApp(p, ip, port) ==
    LET f == [sport |-> p.sport, ip |-> ip, port |-> port]
        known == f \in Flow /\ Opened(f)
    IN
    /\ app' = IF known /\ p.kind = "synack" THEN [app EXCEPT ![f] = "open"] ELSE app
    /\ answered' = IF known /\ p.kind = "data"
                   THEN answered \cup {<<<<p.ip, p.sport>>, f>>} ELSE answered
    /\ tun' = CASE ~known -> Append(tun, UpPacket("rst", p.sport, ip, port))
                [] known /\ p.kind = "synack" ->
                       Append(tun, UpPacket("ack", p.sport, ip, port))
                [] OTHER -> tun

-----------------------------------------------------------------------------
(* VpnThread *)

\* read: mIPPacket holds the packet.
read ==
    /\ packet = None
    /\ tun # <<>>
    /\ packet' = Head(tun)
    /\ tun' = Tail(tun)
    /\ UNCHANGED <<mSessionMap, app, proxy, dest, maker, answered>>

\* The entry of the packet's source port, or a new one for another destination.
Entry(p) ==
    LET old == mSessionMap[p.sport]
        new == [ip |-> p.ip, port |-> p.port, mPacketsSent |-> 0]
    IN  IF old = None THEN new
        ELSE IF old.ip # p.ip \/ old.port # p.port THEN new ELSE old

\* mPacketsSent++.
Count(n) == IF n = 3 THEN 3 ELSE n + 1

\* Mutant: every packet without data after the first is taken for the second one.
processOutgoing_DropAll(p) ==
    LET iport == [Entry(p) EXCEPT !.mPacketsSent = Count(@)]
        pass == ~(iport.mPacketsSent >= 2 /\ p.kind # "data")
    IN
    /\ mSessionMap' = [mSessionMap EXCEPT ![p.sport] = iport]
    /\ IF pass THEN ToProxy(p) ELSE UNCHANGED <<proxy, maker, tun>>
    /\ UNCHANGED <<app, dest, answered>>

\* A packet of an app is translated, except the second one of its entry when it has
\* no data: that goes back to the device as it came, and the kernel drops it.
processOutgoing(p) ==
    LET iport == [Entry(p) EXCEPT !.mPacketsSent = Count(@)]
        pass == ~(iport.mPacketsSent = 2 /\ p.kind # "data")
    IN
    /\ mSessionMap' = [mSessionMap EXCEPT ![p.sport] = iport]
    /\ IF pass THEN ToProxy(p) ELSE UNCHANGED <<proxy, maker, tun>>
    /\ UNCHANGED <<app, dest, answered>>

\* Mutant: the source address is the entry's, not the one the packet went to.
processIncoming_MapIp(p) ==
    /\ IF mSessionMap[p.sport] # None
       THEN ToApp(p, mSessionMap[p.sport].ip, mSessionMap[p.sport].port)
       ELSE UNCHANGED <<app, answered, tun>>
    /\ UNCHANGED <<mSessionMap, proxy, dest, maker>>

\* A packet of the proxy is translated when its destination port has an entry.
processIncoming(p) ==
    /\ IF mSessionMap[p.sport] # None THEN ToApp(p, p.ip, mSessionMap[p.sport].port)
       ELSE UNCHANGED <<app, answered, tun>>
    /\ UNCHANGED <<mSessionMap, proxy, dest, maker>>

\* processTCPPacket, and the write of the packet to the device.
processTCPPacket ==
    /\ packet # None
    /\ packet' = None
    /\ IF packet.way = "up" THEN processOutgoing(packet) ELSE processIncoming(packet)

-----------------------------------------------------------------------------
(* The selector thread *)

\* Mutant: the address is the map's too.
getDestAddress_Map(e) ==
    IF mSessionMap[e[2]] = None THEN {None}
    ELSE {<<mSessionMap[e[2]].ip, mSessionMap[e[2]].port>>}

\* getDestAddress: the address is the socket's, the port the map's.  While VpnThread
\* puts an entry for a new port the map may be rehashed, and get finds nothing.
getDestAddress(e) ==
    {IF mSessionMap[e[2]] = None THEN None ELSE <<e[1], mSessionMap[e[2]].port>>} \cup
    (IF packet # None /\ packet.way = "up" /\ mSessionMap[packet.sport] = None
     THEN {None} ELSE {})

onAcceptable(e) ==
    /\ proxy[e] = "backlog"
    /\ proxy' = [proxy EXCEPT ![e] = "accepted"]
    /\ \E d \in getDestAddress(e) : dest' = [dest EXCEPT ![e] = d]
    /\ UNCHANGED <<mSessionMap, tun, packet, app, maker, answered>>

-----------------------------------------------------------------------------
Next ==
    \/ \E f \in Flow : SendSyn(f) \/ SendData(f)
    \/ \E e \in End : RepeatSynAck(e) \/ Reply(e) \/ onAcceptable(e)
    \/ read \/ processTCPPacket

\* Both threads go on, and the kernel repeats what is not acknowledged.
Fairness ==
    /\ WF_vars(read) /\ WF_vars(processTCPPacket)
    /\ \A e \in End : WF_vars(onAcceptable(e)) /\ SF_vars(RepeatSynAck(e))
    /\ \A f \in Flow : SF_vars(app[f] = "syn" /\ SendSyn(f))

Spec == Init /\ [][Next]_vars /\ Fairness

-----------------------------------------------------------------------------
(* Properties *)

\* Two connections to different ports have been opened from source port s.
Ambiguous(s) ==
    \E f, g \in Flow :
        /\ f.sport = s /\ g.sport = s /\ f.port # g.port
        /\ Opened(f) /\ Opened(g)

\* An accepted connection is relayed to where its app wanted it, although the entry
\* of its source port may have been replaced by another connection's since its SYN:
\* that does no harm unless the two have different ports (IPPacket.kt:190-196,
\* TCPProxyServer.kt:31-44).  It is left without a destination, and hangs, only
\* through the map's rehashing when another source port is new: its own entry is
\* there before its SYN goes on, and stays.  Entries and packets have their types.
DestinationIsRight ==
    /\ TypeOK
    /\ \A e \in End : proxy[e] = "accepted" =>
        IF dest[e] = None THEN \E f \in Flow : f.sport # e[2] /\ Opened(f)
        ELSE Ambiguous(e[2]) \/ dest[e] = <<maker[e].ip, maker[e].port>>

\* Data of the proxy comes to the app that opened its connection and to no other, and
\* no connection is reset, unless its source port is used for two different ports
\* (IPPacket.kt:179-188).
RepliesReachTheirApp ==
    \A e \in End :
        ~Ambiguous(e[2]) =>
            /\ \A f \in Flow : <<e, f>> \in answered => f = maker[e]
            /\ \A k \in DOMAIN tun : tun[k].sport = e[2] => tun[k].kind # "rst"

\* The proxy accepts every connection an app opens, although the acknowledgement of
\* the handshake is dropped (IPPacket.kt:201-203, TCPProxyServer.kt:114-117).
OpenedIsAccepted ==
    \A f \in Flow :
        Opened(f) ~> proxy[EndOf(f)] = "accepted" \/ Ambiguous(f.sport)
=============================================================================
