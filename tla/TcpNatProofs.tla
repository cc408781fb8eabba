----------------------------- MODULE TcpNatProofs -----------------------------
(***************************************************************************)
(* Proofs about the translation of TCP packets.  The map has one entry for *)
(* each source port, which any connection of that port may have replaced   *)
(* since; the invariant says what is left of a connection in the packets,  *)
(* the map and the proxy's ends whoever wrote the entry last.              *)
(***************************************************************************)
EXTENDS TcpNat, SequenceTheorems, TLAPS

\* The connection a packet of an app says it belongs to.
FlowOf(p) == [sport |-> p.sport, ip |-> p.ip, port |-> p.port]

\* A packet in the device is of a connection an app has opened, a reset that
\* comes of two connections with one source port, or of an end of the proxy that
\* some SYN has made.
Genuine(p) ==
    IF p.way = "up"
    THEN IF p.kind = "rst" THEN Ambiguous(p.sport)
         ELSE FlowOf(p) \in Flow /\ Opened(FlowOf(p))
    ELSE maker[<<p.ip, p.sport>>] # None

Packets == {p \in Up \cup Down : Genuine(p)}

PacketsInv == tun \in Seq(Packets) /\ (packet # None => packet \in Packets)

\* The entry of a source port has the port of a connection opened from there.
MapInv ==
    \A s \in Port : mSessionMap[s] # None =>
        \/ Ambiguous(s)
        \/ \E f \in Flow : f.sport = s /\ Opened(f) /\ f.port = mSessionMap[s].port

\* The SYN that made an end was an open connection's, and left an entry.
MakerInv ==
    \A e \in End : maker[e] # None =>
        maker[e] \in Flow /\ Opened(maker[e]) /\ EndOf(maker[e]) = e /\ mSessionMap[e[2]] # None

ProxyInv == \A e \in End : proxy[e] # "none" => maker[e] # None

DestInv ==
    \A e \in End : proxy[e] = "accepted" =>
        IF dest[e] = None THEN \E f \in Flow : f.sport # e[2] /\ Opened(f)
        ELSE Ambiguous(e[2]) \/ dest[e] = <<maker[e].ip, maker[e].port>>

AnsweredInv ==
    \A e \in End, f \in Flow : <<e, f>> \in answered =>
        maker[e] # None /\ (Ambiguous(e[2]) \/ f = maker[e])

NatInv ==
    /\ TypeOK
    /\ PacketsInv /\ MapInv /\ MakerInv /\ ProxyInv /\ DestInv /\ AnsweredInv

-----------------------------------------------------------------------------
(* Facts about the data *)

LEMMA FlowParts ==
    ASSUME NEW f \in Flow
    PROVE  /\ f.sport \in Port /\ f.ip \in Ip /\ f.port \in DPort
           /\ f = [sport |-> f.sport, ip |-> f.ip, port |-> f.port]
           /\ EndOf(f) \in End
  BY NatAssumption DEF Port, Ip, DPort, EndOf, End

LEMMA EndParts ==
    ASSUME NEW e \in End
    PROVE  e[1] \in Ip /\ e[2] \in Port /\ e = <<e[1], e[2]>>
  BY DEF End

LEMMA UpPacketParts ==
    ASSUME NEW kind \in {"syn", "ack", "data", "rst"}, NEW s \in Port, NEW i \in Ip, NEW d \in DPort
    PROVE  /\ UpPacket(kind, s, i, d) \in Up
           /\ UpPacket(kind, s, i, d).way = "up" /\ UpPacket(kind, s, i, d).kind = kind
           /\ UpPacket(kind, s, i, d).sport = s
           /\ FlowOf(UpPacket(kind, s, i, d)) = [sport |-> s, ip |-> i, port |-> d]
  BY DEF UpPacket, Up, FlowOf

LEMMA DownPacketParts ==
    ASSUME NEW kind \in {"synack", "data"}, NEW e \in End
    PROVE  /\ DownPacket(kind, e) \in Down /\ DownPacket(kind, e).way = "down"
           /\ <<DownPacket(kind, e).ip, DownPacket(kind, e).sport>> = e
  BY EndParts DEF DownPacket, Down

LEMMA NoneApart ==
    /\ \A p \in Up \cup Down : p # None
    /\ \A f \in Flow : f # None
    /\ \A i \in IPort : i # None
    /\ \A d \in Ip \X DPort : d # None
  BY NoneAssumption

\* Two open connections of one source port that is not ambiguous have one port.
LEMMA OnePort ==
    ASSUME NEW f \in Flow, NEW g \in Flow, f.sport = g.sport, Opened(f), Opened(g),
           ~Ambiguous(f.sport)
    PROVE  f.port = g.port
  BY DEF Ambiguous

-----------------------------------------------------------------------------
(* What only grows *)

\* Connections stay opened, ends keep some maker, and entries are replaced but not
\* removed.
Growth ==
    /\ \A f \in Flow : Opened(f) => Opened(f)'
    /\ \A e \in End : maker[e] # None => maker'[e] # None
    /\ \A s \in Port : mSessionMap[s] # None => mSessionMap'[s] # None

LEMMA GrowthKeeps ==
    ASSUME Growth
    PROVE  /\ \A s \in Port : Ambiguous(s) => Ambiguous(s)'
           /\ \A p \in Up \cup Down : Genuine(p) => Genuine(p)'
           /\ Packets \subseteq Packets'
<1>1. \A s \in Port : Ambiguous(s) => Ambiguous(s)'
  BY DEF Growth, Ambiguous
<1>2. ASSUME NEW p \in Up \cup Down, Genuine(p)
      PROVE  Genuine(p)'
  <2>1. p.sport \in Port
    BY DEF Up, Down
  <2>2. CASE p.way = "up"
    BY <1>1, <1>2, <2>1, <2>2 DEF Genuine, Growth
  <2>3. CASE p.way # "up"
    <3>1. <<p.ip, p.sport>> \in End
      BY <2>3 DEF Up, Down, End
    <3>2. QED
      BY <1>2, <2>3, <3>1 DEF Genuine, Growth
  <2>4. QED
    BY <2>2, <2>3
<1>3. QED
  BY <1>1, <1>2 DEF Packets

LEMMA SeqGrows ==
    ASSUME NEW S, NEW T, S \subseteq T, NEW q \in Seq(S)
    PROVE  q \in Seq(T)
<1>1. q \in [1..Len(q) -> T]
  BY LenProperties
<1>2. Len(q) \in Nat
  BY LenProperties
<1>3. QED
  BY <1>1, <1>2, SeqDef

LEMMA PacketsAppended ==
    ASSUME Growth, tun \in Seq(Packets), NEW p \in Packets'
    PROVE  Append(tun, p) \in Seq(Packets')
<1>1. PICK T : T = Packets'
  OBVIOUS
<1>2. tun \in Seq(T)
  BY <1>1, GrowthKeeps, SeqGrows
<1>3. QED
  BY <1>1, <1>2, AppendProperties

LEMMA PacketsKept ==
    ASSUME Growth, tun \in Seq(Packets)
    PROVE  tun \in Seq(Packets')
<1>1. PICK T : T = Packets'
  OBVIOUS
<1>2. QED
  BY <1>1, GrowthKeeps, SeqGrows

\* A packet of an open connection, or of an end with a maker, may be sent.
LEMMA UpIsGenuine ==
    ASSUME NEW kind \in {"syn", "ack", "data"}, NEW f \in Flow, Opened(f)'
    PROVE  UpPacket(kind, f.sport, f.ip, f.port) \in Packets'
<1>1. PICK p : p = UpPacket(kind, f.sport, f.ip, f.port)
  OBVIOUS
<1>2. p \in Up /\ p.way = "up" /\ p.kind = kind /\ FlowOf(p) = f
  BY <1>1, FlowParts, UpPacketParts
<1>3. Genuine(p)'
  BY <1>2 DEF Genuine
<1>4. QED
  BY <1>1, <1>2, <1>3 DEF Packets

LEMMA DownIsGenuine ==
    ASSUME NEW kind \in {"synack", "data"}, NEW e \in End, maker'[e] # None
    PROVE  DownPacket(kind, e) \in Packets'
<1>1. PICK p : p = DownPacket(kind, e)
  OBVIOUS
<1>2. p \in Down /\ p.way = "down" /\ <<p.ip, p.sport>> = e
  BY <1>1, DownPacketParts
<1>3. Genuine(p)'
  BY <1>2 DEF Genuine
<1>4. QED
  BY <1>1, <1>2, <1>3 DEF Packets

-----------------------------------------------------------------------------
(* The kernel's two ends, and the read of a packet *)

\* What a step that changes neither the map nor the ends has to keep.
LEMMA FrameEnds ==
    ASSUME NatInv, Growth, UNCHANGED <<mSessionMap, proxy, dest, maker>>
    PROVE  MapInv' /\ MakerInv' /\ ProxyInv' /\ DestInv'
<1>0. TypeOK /\ MapInv /\ MakerInv /\ ProxyInv /\ DestInv
  BY DEF NatInv
<1>1. \A s \in Port : Ambiguous(s) => Ambiguous(s)'
  BY GrowthKeeps
<1>2. \A e \in End : e[2] \in Port
  BY EndParts
<1>3. MapInv'
  BY <1>0, <1>1 DEF MapInv, Growth
<1>4. MakerInv'
  BY <1>0 DEF MakerInv, Growth
<1>5. ProxyInv'
  BY <1>0 DEF ProxyInv
<1>6. DestInv'
  BY <1>0, <1>1, <1>2 DEF DestInv, Growth
<1>7. QED
  BY <1>3, <1>4, <1>5, <1>6

LEMMA Frame ==
    ASSUME NatInv, Growth, UNCHANGED <<mSessionMap, proxy, dest, maker, answered>>
    PROVE  MapInv' /\ MakerInv' /\ ProxyInv' /\ DestInv' /\ AnsweredInv'
<1>1. \A e \in End : e[2] \in Port /\ (Ambiguous(e[2]) => Ambiguous(e[2])')
  BY EndParts, GrowthKeeps
<1>2. AnsweredInv'
  BY <1>1 DEF AnsweredInv, NatInv
<1>3. QED
  BY <1>2, FrameEnds

\* Types follow from those of the parts that change.
LEMMA PacketsType ==
    ASSUME NEW S, S \subseteq Up \cup Down, NEW q \in Seq(S)
    PROVE  q \in Seq(Up \cup Down)
  BY SeqGrows

LEMMA PacketsAfter == Packets \subseteq Up \cup Down /\ Packets' \subseteq Up \cup Down
  BY DEF Packets

LEMMA SendInv ==
    ASSUME NatInv, NEW f \in Flow, SendSyn(f) \/ SendData(f)
    PROVE  NatInv'
<1>0. TypeOK /\ PacketsInv
  BY DEF NatInv
<1>1. app' \in [Flow -> {"unused", "new", "syn", "open"}]
  BY <1>0 DEF TypeOK, SendSyn, SendData
<1>2. Growth
  <2>1. \A g \in Flow : Opened(g) => Opened(g)'
    BY <1>0 DEF TypeOK, SendSyn, SendData, Opened
  <2>2. QED
    BY <2>1 DEF SendSyn, SendData, Growth
<1>3. Opened(f)'
  BY <1>0 DEF TypeOK, SendSyn, SendData, Opened
<1>4. PICK kind \in {"syn", "ack", "data"} :
        tun' = Append(tun, UpPacket(kind, f.sport, f.ip, f.port))
  BY DEF SendSyn, SendData
<1>5. tun' \in Seq(Packets')
  BY <1>0, <1>2, <1>3, <1>4, UpIsGenuine, PacketsAppended DEF PacketsInv
<1>6. PacketsInv'
  BY <1>0, <1>2, <1>5, GrowthKeeps DEF PacketsInv, SendSyn, SendData
<1>7. MapInv' /\ MakerInv' /\ ProxyInv' /\ DestInv' /\ AnsweredInv'
  BY <1>2, Frame DEF SendSyn, SendData
<1>8. tun' \in Seq(Up \cup Down)
  BY <1>5, PacketsAfter, PacketsType
<1>9. TypeOK'
  BY <1>0, <1>1, <1>8 DEF TypeOK, SendSyn, SendData
<1>10. QED
  BY <1>6, <1>7, <1>9 DEF NatInv

LEMMA AnswerInv ==
    ASSUME NatInv, NEW e \in End, RepeatSynAck(e) \/ Reply(e)
    PROVE  NatInv'
<1>0. TypeOK /\ PacketsInv /\ ProxyInv
  BY DEF NatInv
<1>1. Growth
  BY DEF RepeatSynAck, Reply, Growth, Opened
<1>2. maker'[e] # None
  BY <1>0 DEF ProxyInv, RepeatSynAck, Reply
<1>3. PICK kind \in {"synack", "data"} : tun' = Append(tun, DownPacket(kind, e))
  BY DEF RepeatSynAck, Reply
<1>4. tun' \in Seq(Packets')
  BY <1>0, <1>1, <1>2, <1>3, DownIsGenuine, PacketsAppended DEF PacketsInv
<1>5. PacketsInv'
  BY <1>0, <1>1, <1>4, GrowthKeeps DEF PacketsInv, RepeatSynAck, Reply
<1>6. MapInv' /\ MakerInv' /\ ProxyInv' /\ DestInv' /\ AnsweredInv'
  BY <1>1, Frame DEF RepeatSynAck, Reply
<1>7. tun' \in Seq(Up \cup Down)
  BY <1>4, PacketsAfter, PacketsType
<1>8. TypeOK'
  BY <1>0, <1>7 DEF TypeOK, RepeatSynAck, Reply
<1>9. QED
  BY <1>5, <1>6, <1>8 DEF NatInv

LEMMA ReadInv ==
    ASSUME NatInv, read
    PROVE  NatInv'
<1>0. TypeOK /\ PacketsInv
  BY DEF NatInv
<1>1. Growth
  BY DEF read, Growth, Opened
<1>2. Head(tun) \in Packets /\ Tail(tun) \in Seq(Packets)
  BY <1>0, HeadTailProperties DEF PacketsInv, read
<1>3. PICK q : q = Tail(tun)
  OBVIOUS
<1>4. tun' \in Seq(Packets') /\ packet' \in Packets'
  BY <1>1, <1>2, <1>3, GrowthKeeps, SeqGrows DEF read
<1>5. MapInv' /\ MakerInv' /\ ProxyInv' /\ DestInv' /\ AnsweredInv'
  BY <1>1, Frame DEF read
<1>6. tun' \in Seq(Up \cup Down) /\ packet' \in Up \cup Down
  BY <1>4, PacketsAfter, PacketsType
<1>7. TypeOK'
  BY <1>0, <1>6 DEF TypeOK, read
<1>8. QED
  BY <1>4, <1>5, <1>7 DEF NatInv, PacketsInv

-----------------------------------------------------------------------------
(* The accepting side *)

LEMMA AcceptInv ==
    ASSUME NatInv, NEW e \in End, onAcceptable(e)
    PROVE  NatInv'
<1>0. TypeOK /\ PacketsInv /\ MapInv /\ MakerInv /\ ProxyInv /\ DestInv /\ AnsweredInv
  BY DEF NatInv
<1>1. PICK d \in getDestAddress(e) : dest' = [dest EXCEPT ![e] = d]
  BY DEF onAcceptable
<1>2. Growth
  BY DEF onAcceptable, Growth, Opened
<1>3. e[1] \in Ip /\ e[2] \in Port
  BY EndParts
<1>4. proxy[e] # "none" /\ maker[e] # None
  BY <1>0 DEF ProxyInv, onAcceptable
<1>5. /\ maker[e] \in Flow /\ Opened(maker[e]) /\ maker[e].ip = e[1] /\ maker[e].sport = e[2]
      /\ mSessionMap[e[2]] # None
  BY <1>0, <1>3, <1>4 DEF MakerInv, EndOf
<1>6. mSessionMap[e[2]] \in IPort
  BY <1>0, <1>3, <1>5 DEF TypeOK
<1>7. <<e[1], mSessionMap[e[2]].port>> \in Ip \X DPort
  BY <1>3, <1>6 DEF IPort
<1> DEFINE Right == /\ d \in (Ip \X DPort) \cup {None}
                    /\ IF d = None THEN \E f \in Flow : f.sport # e[2] /\ Opened(f)
                       ELSE Ambiguous(e[2]) \/ d = <<maker[e].ip, maker[e].port>>
<1>8. ASSUME d = <<e[1], mSessionMap[e[2]].port>> PROVE Right
  <2>1. d # None
    BY <1>7, <1>8, NoneApart
  <2>2. Ambiguous(e[2]) \/ mSessionMap[e[2]].port = maker[e].port
    <3>1. SUFFICES ASSUME ~Ambiguous(e[2]) PROVE mSessionMap[e[2]].port = maker[e].port
      OBVIOUS
    <3>2. PICK f \in Flow : f.sport = e[2] /\ Opened(f) /\ f.port = mSessionMap[e[2]].port
      BY <1>0, <1>3, <1>5, <3>1 DEF MapInv
    <3>3. QED
      BY <1>5, <3>1, <3>2, OnePort
  <2>3. QED
    BY <1>5, <1>7, <1>8, <2>1, <2>2
<1>9. ASSUME d = None, packet # None, packet.way = "up", mSessionMap[packet.sport] = None
      PROVE  Right
  <2>1. packet \in Packets /\ packet \in Up
    BY <1>0, <1>9 DEF PacketsInv, Packets, Down
  <2>2. packet.sport # e[2]
    BY <1>5, <1>9
  <2>3. \E f \in Flow : f.sport # e[2] /\ Opened(f)
    <3>1. CASE packet.kind = "rst"
      BY <1>9, <2>1, <2>2, <3>1 DEF Packets, Genuine, Ambiguous
    <3>2. CASE packet.kind # "rst"
      BY <1>9, <2>1, <2>2, <3>2 DEF Packets, Genuine, FlowOf
    <3>3. QED
      BY <3>1, <3>2
  <2>4. QED
    BY <1>9, <2>3
<1>10. Right
  BY <1>1, <1>5, <1>8, <1>9 DEF getDestAddress
<1>11. DestInv'
  <2>1. /\ proxy'[e] = "accepted" /\ dest'[e] = d
        /\ \A x \in End : x # e => proxy'[x] = proxy[x] /\ dest'[x] = dest[x]
    BY <1>0, <1>1 DEF TypeOK, onAcceptable
  <2>2. maker' = maker /\ app' = app
    BY DEF onAcceptable
  <2>3. \A x \in End : Ambiguous(x[2])' <=> Ambiguous(x[2])
    BY <2>2 DEF Ambiguous, Opened
  <2>4. \A f \in Flow : Opened(f)' <=> Opened(f)
    BY <2>2 DEF Opened
  <2> HIDE DEF Right
  <2>5. ASSUME NEW x \in End, proxy'[x] = "accepted", x # e
        PROVE  IF dest'[x] = None THEN \E f \in Flow : f.sport # x[2] /\ Opened(f)'
               ELSE Ambiguous(x[2])' \/ dest'[x] = <<maker'[x].ip, maker'[x].port>>
    BY <1>0, <2>1, <2>2, <2>3, <2>4, <2>5 DEF DestInv
  <2>6. IF dest'[e] = None THEN \E f \in Flow : f.sport # e[2] /\ Opened(f)'
        ELSE Ambiguous(e[2])' \/ dest'[e] = <<maker'[e].ip, maker'[e].port>>
    BY <1>10, <2>1, <2>2, <2>3, <2>4 DEF Right
  <2>7. QED
    BY <2>5, <2>6 DEF DestInv
<1>12. dest' \in [End -> (Ip \X DPort) \cup {None}]
  BY <1>0, <1>1, <1>10 DEF TypeOK
<1>13. proxy' \in [End -> {"none", "syn", "backlog", "accepted"}]
  BY <1>0 DEF TypeOK, onAcceptable
<1>14. TypeOK'
  BY <1>0, <1>12, <1>13 DEF TypeOK, onAcceptable
<1>15. PacketsInv'
  BY <1>0, <1>2, PacketsKept, GrowthKeeps DEF PacketsInv, onAcceptable
<1>16. MapInv' /\ MakerInv' /\ AnsweredInv'
  BY <1>0 DEF MapInv, MakerInv, AnsweredInv, onAcceptable, Ambiguous, Opened
<1>17. ProxyInv'
  BY <1>0, <1>4 DEF ProxyInv, onAcceptable, TypeOK
<1>18. QED
  BY <1>11, <1>14, <1>15, <1>16, <1>17 DEF NatInv

-----------------------------------------------------------------------------
(* VpnThread: packets of the apps *)

\* The entry of a packet's source port after the packet.
Counted(p) == [Entry(p) EXCEPT !.mPacketsSent = Count(@)]

LEMMA EntryWritten ==
    ASSUME TypeOK, NEW p \in Up
    PROVE  Counted(p) \in IPort /\ Counted(p).port = p.port
<1>1. p.sport \in Port /\ p.ip \in Ip /\ p.port \in DPort
  BY DEF Up
<1>2. mSessionMap[p.sport] \in IPort \cup {None}
  BY <1>1 DEF TypeOK
<1>3. Entry(p) \in IPort /\ Entry(p).port = p.port
  BY <1>1, <1>2 DEF Entry, IPort
<1>4. \A n \in 0..3 : Count(n) \in 0..3
  BY DEF Count
<1>5. QED
  BY <1>3, <1>4 DEF Counted, IPort

\* What the proxy's ends are after a packet of an app, whether it is passed on or not.
EndStep(p) ==
    LET e == <<p.ip, p.sport>>
        made == p.kind = "syn" /\ proxy[e] = "none" /\ proxy'[e] = "syn" /\ maker'[e] = FlowOf(p)
    IN
    /\ \A x \in End : x # e => proxy'[x] = proxy[x] /\ maker'[x] = maker[x]
    /\ \/ made
       \/ /\ maker'[e] = maker[e]
          /\ proxy'[e] # "none" => proxy[e] # "none"
          /\ proxy'[e] = "accepted" => proxy[e] = "accepted"
    /\ \/ tun' = tun
       \/ /\ tun' = Append(tun, DownPacket("synack", e))
          /\ made \/ (proxy[e] = "syn" /\ maker'[e] = maker[e])

LEMMA ToProxyStep ==
    ASSUME TypeOK, NEW p \in Up, ToProxy(p)
    PROVE  /\ EndStep(p)
           /\ proxy' \in [End -> {"none", "syn", "backlog", "accepted"}]
           /\ DOMAIN maker' = End
<1> DEFINE e == <<p.ip, p.sport>>
           made == p.kind = "syn" /\ proxy[e] = "none"
           new == CASE made -> "syn"
                    [] p.kind = "rst" -> "none"
                    [] p.kind \in {"ack", "data"} /\ proxy[e] = "syn" -> "backlog"
                    [] OTHER -> proxy[e]
           by == IF made THEN FlowOf(p) ELSE maker[e]
<1>1. e \in End /\ p.kind \in {"syn", "ack", "data", "rst"}
  BY DEF Up, End
<1>2. /\ proxy' = [proxy EXCEPT ![e] = new]
      /\ maker' = [maker EXCEPT ![e] = by]
      /\ tun' = IF p.kind = "syn" /\ proxy[e] \in {"none", "syn"}
                THEN Append(tun, DownPacket("synack", e)) ELSE tun
  BY Zenon DEF ToProxy, FlowOf
<1>3. made => new = "syn"
  BY DEF new
<1>4. ~made => new \in {"none", "backlog", proxy[e]} /\ (new = "backlog" => proxy[e] \in {"syn", "backlog"})
  <2>1. CASE p.kind = "rst"
    BY <2>1
  <2>2. CASE p.kind \in {"ack", "data"} /\ proxy[e] = "syn"
    BY <2>2
  <2>3. CASE ~made /\ p.kind # "rst" /\ ~(p.kind \in {"ack", "data"} /\ proxy[e] = "syn")
    BY <2>3
  <2>4. QED
    BY <2>1, <2>2, <2>3
<1> HIDE DEF new, by, made
<1>5. DOMAIN proxy = End /\ DOMAIN maker = End /\ proxy[e] \in {"none", "syn", "backlog", "accepted"}
  BY <1>1 DEF TypeOK
<1>6. proxy'[e] = new /\ maker'[e] = by
      /\ \A x \in End : x # e => proxy'[x] = proxy[x] /\ maker'[x] = maker[x]
  BY <1>1, <1>2, <1>5
<1>7. new \in {"none", "syn", "backlog", "accepted"}
  BY <1>3, <1>4, <1>5
<1>8. CASE made
  <2>1. p.kind = "syn" /\ proxy[e] = "none" /\ proxy'[e] = "syn" /\ maker'[e] = FlowOf(p)
    BY <1>3, <1>6, <1>8 DEF made, by
  <2>2. tun' = Append(tun, DownPacket("synack", e))
    BY <1>2, <2>1
  <2>3. EndStep(p)
    BY <1>6, <2>1, <2>2, Zenon DEF EndStep
  <2>4. QED
    BY <1>1, <1>2, <1>5, <1>7, <2>3 DEF TypeOK
<1>9. CASE ~made
  <2>1. maker'[e] = maker[e]
    BY <1>6, <1>9 DEF by
  <2>2. /\ proxy'[e] # "none" => proxy[e] # "none"
        /\ proxy'[e] = "accepted" => proxy[e] = "accepted"
    BY <1>4, <1>5, <1>6, <1>9
  <2>3. tun' = tun \/ (tun' = Append(tun, DownPacket("synack", e)) /\ proxy[e] = "syn")
    BY <1>2, <1>9 DEF made
  <2>4. EndStep(p)
    BY <1>6, <2>1, <2>2, <2>3 DEF EndStep
  <2>5. QED
    BY <1>1, <1>2, <1>5, <1>7, <2>4 DEF TypeOK
<1>10. QED
  BY <1>8, <1>9

LEMMA OutgoingInv ==
    ASSUME NatInv, NEW p \in Up, p \in Packets, packet' = None, processOutgoing(p)
    PROVE  NatInv'
<1> DEFINE e == <<p.ip, p.sport>>
<1>0. TypeOK /\ PacketsInv /\ MapInv /\ MakerInv /\ ProxyInv /\ DestInv /\ AnsweredInv
  BY DEF NatInv
<1>1. /\ e \in End /\ e[1] = p.ip /\ e[2] = p.sport /\ p.sport \in Port
      /\ p.way = "up"
  BY DEF Up, End
<1>2. /\ mSessionMap' = [mSessionMap EXCEPT ![p.sport] = Counted(p)]
      /\ ToProxy(p) \/ UNCHANGED <<proxy, maker, tun>>
      /\ app' = app /\ dest' = dest /\ answered' = answered
  BY DEF processOutgoing, Counted
<1>3. /\ EndStep(p)
      /\ proxy' \in [End -> {"none", "syn", "backlog", "accepted"}]
      /\ DOMAIN maker' = End
  <2>1. CASE ToProxy(p)
    BY <1>0, <2>1, ToProxyStep
  <2>2. CASE UNCHANGED <<proxy, maker, tun>>
    BY <1>0, <2>2 DEF EndStep, TypeOK
  <2>3. QED
    BY <1>2, <2>1, <2>2
<1>4. Counted(p) \in IPort /\ Counted(p).port = p.port /\ Counted(p) # None
  BY <1>0, EntryWritten, NoneApart
<1>5. /\ mSessionMap' \in [Port -> IPort \cup {None}]
      /\ mSessionMap'[p.sport] = Counted(p)
      /\ \A s \in Port : s # p.sport => mSessionMap'[s] = mSessionMap[s]
  BY <1>0, <1>1, <1>2, <1>4 DEF TypeOK
<1>6. \A f \in Flow : Opened(f)' <=> Opened(f)
  BY <1>2 DEF Opened
<1>7. \A s \in Port : Ambiguous(s)' <=> Ambiguous(s)
  BY <1>6 DEF Ambiguous
<1>8. p.kind # "rst" => FlowOf(p) \in Flow /\ Opened(FlowOf(p))
  BY <1>1 DEF Packets, Genuine
<1>9. p.kind = "rst" => Ambiguous(p.sport)
  BY <1>1 DEF Packets, Genuine
<1>10. FlowOf(p).sport = p.sport /\ FlowOf(p).ip = p.ip /\ FlowOf(p).port = p.port
  BY DEF FlowOf
<1> DEFINE made == /\ p.kind = "syn" /\ proxy[e] = "none" /\ proxy'[e] = "syn"
                   /\ maker'[e] = FlowOf(p)
<1>11. /\ \A x \in End : x # e => proxy'[x] = proxy[x] /\ maker'[x] = maker[x]
       /\ \/ made
          \/ /\ maker'[e] = maker[e]
             /\ proxy'[e] # "none" => proxy[e] # "none"
             /\ proxy'[e] = "accepted" => proxy[e] = "accepted"
       /\ \/ tun' = tun
          \/ /\ tun' = Append(tun, DownPacket("synack", e))
             /\ made \/ (proxy[e] = "syn" /\ maker'[e] = maker[e])
  BY <1>3, Zenon DEF EndStep
<1>12. made => FlowOf(p) \in Flow /\ Opened(FlowOf(p)) /\ maker'[e] # None
  BY <1>8, NoneApart
<1>13. Growth
  <2>1. \A x \in End : maker[x] # None => maker'[x] # None
    BY <1>11, <1>12
  <2>2. \A s \in Port : mSessionMap[s] # None => mSessionMap'[s] # None
    BY <1>4, <1>5
  <2>3. QED
    BY <1>6, <2>1, <2>2 DEF Growth
<1>14. MapInv'
  <2>1. ASSUME NEW s \in Port, mSessionMap'[s] # None
        PROVE  \/ Ambiguous(s)'
               \/ \E f \in Flow : f.sport = s /\ Opened(f)' /\ f.port = mSessionMap'[s].port
    <3>1. CASE s # p.sport
      BY <1>0, <1>5, <1>6, <1>7, <2>1, <3>1 DEF MapInv
    <3>2. CASE s = p.sport /\ p.kind = "rst"
      BY <1>7, <1>9, <3>2
    <3>3. CASE s = p.sport /\ p.kind # "rst"
      BY <1>4, <1>5, <1>6, <1>8, <1>10, <3>3
    <3>4. QED
      BY <3>1, <3>2, <3>3
  <2>2. QED
    BY <2>1 DEF MapInv
<1>15. MakerInv'
  <2>1. ASSUME NEW x \in End, maker'[x] # None
        PROVE  maker'[x] \in Flow /\ Opened(maker[x])' /\ EndOf(maker'[x]) = x
               /\ mSessionMap'[x[2]] # None
    <3>1. CASE maker'[x] = maker[x]
      <4>1. maker[x] \in Flow /\ Opened(maker[x]) /\ EndOf(maker[x]) = x /\ mSessionMap[x[2]] # None
        BY <1>0, <2>1, <3>1 DEF MakerInv
      <4>2. mSessionMap'[x[2]] # None
        BY <1>13, <4>1, EndParts DEF Growth
      <4>3. QED
        BY <1>2, <3>1, <4>1, <4>2 DEF Opened
    <3>2. CASE maker'[x] # maker[x]
      <4>1. x = e /\ made
        BY <1>11, <3>2
      <4>2. EndOf(FlowOf(p)) = e
        BY <1>10 DEF EndOf
      <4>3. mSessionMap'[x[2]] # None
        BY <1>1, <1>4, <1>5, <4>1
      <4>4. Opened(maker[x])'
        BY <1>2, <1>12, <4>1 DEF Opened
      <4>5. QED
        BY <1>12, <4>1, <4>2, <4>3, <4>4
    <3>3. QED
      BY <3>1, <3>2
  <2>2. QED
    BY <2>1 DEF MakerInv
<1>16. ProxyInv'
  BY <1>0, <1>11, <1>12 DEF ProxyInv
<1>17. DestInv'
  <2>1. ASSUME NEW x \in End, proxy'[x] = "accepted"
        PROVE  proxy[x] = "accepted" /\ maker'[x] = maker[x]
    BY <1>11, <2>1
  <2>2. \A x \in End : Ambiguous(x[2])' <=> Ambiguous(x[2])
    BY <1>7, EndParts
  <2>3. QED
    BY <1>0, <1>2, <1>6, <2>1, <2>2 DEF DestInv
<1>18. AnsweredInv'
  <2>1. ASSUME NEW x \in End, NEW f \in Flow, <<x, f>> \in answered
        PROVE  maker'[x] # None /\ (Ambiguous(x[2]) \/ f = maker'[x])
    <3>1. maker[x] # None /\ (Ambiguous(x[2]) \/ f = maker[x])
      BY <1>0, <2>1 DEF AnsweredInv
    <3>2. CASE maker'[x] = maker[x]
      BY <3>1, <3>2
    <3>3. CASE maker'[x] # maker[x]
      <4>1. x = e /\ made
        BY <1>11, <3>3
      <4>2. maker[e] \in Flow /\ Opened(maker[e]) /\ maker[e].ip = p.ip /\ maker[e].sport = p.sport
        BY <1>0, <1>1, <3>1, <4>1 DEF MakerInv, EndOf
      <4>3. PICK g \in Flow : g = FlowOf(p)
        BY <1>12, <4>1
      <4>4. PICK h \in Flow : h = maker[e]
        BY <4>2
      <4>5. Opened(g) /\ Opened(h) /\ g.sport = h.sport /\ g.ip = h.ip /\ g.sport = x[2]
        BY <1>1, <1>10, <1>12, <4>1, <4>2, <4>3, <4>4
      <4>6. ~Ambiguous(x[2]) => g = h
        BY <4>5, OnePort, FlowParts
      <4>7. QED
        BY <1>12, <3>1, <4>1, <4>3, <4>4, <4>6
    <3>4. QED
      BY <3>2, <3>3
  <2>2. \A x \in End : Ambiguous(x[2])' <=> Ambiguous(x[2])
    BY <1>7, EndParts
  <2>3. QED
    BY <1>2, <2>1, <2>2 DEF AnsweredInv
<1>19. tun' \in Seq(Packets')
  <2>1. CASE tun' = tun
    BY <1>0, <1>13, <2>1, PacketsKept DEF PacketsInv
  <2>2. CASE /\ tun' = Append(tun, DownPacket("synack", e))
             /\ made \/ (proxy[e] = "syn" /\ maker'[e] = maker[e])
    <3>1. maker'[e] # None
      BY <1>0, <1>1, <1>12, <2>2 DEF ProxyInv
    <3>2. DownPacket("synack", e) \in Packets'
      BY <1>1, <3>1, DownIsGenuine
    <3>3. QED
      BY <1>0, <1>13, <2>2, <3>2, PacketsAppended DEF PacketsInv
  <2>3. QED
    BY <1>11, <2>1, <2>2
<1>20. maker' \in [End -> Flow \cup {None}]
  <2>1. \A x \in End : maker'[x] \in Flow \cup {None}
    BY <1>15 DEF MakerInv
  <2>2. maker' = [x \in End |-> maker'[x]]
    <3>1. CASE ToProxy(p)
      BY <1>0, <3>1 DEF ToProxy, TypeOK
    <3>2. CASE maker' = maker
      BY <1>0, <3>2 DEF TypeOK
    <3>3. QED
      BY <1>2, <3>1, <3>2
  <2>3. QED
    BY <2>1, <2>2
<1>21. tun' \in Seq(Up \cup Down)
  BY <1>19, PacketsAfter, PacketsType
<1>22. TypeOK'
  BY <1>0, <1>2, <1>3, <1>5, <1>20, <1>21 DEF TypeOK
<1>23. QED
  BY <1>14, <1>15, <1>16, <1>17, <1>18, <1>19, <1>22 DEF NatInv, PacketsInv

-----------------------------------------------------------------------------
(* VpnThread: packets of the proxy *)

\* A reset is only ever sent when the source port is ambiguous.
LEMMA ResetIsGenuine ==
    ASSUME NEW s \in Port, NEW i \in Ip, NEW d \in DPort, Ambiguous(s)'
    PROVE  UpPacket("rst", s, i, d) \in Packets'
<1>1. PICK p : p = UpPacket("rst", s, i, d)
  OBVIOUS
<1>2. p \in Up /\ p.way = "up" /\ p.kind = "rst" /\ p.sport = s
  BY <1>1, UpPacketParts
<1>3. Genuine(p)'
  BY <1>2 DEF Genuine
<1>4. QED
  BY <1>1, <1>2, <1>3 DEF Packets

LEMMA IncomingInv ==
    ASSUME NatInv, NEW p \in Down, p \in Packets, packet' = None, processIncoming(p)
    PROVE  NatInv'
<1> DEFINE e == <<p.ip, p.sport>>
           port == mSessionMap[p.sport].port
           f == [sport |-> p.sport, ip |-> p.ip, port |-> port]
           known == f \in Flow /\ Opened(f)
<1>0. TypeOK /\ PacketsInv /\ MapInv /\ MakerInv /\ ProxyInv /\ DestInv /\ AnsweredInv
  BY DEF NatInv
<1>1. /\ e \in End /\ e[1] = p.ip /\ e[2] = p.sport /\ p.sport \in Port /\ p.ip \in Ip
      /\ p.way # "up" /\ p.kind \in {"synack", "data"}
  BY DEF Down, End
<1>2. maker[e] # None
  BY <1>1 DEF Packets, Genuine
<1>3. /\ maker[e] \in Flow /\ Opened(maker[e]) /\ maker[e].ip = p.ip /\ maker[e].sport = p.sport
      /\ mSessionMap[p.sport] # None
  BY <1>0, <1>1, <1>2 DEF MakerInv, EndOf
<1>4. mSessionMap[p.sport] \in IPort /\ port \in DPort
  BY <1>0, <1>1, <1>3 DEF TypeOK, IPort
<1>5. ToApp(p, p.ip, port) /\ UNCHANGED <<mSessionMap, proxy, dest, maker>>
  BY <1>3 DEF processIncoming
\* Where the source port is not ambiguous the packet reaches the maker of its end.
<1>6. Ambiguous(p.sport) \/ (known /\ f = maker[e])
  <2>1. SUFFICES ASSUME ~Ambiguous(p.sport) PROVE f = maker[e]
    BY <1>3
  <2>2. PICK g \in Flow : g.sport = p.sport /\ Opened(g) /\ g.port = port
    BY <1>0, <1>1, <1>3, <2>1 DEF MapInv
  <2>3. PICK h \in Flow : h = maker[e]
    BY <1>3
  <2>4. h.port = port
    BY <1>3, <2>1, <2>2, <2>3, OnePort
  <2>5. QED
    BY <1>3, <2>3, <2>4, FlowParts
<1>7. /\ app' = IF known /\ p.kind = "synack" THEN [app EXCEPT ![f] = "open"] ELSE app
      /\ answered' = IF known /\ p.kind = "data" THEN answered \cup {<<e, f>>} ELSE answered
  BY <1>5 DEF ToApp
<1>8. \/ ~known /\ tun' = Append(tun, UpPacket("rst", p.sport, p.ip, port))
      \/ known /\ tun' = Append(tun, UpPacket("ack", p.sport, p.ip, port))
      \/ tun' = tun
  <2>1. tun' = CASE ~known -> Append(tun, UpPacket("rst", p.sport, p.ip, port))
                 [] known /\ p.kind = "synack" ->
                        Append(tun, UpPacket("ack", p.sport, p.ip, port))
                 [] OTHER -> tun
    BY <1>5 DEF ToApp
  <2> HIDE DEF known
  <2>2. QED
    BY <2>1
<1> HIDE DEF known
<1>9. known => f \in Flow /\ Opened(f)
  BY DEF known
<1>10. app' \in [Flow -> {"unused", "new", "syn", "open"}]
  BY <1>0, <1>7, <1>9 DEF TypeOK
<1>11. \A g \in Flow : Opened(g) => Opened(g)'
  BY <1>0, <1>7, <1>9 DEF TypeOK, Opened
<1>12. Growth
  BY <1>5, <1>11 DEF Growth
<1>13. MapInv' /\ MakerInv' /\ ProxyInv' /\ DestInv'
  BY <1>5, <1>12, FrameEnds
<1>14. \A x \in End : Ambiguous(x[2]) => Ambiguous(x[2])'
  BY <1>12, GrowthKeeps, EndParts
<1>15. AnsweredInv'
  <2>1. ASSUME NEW x \in End, NEW g \in Flow, <<x, g>> \in answered'
        PROVE  maker[x] # None /\ (Ambiguous(x[2]) \/ g = maker[x])
    <3>1. CASE <<x, g>> \in answered
      BY <1>0, <3>1 DEF AnsweredInv
    <3>2. CASE <<x, g>> \notin answered
      <4>1. x = e /\ g = f
        BY <1>7, <2>1, <3>2
      <4>2. QED
        BY <1>1, <1>2, <1>6, <4>1
    <3>3. QED
      BY <3>1, <3>2
  <2>2. QED
    BY <1>5, <1>14, <2>1 DEF AnsweredInv
<1>16. tun' \in Seq(Packets')
  <2>1. CASE ~known /\ tun' = Append(tun, UpPacket("rst", p.sport, p.ip, port))
    <3>1. Ambiguous(p.sport)'
      BY <1>6, <1>1, <1>12, <2>1, GrowthKeeps
    <3>2. UpPacket("rst", p.sport, p.ip, port) \in Packets'
      BY <1>1, <1>4, <3>1, ResetIsGenuine
    <3>3. QED
      BY <1>0, <1>12, <2>1, <3>2, PacketsAppended DEF PacketsInv
  <2>2. CASE known /\ tun' = Append(tun, UpPacket("ack", p.sport, p.ip, port))
    <3>1. PICK g \in Flow : g = f
      BY <1>9, <2>2
    <3>2. Opened(g)' /\ g.sport = p.sport /\ g.ip = p.ip /\ g.port = port
      BY <1>9, <1>11, <2>2, <3>1
    <3>3. UpPacket("ack", p.sport, p.ip, port) \in Packets'
      BY <3>2, UpIsGenuine
    <3>4. QED
      BY <1>0, <1>12, <2>2, <3>3, PacketsAppended DEF PacketsInv
  <2>3. CASE tun' = tun
    BY <1>0, <1>12, <2>3, PacketsKept DEF PacketsInv
  <2>4. QED
    BY <1>8, <2>1, <2>2, <2>3
<1>17. tun' \in Seq(Up \cup Down)
  BY <1>16, PacketsAfter, PacketsType
<1>18. answered' \subseteq End \X Flow
  BY <1>0, <1>1, <1>7, <1>9 DEF TypeOK
<1>19. TypeOK'
  BY <1>0, <1>5, <1>10, <1>17, <1>18 DEF TypeOK
<1>20. QED
  BY <1>13, <1>15, <1>16, <1>19 DEF NatInv, PacketsInv

-----------------------------------------------------------------------------
(* The theorems *)

LEMMA NatInvInit == Init => NatInv
<1> SUFFICES ASSUME Init PROVE NatInv
  OBVIOUS
<1>1. PICK F \in Together : app = [f \in Flow |-> IF f \in F THEN "new" ELSE "unused"]
  BY DEF Init
<1>2. app \in [Flow -> {"unused", "new", "syn", "open"}]
  BY <1>1
<1>3. tun \in Seq(Up \cup Down) /\ tun \in Seq(Packets)
  BY EmptySeq DEF Init
<1>4. TypeOK
  BY <1>2, <1>3 DEF Init, TypeOK
<1>5. QED
  BY <1>3, <1>4 DEF Init, NatInv, PacketsInv, MapInv, MakerInv, ProxyInv, DestInv, AnsweredInv

LEMMA NatInvNext == NatInv /\ [Next]_vars => NatInv'
<1> SUFFICES ASSUME NatInv, [Next]_vars PROVE NatInv'
  OBVIOUS
<1>1. CASE \E f \in Flow : SendSyn(f) \/ SendData(f)
  BY <1>1, SendInv
<1>2. CASE \E e \in End : RepeatSynAck(e) \/ Reply(e) \/ onAcceptable(e)
  BY <1>2, AnswerInv, AcceptInv
<1>3. CASE read
  BY <1>3, ReadInv
<1>4. CASE processTCPPacket
  <2>1. PICK p : p = packet
    OBVIOUS
  <2>2. p \in Packets /\ packet' = None
    BY <1>4, <2>1 DEF processTCPPacket, NatInv, PacketsInv
  <2>3. CASE p.way = "up"
    <3>1. p \in Up
      BY <2>2, <2>3 DEF Packets, Down
    <3>2. QED
      BY <1>4, <2>1, <2>2, <2>3, <3>1, OutgoingInv DEF processTCPPacket
  <2>4. CASE p.way # "up"
    <3>1. p \in Down
      BY <2>2, <2>4 DEF Packets, Up
    <3>2. QED
      BY <1>4, <2>1, <2>2, <2>4, <3>1, IncomingInv DEF processTCPPacket
  <2>5. QED
    BY <2>3, <2>4
<1>5. CASE UNCHANGED vars
  BY <1>5 DEF vars, NatInv, TypeOK, PacketsInv, Packets, Genuine, MapInv, MakerInv,
              ProxyInv, DestInv, AnsweredInv, Ambiguous, Opened
<1>6. QED
  BY <1>1, <1>2, <1>3, <1>4, <1>5 DEF Next

\* The inductive invariant of the translation: whatever connections share source
\* ports and however their packets and the acceptor interleave, every packet in the
\* device belongs to an opened connection or a made end, and every entry to an
\* opened connection of its source port.
THEOREM NatInvariant == Spec => []NatInv
  BY NatInvInit, NatInvNext, PTL DEF Spec

\* For every set of connections, an accepted connection is relayed to where its app
\* wanted it, unless its source port is used for two ports; it is without destination
\* only through a rehash of the map (IPPacket.kt processOutgoing,
\* TCPProxyServer.kt getDestAddress).
THEOREM DestinationsAreRight == Spec => []DestinationIsRight
<1>1. NatInv => DestinationIsRight
  BY DEF NatInv, DestInv, DestinationIsRight
<1>2. QED
  BY <1>1, NatInvariant, PTL

\* For every set of connections, data of the proxy comes to the app that opened its
\* connection and no connection is reset, unless its source port is used for two
\* ports (IPPacket.kt processIncoming).
THEOREM RepliesFindTheirApp == Spec => []RepliesReachTheirApp
<1>1. ASSUME NatInv, NEW e \in End, ~Ambiguous(e[2])
      PROVE  /\ \A f \in Flow : <<e, f>> \in answered => f = maker[e]
             /\ \A k \in DOMAIN tun : tun[k].sport = e[2] => tun[k].kind # "rst"
  <2>1. \A f \in Flow : <<e, f>> \in answered => f = maker[e]
    BY <1>1 DEF NatInv, AnsweredInv
  <2>2. ASSUME NEW k \in DOMAIN tun, tun[k].sport = e[2], tun[k].kind = "rst"
        PROVE  FALSE
    <3>1. tun[k] \in Packets
      BY <1>1, <2>2, ElementOfSeq, LenProperties DEF NatInv, PacketsInv
    <3>2. tun[k].way = "up"
      BY <2>2, <3>1 DEF Packets, Up, Down
    <3>3. QED
      BY <1>1, <2>2, <3>1, <3>2 DEF Packets, Genuine
  <2>3. QED
    BY <2>1, <2>2
<1>2. NatInv => RepliesReachTheirApp
  BY <1>1 DEF RepliesReachTheirApp
<1>3. QED
  BY <1>2, NatInvariant, PTL
=============================================================================
