------------------------- MODULE ClientPacketsProofs -------------------------
(***************************************************************************)
(* Proofs about what the client does with packets.                         *)
(*                                                                         *)
(* The queries of the DNS proxy (DnsProxy), for any number of IDs, queries *)
(* and replies, and whatever the network does to the replies: IDs are      *)
(* given in turn from the start of the process on.  What is remembered,    *)
(* asked and answered is therefore of one epoch: of the queries after some *)
(* query b, the last one read before the process began.                    *)
(*                                                                         *)
(* The bytes of the packets sent back (PacketRewrite), for any payload,    *)
(* message, address and port: sums, the folding of carries, both           *)
(* checksums, the fields of a header, and the packet in each phase.        *)
(*                                                                         *)
(* The reading of a DNS message (DnsMessage), for any number of names, any *)
(* places and sizes, and a cut anywhere: the place in the message that     *)
(* reading has reached says what has been read, and what is still to come. *)
(***************************************************************************)
EXTENDS DnsProxy, PacketRewrite, DnsMessage, SequenceTheorems, WellFoundedInduction, TLAPS

-----------------------------------------------------------------------------
(* Queries *)

IsFlag(b) == b = TRUE \/ b = FALSE

VpnState == [pc : {"off", "read", "put", "dead"}, clean : BOOLEAN]

UdpState == [pc : {"ended", "receive", "parse", "got", "remove", "write"},
             id : Id, of : Query \cup {Null}, ok : BOOLEAN,
             state : Query \cup {Null}, clean : BOOLEAN]

\* TypeOK, in parts.
MapTypes ==
    /\ mQueryID \in Id
    /\ mQueryMap \in [Id -> Query \cup {Null}]
    /\ asked \in 0..MaxQueries
    /\ idOf \in [Query -> Id]
    /\ answers \in [Query -> Seq(Query)]

ThreadTypes ==
    /\ vpn \in VpnState
    /\ udp \in UdpState
    /\ stage \in {"idle", "up", "stopping", "closed"}

NetTypes ==
    /\ net \subseteq [id : Id, of : Query]
    /\ rx \in Seq([id : Id, of : Query, ok : BOOLEAN])
    /\ arrivals \in 0..MaxArrivals

Types == MapTypes /\ ThreadTypes /\ NetTypes /\ IsFlag(tun) /\ IsFlag(raced)

\* The thread of the socket has looked up the ID of its reply.
HasState == udp.pc \in {"got", "remove", "write"}

\* The last IdSpace queries of the epoch got the last IdSpace IDs in turn ...
IdsInTurn(b) ==
    \A m \in b + 1..asked : asked - m < IdSpace =>
        \/ idOf[m] = mQueryID - (asked - m)
        \/ idOf[m] = mQueryID - (asked - m) + IdSpace

\* ... so that an ID comes again only after all the others.
IdsAreSpaced(b) ==
    \A m, n \in b + 1..asked : m < n /\ idOf[m] = idOf[n] => n - m >= IdSpace

MapOK(b) ==
    \A k \in Id : mQueryMap[k] # Null =>
        mQueryMap[k] \in b + 1..asked /\ idOf[mQueryMap[k]] = k

\* A reply d bears the ID of its query; and what is remembered under that ID is
\* never an older query, unless operations on the map met.
ReplyOK(b, d) ==
    /\ d.of \in b + 1..asked
    /\ d.id = idOf[d.of]
    /\ raced \/ mQueryMap[d.id] = Null \/ mQueryMap[d.id] >= d.of

NetOK(b) == \A d \in net : ReplyOK(b, d)

RxOK(b) == \A i \in 1..Len(rx) : ReplyOK(b, rx[i])

\* The query that is being put is known to nobody yet.
PutOK(b) ==
    vpn.pc = "put" =>
        /\ asked > b
        /\ idOf[asked] = mQueryID
        /\ ~raced => /\ answers[asked] = <<>>
                     /\ \A k \in Id : mQueryMap[k] # asked
                     /\ HasState => udp.state # asked

\* Between the lookup and the write of a reply.
UdpOK(b) ==
    /\ udp.pc = "parse" => ReplyOK(b, udp)
    /\ HasState =>
         /\ udp.of \in 1..asked
         /\ udp.id = idOf[udp.of]
         /\ udp.state # Null =>
              /\ udp.state \in 1..asked
              /\ idOf[udp.state] = udp.id
              /\ raced \/ udp.state = udp.of \/ udp.state - udp.of >= IdSpace
         /\ udp.pc = "write" /\ udp.state # Null /\ ~raced =>
              \A k \in Id : mQueryMap[k] # udp.state

Epoch(b) ==
    IdsInTurn(b) /\ IdsAreSpaced(b) /\ MapOK(b) /\ NetOK(b) /\ RxOK(b) /\ PutOK(b) /\ UdpOK(b)

\* What the apps have got so far.
AnswersOK ==
    \A n \in Query :
        /\ answers[n] # <<>> => n <= asked
        /\ \A i \in 1..Len(answers[n]) :
             /\ answers[n][i] \in 1..asked
             /\ idOf[answers[n][i]] = idOf[n]
             /\ raced \/ answers[n][i] = n \/ n - answers[n][i] >= IdSpace

\* A query that has been answered is forgotten.
AnsweredOnce ==
    ~raced => \A n \in Query :
        /\ Len(answers[n]) <= 1
        /\ answers[n] # <<>> =>
             (\A k \in Id : mQueryMap[k] # n) /\ (HasState => udp.state # n)

EpochOK == \E b \in 0..asked : Epoch(b)

Inv == Types /\ AnswersOK /\ AnsweredOnce /\ EpochOK

-----------------------------------------------------------------------------
(* Types *)

LEMMA IdType == IdSpace \in Nat /\ IdSpace > 0 /\ 0 \in Id
  BY DnsAssumption DEF Id

LEMMA TypeParts == Types <=> TypeOK
  <1>1. IsFlag(tun) /\ IsFlag(raced) <=> tun \in BOOLEAN /\ raced \in BOOLEAN
    BY Zenon DEF IsFlag
  <1> QED BY <1>1 DEF Types, MapTypes, ThreadTypes, NetTypes, TypeOK, VpnState, UdpState

LEMMA EndedType == Ended \in UdpState
  BY IdType DEF Ended, UdpState

LEMMA NextIdType == ASSUME NEW k \in Id PROVE NextId(k) \in Id
  BY DnsAssumption DEF Id, NextId

\* What a step leaves alone keeps its type.
LEMMA SameTypes ==
  /\ MapTypes /\ UNCHANGED <<mQueryID, mQueryMap, asked, idOf, answers>> => MapTypes'
  /\ ThreadTypes /\ UNCHANGED <<vpn, udp, stage>> => ThreadTypes'
  /\ NetTypes /\ UNCHANGED <<net, rx, arrivals>> => NetTypes'
  /\ IsFlag(tun) /\ UNCHANGED tun => IsFlag(tun')
  /\ IsFlag(raced) /\ UNCHANGED raced => IsFlag(raced')
  BY DEF MapTypes, ThreadTypes, NetTypes, IsFlag

LEMMA TypeInit == Init => Types
  BY IdType, EndedType, DnsAssumption
     DEF Init, Types, MapTypes, ThreadTypes, NetTypes, VpnState, IsFlag

LEMMA ProcessDiesType == Types /\ ProcessDies => Types'
  BY IdType, EndedType, SameTypes
     DEF ProcessDies, Types, MapTypes, ThreadTypes, NetTypes, VpnState, IsFlag

LEMMA BeginPutType == Types /\ BeginPut => Types'
  <1> SUFFICES ASSUME Types, BeginPut PROVE Types'
    OBVIOUS
  <1> USE DEF Types, BeginPut
  <1>1. asked + 1 \in Query /\ asked' \in 0..MaxQueries /\ mQueryID' \in Id
    BY NextIdType, DnsAssumption DEF MapTypes, Query
  <1>2. MapTypes'
    BY <1>1 DEF MapTypes
  <1>3. ThreadTypes'
    BY DEF ThreadTypes, VpnState, UdpState
  <1> QED BY <1>2, <1>3, SameTypes

\* Whatever overlapping operations leave of a map is a map.
LEMMA RacedType ==
  ASSUME Types, NEW f \in [Id -> Query \cup {Null}], NEW g \in RacedMaps(f)
  PROVE  /\ g \in [Id -> Query \cup {Null}]
         /\ \A k \in Id : g[k] = f[k] \/ g[k] = mQueryMap[k] \/ g[k] = Null
  BY DEF RacedMaps

LEMMA EndPutType == Types /\ asked \in Query /\ EndPut => Types'
  <1> SUFFICES ASSUME Types, asked \in Query, EndPut PROVE Types'
    OBVIOUS
  <1> USE DEF Types, EndPut
  <1>1. Put(mQueryMap, mQueryID, asked) \in [Id -> Query \cup {Null}]
    BY DEF MapTypes, Put
  <1>2. MapTypes'
    BY <1>1, RacedType DEF MapTypes
  <1>3. ThreadTypes'
    BY DEF ThreadTypes, VpnState
  <1>4. NetTypes'
    BY DEF MapTypes, NetTypes
  <1>5. IsFlag(tun') /\ IsFlag(raced')
    BY DEF IsFlag
  <1> QED BY <1>2, <1>3, <1>4, <1>5

LEMMA VpnThreadEndType == Types /\ (onRevoke \/ ReadFails) => Types'
  <1>1. Types /\ onRevoke => Types'
    BY SameTypes DEF onRevoke, Types, IsFlag
  <1>2. Types /\ ReadFails => Types'
    BY SameTypes DEF ReadFails, Types, ThreadTypes, VpnState, IsFlag
  <1> QED BY <1>1, <1>2

LEMMA ArriveType ==
  ASSUME NEW d \in net, NEW ok \in BOOLEAN
  PROVE  Types /\ Arrive(d, ok) => Types'
  BY SameTypes, DnsAssumption DEF Arrive, Types, NetTypes

\* The first element of a sequence, and the others.
LEMMA HeadTail ==
  ASSUME NEW S, NEW s \in Seq(S), s # <<>>
  PROVE  /\ Head(s) \in S /\ Head(s) = s[1] /\ 1 \in 1..Len(s)
         /\ Tail(s) \in Seq(S) /\ Len(Tail(s)) = Len(s) - 1
         /\ \A i \in 1..Len(Tail(s)) : i + 1 \in 1..Len(s) /\ Tail(s)[i] = s[i + 1]
  OBVIOUS

LEMMA ElementType == ASSUME NEW S, NEW s \in Seq(S), NEW i \in 1..Len(s) PROVE s[i] \in S
  OBVIOUS

LEMMA RxElement ==
  ASSUME Types, NEW i \in 1..Len(rx)
  PROVE  rx[i].id \in Id /\ rx[i].of \in Query
  <1>1. rx[i] \in [id : Id, of : Query, ok : BOOLEAN]
    BY ElementType DEF Types, NetTypes
  <1> QED BY <1>1

LEMMA ReceiveType == Types /\ Receive => Types'
  <1> SUFFICES ASSUME Types, Receive PROVE Types'
    OBVIOUS
  <1> USE DEF Types, Receive
  <1>1. Head(rx) \in [id : Id, of : Query, ok : BOOLEAN]
    BY HeadTail DEF NetTypes
  <1>2. udp' \in UdpState
    BY <1>1, EndedType DEF UdpState
  <1>3. ThreadTypes' /\ NetTypes'
    BY <1>2 DEF ThreadTypes, NetTypes
  <1> QED BY <1>3, SameTypes

LEMMA NextRoundType == ThreadTypes /\ UNCHANGED vpn /\ NextRound => ThreadTypes'
  BY EndedType DEF NextRound, ThreadTypes, UdpState

LEMMA GetType == Types /\ (vpn.pc = "put" => asked \in Query) /\ Get => Types'
  <1> SUFFICES ASSUME Types, vpn.pc = "put" => asked \in Query, Get PROVE Types'
    OBVIOUS
  <1> USE DEF Types, Get
  <1>1. PICK n \in Found : /\ udp' = [udp EXCEPT !.pc = "got", !.state = n]
                           /\ raced' = (raced \/ n # mQueryMap[udp.id])
    OBVIOUS
  <1>2. n \in Query \cup {Null}
    BY DEF Found, MapTypes, ThreadTypes, UdpState
  <1>3. ThreadTypes'
    BY <1>1, <1>2 DEF ThreadTypes, UdpState
  <1>4. IsFlag(raced')
    BY <1>1 DEF IsFlag
  <1> QED BY <1>3, <1>4, SameTypes

LEMMA BeginRemoveType == Types /\ BeginRemove => Types'
  BY SameTypes DEF BeginRemove, Types, ThreadTypes, VpnState, UdpState

LEMMA EndRemoveType == Types /\ EndRemove => Types'
  <1> SUFFICES ASSUME Types, EndRemove PROVE Types'
    OBVIOUS
  <1> USE DEF Types, EndRemove
  <1>1. Put(mQueryMap, udp.id, Null) \in [Id -> Query \cup {Null}]
    BY DEF MapTypes, Put
  <1>2. MapTypes'
    BY <1>1, RacedType DEF MapTypes
  <1>3. ThreadTypes'
    BY DEF ThreadTypes, UdpState
  <1>4. IsFlag(raced')
    BY DEF IsFlag
  <1> QED BY <1>2, <1>3, <1>4, SameTypes

LEMMA RoundEndType == Types /\ (Refuse \/ (Write /\ udp.of \in Query)) => Types'
  <1>1. Types /\ Refuse => Types'
    BY SameTypes, NextRoundType DEF Refuse, Types
  <1>2. Types /\ Write /\ udp.of \in Query => Types'
    <2> SUFFICES ASSUME Types, Write, udp.of \in Query PROVE Types'
      OBVIOUS
    <2>1. answers' \in [Query -> Seq(Query)]
      BY DEF Write, Types, MapTypes, ThreadTypes, UdpState, Query, Null
    <2>2. MapTypes'
      BY <2>1 DEF Write, Types, MapTypes
    <2> QED BY <2>2, SameTypes, NextRoundType DEF Write, Types
  <1> QED BY <1>1, <1>2

LEMMA LifecycleType ==
  Types /\ (Initialize \/ StartVpnThread \/ StopVpnThread \/ CloseSocket) => Types'
  <1>1. Types /\ Initialize => Types'
    BY SameTypes, EndedType DEF Initialize, Types, ThreadTypes, UdpState
  <1>2. Types /\ StartVpnThread => Types'
    BY SameTypes DEF StartVpnThread, Types, ThreadTypes, VpnState, IsFlag
  <1>3. Types /\ StopVpnThread => Types'
    BY SameTypes DEF StopVpnThread, Types, ThreadTypes, VpnState, IsFlag
  <1>4. Types /\ CloseSocket => Types'
    <2> SUFFICES ASSUME Types, CloseSocket, ~ProcessDies PROVE Types'
      BY ProcessDiesType
    <2>1. ThreadTypes'
      BY DEF CloseSocket, Types, ThreadTypes
    <2>2. net' = {} /\ rx' = <<>> /\ arrivals' = arrivals
      BY DEF CloseSocket
    <2>3. NetTypes'
      BY <2>2 DEF Types, NetTypes
    <2> QED BY <2>1, <2>3, SameTypes DEF CloseSocket, Types
  <1> QED BY <1>1, <1>2, <1>3, <1>4

-----------------------------------------------------------------------------
(* The rest of the invariant, action by action *)

LEMMA InvInit == Init => Inv
  <1> SUFFICES ASSUME Init PROVE Inv
    OBVIOUS
  <1>1. Types
    BY TypeInit
  <1>2. AnswersOK /\ AnsweredOnce
    BY DEF Init, AnswersOK, AnsweredOnce
  <1>3. Epoch(0)
    BY DEF Init, Ended, Epoch, IdsInTurn, IdsAreSpaced, MapOK, NetOK, RxOK, PutOK, UdpOK, HasState
  <1> QED BY <1>1, <1>2, <1>3 DEF Inv, EpochOK, Init

\* Steps that leave the queries and the map alone and bring no reply.
LEMMA FrameInv ==
  ASSUME Inv, UNCHANGED <<mQueryID, mQueryMap, asked, idOf, answers, raced>>,
         net' \subseteq net,
         \A i \in 1..Len(rx') : \E j \in 1..Len(rx) : rx'[i] = rx[j],
         vpn'.pc = "put" => vpn.pc = "put",
         \/ udp'.pc \in {"ended", "receive"}
         \/ /\ udp'.pc = udp.pc \/ (udp.pc = "got" /\ udp'.pc = "remove")
            /\ udp'.of = udp.of /\ udp'.id = udp.id /\ udp'.state = udp.state
  PROVE  AnswersOK' /\ AnsweredOnce' /\ EpochOK'
<1>1. AnswersOK'
  BY DEF Inv, AnswersOK
<1>2. AnsweredOnce'
  BY DEF Inv, AnsweredOnce, HasState
<1>3. PICK b \in 0..asked : Epoch(b)
  BY DEF Inv, EpochOK
<1>4. IdsInTurn(b)' /\ IdsAreSpaced(b)' /\ MapOK(b)'
  BY <1>3 DEF Epoch, IdsInTurn, IdsAreSpaced, MapOK
<1>5. NetOK(b)' /\ RxOK(b)'
  BY <1>3 DEF Epoch, NetOK, RxOK, ReplyOK
<1>6. PutOK(b)'
  BY <1>3 DEF Epoch, PutOK, HasState
<1>7. UdpOK(b)'
  BY <1>3 DEF Epoch, UdpOK, ReplyOK, HasState
<1> QED BY <1>1, <1>2, <1>3, <1>4, <1>5, <1>6, <1>7 DEF EpochOK, Epoch

\* The next process begins an epoch of its own.
LEMMA ProcessDiesInv == Inv /\ ProcessDies => Inv'
  <1> SUFFICES ASSUME Inv, ProcessDies PROVE Inv'
    OBVIOUS
  <1>1. Types' /\ asked \in Nat
    BY ProcessDiesType, DnsAssumption DEF Inv, Types, MapTypes
  <1>2. AnswersOK'
    BY DEF Inv, ProcessDies, AnswersOK
  <1>3. AnsweredOnce'
    BY DEF Inv, ProcessDies, AnsweredOnce, HasState, Ended, Query, Null
  <1>4. Epoch(asked)'
    BY <1>1 DEF ProcessDies, Ended, Epoch, IdsInTurn, IdsAreSpaced, MapOK, NetOK, RxOK, PutOK,
       UdpOK, HasState
  <1> QED BY <1>1, <1>2, <1>3, <1>4 DEF Inv, EpochOK, ProcessDies

LEMMA MinusZero == \A x \in Nat : x = x - 0
  OBVIOUS

\* The ID i given d queries ago, when the ID after q is r.
LEMMA TurnArithmetic ==
  ASSUME NEW S \in Nat, NEW q \in Nat, NEW r \in Nat, NEW d \in Int, NEW i \in Nat,
         q < S, r < S, r = q + 1 \/ r = q + 1 - S
  PROVE  (d >= 0 /\ d + 1 < S /\ i < S /\ (i = q - d \/ i = q - d + S)) =>
             i # r /\ (i = r - (d + 1) \/ i = r - (d + 1) + S)
  OBVIOUS

\* A new query takes the next ID, which none of the last IdSpace - 1 has.
LEMMA BeginPutInv == Inv /\ BeginPut => Inv'
  <1> SUFFICES ASSUME Inv, BeginPut PROVE Inv'
    OBVIOUS
  <1>1. Types'
    BY BeginPutType DEF Inv
  <1>2. /\ asked \in Nat /\ asked' = asked + 1 /\ asked + 1 \in Query
        /\ mQueryID \in Nat /\ mQueryID < IdSpace /\ mQueryID' \in Nat /\ mQueryID' < IdSpace
        /\ mQueryID' = mQueryID + 1 \/ mQueryID' = mQueryID + 1 - IdSpace
        /\ IdSpace \in Nat
    BY NextIdType, DnsAssumption DEF Inv, Types, MapTypes, BeginPut, NextId, Id, Query
  <1>3. /\ idOf'[asked + 1] = mQueryID'
        /\ \A n \in 1..asked : n \in Query /\ idOf'[n] = idOf[n] /\ idOf[n] \in Nat /\ idOf[n] < IdSpace
    BY <1>2, DnsAssumption DEF Inv, Types, MapTypes, BeginPut, Id, Query
  <1>4. /\ UNCHANGED <<mQueryMap, answers, raced, net, rx>>
        /\ udp'.pc = udp.pc /\ udp'.of = udp.of /\ udp'.id = udp.id /\ udp'.state = udp.state
    BY DEF BeginPut, Inv, Types, ThreadTypes, UdpState
  <1>5. AnswersOK'
    <2>1. AnswersOK
      BY DEF Inv
    <2>2. ASSUME NEW n \in Query, answers[n] # <<>>
          PROVE  n \in 1..asked /\ n <= asked + 1 /\ idOf'[n] = idOf[n]
      BY <1>2, <1>3, <2>1, <2>2 DEF AnswersOK, Query
    <2>3. ASSUME NEW n \in Query, NEW i \in 1..Len(answers[n])
          PROVE  /\ answers[n][i] \in 1..asked + 1
                 /\ idOf'[answers[n][i]] = idOf'[n]
                 /\ raced \/ answers[n][i] = n \/ n - answers[n][i] >= IdSpace
      <3>1. PICK k : k = answers[n][i]
        OBVIOUS
      <3>2. k \in 1..asked /\ idOf[k] = idOf[n] /\ (raced \/ k = n \/ n - k >= IdSpace)
        BY <2>1, <3>1 DEF AnswersOK
      <3>3. answers[n] # <<>>
        BY <2>3
      <3>4. k \in 1..asked + 1 /\ idOf'[k] = idOf[k] /\ idOf'[n] = idOf[n]
        BY <1>2, <1>3, <2>2, <3>2, <3>3
      <3>5. QED
        BY <3>1, <3>2, <3>4
    <2>4. QED
      BY <1>2, <1>4, <2>2, <2>3 DEF AnswersOK
  <1>6. AnsweredOnce'
    BY <1>4 DEF Inv, AnsweredOnce, HasState
  <1>7. PICK b \in 0..asked : Epoch(b)
    BY DEF Inv, EpochOK
  <1> USE DEF Epoch
  <1>8. ASSUME NEW m \in b + 1..asked, (asked + 1) - m < IdSpace
        PROVE  /\ idOf'[m] = idOf[m] /\ idOf[m] # mQueryID'
               /\ \/ idOf[m] = mQueryID' - ((asked + 1) - m)
                  \/ idOf[m] = mQueryID' - ((asked + 1) - m) + IdSpace
    <2>1. /\ m \in Int /\ asked - m \in Int /\ asked - m >= 0 /\ (asked + 1) - m = (asked - m) + 1
          /\ (asked - m) + 1 < IdSpace /\ m \in 1..asked /\ m \in b + 1..asked
          /\ asked - m < IdSpace
      BY <1>2, <1>8
    <2>2. idOf[m] = mQueryID - (asked - m) \/ idOf[m] = mQueryID - (asked - m) + IdSpace
      BY <2>1, <1>7 DEF IdsInTurn
    <2>3. idOf'[m] = idOf[m] /\ idOf[m] \in Nat /\ idOf[m] < IdSpace
      BY <2>1, <1>3
    <2> QED BY <2>1, <2>2, <2>3, <1>2, TurnArithmetic
  <1>9. IdsInTurn(b)'
    <2> SUFFICES ASSUME NEW m \in b + 1..asked + 1, (asked + 1) - m < IdSpace
                 PROVE  \/ idOf'[m] = mQueryID' - ((asked + 1) - m)
                        \/ idOf'[m] = mQueryID' - ((asked + 1) - m) + IdSpace
      BY <1>2 DEF IdsInTurn
    <2>1. CASE m = asked + 1
      <3>1. idOf'[m] = mQueryID' /\ (asked + 1) - m = 0
        BY <2>1, <1>2, <1>3
      <3>2. mQueryID' = mQueryID' - 0
        BY <1>2, MinusZero
      <3> QED BY <3>1, <3>2
    <2>2. CASE m \in b + 1..asked
      BY <2>2, <1>8
    <2> QED BY <2>1, <2>2, <1>2
  <1>15. IdsAreSpaced(b)'
    <2> SUFFICES ASSUME NEW m \in b + 1..asked + 1, NEW n \in b + 1..asked + 1,
                        m < n, idOf'[m] = idOf'[n]
                 PROVE  n - m >= IdSpace
      BY <1>2 DEF IdsAreSpaced
    <2>1. m \in b + 1..asked /\ idOf'[m] = idOf[m]
      BY <1>2, <1>3
    <2>2. CASE n = asked + 1
      <3>1. ~((asked + 1) - m < IdSpace)
        BY <1>8, <2>1, <2>2, <1>3
      <3> QED BY <2>1, <2>2, <3>1, <1>2
    <2>3. CASE n \in b + 1..asked
      <3>1. idOf'[n] = idOf[n]
        BY <2>3, <1>3
      <3> QED BY <2>1, <2>3, <3>1, <1>7 DEF IdsAreSpaced
    <2> QED BY <2>2, <2>3, <1>2
  <1>10. MapOK(b)'
    BY <1>2, <1>3, <1>4, <1>7 DEF MapOK
  <1>11. NetOK(b)'
    BY <1>2, <1>3, <1>4, <1>7 DEF NetOK, ReplyOK
  <1>12. RxOK(b)'
    BY <1>2, <1>3, <1>4, <1>7 DEF RxOK, ReplyOK
  <1>13. PutOK(b)'
    <2>1. answers[asked + 1] = <<>>
      BY <1>2 DEF Inv, AnswersOK
    <2>2. \A k \in Id : mQueryMap[k] # asked + 1
      BY <1>2, <1>7 DEF MapOK, Null
    <2>3. HasState => udp.state # asked + 1
      BY <1>2, <1>7 DEF UdpOK, Null
    <2> QED BY <2>1, <2>2, <2>3, <1>2, <1>3, <1>4 DEF PutOK, HasState
  <1>14. UdpOK(b)'
    BY <1>2, <1>3, <1>4, <1>7 DEF UdpOK, ReplyOK, HasState
  <1> QED BY <1>1, <1>2, <1>5, <1>6, <1>9, <1>10, <1>11, <1>12, <1>13, <1>14, <1>15
          DEF Inv, EpochOK

\* The put ends: the query is remembered and may be answered.
LEMMA EndPutInv == Inv /\ EndPut => Inv'
  <1> SUFFICES ASSUME Inv, EndPut PROVE Inv'
    OBVIOUS
  <1>1. PICK b \in 0..asked : Epoch(b)
    BY DEF Inv, EpochOK
  <1> USE DEF Epoch
  <1>2. /\ asked \in Nat /\ asked > b /\ asked \in Query /\ idOf[asked] = mQueryID
        /\ mQueryID \in Id /\ asked \in b + 1..asked
    BY <1>1, DnsAssumption DEF EndPut, PutOK, Inv, Types, MapTypes, Query
  <1>3. Types'
    BY <1>2, EndPutType DEF Inv
  <1>4. /\ UNCHANGED <<mQueryID, udp, rx, asked, idOf, answers>>
        /\ vpn'.pc # "put"
        /\ \A d \in net' : d \in net \/ (d.id = mQueryID /\ d.of = asked)
    BY DEF EndPut, Inv, Types, ThreadTypes, VpnState
  <1>a. ~raced' => ~raced /\ vpn.clean
    BY Zenon DEF EndPut
  <1>b. /\ Put(mQueryMap, mQueryID, asked) \in [Id -> Query \cup {Null}]
        /\ Put(mQueryMap, mQueryID, asked)[mQueryID] = asked
        /\ \A k \in Id \ {mQueryID} : Put(mQueryMap, mQueryID, asked)[k] = mQueryMap[k]
    BY <1>2 DEF Put, Inv, Types, MapTypes
  <1>6. ~raced' => /\ mQueryMap'[mQueryID] = asked
                   /\ \A k \in Id \ {mQueryID} : mQueryMap'[k] = mQueryMap[k]
    BY <1>a, <1>b DEF EndPut
  <1>5. \A k \in Id : \/ mQueryMap'[k] = mQueryMap[k] \/ mQueryMap'[k] = Null
                      \/ (k = mQueryID /\ mQueryMap'[k] = asked)
    <2>1. CASE vpn.clean
      BY <2>1, <1>b DEF EndPut
    <2>2. CASE ~vpn.clean
      BY <2>2, <1>b, RacedType DEF EndPut, Inv
    <2> QED BY <2>1, <2>2
  <1>7. AnswersOK'
    BY <1>4, <1>a DEF Inv, AnswersOK
  <1>8. AnsweredOnce'
    BY <1>1, <1>4, <1>5, <1>a DEF Inv, AnsweredOnce, HasState, PutOK, EndPut, Query, Null
  <1>9. IdsInTurn(b)' /\ IdsAreSpaced(b)'
    BY <1>1, <1>4 DEF IdsInTurn, IdsAreSpaced
  <1>10. MapOK(b)'
    BY <1>1, <1>2, <1>4, <1>5 DEF MapOK
  <1>11. ASSUME NEW d, ReplyOK(b, d), d.id \in Id
         PROVE  ReplyOK(b, d)'
    <2>1. d.of \in b + 1..asked /\ d.of <= asked
      BY <1>11 DEF ReplyOK
    <2> QED BY <2>1, <1>2, <1>4, <1>6, <1>11, <1>a DEF ReplyOK
  <1>12. NetOK(b)'
    <2> SUFFICES ASSUME NEW d \in net' PROVE ReplyOK(b, d)'
      BY DEF NetOK
    <2>1. CASE d \in net
      BY <2>1, <1>1, <1>11 DEF NetOK, Inv, Types, NetTypes
    <2>2. CASE d.id = mQueryID /\ d.of = asked
      BY <2>2, <1>2, <1>4, <1>6 DEF ReplyOK
    <2> QED BY <2>1, <2>2, <1>4
  <1>13. RxOK(b)'
    <2> SUFFICES ASSUME NEW i \in 1..Len(rx) PROVE ReplyOK(b, rx[i])'
      BY <1>4 DEF RxOK
    <2>1. rx[i].id \in Id
      BY RxElement DEF Inv
    <2>2. ReplyOK(b, rx[i])
      BY <1>1 DEF RxOK
    <2> QED BY <2>1, <2>2, <1>4, <1>11 DEF ReplyOK
  <1>14. PutOK(b)'
    BY <1>4 DEF PutOK
  <1>15. UdpOK(b)'
    <2>1. udp.id \in Id
      BY DEF Inv, Types, ThreadTypes, UdpState
    <2>2. PICK u : u = udp
      OBVIOUS
    <2>3. udp.pc = "parse" => ReplyOK(b, u)'
      BY <2>1, <2>2, <1>1, <1>11 DEF UdpOK
    <2>4. HasState /\ udp.state # Null /\ ~raced' => udp.state # asked
      BY <1>1, <1>a DEF PutOK, EndPut
    <2> QED BY <2>2, <2>3, <2>4, <1>1, <1>4, <1>5, <1>a DEF UdpOK, HasState, ReplyOK
  <1> QED BY <1>3, <1>4, <1>7, <1>8, <1>9, <1>10, <1>12, <1>13, <1>14, <1>15
          DEF Inv, EpochOK

\* A reply reaches the socket: it is one to a query that was sent.
LEMMA ArriveInv ==
  ASSUME Inv, NEW d \in net, NEW ok \in BOOLEAN, Arrive(d, ok)
  PROVE  Inv'
  <1>1. Types'
    BY ArriveType DEF Inv
  <1>2. /\ UNCHANGED <<mQueryID, mQueryMap, vpn, udp, net, asked, idOf, answers, raced>>
        /\ Len(rx') = Len(rx) + 1 /\ Len(rx) \in Nat
        /\ \A i \in 1..Len(rx) : rx'[i] = rx[i]
        /\ rx'[Len(rx) + 1].id = d.id /\ rx'[Len(rx) + 1].of = d.of
    BY DEF Arrive, Inv, Types, NetTypes
  <1>3. AnswersOK' /\ AnsweredOnce'
    BY <1>2 DEF Inv, AnswersOK, AnsweredOnce, HasState
  <1>4. PICK b \in 0..asked : Epoch(b)
    BY DEF Inv, EpochOK
  <1>5. IdsInTurn(b)' /\ IdsAreSpaced(b)' /\ MapOK(b)' /\ NetOK(b)' /\ PutOK(b)' /\ UdpOK(b)'
    BY <1>2, <1>4 DEF Epoch, IdsInTurn, IdsAreSpaced, MapOK, NetOK, PutOK, UdpOK, ReplyOK, HasState
  <1>6. RxOK(b)'
    <2> SUFFICES ASSUME NEW i \in 1..Len(rx') PROVE ReplyOK(b, rx[i])'
      BY DEF RxOK
    <2>1. CASE i \in 1..Len(rx)
      <3>1. ReplyOK(b, rx[i]) /\ rx'[i] = rx[i]
        BY <2>1, <1>2, <1>4 DEF Epoch, RxOK
      <3> QED BY <3>1, <1>2 DEF ReplyOK
    <2>2. CASE i = Len(rx) + 1
      <3>1. ReplyOK(b, d)
        BY <1>4 DEF Epoch, NetOK
      <3>2. rx'[i].id = d.id /\ rx'[i].of = d.of
        BY <2>2, <1>2
      <3> QED BY <3>1, <3>2, <1>2 DEF ReplyOK
    <2> QED BY <2>1, <2>2, <1>2
  <1> QED BY <1>1, <1>2, <1>3, <1>5, <1>6 DEF Inv, EpochOK, Epoch

LEMMA ReceiveInv == Inv /\ Receive => Inv'
  <1> SUFFICES ASSUME Inv, Receive PROVE Inv'
    OBVIOUS
  <1>1. Types'
    BY ReceiveType DEF Inv
  <1>2. /\ UNCHANGED <<mQueryID, mQueryMap, vpn, net, asked, idOf, answers, raced>>
        /\ udp'.pc = "parse" /\ udp'.id = rx[1].id /\ udp'.of = rx[1].of
        /\ 1 \in 1..Len(rx) /\ \A i \in 1..Len(rx') : i + 1 \in 1..Len(rx) /\ rx'[i] = rx[i + 1]
    BY HeadTail DEF Receive, Inv, Types, NetTypes, Ended
  <1>3. AnswersOK' /\ AnsweredOnce'
    BY <1>2 DEF Inv, AnswersOK, AnsweredOnce, HasState
  <1>4. PICK b \in 0..asked : Epoch(b)
    BY DEF Inv, EpochOK
  <1>5. IdsInTurn(b)' /\ IdsAreSpaced(b)' /\ MapOK(b)' /\ NetOK(b)' /\ PutOK(b)'
    BY <1>2, <1>4 DEF Epoch, IdsInTurn, IdsAreSpaced, MapOK, NetOK, PutOK, ReplyOK, HasState
  <1>6. RxOK(b)'
    BY <1>2, <1>4 DEF Epoch, RxOK, ReplyOK
  <1>7. UdpOK(b)'
    <2>1. ReplyOK(b, rx[1])
      BY <1>2, <1>4 DEF Epoch, RxOK
    <2> QED BY <2>1, <1>2 DEF UdpOK, ReplyOK, HasState
  <1> QED BY <1>1, <1>2, <1>3, <1>5, <1>6, <1>7 DEF Inv, EpochOK, Epoch

\* The lookup finds the query of the reply, or none, or a younger one that has come
\* to the same ID; anything else only when it meets a put.
LEMMA GetInv == Inv /\ Get => Inv'
  <1> SUFFICES ASSUME Inv, Get PROVE Inv'
    OBVIOUS
  <1>1. PICK b \in 0..asked : Epoch(b)
    BY DEF Inv, EpochOK
  <1> USE DEF Epoch
  <1>2. /\ asked \in Nat /\ udp.id \in Id /\ IdSpace \in Nat
        /\ vpn.pc = "put" => asked \in Query /\ asked \in b + 1..asked /\ idOf[asked] = mQueryID
    BY <1>1, DnsAssumption DEF PutOK, Inv, Types, MapTypes, ThreadTypes, UdpState, Query
  <1>3. Types'
    BY <1>2, GetType DEF Inv
  <1>4. PICK n \in Found : /\ udp' = [udp EXCEPT !.pc = "got", !.state = n]
                           /\ raced' = (raced \/ n # mQueryMap[udp.id])
    BY DEF Get
  <1>5. /\ UNCHANGED <<mQueryID, mQueryMap, vpn, net, rx, asked, idOf, answers>>
        /\ udp'.pc = "got" /\ udp'.id = udp.id /\ udp'.of = udp.of /\ udp'.state = n
    BY <1>4 DEF Get, Inv, Types, ThreadTypes, UdpState
  <1>6. ~raced' => ~raced /\ n = mQueryMap[udp.id]
    BY <1>4, Zenon
  <1>7. ReplyOK(b, udp)
    BY <1>1 DEF UdpOK, Get
  <1>8. n # Null => n \in b + 1..asked /\ idOf[n] = udp.id
    BY <1>1, <1>2 DEF Found, MapOK
  <1>9. ~raced' /\ n # Null => n = udp.of \/ n - udp.of >= IdSpace
    <2> SUFFICES ASSUME ~raced', n # Null, n # udp.of PROVE n - udp.of >= IdSpace
      OBVIOUS
    <2>1. n \in b + 1..asked /\ udp.of \in b + 1..asked /\ n >= udp.of /\ idOf[udp.of] = idOf[n]
      BY <1>6, <1>7, <1>8 DEF ReplyOK
    <2>2. udp.of < n
      BY <2>1, <1>2
    <2> QED BY <2>1, <2>2, <1>1 DEF IdsAreSpaced
  <1>10. AnswersOK'
    BY <1>5, <1>6 DEF Inv, AnswersOK
  <1>11. AnsweredOnce'
    BY <1>2, <1>5, <1>6 DEF Inv, AnsweredOnce, HasState
  <1>12. IdsInTurn(b)' /\ IdsAreSpaced(b)' /\ MapOK(b)'
    BY <1>1, <1>5 DEF IdsInTurn, IdsAreSpaced, MapOK
  <1>13. NetOK(b)' /\ RxOK(b)'
    BY <1>1, <1>5, <1>6 DEF NetOK, RxOK, ReplyOK
  <1>14. PutOK(b)'
    BY <1>1, <1>2, <1>5, <1>6 DEF PutOK, HasState
  <1>15. UdpOK(b)'
    <2>1. udp.of \in 1..asked /\ (n # Null => n \in 1..asked)
      BY <1>2, <1>7, <1>8 DEF ReplyOK
    <2> QED BY <2>1, <1>5, <1>6, <1>7, <1>8, <1>9 DEF UdpOK, ReplyOK, HasState
  <1> QED BY <1>3, <1>5, <1>10, <1>11, <1>12, <1>13, <1>14, <1>15 DEF Inv, EpochOK

\* The entry is gone, whatever query it was, unless a put met the remove.
LEMMA EndRemoveInv == Inv /\ EndRemove => Inv'
  <1> SUFFICES ASSUME Inv, EndRemove PROVE Inv'
    OBVIOUS
  <1>1. Types' /\ udp.id \in Id
    BY EndRemoveType DEF Inv, Types, ThreadTypes, UdpState
  <1>2. /\ UNCHANGED <<mQueryID, vpn, net, rx, asked, idOf, answers>>
        /\ udp.pc = "remove" /\ udp'.pc = "write" /\ udp'.id = udp.id /\ udp'.of = udp.of
        /\ udp'.state = udp.state
    BY DEF EndRemove, Inv, Types, ThreadTypes, UdpState
  <1>3. ~raced' => ~raced /\ udp.clean
    BY Zenon DEF EndRemove
  <1>4. /\ Put(mQueryMap, udp.id, Null) \in [Id -> Query \cup {Null}]
        /\ Put(mQueryMap, udp.id, Null)[udp.id] = Null
        /\ \A k \in Id \ {udp.id} : Put(mQueryMap, udp.id, Null)[k] = mQueryMap[k]
    BY <1>1 DEF Put, Inv, Types, MapTypes
  <1>5. ~raced' => mQueryMap'[udp.id] = Null
    BY <1>3, <1>4 DEF EndRemove
  <1>6. \A k \in Id : mQueryMap'[k] = mQueryMap[k] \/ mQueryMap'[k] = Null
    <2>1. CASE udp.clean
      BY <2>1, <1>4 DEF EndRemove
    <2>2. CASE ~udp.clean
      BY <2>2, <1>4, RacedType DEF EndRemove, Inv
    <2> QED BY <2>1, <2>2
  <1>7. AnswersOK'
    BY <1>2, <1>3 DEF Inv, AnswersOK
  <1>8. AnsweredOnce'
    BY <1>2, <1>3, <1>6 DEF Inv, AnsweredOnce, HasState, Query, Null
  <1>9. PICK b \in 0..asked : Epoch(b)
    BY DEF Inv, EpochOK
  <1> USE DEF Epoch
  <1>10. IdsInTurn(b)' /\ IdsAreSpaced(b)' /\ MapOK(b)'
    BY <1>2, <1>6, <1>9 DEF IdsInTurn, IdsAreSpaced, MapOK
  <1>11. ASSUME NEW d, d.id \in Id, ReplyOK(b, d) PROVE ReplyOK(b, d)'
    BY <1>2, <1>3, <1>6, <1>11 DEF ReplyOK
  <1>12. NetOK(b)'
    BY <1>2, <1>9, <1>11 DEF NetOK, Inv, Types, NetTypes
  <1>13. RxOK(b)'
    <2> SUFFICES ASSUME NEW i \in 1..Len(rx) PROVE ReplyOK(b, rx[i])'
      BY <1>2 DEF RxOK
    <2>1. PICK d : d = rx[i]
      OBVIOUS
    <2>2. d.id \in Id /\ ReplyOK(b, d)
      BY <2>1, <1>9, RxElement DEF RxOK, Inv
    <2> QED BY <2>1, <2>2, <1>2, <1>11 DEF ReplyOK
  <1>14. PutOK(b)'
    BY <1>2, <1>3, <1>6, <1>9 DEF PutOK, HasState, Inv, Types, MapTypes, Null
  <1>15. UdpOK(b)'
    <2>1. udp.state # Null /\ ~raced' => \A k \in Id : mQueryMap'[k] # udp.state
      BY <1>2, <1>3, <1>5, <1>6, <1>9 DEF UdpOK, HasState, MapOK
    <2> QED BY <2>1, <1>2, <1>3, <1>9 DEF UdpOK, HasState
  <1> QED BY <1>1, <1>2, <1>7, <1>8, <1>10, <1>12, <1>13, <1>14, <1>15 DEF Inv, EpochOK

LEMMA NextRoundPc == NextRound => udp'.pc \in {"ended", "receive"}
  BY DEF NextRound, Ended

\* The reply is given to the query found, which was forgotten before.
LEMMA WriteInv == Inv /\ Write => Inv'
  <1> SUFFICES ASSUME Inv, Write PROVE Inv'
    OBVIOUS
  <1>1. PICK b \in 0..asked : Epoch(b)
    BY DEF Inv, EpochOK
  <1> USE DEF Epoch
  <1> DEFINE n == udp.state
  <1>2. /\ UNCHANGED <<mQueryID, mQueryMap, vpn, net, rx, asked, idOf, raced>>
        /\ udp.pc = "write" /\ HasState /\ ~HasState' /\ udp'.pc # "parse"
    BY NextRoundPc DEF Write, HasState
  <1>3. /\ udp.of \in 1..asked /\ udp.id = idOf[udp.of] /\ 1..asked \subseteq Query
        /\ n # Null => /\ n \in 1..asked /\ idOf[n] = udp.id
                       /\ raced \/ n = udp.of \/ n - udp.of >= IdSpace
                       /\ raced \/ \A k \in Id : mQueryMap[k] # n
    BY <1>1, <1>2, DnsAssumption DEF UdpOK, Inv, Types, MapTypes, Query
  <1>4. Types'
    BY <1>3, RoundEndType DEF Inv
  <1>5. \/ answers' = answers
        \/ n # Null /\ answers' = [answers EXCEPT ![n] = Append(@, udp.of)]
    BY DEF Write
  <1>6. /\ answers \in [Query -> Seq(Query)]
        /\ \A m \in Query : /\ Len(answers[m]) \in Nat
                            /\ answers[m] = <<>> => Len(answers[m]) = 0
    BY DEF Inv, Types, MapTypes
  <1>7. IdsInTurn(b)' /\ IdsAreSpaced(b)' /\ MapOK(b)' /\ NetOK(b)' /\ RxOK(b)' /\ UdpOK(b)'
    BY <1>1, <1>2 DEF IdsInTurn, IdsAreSpaced, MapOK, NetOK, RxOK, UdpOK, ReplyOK
  <1>8. CASE answers' = answers
    <2>1. AnswersOK' /\ AnsweredOnce'
      BY <1>2, <1>8 DEF Inv, AnswersOK, AnsweredOnce
    <2>2. PutOK(b)'
      BY <1>1, <1>2, <1>8 DEF PutOK
    <2> QED BY <2>1, <2>2, <1>2, <1>4, <1>7 DEF Inv, EpochOK
  <1>9. CASE n # Null /\ answers' = [answers EXCEPT ![n] = Append(@, udp.of)]
    <2> HIDE DEF n
    <2>1. n \in Query /\ n \in 1..asked /\ udp.of \in Query
      BY <1>3, <1>9
    <2>2. /\ answers'[n] = Append(answers[n], udp.of)
          /\ \A m \in Query \ {n} : answers'[m] = answers[m]
      BY <2>1, <1>6, <1>9
    <2>3. /\ Len(answers'[n]) = Len(answers[n]) + 1
          /\ answers'[n][Len(answers[n]) + 1] = udp.of
          /\ \A i \in 1..Len(answers[n]) : answers'[n][i] = answers[n][i]
      BY <2>1, <2>2, <1>6
    <2>4. AnswersOK'
      <3> SUFFICES ASSUME NEW m \in Query
                   PROVE  /\ answers'[m] # <<>> => m <= asked
                          /\ \A i \in 1..Len(answers'[m]) :
                               /\ answers'[m][i] \in 1..asked
                               /\ idOf[answers'[m][i]] = idOf[m]
                               /\ raced \/ answers'[m][i] = m \/ m - answers'[m][i] >= IdSpace
        BY <1>2 DEF AnswersOK
      <3>1. CASE m # n
        BY <3>1, <2>2 DEF Inv, AnswersOK
      <3>2. CASE m = n
        <4>1. n <= asked /\ asked \in Nat
          BY <2>1 DEF Inv, Types, MapTypes
        <4>2. ASSUME NEW i \in 1..Len(answers'[n])
              PROVE  /\ answers'[n][i] \in 1..asked
                     /\ idOf[answers'[n][i]] = idOf[n]
                     /\ raced \/ answers'[n][i] = n \/ n - answers'[n][i] >= IdSpace
          <5>1. CASE i \in 1..Len(answers[n])
            BY <5>1, <2>1, <2>3 DEF Inv, AnswersOK
          <5>2. CASE i = Len(answers[n]) + 1
            BY <5>2, <2>3, <1>3, <1>9 DEF n
          <5> QED BY <5>1, <5>2, <2>1, <2>3, <1>6
        <4> QED BY <3>2, <4>1, <4>2
      <3> QED BY <3>1, <3>2
    <2>5. ~raced => answers[n] = <<>>
      BY <2>1, <1>2 DEF Inv, AnsweredOnce, n
    <2>6. AnsweredOnce'
      BY <2>1, <2>2, <2>3, <2>5, <1>2, <1>3, <1>6, <1>9 DEF Inv, AnsweredOnce
    <2>7. PutOK(b)'
      <3>1. vpn.pc = "put" /\ ~raced => n # asked /\ asked \in Query
        BY <1>1, <1>2, DnsAssumption DEF PutOK, n, Inv, Types, MapTypes, Query
      <3> QED BY <3>1, <2>2, <1>1, <1>2 DEF PutOK
    <2> QED BY <2>4, <2>6, <2>7, <1>2, <1>4, <1>7 DEF Inv, EpochOK
  <1> QED BY <1>5, <1>8, <1>9

\* All the other steps.
LEMMA QuietInv ==
  ASSUME Inv,
         \/ onRevoke \/ ReadFails \/ Refuse \/ BeginRemove \/ Initialize \/ StartVpnThread
         \/ StopVpnThread \/ (CloseSocket /\ ~ProcessDies)
  PROVE  Inv'
  <1>1. Types'
    BY VpnThreadEndType, RoundEndType, BeginRemoveType, LifecycleType DEF Inv
  <1>2. /\ UNCHANGED <<mQueryID, mQueryMap, asked, idOf, answers, raced>>
        /\ net' \subseteq net
        /\ rx' = rx \/ rx' = <<>>
    BY DEF onRevoke, ReadFails, Refuse, BeginRemove, Initialize, StartVpnThread, StopVpnThread,
       CloseSocket
  <1>3. \A i \in 1..Len(rx') : \E j \in 1..Len(rx) : rx'[i] = rx[j]
    BY <1>2
  <1>4. vpn'.pc = "put" => vpn.pc = "put"
    BY DEF Inv, Types, ThreadTypes, VpnState, onRevoke, ReadFails, Refuse, BeginRemove, Initialize,
       StartVpnThread, StopVpnThread, CloseSocket
  <1>5. \/ udp'.pc \in {"ended", "receive"}
        \/ /\ udp'.pc = udp.pc \/ (udp.pc = "got" /\ udp'.pc = "remove")
           /\ udp'.of = udp.of /\ udp'.id = udp.id /\ udp'.state = udp.state
    BY NextRoundPc DEF Inv, Types, ThreadTypes, UdpState, onRevoke, ReadFails, Refuse, BeginRemove,
       Initialize, StartVpnThread, StopVpnThread, CloseSocket, Ended
  <1> QED BY <1>1, <1>2, <1>3, <1>4, <1>5, FrameInv DEF Inv

LEMMA InvNext == Inv /\ [Next]_vars => Inv'
  <1> SUFFICES ASSUME Inv, [Next]_vars PROVE Inv'
    OBVIOUS
  <1>1. CASE BeginPut \/ EndPut \/ VpnThreadThrows
    BY <1>1, BeginPutInv, EndPutInv, ProcessDiesInv DEF VpnThreadThrows
  <1>2. CASE \E d \in net, ok \in BOOLEAN : Arrive(d, ok)
    BY <1>2, ArriveInv
  <1>3. CASE Receive \/ Get \/ EndRemove \/ Write
    BY <1>3, ReceiveInv, GetInv, EndRemoveInv, WriteInv
  <1>4. CASE onRevoke \/ ReadFails \/ Refuse \/ BeginRemove \/ Initialize \/ StartVpnThread
             \/ StopVpnThread
    BY <1>4, QuietInv
  <1>5. CASE CloseSocket
    BY <1>5, ProcessDiesInv, QuietInv
  <1>6. CASE UNCHANGED vars
    <2>1. Types'
      BY <1>6, SameTypes DEF Inv, Types, vars
    <2>2. AnswersOK' /\ AnsweredOnce' /\ EpochOK'
      BY <1>6, FrameInv DEF vars
    <2> QED BY <2>1, <2>2 DEF Inv
  <1> QED BY <1>1, <1>2, <1>3, <1>4, <1>5, <1>6 DEF Next

\* The invariant holds in every reachable state of the two threads and their map
\* (DNSPacket.kt, UDPProxyServer.kt).
THEOREM DnsInvariant == Spec => []Inv
  BY InvInit, InvNext, PTL DEF Spec

-----------------------------------------------------------------------------
(* Properties *)

\* For any size of the ID space, a reply goes to another query than its own only when
\* the ID has come round, or when operations on the map met (DNSPacket.kt:69-87).
THEOREM RepliesDoNotCross == Spec => []NoCrossTalk
  <1>1. Inv => NoCrossTalk
    BY TypeParts DEF Inv, NoCrossTalk, AnswersOK
  <1> QED BY <1>1, DnsInvariant, PTL

\* For any size of the ID space and any number of repeated replies, an app gets one
\* (DNSPacket.kt:83-84).
THEOREM RepeatsAreDropped == Spec => []AnsweredAtMostOnce
  <1>1. Inv => AnsweredAtMostOnce
    BY DEF Inv, AnsweredAtMostOnce, AnsweredOnce
  <1> QED BY <1>1, DnsInvariant, PTL

-----------------------------------------------------------------------------
(* Packets: recursive functions.  The sum of a checksum and the folding of   *)
(* its carries are recursive functions, and both are of this form: a number  *)
(* leads to a smaller one, until it is in a base, and what is met on the way *)
(* down is added up.                                                         *)

\* Every number leads down to one of Base.
Grounded(next, Base) ==
    next \in [Nat -> Nat] /\ \A n \in Nat : n \notin Base => next[n] < n

\* A function that adds up what is met on the way down ...
Follows(F, Base, b, next, w) ==
    F = [n \in Nat |-> IF n \in Base THEN b[n] ELSE F[next[n]] + w[n]]

\* ... or does so up to m.
Descends(F, m, Base, b, next, w) ==
    \A n \in 0..m : F[n] = IF n \in Base THEN b[n] ELSE F[next[n]] + w[n]

\* A set of numbers with no least element is empty.
LEMMA LeastNumber ==
    ASSUME NEW T \in SUBSET Nat, T # {}
    PROVE  \E n \in T : \A k \in T : n <= k
<1>1. OpToRel(<, Nat) = {ss \in Nat \X Nat : ss[1] < ss[2]}
  BY Zenon DEF OpToRel
<1>2. \E x \in T : \A y \in T : ~ (<<y, x>> \in OpToRel(<, Nat))
  BY WFMin, NatLessThanWellFounded
<1>3. \E x \in T : \A y \in T : ~ (<<y, x>> \in {ss \in Nat \X Nat : ss[1] < ss[2]})
  BY <1>1, <1>2, Zenon
<1>4. PICK x \in T : \A y \in T : ~ (<<y, x>> \in {ss \in Nat \X Nat : ss[1] < ss[2]})
  BY <1>3
<1>5. ASSUME NEW k \in T PROVE x <= k
  <2>1. x \in Nat /\ k \in Nat
    OBVIOUS
  <2>2. ~ (k < x)
    BY <1>4, <2>1
  <2>3. QED  BY <2>1, <2>2
<1>6. QED  BY <1>5

\* Induction, as a fact about a set: one that has 0 and the successor of each
\* number it has contains every number.
LEMMA InSet ==
    ASSUME NEW S, 0 \in S, \A n \in Nat : n \in S => n + 1 \in S
    PROVE  Nat \subseteq S
<1> DEFINE T == Nat \ S
<1> SUFFICES ASSUME T # {} PROVE FALSE
  OBVIOUS
<1>1. PICK n \in T : \A k \in T : n <= k
  BY LeastNumber
<1>2. n \in Nat /\ n \notin S /\ n # 0
  OBVIOUS
<1>3. n - 1 \in Nat /\ n - 1 \in S
  BY <1>1, <1>2
<1>4. QED  BY <1>2, <1>3

\* What such a function is can be said up to any number, below which it is
\* defined already.
LEMMA PrefixDefined ==
    ASSUME NEW Base, NEW b, NEW next \in [Nat -> Nat], NEW w,
           \A n \in Nat : n \notin Base => next[n] < n,
           NEW m \in Nat
    PROVE  \E F : Descends(F, m, Base, b, next, w)
<1> DEFINE T == {k \in Nat : ~ \E F : Descends(F, k, Base, b, next, w)}
<1> SUFFICES ASSUME T # {} PROVE FALSE
  OBVIOUS
<1>1. PICK k \in T : \A j \in T : k <= j
  BY LeastNumber
<1>2. k \in Nat
  OBVIOUS
<1>3. PICK F : \A n \in 0..k - 1 : F[n] = IF n \in Base THEN b[n] ELSE F[next[n]] + w[n]
  <2>1. CASE k = 0
    BY <2>1
  <2>2. CASE k # 0
    <3>1. k - 1 \in Nat /\ k - 1 \notin T
      BY <2>2, <1>1, <1>2
    <3>2. QED  BY <3>1 DEF Descends
  <2>3. QED  BY <2>1, <2>2
<1> DEFINE last == IF k \in Base THEN b[k] ELSE F[next[k]] + w[k]
           G == [n \in 0..k |-> IF n < k THEN F[n] ELSE last]
<1>4. /\ \A n \in 0..k - 1 : G[n] = F[n]
      /\ G[k] = last
  <2> HIDE DEF last
  <2>1. QED  BY <1>2
<1>5. \A n \in 0..k : n \notin Base => next[n] \in 0..k - 1 /\ next[n] < n
  BY <1>2
<1>6. Descends(G, k, Base, b, next, w)
  <2> HIDE DEF G
  <2> SUFFICES ASSUME NEW n \in 0..k
               PROVE  G[n] = IF n \in Base THEN b[n] ELSE G[next[n]] + w[n]
    BY DEF Descends
  <2>1. n \notin Base => G[next[n]] = F[next[n]]
    BY <1>4, <1>5
  <2>2. CASE n < k
    <3>1. n \in 0..k - 1
      BY <1>2, <2>2
    <3>2. G[n] = F[n] /\ F[n] = IF n \in Base THEN b[n] ELSE F[next[n]] + w[n]
      BY <1>3, <1>4, <3>1
    <3>3. QED  BY <2>1, <3>2
  <2>3. CASE n = k
    BY <1>4, <2>1, <2>3
  <2>4. QED  BY <2>2, <2>3, <1>2
<1>7. QED  BY <1>6

\* Two functions that add up the same on the way down agree.
LEMMA PrefixUnique ==
    ASSUME NEW Base, NEW b, NEW next \in [Nat -> Nat], NEW w,
           \A n \in Nat : n \notin Base => next[n] < n,
           NEW F, NEW G, NEW k \in Nat, NEW m \in Nat, k <= m,
           Descends(F, k, Base, b, next, w), Descends(G, m, Base, b, next, w)
    PROVE  F[k] = G[k]
<1> DEFINE T == {j \in 0..k : F[j] # G[j]}
<1> SUFFICES ASSUME T # {} PROVE FALSE
  OBVIOUS
<1>1. PICK j \in T : \A i \in T : j <= i
  <2>1. T \in SUBSET Nat
    OBVIOUS
  <2>2. QED  BY <2>1, LeastNumber
<1>2. j \in 0..k /\ j \in 0..m /\ F[j] # G[j]
  OBVIOUS
<1>3. F[j] = IF j \in Base THEN b[j] ELSE F[next[j]] + w[j]
  BY <1>2 DEF Descends
<1>4. G[j] = IF j \in Base THEN b[j] ELSE G[next[j]] + w[j]
  BY <1>2 DEF Descends
<1>5. j \notin Base
  BY <1>2, <1>3, <1>4
<1>6. next[j] \in 0..k /\ next[j] \notin T
  <2> HIDE DEF T
  <2>1. next[j] \in Nat /\ next[j] < j
    BY <1>2, <1>5
  <2>2. QED  BY <2>1, <1>1, <1>2
<1>7. QED  BY <1>2, <1>3, <1>4, <1>5, <1>6

\* A function that is defined by descent exists: what CHOOSE picks for a
\* recursive function is one that follows its equation.
LEMMA DescentDefined ==
    ASSUME NEW Base, NEW b, NEW next, NEW w, Grounded(next, Base)
    PROVE  \E F : Follows(F, Base, b, next, w)
<1> USE DEF Grounded, Follows
<1> DEFINE P(m) == CHOOSE F : Descends(F, m, Base, b, next, w)
           F == [n \in Nat |-> P(n)[n]]
<1>1. ASSUME NEW m \in Nat PROVE Descends(P(m), m, Base, b, next, w)
  BY PrefixDefined
<1> HIDE DEF P
<1>2. ASSUME NEW n \in Nat
      PROVE  F[n] = IF n \in Base THEN b[n] ELSE F[next[n]] + w[n]
  <2>1. P(n)[n] = IF n \in Base THEN b[n] ELSE P(n)[next[n]] + w[n]
    BY <1>1 DEF Descends
  <2>2. ASSUME n \notin Base PROVE P(next[n])[next[n]] = P(n)[next[n]]
    <3>1. next[n] \in Nat /\ next[n] <= n
      BY <2>2
    <3>2. Descends(P(next[n]), next[n], Base, b, next, w) /\ Descends(P(n), n, Base, b, next, w)
      BY <1>1, <3>1
    <3>3. QED  BY <3>1, <3>2, PrefixUnique
  <2>3. QED  BY <2>1, <2>2
<1>3. F = [n \in Nat |-> IF n \in Base THEN b[n] ELSE F[next[n]] + w[n]]
  <2> HIDE DEF F
  <2>1. \A n \in Nat : F[n] = IF n \in Base THEN b[n] ELSE F[next[n]] + w[n]
    BY <1>2
  <2>2. F = [n \in Nat |-> F[n]]
    BY DEF F
  <2>3. QED  BY <2>1, <2>2
<1>4. QED  BY <1>3

\* The loop of getsum adds one word after the other.
LEMMA TotalDef ==
    ASSUME NEW w
    PROVE  /\ Total(w)[0] = 0
           /\ \A n \in Nat : Total(w)[n + 1] = Total(w)[n] + w[n]
<1> DEFINE b == [n \in Nat |-> 0]
           next == [n \in Nat |-> IF n = 0 THEN 0 ELSE n - 1]
           v == [n \in Nat |-> w[n - 1]]
           D(F) == F = [n \in Nat |-> IF n = 0 THEN 0 ELSE F[n - 1] + w[n - 1]]
<1>1. Grounded(next, {0})
  BY DEF Grounded
<1>2. PICK F : Follows(F, {0}, b, next, v)
  <2> HIDE DEF b, next, v
  <2>1. \E F : Follows(F, {0}, b, next, v)
    BY <1>1, DescentDefined
  <2>2. QED  BY <2>1
<1>3. D(F)
  BY <1>2 DEF Follows
<1>4. D(Total(w))
  BY <1>3 DEF Total
<1>5. \A n \in Nat : Total(w)[n] = IF n = 0 THEN 0 ELSE Total(w)[n - 1] + w[n - 1]
  <2> DEFINE S == Total(w)
  <2>1. S = [n \in Nat |-> IF n = 0 THEN 0 ELSE S[n - 1] + w[n - 1]]
    BY <1>4
  <2> HIDE DEF S
  <2>2. \A n \in Nat : S[n] = IF n = 0 THEN 0 ELSE S[n - 1] + w[n - 1]
    BY <2>1
  <2>3. QED  BY <2>2 DEF S
<1>6. QED  BY <1>5

\* The loop of checksum folds the carries until there are none: each turn makes
\* the sum smaller.
LEMMA FoldedDef ==
    \A n \in Nat : Folded[n] = IF high(n) = 0 THEN n ELSE Folded[low(n) + high(n)]
<1> DEFINE b == [n \in Nat |-> n]
           next == [n \in Nat |-> low(n) + high(n)]
           Base == {n \in Nat : high(n) = 0}
           v == [n \in Nat |-> 0]
           D(F) == F = [n \in Nat |-> IF high(n) = 0 THEN n ELSE F[low(n) + high(n)]]
<1>0. ASSUME NEW n \in Nat
      PROVE  low(n) + high(n) \in Nat /\ (high(n) # 0 => low(n) + high(n) < n)
  BY DEF low, high
<1>1. Grounded(next, Base)
  BY <1>0 DEF Grounded
<1>2. PICK F : Follows(F, Base, b, next, v)
  <2> HIDE DEF b, next, v, Base
  <2>1. \E F : Follows(F, Base, b, next, v)
    BY <1>1, DescentDefined
  <2>2. QED  BY <2>1
<1>3. ASSUME NEW n \in Nat
      PROVE  F[n] = IF high(n) = 0 THEN n ELSE F[low(n) + high(n)] + 0
  BY <1>2, <1>0 DEF Follows
<1>4. \A n \in Nat : F[n] \in Int
  <2> DEFINE T == {n \in Nat : F[n] \notin Int}
  <2> SUFFICES ASSUME T # {} PROVE FALSE
    OBVIOUS
  <2>1. PICK n \in T : \A k \in T : n <= k
    BY LeastNumber
  <2>2. n \in Nat /\ F[n] \notin Int
    OBVIOUS
  <2>3. high(n) # 0
    BY <2>2, <1>3
  <2>4. F[low(n) + high(n)] \in Int
    BY <1>0, <2>1, <2>2, <2>3
  <2>5. QED  BY <1>3, <2>2, <2>3, <2>4
<1>5. ASSUME NEW n \in Nat
      PROVE  F[n] = IF high(n) = 0 THEN n ELSE F[low(n) + high(n)]
  BY <1>0, <1>3, <1>4
<1>6. D(F)
  <2>1. F = [n \in Nat |-> F[n]]
    BY <1>2 DEF Follows
  <2>2. QED  BY <1>5, <2>1
<1>7. D(Folded)
  BY <1>6 DEF Folded
<1>8. QED
  <2> DEFINE S == Folded
  <2>1. S = [n \in Nat |-> IF high(n) = 0 THEN n ELSE S[low(n) + high(n)]]
    BY <1>7
  <2> HIDE DEF S
  <2>2. \A n \in Nat : S[n] = IF high(n) = 0 THEN n ELSE S[low(n) + high(n)]
    BY <2>1
  <2>3. QED  BY <2>2 DEF S

\* One turn of the loop takes a multiple of 65535 away, and leaves less.
LEMMA LowHigh ==
    ASSUME NEW n \in Nat
    PROVE  /\ low(n) \in Nat /\ high(n) \in Nat /\ low(n) < 65536
           /\ n = 65536 * high(n) + low(n)
  BY DEF low, high

\* f is what is left of k when its words are added up.
FoldsTo(k, f) == /\ f \in Nat /\ f < 65536
                 /\ \E q \in Nat : k = f + 65535 * q

\* Folding leaves a word that is the sum but for a multiple of 65535.
LEMMA FoldedCongruent ==
    ASSUME NEW n \in Nat
    PROVE  FoldsTo(n, Folded[n])
<1> DEFINE Good(k) == FoldsTo(k, Folded[k])
           T == {k \in Nat : ~ Good(k)}
<1> HIDE DEF Good
<1> SUFFICES ASSUME T # {} PROVE FALSE
  <2>1. n \notin T => Good(n)
    OBVIOUS
  <2>2. QED  BY <2>1 DEF Good
<1>1. PICK k \in T : \A j \in T : k <= j
  BY LeastNumber
<1>2. k \in Nat /\ ~ Good(k)
  OBVIOUS
<1>3. low(k) \in Nat /\ high(k) \in Nat /\ low(k) < 65536 /\ k = 65536 * high(k) + low(k)
  BY <1>2, LowHigh
<1>4. CASE high(k) = 0
  <2>1. Folded[k] = k /\ k = low(k)
    BY <1>2, <1>3, <1>4, FoldedDef
  <2>2. k = Folded[k] + 65535 * 0
    BY <1>2, <2>1
  <2>3. QED  BY <1>2, <1>3, <2>1, <2>2 DEF Good, FoldsTo
<1>5. CASE high(k) # 0
  <2> DEFINE j == low(k) + high(k)
  <2>1. Folded[k] = Folded[j]
    BY <1>2, <1>5, FoldedDef
  <2>2. j \in Nat /\ j < k /\ k = j + 65535 * high(k)
    BY <1>2, <1>3, <1>5
  <2> HIDE DEF j
  <2>3. Good(j)
    BY <1>1, <2>2
  <2>4. PICK q \in Nat : j = Folded[j] + 65535 * q
    BY <2>3 DEF Good, FoldsTo
  <2>5. k = Folded[k] + 65535 * (q + high(k)) /\ q + high(k) \in Nat
    BY <1>3, <2>1, <2>2, <2>3, <2>4 DEF Good, FoldsTo
  <2>6. QED  BY <1>2, <2>1, <2>3, <2>5 DEF Good, FoldsTo
<1>6. QED  BY <1>4, <1>5

\* A sum of numbers is a number.
LEMMA TotalType ==
    ASSUME NEW w, NEW n \in Nat, \A k \in 0..n - 1 : w[k] \in Nat
    PROVE  Total(w)[n] \in Nat
<1> DEFINE S == {m \in Nat : m <= n => Total(w)[m] \in Nat}
<1>1. 0 \in S
  BY TotalDef
<1>2. ASSUME NEW m \in Nat, m \in S PROVE m + 1 \in S
  BY <1>2, TotalDef
<1>3. Nat \subseteq S
  <2> HIDE DEF S
  <2>1. QED  BY <1>1, <1>2, InSet
<1>4. QED  BY <1>3

\* A sum depends on what it adds up and on nothing else.
LEMMA TotalSame ==
    ASSUME NEW w, NEW v, NEW n \in Nat, \A k \in 0..n - 1 : w[k] = v[k]
    PROVE  Total(w)[n] = Total(v)[n]
<1> DEFINE S == {m \in Nat : m <= n => Total(w)[m] = Total(v)[m]}
<1>1. 0 \in S
  BY TotalDef
<1>2. ASSUME NEW m \in Nat, m \in S PROVE m + 1 \in S
  <2>1. /\ Total(w)[m + 1] = Total(w)[m] + w[m]
        /\ Total(v)[m + 1] = Total(v)[m] + v[m]
    BY TotalDef
  <2>2. QED  BY <1>2, <2>1
<1>3. Nat \subseteq S
  <2> HIDE DEF S
  <2>1. QED  BY <1>1, <1>2, InSet
<1>4. QED  BY <1>3

\* v is w but for j, up to n.
DiffersAt(v, w, n, j) ==
    /\ n \in Nat /\ j \in 0..n - 1
    /\ \A k \in 0..n - 1 : w[k] \in Nat /\ v[k] \in Nat /\ (k # j => v[k] = w[k])

\* A sum in which one number has been replaced.
LEMMA TotalChanged ==
    ASSUME NEW w, NEW v, NEW n, NEW j, DiffersAt(v, w, n, j)
    PROVE  Total(v)[n] = Total(w)[n] + v[j] - w[j]
<1> USE DEF DiffersAt
<1> DEFINE S == {m \in Nat : m \in j + 1..n => Total(v)[m] = Total(w)[m] + v[j] - w[j]}
<1>1. 0 \in S
  OBVIOUS
<1>2. ASSUME NEW m \in Nat, m \in S PROVE m + 1 \in S
  <2>1. /\ Total(w)[m + 1] = Total(w)[m] + w[m]
        /\ Total(v)[m + 1] = Total(v)[m] + v[m]
    BY TotalDef
  <2>2. SUFFICES ASSUME m + 1 \in j + 1..n
                 PROVE  Total(v)[m + 1] = Total(w)[m + 1] + v[j] - w[j]
    OBVIOUS
  <2>3. Total(w)[m] \in Nat /\ Total(v)[m] \in Nat /\ w[m] \in Nat /\ v[m] \in Nat
    <3>1. m <= n /\ m \in 0..n - 1
      BY <2>2
    <3>2. QED  BY <3>1, TotalType
  <2>4. CASE m = j
    <3>1. Total(w)[m] = Total(v)[m]
      <4>1. \A k \in 0..m - 1 : w[k] = v[k]
        BY <2>4
      <4>2. QED  BY <4>1, TotalSame
    <3>2. QED  BY <2>1, <2>3, <2>4, <3>1
  <2>5. CASE m # j
    <3>1. m \in j + 1..n /\ v[m] = w[m]
      BY <2>2, <2>5
    <3>2. Total(v)[m] = Total(w)[m] + v[j] - w[j]
      BY <1>2, <3>1
    <3>3. w[j] \in Nat /\ v[j] \in Nat
      OBVIOUS
    <3>4. QED  BY <2>1, <2>3, <3>1, <3>2, <3>3
  <2>6. QED  BY <2>4, <2>5
<1>3. Nat \subseteq S
  <2> HIDE DEF S
  <2>1. QED  BY <1>1, <1>2, InSet
<1>4. QED  BY <1>3

-----------------------------------------------------------------------------
(* Packets: bytes, words and sums.                                           *)

\* A byte and a Short are told by their bounds.
LEMMA ByteDef ==
    ASSUME NEW b
    PROVE  b \in Byte <=> b \in Nat /\ b < 256
  BY DEF Byte

LEMMA ShortDef ==
    ASSUME NEW v
    PROVE  v \in Short <=> v \in Int /\ -32768 <= v /\ v < 32768
  BY DEF Short

\* Kotlin's toShort keeps the 16 bits.
LEMMA ToShort ==
    ASSUME NEW v \in Int
    PROVE  toShort(v) \in Short /\ toShort(v) % 65536 = v % 65536
<1>1. toShort(v) \in Int /\ -32768 <= toShort(v) /\ toShort(v) < 32768
  BY DEF toShort
<1>2. toShort(v) % 65536 = v % 65536
  BY DEF toShort
<1>3. QED  BY <1>1, <1>2, ShortDef

\* A Short is what its 16 bits are the word of.
LEMMA ToShortOfShort ==
    ASSUME NEW v \in Short
    PROVE  /\ v \in Int /\ v % 65536 \in Nat /\ v % 65536 < 65536
           /\ toShort(v % 65536) = v
<1>1. v \in Int /\ -32768 <= v /\ v < 32768
  BY ShortDef
<1>2. QED  BY <1>1 DEF toShort

\* The two bytes of a Short.
LEMMA HighLow ==
    ASSUME NEW v \in Int
    PROVE  /\ (v \div 256) % 256 \in Byte /\ v % 256 \in Byte
           /\ 256 * ((v \div 256) % 256) + (v % 256) = v % 65536
<1> DEFINE q == v \div 256
           r == v % 256
           s == q \div 256
           t == q % 256
<1>1. q \in Int /\ r \in Nat /\ r < 256 /\ v = 256 * q + r
  OBVIOUS
<1>2. s \in Int /\ t \in Nat /\ t < 256 /\ q = 256 * s + t
  BY <1>1
<1>3. t \in Byte /\ r \in Byte
  BY <1>1, <1>2, ByteDef
<1>4. 256 * t + r = v % 65536
  <2> HIDE DEF q, r, s, t
  <2>1. v = 65536 * s + (256 * t + r) /\ 256 * t + r \in Nat /\ 256 * t + r < 65536
    BY <1>1, <1>2
  <2>2. QED  BY <2>1, <1>2
<1>5. QED  BY <1>3, <1>4

\* The word at o is the number its two bytes make, whatever its sign.
LEMMA Word ==
    ASSUME NEW d, NEW o \in Nat, d[o] \in Byte, d[o + 1] \in Byte
    PROVE  /\ word(d, o) = 256 * d[o] + d[o + 1]
           /\ word(d, o) \in Nat /\ word(d, o) < 65536
           /\ readShort(d, o) \in Short /\ readShort(d, o) = toShort(word(d, o))
<1>1. d[o] \in Nat /\ d[o] < 256 /\ d[o + 1] \in Nat /\ d[o + 1] < 256
  BY ByteDef
<1> DEFINE v == 256 * d[o] + d[o + 1]
<1>2. v \in Nat /\ v < 65536
  BY <1>1
<1> HIDE DEF v
<1>3. toShort(v) \in Short /\ toShort(v) % 65536 = v % 65536 /\ v % 65536 = v
  BY <1>2, ToShort
<1>4. readShort(d, o) = toShort(v) /\ word(d, o) = toShort(v) % 65536
  BY DEF readShort, word, v
<1>5. QED  BY <1>2, <1>3, <1>4 DEF v

\* d is n bytes; a word may stand at o in them; e is d with v written there.
IsBytes(d, n) == n \in Nat /\ d \in [0..n - 1 -> Byte]
WordIn(o, n) == o \in Nat /\ o + 1 < n
Wrote(e, d, n, o, v) ==
    /\ IsBytes(e, n)
    /\ \A i \in 0..n - 1 : i # o /\ i # o + 1 => e[i] = d[i]
    /\ word(e, o) = v % 65536
    /\ v \in Short => readShort(e, o) = v

\* Writing a Short changes its two bytes, and reading it gives it back, also when
\* it is negative (EasyValue.kt:16, 29).
LEMMA WriteShort ==
    ASSUME NEW n, NEW d, NEW o, NEW v \in Int, IsBytes(d, n), WordIn(o, n)
    PROVE  Wrote(writeShort(d, o, v), d, n, o, v)
<1> DEFINE e == writeShort(d, o, v)
           x == (v \div 256) % 256
           y == v % 256
<1>1. x \in Byte /\ y \in Byte /\ 256 * x + y = v % 65536
  BY HighLow
<1>2. e = [d EXCEPT ![o] = x, ![o + 1] = y]
  BY DEF writeShort
<1> HIDE DEF e, x, y
<1>3. n \in Nat /\ d \in [0..n - 1 -> Byte] /\ o \in Nat /\ o + 1 < n
  BY DEF IsBytes, WordIn
<1>4. /\ e \in [0..n - 1 -> Byte] /\ e[o] = x /\ e[o + 1] = y
      /\ \A i \in 0..n - 1 : i # o /\ i # o + 1 => e[i] = d[i]
  BY <1>1, <1>2, <1>3
<1>5. word(e, o) = v % 65536 /\ readShort(e, o) = toShort(v % 65536)
  BY <1>1, <1>3, <1>4, Word
<1>6. v \in Short => readShort(e, o) = v
  BY <1>5, ToShortOfShort
<1>7. Wrote(e, d, n, o, v)
  BY <1>3, <1>4, <1>5, <1>6 DEF Wrote, IsBytes
<1>8. QED  BY <1>7 DEF e

\* The code adds up words, the reference adds up bytes by their weights: the sums
\* are the same, whether the number of bytes is even or odd (Checksum.kt:10).
LEMMA WeightedIsSum ==
    ASSUME NEW n \in Nat, NEW d \in [0..n - 1 -> Byte],
           NEW o \in Nat, NEW len \in Nat, o + len <= n
    PROVE  Weighted(d, o, len) = getsum(d, o, len) /\ getsum(d, o, len) \in Nat
<1> DEFINE b == [i \in Nat |-> d[o + i] * weight(i)]
           w == words(d, o)
           S == {k \in Nat : 2 * k <= len => Total(b)[2 * k] = Total(w)[k]}
<1>1. ASSUME NEW i \in 0..n - 1 PROVE d[i] \in Nat /\ d[i] < 256
  <2>1. d[i] \in Byte
    OBVIOUS
  <2>2. QED  BY <2>1, ByteDef
<1>2. ASSUME NEW k \in Nat
      PROVE  b[2 * k] = 256 * d[o + 2 * k] \/ d[o + 2 * k] \notin Nat
  <2>1. weight(2 * k) = 256 /\ 2 * k \in Nat
    BY DEF weight
  <2>2. b[2 * k] = d[o + 2 * k] * 256
    BY <2>1
  <2> DEFINE x == d[o + 2 * k]
  <2> HIDE DEF b, x
  <2>3. b[2 * k] = x * 256
    BY <2>2 DEF x
  <2>4. b[2 * k] = 256 * x \/ x \notin Nat
    BY <2>3
  <2>5. QED  BY <2>4 DEF x
<1>3. ASSUME NEW k \in Nat, 2 * k + 1 < len
      PROVE  /\ b[2 * k] \in Nat /\ b[2 * k + 1] \in Nat /\ w[k] \in Nat
             /\ w[k] = b[2 * k] + b[2 * k + 1]
  <2> DEFINE m == o + 2 * k
             x == d[m]
             y == d[m + 1]
  <2>1. m \in 0..n - 1 /\ m + 1 \in 0..n - 1 /\ m \in Nat
    BY <1>3
  <2>2. x \in Nat /\ y \in Nat /\ x \in Byte /\ y \in Byte
    BY <1>1, <2>1
  <2>3. b[2 * k] = 256 * x
    BY <1>2, <2>2
  <2>4. b[2 * k + 1] = y * 1
    <3>1. weight(2 * k + 1) = 1 /\ 2 * k + 1 \in Nat /\ o + (2 * k + 1) = m + 1
      BY DEF weight
    <3>2. b[2 * k + 1] = d[o + (2 * k + 1)] * 1
      BY <3>1
    <3>3. QED  BY <3>1, <3>2
  <2>5. w[k] = word(d, m)
    BY DEF words
  <2>6. word(d, m) = 256 * x + y
    <3> HIDE DEF m
    <3>1. QED  BY <2>1, <2>2, Word
  <2> HIDE DEF m, x, y, b, w
  <2>7. QED  BY <2>2, <2>3, <2>4, <2>5, <2>6
<1> HIDE DEF b, w
<1>4. ASSUME NEW k \in Nat, 2 * k <= len PROVE Total(w)[k] \in Nat
  <2>1. \A j \in 0..k - 1 : j \in Nat /\ 2 * j + 1 < len
    BY <1>4
  <2>2. \A j \in 0..k - 1 : w[j] \in Nat
    BY <1>3, <2>1
  <2>3. QED  BY <2>2, TotalType
<1>5. Nat \subseteq S
  <2>1. 0 \in S
    <3>1. Total(b)[2 * 0] = 0 /\ Total(w)[0] = 0
      BY TotalDef
    <3>2. QED  BY <3>1
  <2>2. ASSUME NEW k \in Nat, k \in S PROVE k + 1 \in S
    <3>1. SUFFICES ASSUME 2 * (k + 1) <= len
                   PROVE  Total(b)[2 * (k + 1)] = Total(w)[k + 1]
      OBVIOUS
    <3>2. Total(b)[2 * k] = Total(w)[k] /\ Total(w)[k] \in Nat
      BY <2>2, <3>1, <1>4
    <3>3. 2 * k \in Nat /\ 2 * k + 1 \in Nat /\ 2 * k + 1 + 1 = 2 * (k + 1) /\ 2 * k + 1 < len
      BY <3>1
    <3>4. /\ Total(b)[2 * k + 1] = Total(b)[2 * k] + b[2 * k]
          /\ Total(b)[2 * k + 1 + 1] = Total(b)[2 * k + 1] + b[2 * k + 1]
          /\ Total(w)[k + 1] = Total(w)[k] + w[k]
      BY <3>3, TotalDef
    <3>5. /\ b[2 * k] \in Nat /\ b[2 * k + 1] \in Nat /\ w[k] = b[2 * k] + b[2 * k + 1]
      BY <3>3, <1>3
    <3>6. QED  BY <3>2, <3>3, <3>4, <3>5
  <2> HIDE DEF S
  <2>3. QED  BY <2>1, <2>2, InSet
<1> DEFINE h == len \div 2
<1>6. h \in Nat /\ (len = 2 * h \/ len = 2 * h + 1)
  OBVIOUS
<1>7. Total(b)[2 * h] = Total(w)[h] /\ Total(w)[h] \in Nat
  BY <1>4, <1>5, <1>6
<1>8. Weighted(d, o, len) = Total(b)[len]
  BY DEF Weighted, b
<1>9. getsum(d, o, len) = Total(w)[h] + (IF len % 2 = 1 THEN 256 * d[o + len - 1] ELSE 0)
  BY DEF getsum, w
<1>10. CASE len = 2 * h
  <2>1. len % 2 # 1
    BY <1>6, <1>10
  <2>2. QED  BY <1>7, <1>8, <1>9, <1>10, <2>1
<1>11. CASE len = 2 * h + 1
  <2>1. len % 2 = 1
    BY <1>6, <1>11
  <2>2. Total(b)[len] = Total(b)[2 * h] + b[2 * h]
    <3>1. 2 * h \in Nat
      BY <1>6
    <3> HIDE DEF h
    <3>2. Total(b)[2 * h + 1] = Total(b)[2 * h] + b[2 * h]
      BY <3>1, TotalDef
    <3>3. QED  BY <3>2, <1>11
  <2>3. o + 2 * h = o + len - 1 /\ o + len - 1 \in 0..n - 1
    BY <1>6, <1>11
  <2>4. b[2 * h] = 256 * d[o + len - 1] /\ d[o + len - 1] \in Nat
    <3> HIDE DEF h
    <3>1. d[o + 2 * h] = d[o + len - 1] /\ d[o + 2 * h] \in Nat
      BY <1>1, <2>3
    <3>2. b[2 * h] = 256 * d[o + 2 * h] \/ d[o + 2 * h] \notin Nat
      BY <1>2, <1>6
    <3>3. QED  BY <3>1, <3>2
  <2> HIDE DEF h
  <2>5. QED  BY <1>7, <1>8, <1>9, <2>1, <2>2, <2>4
<1>12. QED  BY <1>6, <1>10, <1>11

\* What is added up depends on the bytes it is over.
LEMMA WeightedSame ==
    ASSUME NEW d, NEW e, NEW o \in Nat, NEW len \in Nat,
           \A i \in o..o + len - 1 : e[i] = d[i]
    PROVE  Weighted(e, o, len) = Weighted(d, o, len)
<1> DEFINE v == [i \in Nat |-> d[o + i] * weight(i)]
           w == [i \in Nat |-> e[o + i] * weight(i)]
<1>1. \A i \in 0..len - 1 : w[i] = v[i]
  OBVIOUS
<1> HIDE DEF v, w
<1>2. Total(w)[len] = Total(v)[len]
  BY <1>1, TotalSame
<1>3. QED  BY <1>2 DEF v, w, Weighted

\* p is the place of one of the words that len bytes at o are added up by.
OnWord(p, o, len) == \E j \in Nat : p = o + 2 * j /\ 2 * j + 1 < len

\* Writing a word changes the sum by the difference of the words.
LEMMA SumChanged ==
    ASSUME NEW n \in Nat, NEW d \in [0..n - 1 -> Byte],
           NEW o \in Nat, NEW len \in Nat, o + len <= n,
           NEW p \in Nat, OnWord(p, o, len), NEW v \in Int
    PROVE  getsum(writeShort(d, p, v), o, len) = getsum(d, o, len) - word(d, p) + (v % 65536)
<1> DEFINE e == writeShort(d, p, v)
           h == len \div 2
           a == words(d, o)
           c == words(e, o)
           last == IF len % 2 = 1 THEN 256 * d[o + len - 1] ELSE 0
<1>0. PICK j \in Nat : p = o + 2 * j /\ 2 * j + 1 < len
  BY DEF OnWord
<1>1. p + 1 < n /\ h \in Nat /\ j \in 0..h - 1 /\ 2 * h <= len
  BY <1>0
<1>2. /\ e \in [0..n - 1 -> Byte] /\ word(e, p) = v % 65536
      /\ \A i \in 0..n - 1 : i # p /\ i # p + 1 => e[i] = d[i]
  <2>1. IsBytes(d, n) /\ WordIn(p, n)
    BY <1>1 DEF IsBytes, WordIn
  <2>2. Wrote(e, d, n, p, v)
    BY <2>1, WriteShort
  <2>3. QED  BY <2>2 DEF Wrote, IsBytes
<1>3. ASSUME NEW k \in 0..h - 1
      PROVE  /\ a[k] = word(d, o + 2 * k) /\ c[k] = word(e, o + 2 * k)
             /\ a[k] \in Nat /\ c[k] \in Nat /\ (k # j => c[k] = a[k])
  <2> DEFINE m == o + 2 * k
  <2>1. m \in Nat /\ m \in 0..n - 1 /\ m + 1 \in 0..n - 1 /\ k \in Nat
    BY <1>1
  <2>2. a[k] = word(d, m) /\ c[k] = word(e, m)
    BY <2>1 DEF words
  <2>3. d[m] \in Byte /\ d[m + 1] \in Byte /\ e[m] \in Byte /\ e[m + 1] \in Byte
    BY <1>2, <2>1
  <2>4. ASSUME k # j PROVE e[m] = d[m] /\ e[m + 1] = d[m + 1]
    <3>1. m # p /\ m # p + 1 /\ m + 1 # p /\ m + 1 # p + 1
      BY <1>0, <1>1, <2>4
    <3> HIDE DEF m, e
    <3>2. QED  BY <1>2, <2>1, <3>1
  <2> HIDE DEF m, e, a, c
  <2>5. /\ word(d, m) \in Nat /\ word(d, m) = 256 * d[m] + d[m + 1]
        /\ word(e, m) \in Nat /\ word(e, m) = 256 * e[m] + e[m + 1]
    BY <2>1, <2>3, Word
  <2>6. a[k] \in Nat /\ c[k] \in Nat
    BY <2>2, <2>5
  <2>7. k # j => c[k] = a[k]
    BY <2>2, <2>4, <2>5
  <2>8. QED  BY <2>2, <2>6, <2>7 DEF m
<1>4. Total(c)[h] = Total(a)[h] + c[j] - a[j]
  <2> HIDE DEF a, c, h
  <2>1. DiffersAt(c, a, h, j)
    BY <1>1, <1>3 DEF DiffersAt
  <2>2. QED  BY <2>1, TotalChanged
<1>5. Total(a)[h] \in Nat
  <2> HIDE DEF a, c, h
  <2>1. QED  BY <1>1, <1>3, TotalType
<1>6. last \in Nat /\ last = IF len % 2 = 1 THEN 256 * e[o + len - 1] ELSE 0
  <2>1. CASE len % 2 = 1
    <3> DEFINE l == o + len - 1
    <3>1. l \in 0..n - 1 /\ l # p /\ l # p + 1
      BY <1>0, <1>1, <2>1
    <3>2. d[l] \in Byte /\ e[l] = d[l]
      <4> HIDE DEF l, e
      <4>1. QED  BY <1>2, <3>1
    <3>3. d[l] \in Nat
      BY <3>2, ByteDef
    <3> HIDE DEF e
    <3>4. QED  BY <2>1, <3>2, <3>3
  <2>2. CASE len % 2 # 1
    BY <2>2
  <2>3. QED  BY <2>1, <2>2
<1>7. getsum(d, o, len) = Total(a)[h] + last /\ getsum(e, o, len) = Total(c)[h] + last
  <2> HIDE DEF e
  <2>1. QED  BY <1>6 DEF getsum
<1>8. a[j] = word(d, p) /\ c[j] = v % 65536 /\ a[j] \in Nat /\ c[j] \in Nat
  <2> HIDE DEF a, c, e, h
  <2>1. QED  BY <1>0, <1>1, <1>2, <1>3
<1> DEFINE x == v % 65536
<1> HIDE DEF a, c, e, h, last, x
<1>9. getsum(e, o, len) = getsum(d, o, len) - word(d, p) + x
  <2>1. getsum(e, o, len) = Total(a)[h] + c[j] - a[j] + last
    BY <1>4, <1>7
  <2>2. a[j] = word(d, p) /\ c[j] = x /\ a[j] \in Nat /\ c[j] \in Nat
    BY <1>8 DEF x
  <2>3. getsum(d, o, len) = Total(a)[h] + last /\ last \in Nat
    BY <1>6, <1>7
  <2>4. QED  BY <1>5, <2>1, <2>2, <2>3
<1>10. QED  BY <1>9 DEF e, x

\* A checksum written where a zero was makes the sum over it a multiple of 65535:
\* the sum is folded, and its complement cut to a Short, without loss
\* (Checksum.kt:26).
LEMMA ChecksumCancels ==
    ASSUME NEW n \in Nat, NEW d \in [0..n - 1 -> Byte],
           NEW o \in Nat, NEW len \in Nat, o + len <= n,
           NEW p \in Nat, OnWord(p, o, len), word(d, p) = 0,
           NEW sum \in Nat
    PROVE  /\ checksum(sum, d, o, len) \in Short
           /\ (sum + Weighted(writeShort(d, p, checksum(sum, d, o, len)), o, len)) % 65535 = 0
<1> DEFINE s == getsum(d, o, len)
           f == Folded[sum + s]
           c == checksum(sum, d, o, len)
           e == writeShort(d, p, c)
<1>1. s \in Nat
  BY WeightedIsSum
<1> HIDE DEF s
<1>2. f \in Nat /\ f < 65536 /\ \E q \in Nat : sum + s = f + 65535 * q
  <2> DEFINE t == sum + s
  <2>1. t \in Nat
    BY <1>1
  <2> HIDE DEF t
  <2>2. FoldsTo(t, Folded[t])
    BY <2>1, FoldedCongruent
  <2>3. QED  BY <2>2 DEF t, FoldsTo
<1>3. c = toShort(-1 - f)
  BY DEF checksum, s
<1> HIDE DEF f, c
<1>4. c \in Short /\ c \in Int /\ c % 65536 = 65535 - f
  <2>1. -1 - f \in Int /\ (-1 - f) % 65536 = 65535 - f
    BY <1>2
  <2>2. c \in Short /\ c % 65536 = (-1 - f) % 65536
    BY <1>3, <2>1, ToShort
  <2>3. QED  BY <2>1, <2>2, ToShortOfShort
<1>5. getsum(e, o, len) = s - 0 + (65535 - f)
  <2>1. getsum(e, o, len) = getsum(d, o, len) - word(d, p) + (c % 65536)
    BY <1>4, SumChanged
  <2>2. QED  BY <1>4, <2>1 DEF s
<1>6. Weighted(e, o, len) = getsum(e, o, len)
  <2>1. p + 1 < n
    BY DEF OnWord
  <2>2. e \in [0..n - 1 -> Byte]
    <3>1. IsBytes(d, n) /\ WordIn(p, n)
      BY <2>1 DEF IsBytes, WordIn
    <3>2. Wrote(e, d, n, p, c)
      BY <1>4, <3>1, WriteShort
    <3>3. QED  BY <3>2 DEF Wrote, IsBytes
  <2> HIDE DEF e
  <2>3. QED  BY <2>2, WeightedIsSum
<1>7. PICK q \in Nat : sum + s = f + 65535 * q
  BY <1>2
<1> HIDE DEF e
<1>8. sum + Weighted(e, o, len) = 65535 * (q + 1)
  BY <1>1, <1>2, <1>5, <1>6, <1>7
<1>9. (65535 * (q + 1)) % 65535 = 0
  OBVIOUS
<1>10. QED  BY <1>4, <1>8, <1>9 DEF c, e

-----------------------------------------------------------------------------
(* Packets: both checksums.                                                  *)

\* d is n bytes that hold a packet of t bytes of the protocol proto, with hl
\* bytes of IP header.
IsPacket(d, n, t, hl, proto) ==
    /\ IsBytes(d, n) /\ t \in Nat /\ t <= n
    /\ proto \in {TCP, UDP}
    /\ hl \in Nat /\ 20 <= hl /\ hl + offset_crc(proto) + 2 <= t
    /\ getHeaderLength(d) = hl /\ getTotalLength(d) = t /\ getProtocol(d) = proto

\* e is d but for its two checksums.
SameBut(e, d, n, hl, proto) ==
    \A i \in 0..n - 1 :
        i \notin {10, 11, hl + offset_crc(proto), hl + offset_crc(proto) + 1} => e[i] = d[i]

\* The checksum of a TCP or UDP header is a whole number of words into it.
LEMMA OffsetCrc ==
    ASSUME NEW proto \in {TCP, UDP}
    PROVE  /\ offset_crc(proto) \in {6, 16} /\ proto \in Nat
           /\ \E j \in Nat : offset_crc(proto) = 2 * j /\ 3 <= j
  BY DEF offset_crc, TCP, UDP

\* A packet is the same packet when only its checksums differ.
LEMMA PacketSame ==
    ASSUME NEW d, NEW e, NEW n, NEW t, NEW hl, NEW proto,
           IsPacket(d, n, t, hl, proto), IsBytes(e, n), SameBut(e, d, n, hl, proto)
    PROVE  IsPacket(e, n, t, hl, proto)
<1>1. /\ n \in Nat /\ t \in Nat /\ t <= n /\ hl \in Nat /\ 20 <= hl
      /\ proto \in {TCP, UDP} /\ hl + offset_crc(proto) + 2 <= t
  BY DEF IsPacket, IsBytes
<1>2. offset_crc(proto) \in {6, 16}
  BY <1>1, OffsetCrc
<1>3. ASSUME NEW i \in {0, 2, 3, 9} PROVE e[i] = d[i]
  BY <1>1, <1>2 DEF SameBut
<1>4. e[0] = d[0] /\ e[2] = d[2] /\ e[3] = d[3] /\ e[9] = d[9]
  BY <1>3
<1>5. /\ getHeaderLength(e) = getHeaderLength(d)
      /\ getTotalLength(e) = getTotalLength(d)
      /\ getProtocol(e) = getProtocol(d)
  <2>1. readShort(e, 2) = readShort(d, 2)
    BY <1>4 DEF readShort
  <2>2. QED  BY <1>4, <2>1 DEF getHeaderLength, getTotalLength, getProtocol
<1>6. QED  BY <1>5 DEF IsPacket

\* tcpChecksum and udpChecksum make both checksums of any packet right, whatever
\* they were, and change nothing else (IPPacket.kt:157, 259).
LEMMA ChecksumsAreRight ==
    ASSUME NEW d, NEW n, NEW t, NEW hl, NEW proto, IsPacket(d, n, t, hl, proto)
    PROVE  /\ IsPacket(Checksums(d), n, t, hl, proto)
           /\ SameBut(Checksums(d), d, n, hl, proto)
           /\ Valid(Checksums(d))
<1> DEFINE d1 == writeShort(d, 10, 0)
           c1 == checksum(0, d1, 0, hl)
           d2 == writeShort(d1, 10, c1)
           body == t - hl
           o == hl + offset_crc(proto)
           sum == getsum(d2, 12, 8) + proto + body
           d3 == writeShort(d2, o, 0)
           c3 == checksum(sum, d3, hl, body)
           d4 == writeShort(d3, o, c3)
<1>1. /\ n \in Nat /\ t \in Nat /\ t <= n /\ hl \in Nat /\ 20 <= hl /\ IsBytes(d, n)
      /\ proto \in {TCP, UDP} /\ hl + offset_crc(proto) + 2 <= t
      /\ getHeaderLength(d) = hl /\ getTotalLength(d) = t /\ getProtocol(d) = proto
  BY DEF IsPacket, IsBytes
<1>2. PICK j \in Nat : offset_crc(proto) = 2 * j /\ 3 <= j
  BY <1>1, OffsetCrc
<1>3. offset_crc(proto) \in {6, 16} /\ proto \in Nat
  BY <1>1, OffsetCrc
<1>4. /\ body \in Nat /\ hl + body = t /\ o \in Nat /\ o + 1 < n /\ 26 <= o /\ 22 <= n
      /\ hl <= n /\ o = hl + 2 * j /\ 2 * j + 1 < body /\ 12 < hl
  BY <1>1, <1>2, <1>3
<1>5. WordIn(10, n) /\ WordIn(o, n) /\ OnWord(10, 0, hl) /\ OnWord(o, hl, body)
  <2>1. hl \in Nat /\ 12 < hl
    BY <1>1, <1>4
  <2>2. OnWord(10, 0, hl)
    BY <2>1 DEF OnWord
  <2>3. OnWord(o, hl, body)
    BY <1>4 DEF OnWord
  <2>4. 10 \in Nat /\ 10 + 1 < n /\ o \in Nat /\ o + 1 < n
    BY <1>1, <1>4
  <2>5. QED  BY <2>2, <2>3, <2>4 DEF WordIn
<1> HIDE DEF d1, c1, d2, body, o, sum, d3, c3, d4
<1>6. Wrote(d1, d, n, 10, 0)
  BY <1>1, <1>5, WriteShort DEF d1
<1>7. /\ c1 \in Short /\ (0 + Weighted(d2, 0, hl)) % 65535 = 0
  <2>1. d1 \in [0..n - 1 -> Byte] /\ word(d1, 10) = 0
    BY <1>6 DEF Wrote, IsBytes
  <2>2. 0 + hl <= n
    BY <1>1, <1>4
  <2>3. /\ checksum(0, d1, 0, hl) \in Short
        /\ (0 + Weighted(writeShort(d1, 10, checksum(0, d1, 0, hl)), 0, hl)) % 65535 = 0
    BY <1>1, <1>5, <2>1, <2>2, ChecksumCancels
  <2>4. QED  BY <2>3 DEF c1, d2
<1>8. Wrote(d2, d1, n, 10, c1)
  <2>1. IsBytes(d1, n) /\ c1 \in Int
    BY <1>6, <1>7, ShortDef DEF Wrote
  <2>2. QED  BY <1>5, <2>1, WriteShort DEF d2
<1>9. IsPacket(d2, n, t, hl, proto) /\ IsBytes(d2, n)
  <2>1. IsBytes(d2, n)
    BY <1>8 DEF Wrote
  <2>2. SameBut(d2, d, n, hl, proto)
    BY <1>6, <1>8 DEF Wrote, SameBut
  <2>3. QED  BY <2>1, <2>2, PacketSame
<1>10. Wrote(d3, d2, n, o, 0)
  BY <1>5, <1>9, WriteShort DEF d3
<1>11. sum \in Nat /\ sum = Weighted(d2, 12, 8) + proto + body
  <2>1. d2 \in [0..n - 1 -> Byte] /\ 12 + 8 <= n
    BY <1>4, <1>9 DEF IsBytes
  <2>2. Weighted(d2, 12, 8) = getsum(d2, 12, 8) /\ getsum(d2, 12, 8) \in Nat
    BY <1>1, <2>1, WeightedIsSum
  <2>3. QED  BY <1>3, <1>4, <2>2 DEF sum
<1>12. c3 \in Short /\ (sum + Weighted(d4, hl, body)) % 65535 = 0
  <2>1. d3 \in [0..n - 1 -> Byte] /\ word(d3, o) = 0
    BY <1>10 DEF Wrote, IsBytes
  <2>2. hl + body <= n
    BY <1>1, <1>4
  <2>3. /\ checksum(sum, d3, hl, body) \in Short
        /\ (sum + Weighted(writeShort(d3, o, checksum(sum, d3, hl, body)), hl, body)) % 65535 = 0
    BY <1>1, <1>4, <1>5, <1>11, <2>1, <2>2, ChecksumCancels
  <2>4. QED  BY <2>3 DEF c3, d4
<1>13. Wrote(d4, d3, n, o, c3)
  <2>1. IsBytes(d3, n) /\ c3 \in Int
    BY <1>10, <1>12, ShortDef DEF Wrote
  <2>2. QED  BY <1>5, <2>1, WriteShort DEF d4
<1>14. IsBytes(d4, n) /\ SameBut(d4, d, n, hl, proto)
  <2>1. \A i \in 0..n - 1 : i \notin {10, 11, o, o + 1} => d4[i] = d[i]
    BY <1>6, <1>8, <1>10, <1>13 DEF Wrote
  <2>2. QED  BY <1>13, <2>1 DEF SameBut, Wrote, o
<1>15. IsPacket(d4, n, t, hl, proto)
  BY <1>14, PacketSame
<1>16. \A i \in 0..n - 1 : i < hl => d4[i] = d2[i]
  <2>1. hl <= o
    BY <1>1, <1>3 DEF o
  <2>2. QED  BY <1>1, <1>4, <1>10, <1>13, <2>1 DEF Wrote
<1>17. Weighted(d4, 0, hl) = Weighted(d2, 0, hl) /\ Weighted(d4, 12, 8) = Weighted(d2, 12, 8)
  <2>1. \A i \in 0..0 + hl - 1 : d4[i] = d2[i]
    BY <1>1, <1>4, <1>16
  <2>2. \A i \in 12..12 + 8 - 1 : d4[i] = d2[i]
    BY <1>1, <1>4, <1>16
  <2>3. QED  BY <1>1, <2>1, <2>2, WeightedSame
<1>18. Valid(d4)
  <2>1. /\ getHeaderLength(d4) = hl /\ getTotalLength(d4) = t /\ getProtocol(d4) = proto
    BY <1>15 DEF IsPacket
  <2>2. Weighted(d4, 0, hl) % 65535 = 0
    <3>1. Weighted(d2, 0, hl) \in Nat
      <4>1. d2 \in [0..n - 1 -> Byte] /\ 0 + hl <= n
        BY <1>4, <1>1, <1>9 DEF IsBytes
      <4>2. QED  BY <1>1, <4>1, WeightedIsSum
    <3>2. QED  BY <1>7, <1>17, <3>1
  <2>3. (Weighted(d4, 12, 8) + proto + body + Weighted(d4, hl, body)) % 65535 = 0
    BY <1>11, <1>12, <1>17
  <2>4. QED  BY <2>1, <2>2, <2>3 DEF Valid, body
<1>19. Checksums(d) = d4
  <2>1. /\ getHeaderLength(d2) = hl /\ getTotalLength(d2) = t /\ getProtocol(d2) = proto
    BY <1>9 DEF IsPacket
  <2>2. ~ (t - hl < 0)
    BY <1>4 DEF body
  <2>3. QED  BY <1>1, <2>1, <2>2 DEF Checksums, d1, c1, d2, body, o, sum, d3, c3, d4
<1>20. QED  BY <1>14, <1>15, <1>18, <1>19

-----------------------------------------------------------------------------
(* Packets: addresses and ports.                                             *)

\* An address.
IP == [1..4 -> Byte]

\* Where a packet comes from and goes to.
Ends(d, src, sport, dst, dport) ==
    /\ getSourceIP(d) = src /\ getSourcePort(d) = sport
    /\ getDestinationIP(d) = dst /\ getDestinationPort(d) = dport

\* e is d from byte o on.
KeptFrom(e, d, n, o) == \A i \in 0..n - 1 : i >= o => e[i] = d[i]

\* e is d with an address written at o.
WroteIP(e, d, n, o, ip) ==
    /\ IsBytes(e, n)
    /\ \A i \in 0..n - 1 : i < o \/ i > o + 3 => e[i] = d[i]
    /\ readInt(e, o) = ip

\* Writing an address changes its four bytes, and reading it gives it back
\* (EasyValue.kt:9, 22).
LEMMA WriteIP ==
    ASSUME NEW d, NEW n, NEW o \in Nat, IsBytes(d, n), o + 3 < n, NEW ip \in IP
    PROVE  WroteIP(writeInt(d, o, ip), d, n, o, ip)
<1> DEFINE e == writeInt(d, o, ip)
<1>1. n \in Nat /\ d \in [0..n - 1 -> Byte] /\ \A k \in 1..4 : ip[k] \in Byte
  BY DEF IsBytes, IP
<1>2. e = [i \in 0..n - 1 |-> IF i \in o..o + 3 THEN ip[i - o + 1] ELSE d[i]]
  BY <1>1 DEF writeInt
<1> HIDE DEF e
<1>3. ASSUME NEW i \in 0..n - 1 PROVE e[i] \in Byte
  <2>1. CASE i \in o..o + 3
    <3>1. i - o + 1 \in 1..4
      BY <2>1
    <3>2. QED  BY <1>1, <1>2, <2>1, <3>1
  <2>2. CASE i \notin o..o + 3
    BY <1>1, <1>2, <2>2
  <2>3. QED  BY <2>1, <2>2
<1>4. IsBytes(e, n)
  BY <1>1, <1>2, <1>3 DEF IsBytes
<1>5. \A i \in 0..n - 1 : i < o \/ i > o + 3 => e[i] = d[i]
  BY <1>1, <1>2
<1>6. readInt(e, o) = ip
  <2>1. ASSUME NEW k \in 1..4 PROVE e[o + k - 1] = ip[k]
    <3>1. o + k - 1 \in 0..n - 1 /\ o + k - 1 \in o..o + 3 /\ (o + k - 1) - o + 1 = k
      BY <1>1
    <3>2. QED  BY <1>2, <3>1
  <2>2. ip = [k \in 1..4 |-> ip[k]]
    BY DEF IP
  <2>3. QED  BY <2>1, <2>2 DEF readInt
<1>7. QED  BY <1>4, <1>5, <1>6 DEF WroteIP, e

\* What is read is made of the bytes at that place.
LEMMA ReadIPSame ==
    ASSUME NEW d, NEW e, NEW n \in Nat, NEW o \in Nat, o + 3 < n,
           \A i \in 0..n - 1 : i >= o /\ i <= o + 3 => e[i] = d[i]
    PROVE  readInt(e, o) = readInt(d, o)
<1>1. ASSUME NEW k \in 1..4 PROVE e[o + k - 1] = d[o + k - 1]
  <2>1. o + k - 1 \in 0..n - 1 /\ o + k - 1 >= o /\ o + k - 1 <= o + 3
    OBVIOUS
  <2>2. QED  BY <2>1
<1>2. QED  BY <1>1 DEF readInt

LEMMA ReadShortSame ==
    ASSUME NEW d, NEW e, NEW o, e[o] = d[o], e[o + 1] = d[o + 1]
    PROVE  readShort(e, o) = readShort(d, o)
  BY DEF readShort

\* What is known of the sizes in a packet.
LEMMA PacketSizes ==
    ASSUME NEW d, NEW n, NEW t, NEW hl, NEW proto, IsPacket(d, n, t, hl, proto)
    PROVE  /\ n \in Nat /\ t \in Nat /\ hl \in Nat /\ 20 <= hl /\ hl + 8 <= t /\ t <= n
           /\ offset_crc(proto) \in {6, 16} /\ hl + offset_crc(proto) + 2 <= t
           /\ IsBytes(d, n) /\ getHeaderLength(d) = hl
<1>1. /\ n \in Nat /\ t \in Nat /\ hl \in Nat /\ 20 <= hl /\ t <= n
      /\ proto \in {TCP, UDP} /\ hl + offset_crc(proto) + 2 <= t
      /\ IsBytes(d, n) /\ getHeaderLength(d) = hl
  BY DEF IsPacket, IsBytes
<1>2. offset_crc(proto) \in {6, 16}
  BY <1>1, OffsetCrc
<1>3. QED  BY <1>1, <1>2

\* A packet is the same packet when its first ten bytes are.
LEMMA SameHeader ==
    ASSUME NEW d, NEW e, NEW n, NEW t, NEW hl, NEW proto,
           IsPacket(d, n, t, hl, proto), IsBytes(e, n),
           \A i \in 0..n - 1 : i < 10 => e[i] = d[i]
    PROVE  IsPacket(e, n, t, hl, proto)
<1>1. n \in Nat /\ 28 <= n
  BY PacketSizes
<1>2. e[0] = d[0] /\ e[2] = d[2] /\ e[3] = d[3] /\ e[9] = d[9]
  BY <1>1
<1>3. readShort(e, 2) = readShort(d, 2)
  BY <1>2 DEF readShort
<1>4. /\ getHeaderLength(e) = getHeaderLength(d)
      /\ getTotalLength(e) = getTotalLength(d)
      /\ getProtocol(e) = getProtocol(d)
  BY <1>2, <1>3 DEF getHeaderLength, getTotalLength, getProtocol
<1>5. QED  BY <1>4 DEF IsPacket

\* Where the ends of a packet are in its headers.
LEMMA EndsOf ==
    ASSUME NEW d, NEW n, NEW t, NEW hl, NEW proto, IsPacket(d, n, t, hl, proto)
    PROVE  /\ getSourceIP(d) = readInt(d, 12) /\ getDestinationIP(d) = readInt(d, 16)
           /\ getSourcePort(d) = readShort(d, hl) /\ getDestinationPort(d) = readShort(d, hl + 2)
  BY PacketSizes DEF getSourceIP, getDestinationIP, getSourcePort, getDestinationPort

\* Each setter changes one end of a packet, keeps the other three, and leaves all
\* that lies behind the ports alone.
LEMMA SetSourceIP ==
    ASSUME NEW d, NEW n, NEW t, NEW hl, NEW proto, IsPacket(d, n, t, hl, proto),
           NEW src, NEW sport, NEW dst, NEW dport, Ends(d, src, sport, dst, dport),
           NEW ip \in IP
    PROVE  LET e == setSourceIP(d, ip)
           IN  /\ IsPacket(e, n, t, hl, proto) /\ Ends(e, ip, sport, dst, dport)
               /\ KeptFrom(e, d, n, hl + 4)
<1> DEFINE e == writeInt(d, 12, ip)
<1>1. n \in Nat /\ hl \in Nat /\ 20 <= hl /\ hl + 8 <= n /\ IsBytes(d, n)
  BY PacketSizes
<1>2. WroteIP(e, d, n, 12, ip)
  BY <1>1, WriteIP
<1> HIDE DEF e
<1>3. IsBytes(e, n) /\ readInt(e, 12) = ip /\ \A i \in 0..n - 1 : i < 12 \/ i > 15 => e[i] = d[i]
  BY <1>2 DEF WroteIP
<1>4. IsPacket(e, n, t, hl, proto)
  BY <1>1, <1>3, SameHeader
<1>5. readInt(e, 16) = readInt(d, 16)
  BY <1>1, <1>3, ReadIPSame
<1>6. e[hl] = d[hl] /\ e[hl + 1] = d[hl + 1] /\ e[hl + 2] = d[hl + 2] /\ e[hl + 3] = d[hl + 3]
  BY <1>1, <1>3
<1>7. readShort(e, hl) = readShort(d, hl) /\ readShort(e, hl + 2) = readShort(d, hl + 2)
  BY <1>1, <1>6 DEF readShort
<1>8. Ends(e, ip, sport, dst, dport)
  BY <1>3, <1>4, <1>5, <1>7, EndsOf DEF Ends
<1>9. KeptFrom(e, d, n, hl + 4)
  BY <1>1, <1>3 DEF KeptFrom
<1>10. QED  BY <1>4, <1>8, <1>9 DEF setSourceIP, e

LEMMA SetDestinationIP ==
    ASSUME NEW d, NEW n, NEW t, NEW hl, NEW proto, IsPacket(d, n, t, hl, proto),
           NEW src, NEW sport, NEW dst, NEW dport, Ends(d, src, sport, dst, dport),
           NEW ip \in IP
    PROVE  LET e == setDestinationIP(d, ip)
           IN  /\ IsPacket(e, n, t, hl, proto) /\ Ends(e, src, sport, ip, dport)
               /\ KeptFrom(e, d, n, hl + 4)
<1> DEFINE e == writeInt(d, 16, ip)
<1>1. n \in Nat /\ hl \in Nat /\ 20 <= hl /\ hl + 8 <= n /\ IsBytes(d, n)
  BY PacketSizes
<1>2. WroteIP(e, d, n, 16, ip)
  BY <1>1, WriteIP
<1> HIDE DEF e
<1>3. IsBytes(e, n) /\ readInt(e, 16) = ip /\ \A i \in 0..n - 1 : i < 16 \/ i > 19 => e[i] = d[i]
  BY <1>2 DEF WroteIP
<1>4. IsPacket(e, n, t, hl, proto)
  BY <1>1, <1>3, SameHeader
<1>5. readInt(e, 12) = readInt(d, 12)
  BY <1>1, <1>3, ReadIPSame
<1>6. e[hl] = d[hl] /\ e[hl + 1] = d[hl + 1] /\ e[hl + 2] = d[hl + 2] /\ e[hl + 3] = d[hl + 3]
  BY <1>1, <1>3
<1>7. readShort(e, hl) = readShort(d, hl) /\ readShort(e, hl + 2) = readShort(d, hl + 2)
  BY <1>1, <1>6 DEF readShort
<1>8. Ends(e, src, sport, ip, dport)
  BY <1>3, <1>4, <1>5, <1>7, EndsOf DEF Ends
<1>9. KeptFrom(e, d, n, hl + 4)
  BY <1>1, <1>3 DEF KeptFrom
<1>10. QED  BY <1>4, <1>8, <1>9 DEF setDestinationIP, e

LEMMA SetSourcePort ==
    ASSUME NEW d, NEW n, NEW t, NEW hl, NEW proto, IsPacket(d, n, t, hl, proto),
           NEW src, NEW sport, NEW dst, NEW dport, Ends(d, src, sport, dst, dport),
           NEW port \in Short
    PROVE  LET e == setSourcePort(d, port)
           IN  /\ IsPacket(e, n, t, hl, proto) /\ Ends(e, src, port, dst, dport)
               /\ KeptFrom(e, d, n, hl + 4)
<1> DEFINE e == writeShort(d, hl, port)
<1>1. /\ n \in Nat /\ hl \in Nat /\ 20 <= hl /\ hl + 8 <= n /\ IsBytes(d, n)
      /\ getHeaderLength(d) = hl /\ port \in Int
  BY PacketSizes, ShortDef
<1>2. Wrote(e, d, n, hl, port)
  BY <1>1, WriteShort DEF WordIn
<1> HIDE DEF e
<1>3. /\ IsBytes(e, n) /\ readShort(e, hl) = port
      /\ \A i \in 0..n - 1 : i # hl /\ i # hl + 1 => e[i] = d[i]
  BY <1>2 DEF Wrote
<1>4. IsPacket(e, n, t, hl, proto)
  BY <1>1, <1>3, SameHeader
<1>5. readInt(e, 12) = readInt(d, 12) /\ readInt(e, 16) = readInt(d, 16)
  BY <1>1, <1>3, ReadIPSame
<1>6. readShort(e, hl + 2) = readShort(d, hl + 2)
  <2>1. e[hl + 2] = d[hl + 2] /\ e[hl + 2 + 1] = d[hl + 2 + 1]
    BY <1>1, <1>3
  <2>2. QED  BY <2>1, ReadShortSame
<1>7. Ends(e, src, port, dst, dport)
  BY <1>3, <1>4, <1>5, <1>6, EndsOf DEF Ends
<1>8. KeptFrom(e, d, n, hl + 4)
  BY <1>1, <1>3 DEF KeptFrom
<1>9. QED  BY <1>1, <1>4, <1>7, <1>8 DEF setSourcePort, e

LEMMA SetDestinationPort ==
    ASSUME NEW d, NEW n, NEW t, NEW hl, NEW proto, IsPacket(d, n, t, hl, proto),
           NEW src, NEW sport, NEW dst, NEW dport, Ends(d, src, sport, dst, dport),
           NEW port \in Short
    PROVE  LET e == setDestinationPort(d, port)
           IN  /\ IsPacket(e, n, t, hl, proto) /\ Ends(e, src, sport, dst, port)
               /\ KeptFrom(e, d, n, hl + 4)
<1> DEFINE o == hl + 2
           e == writeShort(d, o, port)
<1>1. /\ n \in Nat /\ hl \in Nat /\ 20 <= hl /\ hl + 8 <= n /\ IsBytes(d, n)
      /\ getHeaderLength(d) = hl /\ port \in Int
  BY PacketSizes, ShortDef
<1>2. Wrote(e, d, n, o, port)
  <2>1. WordIn(o, n)
    BY <1>1 DEF WordIn
  <2> HIDE DEF o
  <2>2. QED  BY <1>1, <2>1, WriteShort
<1> HIDE DEF e
<1>3. /\ IsBytes(e, n) /\ readShort(e, hl + 2) = port
      /\ \A i \in 0..n - 1 : i # hl + 2 /\ i # hl + 3 => e[i] = d[i]
  BY <1>1, <1>2 DEF Wrote
<1>4. IsPacket(e, n, t, hl, proto)
  BY <1>1, <1>3, SameHeader
<1>5. readInt(e, 12) = readInt(d, 12) /\ readInt(e, 16) = readInt(d, 16)
  BY <1>1, <1>3, ReadIPSame
<1>6. readShort(e, hl) = readShort(d, hl)
  <2>1. e[hl] = d[hl] /\ e[hl + 1] = d[hl + 1]
    BY <1>1, <1>3
  <2>2. QED  BY <2>1, ReadShortSame
<1>7. Ends(e, src, sport, dst, port)
  BY <1>3, <1>4, <1>5, <1>6, EndsOf DEF Ends
<1>8. KeptFrom(e, d, n, hl + 4)
  BY <1>1, <1>3 DEF KeptFrom
<1>9. QED  BY <1>1, <1>4, <1>7, <1>8 DEF setDestinationPort, e

\* Checksums change nothing else.
LEMMA ChecksumsKeep ==
    ASSUME NEW d, NEW n, NEW t, NEW hl, NEW proto, IsPacket(d, n, t, hl, proto),
           NEW src, NEW sport, NEW dst, NEW dport, Ends(d, src, sport, dst, dport)
    PROVE  LET e == Checksums(d)
           IN  /\ IsPacket(e, n, t, hl, proto) /\ Ends(e, src, sport, dst, dport)
               /\ KeptFrom(e, d, n, hl + offset_crc(proto) + 2)
               /\ readShort(e, hl + 4) = readShort(d, hl + 4)
               /\ Valid(e)
<1> DEFINE e == Checksums(d)
           c == offset_crc(proto)
<1> HIDE DEF e, c
<1>1. n \in Nat /\ hl \in Nat /\ 20 <= hl /\ hl + 8 <= n /\ c \in {6, 16} /\ hl + c + 2 <= n
  BY PacketSizes DEF c
<1>2. IsPacket(e, n, t, hl, proto) /\ Valid(e)
  BY ChecksumsAreRight DEF e
<1>3. \A i \in 0..n - 1 : i \notin {10, 11, hl + c, hl + c + 1} => e[i] = d[i]
  BY ChecksumsAreRight DEF e, c, SameBut
<1>4. readInt(e, 12) = readInt(d, 12) /\ readInt(e, 16) = readInt(d, 16)
  <2>1. \A i \in 0..n - 1 : i >= 12 /\ i < 20 => e[i] = d[i]
    BY <1>1, <1>3
  <2>2. QED  BY <1>1, <2>1, ReadIPSame
<1>5. /\ e[hl] = d[hl] /\ e[hl + 1] = d[hl + 1] /\ e[hl + 2] = d[hl + 2]
      /\ e[hl + 2 + 1] = d[hl + 2 + 1] /\ e[hl + 4] = d[hl + 4] /\ e[hl + 4 + 1] = d[hl + 4 + 1]
  BY <1>1, <1>3
<1>6. /\ readShort(e, hl) = readShort(d, hl) /\ readShort(e, hl + 2) = readShort(d, hl + 2)
      /\ readShort(e, hl + 4) = readShort(d, hl + 4)
  BY <1>5, ReadShortSame
<1>7. Ends(e, src, sport, dst, dport)
  BY <1>2, <1>4, <1>6, EndsOf DEF Ends
<1>8. KeptFrom(e, d, n, hl + c + 2)
  BY <1>1, <1>3 DEF KeptFrom
<1>9. QED  BY <1>2, <1>6, <1>7, <1>8 DEF e, c

-----------------------------------------------------------------------------
(* Packets: segments of TCP.                                                 *)

\* Writing in the body of a packet, behind the ports.
LEMMA WriteBody ==
    ASSUME NEW d, NEW n, NEW t, NEW hl, NEW proto, IsPacket(d, n, t, hl, proto),
           NEW src, NEW sport, NEW dst, NEW dport, Ends(d, src, sport, dst, dport),
           NEW o \in Nat, hl + 4 <= o, o + 1 < n, NEW v \in Int
    PROVE  LET e == writeShort(d, o, v)
           IN  /\ IsPacket(e, n, t, hl, proto) /\ Ends(e, src, sport, dst, dport)
               /\ KeptFrom(e, d, n, o + 2)
               /\ v \in Short => readShort(e, o) = v
<1> DEFINE e == writeShort(d, o, v)
<1>1. n \in Nat /\ hl \in Nat /\ 20 <= hl /\ hl + 8 <= n /\ IsBytes(d, n)
  BY PacketSizes
<1>2. Wrote(e, d, n, o, v)
  BY <1>1, WriteShort DEF WordIn
<1> HIDE DEF e
<1>3. /\ IsBytes(e, n) /\ (v \in Short => readShort(e, o) = v)
      /\ \A i \in 0..n - 1 : i # o /\ i # o + 1 => e[i] = d[i]
  BY <1>2 DEF Wrote
<1>4. IsPacket(e, n, t, hl, proto)
  BY <1>1, <1>3, SameHeader
<1>5. readInt(e, 12) = readInt(d, 12) /\ readInt(e, 16) = readInt(d, 16)
  BY <1>1, <1>3, ReadIPSame
<1>6. e[hl] = d[hl] /\ e[hl + 1] = d[hl + 1] /\ e[hl + 2] = d[hl + 2] /\ e[hl + 2 + 1] = d[hl + 2 + 1]
  BY <1>1, <1>3
<1>7. readShort(e, hl) = readShort(d, hl) /\ readShort(e, hl + 2) = readShort(d, hl + 2)
  BY <1>6, ReadShortSame
<1>8. Ends(e, src, sport, dst, dport)
  BY <1>4, <1>5, <1>7, EndsOf DEF Ends
<1>9. KeptFrom(e, d, n, o + 2)
  BY <1>1, <1>3 DEF KeptFrom
<1>10. QED  BY <1>3, <1>4, <1>8, <1>9 DEF e

\* What is kept twice is kept.
LEMMA KeptFromKept ==
    ASSUME NEW d, NEW e, NEW f, NEW n \in Nat, NEW o \in Nat, NEW p \in Nat, o <= p,
           KeptFrom(e, d, n, o), KeptFrom(f, e, n, p)
    PROVE  KeptFrom(f, d, n, p)
  BY DEF KeptFrom

\* d is the packet of a TCP segment with the payload p.
Segment(d, hl, p) ==
    /\ IsPacket(d, hl + TcpHead + Len(p), hl + TcpHead + Len(p), hl, TCP)
    /\ \A i \in 1..Len(p) : d[hl + TcpHead + i - 1] = p[i]

\* A segment remains one when what is changed lies before its data.
LEMMA SegmentKept ==
    ASSUME NEW d, NEW e, NEW hl \in Nat, NEW p, Len(p) \in Nat, Segment(d, hl, p),
           NEW n, n = hl + TcpHead + Len(p), IsPacket(e, n, n, hl, TCP),
           NEW o \in Nat, o <= hl + TcpHead, KeptFrom(e, d, n, o)
    PROVE  Segment(e, hl, p)
<1>1. ASSUME NEW i \in 1..Len(p) PROVE e[hl + TcpHead + i - 1] = p[i]
  <2>1. hl + TcpHead + i - 1 \in 0..n - 1 /\ hl + TcpHead + i - 1 >= o
    BY DEF TcpHead
  <2>2. QED  BY <2>1 DEF KeptFrom, Segment
<1>2. QED  BY <1>1 DEF Segment

\* What the constants say of a segment.
LEMMA Lengths ==
    ASSUME NEW hl \in HeaderLength, NEW p \in Payload
    PROVE  /\ hl \in Nat /\ 20 <= hl /\ hl <= 60 /\ Len(p) \in Nat
           /\ hl + TcpHead + Len(p) \in Short
           /\ 64 + (hl \div 4) \in Byte /\ ((64 + (hl \div 4)) % 16) * 4 = hl
           /\ \A i \in 1..Len(p) : p[i] \in Byte
<1>1. hl \in {20, 24, 28, 32, 36, 40, 44, 48, 52, 56, 60} /\ p \in Seq(Byte)
  BY PacketAssumption
<1>2. hl + 20 + Len(p) <= 20000
  <2>1. \A l \in HeaderLength, q \in Payload : l + 20 + Len(q) <= MTU
    BY PacketAssumption
  <2>2. QED  BY <2>1 DEF MTU
<1>3. Len(p) \in Nat /\ \A i \in 1..Len(p) : p[i] \in Byte
  BY <1>1
<1>4. hl \in Nat /\ 20 <= hl /\ hl <= 60
  BY <1>1
<1>5. \E k \in Nat : hl = 4 * k /\ 5 <= k /\ k <= 15
  <2>1. /\ 20 = 4 * 5 /\ 24 = 4 * 6 /\ 28 = 4 * 7 /\ 32 = 4 * 8 /\ 36 = 4 * 9 /\ 40 = 4 * 10
        /\ 44 = 4 * 11 /\ 48 = 4 * 12 /\ 52 = 4 * 13 /\ 56 = 4 * 14 /\ 60 = 4 * 15
    OBVIOUS
  <2>2. ASSUME NEW k \in 5..15, hl = 4 * k PROVE \E j \in Nat : hl = 4 * j /\ 5 <= j /\ j <= 15
    BY <2>2
  <2>3. \E k \in 5..15 : hl = 4 * k
    BY <1>1, <2>1
  <2>4. QED  BY <2>2, <2>3
<1>6. PICK k \in Nat : hl = 4 * k /\ 5 <= k /\ k <= 15
  BY <1>5
<1>7. hl \div 4 = k
  BY <1>6
<1>8. (64 + k) % 16 = k
  BY <1>6
<1>9. 64 + (hl \div 4) \in Byte /\ ((64 + (hl \div 4)) % 16) * 4 = hl
  <2>1. 64 + k \in Nat /\ 64 + k < 256 /\ k * 4 = hl
    BY <1>6
  <2>2. QED  BY <1>7, <1>8, <2>1, ByteDef
<1>10. hl + TcpHead + Len(p) \in Short
  BY <1>2, <1>3, <1>4, ShortDef DEF TcpHead
<1>11. QED  BY <1>3, <1>4, <1>9, <1>10

\* A packet of the kernel is the segment it stands for.
LEMMA PacketIs ==
    ASSUME NEW hl \in HeaderLength, NEW p \in Payload, NEW src \in IP, NEW dst \in IP,
           NEW sport \in Short, NEW dport \in Short
    PROVE  LET d == Packet(TCP, hl, src, dst, sport, dport, TcpHead, p)
           IN  Segment(d, hl, p) /\ Ends(d, src, sport, dst, dport)
<1> DEFINE n == hl + TcpHead + Len(p)
           first == 64 + (hl \div 4)
           raw == [i \in 0..n - 1 |-> CASE i = 0 -> first
                                   [] i = 9 -> TCP
                                   [] i \in 20..hl - 1 -> 1
                                   [] i = hl + 12 /\ TCP = TCP -> 80
                                   [] i >= hl + TcpHead -> p[i - hl - TcpHead + 1]
                                   [] OTHER -> 0]
           d == writeShort(raw, 2, n)
           e1 == setSourceIP(d, src)
           e2 == setDestinationIP(e1, dst)
           e3 == setSourcePort(e2, sport)
           e4 == setDestinationPort(e3, dport)
           e5 == writeShort(e4, hl + offset_crc(TCP), 4660)
<1> HIDE DEF first
<1>0. first \in Byte /\ (first % 16) * 4 = hl /\ \A i \in 1..Len(p) : p[i] \in Byte
  BY Lengths DEF first
<1>1. hl \in Nat /\ 20 <= hl /\ Len(p) \in Nat /\ n \in Nat /\ hl + 20 <= n /\ n \in Short
  <2>1. hl \in Nat /\ 20 <= hl /\ Len(p) \in Nat /\ n \in Short
    BY Lengths
  <2>2. n \in Nat /\ hl + 20 <= n
    BY <2>1 DEF TcpHead
  <2>3. QED  BY <2>1, <2>2
<1>2. 0 \in Byte /\ 1 \in Byte /\ 80 \in Byte /\ TCP \in Byte
  BY ByteDef DEF TCP
<1> HIDE DEF n
<1>3. ASSUME NEW i \in 0..n - 1 PROVE raw[i] \in Byte
  <2>1. CASE i < hl + TcpHead
    BY <1>0, <1>1, <1>2, <2>1 DEF TcpHead
  <2>2. CASE i >= hl + TcpHead
    <3>1. i - hl - TcpHead + 1 \in 1..Len(p)
      BY <1>1, <2>2 DEF TcpHead, n
    <3>2. p[i - hl - TcpHead + 1] \in Byte
      BY <1>0, <3>1
    <3>3. raw[i] = p[i - hl - TcpHead + 1]
      BY <1>1, <2>2 DEF TcpHead
    <3>4. QED  BY <3>2, <3>3
  <2>3. QED  BY <1>1, <2>1, <2>2 DEF TcpHead
<1>4. ASSUME NEW i \in 1..Len(p) PROVE raw[hl + TcpHead + i - 1] = p[i]
  <2>1. /\ hl + TcpHead + i - 1 \in 0..n - 1 /\ hl + TcpHead + i - 1 >= hl + TcpHead
        /\ (hl + TcpHead + i - 1) - hl - TcpHead + 1 = i
        /\ hl + TcpHead + i - 1 # 0 /\ hl + TcpHead + i - 1 # 9
        /\ hl + TcpHead + i - 1 \notin 20..hl - 1 /\ hl + TcpHead + i - 1 # hl + 12
    BY <1>1 DEF n, TcpHead
  <2>2. QED  BY <2>1
<1>5. raw[0] = first /\ raw[9] = TCP
  <2>1. 0 \in 0..n - 1 /\ 9 \in 0..n - 1
    BY <1>1
  <2>2. raw[0] = first
    BY <1>1, <2>1 DEF TcpHead
  <2>3. raw[9] = TCP
    BY <1>1, <2>1 DEF TcpHead
  <2>4. QED  BY <2>2, <2>3
<1>6. IsBytes(raw, n)
  BY <1>1, <1>3 DEF IsBytes
<1> HIDE DEF raw
<1>7. Wrote(d, raw, n, 2, n)
  <2>1. n \in Int /\ WordIn(2, n)
    BY <1>1 DEF WordIn
  <2>2. QED  BY <1>6, <2>1, WriteShort
<1> HIDE DEF d
<1>8. /\ IsBytes(d, n) /\ readShort(d, 2) = n /\ d[0] = first /\ d[9] = TCP
      /\ \A i \in 0..n - 1 : i >= 4 => d[i] = raw[i]
  <2>1. /\ IsBytes(d, n) /\ readShort(d, 2) = n
        /\ \A i \in 0..n - 1 : i # 2 /\ i # 2 + 1 => d[i] = raw[i]
    BY <1>1, <1>7 DEF Wrote
  <2>2. 0 \in 0..n - 1 /\ 9 \in 0..n - 1
    BY <1>1
  <2>3. QED  BY <1>5, <2>1, <2>2
<1>9. IsPacket(d, n, n, hl, TCP)
  <2>1. getHeaderLength(d) = hl /\ getTotalLength(d) = n /\ getProtocol(d) = TCP
    BY <1>0, <1>1, <1>8 DEF getHeaderLength, getTotalLength, getProtocol
  <2>2. hl + offset_crc(TCP) + 2 <= n
    BY <1>1 DEF offset_crc, TcpHead
  <2>3. QED  BY <1>1, <1>8, <2>1, <2>2 DEF IsPacket
<1>10. Segment(d, hl, p)
  <2>1. ASSUME NEW i \in 1..Len(p) PROVE d[hl + TcpHead + i - 1] = p[i]
    <3>1. hl + TcpHead + i - 1 \in 0..n - 1 /\ hl + TcpHead + i - 1 >= 4
      BY <1>1 DEF n, TcpHead
    <3>2. QED  BY <1>4, <1>8, <3>1
  <2>2. QED  BY <1>9, <2>1 DEF Segment, n
<1>11. Ends(d, getSourceIP(d), getSourcePort(d), getDestinationIP(d), getDestinationPort(d))
  BY DEF Ends
<1> HIDE DEF e1, e2, e3, e4, e5
<1>12. /\ IsPacket(e1, n, n, hl, TCP) /\ KeptFrom(e1, d, n, hl + 4)
       /\ Ends(e1, src, getSourcePort(d), getDestinationIP(d), getDestinationPort(d))
  BY <1>9, <1>11, SetSourceIP DEF e1
<1>13. /\ IsPacket(e2, n, n, hl, TCP) /\ KeptFrom(e2, e1, n, hl + 4)
       /\ Ends(e2, src, getSourcePort(d), dst, getDestinationPort(d))
  BY <1>12, SetDestinationIP DEF e2
<1>14. /\ IsPacket(e3, n, n, hl, TCP) /\ KeptFrom(e3, e2, n, hl + 4)
       /\ Ends(e3, src, sport, dst, getDestinationPort(d))
  BY <1>13, SetSourcePort DEF e3
<1>15. /\ IsPacket(e4, n, n, hl, TCP) /\ KeptFrom(e4, e3, n, hl + 4)
       /\ Ends(e4, src, sport, dst, dport)
  BY <1>14, SetDestinationPort DEF e4
<1>16. /\ IsPacket(e5, n, n, hl, TCP) /\ KeptFrom(e5, e4, n, hl + 18)
       /\ Ends(e5, src, sport, dst, dport)
  <2> DEFINE o == hl + offset_crc(TCP)
  <2>1. o \in Nat /\ hl + 4 <= o /\ o + 1 < n /\ 4660 \in Int /\ o + 2 = hl + 18
    BY <1>1 DEF offset_crc
  <2>2. e5 = writeShort(e4, o, 4660)
    BY DEF e5
  <2> HIDE DEF o
  <2>3. QED  BY <1>15, <2>1, <2>2, WriteBody
<1>17. KeptFrom(e5, d, n, hl + 18)
  BY <1>1, <1>12, <1>13, <1>14, <1>15, <1>16 DEF KeptFrom
<1>18. Segment(e5, hl, p)
  BY <1>1, <1>10, <1>16, <1>17, SegmentKept DEF n, TcpHead
<1>19. e5 = Packet(TCP, hl, src, dst, sport, dport, TcpHead, p)
  BY DEF Packet, n, first, raw, d, e1, e2, e3, e4, e5
<1>20. QED  BY <1>16, <1>18, <1>19

-----------------------------------------------------------------------------
(* Packets: rewriting a segment, and the buffer of the DNS replies.          *)

\* Addresses and ports fit their fields.
LEMMA FieldsFit ==
    /\ LocalIP \in IP /\ PeerIP \subseteq IP
    /\ mLocalServicePort \in Short /\ Port \subseteq Short
  BY PacketAssumption DEF IP

\* Checksums over a segment.
LEMMA SegmentChecked ==
    ASSUME NEW d, NEW f, NEW hl \in HeaderLength, NEW p \in Payload, Segment(d, hl, p),
           NEW n, n = hl + TcpHead + Len(p),
           IsPacket(f, n, n, hl, TCP), KeptFrom(f, d, n, hl + 4),
           NEW src, NEW sport, NEW dst, NEW dport, Ends(f, src, sport, dst, dport)
    PROVE  LET e == Checksums(f)
           IN  Segment(e, hl, p) /\ Ends(e, src, sport, dst, dport) /\ Valid(e)
<1> DEFINE e == Checksums(f)
           o == hl + offset_crc(TCP) + 2
<1>1. hl \in Nat /\ Len(p) \in Nat /\ n \in Nat
  <2>1. hl \in Nat /\ Len(p) \in Nat
    BY Lengths
  <2>2. QED  BY <2>1 DEF TcpHead
<1>2. o = hl + 18
  BY <1>1 DEF offset_crc
<1> HIDE DEF e, o
<1>3. /\ IsPacket(e, n, n, hl, TCP) /\ Ends(e, src, sport, dst, dport)
      /\ KeptFrom(e, f, n, o) /\ Valid(e)
  BY ChecksumsKeep DEF e, o
<1>4. KeptFrom(e, d, n, o)
  <2>1. hl + 4 \in Nat /\ o \in Nat /\ hl + 4 <= o
    BY <1>1, <1>2
  <2>2. QED  BY <1>1, <1>3, <2>1, KeptFromKept
<1>5. Segment(e, hl, p)
  <2>1. o \in Nat /\ o <= hl + TcpHead
    BY <1>1, <1>2 DEF TcpHead
  <2>2. QED  BY <1>1, <1>3, <1>4, <2>1, SegmentKept
<1>6. QED  BY <1>3, <1>5 DEF e

\* The packet of an app, as it goes to the proxy.
LEMMA ProcessOut ==
    ASSUME NEW d, NEW hl \in HeaderLength, NEW p \in Payload, Segment(d, hl, p),
           NEW src, NEW sport, NEW dst \in IP, NEW dport, Ends(d, src, sport, dst, dport)
    PROVE  LET e == processOut(d)
           IN  /\ Segment(e, hl, p) /\ Valid(e)
               /\ Ends(e, dst, sport, LocalIP, mLocalServicePort)
<1> DEFINE n == hl + TcpHead + Len(p)
           e1 == setSourceIP(d, getDestinationIP(d))
           e2 == setDestinationIP(e1, LocalIP)
           e3 == setDestinationPort(e2, mLocalServicePort)
<1>1. n \in Nat /\ hl \in Nat
  <2>1. hl \in Nat /\ Len(p) \in Nat
    BY Lengths
  <2>2. QED  BY <2>1 DEF TcpHead
<1>2. IsPacket(d, n, n, hl, TCP) /\ getDestinationIP(d) = dst
  BY DEF Segment, Ends
<1> HIDE DEF n, e1, e2, e3
<1>3. IsPacket(e1, n, n, hl, TCP) /\ KeptFrom(e1, d, n, hl + 4) /\ Ends(e1, dst, sport, dst, dport)
  BY <1>2, SetSourceIP DEF e1
<1>4. /\ IsPacket(e2, n, n, hl, TCP) /\ KeptFrom(e2, e1, n, hl + 4)
      /\ Ends(e2, dst, sport, LocalIP, dport)
  BY <1>3, FieldsFit, SetDestinationIP DEF e2
<1>5. /\ IsPacket(e3, n, n, hl, TCP) /\ KeptFrom(e3, e2, n, hl + 4)
      /\ Ends(e3, dst, sport, LocalIP, mLocalServicePort)
  BY <1>4, FieldsFit, SetDestinationPort DEF e3
<1>6. KeptFrom(e3, d, n, hl + 4)
  BY <1>1, <1>3, <1>4, <1>5 DEF KeptFrom
<1>7. /\ Segment(Checksums(e3), hl, p) /\ Valid(Checksums(e3))
      /\ Ends(Checksums(e3), dst, sport, LocalIP, mLocalServicePort)
  BY <1>5, <1>6, SegmentChecked DEF n
<1>8. QED  BY <1>7 DEF processOut, e1, e2, e3

\* The packet of the proxy, as it goes to the app.
LEMMA ProcessIn ==
    ASSUME NEW d, NEW hl \in HeaderLength, NEW p \in Payload, Segment(d, hl, p),
           NEW src, NEW sport, NEW dst \in IP, NEW dport, Ends(d, src, sport, dst, dport),
           peer.port \in Short
    PROVE  LET e == processIn(d)
           IN  /\ Segment(e, hl, p) /\ Valid(e)
               /\ Ends(e, dst, peer.port, LocalIP, dport)
<1> DEFINE n == hl + TcpHead + Len(p)
           e1 == setSourceIP(d, getDestinationIP(d))
           e2 == setSourcePort(e1, peer.port)
           e3 == setDestinationIP(e2, LocalIP)
<1>1. n \in Nat /\ hl \in Nat
  <2>1. hl \in Nat /\ Len(p) \in Nat
    BY Lengths
  <2>2. QED  BY <2>1 DEF TcpHead
<1>2. IsPacket(d, n, n, hl, TCP) /\ getDestinationIP(d) = dst
  BY DEF Segment, Ends
<1> HIDE DEF n, e1, e2, e3
<1>3. IsPacket(e1, n, n, hl, TCP) /\ KeptFrom(e1, d, n, hl + 4) /\ Ends(e1, dst, sport, dst, dport)
  BY <1>2, SetSourceIP DEF e1
<1>4. /\ IsPacket(e2, n, n, hl, TCP) /\ KeptFrom(e2, e1, n, hl + 4)
      /\ Ends(e2, dst, peer.port, dst, dport)
  BY <1>3, SetSourcePort DEF e2
<1>5. /\ IsPacket(e3, n, n, hl, TCP) /\ KeptFrom(e3, e2, n, hl + 4)
      /\ Ends(e3, dst, peer.port, LocalIP, dport)
  BY <1>4, FieldsFit, SetDestinationIP DEF e3
<1>6. KeptFrom(e3, d, n, hl + 4)
  BY <1>1, <1>3, <1>4, <1>5 DEF KeptFrom
<1>7. /\ Segment(Checksums(e3), hl, p) /\ Valid(Checksums(e3))
      /\ Ends(Checksums(e3), dst, peer.port, LocalIP, dport)
  BY <1>5, <1>6, SegmentChecked DEF n
<1>8. QED  BY <1>7 DEF processIn, e1, e2, e3

\* d holds a reply to the query of state, with the message msg.
IsReply(d, state, msg) ==
    /\ Len(msg) \in Nat /\ IsPacket(d, BufferSize, 28 + Len(msg), 20, UDP) /\ Valid(d)
    /\ Ends(d, state.ip, state.port, LocalIP, state.local)
    /\ readShort(d, 28) = state.id /\ readShort(d, 24) = 8 + Len(msg)
    /\ \A i \in 3..Len(msg) : d[27 + i] = msg[i]

\* The receive buffer, whatever reply it has held.
IsBuffer(d) == IsBytes(d, BufferSize) /\ getHeaderLength(d) = 20

\* What the constants say of a reply.
LEMMA MessageFits ==
    ASSUME NEW msg \in Message
    PROVE  /\ BufferSize \in Nat /\ Len(msg) \in Nat /\ 12 <= Len(msg)
           /\ 28 + Len(msg) <= BufferSize
           /\ 8 + Len(msg) \in Short /\ 28 + Len(msg) \in Short
           /\ \A i \in 1..Len(msg) : msg[i] \in Byte
<1>1. Message \subseteq Seq(Byte) /\ BufferSize \in Nat
  BY PacketAssumption
<1>2. 12 <= Len(msg) /\ Len(msg) <= 512 /\ 28 + Len(msg) <= BufferSize
  BY PacketAssumption
<1>3. Len(msg) \in Nat
  BY <1>1
<1>4. BufferSize \in Nat
  BY <1>1
<1>5. \A i \in 1..Len(msg) : msg[i] \in Byte
  BY <1>1
<1>6. 8 + Len(msg) \in Short /\ 28 + Len(msg) \in Short
  BY <1>2, <1>3, ShortDef
<1>7. QED  BY <1>2, <1>3, <1>4, <1>5, <1>6

\* A message in the buffer.
LEMMA MessageReceived ==
    ASSUME NEW msg \in Message, IsBuffer(mData)
    PROVE  LET d == ReceiveReply(msg)
           IN  IsBuffer(d) /\ \A i \in 1..Len(msg) : d[27 + i] = msg[i]
<1> DEFINE d == ReceiveReply(msg)
           n == BufferSize
<1>1. /\ n \in Nat /\ Len(msg) \in Nat /\ 28 + Len(msg) <= n
      /\ \A i \in 1..Len(msg) : msg[i] \in Byte
  BY MessageFits
<1>2. mData \in [0..n - 1 -> Byte] /\ getHeaderLength(mData) = 20
  BY DEF IsBuffer, IsBytes
<1> HIDE DEF n
<1>3. d = [i \in 0..n - 1 |-> IF i \in 28..27 + Len(msg) THEN msg[i - 27] ELSE mData[i]]
  BY <1>2 DEF ReceiveReply
<1> HIDE DEF d
<1>4. ASSUME NEW i \in 0..n - 1 PROVE d[i] \in Byte
  <2>1. CASE i \in 28..27 + Len(msg)
    <3>1. i - 27 \in 1..Len(msg)
      BY <1>1, <2>1
    <3>2. msg[i - 27] \in Byte
      BY <1>1, <3>1
    <3>3. QED  BY <1>3, <2>1, <3>2
  <2>2. CASE i \notin 28..27 + Len(msg)
    BY <1>2, <1>3, <2>2
  <2>3. QED  BY <2>1, <2>2
<1>5. IsBytes(d, n)
  BY <1>1, <1>3, <1>4 DEF IsBytes
<1>6. ASSUME NEW i \in 1..Len(msg) PROVE d[27 + i] = msg[i]
  <2>1. 27 + i \in 0..n - 1 /\ 27 + i \in 28..27 + Len(msg) /\ (27 + i) - 27 = i
    BY <1>1
  <2>2. QED  BY <1>3, <2>1
<1>7. d[0] = mData[0]
  <2>1. 0 \in 0..n - 1 /\ 0 \notin 28..27 + Len(msg)
    BY <1>1
  <2>2. QED  BY <1>3, <2>1
<1>8. QED  BY <1>2, <1>5, <1>6, <1>7 DEF IsBuffer, getHeaderLength, d, n

\* A received message becomes the reply to the query.
LEMMA ProcessResponse ==
    ASSUME NEW d, IsBuffer(d), NEW msg \in Message,
           \A i \in 1..Len(msg) : d[27 + i] = msg[i],
           NEW state, state.ip \in IP, state.port \in Short, state.local \in Short,
           state.id \in Short
    PROVE  IsReply(processResponse(d, state, Len(msg)), state, msg)
<1> DEFINE n == BufferSize
           len == Len(msg)
           t == 20 + 8 + len
           a == writeShort(d, 28, state.id)
           b1 == setSourceIP(a, state.ip)
           b2 == setDestinationIP(b1, LocalIP)
           b == [b2 EXCEPT ![9] = UDP]
           c == writeShort(b, 2, t)
           e1 == setSourcePort(c, state.port)
           e2 == setDestinationPort(e1, state.local)
           f == writeShort(e2, 24, 8 + len)
           g == Checksums(f)
<1>1. /\ n \in Nat /\ len \in Nat /\ 12 <= len /\ 28 + len <= n
      /\ 8 + len \in Short /\ t \in Short /\ t = 28 + len /\ t \in Nat
  <2>1. n \in Nat /\ len \in Nat /\ 12 <= len /\ 28 + len <= n /\ 8 + len \in Short /\ 28 + len \in Short
    BY MessageFits
  <2>2. t = 28 + len /\ t \in Nat
    BY <2>1
  <2>3. QED  BY <2>1, <2>2
<1>2. IsBytes(d, n) /\ getHeaderLength(d) = 20 /\ \A i \in 1..len : d[27 + i] = msg[i]
  BY DEF IsBuffer
<1> HIDE DEF n, len, t, a, b1, b2, b, c, e1, e2, f, g
<1>3. Wrote(a, d, n, 28, state.id)
  <2>1. WordIn(28, n) /\ state.id \in Int
    BY <1>1, ShortDef DEF WordIn
  <2>2. QED  BY <1>2, <2>1, WriteShort DEF a
<1>4. /\ IsBytes(a, n) /\ readShort(a, 28) = state.id
      /\ \A i \in 0..n - 1 : i # 28 /\ i # 29 => a[i] = d[i]
  BY <1>3 DEF Wrote
<1>5. WroteIP(b1, a, n, 12, state.ip)
  <2>1. 12 \in Nat /\ 12 + 3 < n
    BY <1>1
  <2>2. QED  BY <1>4, <2>1, WriteIP DEF b1, setSourceIP
<1>6. /\ IsBytes(b1, n) /\ readInt(b1, 12) = state.ip
      /\ \A i \in 0..n - 1 : i < 12 \/ i > 15 => b1[i] = a[i]
  BY <1>5 DEF WroteIP
<1>7. WroteIP(b2, b1, n, 16, LocalIP)
  BY <1>1, <1>6, FieldsFit, WriteIP DEF b2, setDestinationIP
<1>8. /\ IsBytes(b2, n) /\ readInt(b2, 16) = LocalIP
      /\ \A i \in 0..n - 1 : i < 16 \/ i > 19 => b2[i] = b1[i]
  BY <1>7 DEF WroteIP
<1>9. IsBytes(b, n) /\ b[9] = UDP /\ \A i \in 0..n - 1 : i # 9 => b[i] = b2[i]
  <2>1. UDP \in Byte
    BY ByteDef DEF UDP
  <2>2. b2 \in [0..n - 1 -> Byte] /\ 9 \in 0..n - 1
    BY <1>1, <1>8 DEF IsBytes
  <2>3. QED  BY <1>1, <2>1, <2>2 DEF IsBytes, b
<1>10. Wrote(c, b, n, 2, t)
  <2>1. WordIn(2, n) /\ t \in Int
    BY <1>1 DEF WordIn
  <2>2. QED  BY <1>9, <2>1, WriteShort DEF c
<1>11. /\ IsBytes(c, n) /\ readShort(c, 2) = t
       /\ \A i \in 0..n - 1 : i # 2 /\ i # 3 => c[i] = b[i]
  BY <1>1, <1>10 DEF Wrote
<1>12. c[0] = d[0] /\ c[9] = UDP /\ \A i \in 0..n - 1 : i >= 28 => c[i] = a[i]
  BY <1>1, <1>4, <1>6, <1>8, <1>9, <1>11
<1>13. readInt(c, 12) = state.ip /\ readInt(c, 16) = LocalIP
  <2>1. ASSUME NEW k \in 1..4
        PROVE  c[12 + k - 1] = b1[12 + k - 1] /\ c[16 + k - 1] = b2[16 + k - 1]
    <3>1. /\ 12 + k - 1 \in 0..n - 1 /\ 12 + k - 1 >= 12 /\ 12 + k - 1 < 16
          /\ 16 + k - 1 \in 0..n - 1 /\ 16 + k - 1 >= 16
      BY <1>1
    <3>2. QED  BY <1>8, <1>9, <1>11, <3>1
  <2>2. readInt(c, 12) = readInt(b1, 12) /\ readInt(c, 16) = readInt(b2, 16)
    BY <2>1 DEF readInt
  <2>3. QED  BY <1>6, <1>8, <2>2
<1>14. IsPacket(c, n, t, 20, UDP)
  <2>1. getHeaderLength(c) = 20 /\ getTotalLength(c) = t /\ getProtocol(c) = UDP
    BY <1>2, <1>11, <1>12 DEF getHeaderLength, getTotalLength, getProtocol
  <2>2. 20 + offset_crc(UDP) + 2 <= t
    BY <1>1 DEF offset_crc, UDP, TCP
  <2>3. QED  BY <1>1, <1>11, <2>1, <2>2 DEF IsPacket
<1>15. Ends(c, state.ip, getSourcePort(c), LocalIP, getDestinationPort(c))
  BY <1>13, <1>14, EndsOf DEF Ends
<1>16. /\ IsPacket(e1, n, t, 20, UDP) /\ KeptFrom(e1, c, n, 20 + 4)
       /\ Ends(e1, state.ip, state.port, LocalIP, getDestinationPort(c))
  BY <1>14, <1>15, SetSourcePort DEF e1
<1>17. /\ IsPacket(e2, n, t, 20, UDP) /\ KeptFrom(e2, e1, n, 20 + 4)
       /\ Ends(e2, state.ip, state.port, LocalIP, state.local)
  BY <1>16, SetDestinationPort DEF e2
<1>18. /\ IsPacket(f, n, t, 20, UDP) /\ KeptFrom(f, e2, n, 24 + 2)
       /\ Ends(f, state.ip, state.port, LocalIP, state.local) /\ readShort(f, 24) = 8 + len
  <2>1. 24 \in Nat /\ 20 + 4 <= 24 /\ 24 + 1 < n /\ 8 + len \in Int
    BY <1>1
  <2>2. QED  BY <1>1, <1>17, <2>1, WriteBody DEF f
<1>19. /\ IsPacket(g, n, t, 20, UDP) /\ KeptFrom(g, f, n, 20 + offset_crc(UDP) + 2)
       /\ Ends(g, state.ip, state.port, LocalIP, state.local) /\ Valid(g)
       /\ readShort(g, 20 + 4) = readShort(f, 20 + 4)
  BY <1>18, ChecksumsKeep DEF g
<1>20. ASSUME NEW i \in 0..n - 1, i >= 28 PROVE g[i] = a[i]
  <2>1. 20 + offset_crc(UDP) + 2 = 28
    BY DEF offset_crc, UDP, TCP
  <2>2. g[i] = f[i]
    BY <1>19, <1>20, <2>1 DEF KeptFrom
  <2>3. f[i] = e2[i] /\ e2[i] = e1[i] /\ e1[i] = c[i]
    BY <1>1, <1>16, <1>17, <1>18, <1>20 DEF KeptFrom
  <2>4. QED  BY <1>12, <1>20, <2>2, <2>3
<1>21. readShort(g, 28) = state.id
  <2>1. g[28] = a[28] /\ g[28 + 1] = a[28 + 1]
    BY <1>1, <1>20
  <2>2. QED  BY <1>4, <2>1, ReadShortSame
<1>22. ASSUME NEW i \in 3..len PROVE g[27 + i] = msg[i]
  <2>1. 27 + i \in 0..n - 1 /\ 27 + i >= 28 /\ 27 + i # 28 /\ 27 + i # 29 /\ i \in 1..len
    BY <1>1
  <2>2. QED  BY <1>2, <1>4, <1>20, <2>1
<1>23. readShort(g, 24) = 8 + len
  BY <1>18, <1>19
<1>24. IsReply(g, state, msg)
  <2>1. IsPacket(g, BufferSize, 28 + Len(msg), 20, UDP)
    BY <1>1, <1>19 DEF n, len
  <2>2. QED  BY <1>1, <1>19, <1>21, <1>22, <1>23, <2>1 DEF IsReply, len
<1>25. g = processResponse(d, state, Len(msg))
  BY DEF processResponse, len, t, a, b1, b2, b, c, e1, e2, f, g
<1>26. QED  BY <1>24, <1>25

-----------------------------------------------------------------------------
\* The packet is a segment with the payload it was given, between two ends.
Carries(d, p, src, sport, dst, dport) ==
    /\ p \in Payload
    /\ \E hl \in HeaderLength : Segment(d, hl, p) /\ Ends(d, src, sport, dst, dport)

\* The entry of the port map of an app's connection.
IsSession(s) ==
    /\ s.ip \in PeerIP /\ s.port \in Short /\ s.local \in Short
    /\ s.local # mLocalServicePort

\* The inductive invariant, a part for each phase.
PacketInv ==
    /\ phase \in {"app", "toproxy", "proxy", "toapp", "dns"}
    /\ replies \in Nat /\ replies <= MaxReplies
    /\ phase # "dns" => IsSession(peer)
    /\ phase = "app" => Carries(mData, content, LocalIP, peer.local, peer.ip, peer.port)
    /\ phase = "toproxy" =>
         /\ Carries(mData, content, peer.ip, peer.local, LocalIP, mLocalServicePort)
         /\ Valid(mData)
    /\ phase = "proxy" =>
         Carries(mData, content, LocalIP, mLocalServicePort, peer.ip, peer.local)
    /\ phase = "toapp" =>
         Carries(mData, content, peer.ip, peer.port, LocalIP, peer.local) /\ Valid(mData)
    /\ phase = "dns" => IsBuffer(mData) /\ peer.ip \in PeerIP \cup {LocalIP}
    /\ phase = "dns" /\ replies > 0 => IsReply(mData, peer, content)

\* The first packet of an app, and the buffer setDefault has filled in, satisfy the
\* invariant.
THEOREM PacketInvInit == PacketInit => PacketInv
<1> SUFFICES ASSUME PacketInit PROVE PacketInv
  OBVIOUS
<1>1. replies = 0 /\ 0 <= MaxReplies
  BY PacketAssumption DEF PacketInit
<1>2. CASE phase = "app" /\ AppPacket
  <2>1. PICK ip \in PeerIP, sport \in Port, port \in Port, hl \in HeaderLength, p \in Payload :
          /\ sport # mLocalServicePort
          /\ mData = Packet(TCP, hl, LocalIP, ip, sport, port, TcpHead, p)
          /\ peer = [ip |-> ip, port |-> port, local |-> sport]
          /\ content = p
    BY <1>2 DEF AppPacket
  <2>2. ip \in IP /\ LocalIP \in IP /\ sport \in Short /\ port \in Short
    BY FieldsFit
  <2>3. Segment(mData, hl, p) /\ Ends(mData, LocalIP, sport, ip, port)
    BY <2>1, <2>2, PacketIs
  <2>4. IsSession(peer)
    BY <2>1, <2>2 DEF IsSession
  <2>5. Carries(mData, content, LocalIP, peer.local, peer.ip, peer.port)
    BY <2>1, <2>3 DEF Carries
  <2>6. QED  BY <1>1, <1>2, <2>4, <2>5 DEF PacketInv
<1>3. CASE /\ phase = "dns" /\ mData = setDefault
           /\ peer = [ip |-> LocalIP, port |-> 0, local |-> 0, id |-> 0] /\ content = <<>>
  <2>1. BufferSize \in Nat /\ 28 <= BufferSize
    BY PacketAssumption
  <2>2. 0 \in Byte /\ 64 \in Byte /\ 69 \in Byte
    BY ByteDef
  <2>3. setDefault \in [0..BufferSize - 1 -> Byte]
    BY <2>2 DEF setDefault
  <2>4. 0 \in 0..BufferSize - 1
    BY <2>1
  <2>5. setDefault[0] = 69
    BY <2>4 DEF setDefault
  <2>6. getHeaderLength(mData) = 20
    BY <1>3, <2>5 DEF getHeaderLength
  <2>7. IsBuffer(mData)
    BY <1>3, <2>1, <2>3, <2>6 DEF IsBuffer, IsBytes
  <2>8. peer.ip = LocalIP
    BY <1>3
  <2>9. QED  BY <1>1, <1>3, <2>7, <2>8 DEF PacketInv
<1>4. QED  BY <1>2, <1>3 DEF PacketInit

-----------------------------------------------------------------------------
(* Packets: the invariant is preserved, and what it implies.                 *)

\* A carried packet: its ends, and its sizes.
LEMMA CarriesEnds ==
    ASSUME NEW d, NEW p, NEW src, NEW sport, NEW dst, NEW dport,
           Carries(d, p, src, sport, dst, dport)
    PROVE  /\ Ends(d, src, sport, dst, dport)
           /\ \A i \in 1..Len(p) : d[getHeaderLength(d) + TcpHead + i - 1] = p[i]
           /\ getTotalLength(d) = getHeaderLength(d) + TcpHead + Len(p)
           /\ \E n : IsBytes(d, n)
<1>1. PICK hl \in HeaderLength : Segment(d, hl, p) /\ Ends(d, src, sport, dst, dport)
  BY DEF Carries
<1>2. QED  BY <1>1 DEF Segment, IsPacket

\* Every rewriting of a packet, answer of the proxy and DNS reply preserves it.
LEMMA PacketInvNext == PacketInv /\ [PacketNext]_packetVars => PacketInv'
<1> SUFFICES ASSUME PacketInv, [PacketNext]_packetVars PROVE PacketInv'
  OBVIOUS
<1>1. CASE processTCPPacket
  <2>1. /\ phase \in {"app", "proxy"} /\ IsSession(peer) /\ UNCHANGED <<peer, content, replies>>
        /\ replies \in Nat /\ replies <= MaxReplies
    BY <1>1 DEF processTCPPacket, PacketInv
  <2>2. peer.ip \in IP /\ LocalIP \in IP /\ peer.port \in Short /\ peer.local # mLocalServicePort
    BY <2>1, FieldsFit DEF IsSession
  <2>3. CASE phase = "app"
    <3>1. Carries(mData, content, LocalIP, peer.local, peer.ip, peer.port)
      BY <2>3 DEF PacketInv
    <3>2. PICK hl \in HeaderLength : /\ content \in Payload /\ Segment(mData, hl, content)
                                     /\ Ends(mData, LocalIP, peer.local, peer.ip, peer.port)
      BY <3>1 DEF Carries
    <3>3. getSourcePort(mData) # mLocalServicePort
      BY <2>2, <3>2 DEF Ends
    <3>4. mData' = processOut(mData) /\ phase' = "toproxy"
      BY <1>1, <3>3 DEF processTCPPacket
    <3>5. /\ Segment(mData', hl, content) /\ Valid(mData')
          /\ Ends(mData', peer.ip, peer.local, LocalIP, mLocalServicePort)
      BY <2>2, <3>2, <3>4, ProcessOut
    <3>6. Carries(mData', content', peer'.ip, peer'.local, LocalIP, mLocalServicePort)
      BY <2>1, <3>2, <3>5 DEF Carries
    <3>7. QED  BY <2>1, <3>4, <3>5, <3>6 DEF PacketInv, Valid, getHeaderLength, getTotalLength, getProtocol
  <2>4. CASE phase = "proxy"
    <3>1. Carries(mData, content, LocalIP, mLocalServicePort, peer.ip, peer.local)
      BY <2>4 DEF PacketInv
    <3>2. PICK hl \in HeaderLength : /\ content \in Payload /\ Segment(mData, hl, content)
                                     /\ Ends(mData, LocalIP, mLocalServicePort, peer.ip, peer.local)
      BY <3>1 DEF Carries
    <3>3. getSourcePort(mData) = mLocalServicePort
      BY <3>2 DEF Ends
    <3>4. mData' = processIn(mData) /\ phase' = "toapp"
      BY <1>1, <3>3 DEF processTCPPacket
    <3>5. /\ Segment(mData', hl, content) /\ Valid(mData')
          /\ Ends(mData', peer.ip, peer.port, LocalIP, peer.local)
      BY <2>2, <3>2, <3>4, ProcessIn
    <3>6. Carries(mData', content', peer'.ip, peer'.port, LocalIP, peer'.local)
      BY <2>1, <3>2, <3>5 DEF Carries
    <3>7. QED  BY <2>1, <3>4, <3>5, <3>6 DEF PacketInv
  <2>5. QED  BY <2>1, <2>3, <2>4
<1>2. CASE ProxyAnswers
  <2>1. /\ phase = "toproxy" /\ phase' = "proxy" /\ IsSession(peer) /\ UNCHANGED <<peer, replies>>
        /\ replies \in Nat /\ replies <= MaxReplies
        /\ Carries(mData, content, peer.ip, peer.local, LocalIP, mLocalServicePort)
    BY <1>2 DEF ProxyAnswers, PacketInv
  <2>2. PICK hl \in HeaderLength, p \in Payload :
          /\ mData' = Packet(TCP, hl, getDestinationIP(mData), getSourceIP(mData),
                             getDestinationPort(mData), getSourcePort(mData), TcpHead, p)
          /\ content' = p
    BY <1>2 DEF ProxyAnswers
  <2>3. /\ getSourceIP(mData) = peer.ip /\ getSourcePort(mData) = peer.local
        /\ getDestinationIP(mData) = LocalIP /\ getDestinationPort(mData) = mLocalServicePort
    BY <2>1, CarriesEnds DEF Ends
  <2>4. /\ peer.ip \in IP /\ LocalIP \in IP /\ peer.local \in Short
        /\ mLocalServicePort \in Short
    BY <2>1, FieldsFit DEF IsSession
  <2>5. /\ Segment(mData', hl, p)
        /\ Ends(mData', LocalIP, mLocalServicePort, peer.ip, peer.local)
    BY <2>2, <2>3, <2>4, PacketIs
  <2>6. Carries(mData', content', LocalIP, mLocalServicePort, peer'.ip, peer'.local)
    BY <2>1, <2>2, <2>5 DEF Carries
  <2>7. QED  BY <2>1, <2>6 DEF PacketInv
<1>3. CASE DnsReply
  <2>1. /\ phase = "dns" /\ phase' = "dns" /\ replies' = replies + 1 /\ replies < MaxReplies
        /\ replies \in Nat /\ IsBuffer(mData) /\ MaxReplies \in Nat
    BY <1>3, PacketAssumption DEF DnsReply, PacketInv
  <2>2. PICK ip \in PeerIP, local \in Port, id \in Port, msg \in Message :
          /\ peer' = [ip |-> ip, port |-> 53, local |-> local, id |-> id]
          /\ mData' = processResponse(ReceiveReply(msg), peer', Len(msg))
          /\ content' = msg
    BY <1>3 DEF DnsReply
  <2>3. /\ IsBuffer(ReceiveReply(msg))
        /\ \A i \in 1..Len(msg) : ReceiveReply(msg)[27 + i] = msg[i]
    BY <2>1, MessageReceived
  <2>4. /\ peer'.ip \in IP /\ peer'.port \in Short /\ peer'.local \in Short /\ peer'.id \in Short
        /\ peer'.ip \in PeerIP
    BY <2>2, FieldsFit, ShortDef
  <2>5. IsReply(mData', peer', content')
    BY <2>2, <2>3, <2>4, ProcessResponse
  <2>6. IsBuffer(mData')
    BY <2>5 DEF IsReply, IsPacket, IsBuffer
  <2>7. replies' \in Nat /\ replies' <= MaxReplies
    BY <2>1
  <2>8. QED  BY <2>1, <2>4, <2>5, <2>6, <2>7 DEF PacketInv
<1>4. CASE UNCHANGED packetVars
  BY <1>4 DEF packetVars, PacketInv, Carries, IsSession, IsBuffer, IsBytes, IsReply, Valid
<1>5. QED  BY <1>1, <1>2, <1>3, <1>4 DEF PacketNext

\* The inductive invariant of the packets: in each phase, whose packet it is, with
\* whose data, and that its checksums hold once it has been rewritten.
THEOREM PacketInvariant == PacketSpec => []PacketInv
<1>1. PacketInit => PacketInv
  BY PacketInvInit
<1>2. PacketInv /\ [PacketNext]_packetVars => PacketInv'
  BY PacketInvNext
<1>3. QED  BY <1>1, <1>2, PTL DEF PacketSpec

\* The invariant implies the properties.
LEMMA PacketTypeFromInv == PacketInv => PacketTypeOK
<1> SUFFICES ASSUME PacketInv PROVE PacketTypeOK
  OBVIOUS
<1>1. /\ phase \in {"app", "toproxy", "proxy", "toapp", "dns"}
      /\ replies \in Nat /\ replies <= MaxReplies /\ MaxReplies \in Nat
  BY PacketAssumption DEF PacketInv
<1>2. \E n : IsBytes(mData, n)
  <2>1. CASE phase = "dns"
    BY <2>1 DEF PacketInv, IsBuffer
  <2>2. CASE phase # "dns"
    <3>1. \E src, sport, dst, dport : Carries(mData, content, src, sport, dst, dport)
      BY <1>1, <2>2 DEF PacketInv
    <3>2. QED  BY <3>1, CarriesEnds
  <2>3. QED  BY <2>1, <2>2
<1>3. \A i \in DOMAIN mData : mData[i] \in Byte
  BY <1>2 DEF IsBytes
<1>4. peer.ip \in PeerIP \cup {LocalIP}
  BY DEF PacketInv, IsSession
<1>5. replies \in 0..MaxReplies
  BY <1>1
<1>6. QED  BY <1>1, <1>3, <1>4, <1>5 DEF PacketTypeOK

LEMMA ChecksumsFromInv == PacketInv => ChecksumsHold
<1> SUFFICES ASSUME PacketInv, phase \in {"toproxy", "toapp"} \/ (phase = "dns" /\ replies > 0)
             PROVE  Valid(mData)
  BY DEF ChecksumsHold
<1>1. QED  BY DEF PacketInv, IsReply

LEMMA AnswerFromInv == PacketInv => AnswerComesFromPeer
<1> SUFFICES ASSUME PacketInv PROVE AnswerComesFromPeer
  OBVIOUS
<1>1. ASSUME phase = "toapp"
      PROVE  /\ Ends(mData, peer.ip, peer.port, LocalIP, peer.local)
             /\ DataAt(getHeaderLength(mData) + TcpHead, content)
             /\ getTotalLength(mData) = getHeaderLength(mData) + TcpHead + Len(content)
  <2>1. Carries(mData, content, peer.ip, peer.port, LocalIP, peer.local)
    BY <1>1 DEF PacketInv
  <2>2. QED  BY <2>1, CarriesEnds DEF DataAt
<1>2. ASSUME phase = "dns", replies > 0
      PROVE  /\ Ends(mData, peer.ip, peer.port, LocalIP, peer.local)
             /\ readShort(mData, 28) = peer.id
             /\ \A i \in 3..Len(content) : mData[27 + i] = content[i]
             /\ getTotalLength(mData) = getHeaderLength(mData) + readShort(mData, 24)
             /\ readShort(mData, 24) = 8 + Len(content)
  <2>1. IsReply(mData, peer, content)
    BY <1>2 DEF PacketInv
  <2>2. getTotalLength(mData) = 28 + Len(content) /\ getHeaderLength(mData) = 20 /\ Len(content) \in Nat
    BY <2>1 DEF IsReply, IsPacket
  <2>3. readShort(mData, 24) = 8 + Len(content)
    BY <2>1 DEF IsReply
  <2>4. getTotalLength(mData) = getHeaderLength(mData) + readShort(mData, 24)
    BY <2>2, <2>3
  <2>5. QED  BY <2>1, <2>3, <2>4 DEF IsReply
<1>3. QED  BY <1>1, <1>2 DEF AnswerComesFromPeer, Ends

\* The packet stays an array of bytes (IPPacket.kt rewrites it in place).
THEOREM PacketTypeCorrect == PacketSpec => []PacketTypeOK
  BY PacketInvariant, PacketTypeFromInv, PTL

\* The kernel accepts every packet that has been rewritten, for every payload and
\* every length of header and every content of the buffer (IPPacket.kt:157, 259).
THEOREM PacketChecksumsHold == PacketSpec => []ChecksumsHold
  BY PacketInvariant, ChecksumsFromInv, PTL

\* The answer to an app's packet or DNS query comes from the peer it was sent to,
\* to the port it was sent from, with the data of the answer and no more
\* (IPPacket.kt:182, 217, DNSPacket.kt:87).
THEOREM PacketAnswerComesFromPeer == PacketSpec => []AnswerComesFromPeer
  BY PacketInvariant, AnswerFromInv, PTL

\* Rewritten packets are right: both of these, of every packet (IPPacket.kt:157,
\* 182, 217, 259, DNSPacket.kt:87).
THEOREM PacketsAreRight == PacketSpec => []RewrittenPacketsAreRight
<1>1. PacketInv => RewrittenPacketsAreRight
  BY PacketTypeFromInv, ChecksumsFromInv, AnswerFromInv DEF RewrittenPacketsAreRight
<1>2. QED  BY <1>1, PacketInvariant, PTL

-----------------------------------------------------------------------------
(* Messages: the bytes.                                                     *)

\* The message that was received, and its sizes.
LEMMA MessageSizes ==
    ASSUME NEW size \in DataSize, Received(size)
    PROVE  /\ size \in Nat /\ cut \in Nat /\ OFFSET \in Nat /\ MAX_SIZE \in Nat /\ MAX_SIZE <= 512
           /\ ARRAY \in Nat /\ 4 * OFFSET + 3 * MAX_SIZE <= ARRAY
           /\ Len(message) \in Nat /\ Len(message) = 42 + size - cut /\ 42 + size <= MAX_SIZE
           /\ Len(chain) \in Nat /\ 1 <= Len(chain)
<1>1. /\ OFFSET \in Nat /\ MAX_SIZE \in Nat /\ MAX_SIZE <= 512
      /\ ARRAY \in Nat /\ 4 * OFFSET + 3 * MAX_SIZE <= ARRAY
      /\ size \in Nat /\ 42 + size <= MAX_SIZE
  BY MessageAssumption
<1>2. cut \in Nat /\ cut <= 42 + size
  BY MessageAssumption DEF Received
<1>3. 42 + size - cut \in Nat
  BY <1>1, <1>2
<1>4. Len(message) = 42 + size - cut
  BY <1>3 DEF Received
<1>5. chain \in UNION {[1..k -> Place] : k \in 1..MaxNames}
  BY DEF Received, Chains
<1>6. PICK k \in 1..MaxNames : chain \in [1..k -> Place]
  BY <1>5
<1>7. k \in Nat /\ 1 <= k
  BY MessageAssumption
<1>8. Len(chain) = k
  BY <1>6, <1>7
<1>9. QED  BY <1>1, <1>2, <1>3, <1>4, <1>7, <1>8

\* The names of the chain lie in the data, in order.
LEMMA ChainLies ==
    ASSUME NEW size \in DataSize, Received(size), NEW k \in 1..Len(chain)
    PROVE  /\ chain[k] \in Nat /\ DATA <= chain[k] /\ chain[k] + 4 <= DATA + size
           /\ \A j \in 1..Len(chain) : j < k => chain[j] + 4 <= chain[k]
           /\ \A j \in 1..Len(chain) : k < j => chain[k] + 4 <= chain[j]
<1>1. chain \in UNION {[1..l -> Place] : l \in 1..MaxNames}
  BY DEF Received, Chains
<1>2. PICK l \in 1..MaxNames : chain \in [1..l -> Place]
  BY <1>1
<1>3. l \in Nat
  BY MessageAssumption
<1>4. Len(chain) = l
  BY <1>2, <1>3
<1>5. chain[k] \in Nat
  BY <1>2, <1>4, MessageAssumption
<1>6. QED  BY <1>5 DEF Received, Chains

\* What the array holds.
LEMMA GetIs ==
    ASSUME NEW size \in DataSize, Received(size), NEW i \in Nat, i < Len(message)
    PROVE  ByteGet(OFFSET + i) = Layout(chain, size, i)
<1>1. /\ OFFSET \in Nat /\ Len(message) \in Nat /\ Len(message) = 42 + size - cut
  BY MessageSizes
<1>2. message = [j \in 1..Len(message) |-> Layout(chain, size, j - 1)]
  BY <1>1 DEF Received
<1>3. i + 1 \in 1..Len(message) /\ (i + 1) - 1 = i /\ (OFFSET + i) - OFFSET = i
  BY <1>1
<1>4. message[i + 1] = Layout(chain, size, i)
  BY <1>2, <1>3
<1>5. QED  BY <1>3, <1>4 DEF ByteGet

\* The counts of the header, the name of the question, and the length of the first
\* record's data.
LEMMA HeaderBytes ==
    ASSUME NEW at, NEW size \in Nat
    PROVE  /\ Layout(at, size, 4) = 0 /\ Layout(at, size, 5) = 1
           /\ Layout(at, size, 6) = 0 /\ Layout(at, size, 7) = 1
           /\ Layout(at, size, 8) = 0 /\ Layout(at, size, 9) = 0
           /\ Layout(at, size, 10) = 0 /\ Layout(at, size, 11) = 1
           /\ Layout(at, size, 12) = 1 /\ Layout(at, size, 13) = 97
           /\ Layout(at, size, 14) = 0 /\ Layout(at, size, 19) = 0
           /\ Layout(at, size, 28) = size \div 256 /\ Layout(at, size, 29) = size % 256
<1>1. /\ Layout(at, size, 4) = 0 /\ Layout(at, size, 5) = 1
      /\ Layout(at, size, 6) = 0 /\ Layout(at, size, 7) = 1
  BY DEF Layout, DATA
<1>2. /\ Layout(at, size, 8) = 0 /\ Layout(at, size, 9) = 0
      /\ Layout(at, size, 10) = 0 /\ Layout(at, size, 11) = 1
  BY DEF Layout, DATA
<1>3. Question[1] = 1 /\ Question[2] = 97 /\ Question[3] = 0
  BY DEF Question
<1>4. /\ Layout(at, size, 12) = 1 /\ Layout(at, size, 13) = 97 /\ Layout(at, size, 14) = 0
      /\ Layout(at, size, 19) = 0
  BY <1>3 DEF Layout, DATA
<1>5. Fields(size)[9] = size \div 256 /\ Fields(size)[10] = size % 256
  BY DEF Fields
<1>6. Layout(at, size, 28) = size \div 256 /\ Layout(at, size, 29) = size % 256
  BY <1>5 DEF Layout, DATA
<1>7. QED  BY <1>1, <1>2, <1>4, <1>6

\* The name of the last record is a pointer to the last name, and it has no data.
LEMMA LastBytes ==
    ASSUME NEW at, NEW size \in Nat
    PROVE  /\ Layout(at, size, 30 + size) = 192 + (at[Len(at)] \div 256)
           /\ Layout(at, size, 31 + size) = at[Len(at)] % 256
           /\ Layout(at, size, 40 + size) = 0 /\ Layout(at, size, 41 + size) = 0
<1> DEFINE p == Pointer(at, Len(at))
<1>1. p[1] = 192 + (at[Len(at)] \div 256) /\ p[2] = at[Len(at)] % 256
  BY DEF Pointer
<1> HIDE DEF p
<1>2. /\ (30 + size) - 30 - size + 1 = 1 /\ (31 + size) - 30 - size + 1 = 2
      /\ (40 + size) - 30 - size - 1 = 9 /\ (41 + size) - 30 - size - 1 = 10
  OBVIOUS
<1>3. Layout(at, size, 30 + size) = p[1] /\ Layout(at, size, 31 + size) = p[2]
  <2>1. Layout(at, size, 30 + size) = p[(30 + size) - 30 - size + 1]
    BY DEF Layout, DATA, p
  <2>2. Layout(at, size, 31 + size) = p[(31 + size) - 30 - size + 1]
    BY DEF Layout, DATA, p
  <2>3. QED  BY <1>2, <2>1, <2>2
<1>4. Fields(0)[9] = 0 /\ Fields(0)[10] = 0
  BY DEF Fields
<1>5. Layout(at, size, 40 + size) = 0 /\ Layout(at, size, 41 + size) = 0
  BY <1>2, <1>4 DEF Layout, DATA
<1>6. QED  BY <1>1, <1>3, <1>5

\* The bytes of the k-th name.
LEMMA NameBytes ==
    ASSUME NEW size \in DataSize, Received(size), NEW k \in 1..Len(chain)
    PROVE  /\ Layout(chain, size, chain[k]) = 1 /\ Layout(chain, size, chain[k] + 1) = k
           /\ Layout(chain, size, chain[k] + 2) =
                IF k = 1 THEN 0 ELSE 192 + (chain[k - 1] \div 256)
           /\ k # 1 => Layout(chain, size, chain[k] + 3) = chain[k - 1] % 256
<1>1. /\ size \in Nat /\ chain[k] \in Nat /\ 30 <= chain[k] /\ chain[k] + 4 <= 30 + size
      /\ k \in Nat /\ Len(chain) \in Nat
  BY MessageSizes, ChainLies DEF DATA
<1>2. ASSUME NEW i \in {0, 1, 2, 3} PROVE Layout(chain, size, chain[k] + i) = Name(chain, k)[i + 1]
  <2>1. ASSUME NEW j \in 1..Len(chain), (chain[k] + i) - chain[j] \in 0..3 PROVE j = k
    <3>1. /\ chain[j] \in Nat
          /\ j < k => chain[j] + 4 <= chain[k]
          /\ k < j => chain[k] + 4 <= chain[j]
      BY ChainLies
    <3>2. /\ j \in Int /\ k \in Int /\ i \in Int /\ 0 <= i /\ i <= 3
          /\ (chain[k] + i) - chain[j] >= 0 /\ (chain[k] + i) - chain[j] <= 3
      <4>1. j \in Int /\ k \in Int
        BY <1>1
      <4>2. i \in Int /\ 0 <= i /\ i <= 3
        OBVIOUS
      <4>3. (chain[k] + i) - chain[j] >= 0 /\ (chain[k] + i) - chain[j] <= 3
        BY <2>1
      <4>4. QED  BY <4>1, <4>2, <4>3
    <3>3. ~ (j < k) /\ ~ (k < j)
      BY <1>1, <3>1, <3>2
    <3>4. QED  BY <3>2, <3>3
  <2>2. (chain[k] + i) - chain[k] \in 0..3 /\ (chain[k] + i) - chain[k] + 1 = i + 1
    BY <1>1
  <2>3. (CHOOSE j \in 1..Len(chain) : (chain[k] + i) - chain[j] \in 0..3) = k
    BY <2>1, <2>2
  <2>4. Data(chain, chain[k] + i) = Name(chain, k)[i + 1]
    BY <2>2, <2>3 DEF Data
  <2>5. Layout(chain, size, chain[k] + i) = Data(chain, chain[k] + i)
    BY <1>1 DEF Layout, DATA
  <2>6. QED  BY <2>4, <2>5
<1>3. chain[k] + 0 = chain[k] /\ 0 + 1 = 1 /\ 1 + 1 = 2 /\ 2 + 1 = 3 /\ 3 + 1 = 4
  BY <1>1
<1>4. /\ Layout(chain, size, chain[k]) = Name(chain, k)[1]
      /\ Layout(chain, size, chain[k] + 1) = Name(chain, k)[2]
      /\ Layout(chain, size, chain[k] + 2) = Name(chain, k)[3]
      /\ Layout(chain, size, chain[k] + 3) = Name(chain, k)[4]
  BY <1>2, <1>3
<1>5. CASE k = 1
  BY <1>4, <1>5 DEF Name
<1>6. CASE k # 1
  <2> DEFINE p == Pointer(chain, k - 1)
  <2>1. p[1] = 192 + (chain[k - 1] \div 256) /\ p[2] = chain[k - 1] % 256
    BY DEF Pointer
  <2> HIDE DEF p
  <2>2. Name(chain, k) = <<1, k, p[1], p[2]>>
    BY <1>6 DEF Name, p
  <2>3. QED  BY <1>4, <1>6, <2>1, <2>2
<1>7. QED  BY <1>5, <1>6

-----------------------------------------------------------------------------
(* Messages: the invariant.  Reading has a place in the layout.  In the      *)
(* slice of the array the place says what has been read; in the chain of     *)
(* names, with which buffer, too.                                            *)

\* The name that is asked for.
Asked == << <<97>> >>

\* Reading is in the slice of the array, at p; r is what is read next.
InSlice(r, p, qs, rs, ds) ==
    /\ reading = r /\ pos = OFFSET + p /\ p <= Len(message)
    /\ questions = qs /\ records = rs /\ domains = ds
    /\ buffer = Slice /\ back = 0

\* Where reading may be in the question, in the root's record, and in the last one.
AtQuestion ==
    \/ InSlice("domain", 12, 1, 2, <<>>) /\ sb = <<>>
    \/ InSlice("labels", 13, 1, 2, <<>>) /\ sb = <<>> /\ length = 1
    \/ InSlice("labels", 15, 1, 2, <<>>) /\ sb = Asked /\ length = 0
    \/ InSlice("fields", 15, 1, 2, <<Asked>>) /\ sb = <<>>

AtRoot ==
    \/ InSlice("domain", 19, 0, 2, <<Asked>>) /\ sb = <<>>
    \/ InSlice("labels", 20, 0, 2, <<Asked>>) /\ sb = <<>> /\ length = 0
    \/ InSlice("fields", 20, 0, 2, <<Asked, <<>> >>) /\ sb = <<>>

AtLast(size) ==
    \/ InSlice("domain", 30 + size, 0, 1, <<Asked, <<>> >>) /\ sb = <<>>
    \/ /\ InSlice("labels", 31 + size, 0, 1, <<Asked, <<>> >>) /\ sb = <<>>
       /\ length = 192 + (chain[Len(chain)] \div 256)
    \/ InSlice("fields", 32 + size, 0, 1, Domains) /\ sb = <<>>

\* Reading is at p in the k-th name of the chain, with n labels read.
InName(size, k, r, p, n) ==
    /\ reading = r /\ pos = OFFSET + p /\ sb = Labels(n)
    /\ questions = 0 /\ records = 1 /\ domains = <<Asked, <<>> >>
    /\ 32 + size <= Len(message) /\ back = OFFSET + 32 + size
    /\ buffer.limit \in Nat /\ buffer.end = buffer.limit
    /\ buffer.limit >= OFFSET + chain[k] + Len(message)
    /\ k = Len(chain) => buffer.limit = 2 * OFFSET + chain[k] + Len(message)

\* Before the label of the k-th name of the chain, at it, and behind it.
AtName(size, k) ==
    \/ InName(size, k, "domain", chain[k], Len(chain) - k)
    \/ InName(size, k, "labels", chain[k] + 1, Len(chain) - k) /\ length = 1
    \/ /\ InName(size, k, "labels", chain[k] + 3, Len(chain) - k + 1)
       /\ length = IF k = 1 THEN 0 ELSE 192 + (chain[k - 1] \div 256)

\* Nothing has been read yet; all has been read; reading has failed, and why it
\* may; it is at the end of a message that has been cut, with fields to read.
Unread == reading = "received" /\ buffer = Slice /\ sb = <<>> /\ back = 0 /\ domains = <<>>
AllRead == reading = "read" /\ cut = 0 /\ domains = Domains /\ pos = OFFSET + Len(message)
Failed == reading \in {"null", "throws"} /\ (cut > 0 \/ Len(chain) > 2)
AtCut == reading = "fields" /\ buffer = Slice /\ pos = OFFSET + Len(message) /\ cut > 0

\* How far reading has come.
Progress(size) ==
    \/ Unread \/ AllRead \/ Failed \/ AtCut
    \/ AtQuestion \/ AtRoot \/ AtLast(size)
    \/ \E k \in 1..Len(chain) : AtName(size, k)

\* The inductive invariant: a message was received, and reading is at one of the
\* places of its layout, with the names before it read.
MessageInv == \E size \in DataSize : Received(size) /\ Progress(size)

\* What is read next decides which step is taken.
LEMMA OneOf ==
    ASSUME ReadNext
    PROVE  /\ reading = "received" => FromBytes
           /\ reading = "domain" => ReadDomain
           /\ reading = "labels" => ReadLabel \/ ReadPointer \/ EndOfName
           /\ reading = "fields" => Question_FromBytes \/ Resource_FromBytes
           /\ reading \notin {"read", "null", "throws"}
  BY DEF ReadNext, FromBytes, ReadDomain, ReadLabel, ReadPointer, EndOfName,
         Question_FromBytes, Resource_FromBytes

\* The header says what is there (DNSPacket.kt:108-128), or is cut.
LEMMA FromUnread ==
    ASSUME NEW size \in DataSize, Received(size), MessageNext, Unread
    PROVE  Progress(size)'
<1>0. /\ size \in Nat /\ cut \in Nat /\ OFFSET \in Nat /\ Len(message) \in Nat
      /\ Len(message) = 42 + size - cut /\ Len(message) <= MAX_SIZE /\ MAX_SIZE \in Nat
  BY MessageSizes
<1>1. FromBytes /\ message' = message /\ chain' = chain /\ cut' = cut
  BY OneOf DEF MessageNext, Unread, input
<1>2. CASE Len(message) < 12
  <2>1. reading' = "null" /\ cut > 0
    BY <1>0, <1>1, <1>2 DEF FromBytes, Refused
  <2>2. QED  BY <1>1, <2>1 DEF Progress, Failed
<1>3. CASE 12 <= Len(message)
  <2>1. ASSUME NEW i \in {4, 5, 6, 7, 8, 9, 10, 11}
        PROVE  ByteGet(OFFSET + i) = Layout(chain, size, i)
    <3>1. i \in Nat /\ i < Len(message)
      BY <1>0, <1>3
    <3>2. QED  BY <3>1, GetIs
  <2>2. /\ ByteGet(OFFSET + 4) = 0 /\ ByteGet(OFFSET + 5) = 1
        /\ ByteGet(OFFSET + 6) = 0 /\ ByteGet(OFFSET + 7) = 1
        /\ ByteGet(OFFSET + 8) = 0 /\ ByteGet(OFFSET + 9) = 0
        /\ ByteGet(OFFSET + 10) = 0 /\ ByteGet(OFFSET + 11) = 1
    BY <1>0, <2>1, HeaderBytes
  <2>3. /\ (OFFSET + 4) + 1 = OFFSET + 5 /\ (OFFSET + 6) + 1 = OFFSET + 7
        /\ (OFFSET + 8) + 1 = OFFSET + 9 /\ (OFFSET + 10) + 1 = OFFSET + 11
    BY <1>0
  <2>4. Count(4) = 1 /\ Count(6) = 1 /\ Count(8) = 0 /\ Count(10) = 1
    BY <2>2, <2>3 DEF Count, GetShort
  <2>5. ~ Refused
    BY <1>0, <1>3, <2>4 DEF Refused
  <2>6. /\ reading' = "domain" /\ questions' = 1 /\ records' = 2 /\ pos' = OFFSET + 12
        /\ buffer' = buffer /\ sb' = sb /\ back' = back /\ domains' = domains
    BY <1>1, <2>4, <2>5 DEF FromBytes, Following
  <2>7. InSlice("domain", 12, 1, 2, <<>>)' /\ sb' = <<>>
    BY <1>1, <1>3, <2>6 DEF InSlice, Unread, Slice
  <2>8. QED  BY <2>7 DEF Progress, AtQuestion
<1>4. QED  BY <1>0, <1>2, <1>3

\* Reading the first byte of a name in the slice.
LEMMA DomainInSlice ==
    ASSUME NEW size \in DataSize, Received(size), MessageNext,
           NEW p \in Nat, NEW qs, NEW rs, NEW ds, InSlice("domain", p, qs, rs, ds),
           p < 42 + size
    PROVE  \/ Failed'
           \/ /\ InSlice("labels", p + 1, qs, rs, ds)' /\ sb' = sb
              /\ length' = Layout(chain, size, p)
<1>0. /\ size \in Nat /\ cut \in Nat /\ OFFSET \in Nat /\ Len(message) \in Nat
      /\ Len(message) = 42 + size - cut
  BY MessageSizes
<1>1. ReadDomain /\ message' = message /\ chain' = chain /\ cut' = cut
  BY OneOf DEF MessageNext, InSlice, input
<1>2. pos = OFFSET + p /\ buffer = Slice /\ buffer.end = OFFSET + Len(message)
  BY DEF InSlice, Slice
<1>3. CASE p < Len(message)
  <2>1. hasRemaining
    BY <1>0, <1>2, <1>3 DEF hasRemaining
  <2>2. /\ reading' = "labels" /\ length' = ByteGet(pos) /\ pos' = pos + 1
        /\ UNCHANGED <<questions, records, buffer, sb, back, domains>>
    BY <1>1, <2>1 DEF ReadDomain
  <2>3. length' = Layout(chain, size, p)
    BY <1>2, <1>3, <2>2, GetIs
  <2>4. pos' = OFFSET + (p + 1) /\ p + 1 <= Len(message)
    BY <1>0, <1>2, <1>3, <2>2
  <2>5. InSlice("labels", p + 1, qs, rs, ds)'
    BY <1>1, <2>2, <2>4 DEF InSlice, Slice
  <2>6. QED  BY <2>2, <2>3, <2>5
<1>4. CASE ~ (p < Len(message))
  <2>1. ~ hasRemaining /\ cut > 0
    BY <1>0, <1>2, <1>4 DEF hasRemaining
  <2>2. reading' = "throws"
    BY <1>1, <2>1 DEF ReadDomain, Throws
  <2>3. QED  BY <1>1, <2>1, <2>2 DEF Failed
<1>5. QED  BY <1>3, <1>4

\* The end of a name in the slice, or of the message.
LEMMA EndInSlice ==
    ASSUME NEW size \in DataSize, Received(size), MessageNext,
           NEW p \in Nat, NEW qs, NEW rs, NEW ds, InSlice("labels", p, qs, rs, ds),
           length = 0, NEW name, sb = name
    PROVE  InSlice("fields", p, qs, rs, Append(ds, name))' /\ sb' = <<>>
<1>1. EndOfName /\ message' = message /\ chain' = chain /\ cut' = cut
  BY OneOf DEF MessageNext, InSlice, input, ReadLabel, ReadPointer
<1>2. /\ reading' = "fields" /\ domains' = Append(domains, sb) /\ sb' = <<>>
      /\ pos' = pos /\ back' = 0 /\ buffer' = Slice /\ UNCHANGED <<questions, records>>
  BY <1>1 DEF EndOfName, InSlice
<1>3. QED  BY <1>1, <1>2 DEF InSlice, Slice

\* A message that ends in a name: what has been read of it passes for the name, and
\* the fields behind it are missing (DNSPacket.kt:162).
LEMMA CutInSlice ==
    ASSUME NEW size \in DataSize, Received(size), MessageNext,
           NEW p \in Nat, NEW qs, NEW rs, NEW ds, InSlice("labels", p, qs, rs, ds),
           p < 42 + size, p = Len(message)
    PROVE  AtCut'
<1>0. /\ size \in Nat /\ cut \in Nat /\ OFFSET \in Nat /\ Len(message) \in Nat
      /\ Len(message) = 42 + size - cut
  BY MessageSizes
<1>1. ~ hasRemaining
  BY <1>0 DEF hasRemaining, InSlice, Slice
<1>2. EndOfName /\ message' = message /\ chain' = chain /\ cut' = cut
  BY <1>1, OneOf DEF MessageNext, InSlice, input, ReadLabel, ReadPointer
<1>3. reading' = "fields" /\ pos' = OFFSET + p /\ buffer' = Slice
  BY <1>2 DEF EndOfName, InSlice
<1>4. cut > 0
  BY <1>0
<1>5. QED  BY <1>2, <1>3, <1>4 DEF AtCut, Slice

\* Reading goes through the question (Question.kt:26-34), or fails where it is cut.
LEMMA FromQuestion ==
    ASSUME NEW size \in DataSize, Received(size), MessageNext, AtQuestion
    PROVE  Progress(size)'
<1>0. /\ size \in Nat /\ cut \in Nat /\ OFFSET \in Nat /\ Len(message) \in Nat
      /\ Len(message) = 42 + size - cut
  BY MessageSizes
<1>1. message' = message /\ chain' = chain /\ cut' = cut /\ ReadNext
  BY DEF MessageNext, input
<1>2. CASE InSlice("domain", 12, 1, 2, <<>>) /\ sb = <<>>
  <2>1. 12 \in Nat /\ 12 < 42 + size /\ 12 + 1 = 13 /\ Layout(chain, size, 12) = 1
    BY <1>0, HeaderBytes
  <2>2. \/ Failed'
        \/ InSlice("labels", 13, 1, 2, <<>>)' /\ sb' = sb /\ length' = 1
    BY <1>2, <2>1, DomainInSlice
  <2>3. QED  BY <1>2, <2>2 DEF Progress, AtQuestion
<1>3. CASE InSlice("labels", 13, 1, 2, <<>>) /\ sb = <<>> /\ length = 1
  <2>1. CASE Len(message) = 13
    <3>1. 13 \in Nat /\ 13 < 42 + size
      BY <1>0
    <3>2. AtCut'
      BY <1>3, <2>1, <3>1, CutInSlice
    <3>3. QED  BY <3>2 DEF Progress
  <2>2. CASE Len(message) # 13
    <3>1. pos = OFFSET + 13 /\ buffer = Slice /\ buffer.end = OFFSET + Len(message) /\ 13 < Len(message)
      BY <1>0, <1>3, <2>2 DEF InSlice, Slice
    <3>2. hasRemaining
      BY <1>0, <3>1 DEF hasRemaining
    <3>3. ReadLabel
      BY <1>1, <1>3, <3>2, OneOf DEF InSlice, ReadPointer, EndOfName
    <3>4. CASE 14 < Len(message)
      <4>1. /\ sb' = Append(<<>>, [i \in 1..1 |-> ByteGet(pos + i - 1)])
            /\ length' = ByteGet(pos + 1) /\ pos' = pos + 1 + 1
            /\ UNCHANGED <<reading, questions, records, buffer, back, domains>>
        BY <1>0, <1>3, <3>1, <3>3, <3>4 DEF ReadLabel
      <4>2. pos + 1 - 1 = OFFSET + 13 /\ pos + 1 = OFFSET + 14 /\ pos + 1 + 1 = OFFSET + 15
        BY <1>0, <3>1
      <4>3. ByteGet(OFFSET + 13) = 97 /\ ByteGet(OFFSET + 14) = 0
        <5>1. 13 \in Nat /\ 13 < Len(message) /\ 14 \in Nat /\ 14 < Len(message)
          BY <1>0, <3>4
        <5>2. ByteGet(OFFSET + 13) = Layout(chain, size, 13)
          BY <5>1, GetIs
        <5>3. ByteGet(OFFSET + 14) = Layout(chain, size, 14)
          BY <5>1, GetIs
        <5>4. QED  BY <1>0, <5>2, <5>3, HeaderBytes
      <4>4. [i \in 1..1 |-> ByteGet(pos + i - 1)] = <<97>>
        BY <4>2, <4>3
      <4>5. sb' = Asked /\ length' = 0 /\ pos' = OFFSET + 15
        BY <4>1, <4>2, <4>3, <4>4 DEF Asked
      <4>6. 15 <= Len(message)
        BY <1>0, <3>4
      <4>7. InSlice("labels", 15, 1, 2, <<>>)'
        BY <1>1, <1>3, <4>1, <4>5, <4>6 DEF InSlice, Slice
      <4>8. QED  BY <4>5, <4>7 DEF Progress, AtQuestion
    <3>5. CASE ~ (14 < Len(message))
      <4>1. ~ (pos + length < buffer.end) /\ cut > 0
        BY <1>0, <1>3, <3>1, <3>5
      <4>2. reading' = "throws"
        BY <3>3, <4>1 DEF ReadLabel, Throws
      <4>3. QED  BY <1>1, <4>1, <4>2 DEF Progress, Failed
    <3>6. QED  BY <3>4, <3>5
  <2>3. QED  BY <2>1, <2>2
<1>4. CASE InSlice("labels", 15, 1, 2, <<>>) /\ sb = Asked /\ length = 0
  <2>1. InSlice("fields", 15, 1, 2, Append(<<>>, Asked))' /\ sb' = <<>>
    BY <1>4, EndInSlice
  <2>2. Append(<<>>, Asked) = <<Asked>>
    OBVIOUS
  <2>3. QED  BY <2>1, <2>2 DEF Progress, AtQuestion
<1>5. CASE InSlice("fields", 15, 1, 2, <<Asked>>) /\ sb = <<>>
  <2>1. Question_FromBytes
    BY <1>1, <1>5, OneOf DEF InSlice, Resource_FromBytes
  <2>2. pos = OFFSET + 15 /\ buffer.end = OFFSET + Len(message)
    BY <1>5 DEF InSlice, Slice
  <2>3. CASE 19 <= Len(message)
    <3>1. ~ (pos + 4 > buffer.end) /\ pos + 4 = OFFSET + 19
      BY <1>0, <2>2, <2>3
    <3>2. /\ reading' = "domain" /\ questions' = 0 /\ pos' = OFFSET + 19
          /\ UNCHANGED <<records, buffer, sb, back, domains>>
      BY <1>5, <2>1, <3>1 DEF Question_FromBytes, Following, InSlice
    <3>3. InSlice("domain", 19, 0, 2, <<Asked>>)' /\ sb' = <<>>
      BY <1>1, <1>5, <2>3, <3>2 DEF InSlice, Slice
    <3>4. QED  BY <3>3 DEF Progress, AtRoot
  <2>4. CASE ~ (19 <= Len(message))
    <3>1. pos + 4 > buffer.end /\ cut > 0
      BY <1>0, <2>2, <2>4
    <3>2. reading' = "throws"
      BY <2>1, <3>1 DEF Question_FromBytes, Throws
    <3>3. QED  BY <1>1, <3>1, <3>2 DEF Progress, Failed
  <2>5. QED  BY <2>3, <2>4
<1>6. QED  BY <1>2, <1>3, <1>4, <1>5 DEF AtQuestion

-----------------------------------------------------------------------------
(* Messages: names and labels.                                               *)

\* What Append gives is told by its length and its elements.
LEMMA AppendIs ==
    ASSUME NEW S, NEW s \in Seq(S), NEW e \in S, NEW t \in Seq(S),
           Len(t) = Len(s) + 1, t[Len(s) + 1] = e, \A i \in 1..Len(s) : t[i] = s[i]
    PROVE  Append(s, e) = t
<1>1. /\ Append(s, e) \in Seq(S) /\ Len(Append(s, e)) = Len(s) + 1
      /\ \A i \in 1..Len(s) : Append(s, e)[i] = s[i] /\ Append(s, e)[Len(s) + 1] = e
  BY AppendProperties
<1>2. Append(s, e)[Len(s) + 1] = e
  BY AppendProperties
<1>3. ASSUME NEW i \in 1..Len(Append(s, e)) PROVE Append(s, e)[i] = t[i]
  <2>1. i \in 1..Len(s) \/ i = Len(s) + 1
    BY <1>1
  <2>2. QED  BY <1>1, <1>2, <2>1
<1>4. QED  BY <1>1, <1>3, SeqEqual

\* Appending to one, and to two.
LEMMA AppendSecond ==
    ASSUME NEW a, NEW b
    PROVE  Append(<<a>>, b) = <<a, b>>
<1> DEFINE S == {a, b}
           s == <<a>>
           t == <<a, b>>
<1>1. s \in Seq(S) /\ Len(s) = 1 /\ s[1] = a
  OBVIOUS
<1>2. t \in Seq(S) /\ Len(t) = 2 /\ t[1] = a /\ t[2] = b
  OBVIOUS
<1>3. b \in S
  OBVIOUS
<1> HIDE DEF s, t, S
<1>4. Append(s, b) = t
  <2>1. Len(t) = Len(s) + 1 /\ t[Len(s) + 1] = b
    BY <1>1, <1>2
  <2>2. \A i \in 1..Len(s) : t[i] = s[i]
    BY <1>1, <1>2
  <2>3. QED  BY <1>1, <1>2, <1>3, <2>1, <2>2, AppendIs
<1>5. QED  BY <1>4 DEF s, t

LEMMA AppendThird ==
    ASSUME NEW a, NEW b, NEW c
    PROVE  Append(<<a, b>>, c) = <<a, b, c>>
<1> DEFINE S == {a, b, c}
           s == <<a, b>>
           t == <<a, b, c>>
<1>1. s \in Seq(S) /\ Len(s) = 2 /\ s[1] = a /\ s[2] = b
  OBVIOUS
<1>2. t \in Seq(S) /\ Len(t) = 3 /\ t[1] = a /\ t[2] = b /\ t[3] = c
  OBVIOUS
<1>3. c \in S
  OBVIOUS
<1> HIDE DEF s, t, S
<1>4. Append(s, c) = t
  <2>1. Len(t) = Len(s) + 1 /\ t[Len(s) + 1] = c
    BY <1>1, <1>2
  <2>2. \A i \in 1..Len(s) : t[i] = s[i]
    BY <1>1, <1>2
  <2>3. QED  BY <1>1, <1>2, <1>3, <2>1, <2>2, AppendIs
<1>5. QED  BY <1>4 DEF s, t

\* At the end of a message that has been cut the fields make the buffer throw
\* (Question.kt:30-31, Resource.kt:36-41).
LEMMA FromCut ==
    ASSUME NEW size \in DataSize, Received(size), MessageNext, AtCut
    PROVE  Progress(size)'
<1>0. OFFSET \in Nat /\ Len(message) \in Nat
  BY MessageSizes
<1>1. /\ message' = message /\ chain' = chain /\ cut' = cut
      /\ Question_FromBytes \/ Resource_FromBytes
  BY OneOf DEF MessageNext, AtCut, input
<1>2. pos + 4 > buffer.end /\ pos + 10 > buffer.end
  BY <1>0 DEF AtCut, Slice
<1>3. reading' = "throws"
  BY <1>1, <1>2 DEF Question_FromBytes, Resource_FromBytes, Throws
<1>4. QED  BY <1>1, <1>3 DEF AtCut, Progress, Failed

\* Reading goes through the root's record and over its data, whatever their size
\* (Resource.kt:32-44), or fails where they are cut.
LEMMA FromRoot ==
    ASSUME NEW size \in DataSize, Received(size), MessageNext, AtRoot
    PROVE  Progress(size)'
<1>0. /\ size \in Nat /\ cut \in Nat /\ OFFSET \in Nat /\ Len(message) \in Nat
      /\ Len(message) = 42 + size - cut
  BY MessageSizes
<1>1. message' = message /\ chain' = chain /\ cut' = cut /\ ReadNext
  BY DEF MessageNext, input
<1>2. CASE InSlice("domain", 19, 0, 2, <<Asked>>) /\ sb = <<>>
  <2>1. 19 \in Nat /\ 19 < 42 + size /\ 19 + 1 = 20 /\ Layout(chain, size, 19) = 0
    BY <1>0, HeaderBytes
  <2>2. \/ Failed'
        \/ InSlice("labels", 20, 0, 2, <<Asked>>)' /\ sb' = sb /\ length' = 0
    BY <1>2, <2>1, DomainInSlice
  <2>3. QED  BY <1>2, <2>2 DEF Progress, AtRoot
<1>3. CASE InSlice("labels", 20, 0, 2, <<Asked>>) /\ sb = <<>> /\ length = 0
  <2>1. InSlice("fields", 20, 0, 2, Append(<<Asked>>, <<>>))' /\ sb' = <<>>
    BY <1>3, EndInSlice
  <2>2. Append(<<Asked>>, <<>>) = <<Asked, <<>> >>
    BY AppendSecond
  <2>3. QED  BY <2>1, <2>2 DEF Progress, AtRoot
<1>4. CASE InSlice("fields", 20, 0, 2, <<Asked, <<>> >>) /\ sb = <<>>
  <2>1. Resource_FromBytes
    BY <1>1, <1>4, OneOf DEF InSlice, Question_FromBytes
  <2>2. pos = OFFSET + 20 /\ buffer.end = OFFSET + Len(message)
    BY <1>4 DEF InSlice, Slice
  <2>3. CASE 30 + size <= Len(message)
    <3>1. GetShort(pos + 8) = size
      <4>1. pos + 8 = OFFSET + 28 /\ (pos + 8) + 1 = OFFSET + 29
        BY <1>0, <2>2
      <4>2. 28 \in Nat /\ 28 < Len(message) /\ 29 \in Nat /\ 29 < Len(message)
        BY <1>0, <2>3
      <4>3. ByteGet(OFFSET + 28) = Layout(chain, size, 28)
        BY <4>2, GetIs
      <4>4. ByteGet(OFFSET + 29) = Layout(chain, size, 29)
        BY <4>2, GetIs
      <4>5. GetShort(pos + 8) = 256 * (size \div 256) + (size % 256)
        BY <1>0, <4>1, <4>3, <4>4, HeaderBytes DEF GetShort
      <4>6. 256 * (size \div 256) + (size % 256) = size
        BY <1>0
      <4>7. QED  BY <4>5, <4>6
    <3>2. ~ (pos + 10 > buffer.end) /\ ~ (pos + 10 + size > buffer.end)
          /\ pos + 10 + size = OFFSET + (30 + size)
      BY <1>0, <2>2, <2>3
    <3>3. /\ reading' = "domain" /\ records' = 1 /\ pos' = OFFSET + (30 + size)
          /\ UNCHANGED <<questions, buffer, sb, back, domains>>
      BY <1>4, <2>1, <3>1, <3>2 DEF Resource_FromBytes, Following, InSlice
    <3>4. InSlice("domain", 30 + size, 0, 1, <<Asked, <<>> >>)' /\ sb' = <<>>
      BY <1>1, <1>4, <2>3, <3>3 DEF InSlice, Slice
    <3>5. QED  BY <3>4 DEF Progress, AtLast
  <2>4. CASE ~ (30 + size <= Len(message))
    <3>1. cut > 0
      BY <1>0, <2>4
    <3>2. pos + 10 > buffer.end \/ pos + 10 + GetShort(pos + 8) > buffer.end
      <4>1. CASE 30 <= Len(message)
        <5>1. pos + 8 = OFFSET + 28 /\ (pos + 8) + 1 = OFFSET + 29
          BY <1>0, <2>2
        <5>2. 28 \in Nat /\ 28 < Len(message) /\ 29 \in Nat /\ 29 < Len(message)
          BY <1>0, <4>1
        <5>3. ByteGet(OFFSET + 28) = Layout(chain, size, 28)
          BY <5>2, GetIs
        <5>4. ByteGet(OFFSET + 29) = Layout(chain, size, 29)
          BY <5>2, GetIs
        <5>5. GetShort(pos + 8) = 256 * (size \div 256) + (size % 256)
          BY <1>0, <5>1, <5>3, <5>4, HeaderBytes DEF GetShort
        <5>6. 256 * (size \div 256) + (size % 256) = size
          BY <1>0
        <5>7. QED  BY <1>0, <2>2, <2>4, <5>5, <5>6
      <4>2. CASE ~ (30 <= Len(message))
        BY <1>0, <2>2, <4>2
      <4>3. QED  BY <4>1, <4>2
    <3>3. reading' = "throws"
      BY <2>1, <3>2 DEF Resource_FromBytes, Throws
    <3>4. QED  BY <1>1, <3>1, <3>3 DEF Progress, Failed
  <2>5. QED  BY <2>3, <2>4
<1>5. QED  BY <1>2, <1>3, <1>4 DEF AtRoot

\* The first byte of a pointer is no length of a label, and the two make the place
\* they point to.
LEMMA PointerBytes ==
    ASSUME NEW a \in Nat, a < 512
    PROVE  /\ 192 + (a \div 256) \in Nat /\ 192 + (a \div 256) >= 192
           /\ ((192 + (a \div 256)) % 64) * 256 + (a % 256) = a
<1> DEFINE q == a \div 256
           r == a % 256
<1>1. q \in Nat /\ r \in Nat /\ a = 256 * q + r /\ q < 2
  OBVIOUS
<1> HIDE DEF q, r
<1>2. q = 0 \/ q = 1
  BY <1>1
<1>3. (192 + q) % 64 = q
  BY <1>2
<1>4. QED  BY <1>1, <1>3 DEF q, r

\* The names of a received message are where a pointer reaches, and two of them
\* can be followed in the array.
LEMMA NamesFit ==
    ASSUME NEW size \in DataSize, Received(size), NEW k \in 1..Len(chain)
    PROVE  /\ chain[k] \in Nat /\ 30 <= chain[k] /\ chain[k] + 4 <= 30 + size /\ chain[k] < 512
           /\ chain[k] < MAX_SIZE
<1>1. /\ chain[k] \in Nat /\ 30 <= chain[k] /\ chain[k] + 4 <= 30 + size
      /\ size \in Nat /\ MAX_SIZE \in Nat /\ MAX_SIZE <= 512 /\ 42 + size <= MAX_SIZE
  BY ChainLies, MessageSizes DEF DATA
<1>2. QED  BY <1>1

\* The labels of no name, and of one more.
LEMMA NoLabels == Labels(0) = <<>>
  BY DEF Labels

LEMMA MoreLabels ==
    ASSUME NEW k \in 1..Len(chain), Len(chain) \in Nat
    PROVE  Append(Labels(Len(chain) - k), <<k>>) = Labels(Len(chain) - k + 1)
<1> DEFINE m == Len(chain)
           n == m - k
           l == n + 1
           S == {<<m + 1 - i>> : i \in 1..l}
           s == Labels(n)
           t == Labels(l)
<1>1. m \in Nat /\ k \in Nat /\ n \in Nat /\ l \in Nat /\ l = n + 1 /\ (m + 1) - l = k
  OBVIOUS
<1>2. s = [i \in 1..n |-> <<m + 1 - i>>] /\ t = [i \in 1..l |-> <<m + 1 - i>>]
  BY DEF Labels
<1> HIDE DEF m, n, l, s, t
<1>3. l \in 1..l /\ \A i \in 1..n : i \in 1..l
  BY <1>1
<1>4. s \in [1..n -> S] /\ t \in [1..l -> S] /\ <<k>> \in S
  BY <1>1, <1>2, <1>3
<1>5. t[l] = <<k>> /\ \A i \in 1..n : t[i] = s[i]
  BY <1>1, <1>2, <1>3
<1>6. Len(s) = n /\ Len(t) = l
  BY <1>1, <1>2
<1> HIDE DEF S
<1>7. s \in Seq(S) /\ t \in Seq(S)
  BY <1>1, <1>4, SeqDef
<1>8. Len(t) = Len(s) + 1 /\ t[Len(s) + 1] = <<k>> /\ \A i \in 1..Len(s) : t[i] = s[i]
  BY <1>1, <1>5, <1>6
<1>9. Append(s, <<k>>) = t
  BY <1>4, <1>7, <1>8, AppendIs
<1>10. QED  BY <1>9 DEF s, t, l, n, m

\* The name of the last record is read at the pointer (DNSPacket.kt:163-173), which
\* fits the array; and behind its fields is the end of the message.
LEMMA FromLast ==
    ASSUME NEW size \in DataSize, Received(size), MessageNext, AtLast(size)
    PROVE  Progress(size)'
<1> DEFINE m == Len(chain)
<1>0. /\ size \in Nat /\ cut \in Nat /\ OFFSET \in Nat /\ Len(message) \in Nat
      /\ Len(message) = 42 + size - cut /\ 42 + size <= MAX_SIZE /\ MAX_SIZE \in Nat
      /\ ARRAY \in Nat /\ 4 * OFFSET + 3 * MAX_SIZE <= ARRAY /\ m \in Nat /\ m \in 1..m
  BY MessageSizes
<1>1. message' = message /\ chain' = chain /\ cut' = cut /\ ReadNext
  BY DEF MessageNext, input
<1>2. CASE InSlice("domain", 30 + size, 0, 1, <<Asked, <<>> >>) /\ sb = <<>>
  <2> DEFINE p == 30 + size
  <2>1. /\ p \in Nat /\ p < 42 + size /\ p + 1 = 31 + size
        /\ Layout(chain, size, p) = 192 + (chain[Len(chain)] \div 256)
    BY <1>0, LastBytes
  <2>2. InSlice("domain", p, 0, 1, <<Asked, <<>> >>)
    BY <1>2
  <2> HIDE DEF p
  <2>3. \/ Failed'
        \/ /\ InSlice("labels", p + 1, 0, 1, <<Asked, <<>> >>)' /\ sb' = sb
           /\ length' = Layout(chain, size, p)
    BY <2>1, <2>2, DomainInSlice
  <2>4. CASE Failed'
    BY <2>4 DEF Progress
  <2>5. CASE /\ InSlice("labels", p + 1, 0, 1, <<Asked, <<>> >>)' /\ sb' = sb
             /\ length' = Layout(chain, size, p)
    <3>1. InSlice("labels", 31 + size, 0, 1, <<Asked, <<>> >>)' /\ sb' = <<>>
      BY <1>2, <2>1, <2>5 DEF p
    <3>2. length' = 192 + (chain'[Len(chain')] \div 256)
      BY <1>1, <2>1, <2>5
    <3>3. QED  BY <3>1, <3>2 DEF Progress, AtLast
  <2>6. QED  BY <2>3, <2>4, <2>5
<1>3. CASE /\ InSlice("labels", 31 + size, 0, 1, <<Asked, <<>> >>) /\ sb = <<>>
           /\ length = 192 + (chain[Len(chain)] \div 256)
  <2> DEFINE p == 31 + size
  <2>1. p \in Nat /\ p < 42 + size
    BY <1>0
  <2>2. CASE p = Len(message)
    <3>1. InSlice("labels", p, 0, 1, <<Asked, <<>> >>)
      BY <1>3
    <3> HIDE DEF p
    <3>2. AtCut'
      BY <2>1, <2>2, <3>1, CutInSlice
    <3>3. QED  BY <3>2 DEF Progress
  <2>3. CASE p # Len(message)
    <3>1. /\ pos = OFFSET + p /\ p < Len(message) /\ buffer = Slice /\ back = 0
          /\ buffer.end = OFFSET + Len(message) /\ buffer.limit = Len(message)
          /\ questions = 0 /\ records = 1 /\ domains = <<Asked, <<>> >>
      BY <1>0, <1>3, <2>3 DEF InSlice, Slice
    <3>2. /\ chain[m] \in Nat /\ chain[m] < 512 /\ chain[m] < MAX_SIZE
      BY <1>0, NamesFit
    <3>3. length \in Nat /\ length >= 192
      BY <1>3, <3>2, PointerBytes
    <3>4. hasRemaining
      BY <1>0, <3>1 DEF hasRemaining
    <3>5. ReadPointer
      BY <1>1, <1>3, <3>3, <3>4, OneOf DEF InSlice, ReadLabel, EndOfName
    <3>6. ByteGet(pos) = chain[m] % 256
      <4>1. ByteGet(OFFSET + p) = Layout(chain, size, p)
        BY <2>1, <3>1, GetIs
      <4>2. QED  BY <1>0, <3>1, <4>1, LastBytes
    <3>7. OFFSET + (length % 64) * 256 + ByteGet(pos) = OFFSET + chain[m]
      <4>1. (length % 64) * 256 + (chain[m] % 256) = chain[m]
        BY <1>3, <3>2, PointerBytes
      <4>2. length % 64 \in Nat /\ chain[m] % 256 \in Nat
        BY <3>2, <3>3
      <4>3. QED  BY <1>0, <3>6, <4>1, <4>2
    <3>8. Wrap(OFFSET + chain[m])
      BY <3>5, <3>7 DEF ReadPointer
    <3>9. ~ (OFFSET + chain[m] + OFFSET + buffer.limit > ARRAY)
      BY <1>0, <3>1, <3>2
    <3>10. /\ reading' = "domain" /\ pos' = OFFSET + chain[m]
           /\ buffer' = [end |-> OFFSET + chain[m] + OFFSET + buffer.limit,
                         limit |-> OFFSET + chain[m] + OFFSET + buffer.limit]
           /\ back' = pos + 1
           /\ UNCHANGED <<questions, records, length, sb, domains>>
      BY <3>1, <3>8, <3>9 DEF Wrap
    <3>11. back' = OFFSET + 32 + size /\ 32 + size <= Len(message)
      BY <1>0, <3>1, <3>10
    <3>12. /\ buffer'.limit \in Nat /\ buffer'.end = buffer'.limit
           /\ buffer'.limit >= OFFSET + chain[m] + Len(message)
           /\ buffer'.limit = 2 * OFFSET + chain[m] + Len(message)
      BY <1>0, <3>1, <3>2, <3>10
    <3>13. m - m = 0 /\ sb' = Labels(m - m) /\ Labels(m - m)' = Labels(m - m)
      BY <1>0, <1>1, <1>3, <3>10, NoLabels DEF Labels
    <3>14. InName(size, m, "domain", chain[m], m - m)'
      BY <1>1, <3>1, <3>10, <3>11, <3>12, <3>13 DEF InName
    <3>15. AtName(size, m)'
      BY <3>14 DEF AtName
    <3>16. m' = m /\ m \in 1..m
      BY <1>0, <1>1
    <3>17. QED  BY <1>1, <3>15, <3>16 DEF Progress
  <2>4. QED  BY <2>2, <2>3
<1>4. CASE InSlice("fields", 32 + size, 0, 1, Domains) /\ sb = <<>>
  <2>1. Resource_FromBytes
    BY <1>1, <1>4, OneOf DEF InSlice, Question_FromBytes
  <2>2. pos = OFFSET + (32 + size) /\ buffer.end = OFFSET + Len(message)
    BY <1>4 DEF InSlice, Slice
  <2>3. CASE cut = 0
    <3>1. 40 + size \in Nat /\ 40 + size < Len(message) /\ 41 + size \in Nat /\ 41 + size < Len(message)
      BY <1>0, <2>3
    <3>2. ByteGet(OFFSET + (40 + size)) = 0
      BY <1>0, <3>1, GetIs, LastBytes
    <3>3. ByteGet(OFFSET + (41 + size)) = 0
      BY <1>0, <3>1, GetIs, LastBytes
    <3>4. pos + 8 = OFFSET + (40 + size) /\ (pos + 8) + 1 = OFFSET + (41 + size)
      BY <1>0, <2>2
    <3>5. GetShort(pos + 8) = 0
      BY <3>2, <3>3, <3>4 DEF GetShort
    <3>6. ~ (pos + 10 > buffer.end) /\ ~ (pos + 10 + 0 > buffer.end) /\ pos + 10 + 0 = OFFSET + Len(message)
      BY <1>0, <2>2, <2>3
    <3>7. reading' = "read" /\ pos' = OFFSET + Len(message) /\ domains' = domains
      BY <1>4, <2>1, <3>5, <3>6 DEF Resource_FromBytes, Following, InSlice
    <3>8. domains' = Domains'
      BY <1>1, <1>4, <3>7 DEF InSlice, Domains, Labels
    <3>9. QED  BY <1>1, <2>3, <3>7, <3>8 DEF Progress, AllRead
  <2>4. CASE cut # 0
    <3>1. pos + 10 > buffer.end /\ cut > 0
      BY <1>0, <2>2, <2>4
    <3>2. reading' = "throws"
      BY <2>1, <3>1 DEF Resource_FromBytes, Throws
    <3>3. QED  BY <1>1, <3>1, <3>2 DEF Progress, Failed
  <2>5. QED  BY <2>3, <2>4
<1>5. QED  BY <1>2, <1>3, <1>4 DEF AtLast

-----------------------------------------------------------------------------
(* Messages: the chain of names.                                             *)

\* Each name of the chain gives its label and leads to the one before, or ends the
\* name, and reading goes on behind the first pointer (DNSPacket.kt:172).  Only from
\* the third pointer on can the wrapped buffer want more than the array has
\* (DNSPacket.kt:169).
LEMMA FromName ==
    ASSUME NEW size \in DataSize, Received(size), MessageNext,
           NEW k \in 1..Len(chain), AtName(size, k)
    PROVE  Progress(size)'
<1> DEFINE m == Len(chain)
           a == chain[k]
<1>0. /\ size \in Nat /\ cut \in Nat /\ OFFSET \in Nat /\ Len(message) \in Nat
      /\ Len(message) = 42 + size - cut /\ Len(message) <= MAX_SIZE /\ MAX_SIZE \in Nat
      /\ ARRAY \in Nat /\ 4 * OFFSET + 3 * MAX_SIZE <= ARRAY
      /\ m \in Nat /\ k \in Nat /\ 1 <= k /\ k <= m
  BY MessageSizes
<1>1. message' = message /\ chain' = chain /\ cut' = cut /\ ReadNext
  BY DEF MessageNext, input
<1>2. a \in Nat /\ 30 <= a /\ a + 4 <= 30 + size /\ a < MAX_SIZE
  BY NamesFit
<1>3. /\ Layout(chain, size, a) = 1 /\ Layout(chain, size, a + 1) = k
      /\ Layout(chain, size, a + 2) = IF k = 1 THEN 0 ELSE 192 + (chain[k - 1] \div 256)
      /\ k # 1 => Layout(chain, size, a + 3) = chain[k - 1] % 256
  BY NameBytes
<1>4. /\ questions = 0 /\ records = 1 /\ domains = <<Asked, <<>> >>
      /\ 32 + size <= Len(message) /\ back = OFFSET + 32 + size
      /\ buffer.limit \in Nat /\ buffer.end = buffer.limit
      /\ buffer.limit >= OFFSET + a + Len(message)
      /\ (k = m => buffer.limit = 2 * OFFSET + a + Len(message))
  BY DEF AtName, InName
<1> HIDE DEF a, m
<1>5. /\ OFFSET + a + 4 < buffer.end /\ a + 3 < Len(message) /\ back # 0
  <2> DEFINE n == Len(message)
             e == buffer.end
  <2>1. /\ size \in Nat /\ OFFSET \in Nat /\ n \in Nat /\ a \in Nat /\ e \in Nat
        /\ 30 <= a /\ a + 4 <= 30 + size /\ 32 + size <= n /\ e >= OFFSET + a + n
        /\ back = OFFSET + 32 + size
    BY <1>0, <1>2, <1>4
  <2> HIDE DEF n, e
  <2>2. OFFSET + a + 4 < e /\ a + 3 < n /\ back # 0
    BY <2>1
  <2>3. QED  BY <2>2 DEF n, e
<1>6. CASE InName(size, k, "domain", chain[k], Len(chain) - k)
  <2>1. pos = OFFSET + a /\ sb = Labels(m - k) /\ reading = "domain"
    BY <1>6 DEF InName, a, m
  <2>2. hasRemaining
    <3>1. buffer.end \in Nat
      BY <1>4
    <3>2. QED  BY <1>0, <1>2, <1>5, <2>1, <3>1 DEF hasRemaining
  <2>3. ReadDomain
    BY <1>1, <2>1, OneOf
  <2>4. /\ reading' = "labels" /\ length' = ByteGet(OFFSET + a) /\ pos' = OFFSET + a + 1
        /\ UNCHANGED <<questions, records, buffer, sb, back, domains>>
    BY <2>1, <2>2, <2>3 DEF ReadDomain
  <2>5. length' = 1
    <3>1. a < Len(message)
      BY <1>0, <1>2, <1>5
    <3>2. QED  BY <1>2, <1>3, <2>4, <3>1, GetIs
  <2>6. pos' = OFFSET + (a + 1) /\ Labels(m - k)' = Labels(m - k)
    <3>1. OFFSET + a + 1 = OFFSET + (a + 1)
      BY <1>0, <1>2
    <3>2. QED  BY <1>1, <2>4, <3>1 DEF Labels, m
  <2>7. InName(size, k, "labels", chain[k] + 1, Len(chain) - k)'
    BY <1>1, <1>4, <2>1, <2>4, <2>6 DEF InName, a, m
  <2>8. AtName(size, k)'
    BY <2>5, <2>7 DEF AtName
  <2>9. QED  BY <1>1, <2>8 DEF Progress
<1>7. CASE InName(size, k, "labels", chain[k] + 1, Len(chain) - k) /\ length = 1
  <2>1. pos = OFFSET + (a + 1) /\ sb = Labels(m - k) /\ reading = "labels"
    BY <1>7 DEF InName, a, m
  <2>2. hasRemaining /\ pos + 1 < buffer.end
    <3>1. buffer.end \in Nat
      BY <1>4
    <3>2. QED  BY <1>0, <1>2, <1>5, <2>1, <3>1 DEF hasRemaining
  <2>3. ReadLabel
    BY <1>1, <1>7, <2>1, <2>2, OneOf DEF ReadPointer, EndOfName
  <2>4. /\ sb' = Append(sb, [i \in 1..1 |-> ByteGet(pos + i - 1)])
        /\ length' = ByteGet(pos + 1) /\ pos' = pos + 1 + 1
        /\ UNCHANGED <<reading, questions, records, buffer, back, domains>>
    BY <1>7, <2>2, <2>3 DEF ReadLabel
  <2>5. /\ pos + 1 - 1 = OFFSET + (a + 1) /\ pos + 1 = OFFSET + (a + 2)
        /\ pos + 1 + 1 = OFFSET + (a + 3) /\ a + 1 \in Nat /\ a + 2 \in Nat
        /\ a + 1 < Len(message) /\ a + 2 < Len(message)
    BY <1>0, <1>2, <1>5, <2>1
  <2>6. ByteGet(OFFSET + (a + 1)) = k
    <3> DEFINE i == a + 1
    <3>1. i \in Nat /\ i < Len(message) /\ Layout(chain, size, i) = k
      BY <1>3, <2>5
    <3> HIDE DEF i
    <3>2. ByteGet(OFFSET + i) = k
      BY <3>1, GetIs
    <3>3. QED  BY <3>2 DEF i
  <2>7. ByteGet(OFFSET + (a + 2)) = IF k = 1 THEN 0 ELSE 192 + (chain[k - 1] \div 256)
    <3> DEFINE i == a + 2
    <3>1. /\ i \in Nat /\ i < Len(message)
          /\ Layout(chain, size, i) = IF k = 1 THEN 0 ELSE 192 + (chain[k - 1] \div 256)
      BY <1>3, <2>5
    <3> HIDE DEF i
    <3>2. ByteGet(OFFSET + i) = IF k = 1 THEN 0 ELSE 192 + (chain[k - 1] \div 256)
      BY <3>1, GetIs
    <3>3. QED  BY <3>2 DEF i
  <2>8. [i \in 1..1 |-> ByteGet(pos + i - 1)] = <<k>>
    BY <2>5, <2>6
  <2>9. sb' = Labels(m - k + 1)
    BY <1>0, <2>1, <2>4, <2>8, MoreLabels DEF m
  <2>10. Labels(m - k + 1)' = Labels(m - k + 1)
    BY <1>1 DEF Labels, m
  <2>11. pos' = OFFSET + (a + 3)
    BY <2>4, <2>5
  <2>12. InName(size, k, "labels", chain[k] + 3, Len(chain) - k + 1)'
    BY <1>1, <1>4, <2>1, <2>4, <2>9, <2>10, <2>11 DEF InName, a, m
  <2>13. length' = IF k = 1 THEN 0 ELSE 192 + (chain'[k - 1] \div 256)
    BY <1>1, <2>4, <2>5, <2>7
  <2>14. AtName(size, k)'
    BY <2>12, <2>13 DEF AtName
  <2>15. QED  BY <1>1, <2>14 DEF Progress
<1>8. CASE /\ InName(size, k, "labels", chain[k] + 3, Len(chain) - k + 1)
           /\ length = IF k = 1 THEN 0 ELSE 192 + (chain[k - 1] \div 256)
  <2>1. pos = OFFSET + (a + 3) /\ sb = Labels(m - k + 1) /\ reading = "labels"
    BY <1>8 DEF InName, a, m
  <2>2. CASE k = 1
    <3>1. length = 0 /\ m - k + 1 = m
      BY <1>0, <1>8, <2>2
    <3>2. EndOfName
      BY <1>1, <2>1, <3>1, OneOf DEF ReadLabel, ReadPointer
    <3>3. /\ reading' = "fields" /\ domains' = Append(domains, sb) /\ sb' = <<>>
          /\ pos' = back /\ back' = 0 /\ buffer' = Slice
          /\ UNCHANGED <<questions, records>>
      BY <1>5, <3>2 DEF EndOfName
    <3>4. domains' = Domains
      BY <1>4, <2>1, <3>1, <3>3, AppendThird DEF Domains, Asked, m
    <3>5. Domains' = Domains /\ Slice' = Slice
      BY <1>1 DEF Domains, Labels, Slice
    <3>6. pos' = OFFSET + (32 + size)
      BY <1>0, <1>4, <3>3
    <3>7. InSlice("fields", 32 + size, 0, 1, Domains)'
      BY <1>1, <1>4, <3>3, <3>4, <3>5, <3>6 DEF InSlice
    <3>8. QED  BY <3>3, <3>7 DEF Progress, AtLast
  <2>3. CASE k # 1
    <3> DEFINE j == k - 1
               c == chain[j]
    <3>1. j \in 1..m /\ j < m /\ m - j = m - k + 1
      BY <1>0, <2>3
    <3>2. c \in Nat /\ c < 512 /\ c < MAX_SIZE
      BY <3>1, NamesFit DEF m
    <3>3. length = 192 + (c \div 256)
      BY <1>8, <2>3
    <3>4. ByteGet(OFFSET + (a + 3)) = c % 256
      <4> DEFINE i == a + 3
      <4>1. i \in Nat /\ i < Len(message) /\ Layout(chain, size, i) = c % 256
        BY <1>2, <1>3, <1>5, <2>3
      <4> HIDE DEF i
      <4>2. ByteGet(OFFSET + i) = c % 256
        BY <4>1, GetIs
      <4>3. QED  BY <4>2 DEF i
    <3> HIDE DEF j, c
    <3>5. length \in Nat /\ length >= 192 /\ (length % 64) * 256 + (c % 256) = c
      BY <3>2, <3>3, PointerBytes
    <3>6. hasRemaining
      <4>1. buffer.end \in Nat
        BY <1>4
      <4>2. QED  BY <1>0, <1>2, <1>5, <2>1, <4>1 DEF hasRemaining
    <3>7. ReadPointer
      BY <1>1, <2>1, <3>5, <3>6, OneOf DEF ReadLabel, EndOfName
    <3>8. OFFSET + (length % 64) * 256 + ByteGet(pos) = OFFSET + c
      <4>1. length % 64 \in Nat /\ c % 256 \in Nat
        BY <3>2, <3>5
      <4>2. QED  BY <1>0, <2>1, <3>4, <3>5, <4>1
    <3>9. Wrap(OFFSET + c)
      BY <3>7, <3>8 DEF ReadPointer
    <3>10. CASE OFFSET + c + OFFSET + buffer.limit > ARRAY
      <4>1. reading' = "throws"
        BY <3>9, <3>10 DEF Wrap, Throws
      <4>2. m > 2
        <5>1. SUFFICES ASSUME m <= 2 PROVE FALSE
          BY <1>0
        <5>2. k = m
          BY <1>0, <2>3, <5>1
        <5>3. buffer.limit = 2 * OFFSET + a + Len(message)
          BY <1>4, <5>2
        <5>4. QED  BY <1>0, <1>2, <3>2, <3>10, <5>3
      <4>3. QED  BY <1>1, <4>1, <4>2 DEF Progress, Failed, m
    <3>11. CASE ~ (OFFSET + c + OFFSET + buffer.limit > ARRAY)
      <4>1. /\ reading' = "domain" /\ pos' = OFFSET + c
            /\ buffer' = [end |-> OFFSET + c + OFFSET + buffer.limit,
                          limit |-> OFFSET + c + OFFSET + buffer.limit]
            /\ back' = back
            /\ UNCHANGED <<questions, records, length, sb, domains>>
        BY <1>5, <3>9, <3>11 DEF Wrap
      <4>2. /\ buffer'.limit \in Nat /\ buffer'.end = buffer'.limit
            /\ buffer'.limit >= OFFSET + c + Len(message)
        <5> DEFINE l == buffer.limit
                   n == Len(message)
        <5>1. buffer'.limit = OFFSET + c + OFFSET + l /\ buffer'.end = OFFSET + c + OFFSET + l
          BY <4>1
        <5>2. /\ OFFSET \in Nat /\ c \in Nat /\ l \in Nat /\ a \in Nat /\ n \in Nat
              /\ l >= OFFSET + a + n
          BY <1>0, <1>2, <1>4, <3>2
        <5> HIDE DEF l, n
        <5>3. OFFSET + c + OFFSET + l \in Nat /\ OFFSET + c + OFFSET + l >= OFFSET + c + n
          BY <5>2
        <5>4. QED  BY <5>1, <5>3 DEF n
      <4>3. sb' = Labels(m - j)' /\ j # m
        BY <1>0, <1>1, <2>1, <3>1, <4>1 DEF Labels, j, m
      <4>4. InName(size, j, "domain", chain[j], Len(chain) - j)'
        BY <1>1, <1>4, <4>1, <4>2, <4>3 DEF InName, c, m
      <4>5. AtName(size, j)'
        BY <4>4 DEF AtName
      <4>6. QED  BY <1>1, <3>1, <4>5 DEF Progress, m
    <3>12. QED  BY <3>10, <3>11
  <2>4. QED  BY <2>2, <2>3
<1>9. QED  BY <1>6, <1>7, <1>8 DEF AtName

-----------------------------------------------------------------------------
\* A message that has been received satisfies the invariant.
LEMMA MessageInvInit == MessageInit => MessageInv
  BY DEF MessageInit, MessageInv, Progress, Unread

\* Every step of the reading preserves it.
LEMMA MessageInvNext == MessageInv /\ [MessageNext]_messageVars => MessageInv'
<1> SUFFICES ASSUME MessageInv, [MessageNext]_messageVars PROVE MessageInv'
  OBVIOUS
<1>1. PICK size \in DataSize : Received(size) /\ Progress(size)
  BY DEF MessageInv
<1>2. CASE MessageNext
  <2>1. Received(size)'
    BY <1>1, <1>2 DEF MessageNext, input, Received
  <2>2. ~ AllRead /\ ~ Failed
    BY <1>2, OneOf DEF MessageNext, AllRead, Failed
  <2>3. Progress(size)'
    BY <1>1, <1>2, <2>2, FromUnread, FromCut, FromQuestion, FromRoot, FromLast, FromName
       DEF Progress
  <2>4. QED  BY <2>1, <2>3 DEF MessageInv
<1>3. CASE UNCHANGED messageVars
  <2>1. /\ message' = message /\ chain' = chain /\ cut' = cut /\ reading' = reading
        /\ questions' = questions /\ records' = records /\ buffer' = buffer /\ pos' = pos
        /\ length' = length /\ sb' = sb /\ back' = back /\ domains' = domains
    BY <1>3 DEF messageVars, input
  <2>2. Received(size)'
    BY <1>1, <2>1 DEF Received
  <2>3. Progress(size)'
    BY <1>1, <2>1 DEF Progress, Unread, AllRead, Failed, AtCut, AtQuestion, AtRoot, AtLast,
       AtName, InSlice, InName, Slice, Domains, Labels
  <2>4. QED  BY <2>2, <2>3 DEF MessageInv
<1>4. QED  BY <1>2, <1>3

\* The inductive invariant of the reading of a message, for names anywhere in its
\* data and chains of any length (DNSPacket.kt:108-189).
THEOREM MessageInvariant == MessageSpec => []MessageInv
<1>1. QED  BY MessageInvInit, MessageInvNext, PTL DEF MessageSpec

\* The invariant implies that messages are read right.
LEMMA MessageInvImplies == MessageInv => MessagesAreReadRight
<1> SUFFICES ASSUME MessageInv PROVE MessagesAreReadRight
  OBVIOUS
<1>1. PICK size \in DataSize : Received(size) /\ Progress(size)
  BY DEF MessageInv
<1>2. cut \in Nat /\ Len(chain) \in Nat
  BY <1>1, MessageSizes
<1>3. reading \in {"read", "null", "throws"} => AllRead \/ Failed
  BY <1>1 DEF Progress, Unread, AtCut, AtQuestion, AtRoot, AtLast, AtName, InSlice, InName
<1>4. reading = "read" => AllRead
  BY <1>3 DEF Failed
<1>5. reading \in {"null", "throws"} => Failed
  BY <1>3 DEF AllRead
<1>6. ReadIsRight
  BY <1>4 DEF ReadIsRight, AllRead
<1>7. ShortChainsAreRead
  BY <1>2, <1>5 DEF ShortChainsAreRead, Failed
<1>8. CutIsRefused
  BY <1>2, <1>4 DEF CutIsRefused, AllRead
<1>9. QED  BY <1>6, <1>7, <1>8 DEF MessagesAreReadRight

\* Messages are read right: names across their pointers and where reading goes on
\* (DNSPacket.kt:172), whole messages with no more than two pointers
\* (DNSPacket.kt:169), and none that lacks its end (Resource.kt:41).
THEOREM MessagesRead == MessageSpec => []MessagesAreReadRight
<1>1. QED  BY MessageInvariant, MessageInvImplies, PTL
==============================================================================
