------------------------------- MODULE DnsProxy -------------------------------
(***************************************************************************)
(* The DNS proxy of the local side (DNSPacket.kt, UDPProxyServer.kt): the  *)
(* thread that reads the tun device gives every DNS query of an app an ID  *)
(* of its own, remembers who asked under that ID and sends the query to    *)
(* the server; the thread of the UDP socket looks the ID of a reply up,    *)
(* forgets it and writes the reply to the tun device.                      *)
(*                                                                         *)
(* The two threads share a java.util.HashMap and no lock.  A put is        *)
(* therefore a beginning and an end, and so is a remove; two that overlap  *)
(* leave the map in any of the states RacedMaps allows.                    *)
(*                                                                         *)
(* Queries are numbered in the order they are read.  The number stands for *)
(* what QueryState records: the ID the app chose, the two addresses and    *)
(* the two ports.                                                          *)
(***************************************************************************)
EXTENDS Integers, Sequences

CONSTANTS
    IdSpace,      \* the number of values of a Short: 2^16 in the code
    MaxQueries,   \* bound: queries read from the tun device
    MaxArrivals   \* bound: datagrams that reach the UDP socket

ASSUME DnsAssumption ==
    /\ IdSpace \in Nat \ {0}
    /\ MaxQueries \in Nat
    /\ MaxArrivals \in Nat

VARIABLES
    mQueryID,    \* the last ID given (the Short, counted from Short.MIN_VALUE)
    mQueryMap,   \* the query remembered under each ID; 0 is null
    vpn,         \* VpnThread; "dead" when it has left its loop by itself
    tun,         \* the tun device is open
    udp,         \* mUDPProxyServerThread
    stage,       \* how far SSVpnService.initialize and destroy have got
    net,         \* queries sent by the open socket; a server may answer each
    rx,          \* datagrams received by the socket, not yet by its thread
    arrivals,    \* how many datagrams have reached a socket
    asked,       \* history: the queries read so far
    idOf,        \* history: the ID given to each
    answers,     \* history: for each query, the queries whose replies it got
    raced        \* history: a put and a remove, or a put and a get, met

vars == <<mQueryID, mQueryMap, vpn, tun, udp, stage, net, rx, arrivals, asked, idOf,
          answers, raced>>

Id == 0..IdSpace - 1

Query == 1..MaxQueries

Null == 0

TypeOK ==
    /\ mQueryID \in Id
    /\ mQueryMap \in [Id -> Query \cup {Null}]
    /\ vpn \in [pc : {"off", "read", "put", "dead"}, clean : BOOLEAN]
    /\ tun \in BOOLEAN
    /\ udp \in [pc : {"ended", "receive", "parse", "got", "remove", "write"},
                id : Id, of : Query \cup {Null}, ok : BOOLEAN,
                state : Query \cup {Null}, clean : BOOLEAN]
    /\ stage \in {"idle", "up", "stopping", "closed"}
    /\ net \subseteq [id : Id, of : Query]
    /\ rx \in Seq([id : Id, of : Query, ok : BOOLEAN])
    /\ arrivals \in 0..MaxArrivals
    /\ asked \in 0..MaxQueries
    /\ idOf \in [Query -> Id]
    /\ answers \in [Query -> Seq(Query)]
    /\ raced \in BOOLEAN

Ended == [pc |-> "ended", id |-> 0, of |-> Null, ok |-> FALSE, state |-> Null,
          clean |-> TRUE]

Init ==
    /\ mQueryID = 0
    /\ mQueryMap = [k \in Id |-> Null]
    /\ vpn = [pc |-> "off", clean |-> TRUE]
    /\ tun = FALSE
    /\ udp = Ended
    /\ stage = "idle"
    /\ net = {}
    /\ rx = <<>>
    /\ arrivals = 0
    /\ asked = 0
    /\ idOf = [n \in Query |-> 0]
    /\ answers = [n \in Query |-> <<>>]
    /\ raced = FALSE

-----------------------------------------------------------------------------
(* The shared map *)

\* mQueryID++ on a Short.
NextId(k) == IF k = IdSpace - 1 THEN 0 ELSE k + 1

Put(f, k, n) == [f EXCEPT ![k] = n]

\* What overlapping operations leave of a map that should become f: an entry
\* may be the new one or the old one, or be lost with the bucket it was in.
RacedMaps(f) ==
    {g \in [Id -> Query \cup {Null}] :
        \A k \in Id : g[k] \in {f[k], mQueryMap[k], Null}}

-----------------------------------------------------------------------------
(* VpnThread: IPPacket.processUDPPacket and DNSPacket.processRequest *)

\* A query that FromBytes accepts; one that it refuses changes nothing.
BeginPut ==
    /\ vpn.pc = "read"
    /\ tun
    /\ asked < MaxQueries
    /\ asked' = asked + 1
    /\ mQueryID' = NextId(mQueryID)
    /\ idOf' = [idOf EXCEPT ![asked + 1] = mQueryID']
    /\ vpn' = [pc |-> "put", clean |-> udp.pc # "remove"]
    /\ udp' = [udp EXCEPT !.clean = (udp.pc # "remove")]
    /\ UNCHANGED <<mQueryMap, tun, stage, net, rx, arrivals, answers, raced>>

\* Mutant: the query is remembered under the ID of the query before it.
EndPut_OldId ==
    LET k == IF mQueryID = 0 THEN IdSpace - 1 ELSE mQueryID - 1
    IN  /\ vpn.pc = "put"
        /\ mQueryMap' = Put(mQueryMap, k, asked)
        /\ net' = net \cup {[id |-> mQueryID, of |-> asked]}
        /\ vpn' = [vpn EXCEPT !.pc = "read"]
        /\ UNCHANGED <<mQueryID, tun, udp, stage, rx, arrivals, asked, idOf, answers, raced>>

\* The put ends and mUDPProxyServer.send sends the query, or throws an
\* IOException, which ends the thread: the entry stays.
EndPut ==
    LET done == Put(mQueryMap, mQueryID, asked)
    IN  /\ vpn.pc = "put"
        /\ mQueryMap' \in IF vpn.clean THEN {done} ELSE RacedMaps(done)
        /\ raced' = (raced \/ ~vpn.clean)
        /\ \/ /\ net' = net \cup {[id |-> mQueryID, of |-> asked]}
              /\ vpn' = [vpn EXCEPT !.pc = "read"]
              /\ UNCHANGED tun
           \/ /\ vpn' = [vpn EXCEPT !.pc = "dead"]
              /\ tun' = FALSE
              /\ UNCHANGED net
        /\ UNCHANGED <<mQueryID, udp, stage, rx, arrivals, asked, idOf, answers>>

\* The process ends by an exception that nothing catches.  The next start finds
\* fresh statics and another socket.
ProcessDies ==
    /\ stage' = "idle"
    /\ vpn' = [pc |-> "off", clean |-> TRUE]
    /\ udp' = Ended
    /\ mQueryID' = 0
    /\ mQueryMap' = [k \in Id |-> Null]
    /\ net' = {}
    /\ rx' = <<>>
    /\ tun' = FALSE
    /\ UNCHANGED <<arrivals, asked, idOf, answers, raced>>

\* The user revokes the permission: Android calls cleanup on another thread.
onRevoke ==
    /\ tun
    /\ tun' = FALSE
    /\ UNCHANGED <<mQueryID, mQueryMap, vpn, udp, stage, net, rx, arrivals, asked,
                   idOf, answers, raced>>

\* The read fails, and the thread leaves its loop and cleans up ...
ReadFails ==
    /\ vpn.pc = "read"
    /\ vpn' = [vpn EXCEPT !.pc = "dead"]
    /\ tun' = FALSE
    /\ UNCHANGED <<mQueryID, mQueryMap, udp, stage, net, rx, arrivals, asked, idOf,
                   answers, raced>>

\* ... or it dies of what is no IOException: FromBytes runs off the end of a
\* query, or the stream is null after cleanup.
VpnThreadThrows == vpn.pc = "read" /\ ProcessDies

-----------------------------------------------------------------------------
(* The network.  A reply may be lost, repeated or overtaken by another, and  *)
(* may be one that DNSPacket.FromBytes refuses or fails to parse.            *)

Arrive(d, ok) ==
    /\ arrivals < MaxArrivals
    /\ arrivals' = arrivals + 1
    /\ rx' = Append(rx, [id |-> d.id, of |-> d.of, ok |-> ok])
    /\ UNCHANGED <<mQueryID, mQueryMap, tun, vpn, udp, stage, net, asked, idOf,
                   answers, raced>>

-----------------------------------------------------------------------------
(* mUDPProxyServerThread *)

\* mUDPProxySocket.receive returns.
Receive ==
    /\ udp.pc = "receive"
    /\ rx # <<>>
    /\ udp' = [Ended EXCEPT !.pc = "parse", !.id = Head(rx).id, !.of = Head(rx).of,
                            !.ok = Head(rx).ok]
    /\ rx' = Tail(rx)
    /\ UNCHANGED <<mQueryID, mQueryMap, tun, vpn, stage, net, arrivals, asked, idOf,
                   answers, raced>>

\* The test of the loop: after destroy the thread ends, and its join returns.
NextRound ==
    IF stage = "closed"
    THEN udp' = Ended /\ stage' = "idle"
    ELSE udp' = [Ended EXCEPT !.pc = "receive"] /\ UNCHANGED stage

\* FromBytes returns null or throws, and the loop goes on.
Refuse ==
    /\ udp.pc = "parse"
    /\ ~udp.ok
    /\ NextRound
    /\ UNCHANGED <<mQueryID, mQueryMap, tun, vpn, net, rx, arrivals, asked, idOf,
                   answers, raced>>

\* What mQueryMap[Header.mID] may return: during a put the entry may be out of
\* sight, and the entry being put already in sight.
Found ==
    {mQueryMap[udp.id]} \cup
    (IF vpn.pc # "put" THEN {} ELSE {Null} \cup (IF udp.id = mQueryID THEN {asked} ELSE {}))

\* Mutant: the entry is read when it has been removed.
Get_Late ==
    /\ udp.pc = "parse"
    /\ udp.ok
    /\ udp' = [udp EXCEPT !.pc = "got", !.state = Null]
    /\ UNCHANGED <<mQueryID, mQueryMap, tun, vpn, stage, net, rx, arrivals, asked, idOf,
                   answers, raced>>

\* processResponse reads the entry ...
Get ==
    /\ udp.pc = "parse"
    /\ udp.ok
    /\ \E n \in Found :
        /\ udp' = [udp EXCEPT !.pc = "got", !.state = n]
        /\ raced' = (raced \/ n # mQueryMap[udp.id])
    /\ UNCHANGED <<mQueryID, mQueryMap, tun, vpn, stage, net, rx, arrivals, asked, idOf,
                   answers>>

\* ... and removes whatever the ID stands for by then.
BeginRemove ==
    /\ udp.pc = "got"
    /\ udp' = [udp EXCEPT !.pc = "remove", !.clean = (vpn.pc # "put")]
    /\ vpn' = [vpn EXCEPT !.clean = (vpn.pc # "put")]
    /\ UNCHANGED <<mQueryID, mQueryMap, tun, stage, net, rx, arrivals, asked, idOf,
                   answers, raced>>

\* Mutant: the entry stays.
EndRemove_Keep ==
    /\ udp.pc = "remove"
    /\ udp' = [udp EXCEPT !.pc = "write"]
    /\ UNCHANGED <<mQueryID, mQueryMap, tun, vpn, stage, net, rx, arrivals, asked,
                   idOf, answers, raced>>

EndRemove ==
    LET done == Put(mQueryMap, udp.id, Null)
    IN  /\ udp.pc = "remove"
        /\ mQueryMap' \in IF udp.clean THEN {done} ELSE RacedMaps(done)
        /\ raced' = (raced \/ ~udp.clean)
        /\ udp' = [udp EXCEPT !.pc = "write"]
        /\ UNCHANGED <<mQueryID, tun, vpn, stage, net, rx, arrivals, asked, idOf, answers>>

\* The reply gets the IDs, addresses and ports of the entry found and goes to
\* the tun device, unless that is closed already.
Write ==
    /\ udp.pc = "write"
    /\ answers' = IF udp.state = Null \/ ~tun THEN answers
                  ELSE [answers EXCEPT ![udp.state] = Append(@, udp.of)]
    /\ NextRound
    /\ UNCHANGED <<mQueryID, mQueryMap, tun, vpn, net, rx, arrivals, asked, idOf, raced>>

-----------------------------------------------------------------------------
(* SSVpnService.initialize and destroy, as far as they concern the proxy *)

Initialize ==
    /\ stage = "idle"
    /\ stage' = "up"
    /\ udp' = [Ended EXCEPT !.pc = "receive"]
    /\ UNCHANGED <<mQueryID, mQueryMap, tun, vpn, net, rx, arrivals, asked, idOf,
                   answers, raced>>

StartVpnThread ==
    /\ stage = "up"
    /\ vpn.pc = "off"
    /\ vpn' = [pc |-> "read", clean |-> TRUE]
    /\ tun' = TRUE
    /\ UNCHANGED <<mQueryID, mQueryMap, udp, stage, net, rx, arrivals, asked,
                   idOf, answers, raced>>

\* The thread, if there is one, leaves its loop and is joined.
StopVpnThread ==
    /\ stage = "up"
    /\ vpn.pc # "put"
    /\ stage' = "stopping"
    /\ vpn' = [pc |-> "off", clean |-> TRUE]
    /\ tun' = FALSE
    /\ UNCHANGED <<mQueryID, mQueryMap, udp, net, rx, arrivals, asked, idOf,
                   answers, raced>>

\* UDPProxyServer.destroy closes the socket.  A thread at work finishes its
\* round; one that waits in receive gets a SocketException, which nothing
\* catches.
CloseSocket ==
    /\ stage = "stopping"
    /\ \/ udp.pc = "receive" /\ ProcessDies
       \/ /\ udp.pc # "receive"
          /\ stage' = "closed"
          /\ net' = {}
          /\ rx' = <<>>
          /\ UNCHANGED <<mQueryID, mQueryMap, tun, vpn, udp, arrivals, asked, idOf, answers,
                         raced>>

UdpThread == Receive \/ Refuse \/ Get \/ BeginRemove \/ EndRemove \/ Write

Next ==
    \/ BeginPut \/ EndPut \/ onRevoke \/ ReadFails \/ VpnThreadThrows
    \/ \E d \in net, ok \in BOOLEAN : Arrive(d, ok)
    \/ Receive \/ Refuse \/ Get \/ BeginRemove \/ EndRemove \/ Write
    \/ Initialize \/ StartVpnThread \/ StopVpnThread \/ CloseSocket

\* A runnable thread runs.  Nothing makes the network deliver, an app ask or
\* the user stop the VPN.
Spec == Init /\ [][Next]_vars /\ WF_vars(EndPut) /\ WF_vars(UdpThread)

-----------------------------------------------------------------------------
(* Properties *)

\* A reply is given to a query other than its own only when the two had the
\* same ID; and, unless operations on the map met, only when the ID had come
\* round to a younger query, IdSpace or more queries later (DNSPacket.kt:69-87).
\* The ID stays a Short, and all else has its type.
NoCrossTalk ==
    TypeOK /\ \A n \in Query : \A i \in 1..Len(answers[n]) :
        LET own == answers[n][i]
        IN  /\ idOf[own] = idOf[n]
            /\ raced \/ own = n \/ n - own >= IdSpace

\* A server's repeated reply reaches the app once: the first one removed the
\* entry, unless operations on the map met (DNSPacket.kt:83-84).
AnsweredAtMostOnce ==
    \A n \in Query : raced \/ Len(answers[n]) <= 1

Queued(n) == \E i \in 1..Len(rx) : rx[i].ok /\ rx[i].of = n

\* A good reply that has reached the socket of a query still remembered gets
\* to the app, unless the map is raced on, the VPN is stopped, or the ID is
\* that of another query as well, whose put or remove then takes the entry
\* (DNSPacket.kt:82-100, UDPProxyServer.kt:32-46).
QueuedReplyIsDelivered ==
    \A n \in Query :
        (Queued(n) /\ mQueryMap[idOf[n]] = n) ~>
            \/ answers[n] # <<>>
            \/ raced
            \/ ~tun
            \/ \E m \in 1..asked : m # n /\ idOf[m] = idOf[n]
===============================================================================
