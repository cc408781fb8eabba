-------------------------- MODULE VpnLifecycleProofs --------------------------
(***************************************************************************)
(* Proofs about VpnLifecycle: for any number of clicks and of activities,  *)
(* there is one VpnThread at most, the proxies are up while it takes       *)
(* packets, and every socket that leaves the device is protected; and      *)
(* about SsServerLifecycle: which stops the server's thread ends after.    *)
(***************************************************************************)
EXTENDS VpnLifecycle, TLAPS

CONSTANTS MaxStarts, MaxStops

VARIABLES
    caller, server, g_env, pipe, protecting, pending, sprocess, sstarts, sstops, early

\* ss-server, on another device.
S == INSTANCE SsServerLifecycle WITH
    process <- sprocess, starts <- sstarts, stops <- sstops

IsFlag(b) == b = TRUE \/ b = FALSE

\* The flags are flags ...
Flags ==
    /\ IsFlag(mVpnRunning) /\ IsFlag(prepared) /\ IsFlag(dialog)
    /\ IsFlag(listener) /\ IsFlag(stopping) /\ IsFlag(stream)
    /\ IsFlag(mVpnThreadRunning) /\ IsFlag(tcpRunning) /\ IsFlag(udpOpen)
    /\ IsFlag(udpRunning) /\ IsFlag(protected) /\ IsFlag(listed)
    /\ IsFlag(mapped) /\ IsFlag(leak) /\ IsFlag(late)

\* ... and the other variables have the types TypeOK gives them.
Types ==
    /\ ui \in {"idle", "protect", "joinVpn", "joinTcp", "joinUdp"}
    /\ clicks \in 0..MaxClicks /\ activities \in 0..MaxActivities /\ starts \in Nat
    /\ service \in {"none", "alive", "destroyed"}
    /\ vpn \in {"none", "prepare", "setup", "read", "ended"}
    /\ tcp \in {"none", "select", "ended"}
    /\ udp \in {"none", "receive", "work", "ended"}
    /\ process \in {"up", "bind", "establish", "read", "receive"}

Joining == ui \in {"joinVpn", "joinTcp", "joinUdp"}

\* A VpnThread runs, or a start that may make one has been asked for.
Expected == starts > 0 \/ dialog \/ Alive(vpn)

\* Every click makes one start at most.
StartsAreFew ==
    /\ starts <= clicks + 1
    /\ dialog => starts <= clicks

\* A thread whose flag is down is being joined, so no start can make a second one;
\* after the join there is none.
ThreadHasItsFlag ==
    /\ Alive(vpn) /\ ui # "joinVpn" => mVpnThreadRunning
    /\ Joining /\ ui # "joinVpn" => ~Alive(vpn)
    /\ others = 0

\* A stop that is not late finds no start under way, so nothing is started while it
\* takes the proxies down one after the other ...
StopFindsNoStart == Joining /\ ~late => starts = 0 /\ ~dialog

\* ... and the proxies are up whenever a thread runs or may come.
ProxiesServe == ~late /\ listener /\ Expected => tcp = "select" /\ tcpRunning /\ udpOpen

\* A thread is only made by a service that a listener waits for.
ServiceIsKnown ==
    /\ vpn # "none" => listener
    /\ vpn # "none" \/ mapped => service # "none"

\* The UDP socket is protected, or waits for it until a start command has come.
SocketIsKnown ==
    /\ listener => protected \/ listed
    /\ Alive(vpn) /\ ui # "protect" => protected
    /\ ~leak

Phases ==
    /\ Types
    /\ StartsAreFew
    /\ ThreadHasItsFlag
    /\ StopFindsNoStart
    /\ ProxiesServe
    /\ ServiceIsKnown
    /\ SocketIsKnown

Inv == Flags /\ Phases

-----------------------------------------------------------------------------
LEMMA Bounds == MaxClicks \in Nat /\ MaxActivities \in Nat
  BY LifecycleAssumption

LEMMA InvInit == Init => Inv
  <1>1. Init => Flags
    BY DEF Init, Flags, IsFlag
  <1>2. Init => Phases
    BY Bounds DEF Init, Phases, Types, StartsAreFew, ThreadHasItsFlag, StopFindsNoStart,
       ProxiesServe, ServiceIsKnown, SocketIsKnown, Joining, Expected, Alive
  <1> QED BY <1>1, <1>2 DEF Inv

-----------------------------------------------------------------------------
\* Whatever happens, flags stay flags.
LEMMA FlagsNext == Flags /\ [Next]_vars => Flags'
  <1> SUFFICES ASSUME Flags, [Next]_vars PROVE Flags'
    OBVIOUS
  <1> USE DEF Flags, IsFlag, control, android, thread, proxies, protection, Dies
  <1>1. CASE onActivityResult
    BY <1>1 DEF onActivityResult
  <1>2. CASE onStartCommand
    BY <1>2 DEF onStartCommand, onVpnServiceStart
  <1>3. CASE ProtectSockets
    BY <1>3 DEF ProtectSockets
  <1>4. CASE JoinedVpn \/ JoinedTcp \/ JoinedUdp
    BY <1>4 DEF JoinedVpn, JoinedTcp, JoinedUdp
  <1>5. CASE destroy
    BY <1>5 DEF destroy
  <1>6. CASE initialize
    BY <1>6 DEF initialize, UdpInitialize, TcpInitialize
  <1>7. CASE NewActivity \/ onDestroy
    BY <1>7 DEF NewActivity, onDestroy
  <1>8. CASE waitVpnServicePrepared \/ setup
    BY <1>8 DEF waitVpnServicePrepared, setup
  <1>9. CASE read \/ readFails
    BY <1>9 DEF read, AfterRead, readFails
  <1>10. CASE Select \/ UdpReceive \/ UdpWork
    BY <1>10 DEF Select, connect, UdpReceive, UdpWork
  <1>11. CASE onRevoke
    BY <1>11 DEF onRevoke
  <1>12. CASE UNCHANGED vars
    BY <1>12 DEF vars
  <1> QED BY <1>1, <1>2, <1>3, <1>4, <1>5, <1>6, <1>7, <1>8, <1>9, <1>10, <1>11, <1>12
          DEF Next, Ui, VpnThread, onClick

(* One lemma per action, or per few that are alike *)

\* An exception that ends the process changes nothing else.
LEMMA DiesInv ==
  ASSUME NEW e \in {"bind", "establish", "read", "receive"}
  PROVE  Inv /\ Dies(e) => Phases'
  BY Bounds DEF Dies, Inv, Phases, Types, StartsAreFew, ThreadHasItsFlag, StopFindsNoStart,
     ProxiesServe, ServiceIsKnown, SocketIsKnown, Joining, Expected, Alive, control, android,
     thread, proxies, protection

LEMMA StartInv == Inv /\ (onActivityResult \/ onStartCommand) => Phases'
  <1>1. Inv /\ onActivityResult => Phases'
    BY Bounds, DiesInv DEF onActivityResult, Inv, Phases, Types, StartsAreFew,
       ThreadHasItsFlag, StopFindsNoStart, ProxiesServe, ServiceIsKnown, SocketIsKnown,
       Joining, Expected, Alive, control, android, thread, proxies, protection
  <1>2. Inv /\ onStartCommand => Phases'
    BY Bounds, DiesInv DEF onStartCommand, onVpnServiceStart, Inv, Phases, Types, StartsAreFew,
       ThreadHasItsFlag, StopFindsNoStart, ProxiesServe, ServiceIsKnown, SocketIsKnown,
       Joining, Expected, Alive, control, android, thread, proxies, protection
  <1> QED BY <1>1, <1>2

LEMMA JoinedInv == Inv /\ (JoinedVpn \/ JoinedTcp \/ JoinedUdp) => Phases'
  <1>1. Inv /\ JoinedVpn => Phases'
    BY Bounds, DiesInv DEF JoinedVpn, Inv, Phases, Types, StartsAreFew, ThreadHasItsFlag,
       StopFindsNoStart, ProxiesServe, ServiceIsKnown, SocketIsKnown, Joining, Expected, Alive,
       control, android, thread, proxies, protection
  <1>2. Inv /\ JoinedTcp => Phases'
    BY Bounds, DiesInv DEF JoinedTcp, Inv, Phases, Types, StartsAreFew, ThreadHasItsFlag,
       StopFindsNoStart, ProxiesServe, ServiceIsKnown, SocketIsKnown, Joining, Expected, Alive,
       control, android, thread, proxies, protection
  <1>3. Inv /\ JoinedUdp => Phases'
    BY Bounds, DiesInv DEF JoinedUdp, Inv, Phases, Types, StartsAreFew, ThreadHasItsFlag,
       StopFindsNoStart, ProxiesServe, ServiceIsKnown, SocketIsKnown, Joining, Expected, Alive,
       control, android, thread, proxies, protection
  <1> QED BY <1>1, <1>2, <1>3

LEMMA AndroidInv == Inv /\ (NewActivity \/ onRevoke \/ onDestroy) => Phases'
  <1>1. Inv /\ NewActivity => Phases'
    BY Bounds, DiesInv DEF NewActivity, Inv, Phases, Types, StartsAreFew, ThreadHasItsFlag,
       StopFindsNoStart, ProxiesServe, ServiceIsKnown, SocketIsKnown, Joining, Expected, Alive,
       control, android, thread, proxies, protection
  <1>2. Inv /\ onRevoke => Phases'
    BY Bounds, DiesInv DEF onRevoke, Inv, Phases, Types, StartsAreFew, ThreadHasItsFlag,
       StopFindsNoStart, ProxiesServe, ServiceIsKnown, SocketIsKnown, Joining, Expected, Alive,
       control, android, thread, proxies, protection
  <1>3. Inv /\ onDestroy => Phases'
    BY Bounds, DiesInv DEF onDestroy, Inv, Phases, Types, StartsAreFew, ThreadHasItsFlag,
       StopFindsNoStart, ProxiesServe, ServiceIsKnown, SocketIsKnown, Joining, Expected, Alive,
       control, android, thread, proxies, protection
  <1> QED BY <1>1, <1>2, <1>3

LEMMA ThreadInv == Inv /\ (waitVpnServicePrepared \/ readFails) => Phases'
  <1>1. Inv /\ waitVpnServicePrepared => Phases'
    BY Bounds, DiesInv DEF waitVpnServicePrepared, Inv, Phases, Types, StartsAreFew,
       ThreadHasItsFlag, StopFindsNoStart, ProxiesServe, ServiceIsKnown, SocketIsKnown,
       Joining, Expected, Alive, control, android, thread, proxies, protection
  <1>2. Inv /\ readFails => Phases'
    BY Bounds, DiesInv DEF readFails, Inv, Phases, Types, StartsAreFew, ThreadHasItsFlag,
       StopFindsNoStart, ProxiesServe, ServiceIsKnown, SocketIsKnown, Joining, Expected, Alive,
       control, android, thread, proxies, protection
  <1> QED BY <1>1, <1>2

LEMMA UdpInv == Inv /\ (UdpReceive \/ UdpWork) => Phases'
  <1>1. Inv /\ UdpReceive => Phases'
    BY Bounds, DiesInv DEF UdpReceive, Inv, Phases, Types, StartsAreFew, ThreadHasItsFlag,
       StopFindsNoStart, ProxiesServe, ServiceIsKnown, SocketIsKnown, Joining, Expected, Alive,
       control, android, thread, proxies, protection
  <1>2. Inv /\ UdpWork => Phases'
    BY Bounds, DiesInv DEF UdpWork, Inv, Phases, Types, StartsAreFew, ThreadHasItsFlag,
       StopFindsNoStart, ProxiesServe, ServiceIsKnown, SocketIsKnown, Joining, Expected, Alive,
       control, android, thread, proxies, protection
  <1> QED BY <1>1, <1>2

LEMMA ProtectSocketsInv == Inv /\ ProtectSockets => Phases'
  <1> SUFFICES ASSUME Inv, ProtectSockets PROVE Phases'
    OBVIOUS
  <1> USE DEF Inv, Phases, control, android, thread, proxies, protection, ProtectSockets
  <1>1. Types'
    BY Bounds DEF Types
  <1>2. StartsAreFew'
    BY Bounds DEF Types, StartsAreFew
  <1>3. ThreadHasItsFlag'
    BY Bounds DEF Types, StartsAreFew, ThreadHasItsFlag, StopFindsNoStart, ProxiesServe,
       ServiceIsKnown, SocketIsKnown, Joining, Expected, Alive
  <1>4. StopFindsNoStart'
    BY Bounds DEF Types, StartsAreFew, ThreadHasItsFlag, StopFindsNoStart, ProxiesServe,
       ServiceIsKnown, SocketIsKnown, Joining, Expected, Alive
  <1>5. ProxiesServe'
    BY Bounds DEF Types, StartsAreFew, ThreadHasItsFlag, StopFindsNoStart, ProxiesServe,
       ServiceIsKnown, SocketIsKnown, Joining, Expected, Alive
  <1>6. ServiceIsKnown'
    BY Bounds DEF Types, StartsAreFew, ThreadHasItsFlag, StopFindsNoStart, ProxiesServe,
       ServiceIsKnown, SocketIsKnown, Joining, Expected, Alive
  <1>7. SocketIsKnown'
    BY Bounds DEF Types, StartsAreFew, ThreadHasItsFlag, StopFindsNoStart, ProxiesServe,
       ServiceIsKnown, SocketIsKnown, Joining, Expected, Alive
  <1> QED BY <1>1, <1>2, <1>3, <1>4, <1>5, <1>6, <1>7

LEMMA SelectInv == Inv /\ Select => Phases'
  <1> SUFFICES ASSUME Inv, Select PROVE Phases'
    OBVIOUS
  <1> USE DEF Inv, Phases, control, android, thread, proxies, protection, Select, connect
  <1>1. Types'
    BY Bounds DEF Types
  <1>2. StartsAreFew'
    BY Bounds DEF Types, StartsAreFew
  <1>3. ThreadHasItsFlag'
    BY Bounds DEF Types, StartsAreFew, ThreadHasItsFlag, StopFindsNoStart, ProxiesServe,
       ServiceIsKnown, SocketIsKnown, Joining, Expected, Alive
  <1>4. StopFindsNoStart'
    BY Bounds DEF Types, StartsAreFew, ThreadHasItsFlag, StopFindsNoStart, ProxiesServe,
       ServiceIsKnown, SocketIsKnown, Joining, Expected, Alive
  <1>5. ProxiesServe'
    BY Bounds DEF Types, StartsAreFew, ThreadHasItsFlag, StopFindsNoStart, ProxiesServe,
       ServiceIsKnown, SocketIsKnown, Joining, Expected, Alive
  <1>6. ServiceIsKnown'
    BY Bounds DEF Types, StartsAreFew, ThreadHasItsFlag, StopFindsNoStart, ProxiesServe,
       ServiceIsKnown, SocketIsKnown, Joining, Expected, Alive
  <1>7. SocketIsKnown'
    BY Bounds DEF Types, StartsAreFew, ThreadHasItsFlag, StopFindsNoStart, ProxiesServe,
       ServiceIsKnown, SocketIsKnown, Joining, Expected, Alive
  <1> QED BY <1>1, <1>2, <1>3, <1>4, <1>5, <1>6, <1>7

LEMMA SetupInv == Inv /\ setup /\ prepared => Phases'
  <1> SUFFICES ASSUME Inv, setup /\ prepared PROVE Phases'
    OBVIOUS
  <1> USE DEF Inv, Phases, control, android, thread, proxies, protection, setup
  <1>1. Types'
    BY Bounds DEF Types
  <1>2. StartsAreFew'
    BY Bounds DEF Types, StartsAreFew
  <1>3. ThreadHasItsFlag'
    BY Bounds DEF Types, StartsAreFew, ThreadHasItsFlag, StopFindsNoStart, ProxiesServe,
       ServiceIsKnown, SocketIsKnown, Joining, Expected, Alive
  <1>4. StopFindsNoStart'
    BY Bounds DEF Types, StartsAreFew, ThreadHasItsFlag, StopFindsNoStart, ProxiesServe,
       ServiceIsKnown, SocketIsKnown, Joining, Expected, Alive
  <1>5. ProxiesServe'
    BY Bounds DEF Types, StartsAreFew, ThreadHasItsFlag, StopFindsNoStart, ProxiesServe,
       ServiceIsKnown, SocketIsKnown, Joining, Expected, Alive
  <1>6. ServiceIsKnown'
    BY Bounds DEF Types, StartsAreFew, ThreadHasItsFlag, StopFindsNoStart, ProxiesServe,
       ServiceIsKnown, SocketIsKnown, Joining, Expected, Alive
  <1>7. SocketIsKnown'
    BY Bounds DEF Types, StartsAreFew, ThreadHasItsFlag, StopFindsNoStart, ProxiesServe,
       ServiceIsKnown, SocketIsKnown, Joining, Expected, Alive
  <1> QED BY <1>1, <1>2, <1>3, <1>4, <1>5, <1>6, <1>7

LEMMA ReadInv == Inv /\ read /\ stream => Phases'
  <1> SUFFICES ASSUME Inv, read /\ stream PROVE Phases'
    OBVIOUS
  <1> USE DEF Inv, Phases, control, android, thread, proxies, protection, read, AfterRead
  <1>1. Types'
    BY Bounds DEF Types
  <1>2. StartsAreFew'
    BY Bounds DEF Types, StartsAreFew
  <1>3. ThreadHasItsFlag'
    BY Bounds DEF Types, StartsAreFew, ThreadHasItsFlag, StopFindsNoStart, ProxiesServe,
       ServiceIsKnown, SocketIsKnown, Joining, Expected, Alive
  <1>4. StopFindsNoStart'
    BY Bounds DEF Types, StartsAreFew, ThreadHasItsFlag, StopFindsNoStart, ProxiesServe,
       ServiceIsKnown, SocketIsKnown, Joining, Expected, Alive
  <1>5. ProxiesServe'
    BY Bounds DEF Types, StartsAreFew, ThreadHasItsFlag, StopFindsNoStart, ProxiesServe,
       ServiceIsKnown, SocketIsKnown, Joining, Expected, Alive
  <1>6. ServiceIsKnown'
    BY Bounds DEF Types, StartsAreFew, ThreadHasItsFlag, StopFindsNoStart, ProxiesServe,
       ServiceIsKnown, SocketIsKnown, Joining, Expected, Alive
  <1>7. SocketIsKnown'
    BY Bounds DEF Types, StartsAreFew, ThreadHasItsFlag, StopFindsNoStart, ProxiesServe,
       ServiceIsKnown, SocketIsKnown, Joining, Expected, Alive
  <1> QED BY <1>1, <1>2, <1>3, <1>4, <1>5, <1>6, <1>7

LEMMA InitializeInv == Inv /\ ui = "idle" /\ clicks < MaxClicks /\ initialize /\ ~Alive(tcp) => Phases'
  <1> SUFFICES ASSUME Inv, ui = "idle" /\ clicks < MaxClicks /\ initialize /\ ~Alive(tcp) PROVE Phases'
    OBVIOUS
  <1> USE DEF Inv, Phases, control, android, thread, proxies, protection, initialize, UdpInitialize, TcpInitialize
  <1>1. Types'
    BY Bounds DEF Types
  <1>2. StartsAreFew'
    <2>1. CASE prepared
      <3>1. ~dialog'
        BY <2>1, Zenon
      <3>2. starts' <= clicks' + 1
        BY <2>1, Bounds DEF Types, StartsAreFew
      <3> QED BY <3>1, <3>2 DEF StartsAreFew
    <2>2. CASE ~prepared
      BY <2>2, Bounds DEF Types, StartsAreFew
    <2> QED BY <2>1, <2>2
  <1>3. ThreadHasItsFlag'
    BY Bounds DEF Types, StartsAreFew, ThreadHasItsFlag, StopFindsNoStart, ProxiesServe,
       ServiceIsKnown, SocketIsKnown, Joining, Expected, Alive
  <1>4. StopFindsNoStart'
    BY Bounds DEF Types, StartsAreFew, ThreadHasItsFlag, StopFindsNoStart, ProxiesServe,
       ServiceIsKnown, SocketIsKnown, Joining, Expected, Alive
  <1>5. ProxiesServe'
    BY Bounds DEF Types, StartsAreFew, ThreadHasItsFlag, StopFindsNoStart, ProxiesServe,
       ServiceIsKnown, SocketIsKnown, Joining, Expected, Alive
  <1>6. ServiceIsKnown'
    BY Bounds DEF Types, StartsAreFew, ThreadHasItsFlag, StopFindsNoStart, ProxiesServe,
       ServiceIsKnown, SocketIsKnown, Joining, Expected, Alive
  <1>7. SocketIsKnown'
    BY Bounds DEF Types, StartsAreFew, ThreadHasItsFlag, StopFindsNoStart, ProxiesServe,
       ServiceIsKnown, SocketIsKnown, Joining, Expected, Alive
  <1> QED BY <1>1, <1>2, <1>3, <1>4, <1>5, <1>6, <1>7

LEMMA DestroyInv == Inv /\ ui = "idle" /\ clicks < MaxClicks /\ destroy => Phases'
  <1> SUFFICES ASSUME Inv, ui = "idle" /\ clicks < MaxClicks /\ destroy PROVE Phases'
    OBVIOUS
  <1>a. starts \in Nat /\ (late' \/ (~late /\ ~dialog /\ ~(starts > 0)))
    <2>1. late' \/ (~late /\ ~dialog /\ ~(starts > 0))
      BY Zenon DEF destroy
    <2> QED BY <2>1 DEF Inv, Phases, Types
  <1> USE DEF Inv, Phases, control, android, thread, proxies, protection, destroy
  <1>1. Types'
    BY Bounds DEF Types
  <1>2. StartsAreFew'
    BY Bounds DEF Types, StartsAreFew
  <1>3. ThreadHasItsFlag'
    BY Bounds DEF Types, StartsAreFew, ThreadHasItsFlag, StopFindsNoStart, ProxiesServe,
       ServiceIsKnown, SocketIsKnown, Joining, Expected, Alive
  <1>4. StopFindsNoStart'
    BY Bounds, <1>a DEF Types, StartsAreFew, ThreadHasItsFlag, StopFindsNoStart,
       ProxiesServe, ServiceIsKnown, SocketIsKnown, Joining, Expected, Alive
  <1>5. ProxiesServe'
    BY Bounds, <1>a DEF Types, StartsAreFew, ThreadHasItsFlag, StopFindsNoStart,
       ProxiesServe, ServiceIsKnown, SocketIsKnown, Joining, Expected, Alive
  <1>6. ServiceIsKnown'
    BY Bounds DEF Types, StartsAreFew, ThreadHasItsFlag, StopFindsNoStart, ProxiesServe,
       ServiceIsKnown, SocketIsKnown, Joining, Expected, Alive
  <1>7. SocketIsKnown'
    BY Bounds DEF Types, StartsAreFew, ThreadHasItsFlag, StopFindsNoStart, ProxiesServe,
       ServiceIsKnown, SocketIsKnown, Joining, Expected, Alive
  <1> QED BY <1>1, <1>2, <1>3, <1>4, <1>5, <1>6, <1>7

LEMMA PhasesNext == Inv /\ [Next]_vars => Phases'
  <1> SUFFICES ASSUME Inv, [Next]_vars PROVE Phases'
    OBVIOUS
  <1>1. CASE onClick
    <2>1. CASE initialize /\ Alive(tcp)
      BY <2>1, DiesInv DEF initialize
    <2> QED BY <1>1, <2>1, InitializeInv, DestroyInv DEF onClick
  <1>2. CASE setup
    <2>1. CASE ~prepared
      BY <1>2, <2>1, DiesInv DEF setup
    <2> QED BY <1>2, <2>1, SetupInv
  <1>3. CASE read
    <2>1. CASE ~stream
      BY <1>3, <2>1, DiesInv DEF read
    <2> QED BY <1>3, <2>1, ReadInv
  <1>4. CASE UNCHANGED vars
    BY <1>4 DEF vars, Inv, Phases, Types, StartsAreFew, ThreadHasItsFlag, StopFindsNoStart,
       ProxiesServe, ServiceIsKnown, SocketIsKnown, Joining, Expected, Alive, control, android,
       thread, proxies, protection
  <1> QED
    BY <1>1, <1>2, <1>3, <1>4, StartInv, JoinedInv, AndroidInv, ThreadInv, UdpInv,
       ProtectSocketsInv, SelectInv DEF Next, Ui, VpnThread

\* The invariant above holds in every reachable state of the start and stop code
\* (SSVpnService.kt, SSVpnImplService.kt).
THEOREM LifecycleInvariant == Spec => []Inv
  <1>1. Inv /\ [Next]_vars => Inv'
    BY FlagsNext, PhasesNext DEF Inv
  <1> QED BY <1>1, InvInit, PTL DEF Spec

-----------------------------------------------------------------------------
(* Properties *)

\* However starts and stops cross, there is never a second VpnThread, and the proxies
\* serve the one there is, unless a stop came before its start (SSVpnService.kt:117-163).
THEOREM ThreadIsAloneAndServed == Spec => []OneThreadWithProxies
  <1>1. Inv => OneThreadWithProxies
    <2> SUFFICES ASSUME Inv PROVE OneThreadWithProxies
      OBVIOUS
    <2>1. {mVpnRunning, prepared, dialog, listener, stopping, stream, mVpnThreadRunning,
           tcpRunning, udpOpen, udpRunning, protected, listed, mapped, leak, late} \subseteq BOOLEAN
      BY Zenon DEF Inv, Flags, IsFlag
    <2>2. starts \in 0..(MaxClicks + 1)
      BY Bounds DEF Inv, Phases, Types, StartsAreFew
    <2>3. TypeOK
      BY <2>1, <2>2 DEF Inv, Phases, Types, ThreadHasItsFlag, TypeOK
    <2> QED BY <2>3 DEF Inv, Phases, ThreadHasItsFlag, ProxiesServe, ServiceIsKnown, OneThreadWithProxies, Expected, Alive
  <1> QED BY <1>1, LifecycleInvariant, PTL

\* No socket of the proxies is used without protection, whether it was made before or
\* after the service object (SSVpnImplService.kt:64-104, Socks5Tunnel.kt:63-69).
THEOREM SocketsStayProtected == Spec => []SocketsAreProtected
  <1>1. Inv => SocketsAreProtected
    BY DEF Inv, Phases, SocketIsKnown, SocketsAreProtected
  <1> QED BY <1>1, LifecycleInvariant, PTL

-----------------------------------------------------------------------------
(* ss-server *)

\* Whoever stopped too early waits for a server whose pipe stays empty.
StopInv ==
    /\ early => /\ caller \in {"final", "join"}
                /\ server \in {"thread", "main", "bind", "loop"}
                /\ server \in {"bind", "loop"} => pipe = 0
    /\ protecting => server \in {"bind", "loop", "cleanup"}
    /\ S!EndIsClean

LEMMA StopNext == StopInv /\ [S!Next]_S!vars => StopInv'
  <1> SUFFICES ASSUME StopInv, [S!Next]_S!vars PROVE StopInv'
    OBVIOUS
  <1> USE DEF StopInv, S!EndIsClean
  <1>1. CASE S!start
    BY <1>1 DEF S!start
  <1>2. CASE S!stop
    BY <1>2 DEF S!stop, S!ss_server_stop
  <1>3. CASE S!vpn_interface_final \/ S!Join
    BY <1>3 DEF S!vpn_interface_final, S!Join
  <1>4. CASE S!vpn_interface_init \/ S!CreatePipe
    BY <1>4 DEF S!vpn_interface_init, S!CreatePipe
  <1>5. CASE S!protect_begin \/ S!protect_end
    <2>1. /\ server \in {"bind", "loop", "cleanup"}
          /\ server' \in {server, "loop"}
          /\ UNCHANGED <<caller, pipe, early>>
      BY <1>5 DEF S!protect_begin, S!protect_end, S!AfterSocket
    <2> QED
      BY <2>1
  <1>6. CASE S!pipe_cb
    BY <1>6 DEF S!pipe_cb
  <1>7. CASE S!ClosePipe \/ S!Return
    BY <1>7 DEF S!ClosePipe, S!Return
  <1>8. CASE UNCHANGED S!vars
    BY <1>8 DEF S!vars
  <1> QED
    BY <1>1, <1>2, <1>3, <1>4, <1>5, <1>6, <1>7, <1>8 DEF S!Next, S!Caller, S!Server

\* The thread of ss-server ends only after a stop that found its pipe (server.c:1852),
\* and only if no exception was left by protecting a socket (vpninterface.c:29-33):
\* the two exceptions of StopReturns are exact.
THEOREM ServerEndsCleanly == S!Spec => []S!EndIsClean
  <1>1. S!Init => StopInv
    BY DEF S!Init, StopInv, S!EndIsClean
  <1>2. StopInv => S!EndIsClean
    BY DEF StopInv
  <1> QED
    BY <1>1, <1>2, StopNext, PTL DEF S!Spec
===============================================================================
