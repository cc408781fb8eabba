----------------------------- MODULE VpnLifecycle -----------------------------
(***************************************************************************)
(* Start and stop of the VPN: the switch of MainActivity.kt, the steps of  *)
(* SSVpnService.initialize and destroy, Android's callbacks on             *)
(* SSVpnImplService, VpnThread, and the threads of the two proxies         *)
(* (TCPProxyServer.kt, UDPProxyServer.kt) as far as stopping them goes.    *)
(*                                                                         *)
(* Android runs the activity's and the service's callbacks on one thread,  *)
(* ui, which destroy blocks three times to join another thread.  onRevoke  *)
(* comes on a thread of its own.  An exception that nobody catches ends    *)
(* the process; Android may then start the service again, without the      *)
(* activity, in a new one: that is one of the initial states.              *)
(***************************************************************************)
EXTENDS Naturals

CONSTANTS
    MaxClicks,      \* bound: how often the switch is used
    MaxActivities   \* bound: how often Android makes the activity anew

ASSUME LifecycleAssumption == {MaxClicks, MaxActivities} \subseteq Nat

VARIABLES
    ui,           \* "idle", in onStartCommand ("protect"), or the join destroy waits in
    mVpnRunning,  \* the activity's switch
    clicks, activities,
    prepared,     \* VpnService.prepare returns null: the user has let us be the VPN
    dialog,       \* the user is being asked
    starts,       \* start commands Android has still to deliver
    listener,     \* mVpnEventListener is set
    service,      \* the service object: "none", "alive" or "destroyed" (and still
                  \* in mVpnServiceInstance)
    stopping,     \* Android has still to deliver onDestroy
    stream,       \* the current service object's device is open
    mVpnThreadRunning,
    vpn,          \* mVpnThread
    others,       \* VpnThreads that run although mVpnThread is another one
    tcp, tcpRunning,   \* the selector thread and mTCPProxyServerRunning
    udp, udpOpen, udpRunning,   \* the UDP thread, its socket, mUDPProxyServerRunning
    protected, listed,   \* the UDP socket is protected; waits to be protected
    mapped,       \* the port map has entries
    leak,         \* history: a tunnel's socket was connected without protection
    late,         \* history: a stop came before its start had been delivered
    process       \* "up", or what ended it

control == <<ui, mVpnRunning, clicks, activities>>
android == <<prepared, dialog, starts, listener, service, stopping>>
thread == <<stream, mVpnThreadRunning, vpn, others>>
proxies == <<tcp, tcpRunning, udp, udpOpen, udpRunning>>
protection == <<protected, listed, mapped, leak>>
vars == <<control, android, thread, proxies, protection, late, process>>

TypeOK ==
    /\ ui \in {"idle", "protect", "joinVpn", "joinTcp", "joinUdp"}
    /\ {mVpnRunning, prepared, dialog, listener, stopping, stream, mVpnThreadRunning,
        tcpRunning, udpOpen, udpRunning, protected, listed, mapped, leak, late}
           \subseteq BOOLEAN
    /\ clicks \in 0..MaxClicks /\ activities \in 0..MaxActivities
    /\ starts \in 0..(MaxClicks + 1)
    /\ service \in {"none", "alive", "destroyed"}
    /\ vpn \in {"none", "prepare", "setup", "read", "ended"}
    /\ others \in Nat
    /\ tcp \in {"none", "select", "ended"}
    /\ udp \in {"none", "receive", "work", "ended"}
    /\ process \in {"up", "bind", "establish", "read", "receive"}

\* A new process; Android may have started the service again by itself.
Init ==
    /\ ui = "idle" /\ mVpnRunning = FALSE /\ clicks = 0 /\ activities = 0
    /\ prepared \in BOOLEAN /\ starts \in 0..1
    /\ dialog = FALSE /\ listener = FALSE /\ service = "none" /\ stopping = FALSE
    /\ stream = FALSE /\ mVpnThreadRunning = FALSE /\ vpn = "none" /\ others = 0
    /\ tcp = "none" /\ tcpRunning = FALSE
    /\ udp = "none" /\ udpOpen = FALSE /\ udpRunning = FALSE
    /\ protected = FALSE /\ listed = FALSE /\ mapped = FALSE /\ leak = FALSE
    /\ late = FALSE
    /\ process = "up"

Alive(t) == t \notin {"none", "ended"}

Dies(e) == process' = e /\ UNCHANGED <<control, android, thread, proxies, protection, late>>

-----------------------------------------------------------------------------
(* Switching on *)

\* UDPProxyServer.initialize, with protectSocket.
UdpInitialize ==
    /\ udp' = "receive" /\ udpOpen' = TRUE /\ udpRunning' = TRUE
    /\ protected' = (service # "none")
    /\ listed' = (service = "none")

\* TCPProxyServer.initialize.
TcpInitialize == tcp' = "select" /\ tcpRunning' = TRUE

\* SSVpnService.initialize: the port of the selector thread's socket is free unless a
\* former activity left the VPN running.
initialize ==
    IF Alive(tcp) THEN Dies("bind")
    ELSE /\ UdpInitialize
         /\ TcpInitialize
         /\ listener' = TRUE
         /\ dialog' = ~prepared
         /\ starts' = IF prepared THEN starts + 1 ELSE starts
         /\ mVpnRunning' = TRUE /\ clicks' = clicks + 1
         /\ UNCHANGED <<ui, activities, prepared, service, stopping, thread, mapped, leak,
                        late, process>>

\* The user answers the question; onActivityResult starts the service.
onActivityResult ==
    /\ ui = "idle" /\ dialog
    /\ dialog' = FALSE
    /\ \/ prepared' = TRUE /\ starts' = starts + 1
       \/ UNCHANGED <<prepared, starts>>
    /\ UNCHANGED <<control, listener, service, stopping, thread, proxies, protection, late,
                   process>>

\* The listener's onVpnServiceStart.
onVpnServiceStart ==
    IF listener /\ ~mVpnThreadRunning
    THEN /\ mVpnThreadRunning' = TRUE /\ vpn' = "prepare"
         /\ others' = IF Alive(vpn) THEN others + 1 ELSE others
    ELSE UNCHANGED <<mVpnThreadRunning, vpn, others>>

\* Android delivers a start: it makes the service object when there is none, and
\* onStartCommand tells the listener before it protects the sockets.
onStartCommand ==
    /\ ui = "idle" /\ starts > 0
    /\ starts' = starts - 1
    /\ service' = "alive"
    /\ stream' = (service = "alive" /\ stream)
    /\ onVpnServiceStart
    /\ ui' = "protect"
    /\ UNCHANGED <<mVpnRunning, clicks, activities, prepared, dialog, listener, stopping,
                   proxies, protection, late, process>>

\* Mutant: the datagram sockets are forgotten.
ProtectSockets_NotDatagram ==
    /\ ui = "protect"
    /\ ui' = "idle"
    /\ UNCHANGED <<mVpnRunning, clicks, activities, android, thread, proxies, protection,
                   late, process>>

\* The loops of onStartCommand; the lists are never cleared.
ProtectSockets ==
    /\ ui = "protect"
    /\ ui' = "idle"
    /\ protected' = (protected \/ listed)
    /\ UNCHANGED <<mVpnRunning, clicks, activities, android, thread, proxies, listed, mapped,
                   leak, late, process>>

-----------------------------------------------------------------------------
(* VpnThread *)

waitVpnServicePrepared ==
    /\ vpn = "prepare" /\ prepared
    /\ vpn' = "setup"
    /\ UNCHANGED <<control, android, stream, mVpnThreadRunning, others, proxies, protection,
                   late, process>>

\* setup: establish returns null when another app has become the VPN meanwhile.
setup ==
    /\ vpn = "setup"
    /\ IF ~prepared THEN Dies("establish")
       ELSE /\ vpn' = "read" /\ stream' = TRUE
            /\ UNCHANGED <<control, android, mVpnThreadRunning, others, proxies, protection,
                           late, process>>

\* Mutant: the thread does not look at its flag.
AfterRead_Forever ==
    vpn' = "read" /\ UNCHANGED stream

\* The end of a round of VpnThread's loop, and destroyVpnInterface after the last.
AfterRead ==
    IF mVpnThreadRunning THEN vpn' = "read" /\ UNCHANGED stream
    ELSE vpn' = "ended" /\ stream' = FALSE

\* A round: nothing to read or a packet.  A device that has been closed is null.
read ==
    /\ vpn = "read"
    /\ IF ~stream THEN Dies("read")
       ELSE /\ mapped' \in {mapped, TRUE}
            /\ AfterRead
            /\ UNCHANGED <<control, android, mVpnThreadRunning, others, proxies, protected,
                           listed, leak, late, process>>

\* A read or write fails, or was waiting when the device was closed: the thread ends
\* and leaves its flag set.
readFails ==
    /\ vpn = "read"
    /\ vpn' = "ended" /\ stream' = FALSE
    /\ UNCHANGED <<control, android, mVpnThreadRunning, others, proxies, protection, late,
                   process>>

-----------------------------------------------------------------------------
(* The proxies' threads *)

\* Socks5Tunnel.connect, for a connection whose source port has an entry.
connect ==
    leak' = (leak \/ (mapped /\ service = "none"))

\* Something connects to the proxy's port.  The loop ends after a round.
Select ==
    /\ tcp = "select"
    /\ connect
    /\ tcp' = IF tcpRunning THEN "select" ELSE "ended"
    /\ UNCHANGED <<control, android, thread, tcpRunning, udp, udpOpen, udpRunning, protected,
                   listed, mapped, late, process>>

\* A datagram comes, or the socket is closed while the thread waits.
UdpReceive ==
    /\ udp = "receive"
    /\ \/ ~udpOpen /\ Dies("receive")
       \/ /\ udpOpen /\ udp' = "work"
          /\ UNCHANGED <<control, android, thread, tcp, tcpRunning, udpOpen, udpRunning,
                         protection, late, process>>

UdpWork ==
    /\ udp = "work"
    /\ udp' = IF udpRunning /\ udpOpen THEN "receive" ELSE "ended"
    /\ UNCHANGED <<control, android, thread, tcp, tcpRunning, udpOpen, udpRunning, protection,
                   late, process>>

-----------------------------------------------------------------------------
(* Switching off *)

\* Mutant: the proxies are stopped before the thread is waited for.
destroy_ProxiesFirst ==
    /\ mVpnThreadRunning' = FALSE
    /\ late' = (late \/ dialog \/ starts > 0)
    /\ ui' = "joinTcp" /\ tcpRunning' = FALSE
    /\ mVpnRunning' = FALSE /\ clicks' = clicks + 1
    /\ UNCHANGED <<activities, android, stream, vpn, others, tcp, udp, udpOpen, udpRunning,
                   protection, process>>

\* SSVpnService.destroy, to its first join.
destroy ==
    /\ mVpnThreadRunning' = FALSE
    /\ late' = (late \/ dialog \/ starts > 0)
    /\ ui' = "joinVpn"
    /\ mVpnRunning' = FALSE /\ clicks' = clicks + 1
    /\ UNCHANGED <<activities, android, stream, vpn, others, proxies, protection, process>>

\* VpnThread is joined: stopSelf, and TCPProxyServer.destroy to its join.
JoinedVpn ==
    /\ ui = "joinVpn" /\ ~Alive(vpn)
    /\ stopping' = (stopping \/ service = "alive")
    /\ tcpRunning' = FALSE
    /\ ui' = "joinTcp"
    /\ UNCHANGED <<mVpnRunning, clicks, activities, prepared, dialog, starts, listener,
                   service, thread, tcp, udp, udpOpen, udpRunning, protection, late, process>>

\* The selector thread is joined: its port is free; UDPProxyServer.destroy to its join.
JoinedTcp ==
    /\ ui = "joinTcp" /\ ~Alive(tcp)
    /\ udpRunning' = FALSE /\ udpOpen' = FALSE
    /\ ui' = "joinUdp"
    /\ UNCHANGED <<mVpnRunning, clicks, activities, android, thread, tcp, tcpRunning, udp,
                   protection, late, process>>

JoinedUdp ==
    /\ ui = "joinUdp" /\ ~Alive(udp)
    /\ ui' = "idle"
    /\ UNCHANGED <<mVpnRunning, clicks, activities, android, thread, proxies, protection,
                   late, process>>

onClick ==
    /\ ui = "idle" /\ clicks < MaxClicks
    /\ IF mVpnRunning THEN destroy ELSE initialize

\* Android makes the activity anew: its switch is off, whatever runs.
NewActivity ==
    /\ ui = "idle" /\ activities < MaxActivities
    /\ activities' = activities + 1
    /\ mVpnRunning' = FALSE
    /\ UNCHANGED <<ui, clicks, android, thread, proxies, protection, late, process>>

-----------------------------------------------------------------------------
(* Android stops the service *)

\* The user lets another app be the VPN: the system calls onRevoke.
onRevoke ==
    /\ prepared
    /\ prepared' = FALSE
    /\ IF stream THEN stream' = FALSE /\ stopping' = TRUE ELSE UNCHANGED <<stream, stopping>>
    /\ UNCHANGED <<control, dialog, starts, listener, service, mVpnThreadRunning, vpn, others,
                   proxies, protection, late, process>>

onDestroy ==
    /\ ui = "idle" /\ stopping
    /\ stopping' = FALSE
    /\ service' = "destroyed"
    /\ stream' = FALSE
    /\ UNCHANGED <<control, prepared, dialog, starts, listener, mVpnThreadRunning, vpn, others,
                   proxies, protection, late, process>>

-----------------------------------------------------------------------------
Running == process = "up"

VpnThread == waitVpnServicePrepared \/ setup \/ read

Ui == onActivityResult \/ onStartCommand \/ ProtectSockets \/ JoinedVpn \/ JoinedTcp
          \/ JoinedUdp \/ onClick \/ NewActivity \/ onDestroy

Next == Running /\ (Ui \/ VpnThread \/ readFails \/ Select \/ UdpReceive \/ UdpWork \/ onRevoke)

\* Threads that can go on do; nothing makes anyone connect, send, click or answer.
Fairness ==
    /\ WF_vars(Running /\ VpnThread)
    /\ WF_vars(Running /\ (ProtectSockets \/ JoinedVpn \/ JoinedTcp \/ JoinedUdp))
    /\ WF_vars(Running /\ UdpWork)

Spec == Init /\ [][Next]_vars /\ Fairness

-----------------------------------------------------------------------------
(* Properties *)

\* There is never more than one VpnThread, although starts may be delivered late,
\* twice or after a stop: two would read one device and share mPacket
\* (SSVpnService.kt:138-146, 156-158).  While it takes packets from the device both
\* proxies are there to serve them, unless a stop came before its start had been
\* delivered (SSVpnService.kt:117-163).  All variables have their types.
OneThreadWithProxies ==
    /\ TypeOK
    /\ others = 0
    /\ vpn = "read" /\ stream /\ ~late => tcp = "select" /\ udpOpen

\* What leaves the device does not come back through the VPN.  Once onStartCommand has
\* returned, the UDP socket of the DNS proxy is protected while VpnThread may use it,
\* whether it was made before or after the service object (SSVpnImplService.kt:73-80,
\* 92-104); and a tunnel's socket is never connected without protection: protectSocket
\* would say yes without doing anything when there is no service object, but an entry
\* in the port map means that there has been one (SSVpnImplService.kt:64-71,
\* Socks5Tunnel.kt:63-69).
SocketsAreProtected ==
    /\ Alive(vpn) /\ ui # "protect" => protected
    /\ ~leak

\* A stop gets past the join of VpnThread, which never blocks in a read, unless the
\* thread waits for the user's consent, where it does not look at its flag
\* (SSVpnService.kt:43-48, 156-158).
StopPassesVpnThread ==
    ui = "joinVpn" ~> ui # "joinVpn" \/ ~prepared \/ ~Running
=============================================================================
