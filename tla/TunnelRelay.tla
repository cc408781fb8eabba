------------------------------ MODULE TunnelRelay -----------------------------
(***************************************************************************)
(* The local TCP proxy (TCPProxyServer.kt) and its tunnels (Tunnel.kt,     *)
(* SocketChannelTunnel.kt, LocalTunnel.kt, Socks5Tunnel.kt).  A connection *)
(* accepted from an app is a LocalTunnel, "L", whose brother, a            *)
(* Socks5Tunnel, "R", is connected to ss-server.  One thread selects the   *)
(* channels that are ready and runs their handlers one after the other.    *)
(*                                                                         *)
(* All tunnels share two buffers.  mChannelBuffer is cleared at the start  *)
(* of onReadable and never used after it, so it is no variable here.       *)
(* mWriteRemainingBuffer keeps what a socket did not take until the socket *)
(* is writable.                                                            *)
(*                                                                         *)
(* A byte says whose it is, where it was sent and how often it is          *)
(* encrypted, twice standing for any larger number.  An exception that     *)
(* nobody catches ends the process.                                        *)
(***************************************************************************)
EXTENDS Integers, Sequences, SequencesExt, FiniteSetsExt

CONSTANTS
    Conn,      \* connections of apps
    Together,  \* bound: which of them there are in one behaviour
    BUFFER,    \* capacity of the two buffers: 20000 in the code
    IV,        \* length of the cipher's IV, which comes first in each direction
    HEADER,    \* length of the handshake: IV, destination and port
    Up, Down,  \* bound: payload bytes of each connection in each direction
    Breakable, \* bound: sockets that may break
    Endable    \* bound: sockets whose peer may end its direction

ASSUME TunnelAssumption ==
    /\ {BUFFER, IV, HEADER} \subseteq Nat \ {0}
    /\ {Up, Down} \subseteq Nat
    /\ Together \subseteq SUBSET Conn

VARIABLES
    listening,   \* TCPProxyServer.initialize has run
    datagram,    \* mDatagramTunnel is set
    conn,        \* the remote tunnel of each connection
    interest,    \* the interest set of each channel's key; "none" without a key
    cancelled,   \* channels whose key is cancelled and still in the selector
    selected,    \* selected keys the thread has not come to yet
    remaining,   \* mWriteRemainingBuffer
    ivSet,       \* _decryptIVSet of each connection's cipher
    upRead, downRead,   \* history: bytes read from each socket
    toServer, toApp,    \* history: bytes the sockets have taken
    broken,      \* sockets on which every read and write fails
    ended,       \* sockets whose peer has sent its last byte
    process,     \* "up", or the exception that ended the process
    partial      \* history: some socket took only part of what it was given

io == <<upRead, downRead, toServer, toApp, ivSet>>
keys == <<interest, cancelled>>
env == <<listening, datagram, broken, ended>>
vars == <<listening, datagram, conn, interest, cancelled, selected, remaining, ivSet,
          upRead, downRead, toServer, toApp, broken, ended, process, partial>>

Sock == Conn \X {"L", "R"}

Brother(s) == <<s[1], IF s[2] = "L" THEN "R" ELSE "L">>

Byte == [of : Conn, dir : {"head", "up", "iv", "down"}, n : Nat, enc : 0..2]

Bytes(c, dir, from, to, enc) ==
    [k \in 1..(to - from) |-> [of |-> c, dir |-> dir, n |-> from + k, enc |-> enc]]

\* Socks5Protocol.handshake: the cipher's IV, the destination and its port.
handshake(c) == Bytes(c, "head", 0, HEADER, 1)

\* What ss-server sends on a connection: the IV, then encrypted payload.
Downstream(c) == Bytes(c, "iv", 0, IV, 0) \o Bytes(c, "down", 0, Down, 1)

TypeOK ==
    /\ listening \in BOOLEAN /\ datagram \in BOOLEAN /\ partial \in BOOLEAN
    /\ conn \in [Conn -> {"unused", "none", "idle", "connecting", "established", "down"}]
    /\ interest \in [Sock -> {"none", "connect", "read", "write"}]
    /\ cancelled \subseteq {s \in Sock : interest[s] = "none"}
    /\ selected \subseteq Sock \X {"connect", "read", "write"}
    /\ remaining.bytes \in Seq(Byte)
    /\ remaining.position \in 0..remaining.limit
    /\ remaining.limit <= BUFFER
    /\ ivSet \in [Conn -> BOOLEAN]
    /\ upRead \in [Conn -> 0..Up] /\ downRead \in [Conn -> 0..IV + Down]
    /\ toServer \in [Conn -> Seq(Byte)] /\ toApp \in [Conn -> Seq(Byte)]
    /\ broken \subseteq Sock /\ ended \subseteq Sock
    /\ process \in {"up", "uninitialized", "cut IV", "buffer", "cancelled key"}

Init ==
    /\ listening = FALSE
    /\ datagram = FALSE
    /\ \E C \in Together : conn = [c \in Conn |-> IF c \in C THEN "none" ELSE "unused"]
    /\ interest = [s \in Sock |-> "none"]
    /\ cancelled = {}
    /\ selected = {}
    /\ remaining = [bytes |-> <<>>, position |-> 0, limit |-> BUFFER]
    /\ ivSet = [c \in Conn |-> FALSE]
    /\ upRead = [c \in Conn |-> 0]
    /\ downRead = [c \in Conn |-> 0]
    /\ toServer = [c \in Conn |-> <<>>]
    /\ toApp = [c \in Conn |-> <<>>]
    /\ broken = {}
    /\ ended = {}
    /\ process = "up"
    /\ partial = FALSE

-----------------------------------------------------------------------------
(* Environment *)

PeerEnds(s) ==
    /\ conn[s[1]] \in {"connecting", "established"}
    /\ s \in Endable \ ended
    /\ ended' = ended \cup {s}
    /\ UNCHANGED <<listening, datagram, conn, keys, selected, remaining, io, broken,
                   process, partial>>

SocketBreaks(s) ==
    /\ conn[s[1]] \in {"connecting", "established"}
    /\ s \in Breakable \ broken
    /\ broken' = broken \cup {s}
    /\ UNCHANGED <<listening, datagram, conn, keys, selected, remaining, io, ended,
                   process, partial>>

-----------------------------------------------------------------------------
(* TCPProxyServer *)

initialize ==
    /\ ~listening
    /\ listening' = TRUE
    /\ UNCHANGED <<datagram, conn, keys, selected, remaining, io, broken, ended,
                   process, partial>>

\* updateTunnel, on the UI thread: mSelector is only set by initialize.
updateTunnel ==
    /\ IF listening
       THEN datagram' = TRUE /\ UNCHANGED process
       ELSE process' = "uninitialized" /\ UNCHANGED datagram
    /\ UNCHANGED <<listening, conn, keys, selected, remaining, io, broken, ended, partial>>

\* Mutant: the local tunnel starts to receive when the remote one starts to connect.
onAcceptable_Early(c) ==
    /\ listening
    /\ conn[c] = "none"
    /\ \/ conn' = [conn EXCEPT ![c] = "idle"] /\ UNCHANGED interest
       \/ /\ ~datagram
          /\ conn' = [conn EXCEPT ![c] = "connecting"]
          /\ interest' = [interest EXCEPT ![<<c, "R">>] = "connect", ![<<c, "L">>] = "read"]
    /\ UNCHANGED <<env, cancelled, selected, remaining, io, process, partial>>

\* onAcceptable, with Socks5Tunnel.connect: nothing more happens to a connection
\* without a destination in the port map, whose socket could not be protected, or
\* whose remote tunnel is the datagram tunnel, all of whose methods are empty.
onAcceptable(c) ==
    /\ listening
    /\ conn[c] = "none"
    /\ \/ conn' = [conn EXCEPT ![c] = "idle"] /\ UNCHANGED interest
       \/ /\ ~datagram
          /\ conn' = [conn EXCEPT ![c] = "connecting"]
          /\ interest' = [interest EXCEPT ![<<c, "R">>] = "connect"]
    /\ UNCHANGED <<env, cancelled, selected, remaining, io, process, partial>>

\* The bytes the peer of s has still to send, or that wait to be read.
Arrived(s) == IF s[2] = "L" THEN Up - upRead[s[1]] ELSE IV + Down - downRead[s[1]]

\* A channel is ready for what its key is interested in.
Ready(s) ==
    \/ interest[s] \in {"connect", "write"}
    \/ /\ interest[s] = "read"
       /\ s \in broken \cup ended \/ Arrived(s) > 0

ReadySocks == {s \in Sock : Ready(s)}

\* select: cancelled keys leave the selector; some of the ready ones are selected.
select(ss) ==
    /\ selected = {}
    /\ ss # {}
    /\ selected' = {<<s, interest[s]>> : s \in ss}
    /\ cancelled' = {}
    /\ UNCHANGED <<env, conn, interest, remaining, io, process, partial>>

-----------------------------------------------------------------------------
(* Effects shared by the handlers *)

\* key.cancel(), then a registration of another channel.
Cancel(s) ==
    /\ interest' = [interest EXCEPT ![s] = "none"]
    /\ cancelled' = cancelled \cup {s}

\* The process ends with an exception.
Throws(e) ==
    /\ process' = e
    /\ UNCHANGED <<conn, keys, remaining>>

\* What a socket takes of bs.
Taken(s, k, bs) ==
    IF s[2] = "R"
    THEN toServer' = [toServer EXCEPT ![s[1]] = @ \o SubSeq(bs, 1, k)] /\ UNCHANGED toApp
    ELSE toApp' = [toApp EXCEPT ![s[1]] = @ \o SubSeq(bs, 1, k)] /\ UNCHANGED toServer

\* Mutant: the data is sent as it was read.
beforeSend_Plain(s, bs) == bs

\* beforeSend: the Socks5Tunnel encrypts.
beforeSend(s, bs) ==
    IF s[2] = "R" THEN [k \in DOMAIN bs |-> [bs[k] EXCEPT !.enc = Min({2, @ + 1})]] ELSE bs

\* afterReceived: the Socks5Tunnel decrypts, its cipher takes the IV off first.
afterReceived(s, bs) ==
    LET skip == IF ivSet[s[1]] THEN 0 ELSE IV IN
    IF s[2] = "R"
    THEN [k \in 1..(Len(bs) - skip) |-> [bs[k + skip] EXCEPT !.enc = @ - 1]]
    ELSE bs

-----------------------------------------------------------------------------
(* Handlers of the tunnels *)

\* Mutant: only the remote tunnel starts to receive.
onTunnelEstablished_Half(c) ==
    interest' = [interest EXCEPT ![<<c, "R">>] = "read"]

onTunnelEstablished(c) ==
    interest' = [interest EXCEPT ![<<c, "R">>] = "read", ![<<c, "L">>] = "read"]

\* onConnected: a new socket takes all of the handshake, or none when it has broken
\* since finishConnect, which nobody looks at.
onConnected(c) ==
    /\ Taken(<<c, "R">>, IF <<c, "R">> \in broken THEN 0 ELSE HEADER, handshake(c))
    /\ conn' = [conn EXCEPT ![c] = "established"]
    /\ onTunnelEstablished(c)

\* onConnectable: finishConnect fails and closes the channel, or succeeds.
onConnectable(c) ==
    \/ /\ <<c, "R">> \in broken
       /\ conn' = [conn EXCEPT ![c] = "down"]
       /\ interest' = [interest EXCEPT ![<<c, "R">>] = "none"]
       /\ UNCHANGED <<cancelled, remaining, io, process, partial>>
    \/ /\ onConnected(c)
       /\ UNCHANGED <<cancelled, remaining, upRead, downRead, ivSet, process, partial>>

\* dispose: neither tunnel closes its socket.
dispose(s) ==
    conn' = IF s[2] = "R" THEN [conn EXCEPT ![s[1]] = "down"] ELSE conn

\* scheduleRemainWrite, then key.cancel() of the channel that was read.  The
\* buffer is flipped and never cleared: put has room for what it held before,
\* less what was written of it.
scheduleRemainWrite(s, bs) ==
    LET end == remaining.position + Len(bs) IN
    IF end > remaining.limit THEN Throws("buffer")
    ELSE IF s \in cancelled THEN Throws("cancelled key")
    ELSE /\ remaining' = [bytes |-> SubSeq(remaining.bytes, 1, remaining.position) \o bs,
                          position |-> 0, limit |-> end]
         /\ interest' = [interest EXCEPT ![s] = "write", ![Brother(s)] = "none"]
         /\ cancelled' = cancelled \cup {Brother(s)}
         /\ UNCHANGED <<conn, process>>

\* The bytes the next read of s may return.
Incoming(s, k) ==
    LET c == s[1] IN
    IF s[2] = "L" THEN Bytes(c, "up", upRead[c], upRead[c] + k, 0)
    ELSE SubSeq(Downstream(c), downRead[c] + 1, downRead[c] + k)

isTunnelEstablished(s) == s[2] = "L" \/ conn[s[1]] = "established"

\* read of a socket, and the IV that decrypt takes off the first bytes.
Read(s, k) ==
    LET c == s[1] IN
    IF s[2] = "L"
    THEN upRead' = [upRead EXCEPT ![c] = @ + k] /\ UNCHANGED <<downRead, ivSet>>
    ELSE /\ downRead' = [downRead EXCEPT ![c] = @ + k]
         /\ ivSet' = [ivSet EXCEPT ![c] = TRUE]
         /\ UNCHANGED upRead

\* The read bytes, decrypted and encrypted as their way demands, go to the brother
\* tunnel, which keeps for later what its socket does not take.
Pass(s, b, bs) ==
    \/ /\ bs = <<>> \/ ~isTunnelEstablished(s)
       /\ UNCHANGED <<conn, keys, remaining, toServer, toApp, process, partial>>
    \/ /\ bs # <<>> /\ isTunnelEstablished(s)
       /\ b \in broken
       /\ dispose(s)
       /\ Cancel(s)
       /\ UNCHANGED <<remaining, toServer, toApp, process, partial>>
    \/ /\ bs # <<>> /\ isTunnelEstablished(s)
       /\ b \notin broken
       /\ \/ /\ Taken(b, Len(bs), bs)
             /\ UNCHANGED <<conn, keys, remaining, process, partial>>
          \/ \E j \in 0..(Len(bs) - 1) :
                 /\ Taken(b, j, bs)
                 /\ partial' = TRUE
                 /\ scheduleRemainWrite(b, SubSeq(bs, j + 1, Len(bs)))

\* onReadable: a first buffer of the server shorter than the IV makes decrypt throw;
\* at the end of the stream, or when the read fails, the key keeps its interest.
onReadable(s) ==
    \/ /\ s \notin broken
       /\ \E k \in 1..Arrived(s) :
              /\ k <= BUFFER
              /\ Read(s, k)
              /\ IF s[2] = "R" /\ ~ivSet[s[1]] /\ k < IV
                 THEN Throws("cut IV") /\ UNCHANGED <<toServer, toApp, partial>>
                 ELSE LET b == Brother(s)
                      IN  Pass(s, b, beforeSend(b, afterReceived(s, Incoming(s, k))))
    \/ /\ s \in broken \/ (s \in ended /\ Arrived(s) = 0)
       /\ dispose(s)
       /\ UNCHANGED <<keys, remaining, io, process, partial>>

\* The rest of onWritable, when k bytes of the remaining ones have been written: the
\* brother starts to receive when some are left, and nothing is done otherwise.
AfterWrite(s, k, r) ==
    LET next == IF isTunnelEstablished(s) THEN Brother(s) ELSE s IN
    IF k = Len(r) THEN UNCHANGED <<keys, process>>
    ELSE IF next \in cancelled \cup {s}
         THEN process' = "cancelled key" /\ UNCHANGED keys
         ELSE /\ interest' = [interest EXCEPT ![s] = "none", ![next] = "read"]
              /\ cancelled' = cancelled \cup {s}
              /\ UNCHANGED process

\* onWritable: the Socks5Tunnel encrypts the remaining bytes again, and throws when
\* some have been written already.
onWritable(s) ==
    LET rest == SubSeq(remaining.bytes, remaining.position + 1, remaining.limit)
        r == beforeSend(s, rest)
    IN
    IF s[2] = "R" /\ remaining.position > 0
    THEN Throws("buffer") /\ UNCHANGED <<io, partial>>
    ELSE /\ IF s \in broken
            THEN /\ dispose(s)
                 /\ remaining' = [remaining EXCEPT
                        !.bytes = SubSeq(@, 1, remaining.position) \o r]
                 /\ UNCHANGED <<keys, process, toServer, toApp>>
            ELSE \E k \in 0..Len(r) :
                     /\ Taken(s, k, r)
                     /\ remaining' = [remaining EXCEPT
                            !.bytes = SubSeq(@, 1, remaining.position) \o r,
                            !.position = @ + k]
                     /\ AfterWrite(s, k, r)
                     /\ UNCHANGED conn
         /\ UNCHANGED <<upRead, downRead, ivSet, partial>>

\* The thread takes a selected key: a cancelled one is only removed.
Handle(s, op) ==
    /\ <<s, op>> \in selected
    /\ selected' = selected \ {<<s, op>>}
    /\ IF interest[s] = "none"
       THEN UNCHANGED <<conn, keys, remaining, io, process, partial>>
       ELSE CASE op = "read" -> onReadable(s)
              [] op = "write" -> onWritable(s)
              [] op = "connect" -> onConnectable(s[1])
    /\ UNCHANGED env

Running == process = "up"

Next ==
    /\ Running
    /\ \/ initialize \/ updateTunnel
       \/ \E c \in Conn : onAcceptable(c)
       \/ \E s \in Sock : PeerEnds(s) \/ SocketBreaks(s)
       \/ \E ss \in SUBSET ReadySocks : select(ss)
       \/ \E s \in Sock, op \in {"connect", "read", "write"} : Handle(s, op)

\* The thread goes on, and a channel that is ready again and again is selected:
\* select returns every key that is ready.
Fairness ==
    /\ \A s \in Sock : WF_vars(Running /\ \E op \in {"connect", "read", "write"} : Handle(s, op))
    /\ \A s \in Sock : SF_vars(Running /\ \E ss \in SUBSET ReadySocks : s \in ss /\ select(ss))

Spec == Init /\ [][Next]_vars /\ Fairness

-----------------------------------------------------------------------------
(* Properties *)

\* What ss-server should have got: the handshake, then all that was read of the app.
SentUp(c) == handshake(c) \o Bytes(c, "up", 0, upRead[c], 1)

\* What the app should have got: all payload that was read of the server.
SentDown(c) ==
    Bytes(c, "down", 0, IF downRead[c] < IV THEN 0 ELSE downRead[c] - IV, 0)

\* As long as sockets take all they are given, what is read of one socket is on its
\* way through the other, in order, encrypted once and decrypted once, without the
\* IV and without a byte of another connection, although all tunnels share their
\* buffers (SocketChannelTunnel.kt:15-18, onReadable 75-104).  The buffers hold no more
\* than they have room for, and all else has its type.
WrittenAsRead ==
    /\ TypeOK
    /\ ~partial =>
        \A c \in Conn :
            /\ conn[c] = "established" /\ <<c, "R">> \notin broken =>
                   toServer[c] = SentUp(c)
            /\ <<c, "L">> \notin broken => toApp[c] = SentDown(c)

\* The first bytes on a connection to ss-server, which takes its cipher's IV and the
\* destination from them, are that connection's handshake, also when sockets take
\* data in parts and what remains is mixed up in the shared buffer: a local tunnel
\* only starts to receive after the handshake (Socks5Tunnel.kt:22-27).
HandshakeComesFirst ==
    \A c \in Conn :
        <<c, "R">> \notin broken /\ toServer[c] # <<>> =>
            IsPrefix(handshake(c), toServer[c])

\* An established connection goes on until all of both directions is read, whether
\* or not one peer has ended its direction before, unless a socket breaks or takes
\* only a part of its data, or an exception ends the process (onTunnelEstablished
\* SocketChannelTunnel.kt:60-63, onReadable 75-104, TCPProxyServer.kt:88-126).
AllIsRead ==
    \A c \in Conn :
        conn[c] = "established" ~>
            \/ upRead[c] = Up /\ downRead[c] = IV + Down
            \/ partial \/ ~Running
            \/ {<<c, "L">>, <<c, "R">>} \cap broken # {}

\* "Read local access data then write to remote tunnel" (Tunnel.kt:16): what the
\* remote socket has taken is always a beginning of what was read of the local one,
\* also when it took some of it later.
LocalDataReachesRemote ==
    \A c \in Conn :
        conn[c] = "established" /\ <<c, "R">> \notin broken =>
            IsPrefix(toServer[c], SentUp(c))
=============================================================================
