---------------------------- MODULE SsRelayProofs ----------------------------
(***************************************************************************)
(* Proofs about the TCP relay of ss-server, for any set of connections,    *)
(* any buffer, nonce and header size and any amount of data.               *)
(***************************************************************************)
EXTENDS SsRelayInv, SequenceTheorems, FiniteSetTheorems, TLAPS

-----------------------------------------------------------------------------
(* Sequences *)

\* The s elements of a sequence that follow its first k.
LEMMA Part ==
    ASSUME NEW d \in Seq(Nat), NEW k \in Nat, NEW s \in Nat, k + s <= Len(d)
    PROVE  /\ SubSeq(d, k + 1, k + s) \in Seq(Nat)
           /\ Len(SubSeq(d, k + 1, k + s)) = s
           /\ \A i \in 1..s : SubSeq(d, k + 1, k + s)[i] = d[k + i]
<1> DEFINE u == SubSeq(d, k + 1, k + s)
<1>1. \A i \in (k + 1)..(k + s) : d[i] \in Nat
  BY LenProperties, ElementOfSeq
<1>2. /\ u \in Seq(Nat)
      /\ Len(u) = IF k + 1 <= k + s THEN (k + s) - (k + 1) + 1 ELSE 0
      /\ \A i \in 1 .. (k + s) - (k + 1) + 1 : u[i] = d[(k + 1) + i - 1]
  BY <1>1, SubSeqProperties
<1>3. QED
  BY <1>2

\* s bytes follow the first k of d, and what sending them adds to t.
Fits(d, k, s) == k + s <= Len(d)

Extend(t, d, k, s) == t \o SubSeq(d, k + 1, k + s)

\* u begins with t; u has s elements of d behind its first l.
Keeps(t, u) == \A i \in 1..Len(t) : u[i] = t[i]

Adds(u, l, d, k, s) == \A i \in 1..s : u[l + i] = d[k + i]

\* Appending part of a buffer to what was sent: the bytes that were sent stay,
\* the new ones are those of the buffer.
LEMMA AppendPart ==
    ASSUME NEW t \in Seq(Nat), NEW d \in Seq(Nat), NEW k \in Nat, NEW s \in Nat,
           Fits(d, k, s)
    PROVE  /\ Extend(t, d, k, s) \in Seq(Nat)
           /\ Len(Extend(t, d, k, s)) = Len(t) + s
           /\ Keeps(t, Extend(t, d, k, s))
           /\ Adds(Extend(t, d, k, s), Len(t), d, k, s)
<1> DEFINE u == SubSeq(d, k + 1, k + s)
<1>1. Len(t) \in Nat
  BY LenProperties
<1>2. u \in Seq(Nat) /\ Len(u) = s /\ \A i \in 1..s : u[i] = d[k + i]
  BY Part DEF Fits
<1>3. /\ t \o u \in Seq(Nat)
      /\ Len(t \o u) = Len(t) + Len(u)
      /\ \A i \in 1..Len(t) + Len(u) :
            (t \o u)[i] = IF i <= Len(t) THEN t[i] ELSE u[i - Len(t)]
  BY <1>2, ConcatProperties
<1>4. \A i \in 1..s : (t \o u)[Len(t) + i] = d[k + i]
  <2> SUFFICES ASSUME NEW i \in 1..s PROVE (t \o u)[Len(t) + i] = d[k + i]
    OBVIOUS
  <2>1. /\ Len(t) + i \in 1..Len(t) + Len(u) /\ ~(Len(t) + i <= Len(t))
        /\ (Len(t) + i) - Len(t) = i
    BY <1>1, <1>2
  <2>2. QED
    BY <2>1, <1>2, <1>3
<1>5. \A i \in 1..Len(t) : (t \o u)[i] = t[i]
  <2> SUFFICES ASSUME NEW i \in 1..Len(t) PROVE (t \o u)[i] = t[i]
    OBVIOUS
  <2>1. i \in 1..Len(t) + Len(u) /\ i <= Len(t)
    BY <1>1, <1>2
  <2>2. QED
    BY <2>1, <1>3
<1>6. Len(t \o u) = Len(t) + s
  BY <1>2, <1>3
<1>7. Extend(t, d, k, s) = t \o u
  BY DEF Extend
<1> HIDE DEF u
<1>8. QED
  BY <1>3, <1>4, <1>5, <1>6, <1>7 DEF Keeps, Adds

\* Bytes(from, n) is the sequence it looks like.
LEMMA BytesIsSeq ==
    ASSUME NEW from \in Nat, NEW n \in Nat
    PROVE  /\ Bytes(from, n) \in Seq(Nat)
           /\ Len(Bytes(from, n)) = n
           /\ \A i \in 1..n : Bytes(from, n)[i] = from + i
<1>1. Bytes(from, n) \in [1..n -> Nat]
  BY DEF Bytes
<1>2. Bytes(from, n) \in Seq(Nat)
  BY <1>1, SeqDef
<1>3. DOMAIN Bytes(from, n) = 1..n /\ DOMAIN Bytes(from, n) = 1..Len(Bytes(from, n))
  BY <1>1, <1>2, LenProperties
<1>4. QED
  BY <1>2, <1>3 DEF Bytes

-----------------------------------------------------------------------------
(* The records the actions build have their types *)

\* An empty buffer is a buffer.
LEMMA EmptyBufferType == EmptyBuffer \in Buffer
  BY EmptySeq DEF EmptyBuffer, Buffer

\* The records of a connection that does not exist yet.
LEMMA NoTypes ==
    /\ NoServer \in Server
    /\ NoRemote \in Remote
    /\ NoQuery \in Query
    /\ NoWire \in Wire
<1>1. NoServer \in Server
  <2>1. 0 \in 0..NONCE
    BY RelayAssumption
  <2>2. QED
    BY <2>1, EmptyBufferType DEF NoServer, Server, Object, Stage
<1>2. NoRemote \in Remote
  BY EmptyBufferType DEF NoRemote, Remote, Object
<1>3. NoQuery \in Query
  BY DEF NoQuery, Query, Object
<1>4. NoWire \in Wire
  BY EmptySeq DEF NoWire, Wire
<1>5. QED
  BY <1>1, <1>2, <1>3, <1>4

\* Freeing a server or a remote leaves a record of the same type.
LEMMA FreedTypes ==
    /\ \A s \in Server : FreedServer(s) \in Server
    /\ \A r \in Remote : FreedRemote(r) \in Remote
  BY EmptyBufferType DEF FreedServer, FreedRemote, Server, Remote, Object

-----------------------------------------------------------------------------
(* Steps of one connection *)

\* Only the records of connection c change.
Frame(c) ==
    /\ DOMAIN srv' = Conn /\ DOMAIN rmt' = Conn /\ DOMAIN qry' = Conn /\ DOMAIN wire' = Conn
    /\ \A d \in Conn \ {c} : /\ srv'[d] = srv[d] /\ rmt'[d] = rmt[d]
                             /\ qry'[d] = qry[d] /\ wire'[d] = wire[d]

\* A step of one connection keeps the invariant if it keeps it for that one.
LEMMA FrameInv ==
    ASSUME RelayInv, NEW c \in Conn, loop \in {"run", "cancel"}, loop' = loop, Frame(c),
           ConnInv(srv'[c], rmt'[c], qry'[c], wire'[c])
    PROVE  RelayInv'
  BY DEF RelayInv, Frame

\* The close functions end a connection whatever its phase, provided the step
\* has delivered nothing and a remote is closed along with its server.
LEMMA CloseInv ==
    ASSUME RelayInv, NEW c \in Conn, srv[c].obj = "live",
           (CloseServer(c) /\ ~srv[c].remote) \/ (CloseBoth(c) /\ srv[c].remote),
           NEW n \in Nat,
           wire' = [wire EXCEPT ![c].cin = @ + n] \/ wire' = wire
    PROVE  Frame(c) /\ ConnInv(srv'[c], rmt'[c], qry'[c], wire'[c])
<1> DEFINE s == srv[c]
           r == rmt[c]
           q == qry[c]
           w == wire[c]
<1>1. ConnInv(s, r, q, w)
  BY DEF RelayInv
<1>2. Frame(c)
  BY DEF RelayInv, Frame, CloseServer, CloseBoth, OrphanQuery
<1>3. /\ wire'[c] \in Wire
      /\ wire'[c].toRemote = w.toRemote /\ wire'[c].toClient = w.toClient
  <2>1. w \in Wire
    BY <1>1 DEF ConnInv, ConnTypeOK
  <2>2. wire'[c] = w \/ wire'[c] = [w EXCEPT !.cin = @ + n]
    BY DEF RelayInv
  <2>3. w.cin + n \in Nat
    BY <2>1 DEF Wire
  <2>4. QED
    BY <2>1, <2>2, <2>3, SMTT(30) DEF Wire
<1>4. Delivered(wire'[c])
  BY <1>1, <1>3 DEF ConnInv, Delivered
<1>5. Closed(srv'[c], rmt'[c], qry'[c]) /\ srv'[c] \in Server /\ rmt'[c] \in Remote /\ qry'[c] \in Query
  <2>1. CASE CloseServer(c) /\ ~s.remote
    <3>1. /\ srv'[c] = FreedServer(s) /\ rmt'[c] = r
          /\ qry'[c] = IF s.query THEN [q EXCEPT !.server = FALSE] ELSE q
      BY <2>1 DEF RelayInv, CloseServer, OrphanQuery
    <3>2. r = NoRemote /\ (~s.query => q = NoQuery) /\ (s.query => q.requests # {})
      BY <1>1, <2>1 DEF ConnInv, Live, Idle, Closed, Handshaking, Resolving, Connecting, Streaming, NoServer
    <3>3. FreedServer(s) \in Server
      BY <1>1, FreedTypes DEF ConnInv, ConnTypeOK
    <3>4. qry'[c] \in Query /\ rmt'[c] \in Remote
      BY <1>1, <3>1 DEF ConnInv, ConnTypeOK, Query
    <3>5. Closed(srv'[c], rmt'[c], qry'[c])
      BY <1>1, <3>1, <3>2 DEF Closed, FreedServer, ConnInv, ConnTypeOK, Server, Query, NoRemote, NoQuery
    <3>6. QED
      BY <3>1, <3>3, <3>4, <3>5
  <2>2. CASE CloseBoth(c) /\ s.remote
    <3>1. /\ srv'[c] = [FreedServer(s) EXCEPT !.remote = s.remote /\ ~r.server]
          /\ rmt'[c] = FreedRemote(r)
          /\ qry'[c] = IF s.query THEN [q EXCEPT !.server = FALSE] ELSE q
      BY <2>2 DEF RelayInv, CloseBoth, OrphanQuery
    <3>2. ~s.query /\ q.obj # "live"
      BY <1>1, <2>2 DEF ConnInv, Live, Idle, Closed, Handshaking, Resolving, Connecting, Streaming, NoServer
    <3>3. srv'[c] \in Server /\ rmt'[c] \in Remote /\ qry'[c] \in Query
      <4>1. FreedServer(s) \in Server
        BY <1>1, FreedTypes DEF ConnInv, ConnTypeOK
      <4>2. (s.remote /\ ~r.server) \in BOOLEAN
        OBVIOUS
      <4>3. srv'[c] \in Server
        BY <3>1, <4>1, <4>2 DEF Server
      <4>4. QED
        BY <1>1, <3>1, <3>2, <4>3, FreedTypes DEF ConnInv, ConnTypeOK
    <3>4. Closed(srv'[c], rmt'[c], qry'[c])
      BY <1>1, <3>1, <3>2 DEF Closed, FreedServer, FreedRemote, ConnInv, ConnTypeOK, Server, Remote
    <3>5. QED
      BY <3>3, <3>4
  <2>3. QED
    BY <2>1, <2>2
<1>6. QED
  BY <1>2, <1>3, <1>4, <1>5 DEF ConnInv, ConnTypeOK

\* accept_cb starts a connection in its first phase, or closes it.
LEMMA AcceptInv ==
    ASSUME RelayInv, NEW c \in Conn, srv[c].obj = "none", Admitted(c) \/ Refused(c),
           UNCHANGED <<rmt, qry, wire>>
    PROVE  Frame(c) /\ ConnInv(srv'[c], rmt'[c], qry'[c], wire'[c])
<1>1. ConnInv(srv[c], rmt[c], qry[c], wire[c])
  BY DEF RelayInv
<1>2. Idle(srv[c], rmt[c], qry[c], wire[c])
  BY <1>1 DEF ConnInv, Live, Closed
<1>3. Frame(c)
  BY DEF RelayInv, Frame, Admitted, Refused
<1>7. /\ rmt'[c] \in Remote /\ qry'[c] \in Query /\ wire'[c] \in Wire
      /\ Delivered(wire'[c])
  BY <1>1 DEF ConnInv, ConnTypeOK
<1>4. CASE Admitted(c)
  <2>1. srv'[c] = [NewServer EXCEPT !.recv = TRUE, !.timer = TRUE]
    BY <1>4 DEF RelayInv, Admitted
  <2>2. srv'[c] \in Server
    BY <2>1, NoTypes DEF NewServer, Server, Object
  <2>3. Handshaking(srv'[c], rmt'[c], qry'[c], wire'[c])
    BY <1>2, <2>1 DEF Idle, Handshaking, DownUnused, NewServer, NoServer, NoWire
  <2>4. Live(srv'[c], rmt'[c], qry'[c], wire'[c])
    BY <2>1, <2>3 DEF Live, NewServer, NoServer
  <2>5. QED
    BY <1>3, <1>7, <2>2, <2>4 DEF ConnInv, ConnTypeOK
<1>5. CASE Refused(c)
  <2>1. srv'[c] = [NoServer EXCEPT !.obj = "freed"]
    BY <1>2, <1>5 DEF RelayInv, Refused, Idle
  <2>2. srv'[c] \in Server
    BY <2>1, NoTypes DEF Server, Object
  <2>3. Closed(srv'[c], rmt'[c], qry'[c])
    BY <1>2, <2>1 DEF Idle, Closed, NoServer, NoRemote, NoQuery
  <2>4. QED
    BY <1>3, <1>7, <2>2, <2>3 DEF ConnInv, ConnTypeOK
<1>6. QED
  BY <1>4, <1>5

\* A server that is being read from is in its handshake or streaming.
LEMMA ReadingPhase ==
    ASSUME RelayInv, NEW c \in Conn, srv[c].recv
    PROVE  /\ ConnInv(srv[c], rmt[c], qry[c], wire[c])
           /\ srv[c].obj = "live" /\ srv[c].timer
           /\ \/ Handshaking(srv[c], rmt[c], qry[c], wire[c])
              \/ Streaming(srv[c], rmt[c], qry[c], wire[c])
  BY DEF RelayInv, ConnInv, Idle, NoServer, Closed, Live, Resolving, Connecting

\* What splitting n bytes gives when k of N nonce bytes are known already.
IsSplit(N, k, n, b) == b = IF n <= N - k THEN n ELSE N - k

LEMMA NonceArithmetic ==
    ASSUME NEW N \in Nat, NEW k \in Nat, k <= N, NEW n \in Nat,
           NEW b, IsSplit(N, k, n, b)
    PROVE  /\ b \in Nat /\ n - b \in Nat /\ b + (n - b) = n /\ k + b <= N
           /\ n - b > 0 => k + b = N
           /\ k = N => b = 0
<1>1. CASE n <= N - k
  BY <1>1 DEF IsSplit
<1>2. CASE ~(n <= N - k)
  BY <1>2 DEF IsSplit
<1>3. QED
  BY <1>1, <1>2

\* How many of n received bytes are nonce, and how many are left.
LEMMA NonceSplit ==
    ASSUME RelayInv, NEW c \in Conn, srv[c].recv, NEW n \in 1..BUF_SIZE
    PROVE  /\ NonceBytes(c, n) \in Nat /\ PlainLen(c, n) \in Nat
           /\ NonceBytes(c, n) + PlainLen(c, n) = n
           /\ srv[c].nonce + NonceBytes(c, n) <= NONCE
           /\ PlainLen(c, n) > 0 => srv[c].nonce + NonceBytes(c, n) = NONCE
           /\ srv[c].stage = "STREAM" => NonceBytes(c, n) = 0
<1>1. srv[c].nonce \in 0..NONCE /\ NONCE \in Nat /\ n \in Nat
  BY ReadingPhase, RelayAssumption DEF ConnInv, ConnTypeOK, Server
<1>2. srv[c].stage = "STREAM" => srv[c].nonce = NONCE
  BY ReadingPhase DEF Handshaking, Streaming
<1>3. srv[c].nonce \in Nat /\ srv[c].nonce <= NONCE
  BY <1>1
<1>4. IsSplit(NONCE, srv[c].nonce, n, NonceBytes(c, n))
  BY DEF NonceBytes, IsSplit
<1>5. PlainLen(c, n) = n - NonceBytes(c, n)
  BY DEF PlainLen
<1>6. /\ NonceBytes(c, n) \in Nat /\ n - NonceBytes(c, n) \in Nat
      /\ NonceBytes(c, n) + (n - NonceBytes(c, n)) = n
      /\ srv[c].nonce + NonceBytes(c, n) <= NONCE
      /\ n - NonceBytes(c, n) > 0 => srv[c].nonce + NonceBytes(c, n) = NONCE
      /\ srv[c].nonce = NONCE => NonceBytes(c, n) = 0
  BY <1>1, <1>3, <1>4, NonceArithmetic
<1>7. QED
  BY <1>2, <1>5, <1>6

\* A server that is read has a remote exactly when it streams.
LEMMA ReadingRemote ==
    ASSUME RelayInv, NEW c \in Conn, srv[c].recv
    PROVE  /\ srv[c].remote <=> srv[c].stage = "STREAM"
           /\ srv[c].stage \in {"INIT", "STREAM"}
  BY ReadingPhase DEF Handshaking, Streaming, ConnInv, ConnTypeOK, Server

-----------------------------------------------------------------------------
(* server_recv_cb *)

\* The error paths of server_recv_cb close the connection.
LEMMA ServerRecvErrorInv ==
    ASSUME RelayInv, NEW c \in Conn,
           \/ ServerRecvClose(c) \/ ServerRecvCryptoError(c)
           \/ ServerRecvMalformed(c) \/ ServerRecvConnectFail(c)
    PROVE  RelayInv'
<1>1. /\ loop = "run" /\ loop' = loop /\ srv[c].recv
  BY DEF ServerRecvClose, ServerRecvCryptoError, ServerRecvMalformed, ServerRecvConnectFail, Received
<1>2. srv[c].obj = "live"
  BY <1>1, ReadingPhase
<1>3. (CloseServer(c) /\ ~srv[c].remote) \/ (CloseBoth(c) /\ srv[c].remote)
  BY <1>1, ReadingRemote DEF ServerRecvClose, ServerRecvCryptoError, ServerRecvMalformed, ServerRecvConnectFail
<1>4. PICK n \in Nat : wire' = [wire EXCEPT ![c].cin = @ + n] \/ wire' = wire
  <2>1. \A n \in 1..BUF_SIZE : n \in Nat
    BY RelayAssumption
  <2>2. 0 \in Nat
    OBVIOUS
  <2>3. QED
    BY <2>1, <2>2 DEF ServerRecvClose, ServerRecvCryptoError, ServerRecvMalformed, ServerRecvConnectFail
<1>5. Frame(c) /\ ConnInv(srv'[c], rmt'[c], qry'[c], wire'[c])
  BY <1>2, <1>3, <1>4, CloseInv
<1>6. QED
  BY <1>1, <1>5, FrameInv

\* CRYPTO_NEED_MORE.
LEMMA ServerRecvNeedMoreInv ==
    ASSUME RelayInv, NEW c \in Conn, ServerRecvNeedMore(c)
    PROVE  RelayInv'
<1>1. PICK n \in 1..BUF_SIZE :
        /\ Received(c, n)
        /\ PlainLen(c, n) = 0
        /\ wire' = [wire EXCEPT ![c].cin = @ + n]
        /\ IF srv[c].stage # "STREAM" /\ srv[c].frag > MAX_FRAG
           THEN CloseServer(c) /\ report_addr(c, MALICIOUS)
           ELSE /\ srv' = [srv EXCEPT ![c].nonce = @ + n, ![c].frag = @ + 1]
                /\ UNCHANGED <<rmt, qry, block_list>>
        /\ UNCHANGED loop
  BY DEF ServerRecvNeedMore
<1>2. /\ loop = "run" /\ loop' = loop /\ srv[c].recv /\ n \in Nat \ {0}
  BY <1>1, RelayAssumption DEF Received
<1>3. /\ ConnInv(srv[c], rmt[c], qry[c], wire[c])
      /\ srv[c].obj = "live" /\ srv[c].timer
  BY <1>2, ReadingPhase
<1>4. /\ NonceBytes(c, n) = n /\ srv[c].nonce + n <= NONCE
      /\ srv[c].stage # "STREAM"
  BY <1>1, <1>2, NonceSplit
<1>5. Handshaking(srv[c], rmt[c], qry[c], wire[c])
  BY <1>2, <1>4, ReadingPhase DEF Streaming
<1>6. CASE srv[c].frag > MAX_FRAG
  <2>1. CloseServer(c) /\ ~srv[c].remote
    BY <1>1, <1>4, <1>5, <1>6 DEF Handshaking
  <2>2. Frame(c) /\ ConnInv(srv'[c], rmt'[c], qry'[c], wire'[c])
    BY <1>1, <1>2, <1>3, <2>1, CloseInv
  <2>3. QED
    BY <1>2, <2>2, FrameInv
<1>7. CASE ~(srv[c].frag > MAX_FRAG)
  <2>1. /\ srv' = [srv EXCEPT ![c].nonce = @ + n, ![c].frag = @ + 1]
        /\ rmt' = rmt /\ qry' = qry /\ wire' = [wire EXCEPT ![c].cin = @ + n]
    BY <1>1, <1>7
  <2>2. Frame(c)
    BY <2>1 DEF RelayInv, Frame
  <2>3. /\ srv'[c] = [srv[c] EXCEPT !.nonce = @ + n, !.frag = @ + 1]
        /\ wire'[c] = [wire[c] EXCEPT !.cin = @ + n]
        /\ rmt'[c] = rmt[c] /\ qry'[c] = qry[c]
    BY <2>1 DEF RelayInv
  <2>4. srv[c] \in Server /\ wire[c] \in Wire /\ rmt[c] \in Remote /\ qry[c] \in Query
    BY <1>3 DEF ConnInv, ConnTypeOK
  <2>5. srv'[c] \in Server
    <3>1. srv[c].nonce + n \in 0..NONCE /\ srv[c].frag + 1 \in Nat
      BY <1>2, <1>4, <2>4, RelayAssumption DEF Server
    <3>2. QED
      BY <2>3, <2>4, <3>1 DEF Server
  <2>6. wire'[c] \in Wire
    <3>1. wire[c].cin + n \in Nat
      BY <1>2, <2>4 DEF Wire
    <3>2. QED
      BY <2>3, <2>4, <3>1 DEF Wire
  <2>7. Delivered(wire'[c])
    BY <1>3, <2>3, <2>4 DEF ConnInv, Delivered, Wire
  <2>8. Handshaking(srv'[c], rmt'[c], qry'[c], wire'[c])
    BY <1>2, <1>5, <2>3, <2>4 DEF Handshaking, DownUnused, Server, Wire
  <2>9. Live(srv'[c], rmt'[c], qry'[c], wire'[c])
    BY <1>3, <2>3, <2>4, <2>8 DEF Live, Server
  <2>10. QED
    BY <1>2, <2>2, <2>3, <2>4, <2>5, <2>6, <2>7, <2>9, FrameInv DEF ConnInv, ConnTypeOK
<1>8. QED
  BY <1>6, <1>7

-----------------------------------------------------------------------------
(* Delivering bytes *)

\* t is what one end of the uplink has received.
UpPrefix(t) == \A i \in 1..Len(t) : t[i] = UpByte(i)

\* The s elements of d that follow its first k continue the first l bytes.
UpPart(d, k, s, l) == \A i \in 1..s : d[k + i] = UpByte(l + i)

\* Sending s bytes of a buffer that continues the uplink.
LEMMA UpExtended ==
    ASSUME NEW t \in Seq(Nat), UpPrefix(t),
           NEW d \in Seq(Nat), NEW k \in Nat, NEW s \in Nat, Fits(d, k, s),
           UpPart(d, k, s, Len(t)),
           NEW u, u = Extend(t, d, k, s)
    PROVE  u \in Seq(Nat) /\ Len(u) = Len(t) + s /\ UpPrefix(u)
<1>1. Len(t) \in Nat
  BY LenProperties
<1>2. /\ u \in Seq(Nat) /\ Len(u) = Len(t) + s
      /\ \A i \in 1..Len(t) : u[i] = t[i]
      /\ \A i \in 1..s : u[Len(t) + i] = d[k + i]
  <2>1. u \in Seq(Nat) /\ Len(u) = Len(t) + s /\ Keeps(t, u) /\ Adds(u, Len(t), d, k, s)
    BY AppendPart
  <2>2. QED
    BY <2>1 DEF Keeps, Adds
<1>3. ASSUME NEW i \in 1..Len(u) PROVE u[i] = UpByte(i)
  <2>1. CASE i \in 1..Len(t)
    BY <1>2, <2>1 DEF UpPrefix
  <2>2. CASE i \notin 1..Len(t)
    <3>1. i - Len(t) \in 1..s /\ i = Len(t) + (i - Len(t))
      BY <1>1, <1>2, <2>2
    <3>2. PICK j \in 1..s : i = Len(t) + j
      BY <3>1
    <3>3. QED
      BY <1>2, <3>2 DEF UpPart
  <2>3. QED
    BY <2>1, <2>2
<1>4. QED
  BY <1>2, <1>3 DEF UpPrefix

\* t is what one end of the downlink has received.
DownPrefix(t) == \A i \in 1..Len(t) : t[i] = DownByte(i)

\* The s elements of d that follow its first k continue the first l bytes.
DownPart(d, k, s, l) == \A i \in 1..s : d[k + i] = DownByte(l + i)

\* Sending s bytes of a buffer that continues the downlink.
LEMMA DownExtended ==
    ASSUME NEW t \in Seq(Nat), DownPrefix(t),
           NEW d \in Seq(Nat), NEW k \in Nat, NEW s \in Nat, Fits(d, k, s),
           DownPart(d, k, s, Len(t)),
           NEW u, u = Extend(t, d, k, s)
    PROVE  u \in Seq(Nat) /\ Len(u) = Len(t) + s /\ DownPrefix(u)
<1>1. Len(t) \in Nat
  BY LenProperties
<1>2. /\ u \in Seq(Nat) /\ Len(u) = Len(t) + s
      /\ \A i \in 1..Len(t) : u[i] = t[i]
      /\ \A i \in 1..s : u[Len(t) + i] = d[k + i]
  <2>1. u \in Seq(Nat) /\ Len(u) = Len(t) + s /\ Keeps(t, u) /\ Adds(u, Len(t), d, k, s)
    BY AppendPart
  <2>2. QED
    BY <2>1 DEF Keeps, Adds
<1>3. ASSUME NEW i \in 1..Len(u) PROVE u[i] = DownByte(i)
  <2>1. CASE i \in 1..Len(t)
    BY <1>2, <2>1 DEF DownPrefix
  <2>2. CASE i \notin 1..Len(t)
    <3>1. i - Len(t) \in 1..s /\ i = Len(t) + (i - Len(t))
      BY <1>1, <1>2, <2>2
    <3>2. PICK j \in 1..s : i = Len(t) + j
      BY <3>1
    <3>3. QED
      BY <1>2, <3>2 DEF DownPart
  <2>3. QED
    BY <2>1, <2>2
<1>4. QED
  BY <1>2, <1>3 DEF DownPrefix

\* STREAM: what is read is sent, or waits where remote_send_cb finds it.
LEMMA ForwardUpInv ==
    ASSUME RelayInv, NEW c \in Conn, NEW n \in 1..BUF_SIZE, NEW s \in 0..n, ForwardUp(c, n, s)
    PROVE  RelayInv'
<1> DEFINE d == Plain(c, n)
<1>1. /\ loop = "run" /\ loop' = loop /\ srv[c].recv /\ srv[c].stage = "STREAM"
  BY DEF ForwardUp, Received
<1>2. n \in Nat \ {0} /\ s \in Nat /\ s <= n
  BY RelayAssumption
<1>3. /\ ConnInv(srv[c], rmt[c], qry[c], wire[c])
      /\ Streaming(srv[c], rmt[c], qry[c], wire[c])
      /\ srv[c].obj = "live"
  BY <1>1, ReadingPhase DEF Handshaking
<1>4. srv[c] \in Server /\ wire[c] \in Wire /\ rmt[c] \in Remote /\ qry[c] \in Query
  BY <1>3 DEF ConnInv, ConnTypeOK
<1>5. /\ wire[c].cin \in Nat /\ wire[c].toRemote \in Seq(Nat)
      /\ Preamble \in Nat /\ Len(wire[c].toRemote) \in Nat
  BY <1>4, RelayAssumption, LenProperties DEF Preamble, Wire
<1>6. d = Bytes(wire[c].cin, n)
  <2>1. NonceBytes(c, n) = 0 /\ PlainLen(c, n) = n
    BY <1>1, <1>2, NonceSplit
  <2>2. wire[c].cin + 0 = wire[c].cin
    BY <1>5
  <2>3. QED
    BY <2>1, <2>2 DEF Plain
<1>7. /\ srv'[c] = [srv[c] EXCEPT !.recv = (s = n), !.timer = TRUE]
      /\ wire'[c] = [wire[c] EXCEPT !.cin = @ + n, !.toRemote = @ \o SubSeq(d, 1, s)]
      /\ rmt'[c] = [rmt[c] EXCEPT !.buf =
                     IF s < n THEN [data |-> d, len |-> n - s, idx |-> s]
                              ELSE [data |-> d, len |-> n, idx |-> @.idx],
                   !.send = @ \/ s < n]
      /\ qry'[c] = qry[c]
  BY DEF RelayInv, ForwardUp
<1>8. Frame(c)
  BY DEF RelayInv, Frame, ForwardUp
<1> HIDE DEF d
<1>9. d \in Seq(Nat) /\ Len(d) = n /\ \A i \in 1..n : d[i] = wire[c].cin + i
  BY <1>2, <1>5, <1>6, BytesIsSeq
<1>10. wire[c].cin = Preamble + Len(wire[c].toRemote) /\ ~rmt[c].send
  BY <1>1, <1>3 DEF Streaming, UpIdle
<1>11. /\ wire'[c].toRemote = wire[c].toRemote \o SubSeq(d, 0 + 1, 0 + s)
       /\ wire'[c].toClient = wire[c].toClient
       /\ wire'[c].cin = wire[c].cin + n
       /\ wire'[c].rin = wire[c].rin
  <2>1. 0 + 1 = 1 /\ 0 + s = s
    BY <1>2
  <2>2. QED
    BY <1>4, <1>7, <2>1 DEF Wire
<1>12. /\ wire'[c].toRemote \in Seq(Nat)
       /\ Len(wire'[c].toRemote) = Len(wire[c].toRemote) + s
       /\ \A i \in 1..Len(wire'[c].toRemote) : wire'[c].toRemote[i] = UpByte(i)
  <2>1. 0 + s <= Len(d) /\ 0 \in Nat
    BY <1>2, <1>9
  <2>2. \A i \in 1..s : d[0 + i] = UpByte(Len(wire[c].toRemote) + i)
    BY <1>2, <1>5, <1>9, <1>10 DEF UpByte
  <2>3. \A i \in 1..Len(wire[c].toRemote) : wire[c].toRemote[i] = UpByte(i)
    BY <1>3 DEF ConnInv, Delivered
  <2> DEFINE t == wire[c].toRemote
             u == wire'[c].toRemote
  <2>4. /\ t \in Seq(Nat) /\ \A i \in 1..Len(t) : t[i] = UpByte(i)
        /\ \A i \in 1..s : d[0 + i] = UpByte(Len(t) + i)
        /\ u = t \o SubSeq(d, 0 + 1, 0 + s)
    BY <1>5, <1>11, <2>2, <2>3
  <2> HIDE DEF t, u
  <2>5. u \in Seq(Nat) /\ Len(u) = Len(t) + s /\ \A i \in 1..Len(u) : u[i] = UpByte(i)
    <3>1. d \in Seq(Nat) /\ s \in Nat /\ t \in Seq(Nat) /\ 0 \in Nat
      BY <1>2, <1>9, <2>4
    <3>2. /\ UpPrefix(t) /\ UpPart(d, 0, s, Len(t))
          /\ Fits(d, 0, s) /\ u = Extend(t, d, 0, s)
      BY <2>1, <2>4 DEF UpPrefix, UpPart, Fits, Extend
    <3>3. u \in Seq(Nat) /\ Len(u) = Len(t) + s /\ UpPrefix(u)
      BY <3>1, <3>2, UpExtended
    <3>4. QED
      BY <3>3 DEF UpPrefix
  <2>6. QED
    BY <2>5 DEF t, u
<1>13. Delivered(wire'[c])
  BY <1>3, <1>11, <1>12 DEF ConnInv, Delivered
<1>14. wire'[c] \in Wire
  <2>1. wire[c].cin + n \in Nat
    BY <1>2, <1>5
  <2>2. QED
    BY <1>4, <1>7, <1>11, <1>12, <2>1 DEF Wire
<1>15. srv'[c] \in Server
  <2>1. (s = n) \in BOOLEAN
    OBVIOUS
  <2>2. QED
    BY <1>4, <1>7, <2>1 DEF Server
<1>16. rmt'[c] \in Remote
  <2> DEFINE b == IF s < n THEN [data |-> d, len |-> n - s, idx |-> s]
                           ELSE [data |-> d, len |-> n, idx |-> rmt[c].buf.idx]
  <2>1. b \in Buffer
    BY <1>2, <1>4, <1>9 DEF Buffer, Remote
  <2>2. (rmt[c].send \/ s < n) \in BOOLEAN
    OBVIOUS
  <2>3. rmt'[c] = [rmt[c] EXCEPT !.buf = b, !.send = (rmt[c].send \/ s < n)]
    BY <1>7
  <2> HIDE DEF b
  <2>4. QED
    BY <1>4, <2>1, <2>2, <2>3 DEF Remote
<1>17. /\ srv'[c].obj = "live" /\ srv'[c].timer
       /\ srv'[c].stage = "STREAM" /\ srv'[c].remote /\ ~srv'[c].query
       /\ srv'[c].nonce = NONCE /\ (srv'[c].recv <=> s = n)
       /\ srv'[c].send = srv[c].send /\ srv'[c].einit = srv[c].einit /\ srv'[c].buf = srv[c].buf
  BY <1>3, <1>4, <1>7 DEF Streaming, Server
<1>18. /\ rmt'[c].obj = "live" /\ rmt'[c].server /\ rmt'[c].connected
       /\ rmt'[c].recv = rmt[c].recv /\ (rmt'[c].send <=> s < n)
  BY <1>3, <1>4, <1>7, <1>10 DEF Streaming, Remote
<1>19. (rmt'[c].recv <=> ~srv'[c].send) /\ (srv'[c].recv <=> ~rmt'[c].send)
  BY <1>2, <1>3, <1>17, <1>18 DEF Streaming
<1>20. IF srv'[c].send THEN srv'[c].einit /\ srv'[c].buf.len > 0 /\ DownWaiting(srv'[c].buf, wire'[c])
                       ELSE DownIdle(srv'[c], wire'[c])
  BY <1>3, <1>11, <1>17 DEF Streaming, DownWaiting, DownIdle
<1>21. IF rmt'[c].send THEN rmt'[c].buf.len > 0 /\ UpWaiting(rmt'[c].buf, wire'[c])
                       ELSE UpIdle(wire'[c])
  <2>1. CASE s < n
    <3>1. rmt'[c].buf = [data |-> d, len |-> n - s, idx |-> s]
      BY <1>4, <1>7, <2>1 DEF Remote
    <3>2. rmt'[c].buf.idx = s /\ rmt'[c].buf.len = n - s /\ rmt'[c].buf.data = d
      BY <3>1
    <3>3. \A i \in 1..(n - s) : d[s + i] = UpByte(Len(wire'[c].toRemote) + i)
      <4>1. ASSUME NEW i \in 1..(n - s) PROVE d[s + i] = UpByte(Len(wire'[c].toRemote) + i)
        <5>1. s + i \in 1..n /\ i \in Nat
          BY <1>2
        <5>2. d[s + i] = wire[c].cin + (s + i)
          BY <1>9, <5>1
        <5>3. Len(wire'[c].toRemote) = Len(wire[c].toRemote) + s
          BY <1>12
        <5>4. wire[c].cin + (s + i) = Preamble + (Len(wire'[c].toRemote) + i)
          <6> DEFINE a == wire[c].cin
                     l == Len(wire[c].toRemote)
                     l2 == Len(wire'[c].toRemote)
          <6>1. a \in Nat /\ l \in Nat /\ a = Preamble + l /\ l2 = l + s
            BY <1>5, <1>10, <5>3
          <6> HIDE DEF a, l, l2
          <6>2. a + (s + i) = Preamble + (l2 + i)
            BY <1>2, <1>5, <5>1, <6>1, SMTT(30)
          <6>3. QED
            BY <6>2 DEF a, l2
        <5>5. QED
          BY <5>2, <5>4 DEF UpByte
      <4>2. QED
        BY <4>1
    <3>4. wire'[c].cin = Preamble + Len(wire'[c].toRemote) + (n - s)
      <4>1. Len(wire'[c].toRemote) = Len(wire[c].toRemote) + s /\ wire'[c].cin = wire[c].cin + n
        BY <1>11, <1>12
      <4>2. QED
        BY <1>2, <1>5, <1>10, <4>1
    <3>5. s + (n - s) <= Len(d) /\ n - s > 0
      BY <1>2, <1>9, <2>1
    <3>6. QED
      BY <1>18, <2>1, <3>2, <3>3, <3>4, <3>5 DEF UpWaiting
  <2>2. CASE ~(s < n)
    BY <1>2, <1>5, <1>10, <1>11, <1>12, <1>18, <2>2 DEF UpIdle
  <2>3. QED
    BY <2>1, <2>2
<1>22. Streaming(srv'[c], rmt'[c], qry'[c], wire'[c])
  BY <1>3, <1>7, <1>17, <1>18, <1>19, <1>20, <1>21 DEF Streaming
<1>23. ConnInv(srv'[c], rmt'[c], qry'[c], wire'[c])
  BY <1>4, <1>7, <1>13, <1>14, <1>15, <1>16, <1>17, <1>22 DEF ConnInv, ConnTypeOK, Live
<1>24. QED
  BY <1>1, <1>8, <1>23, FrameInv

\* STREAM, for whatever send accepts.
LEMMA ServerRecvForwardInv ==
    ASSUME RelayInv, NEW c \in Conn, ServerRecvForward(c)
    PROVE  RelayInv'
  BY ForwardUpInv DEF ServerRecvForward

\* The buffer of a server that has read its header holds the payload behind it.
LEMMA HeaderBuffer ==
    ASSUME RelayInv, NEW c \in Conn, NEW n \in 1..BUF_SIZE, srv[c].recv,
           srv[c].stage = "INIT", PlainLen(c, n) >= HEADER
    PROVE  /\ WithHeader(c, n).buf \in Buffer
           /\ WithHeader(c, n).buf.idx = 0
           /\ UpWaiting(WithHeader(c, n).buf, [wire[c] EXCEPT !.cin = @ + n])
<1> DEFINE P  == PlainLen(c, n)
           d  == Plain(c, n)
           b  == WithHeader(c, n).buf
           w2 == [wire[c] EXCEPT !.cin = @ + n]
           e  == SubSeq(d, HEADER + 1, HEADER + (P - HEADER))
           cin == wire[c].cin
           N  == NonceBytes(c, n)
<1>1. /\ ConnInv(srv[c], rmt[c], qry[c], wire[c])
      /\ Handshaking(srv[c], rmt[c], qry[c], wire[c])
  BY ReadingPhase DEF Streaming
<1>2. srv[c] \in Server /\ wire[c] \in Wire
  BY <1>1 DEF ConnInv, ConnTypeOK
<1>3. /\ N \in Nat /\ P \in Nat /\ N + P = n /\ srv[c].nonce + N = NONCE
      /\ n \in Nat /\ HEADER \in Nat \ {0} /\ NONCE \in Nat /\ P >= HEADER
  BY RelayAssumption, NonceSplit
<1>4. cin = srv[c].nonce /\ cin \in Nat /\ wire[c].toRemote = <<>> /\ srv[c].buf = EmptyBuffer
  BY <1>1, <1>2 DEF Handshaking, Wire
<1>5. d = Bytes(cin + N, P) /\ cin + N = NONCE
  BY <1>3, <1>4 DEF Plain
<1>6. P = HEADER + (P - HEADER) /\ P - HEADER \in Nat
  BY <1>3
<1>7. b = [data |-> e, len |-> P - HEADER, idx |-> 0]
  <2>1. b = [data |-> SubSeq(d, HEADER + 1, P), len |-> P - HEADER, idx |-> srv[c].buf.idx]
    BY <1>2 DEF WithHeader, Server
  <2>2. srv[c].buf.idx = 0
    BY <1>4 DEF EmptyBuffer
  <2>3. QED
    BY <1>6, <2>1, <2>2
<1>8. /\ w2.toRemote = <<>> /\ w2.cin = cin + n
  BY <1>2, <1>4 DEF Wire
<1> HIDE DEF P, d, b, w2, e, cin, N
<1>9. cin + n = Preamble + (P - HEADER) /\ Preamble = NONCE + HEADER /\ Preamble \in Nat
  BY <1>3, <1>4 DEF Preamble
<1>10. d \in Seq(Nat) /\ Len(d) = P /\ \A i \in 1..P : d[i] = NONCE + i
  <2>1. d = Bytes(NONCE, P) /\ NONCE \in Nat /\ P \in Nat
    BY <1>3, <1>5
  <2>2. QED
    BY <2>1, BytesIsSeq
<1>11. e \in Seq(Nat) /\ Len(e) = P - HEADER /\ \A i \in 1..(P - HEADER) : e[i] = d[HEADER + i]
  <2>1. HEADER + (P - HEADER) <= Len(d)
    BY <1>3, <1>10
  <2>2. QED
    BY <1>3, <1>6, <1>10, <2>1, Part DEF e
<1>12. \A i \in 1..(P - HEADER) : e[i] = UpByte(0 + i)
  <2> SUFFICES ASSUME NEW i \in 1..(P - HEADER) PROVE e[i] = UpByte(0 + i)
    OBVIOUS
  <2>1. HEADER + i \in 1..P
    BY <1>3
  <2>2. e[i] = NONCE + (HEADER + i)
    BY <1>10, <1>11, <2>1
  <2>3. QED
    BY <1>3, <1>9, <2>2 DEF UpByte
<1>13. b \in Buffer /\ b.idx = 0 /\ b.len = P - HEADER /\ b.data = e
  BY <1>3, <1>6, <1>7, <1>11 DEF Buffer
<1>14. Len(w2.toRemote) = 0
  BY <1>8, EmptySeq
<1>15. UpWaiting(b, w2)
  <2>1. 0 + (P - HEADER) <= Len(e)
    BY <1>6, <1>11
  <2>2. w2.cin = Preamble + 0 + (P - HEADER)
    BY <1>6, <1>8, <1>9
  <2>3. \A i \in 1..(P - HEADER) : e[0 + i] = UpByte(0 + i)
    BY <1>12
  <2>4. QED
    BY <1>13, <1>14, <2>1, <2>2, <2>3 DEF UpWaiting
<1>16. QED
  BY <1>13, <1>15 DEF b, w2

\* connect_to_remote and the copy that follows it hand the waiting bytes over.
LEMMA HandedOver ==
    ASSUME NEW s, s.buf \in Buffer, NEW w, UpWaiting(s.buf, w)
    PROVE  LET r == ConnectedRemote(s)
           IN  /\ r \in Remote /\ r.obj = "live" /\ r.server /\ r.send
               /\ ~r.recv /\ ~r.connected
               /\ UpWaiting(r.buf, w)
<1> DEFINE b == s.buf
           e == SubSeq(b.data, b.idx + 1, b.idx + b.len)
           r == ConnectedRemote(s)
           l == Len(w.toRemote)
<1>1. /\ b.data \in Seq(Nat) /\ b.len \in Nat /\ b.idx \in Nat
      /\ b.idx + b.len <= Len(b.data)
      /\ \A i \in 1..b.len : b.data[b.idx + i] = UpByte(l + i)
      /\ w.cin = Preamble + l + b.len
  BY DEF Buffer, UpWaiting
<1>2. e \in Seq(Nat) /\ Len(e) = b.len /\ \A i \in 1..b.len : e[i] = b.data[b.idx + i]
  BY <1>1, Part
<1>3. r = [NewRemote EXCEPT !.server = TRUE, !.send = TRUE,
                            !.buf = [data |-> e, len |-> b.len, idx |-> 0]]
  BY DEF ConnectedRemote, AtIdx
<1> HIDE DEF e, b, l
<1>4. [data |-> e, len |-> b.len, idx |-> 0] \in Buffer
  BY <1>1, <1>2 DEF Buffer
<1>5. NewRemote \in Remote /\ NewRemote.obj = "live" /\ ~NewRemote.recv /\ ~NewRemote.connected
  BY NoTypes DEF NewRemote, NoRemote, Remote, Object
<1> HIDE DEF r
<1>6. r.obj = "live" /\ r.server /\ r.send /\ ~r.recv /\ ~r.connected
  BY <1>3, <1>5 DEF Remote
<1>7. r \in Remote
  BY <1>3, <1>4, <1>5 DEF Remote
<1>8. r.buf.data = e /\ r.buf.len = b.len /\ r.buf.idx = 0
  BY <1>3, <1>5 DEF Remote
<1>9. 0 + b.len <= Len(e) /\ \A i \in 1..b.len : e[0 + i] = UpByte(l + i)
  BY <1>1, <1>2
<1>10. UpWaiting(r.buf, w)
  BY <1>1, <1>8, <1>9 DEF UpWaiting, l
<1>11. QED
  BY <1>6, <1>7, <1>10 DEF r

\* The server that connect_to_remote has served waits for the connection.
LEMMA ConnectingPhase ==
    ASSUME NEW s \in Server, NEW q, NEW w, UpWaiting(s.buf, w), DownUnused(s, w),
           s.stage # "STREAM", ~s.recv, s.nonce = NONCE, s.obj = "live", s.timer,
           q.obj # "live",
           NEW s2, s2 = [ConnectedServer(s) EXCEPT !.query = FALSE]
    PROVE  /\ s2 \in Server /\ ConnectedRemote(s) \in Remote
           /\ Live(s2, ConnectedRemote(s), q, w)
<1> DEFINE r == ConnectedRemote(s)
<1>1. /\ r \in Remote /\ r.obj = "live" /\ r.server /\ r.send /\ ~r.recv /\ ~r.connected
      /\ UpWaiting(r.buf, w)
  BY HandedOver DEF Server
<1>2. s2 \in Server
  BY EmptyBufferType DEF ConnectedServer, Server
<1>3. /\ s2.stage # "STREAM" /\ s2.remote /\ ~s2.query /\ ~s2.recv /\ s2.nonce = NONCE
      /\ s2.buf = EmptyBuffer /\ s2.send = s.send /\ s2.einit = s.einit
      /\ s2.obj = "live" /\ s2.timer
  BY DEF ConnectedServer, Server
<1> HIDE DEF r
<1>4. Connecting(s2, r, q, w)
  BY <1>1, <1>3 DEF Connecting, DownUnused
<1>5. QED
  BY <1>1, <1>2, <1>3, <1>4 DEF Live, r

\* A server with its header: it no longer reads.
LEMMA HeaderServer ==
    ASSUME RelayInv, NEW c \in Conn, NEW n \in 1..BUF_SIZE, srv[c].recv,
           srv[c].stage = "INIT", PlainLen(c, n) >= HEADER,
           NEW s, s = WithHeader(c, n), NEW w, w = [wire[c] EXCEPT !.cin = @ + n]
    PROVE  /\ s \in Server /\ w \in Wire /\ Delivered(w)
           /\ s.obj = "live" /\ s.timer /\ s.stage = "INIT" /\ s.nonce = NONCE
           /\ ~s.remote /\ ~s.query /\ ~s.recv
           /\ s.buf.idx = 0 /\ UpWaiting(s.buf, w) /\ DownUnused(s, w) /\ w.toRemote = <<>>
           /\ rmt[c] = NoRemote /\ qry[c] = NoQuery
<1>1. /\ ConnInv(srv[c], rmt[c], qry[c], wire[c])
      /\ Handshaking(srv[c], rmt[c], qry[c], wire[c])
      /\ srv[c].obj = "live" /\ srv[c].timer
  BY ReadingPhase DEF Streaming
<1>2. srv[c] \in Server /\ wire[c] \in Wire
  BY <1>1 DEF ConnInv, ConnTypeOK
<1>3. s.buf \in Buffer /\ s.buf.idx = 0 /\ UpWaiting(s.buf, w)
  BY HeaderBuffer
<1>4. s = [srv[c] EXCEPT !.nonce = NONCE, !.recv = FALSE, !.buf = s.buf]
  BY <1>2 DEF WithHeader, Server
<1>5. NONCE \in 0..NONCE
  BY RelayAssumption
<1>6. s \in Server
  BY <1>2, <1>3, <1>4, <1>5 DEF Server
<1>7. /\ s.obj = "live" /\ s.timer /\ s.stage = "INIT" /\ s.nonce = NONCE
      /\ ~s.remote /\ ~s.query /\ ~s.recv /\ ~s.send /\ ~s.einit
  BY <1>1, <1>2, <1>4 DEF Handshaking, DownUnused, Server
<1>8. w \in Wire
  <2>1. wire[c].cin + n \in Nat
    BY <1>2, RelayAssumption, SMTT(30) DEF Wire
  <2>2. QED
    BY <1>2, <2>1 DEF Wire
<1>9. /\ w.toRemote = wire[c].toRemote /\ w.toClient = wire[c].toClient /\ w.rin = wire[c].rin
  BY <1>2 DEF Wire
<1>10. w.toRemote = <<>> /\ DownUnused(s, w) /\ rmt[c] = NoRemote /\ qry[c] = NoQuery
  BY <1>1, <1>7, <1>9 DEF Handshaking, DownUnused
<1>11. Delivered(w)
  BY <1>1, <1>9 DEF ConnInv, Delivered
<1>12. QED
  BY <1>3, <1>6, <1>7, <1>8, <1>10, <1>11

\* The header holds an address.
LEMMA ServerRecvConnectInv ==
    ASSUME RelayInv, NEW c \in Conn, ServerRecvConnect(c)
    PROVE  RelayInv'
<1>1. PICK n \in 1..BUF_SIZE :
        /\ Received(c, n)
        /\ srv[c].stage = "INIT" /\ PlainLen(c, n) >= HEADER
        /\ srv' = [srv EXCEPT ![c] = ConnectedServer(WithHeader(c, n))]
        /\ rmt' = [rmt EXCEPT ![c] = ConnectedRemote(WithHeader(c, n))]
        /\ wire' = [wire EXCEPT ![c].cin = @ + n]
        /\ UNCHANGED <<loop, qry, block_list>>
  BY DEF ServerRecvConnect
<1>2. loop = "run" /\ loop' = loop /\ srv[c].recv
  BY <1>1 DEF Received
<1> DEFINE s == WithHeader(c, n)
           w == [wire[c] EXCEPT !.cin = @ + n]
<1>3. Frame(c)
  BY <1>1 DEF RelayInv, Frame
<1>4. /\ srv'[c] = ConnectedServer(s) /\ rmt'[c] = ConnectedRemote(s)
      /\ qry'[c] = qry[c] /\ wire'[c] = w
  BY <1>1 DEF RelayInv
<1>5. /\ s \in Server /\ w \in Wire /\ Delivered(w)
      /\ s.obj = "live" /\ s.timer /\ s.stage = "INIT" /\ s.nonce = NONCE
      /\ ~s.remote /\ ~s.query /\ ~s.recv
      /\ UpWaiting(s.buf, w) /\ DownUnused(s, w)
      /\ qry[c] = NoQuery
  BY <1>1, <1>2, HeaderServer
<1> HIDE DEF s, w
<1>6. ConnectedServer(s) = [ConnectedServer(s) EXCEPT !.query = FALSE]
  BY <1>5 DEF ConnectedServer, Server
<1>7. qry[c].obj # "live" /\ qry[c] \in Query
  BY <1>5, NoTypes DEF NoQuery
<1>8. /\ srv'[c] \in Server /\ rmt'[c] \in Remote
      /\ Live(srv'[c], rmt'[c], qry[c], w)
  BY <1>4, <1>5, <1>6, <1>7, ConnectingPhase
<1>9. ConnInv(srv'[c], rmt'[c], qry'[c], wire'[c])
  BY <1>4, <1>5, <1>7, <1>8 DEF ConnInv, ConnTypeOK
<1>10. QED
  BY <1>2, <1>3, <1>9, FrameInv

\* The header holds a name.
LEMMA ServerRecvQueryInv ==
    ASSUME RelayInv, NEW c \in Conn, ServerRecvQuery(c)
    PROVE  RelayInv'
<1> DEFINE q == [obj |-> "live", server |-> TRUE, requests |-> Family, responses |-> {}]
<1>1. PICK n \in 1..BUF_SIZE :
        /\ Received(c, n)
        /\ srv[c].stage = "INIT" /\ PlainLen(c, n) >= HEADER
        /\ srv' = [srv EXCEPT ![c] = [WithHeader(c, n) EXCEPT
                     !.query = TRUE, !.stage = "RESOLVE"]]
        /\ qry' = [qry EXCEPT ![c] = q]
        /\ wire' = [wire EXCEPT ![c].cin = @ + n]
        /\ UNCHANGED <<loop, rmt, block_list>>
  BY DEF ServerRecvQuery
<1>2. loop = "run" /\ loop' = loop /\ srv[c].recv
  BY <1>1 DEF Received
<1> DEFINE s == WithHeader(c, n)
           w == [wire[c] EXCEPT !.cin = @ + n]
<1>3. Frame(c)
  BY <1>1 DEF RelayInv, Frame
<1>4. /\ srv'[c] = [s EXCEPT !.query = TRUE, !.stage = "RESOLVE"] /\ rmt'[c] = rmt[c]
      /\ qry'[c] = q /\ wire'[c] = w
  BY <1>1 DEF RelayInv
<1>5. /\ s \in Server /\ w \in Wire /\ Delivered(w)
      /\ s.obj = "live" /\ s.timer /\ s.nonce = NONCE
      /\ ~s.remote /\ ~s.recv /\ s.buf.idx = 0 /\ w.toRemote = <<>>
      /\ UpWaiting(s.buf, w) /\ DownUnused(s, w)
      /\ rmt[c] = NoRemote
  <2>1. /\ srv[c].recv /\ srv[c].stage = "INIT" /\ PlainLen(c, n) >= HEADER
        /\ s = WithHeader(c, n) /\ w = [wire[c] EXCEPT !.cin = @ + n]
    BY <1>1, <1>2
  <2>2. /\ s \in Server /\ w \in Wire /\ Delivered(w)
        /\ s.obj = "live" /\ s.timer /\ s.nonce = NONCE
        /\ ~s.remote /\ ~s.recv
        /\ UpWaiting(s.buf, w) /\ DownUnused(s, w)
    BY <2>1, HeaderServer
  <2>3. s.buf.idx = 0
    BY <2>1, HeaderBuffer
  <2>4. w.toRemote = <<>>
    BY <1>2, <2>1, ReadingPhase DEF ConnInv, ConnTypeOK, Wire, Handshaking, Streaming
  <2>5. rmt[c] = NoRemote
    BY <2>1, HeaderServer
  <2>6. QED
    BY <2>2, <2>3, <2>4, <2>5
<1> HIDE DEF s, w
<1>6. srv'[c] \in Server /\ rmt'[c] \in Remote
  BY <1>4, <1>5, NoTypes DEF Server, Stage
<1>7. /\ qry'[c] \in Query /\ qry'[c].obj = "live" /\ qry'[c].server /\ qry'[c].requests # {}
  BY <1>4 DEF Query, Family, Object
<1>8. /\ srv'[c].stage = "RESOLVE" /\ ~srv'[c].remote /\ srv'[c].query /\ ~srv'[c].recv
      /\ srv'[c].nonce = NONCE /\ srv'[c].obj = "live" /\ srv'[c].timer
      /\ srv'[c].buf = s.buf /\ srv'[c].send = s.send /\ srv'[c].einit = s.einit
  BY <1>4, <1>5 DEF Server
<1>9. Resolving(srv'[c], rmt'[c], qry'[c], wire'[c])
  BY <1>4, <1>5, <1>7, <1>8 DEF Resolving, DownUnused
<1>10. ConnInv(srv'[c], rmt'[c], qry'[c], wire'[c])
  BY <1>4, <1>5, <1>6, <1>7, <1>8, <1>9 DEF ConnInv, ConnTypeOK, Live
<1>11. QED
  BY <1>2, <1>3, <1>10, FrameInv

-----------------------------------------------------------------------------
(* The resolver's callbacks *)

\* A live query belongs to a connection that waits for it or has been closed.
LEMMA QueryPhase ==
    ASSUME RelayInv, NEW c \in Conn, qry[c].obj = "live"
    PROVE  /\ ConnInv(srv[c], rmt[c], qry[c], wire[c])
           /\ qry[c].server => /\ Resolving(srv[c], rmt[c], qry[c], wire[c])
                               /\ srv[c].obj = "live" /\ srv[c].timer
           /\ ~qry[c].server => Closed(srv[c], rmt[c], qry[c])
<1>1. ConnInv(srv[c], rmt[c], qry[c], wire[c])
  BY DEF RelayInv
<1>2. QED
  BY <1>1 DEF ConnInv, Idle, NoQuery, Closed, Live, Handshaking, Resolving, Connecting, Streaming

\* A freed query.
LEMMA FreedQueryType == FreedQuery \in Query /\ FreedQuery.obj = "freed" /\ FreedQuery.obj # "live"
  BY NoTypes DEF FreedQuery, Query, Object, NoQuery

\* The first of the two answers.
LEMMA ResolvOneInv ==
    ASSUME RelayInv, NEW c \in Conn, NEW f \in Family, ResolvOne(c, f)
    PROVE  RelayInv'
<1>1. PICK found \in BOOLEAN :
        /\ Answer(c, f, found)
        /\ qry[c].requests # {f}
        /\ qry' = [qry EXCEPT ![c].requests = @ \ {f},
                              ![c].responses = Responses(c, f, found)]
        /\ UNCHANGED <<loop, srv, rmt, wire, block_list>>
  BY DEF ResolvOne
<1>2. /\ loop \in {"run", "cancel"} /\ loop' = loop
      /\ qry[c].obj = "live" /\ f \in qry[c].requests
  BY <1>1 DEF Answer
<1>3. Frame(c)
  BY <1>1 DEF RelayInv, Frame
<1>4. /\ ConnInv(srv[c], rmt[c], qry[c], wire[c])
      /\ qry[c] \in Query
  BY <1>2, QueryPhase DEF ConnInv, ConnTypeOK
<1>5. /\ srv'[c] = srv[c] /\ rmt'[c] = rmt[c] /\ wire'[c] = wire[c]
      /\ qry'[c] = [qry[c] EXCEPT !.requests = @ \ {f}, !.responses = Responses(c, f, found)]
  BY <1>1 DEF RelayInv
<1>6. Responses(c, f, found) \in SUBSET Family /\ qry[c].requests \ {f} \in SUBSET Family
  BY <1>4 DEF Responses, Query
<1>7. qry'[c] \in Query
  BY <1>4, <1>5, <1>6 DEF Query
<1>8. /\ qry'[c].obj = "live" /\ qry'[c].server = qry[c].server
      /\ qry'[c].requests = qry[c].requests \ {f}
  BY <1>2, <1>4, <1>5 DEF Query
<1>9. qry'[c].requests # {}
  <2>1. PICK g \in qry[c].requests : g # f
    BY <1>1, <1>2
  <2>2. g \in qry'[c].requests
    BY <1>8, <2>1
  <2>3. QED
    BY <2>2
<1>10. CASE qry[c].server
  <2>1. Resolving(srv'[c], rmt'[c], qry'[c], wire'[c])
    BY <1>2, <1>5, <1>8, <1>9, <1>10, QueryPhase DEF Resolving
  <2>2. srv'[c].obj = "live" /\ srv'[c].timer
    BY <1>2, <1>5, <1>10, QueryPhase
  <2>3. ConnInv(srv'[c], rmt'[c], qry'[c], wire'[c])
    BY <1>4, <1>5, <1>7, <2>1, <2>2 DEF ConnInv, ConnTypeOK, Live
  <2>4. QED
    BY <1>2, <1>3, <2>3, FrameInv
<1>11. CASE ~qry[c].server
  <2>1. Closed(srv'[c], rmt'[c], qry'[c])
    BY <1>2, <1>5, <1>8, <1>9, <1>11, QueryPhase DEF Closed
  <2>2. ConnInv(srv'[c], rmt'[c], qry'[c], wire'[c])
    BY <1>4, <1>5, <1>7, <2>1 DEF ConnInv, ConnTypeOK
  <2>3. QED
    BY <1>2, <1>3, <2>2, FrameInv
<1>12. QED
  BY <1>10, <1>11

\* The last answer, for a connection that is gone or cannot be made.
LEMMA ResolvEndInv ==
    ASSUME RelayInv, NEW c \in Conn, NEW f \in Family, ResolvAbandoned(c, f) \/ ResolvFail(c, f)
    PROVE  RelayInv'
<1>1. /\ loop \in {"run", "cancel"} /\ loop' = loop
      /\ qry[c].obj = "live" /\ qry' = [qry EXCEPT ![c] = FreedQuery] /\ wire' = wire
  BY DEF ResolvAbandoned, ResolvFail, Answer
<1>2. ConnInv(srv[c], rmt[c], qry[c], wire[c])
  BY <1>1, QueryPhase
<1>3. Frame(c)
  BY DEF RelayInv, Frame, ResolvAbandoned, ResolvFail
<1>4. qry'[c] = FreedQuery /\ wire'[c] = wire[c] /\ qry'[c] \in Query /\ qry'[c].obj # "live"
  BY <1>1, FreedQueryType DEF RelayInv
<1>5. CASE ResolvAbandoned(c, f)
  <2>1. /\ srv'[c] = srv[c] /\ rmt'[c] = rmt[c] /\ ~qry[c].server
    BY <1>5 DEF ResolvAbandoned
  <2>2. Closed(srv'[c], rmt'[c], qry'[c])
    BY <1>1, <1>4, <2>1, QueryPhase DEF Closed
  <2>3. ConnInv(srv'[c], rmt'[c], qry'[c], wire'[c])
    BY <1>2, <1>4, <2>1, <2>2 DEF ConnInv, ConnTypeOK
  <2>4. QED
    BY <1>1, <1>3, <2>3, FrameInv
<1>6. CASE ResolvFail(c, f)
  <2>1. Resolving(srv[c], rmt[c], qry[c], wire[c])
    BY <1>1, <1>6, QueryPhase DEF ResolvFail
  <2>2. /\ srv'[c] = FreedServer(srv[c]) /\ rmt'[c] = rmt[c] /\ rmt[c] = NoRemote
    BY <1>6, <2>1 DEF ResolvFail, RelayInv, Resolving
  <2>3. srv[c] \in Server /\ rmt[c] \in Remote
    BY <1>2 DEF ConnInv, ConnTypeOK
  <2>4. srv'[c] \in Server
    BY <2>2, <2>3, FreedTypes
  <2>5. Closed(srv'[c], rmt'[c], qry'[c])
    BY <1>4, <2>2, <2>3 DEF Closed, FreedServer, NoRemote, Server
  <2>6. ConnInv(srv'[c], rmt'[c], qry'[c], wire'[c])
    BY <1>2, <1>4, <2>2, <2>3, <2>4, <2>5 DEF ConnInv, ConnTypeOK
  <2>7. QED
    BY <1>1, <1>3, <2>6, FrameInv
<1>7. QED
  BY <1>5, <1>6

\* The last answer, with an address to connect to.
LEMMA ResolvConnectInv ==
    ASSUME RelayInv, NEW c \in Conn, NEW f \in Family, ResolvConnect(c, f)
    PROVE  RelayInv'
<1>1. /\ loop \in {"run", "cancel"} /\ loop' = loop
      /\ qry[c].obj = "live" /\ qry[c].server
      /\ srv' = [srv EXCEPT ![c] = [ConnectedServer(@) EXCEPT !.query = FALSE]]
      /\ rmt' = [rmt EXCEPT ![c] = ConnectedRemote(srv[c])]
      /\ qry' = [qry EXCEPT ![c] = FreedQuery]
      /\ wire' = wire
  BY DEF ResolvConnect, Answer
<1>2. /\ ConnInv(srv[c], rmt[c], qry[c], wire[c])
      /\ Resolving(srv[c], rmt[c], qry[c], wire[c])
      /\ srv[c].obj = "live" /\ srv[c].timer
  BY <1>1, QueryPhase
<1>3. Frame(c)
  BY <1>1 DEF RelayInv, Frame
<1>4. /\ srv'[c] = [ConnectedServer(srv[c]) EXCEPT !.query = FALSE]
      /\ rmt'[c] = ConnectedRemote(srv[c]) /\ qry'[c] = FreedQuery /\ wire'[c] = wire[c]
  BY <1>1 DEF RelayInv
<1>5. qry'[c] \in Query /\ qry'[c].obj # "live"
  BY <1>4, FreedQueryType
<1>6. /\ srv[c] \in Server /\ UpWaiting(srv[c].buf, wire[c]) /\ DownUnused(srv[c], wire[c])
      /\ srv[c].stage # "STREAM" /\ ~srv[c].recv /\ srv[c].nonce = NONCE
  BY <1>2 DEF ConnInv, ConnTypeOK, Resolving
<1>7. /\ srv'[c] \in Server /\ rmt'[c] \in Remote
      /\ Live(srv'[c], rmt'[c], qry'[c], wire[c])
  BY <1>2, <1>4, <1>5, <1>6, ConnectingPhase
<1>8. ConnInv(srv'[c], rmt'[c], qry'[c], wire'[c])
  BY <1>2, <1>4, <1>5, <1>7 DEF ConnInv, ConnTypeOK
<1>9. QED
  BY <1>1, <1>3, <1>8, FrameInv

-----------------------------------------------------------------------------
(* The paths that close a connection *)

\* An active watcher of a remote belongs to a live connection.
LEMMA RemotePhase ==
    ASSUME RelayInv, NEW c \in Conn, rmt[c].send \/ rmt[c].recv
    PROVE  /\ ConnInv(srv[c], rmt[c], qry[c], wire[c])
           /\ srv[c].obj = "live" /\ srv[c].timer /\ srv[c].remote
           /\ \/ Connecting(srv[c], rmt[c], qry[c], wire[c])
              \/ Streaming(srv[c], rmt[c], qry[c], wire[c])
<1>1. ConnInv(srv[c], rmt[c], qry[c], wire[c])
  BY DEF RelayInv
<1>2. QED
  BY <1>1 DEF ConnInv, Idle, NoRemote, Closed, Live, Handshaking, Resolving, Connecting, Streaming

\* A server's write watcher is active only while it streams.
LEMMA ServerSendPhase ==
    ASSUME RelayInv, NEW c \in Conn, srv[c].send
    PROVE  /\ ConnInv(srv[c], rmt[c], qry[c], wire[c])
           /\ srv[c].obj = "live" /\ srv[c].timer /\ srv[c].remote
           /\ Streaming(srv[c], rmt[c], qry[c], wire[c])
<1>1. ConnInv(srv[c], rmt[c], qry[c], wire[c])
  BY DEF RelayInv
<1>2. QED
  BY <1>1 DEF ConnInv, Idle, NoServer, Closed, Live, Handshaking, Resolving, Connecting,
              Streaming, DownUnused

\* Failures of either socket and the idle timer close the whole connection.
LEMMA CloseActionsInv ==
    ASSUME RelayInv, NEW c \in Conn,
           \/ RemoteSendClose(c) \/ RemoteRecvClose(c) \/ ServerSendClose(c)
           \/ server_timeout_cb(c)
    PROVE  RelayInv'
<1>1. loop = "run" /\ loop' = loop /\ wire' = wire
  BY DEF RemoteSendClose, RemoteRecvClose, ServerSendClose, server_timeout_cb
<1>2. srv[c].obj = "live"
  <2>1. CASE RemoteSendClose(c) \/ RemoteRecvClose(c)
    BY <2>1, RemotePhase DEF RemoteSendClose, RemoteRecvClose
  <2>2. CASE ServerSendClose(c)
    BY <2>2, ServerSendPhase DEF ServerSendClose
  <2>3. CASE server_timeout_cb(c)
    BY <2>3 DEF server_timeout_cb, RelayInv, ConnInv, Idle, NoServer, Closed, Live
  <2>4. QED
    BY <2>1, <2>2, <2>3
<1>3. (CloseServer(c) /\ ~srv[c].remote) \/ (CloseBoth(c) /\ srv[c].remote)
  <2>1. CASE RemoteSendClose(c) \/ RemoteRecvClose(c)
    BY <2>1, RemotePhase DEF RemoteSendClose, RemoteRecvClose
  <2>2. CASE ServerSendClose(c) \/ server_timeout_cb(c)
    BY <2>2 DEF ServerSendClose, server_timeout_cb
  <2>3. QED
    BY <2>1, <2>2
<1>4. 0 \in Nat
  OBVIOUS
<1>5. Frame(c) /\ ConnInv(srv'[c], rmt'[c], qry'[c], wire'[c])
  BY <1>1, <1>2, <1>3, <1>4, CloseInv
<1>6. QED
  BY <1>1, <1>5, FrameInv

-----------------------------------------------------------------------------
(* remote_send_cb *)

\* Connected with nothing to send.
LEMMA RemoteConnectedIdleInv ==
    ASSUME RelayInv, NEW c \in Conn, RemoteConnectedIdle(c)
    PROVE  RelayInv'
<1>1. /\ loop = "run" /\ loop' = loop
      /\ rmt[c].send /\ ~rmt[c].connected /\ rmt[c].buf.len = 0
      /\ rmt' = [rmt EXCEPT ![c].connected = TRUE, ![c].send = FALSE, ![c].recv = TRUE]
      /\ srv' = [srv EXCEPT ![c].stage = "STREAM", ![c].recv = TRUE]
      /\ qry' = qry /\ wire' = wire
  BY DEF RemoteConnectedIdle
<1>2. /\ ConnInv(srv[c], rmt[c], qry[c], wire[c]) /\ srv[c].obj = "live" /\ srv[c].timer
      /\ Connecting(srv[c], rmt[c], qry[c], wire[c])
  BY <1>1, RemotePhase DEF Streaming
<1>3. srv[c] \in Server /\ wire[c] \in Wire /\ rmt[c] \in Remote /\ qry[c] \in Query
  BY <1>2 DEF ConnInv, ConnTypeOK
<1>4. Frame(c)
  BY <1>1 DEF RelayInv, Frame
<1>5. /\ srv'[c] = [srv[c] EXCEPT !.stage = "STREAM", !.recv = TRUE]
      /\ rmt'[c] = [rmt[c] EXCEPT !.connected = TRUE, !.send = FALSE, !.recv = TRUE]
      /\ qry'[c] = qry[c] /\ wire'[c] = wire[c]
  BY <1>1 DEF RelayInv
<1>6. srv'[c] \in Server /\ rmt'[c] \in Remote
  BY <1>3, <1>5 DEF Server, Remote, Stage
<1>7. /\ srv'[c].obj = "live" /\ srv'[c].timer
      /\ srv'[c].stage = "STREAM" /\ srv'[c].remote /\ ~srv'[c].query
      /\ srv'[c].nonce = NONCE /\ srv'[c].recv /\ ~srv'[c].send /\ ~srv'[c].einit
  BY <1>2, <1>3, <1>5 DEF Connecting, DownUnused, Server
<1>8. /\ rmt'[c].obj = "live" /\ rmt'[c].server /\ rmt'[c].connected
      /\ rmt'[c].recv /\ ~rmt'[c].send
  BY <1>2, <1>3, <1>5 DEF Connecting, Remote
<1>9. UpIdle(wire[c])
  <2>1. Len(wire[c].toRemote) \in Nat /\ Preamble \in Nat
    BY <1>3, RelayAssumption, LenProperties DEF Wire, Preamble
  <2>2. wire[c].cin = Preamble + Len(wire[c].toRemote) + 0
    BY <1>1, <1>2 DEF Connecting, UpWaiting
  <2>3. QED
    BY <2>1, <2>2 DEF UpIdle
<1>10. DownIdle(srv'[c], wire[c])
  BY <1>2, <1>7, EmptySeq DEF DownIdle, Connecting, DownUnused
<1>11. Streaming(srv'[c], rmt'[c], qry'[c], wire'[c])
  BY <1>2, <1>5, <1>7, <1>8, <1>9, <1>10 DEF Streaming, Connecting
<1>12. ConnInv(srv'[c], rmt'[c], qry'[c], wire'[c])
  BY <1>2, <1>3, <1>5, <1>6, <1>7, <1>11 DEF ConnInv, ConnTypeOK, Live
<1>13. QED
  BY <1>1, <1>4, <1>12, FrameInv

\* The wire after the first s waiting bytes of an uplink buffer have been sent.
SentUp(w, b, s) == [w EXCEPT !.toRemote = @ \o AtIdx(b, s)]

\* Dropping the first s waiting bytes, because they have been delivered.
LEMMA UpConsumed ==
    ASSUME NEW b \in Buffer, NEW w \in Wire, UpWaiting(b, w), NEW s \in 0..b.len,
           Delivered(w), NEW w2, w2 = SentUp(w, b, s)
    PROVE  /\ w2 \in Wire /\ w2.toClient = w.toClient /\ w2.rin = w.rin
           /\ Delivered(w2)
           /\ Consumed(b, s) \in Buffer /\ UpWaiting(Consumed(b, s), w2)
           /\ s = b.len => UpIdle(w2)
<1> DEFINE t == w.toRemote
           u == w2.toRemote
           d == b.data
           k == b.idx
           l == Len(t)
<1>1. /\ t \in Seq(Nat) /\ l \in Nat /\ d \in Seq(Nat) /\ k \in Nat /\ s \in Nat
      /\ b.len \in Nat /\ s <= b.len /\ Preamble \in Nat /\ w.cin \in Nat
  <2>1. t \in Seq(Nat) /\ d \in Seq(Nat) /\ k \in Nat /\ b.len \in Nat /\ w.cin \in Nat
    BY DEF Wire, Buffer
  <2>2. l \in Nat
    BY <2>1, LenProperties
  <2>3. s \in Nat /\ s <= b.len /\ Preamble \in Nat
    BY <2>1, RelayAssumption DEF Preamble
  <2>4. QED
    BY <2>1, <2>2, <2>3
<1>2. /\ k + b.len <= Len(d) /\ Len(d) \in Nat
      /\ \A i \in 1..b.len : d[k + i] = UpByte(l + i)
      /\ w.cin = Preamble + l + b.len
  BY <1>1, LenProperties DEF UpWaiting
<1>3. u = t \o SubSeq(d, k + 1, k + s)
  BY DEF SentUp, AtIdx, Wire
<1>4. w2.toClient = w.toClient /\ w2.rin = w.rin /\ w2.cin = w.cin
  BY DEF SentUp, Wire
<1>5. k + s <= Len(d)
  BY <1>1, <1>2
<1>6. \A i \in 1..s : i \in 1..b.len
  BY <1>1
<1>7. \A i \in 1..l : t[i] = UpByte(i)
  BY DEF Delivered
<1> HIDE DEF t, u, d, k
<1>8. u \in Seq(Nat) /\ Len(u) = l + s /\ \A i \in 1..Len(u) : u[i] = UpByte(i)
  <2>1. \A i \in 1..s : d[k + i] = UpByte(Len(t) + i)
    BY <1>2, <1>6
  <2>2. t \in Seq(Nat) /\ d \in Seq(Nat) /\ k \in Nat /\ s \in Nat
    BY <1>1
  <2>3. /\ UpPrefix(t) /\ UpPart(d, k, s, Len(t))
        /\ Fits(d, k, s) /\ u = Extend(t, d, k, s)
    BY <1>3, <1>5, <1>7, <2>1 DEF UpPrefix, UpPart, Fits, Extend
  <2>4. u \in Seq(Nat) /\ Len(u) = Len(t) + s /\ UpPrefix(u)
    BY <2>2, <2>3, UpExtended
  <2>5. QED
    BY <2>4 DEF UpPrefix
<1> HIDE DEF l
<1>9. \A i \in 1..(b.len - s) : d[(k + s) + i] = UpByte((l + s) + i)
  <2> SUFFICES ASSUME NEW i \in 1..(b.len - s) PROVE d[(k + s) + i] = UpByte((l + s) + i)
    OBVIOUS
  <2>1. s + i \in 1..b.len /\ (k + s) + i = k + (s + i) /\ (l + s) + i = l + (s + i)
    BY <1>1
  <2>2. QED
    BY <1>2, <2>1
<1>10. w.cin = Preamble + (l + s) + (b.len - s) /\ (k + s) + (b.len - s) <= Len(d)
  BY <1>1, <1>2
<1> DEFINE b2 == Consumed(b, s)
<1>11. b2 \in Buffer /\ UpWaiting(b2, w2)
  <2>1. b.len - s \in Nat /\ b.idx + s \in Nat
    BY <1>1 DEF k
  <2>2. b2.data = d /\ b2.len = b.len - s /\ b2.idx = k + s /\ b2 \in Buffer
    BY <2>1 DEF Consumed, Buffer, d, k
  <2> HIDE DEF b2
  <2>3. QED
    BY <1>4, <1>8, <1>9, <1>10, <2>2 DEF UpWaiting, u
<1>12. s = b.len => UpIdle(w2)
  <2>1. s = b.len => w.cin = Preamble + (l + s)
    BY <1>1, <1>2
  <2>2. QED
    BY <1>4, <1>8, <2>1 DEF UpIdle, u
<1>13. w2 \in Wire
  BY <1>1, <1>3, <1>8 DEF SentUp, AtIdx, Wire, u, t, d, k
<1>14. Delivered(w2)
  BY <1>4, <1>8 DEF Delivered, u
<1>15. QED
  BY <1>4, <1>11, <1>12, <1>13, <1>14

\* The wire after the first s waiting bytes of a downlink buffer have been sent.
SentDown(w, b, s) == [w EXCEPT !.toClient = @ \o AtIdx(b, s)]

\* The same for the downlink.
LEMMA DownConsumed ==
    ASSUME NEW b \in Buffer, NEW w \in Wire, DownWaiting(b, w), NEW s \in 0..b.len,
           Delivered(w), NEW w2, w2 = SentDown(w, b, s)
    PROVE  /\ w2 \in Wire /\ w2.toRemote = w.toRemote /\ w2.rin = w.rin /\ w2.cin = w.cin
           /\ Delivered(w2)
           /\ Consumed(b, s) \in Buffer /\ DownWaiting(Consumed(b, s), w2)
           /\ s = b.len => Len(w2.toClient) = w.rin + NONCE
<1> DEFINE t == w.toClient
           u == w2.toClient
           d == b.data
           k == b.idx
           l == Len(t)
<1>1. /\ t \in Seq(Nat) /\ l \in Nat /\ d \in Seq(Nat) /\ k \in Nat /\ s \in Nat
      /\ b.len \in Nat /\ s <= b.len /\ NONCE \in Nat /\ w.rin \in Nat
  <2>1. t \in Seq(Nat) /\ d \in Seq(Nat) /\ k \in Nat /\ b.len \in Nat /\ w.rin \in Nat
    BY DEF Wire, Buffer
  <2>2. l \in Nat
    BY <2>1, LenProperties
  <2>3. s \in Nat /\ s <= b.len /\ NONCE \in Nat
    BY <2>1, RelayAssumption
  <2>4. QED
    BY <2>1, <2>2, <2>3
<1>2. /\ k + b.len <= Len(d) /\ Len(d) \in Nat
      /\ \A i \in 1..b.len : d[k + i] = DownByte(l + i)
      /\ NONCE + w.rin = l + b.len
  BY <1>1, LenProperties DEF DownWaiting
<1>3. u = t \o SubSeq(d, k + 1, k + s)
  BY DEF SentDown, AtIdx, Wire
<1>4. w2.toRemote = w.toRemote /\ w2.rin = w.rin /\ w2.cin = w.cin
  BY DEF SentDown, Wire
<1>5. k + s <= Len(d)
  BY <1>1, <1>2
<1>6. \A i \in 1..s : i \in 1..b.len
  BY <1>1
<1>7. \A i \in 1..l : t[i] = DownByte(i)
  BY DEF Delivered
<1> HIDE DEF t, u, d, k
<1>8. u \in Seq(Nat) /\ Len(u) = l + s /\ \A i \in 1..Len(u) : u[i] = DownByte(i)
  <2>1. \A i \in 1..s : d[k + i] = DownByte(Len(t) + i)
    BY <1>2, <1>6
  <2>2. t \in Seq(Nat) /\ d \in Seq(Nat) /\ k \in Nat /\ s \in Nat
    BY <1>1
  <2>3. /\ DownPrefix(t) /\ DownPart(d, k, s, Len(t))
        /\ Fits(d, k, s) /\ u = Extend(t, d, k, s)
    BY <1>3, <1>5, <1>7, <2>1 DEF DownPrefix, DownPart, Fits, Extend
  <2>4. u \in Seq(Nat) /\ Len(u) = Len(t) + s /\ DownPrefix(u)
    BY <2>2, <2>3, DownExtended
  <2>5. QED
    BY <2>4 DEF DownPrefix
<1> HIDE DEF l
<1>9. \A i \in 1..(b.len - s) : d[(k + s) + i] = DownByte((l + s) + i)
  <2> SUFFICES ASSUME NEW i \in 1..(b.len - s) PROVE d[(k + s) + i] = DownByte((l + s) + i)
    OBVIOUS
  <2>1. s + i \in 1..b.len /\ (k + s) + i = k + (s + i) /\ (l + s) + i = l + (s + i)
    BY <1>1
  <2>2. QED
    BY <1>2, <2>1
<1>10. NONCE + w.rin = (l + s) + (b.len - s) /\ (k + s) + (b.len - s) <= Len(d)
  BY <1>1, <1>2
<1> DEFINE b2 == Consumed(b, s)
<1>11. b2 \in Buffer /\ DownWaiting(b2, w2)
  <2>1. b.len - s \in Nat /\ b.idx + s \in Nat
    BY <1>1 DEF k
  <2>2. b2.data = d /\ b2.len = b.len - s /\ b2.idx = k + s /\ b2 \in Buffer
    BY <2>1 DEF Consumed, Buffer, d, k
  <2> HIDE DEF b2
  <2>3. QED
    BY <1>4, <1>8, <1>9, <1>10, <2>2 DEF DownWaiting, u
<1>12. s = b.len => Len(w2.toClient) = w.rin + NONCE
  <2>1. s = b.len => l + s = w.rin + NONCE
    BY <1>1, <1>2
  <2>2. QED
    BY <1>8, <2>1 DEF u
<1>13. w2 \in Wire
  BY <1>1, <1>3, <1>8 DEF SentDown, AtIdx, Wire, u, t, d, k
<1>14. Delivered(w2)
  BY <1>4, <1>8 DEF Delivered, u
<1>15. QED
  BY <1>4, <1>11, <1>12, <1>13, <1>14

\* remote_send_cb sends what waits, and resumes reading when all is out.
LEMMA RemoteSendInv ==
    ASSUME RelayInv, NEW c \in Conn, RemoteSend(c)
    PROVE  RelayInv'
<1> DEFINE b == rmt[c].buf
           w == wire[c]
<1>1. /\ loop = "run" /\ loop' = loop /\ rmt[c].send /\ b.len > 0 /\ qry' = qry
  BY DEF RemoteSend
<1>2. PICK s \in 0..b.len : SendUp(c, s)
  BY DEF RemoteSend
<1>3. /\ ConnInv(srv[c], rmt[c], qry[c], w) /\ srv[c].obj = "live" /\ srv[c].timer
      /\ srv[c].remote
      /\ Connecting(srv[c], rmt[c], qry[c], w) \/ Streaming(srv[c], rmt[c], qry[c], w)
  BY <1>1, RemotePhase
<1>4. srv[c] \in Server /\ w \in Wire /\ rmt[c] \in Remote /\ qry[c] \in Query /\ b \in Buffer
  BY <1>3 DEF ConnInv, ConnTypeOK, Remote
<1>5. UpWaiting(b, w) /\ Delivered(w)
  BY <1>1, <1>3 DEF Connecting, Streaming, ConnInv
<1>6. Frame(c)
  BY <1>1, <1>2 DEF RelayInv, Frame, SendUp
<1>7. wire'[c] = SentUp(w, b, s) /\ qry'[c] = qry[c]
  BY <1>1, <1>2 DEF SendUp, SentUp, RelayInv
<1>8. /\ wire'[c] \in Wire /\ wire'[c].toClient = w.toClient /\ wire'[c].rin = w.rin
      /\ Delivered(wire'[c])
      /\ Consumed(b, s) \in Buffer /\ UpWaiting(Consumed(b, s), wire'[c])
      /\ s = b.len => UpIdle(wire'[c])
  <2> HIDE DEF b, w
  <2>1. QED
    BY <1>4, <1>5, <1>7, UpConsumed
<1>9. b.len \in Nat /\ s \in Nat /\ s <= b.len
  BY <1>4 DEF Buffer
<1>10. CASE s < b.len
  <2>1. srv'[c] = srv[c]
    BY <1>2, <1>10 DEF SendUp
  <2>2. rmt'[c] = [rmt[c] EXCEPT !.connected = TRUE, !.buf = Consumed(b, s)]
    BY <1>2, <1>4, <1>10 DEF SendUp, RelayInv, Remote
  <2>3. rmt'[c] \in Remote
    BY <1>4, <1>8, <2>2 DEF Remote
  <2>4. /\ rmt'[c].obj = rmt[c].obj /\ rmt'[c].server = rmt[c].server /\ rmt'[c].send = rmt[c].send
        /\ rmt'[c].recv = rmt[c].recv /\ rmt'[c].connected /\ rmt'[c].buf = Consumed(b, s)
    BY <1>4, <2>2 DEF Remote
  <2>5. rmt'[c].buf.len > 0
    <3>1. Consumed(b, s).len = b.len - s
      BY <1>4 DEF Consumed, Buffer
    <3>2. QED
      BY <1>9, <1>10, <2>4, <3>1
  <2>6. CASE Connecting(srv[c], rmt[c], qry[c], w)
    <3>1. Connecting(srv'[c], rmt'[c], qry'[c], wire'[c])
      BY <1>7, <1>8, <2>1, <2>4, <2>5, <2>6 DEF Connecting, DownUnused
    <3>2. ConnInv(srv'[c], rmt'[c], qry'[c], wire'[c])
      BY <1>3, <1>4, <1>7, <1>8, <2>1, <2>3, <3>1 DEF ConnInv, ConnTypeOK, Live
    <3>3. QED
      BY <1>1, <1>6, <3>2, FrameInv
  <2>7. CASE Streaming(srv[c], rmt[c], qry[c], w)
    <3>0. /\ DownWaiting(srv[c].buf, w) => DownWaiting(srv'[c].buf, wire'[c])
          /\ DownIdle(srv[c], w) => DownIdle(srv'[c], wire'[c])
      BY <1>8, <2>1 DEF DownWaiting, DownIdle
    <3>1. Streaming(srv'[c], rmt'[c], qry'[c], wire'[c])
      <4>1. UpWaiting(rmt'[c].buf, wire'[c])
        BY <1>8, <2>4
      <4>2. QED
        BY <1>1, <1>7, <2>1, <2>4, <2>5, <2>7, <3>0, <4>1 DEF Streaming
    <3>2. ConnInv(srv'[c], rmt'[c], qry'[c], wire'[c])
      BY <1>3, <1>4, <1>7, <1>8, <2>1, <2>3, <3>1 DEF ConnInv, ConnTypeOK, Live
    <3>3. QED
      BY <1>1, <1>6, <3>2, FrameInv
  <2>8. QED
    BY <1>3, <2>6, <2>7
<1>11. CASE ~(s < b.len)
  <2>1. srv'[c] = [srv[c] EXCEPT !.recv = TRUE, !.stage = "STREAM"]
    BY <1>2, <1>11 DEF SendUp, RelayInv
  <2> DEFINE b2 == Emptied(b)
             on == rmt[c].recv \/ srv[c].stage # "STREAM"
  <2>2. rmt'[c] = [rmt[c] EXCEPT !.connected = TRUE, !.send = FALSE, !.buf = b2, !.recv = on]
    BY <1>2, <1>4, <1>11 DEF SendUp, RelayInv, Remote
  <2>3. b2 \in Buffer /\ on \in BOOLEAN
    BY <1>4 DEF Buffer, Emptied
  <2> HIDE DEF b2, on
  <2>4. rmt'[c] \in Remote
    BY <1>4, <2>2, <2>3 DEF Remote
  <2>5. srv'[c] \in Server
    BY <1>4, <2>1 DEF Server, Stage
  <2>6. /\ rmt'[c].obj = rmt[c].obj /\ rmt'[c].server = rmt[c].server /\ ~rmt'[c].send
        /\ (rmt'[c].recv <=> on) /\ rmt'[c].connected
    BY <1>4, <2>2 DEF Remote
  <2>7. /\ srv'[c].obj = "live" /\ srv'[c].timer /\ srv'[c].remote /\ srv'[c].recv
        /\ srv'[c].stage = "STREAM" /\ srv'[c].query = srv[c].query /\ srv'[c].nonce = srv[c].nonce
        /\ srv'[c].send = srv[c].send /\ srv'[c].einit = srv[c].einit /\ srv'[c].buf = srv[c].buf
    BY <1>3, <1>4, <2>1 DEF Server
  <2>8. UpIdle(wire'[c])
    BY <1>8, <1>9, <1>11
  <2>9. CASE Connecting(srv[c], rmt[c], qry[c], w)
    <3>1. DownIdle(srv'[c], wire'[c])
      BY <1>8, <2>7, <2>9, EmptySeq DEF Connecting, DownUnused, DownIdle
    <3>2. Streaming(srv'[c], rmt'[c], qry'[c], wire'[c])
      BY <1>7, <2>6, <2>7, <2>8, <2>9, <3>1 DEF Streaming, Connecting, DownUnused, on
    <3>3. ConnInv(srv'[c], rmt'[c], qry'[c], wire'[c])
      BY <1>4, <1>7, <1>8, <2>4, <2>5, <2>7, <3>2 DEF ConnInv, ConnTypeOK, Live
    <3>4. QED
      BY <1>1, <1>6, <3>3, FrameInv
  <2>10. CASE Streaming(srv[c], rmt[c], qry[c], w)
    <3>1. Streaming(srv'[c], rmt'[c], qry'[c], wire'[c])
      BY <1>1, <1>7, <1>8, <2>6, <2>7, <2>8, <2>10 DEF Streaming, DownWaiting, DownIdle, on
    <3>2. ConnInv(srv'[c], rmt'[c], qry'[c], wire'[c])
      BY <1>4, <1>7, <1>8, <2>4, <2>5, <2>7, <3>1 DEF ConnInv, ConnTypeOK, Live
    <3>3. QED
      BY <1>1, <1>6, <3>2, FrameInv
  <2>11. QED
    BY <1>3, <2>9, <2>10
<1>12. QED
  BY <1>10, <1>11

-----------------------------------------------------------------------------
(* remote_recv_cb and server_send_cb *)

\* server_send_cb sends what waits, and resumes reading from the remote host
\* when all is out.
LEMMA ServerSendInv ==
    ASSUME RelayInv, NEW c \in Conn, ServerSend(c)
    PROVE  RelayInv'
<1> DEFINE b == srv[c].buf
           w == wire[c]
<1>1. /\ loop = "run" /\ loop' = loop /\ srv[c].send /\ b.len > 0 /\ qry' = qry
  BY DEF ServerSend
<1>2. PICK s \in 0..b.len : SendDown(c, s)
  BY DEF ServerSend
<1>3. /\ ConnInv(srv[c], rmt[c], qry[c], w) /\ srv[c].obj = "live" /\ srv[c].timer
      /\ Streaming(srv[c], rmt[c], qry[c], w)
  BY <1>1, ServerSendPhase
<1>4. srv[c] \in Server /\ w \in Wire /\ rmt[c] \in Remote /\ qry[c] \in Query /\ b \in Buffer
  BY <1>3 DEF ConnInv, ConnTypeOK, Server
<1>5. DownWaiting(b, w) /\ Delivered(w)
  BY <1>1, <1>3 DEF Streaming, ConnInv
<1>6. Frame(c)
  BY <1>1, <1>2 DEF RelayInv, Frame, SendDown
<1>7. wire'[c] = SentDown(w, b, s) /\ qry'[c] = qry[c]
  BY <1>1, <1>2 DEF SendDown, SentDown, RelayInv
<1>8. /\ wire'[c] \in Wire /\ wire'[c].toRemote = w.toRemote /\ wire'[c].rin = w.rin
      /\ wire'[c].cin = w.cin /\ Delivered(wire'[c])
      /\ Consumed(b, s) \in Buffer /\ DownWaiting(Consumed(b, s), wire'[c])
      /\ s = b.len => Len(wire'[c].toClient) = w.rin + NONCE
  <2> HIDE DEF b, w
  <2>1. QED
    BY <1>4, <1>5, <1>7, DownConsumed
<1>9. b.len \in Nat /\ s \in Nat /\ s <= b.len
  BY <1>4 DEF Buffer
<1>10. CASE s < b.len
  <2>1. rmt'[c] = rmt[c]
    BY <1>2, <1>10 DEF SendDown
  <2>2. srv'[c] = [srv[c] EXCEPT !.buf = Consumed(b, s)]
    BY <1>2, <1>4, <1>10 DEF SendDown, RelayInv, Server
  <2>3. srv'[c] \in Server
    BY <1>4, <1>8, <2>2 DEF Server
  <2>4. /\ srv'[c].obj = "live" /\ srv'[c].timer /\ srv'[c].stage = srv[c].stage
        /\ srv'[c].remote = srv[c].remote /\ srv'[c].query = srv[c].query
        /\ srv'[c].recv = srv[c].recv /\ srv'[c].send = srv[c].send
        /\ srv'[c].nonce = srv[c].nonce /\ srv'[c].einit = srv[c].einit
        /\ srv'[c].buf = Consumed(b, s)
    BY <1>3, <1>4, <2>2 DEF Server
  <2>5. srv'[c].buf.len > 0
    <3>1. Consumed(b, s).len = b.len - s
      BY <1>4 DEF Consumed, Buffer
    <3>2. QED
      BY <1>9, <1>10, <2>4, <3>1
  <2>6. Streaming(srv'[c], rmt'[c], qry'[c], wire'[c])
    BY <1>1, <1>3, <1>7, <1>8, <2>1, <2>4, <2>5 DEF Streaming, UpWaiting, UpIdle
  <2>7. ConnInv(srv'[c], rmt'[c], qry'[c], wire'[c])
    BY <1>4, <1>7, <1>8, <2>1, <2>3, <2>4, <2>6 DEF ConnInv, ConnTypeOK, Live
  <2>8. QED
    BY <1>1, <1>6, <2>7, FrameInv
<1>11. CASE ~(s < b.len)
  <2>1. rmt'[c] = [rmt[c] EXCEPT !.recv = TRUE]
    BY <1>2, <1>11 DEF SendDown, RelayInv
  <2> DEFINE b2 == Emptied(b)
  <2>2. srv'[c] = [srv[c] EXCEPT !.buf = b2, !.send = FALSE]
    BY <1>2, <1>4, <1>11 DEF SendDown, RelayInv, Server
  <2>3. b2 \in Buffer
    BY <1>4 DEF Buffer, Emptied
  <2> HIDE DEF b2
  <2>4. srv'[c] \in Server
    BY <1>4, <2>2, <2>3 DEF Server
  <2>5. rmt'[c] \in Remote
    BY <1>4, <2>1 DEF Remote
  <2>6. /\ rmt'[c].obj = rmt[c].obj /\ rmt'[c].server = rmt[c].server /\ rmt'[c].send = rmt[c].send
        /\ rmt'[c].recv /\ rmt'[c].connected = rmt[c].connected /\ rmt'[c].buf = rmt[c].buf
    BY <1>4, <2>1 DEF Remote
  <2>7. /\ srv'[c].obj = "live" /\ srv'[c].timer /\ srv'[c].stage = srv[c].stage
        /\ srv'[c].remote = srv[c].remote /\ srv'[c].query = srv[c].query
        /\ srv'[c].recv = srv[c].recv /\ ~srv'[c].send
        /\ srv'[c].nonce = srv[c].nonce /\ srv'[c].einit = srv[c].einit
    BY <1>3, <1>4, <2>2 DEF Server
  <2>8. DownIdle(srv'[c], wire'[c])
    BY <1>1, <1>3, <1>8, <1>9, <1>11, <2>7 DEF DownIdle, Streaming
  <2>9. Streaming(srv'[c], rmt'[c], qry'[c], wire'[c])
    BY <1>3, <1>7, <1>8, <2>6, <2>7, <2>8 DEF Streaming, UpWaiting, UpIdle
  <2>10. ConnInv(srv'[c], rmt'[c], qry'[c], wire'[c])
    BY <1>4, <1>7, <1>8, <2>4, <2>5, <2>7, <2>9 DEF ConnInv, ConnTypeOK, Live
  <2>11. QED
    BY <1>1, <1>6, <2>10, FrameInv
<1>12. QED
  BY <1>10, <1>11

\* What n received bytes encrypt to continues the downlink.
LEMMA CipherBytes ==
    ASSUME NEW c \in Conn, NEW n \in Nat, wire[c] \in Wire, srv[c].einit \in BOOLEAN,
           DownIdle(srv[c], wire[c])
    PROVE  /\ Cipher(c, n) \in Seq(Nat)
           /\ DownPart(Cipher(c, n), 0, Len(Cipher(c, n)), Len(wire[c].toClient))
           /\ Len(Cipher(c, n)) >= n
           /\ Len(wire[c].toClient) + Len(Cipher(c, n)) = NONCE + wire[c].rin + n
<1> DEFINE r == wire[c].rin
           l == Len(wire[c].toClient)
           d == Cipher(c, n)
           y == Bytes(r, n)
           z == [i \in 1..NONCE |-> 0]
<1>1. /\ r \in Nat /\ wire[c].toClient \in Seq(Nat) /\ NONCE \in Nat
  BY RelayAssumption DEF Wire
<1>2. l \in Nat
  BY <1>1, LenProperties
<1>3. y \in Seq(Nat) /\ Len(y) = n /\ \A i \in 1..n : y[i] = r + i
  BY <1>1, BytesIsSeq
<1>4. z \in Seq(Nat) /\ Len(z) = NONCE /\ \A i \in 1..NONCE : z[i] = 0
  <2>1. z \in [1..NONCE -> Nat]
    OBVIOUS
  <2>2. z \in Seq(Nat)
    BY <1>1, <2>1, SeqDef
  <2>3. DOMAIN z = 1..NONCE /\ DOMAIN z = 1..Len(z)
    BY <2>1, <2>2, LenProperties
  <2>4. Len(z) \in Nat
    BY <2>2, LenProperties
  <2>5. QED
    BY <1>1, <2>2, <2>3, <2>4
<1>5. CASE srv[c].einit
  <2>1. d = <<>> \o y
    BY <1>5 DEF Cipher
  <2>2. l = r + NONCE
    BY <1>5 DEF DownIdle
  <2> HIDE DEF r, l, y, z, d
  <2>3. d = y
    BY <1>3, <2>1, ConcatEmptySeq
  <2>4. \A i \in 1..n : y[0 + i] = DownByte(l + i)
    <3> SUFFICES ASSUME NEW i \in 1..n PROVE y[0 + i] = DownByte(l + i)
      OBVIOUS
    <3>1. y[0 + i] = r + i
      BY <1>3
    <3>2. l + i > NONCE /\ (l + i) - NONCE = r + i
      BY <1>1, <2>2
    <3>3. QED
      BY <1>1, <1>2, <3>1, <3>2 DEF DownByte
  <2>5. l + n = NONCE + r + n
    BY <1>1, <2>2
  <2>6. d \in Seq(Nat) /\ Len(d) = n /\ n >= n
    BY <1>3, <2>3
  <2>7. DownPart(d, 0, Len(d), l)
    BY <2>3, <2>4, <2>6 DEF DownPart
  <2>8. QED
    BY <2>5, <2>6, <2>7 DEF l, r, d
<1>6. CASE ~srv[c].einit
  <2>1. d = z \o y
    BY <1>6 DEF Cipher
  <2>2. l = 0 /\ r = 0
    BY <1>6, EmptySeq DEF DownIdle
  <2> HIDE DEF r, l, y, z, d
  <2>3. /\ d \in Seq(Nat) /\ Len(d) = NONCE + n
        /\ \A i \in 1..NONCE + n : d[i] = IF i <= NONCE THEN z[i] ELSE y[i - NONCE]
    BY <1>3, <1>4, <2>1, ConcatProperties, ZenonT(60)
  <2>4. \A i \in 1..NONCE + n : d[0 + i] = DownByte(l + i)
    <3> SUFFICES ASSUME NEW i \in 1..NONCE + n PROVE d[0 + i] = DownByte(l + i)
      OBVIOUS
    <3>1. 0 + i = i /\ l + i = i /\ i \in Nat
      BY <1>1, <2>2
    <3>2. CASE i <= NONCE
      <4>1. i \in 1..NONCE
        BY <1>1, <3>2
      <4>2. d[i] = 0
        BY <1>4, <2>3, <3>2, <4>1
      <4>3. QED
        BY <3>1, <3>2, <4>2 DEF DownByte
    <3>3. CASE ~(i <= NONCE)
      <4>1. i - NONCE \in 1..n
        BY <1>1, <3>3
      <4>2. d[i] = r + (i - NONCE)
        BY <1>3, <2>3, <3>3, <4>1
      <4>3. QED
        BY <1>1, <2>2, <3>1, <3>3, <4>1, <4>2 DEF DownByte
    <3>4. QED
      BY <3>2, <3>3
  <2>5. l + (NONCE + n) = NONCE + r + n /\ NONCE + n >= n
    BY <1>1, <2>2
  <2>6. QED
    BY <2>3, <2>4, <2>5 DEF DownPart, l, r, d
<1>7. QED
  BY <1>5, <1>6

\* remote_recv_cb encrypts and sends; what send refuses waits for
\* server_send_cb.
LEMMA ForwardDownInv ==
    ASSUME RelayInv, NEW c \in Conn, NEW n \in 1..BUF_SIZE, NEW s \in 0..Len(Cipher(c, n)),
           loop = "run", rmt[c].recv, ForwardDown(c, n, s), UNCHANGED <<loop, qry>>
    PROVE  RelayInv'
<1> DEFINE d == Cipher(c, n)
           w == wire[c]
           m == Len(d)
           l == Len(w.toClient)
<1>1. /\ ConnInv(srv[c], rmt[c], qry[c], w) /\ srv[c].obj = "live" /\ srv[c].timer
      /\ Streaming(srv[c], rmt[c], qry[c], w)
  BY RemotePhase DEF Connecting
<1>2. srv[c] \in Server /\ w \in Wire /\ rmt[c] \in Remote /\ qry[c] \in Query
  BY <1>1 DEF ConnInv, ConnTypeOK
<1>3. ~srv[c].send /\ DownIdle(srv[c], w)
  BY <1>1 DEF Streaming
<1>4. n \in Nat /\ NONCE \in Nat /\ w.rin \in Nat /\ n > 0 /\ w.toClient \in Seq(Nat)
  BY <1>2, RelayAssumption DEF Wire
<1>5. /\ d \in Seq(Nat) /\ DownPart(d, 0, m, l) /\ m >= n
      /\ l + m = NONCE + w.rin + n
  BY <1>2, <1>3, <1>4, CipherBytes DEF Server
<1>6. m \in Nat /\ l \in Nat
  BY <1>4, <1>5, LenProperties
<1>7. s \in Nat /\ s <= m
  BY <1>6
<1> DEFINE b == IF s < m THEN [data |-> d, len |-> m - s, idx |-> s]
                         ELSE [data |-> d, len |-> m, idx |-> srv[c].buf.idx]
<1>8. Frame(c)
  BY DEF RelayInv, Frame, ForwardDown
<1>9. /\ srv'[c] = [srv[c] EXCEPT !.buf = b, !.send = (srv[c].send \/ s < m),
                                  !.einit = TRUE, !.timer = TRUE]
      /\ rmt'[c] = [rmt[c] EXCEPT !.recv = (s = m)]
      /\ wire'[c] = [w EXCEPT !.rin = w.rin + n, !.toClient = w.toClient \o SubSeq(d, 1, s)]
      /\ qry'[c] = qry[c]
  BY DEF ForwardDown, RelayInv
<1>10. b \in Buffer
  BY <1>2, <1>5, <1>6, <1>7 DEF Buffer, Server
<1>11. (s < m => b.data = d /\ b.len = m - s /\ b.idx = s)
  OBVIOUS
<1> HIDE DEF d, m, l, b
<1>12. /\ wire'[c].toClient = Extend(w.toClient, d, 0, s) /\ wire'[c].rin = w.rin + n
       /\ wire'[c].cin = w.cin /\ wire'[c].toRemote = w.toRemote
  <2>1. 0 + 1 = 1 /\ 0 + s = s
    BY <1>7
  <2>2. QED
    BY <1>2, <1>9, <2>1 DEF Wire, Extend
<1>13. /\ wire'[c].toClient \in Seq(Nat) /\ Len(wire'[c].toClient) = l + s
       /\ DownPrefix(wire'[c].toClient)
  <2> DEFINE t == w.toClient
             u == wire'[c].toClient
  <2>1. DownPart(d, 0, s, Len(t)) /\ Fits(d, 0, s) /\ DownPrefix(t) /\ 0 \in Nat
    <3>1. \A i \in 1..s : i \in 1..m
      BY <1>6, <1>7
    <3>2. 0 + s <= Len(d)
      BY <1>6, <1>7 DEF m
    <3>3. DownPrefix(t)
      BY <1>1 DEF ConnInv, Delivered, DownPrefix
    <3>4. QED
      BY <1>5, <3>1, <3>2, <3>3 DEF DownPart, Fits, l
  <2>2. t \in Seq(Nat) /\ u = Extend(t, d, 0, s) /\ l = Len(t)
    BY <1>4, <1>12 DEF l
  <2> HIDE DEF t, u
  <2>3. u \in Seq(Nat) /\ Len(u) = Len(t) + s /\ DownPrefix(u)
    BY <1>5, <1>7, <2>1, <2>2, DownExtended
  <2>4. QED
    BY <2>2, <2>3 DEF u
<1>14. Delivered(wire'[c])
  BY <1>1, <1>12, <1>13 DEF ConnInv, Delivered, DownPrefix
<1>15. wire'[c] \in Wire
  <2>1. w.rin + n \in Nat
    BY <1>4
  <2>2. wire'[c] = [w EXCEPT !.rin = w.rin + n, !.toClient = wire'[c].toClient]
    BY <1>2, <1>9 DEF Wire
  <2>3. QED
    BY <1>2, <1>13, <2>1, <2>2 DEF Wire
<1>16. srv'[c] \in Server /\ rmt'[c] \in Remote
  <2>1. (srv[c].send \/ s < m) \in BOOLEAN /\ (s = m) \in BOOLEAN
    OBVIOUS
  <2>2. QED
    BY <1>2, <1>9, <1>10, <2>1, ZenonT(60) DEF Server, Remote
<1>17. /\ srv'[c].obj = "live" /\ srv'[c].timer /\ srv'[c].stage = srv[c].stage
       /\ srv'[c].remote = srv[c].remote /\ srv'[c].query = srv[c].query
       /\ srv'[c].recv = srv[c].recv /\ (srv'[c].send <=> s < m)
       /\ srv'[c].nonce = srv[c].nonce /\ srv'[c].einit /\ srv'[c].buf = b
  BY <1>1, <1>2, <1>3, <1>9 DEF Server
<1>18. /\ rmt'[c].obj = rmt[c].obj /\ rmt'[c].server = rmt[c].server
       /\ rmt'[c].send = rmt[c].send /\ (rmt'[c].recv <=> s = m)
       /\ rmt'[c].connected = rmt[c].connected /\ rmt'[c].buf = rmt[c].buf
  BY <1>2, <1>9 DEF Remote
<1>19. rmt'[c].recv <=> ~srv'[c].send
  BY <1>6, <1>7, <1>17, <1>18
<1>20. IF srv'[c].send THEN srv'[c].einit /\ srv'[c].buf.len > 0 /\ DownWaiting(srv'[c].buf, wire'[c])
                       ELSE DownIdle(srv'[c], wire'[c])
  <2>1. CASE s < m
    <3>1. \A i \in 1..(m - s) : d[s + i] = DownByte((l + s) + i)
      <4> SUFFICES ASSUME NEW i \in 1..(m - s) PROVE d[s + i] = DownByte((l + s) + i)
        OBVIOUS
      <4>1. s + i \in 1..m /\ 0 + (s + i) = s + i /\ l + (s + i) = (l + s) + i
        BY <1>6, <1>7
      <4>2. QED
        BY <1>5, <4>1 DEF DownPart
    <3>2. NONCE + (w.rin + n) = (l + s) + (m - s) /\ s + (m - s) <= m /\ m - s > 0
      BY <1>4, <1>5, <1>6, <1>7, <2>1
    <3>3. DownWaiting(b, wire'[c])
      BY <1>11, <1>12, <1>13, <2>1, <3>1, <3>2 DEF DownWaiting, m
    <3>4. QED
      BY <1>11, <1>17, <2>1, <3>2, <3>3
  <2>2. CASE ~(s < m)
    <3>1. l + s = (w.rin + n) + NONCE
      <4>1. s = m
        BY <1>6, <1>7, <2>2
      <4>2. l + s = NONCE + w.rin + n
        BY <1>5, <4>1
      <4>3. QED
        BY <1>4, <4>2
    <3>2. QED
      BY <1>12, <1>13, <1>17, <2>2, <3>1 DEF DownIdle
  <2>3. QED
    BY <2>1, <2>2
<1>21. Streaming(srv'[c], rmt'[c], qry'[c], wire'[c])
  BY <1>1, <1>9, <1>12, <1>17, <1>18, <1>19, <1>20 DEF Streaming, UpWaiting, UpIdle
<1>22. ConnInv(srv'[c], rmt'[c], qry'[c], wire'[c])
  BY <1>2, <1>9, <1>14, <1>15, <1>16, <1>17, <1>21 DEF ConnInv, ConnTypeOK, Live
<1>23. QED
  BY <1>8, <1>22, FrameInv

\* remote_recv_cb, whatever it receives and whatever send accepts.
LEMMA RemoteRecvInv ==
    ASSUME RelayInv, NEW c \in Conn, RemoteRecv(c)
    PROVE  RelayInv'
  BY ForwardDownInv DEF RemoteRecv

-----------------------------------------------------------------------------
(* Shutdown *)

\* Steps that touch no connection.
LEMMA QuietInv ==
    ASSUME RelayInv, UNCHANGED <<srv, rmt, qry, wire>>,
           loop' = loop \/ loop' = "cancel"
    PROVE  RelayInv'
  BY DEF RelayInv

\* free_connections closes every connection that is left.
LEMMA FreeConnectionsInv ==
    ASSUME RelayInv, free_connections
    PROVE  RelayInv'
<1>1. /\ loop' = "done" /\ qry' = qry /\ wire' = wire
      /\ \A c \in Conn : qry[c].obj # "live"
      /\ DOMAIN srv' = Conn /\ DOMAIN rmt' = Conn
      /\ DOMAIN qry' = Conn /\ DOMAIN wire' = Conn
  BY DEF free_connections, RelayInv
<1>2. ASSUME NEW c \in Conn
      PROVE  ConnInv(srv'[c], rmt'[c], qry'[c], wire'[c]) /\ srv'[c].obj # "live"
  <2>1. ConnInv(srv[c], rmt[c], qry[c], wire[c]) /\ qry[c].obj # "live"
    BY <1>1 DEF RelayInv
  <2>2. srv[c] \in Server /\ wire[c] \in Wire /\ rmt[c] \in Remote /\ qry[c] \in Query
    BY <2>1 DEF ConnInv, ConnTypeOK
  <2>3. /\ srv'[c] = (IF srv[c].obj = "live" THEN FreedServer(srv[c]) ELSE srv[c])
        /\ rmt'[c] = (IF srv[c].obj = "live" /\ srv[c].remote
                      THEN [FreedRemote(rmt[c]) EXCEPT !.server = FALSE] ELSE rmt[c])
    BY DEF free_connections
  <2>4. CASE srv[c].obj # "live"
    BY <1>1, <2>1, <2>3, <2>4
  <2>5. CASE srv[c].obj = "live"
    <3>1. srv'[c] = FreedServer(srv[c]) /\ srv'[c] \in Server
      BY <2>2, <2>3, <2>5, FreedTypes
    <3>2. /\ srv'[c].obj = "freed" /\ ~srv'[c].recv /\ ~srv'[c].send /\ ~srv'[c].timer
      BY <2>2, <3>1 DEF FreedServer, Server
    <3>3. rmt'[c] \in Remote /\ rmt'[c].obj # "live" /\ ~rmt'[c].recv /\ ~rmt'[c].send
      <4>1. CASE srv[c].remote
        <5>1. rmt'[c] = [FreedRemote(rmt[c]) EXCEPT !.server = FALSE] /\ FreedRemote(rmt[c]) \in Remote
          BY <2>2, <2>3, <2>5, <4>1, FreedTypes
        <5>2. FreedRemote(rmt[c]).obj = "freed" /\ ~FreedRemote(rmt[c]).recv /\ ~FreedRemote(rmt[c]).send
          BY <2>2 DEF FreedRemote, Remote
        <5>3. QED
          BY <5>1, <5>2 DEF Remote
      <4>2. CASE ~srv[c].remote
        <5>1. rmt'[c] = rmt[c] /\ rmt[c] = NoRemote
          BY <2>1, <2>3, <2>5, <4>2 DEF ConnInv, Idle, NoServer, Closed, Live,
                Handshaking, Resolving, Connecting, Streaming
        <5>2. QED
          BY <5>1, NoTypes DEF NoRemote
      <4>3. QED
        BY <4>1, <4>2
    <3>4. Closed(srv'[c], rmt'[c], qry'[c])
      BY <1>1, <2>1, <3>2, <3>3 DEF Closed
    <3>5. QED
      BY <1>1, <2>1, <2>2, <3>1, <3>2, <3>3, <3>4 DEF ConnInv, ConnTypeOK
  <2>6. QED
    BY <2>4, <2>5
<1>3. QED
  BY <1>1, <1>2 DEF RelayInv

-----------------------------------------------------------------------------
(* The invariant *)

\* The event loop starts in the invariant: no connection exists.
LEMMA RelayInvInit ==
    ASSUME Init
    PROVE  RelayInv
<1>1. ASSUME NEW c \in Conn PROVE ConnInv(srv[c], rmt[c], qry[c], wire[c])
  <2>1. srv[c] = NoServer /\ rmt[c] = NoRemote /\ qry[c] = NoQuery /\ wire[c] = NoWire
    BY DEF Init
  <2>2. Delivered(NoWire)
    BY EmptySeq DEF Delivered, NoWire
  <2>3. QED
    BY <2>1, <2>2, NoTypes DEF ConnInv, ConnTypeOK, Idle
<1>2. QED
  BY <1>1 DEF Init, RelayInv

\* Every callback keeps the invariant.
LEMMA RelayInvNext ==
    ASSUME RelayInv, [Next]_vars
    PROVE  RelayInv'
<1>1. ASSUME NEW c \in Conn, AcceptUnnamed(c) \/ accept_cb(c) PROVE RelayInv'
  <2>1. /\ loop = "run" /\ loop' = loop /\ srv[c].obj = "none"
        /\ Admitted(c) \/ Refused(c)
        /\ UNCHANGED <<rmt, qry, wire>>
    BY <1>1 DEF AcceptUnnamed, accept_cb
  <2>2. Frame(c) /\ ConnInv(srv'[c], rmt'[c], qry'[c], wire'[c])
    BY <2>1, AcceptInv
  <2>3. QED
    BY <2>1, <2>2, FrameInv
<1>2. ASSUME NEW c \in Conn, server_recv_cb(c) PROVE RelayInv'
  BY <1>2, ServerRecvErrorInv, ServerRecvNeedMoreInv, ServerRecvForwardInv,
     ServerRecvConnectInv, ServerRecvQueryInv DEF server_recv_cb
<1>3. ASSUME NEW c \in Conn, server_send_cb(c) \/ server_timeout_cb(c) PROVE RelayInv'
  BY <1>3, ServerSendInv, CloseActionsInv DEF server_send_cb
<1>4. ASSUME NEW c \in Conn, remote_recv_cb(c) \/ remote_send_cb(c) PROVE RelayInv'
  BY <1>4, RemoteRecvInv, RemoteSendInv, RemoteConnectedIdleInv, CloseActionsInv
     DEF remote_recv_cb, remote_send_cb
<1>5. ASSUME NEW c \in Conn, resolv_cb(c) PROVE RelayInv'
  BY <1>5, ResolvOneInv, ResolvEndInv, ResolvConnectInv DEF resolv_cb
<1>6. CASE block_list_clear_cb \/ pipe_cb
  BY <1>6, QuietInv DEF block_list_clear_cb, pipe_cb
<1>7. CASE free_connections
  BY <1>7, FreeConnectionsInv
<1>8. CASE Returned \/ UNCHANGED vars
  BY <1>8, QuietInv DEF Returned, vars
<1>9. QED
  BY <1>1, <1>2, <1>3, <1>4, <1>5, <1>6, <1>7, <1>8 DEF Next

\* In every reachable state each connection of the event loop of server.c is in
\* one of its phases: the objects, watchers, buffers and cipher contexts that
\* the callbacks find are those the phase calls for.
THEOREM RelayInvariant == Spec => []RelayInv
<1>1. Init => RelayInv
  BY RelayInvInit
<1>2. RelayInv /\ [Next]_vars => RelayInv'
  BY RelayInvNext
<1>3. QED
  BY <1>1, <1>2, PTL DEF Spec

-----------------------------------------------------------------------------
(* What the invariant gives *)

\* No callback of server.c runs on freed memory or with a dangling pointer, and
\* none reaches a branch the code marks as invalid.
THEOREM CallbacksAreSafe == Spec => []CallbacksSafe
<1>1. RelayInv => CallbacksSafe
  <2> SUFFICES ASSUME RelayInv, NEW c \in Conn
               PROVE  CallbacksSafe!(c)
    BY DEF CallbacksSafe
  <2>1. ConnInv(srv[c], rmt[c], qry[c], wire[c])
    BY DEF RelayInv
  <2>2. CASE Idle(srv[c], rmt[c], qry[c], wire[c])
    BY <2>2 DEF Idle, NoServer, NoRemote, NoQuery
  <2>3. CASE Closed(srv[c], rmt[c], qry[c])
    BY <2>3 DEF Closed
  <2>4. CASE Live(srv[c], rmt[c], qry[c], wire[c])
    BY <2>4 DEF Live, Handshaking, Resolving, Connecting, Streaming, DownUnused, NoRemote, NoQuery
  <2>5. QED
    BY <2>1, <2>2, <2>3, <2>4 DEF ConnInv
<1>2. QED
  BY <1>1, RelayInvariant, PTL

\* A buffer that waits to be sent is never read into.
THEOREM BuffersAreNotOverwritten == Spec => []NoOverwrite
<1>1. RelayInv => NoOverwrite
  BY RemotePhase, ServerSendPhase, ReadingPhase
     DEF NoOverwrite, Connecting, Streaming, Handshaking, NoRemote
<1>2. QED
  BY <1>1, RelayInvariant, PTL

\* No connection waits for something that can no longer happen.
THEOREM NoWakeupIsLost == Spec => []NoLostWakeup
<1>1. RelayInv => NoLostWakeup
  <2> SUFFICES ASSUME RelayInv, NEW c \in Conn, srv[c].obj = "live"
               PROVE  /\ srv[c].timer
                      /\ srv[c].recv \/ rmt[c].send \/ (srv[c].query /\ qry[c].requests # {})
                      /\ srv[c].stage = "STREAM" => rmt[c].recv \/ srv[c].send
    BY DEF NoLostWakeup
  <2>1. Live(srv[c], rmt[c], qry[c], wire[c])
    BY DEF RelayInv, ConnInv, Idle, NoServer, Closed
  <2>2. QED
    BY <2>1 DEF Live, Handshaking, Resolving, Connecting, Streaming
<1>2. QED
  BY <1>1, RelayInvariant, PTL

\* ss_server_main frees every connection before it returns.
THEOREM AllFreedAtExit == Spec => []FreedAtExit
<1>1. RelayInv => FreedAtExit
  <2> SUFFICES ASSUME RelayInv, loop = "done", NEW c \in Conn
               PROVE  /\ srv[c].obj # "live" /\ rmt[c].obj # "live" /\ qry[c].obj # "live"
                      /\ ~srv[c].recv /\ ~srv[c].send /\ ~srv[c].timer
                      /\ ~rmt[c].recv /\ ~rmt[c].send
    BY DEF FreedAtExit
  <2>1. /\ srv[c].obj # "live" /\ qry[c].obj # "live"
        /\ Idle(srv[c], rmt[c], qry[c], wire[c]) \/ Closed(srv[c], rmt[c], qry[c])
    BY DEF RelayInv, ConnInv, Live
  <2>2. QED
    BY <2>1 DEF Idle, NoServer, NoRemote, Closed
<1>2. QED
  BY <1>1, RelayInvariant, PTL

-----------------------------------------------------------------------------
(* The byte streams *)

\* A received uplink is determined by its length.
LEMMA UpPrefixBytes ==
    ASSUME NEW u \in Seq(Nat), UpPrefix(u)
    PROVE  u = Bytes(Preamble, Len(u))
<1>1. Len(u) \in Nat /\ Preamble \in Nat /\ DOMAIN u = 1..Len(u) /\ u = [i \in DOMAIN u |-> u[i]]
  BY LenProperties, RelayAssumption, SeqDef DEF Preamble
<1>2. \A i \in 1..Len(u) : u[i] = Preamble + i
  BY DEF UpPrefix, UpByte
<1>3. QED
  BY <1>1, <1>2 DEF Bytes

\* The bytes that wait in a buffer complete what was delivered.
LEMMA UpComplete ==
    ASSUME NEW w \in Wire, NEW b \in Buffer, Delivered(w), UpWaiting(b, w)
    PROVE  w.toRemote \o AtIdx(b, b.len) = Bytes(Preamble, w.cin - Preamble)
<1> DEFINE w2 == SentUp(w, b, b.len)
           u  == w.toRemote \o AtIdx(b, b.len)
<1>1. b.len \in 0..b.len /\ Preamble \in Nat
  BY RelayAssumption DEF Buffer, Preamble
<1>2. w2 \in Wire /\ Delivered(w2) /\ UpIdle(w2)
  BY <1>1, UpConsumed
<1>3. w2.toRemote = u /\ w2.cin = w.cin
  BY DEF SentUp, Wire
<1>4. u \in Seq(Nat) /\ UpPrefix(u) /\ w.cin = Preamble + Len(u)
  BY <1>2, <1>3 DEF Wire, Delivered, UpPrefix, UpIdle
<1>5. Len(u) \in Nat
  BY <1>4, LenProperties
<1>6. u = Bytes(Preamble, Len(u))
  BY <1>4, UpPrefixBytes
<1>7. w.cin - Preamble = Len(u)
  BY <1>1, <1>4, <1>5
<1>8. QED
  BY <1>6, <1>7

\* The remote host receives the client's payload, exactly and in order.
THEOREM UplinkIsExact == Spec => []UplinkExact
<1>1. RelayInv => UplinkExact
  <2> SUFFICES ASSUME RelayInv, NEW c \in Conn
               PROVE  UplinkExact!(c)
    BY DEF UplinkExact
  <2>1. ConnInv(srv[c], rmt[c], qry[c], wire[c])
    BY DEF RelayInv
  <2>2. srv[c] \in Server /\ wire[c] \in Wire /\ rmt[c] \in Remote /\ Delivered(wire[c])
    BY <2>1 DEF ConnInv, ConnTypeOK
  <2>3. wire[c].toRemote \in Seq(Nat) /\ UpPrefix(wire[c].toRemote)
    BY <2>2 DEF Wire, Delivered, UpPrefix
  <2>4. wire[c].toRemote = Bytes(Preamble, Len(wire[c].toRemote))
    BY <2>3, UpPrefixBytes
  <2>5. ASSUME srv[c].obj = "live", srv[c].remote \/ srv[c].query
        PROVE  wire[c].toRemote \o UpPending(c) = Bytes(Preamble, wire[c].cin - Preamble)
    <3>1. Live(srv[c], rmt[c], qry[c], wire[c])
      BY <2>1, <2>5 DEF ConnInv, Idle, NoServer, Closed
    <3>2. srv[c].buf \in Buffer /\ rmt[c].buf \in Buffer
      BY <2>2 DEF Server, Remote
    <3>3. CASE Resolving(srv[c], rmt[c], qry[c], wire[c])
      <4>1. UpPending(c) = AtIdx(srv[c].buf, srv[c].buf.len) /\ UpWaiting(srv[c].buf, wire[c])
        BY <2>5, <3>3 DEF UpPending, Resolving
      <4>2. QED
        BY <2>2, <3>2, <4>1, UpComplete
    <3>4. CASE /\ Connecting(srv[c], rmt[c], qry[c], wire[c]) \/ Streaming(srv[c], rmt[c], qry[c], wire[c])
               /\ rmt[c].send
      <4>1. UpPending(c) = AtIdx(rmt[c].buf, rmt[c].buf.len) /\ UpWaiting(rmt[c].buf, wire[c])
        BY <3>4 DEF UpPending, Connecting, Streaming
      <4>2. QED
        BY <2>2, <3>2, <4>1, UpComplete
    <3>5. CASE Streaming(srv[c], rmt[c], qry[c], wire[c]) /\ ~rmt[c].send
      <4>1. UpPending(c) = <<>> /\ wire[c].cin = Preamble + Len(wire[c].toRemote)
        BY <3>5 DEF UpPending, Streaming, UpIdle
      <4>2. Len(wire[c].toRemote) \in Nat /\ Preamble \in Nat
        BY <2>3, LenProperties, RelayAssumption DEF Preamble
      <4>3. wire[c].cin - Preamble = Len(wire[c].toRemote)
        BY <4>1, <4>2
      <4>4. wire[c].toRemote \o <<>> = wire[c].toRemote
        BY <2>3, ConcatEmptySeq
      <4>5. QED
        BY <2>4, <4>1, <4>3, <4>4
    <3>6. QED
      BY <2>5, <3>1, <3>3, <3>4, <3>5 DEF Live, Handshaking, Connecting
  <2>6. QED
    BY <2>4, <2>5
<1>2. QED
  BY <1>1, RelayInvariant, PTL

\* A received downlink is determined by its length.
LEMMA DownPrefixStream ==
    ASSUME NEW u \in Seq(Nat), DownPrefix(u)
    PROVE  u = DownStream(Len(u))
<1>1. Len(u) \in Nat /\ DOMAIN u = 1..Len(u) /\ u = [i \in DOMAIN u |-> u[i]]
  BY LenProperties, SeqDef
<1>2. \A i \in 1..Len(u) : u[i] = IF i <= NONCE THEN 0 ELSE i - NONCE
  BY DEF DownPrefix, DownByte
<1>3. QED
  BY <1>1, <1>2 DEF DownStream

\* The bytes that wait in the server's buffer complete what was delivered.
LEMMA DownComplete ==
    ASSUME NEW w \in Wire, NEW b \in Buffer, Delivered(w), DownWaiting(b, w)
    PROVE  w.toClient \o AtIdx(b, b.len) = DownStream(w.rin + NONCE)
<1> DEFINE w2 == SentDown(w, b, b.len)
           u  == w.toClient \o AtIdx(b, b.len)
<1>1. b.len \in 0..b.len
  BY DEF Buffer
<1>2. w2 \in Wire /\ Delivered(w2) /\ Len(w2.toClient) = w.rin + NONCE
  BY <1>1, DownConsumed
<1>3. w2.toClient = u
  BY DEF SentDown, Wire
<1>4. u \in Seq(Nat) /\ DownPrefix(u) /\ Len(u) = w.rin + NONCE
  BY <1>2, <1>3 DEF Wire, Delivered, DownPrefix
<1>5. QED
  BY <1>4, DownPrefixStream

\* The client receives one nonce and the remote host's bytes, exactly and in
\* order.
THEOREM DownlinkIsExact == Spec => []DownlinkExact
<1>1. RelayInv => DownlinkExact
  <2> SUFFICES ASSUME RelayInv, NEW c \in Conn
               PROVE  DownlinkExact!(c)
    BY DEF DownlinkExact
  <2>1. ConnInv(srv[c], rmt[c], qry[c], wire[c])
    BY DEF RelayInv
  <2>2. srv[c] \in Server /\ wire[c] \in Wire /\ Delivered(wire[c]) /\ srv[c].buf \in Buffer
    BY <2>1 DEF ConnInv, ConnTypeOK, Server
  <2>3. wire[c].toClient \in Seq(Nat) /\ DownPrefix(wire[c].toClient) /\ wire[c].rin \in Nat
    BY <2>2 DEF Wire, Delivered, DownPrefix
  <2>4. wire[c].toClient = DownStream(Len(wire[c].toClient))
    BY <2>3, DownPrefixStream
  <2>5. ASSUME srv[c].obj = "live"
        PROVE  wire[c].toClient \o DownPending(c) =
                  DownStream(wire[c].rin + (IF srv[c].einit THEN NONCE ELSE 0))
    <3>1. Live(srv[c], rmt[c], qry[c], wire[c])
      BY <2>1, <2>5 DEF ConnInv, Idle, NoServer, Closed
    <3>2. CASE srv[c].send
      <4>1. DownPending(c) = AtIdx(srv[c].buf, srv[c].buf.len) /\ DownWaiting(srv[c].buf, wire[c])
            /\ srv[c].einit
        BY <3>1, <3>2 DEF DownPending, Live, Handshaking, Resolving, Connecting, Streaming, DownUnused
      <4>2. QED
        BY <2>2, <4>1, DownComplete
    <3>3. CASE ~srv[c].send
      <4>1. DownPending(c) = <<>>
        BY <3>3 DEF DownPending
      <4>2. wire[c].toClient \o <<>> = wire[c].toClient
        BY <2>3, ConcatEmptySeq
      <4>3. DownIdle(srv[c], wire[c])
        BY <3>1, <3>3 DEF Live, Handshaking, Resolving, Connecting, Streaming, DownUnused, DownIdle
      <4>4. Len(wire[c].toClient) = wire[c].rin + (IF srv[c].einit THEN NONCE ELSE 0)
        <5>1. CASE srv[c].einit
          BY <4>3, <5>1 DEF DownIdle
        <5>2. CASE ~srv[c].einit
          <6>1. wire[c].rin = 0 /\ Len(wire[c].toClient) = 0
            BY <4>3, <5>2, EmptySeq DEF DownIdle
          <6>2. QED
            BY <5>2, <6>1
        <5>3. QED
          BY <5>1, <5>2
      <4>5. QED
        BY <2>4, <4>1, <4>2, <4>4
    <3>4. QED
      BY <3>2, <3>3
  <2>6. QED
    BY <2>4, <2>5
<1>2. QED
  BY <1>1, RelayInvariant, PTL

-----------------------------------------------------------------------------
(* Nothing happens on a closed connection *)

\* A step of one connection leaves the records of the others alone.
LEMMA OthersUnchanged ==
    ASSUME RelayInv, NEW c \in Conn, NEW d \in Conn, c # d,
           \/ AcceptUnnamed(d) \/ accept_cb(d)
           \/ server_recv_cb(d) \/ server_send_cb(d) \/ server_timeout_cb(d)
           \/ remote_recv_cb(d) \/ remote_send_cb(d)
           \/ resolv_cb(d)
    PROVE  wire'[c] = wire[c] /\ srv'[c] = srv[c] /\ rmt'[c] = rmt[c]
<1>1. CASE AcceptUnnamed(d) \/ accept_cb(d)
  BY <1>1 DEF AcceptUnnamed, accept_cb, Admitted, Refused, RelayInv
<1>2. CASE server_recv_cb(d)
  BY <1>2, ZenonT(60) DEF server_recv_cb, ServerRecvClose, ServerRecvCryptoError, ServerRecvNeedMore,
     ServerRecvForward, ForwardUp, ServerRecvMalformed, ServerRecvConnect,
     ServerRecvConnectFail, ServerRecvQuery, CloseServer, CloseBoth, RelayInv
<1>3. CASE server_send_cb(d) \/ server_timeout_cb(d)
  BY <1>3 DEF server_send_cb, ServerSendClose, ServerSend, SendDown, server_timeout_cb,
     CloseServer, CloseBoth, RelayInv
<1>4. CASE remote_recv_cb(d) \/ remote_send_cb(d)
  <2>1. CASE RemoteRecvClose(d) \/ RemoteSendClose(d) \/ RemoteConnectedIdle(d)
    BY <2>1 DEF RemoteRecvClose, RemoteSendClose, RemoteConnectedIdle, CloseBoth, RelayInv
  <2>2. CASE RemoteSend(d)
    BY <2>2 DEF RemoteSend, SendUp, RelayInv
  <2>3. CASE RemoteRecv(d)
    BY <2>3 DEF RemoteRecv, ForwardDown, RelayInv
  <2>4. QED
    BY <1>4, <2>1, <2>2, <2>3 DEF remote_recv_cb, remote_send_cb
<1>5. CASE resolv_cb(d)
  BY <1>5 DEF resolv_cb, ResolvOne, ResolvAbandoned, ResolvFail, ResolvConnect, RelayInv
<1>6. QED
  BY <1>1, <1>2, <1>3, <1>4, <1>5

\* Of a connection's own steps only a late answer of the resolver comes after
\* its close, and it leaves all but the query alone.
LEMMA ClosedUnchanged ==
    ASSUME RelayInv, NEW c \in Conn, srv[c].obj = "freed",
           \/ AcceptUnnamed(c) \/ accept_cb(c)
           \/ server_recv_cb(c) \/ server_send_cb(c) \/ server_timeout_cb(c)
           \/ remote_recv_cb(c) \/ remote_send_cb(c)
           \/ resolv_cb(c)
    PROVE  wire'[c] = wire[c] /\ srv'[c] = srv[c] /\ rmt'[c] = rmt[c]
<1>1. Closed(srv[c], rmt[c], qry[c])
  BY DEF RelayInv, ConnInv, Idle, NoServer, Live
<1>2. ~(AcceptUnnamed(c) \/ accept_cb(c))
  BY DEF AcceptUnnamed, accept_cb
<1>3. ~server_recv_cb(c)
  BY <1>1 DEF Closed, server_recv_cb, ServerRecvClose, ServerRecvCryptoError, ServerRecvNeedMore,
     ServerRecvForward, ForwardUp, ServerRecvMalformed, ServerRecvConnect,
     ServerRecvConnectFail, ServerRecvQuery, Received
<1>4. ~(server_send_cb(c) \/ server_timeout_cb(c) \/ remote_recv_cb(c) \/ remote_send_cb(c))
  BY <1>1 DEF Closed, server_send_cb, ServerSendClose, ServerSend, server_timeout_cb,
     remote_recv_cb, remote_send_cb, RemoteRecvClose, RemoteRecv,
     RemoteSendClose, RemoteConnectedIdle, RemoteSend
<1>5. PICK f \in Family :
        ResolvOne(c, f) \/ ResolvAbandoned(c, f) \/ ResolvFail(c, f) \/ ResolvConnect(c, f)
  BY <1>2, <1>3, <1>4 DEF resolv_cb
<1>6. ~ResolvFail(c, f) /\ ~ResolvConnect(c, f)
  BY <1>1 DEF Closed, ResolvFail, ResolvConnect, Answer
<1>7. QED
  BY <1>5, <1>6 DEF ResolvOne, ResolvAbandoned

\* Once its server_t is freed, a connection sends nothing to either peer and
\* its objects are never revived.
THEOREM SilenceAfterClose == Spec => SilentAfterClose
<1>1. ASSUME RelayInv, [Next]_vars, NEW c \in Conn, srv[c].obj = "freed"
      PROVE  wire'[c] = wire[c] /\ srv'[c].obj = "freed" /\ rmt'[c].obj = rmt[c].obj
  <2>1. CASE \E d \in Conn :
               \/ AcceptUnnamed(d) \/ accept_cb(d)
               \/ server_recv_cb(d) \/ server_send_cb(d) \/ server_timeout_cb(d)
               \/ remote_recv_cb(d) \/ remote_send_cb(d)
               \/ resolv_cb(d)
    BY <1>1, <2>1, OthersUnchanged, ClosedUnchanged
  <2>2. CASE block_list_clear_cb \/ pipe_cb \/ Returned \/ UNCHANGED vars
    BY <1>1, <2>2 DEF block_list_clear_cb, pipe_cb, Returned, vars
  <2>3. CASE free_connections
    BY <1>1, <2>3 DEF free_connections
  <2>4. QED
    BY <1>1, <2>1, <2>2, <2>3 DEF Next
<1>2. RelayInv /\ [Next]_vars =>
        [\A c \in Conn : srv[c].obj = "freed" =>
            wire[c]' = wire[c] /\ srv[c]'.obj = "freed" /\ UNCHANGED rmt[c].obj]_vars
  BY <1>1
<1>3. QED
  BY <1>2, RelayInvariant, PTL DEF SilentAfterClose, Spec

-----------------------------------------------------------------------------
(* The block list *)

\* No address occurs twice in s.
OneEntryEach(s) == \A i, j \in 1..Len(s) : s[i].addr = s[j].addr => i = j

LEMMA ListConstants ==
    /\ MAX_TRIES \in Nat /\ MAX_ENTRIES \in Nat /\ MAX_ENTRIES > 0
    /\ MALICIOUS \in Nat /\ MALFORMED \in Nat /\ MALICIOUS > 0 /\ MALFORMED > 0
    /\ Level \subseteq Nat /\ 1 \in Nat
  BY BlockListAssumption DEF Level

LEMMA PositionFinds ==
    ASSUME NEW s, NEW a, cache_key_exist(s, a)
    PROVE  Position(s, a) \in 1..Len(s) /\ s[Position(s, a)].addr = a
  BY DEF cache_key_exist, Position, Find

\* Leaving out entry i moves the later ones down.
LEMMA WithoutShape ==
    ASSUME NEW S, NEW s \in Seq(S), NEW i \in 1..Len(s)
    PROVE  LET t == Without(s, i) IN
           /\ t \in Seq(S) /\ Len(t) = Len(s) - 1
           /\ \A j \in 1..Len(t) : t[j] = IF j < i THEN s[j] ELSE s[j + 1]
<1> DEFINE a == SubSeq(s, 1, i - 1)
           b == SubSeq(s, i + 1, Len(s))
<1>0. Len(s) \in Nat /\ i \in Nat
  OBVIOUS
<1>1. a \in Seq(S) /\ Len(a) = i - 1 /\ \A j \in 1..i - 1 : a[j] = s[j]
  BY <1>0
<1>2. b \in Seq(S) /\ Len(b) = Len(s) - i /\ \A j \in 1..Len(s) - i : b[j] = s[i + j]
  BY <1>0
<1>3. Without(s, i) = a \o b
  BY DEF Without
<1> HIDE DEF a, b
<1>4. a \o b \in Seq(S) /\ Len(a \o b) = Len(s) - 1
  <2>1. a \o b \in Seq(S) /\ Len(a \o b) = Len(a) + Len(b)
    BY <1>1, <1>2, ConcatProperties
  <2>2. (i - 1) + (Len(s) - i) = Len(s) - 1
    BY <1>0
  <2>3. QED
    BY <1>1, <1>2, <2>1, <2>2
<1>5. ASSUME NEW j \in 1..Len(s) - 1
      PROVE  (a \o b)[j] = IF j < i THEN s[j] ELSE s[j + 1]
  <2>1. CASE j < i
    BY <1>0, <1>1, <1>2, <2>1
  <2>2. CASE ~(j < i)
    <3>1. (a \o b)[j] = b[j - (i - 1)]
      BY <1>0, <1>1, <1>2, <2>2
    <3>2. j - (i - 1) \in 1..Len(s) - i /\ i + (j - (i - 1)) = j + 1
      BY <1>0, <2>2
    <3>3. QED
      BY <1>2, <2>2, <3>1, <3>2
  <2>3. QED
    BY <2>1, <2>2
<1>6. QED
  BY <1>3, <1>4, <1>5

\* remove_from_block_list and the removal within a lookup.
LEMMA WithoutEntries ==
    ASSUME NEW S, NEW s \in Seq(S), OneEntryEach(s), NEW i \in 1..Len(s)
    PROVE  LET t == Without(s, i) IN
           /\ t \in Seq(S) /\ Len(t) = Len(s) - 1 /\ OneEntryEach(t)
           /\ \A j \in 1..Len(t) : t[j].addr # s[i].addr
<1> DEFINE n == Len(s)
           from == [j \in 1..n - 1 |-> IF j < i THEN j ELSE j + 1]
<1>0. n \in Nat /\ i \in 1..n
  OBVIOUS
<1>1. PICK t : t = Without(s, i)
  OBVIOUS
<1>2. /\ t \in Seq(S) /\ Len(t) = n - 1
      /\ \A j \in 1..n - 1 : t[j] = IF j < i THEN s[j] ELSE s[j + 1]
  BY <1>1, WithoutShape
<1> HIDE DEF n
<1>3. ASSUME NEW j \in 1..n - 1
      PROVE  from[j] \in 1..n /\ from[j] # i /\ t[j] = s[from[j]]
  BY <1>0, <1>2
<1>4. \A j, l \in 1..n - 1 : from[j] = from[l] => j = l
  BY <1>0
<1> HIDE DEF from
<1>5. OneEntryEach(t)
  BY <1>2, <1>3, <1>4 DEF OneEntryEach, n
<1>6. \A j \in 1..n - 1 : t[j].addr # s[i].addr
  BY <1>0, <1>3 DEF OneEntryEach, n
<1>7. QED
  BY <1>1, <1>2, <1>5, <1>6 DEF n

\* An entry is added last.
LEMMA AppendEntry ==
    ASSUME NEW S, NEW t \in Seq(S), NEW e \in S, OneEntryEach(t),
           \A j \in 1..Len(t) : t[j].addr # e.addr
    PROVE  LET u == Append(t, e) IN
           /\ u \in Seq(S) /\ Len(u) = Len(t) + 1 /\ u[Len(t) + 1] = e
           /\ \A j \in 1..Len(t) : u[j] = t[j]
           /\ OneEntryEach(u)
<1>0. Len(t) \in Nat
  OBVIOUS
<1>1. PICK u : u = Append(t, e)
  OBVIOUS
<1>2. /\ u \in Seq(S) /\ Len(u) = Len(t) + 1 /\ u[Len(t) + 1] = e
      /\ \A j \in 1..Len(t) : u[j] = t[j]
  BY <1>0, <1>1
<1>3. OneEntryEach(u)
  <2> SUFFICES ASSUME NEW i \in 1..Len(t) + 1, NEW j \in 1..Len(t) + 1, u[i].addr = u[j].addr
               PROVE  i = j
    BY <1>2 DEF OneEntryEach
  <2>1. CASE i \in 1..Len(t) /\ j \in 1..Len(t)
    BY <1>2, <2>1 DEF OneEntryEach
  <2>2. CASE i = Len(t) + 1 /\ j \in 1..Len(t)
    BY <1>2, <2>2
  <2>3. CASE i \in 1..Len(t) /\ j = Len(t) + 1
    BY <1>2, <2>3
  <2>4. QED
    BY <1>0, <2>1, <2>2, <2>3
<1>4. QED
  BY <1>1, <1>2, <1>3

\* A lookup moves an entry to the end and changes none.
LEMMA TouchEntries ==
    ASSUME NEW S, NEW s \in Seq(S), OneEntryEach(s), NEW a, cache_key_exist(s, a)
    PROVE  LET t == Touch(s, a) IN
           /\ t \in Seq(S) /\ Len(t) = Len(s) /\ Len(s) > 0 /\ OneEntryEach(t)
           /\ t[Len(s)] = s[Position(s, a)] /\ t[Len(s)] \in S /\ t[Len(s)].addr = a
<1> DEFINE i == Position(s, a)
           w == Without(s, i)
<1>1. i \in 1..Len(s) /\ s[i].addr = a /\ s[i] \in S /\ Len(s) \in Nat
  BY PositionFinds
<1>2. /\ w \in Seq(S) /\ Len(w) = Len(s) - 1 /\ OneEntryEach(w)
      /\ \A j \in 1..Len(w) : w[j].addr # s[i].addr
  BY <1>1, WithoutEntries
<1>3. Touch(s, a) = Append(w, s[i])
  BY DEF Touch
<1> HIDE DEF i, w
<1>4. /\ Append(w, s[i]) \in Seq(S) /\ Len(Append(w, s[i])) = Len(w) + 1
      /\ Append(w, s[i])[Len(w) + 1] = s[i] /\ OneEntryEach(Append(w, s[i]))
  BY <1>1, <1>2, AppendEntry
<1>5. Len(w) + 1 = Len(s) /\ Len(s) > 0
  BY <1>1, <1>2
<1>6. QED
  BY <1>1, <1>3, <1>4, <1>5 DEF i

\* What a run of cache_clear, an eviction or nothing at all leaves: a suffix.
LEMMA SuffixEntries ==
    ASSUME NEW S, NEW s \in Seq(S), OneEntryEach(s), NEW k \in 1..Len(s) + 1
    PROVE  LET t == SubSeq(s, k, Len(s)) IN
           /\ t \in Seq(S) /\ Len(t) = Len(s) + 1 - k /\ OneEntryEach(t)
<1> DEFINE n == Len(s)
<1>0. n \in Nat /\ k \in 1..n + 1
  OBVIOUS
<1>1. PICK t : t = SubSeq(s, k, n)
  OBVIOUS
<1>2. /\ t \in Seq(S) /\ Len(t) = n + 1 - k
      /\ \A j \in 1..n + 1 - k : t[j] = s[k + j - 1]
  BY <1>0, <1>1
<1> HIDE DEF n
<1>3. ASSUME NEW j \in 1..n + 1 - k
      PROVE  k + j - 1 \in 1..n
  BY <1>0
<1>4. \A i, j \in 1..n + 1 - k : k + i - 1 = k + j - 1 => i = j
  BY <1>0
<1>5. OneEntryEach(t)
  <2> SUFFICES ASSUME NEW i \in 1..n + 1 - k, NEW j \in 1..n + 1 - k, t[i].addr = t[j].addr
               PROVE  i = j
    BY <1>2 DEF OneEntryEach
  <2>1. s[k + i - 1].addr = s[k + j - 1].addr
    BY <1>2
  <2>2. k + i - 1 = k + j - 1
    BY <1>3, <2>1 DEF OneEntryEach, n
  <2>3. QED
    BY <1>4, <2>2
<1>6. QED
  BY <1>1, <1>2, <1>5 DEF n

\* The cache stays below its capacity: the head leaves when an entry would fill it.
LEMMA InsertEntries ==
    ASSUME NEW S, NEW s \in Seq(S), OneEntryEach(s), Len(s) < MAX_ENTRIES,
           NEW a, NEW n, [addr |-> a, count |-> n] \in S, ~cache_key_exist(s, a)
    PROVE  LET t == cache_insert(s, a, n) IN
           t \in Seq(S) /\ Len(t) < MAX_ENTRIES /\ OneEntryEach(t)
<1> DEFINE e == [addr |-> a, count |-> n]
           u == Append(s, e)
<1>0. Len(s) \in Nat /\ MAX_ENTRIES \in Nat /\ MAX_ENTRIES > 0
  BY ListConstants
<1>1. \A j \in 1..Len(s) : s[j].addr # e.addr
  BY DEF cache_key_exist, Find
<1>2. u \in Seq(S) /\ Len(u) = Len(s) + 1 /\ OneEntryEach(u)
  BY <1>1, AppendEntry
<1>3. cache_insert(s, a, n) = IF Len(u) >= MAX_ENTRIES THEN Tail(u) ELSE u
  BY DEF cache_insert
<1> HIDE DEF e, u
<1>4. /\ Tail(u) \in Seq(S) /\ Len(Tail(u)) = Len(s)
      /\ \A j \in 1..Len(s) : Tail(u)[j] = u[j + 1] /\ j + 1 \in 1..Len(u)
  BY <1>0, <1>2
<1>5. OneEntryEach(Tail(u))
  BY <1>0, <1>2, <1>4 DEF OneEntryEach
<1>6. QED
  BY <1>0, <1>2, <1>3, <1>4, <1>5

\* update_block_list: a new entry, a blocked one left alone, or a count raised.
LEMMA UpdateEntries ==
    ASSUME NEW S, NEW T, S \subseteq T, T \subseteq Entry, NEW s \in Seq(S), OneEntryEach(s),
           Len(s) < MAX_ENTRIES, NEW a, NEW level, [addr |-> a, count |-> 1] \in T,
           \A e \in S : e.addr = a /\ ~(e.count > MAX_TRIES) =>
                            [addr |-> a, count |-> e.count + level] \in T
    PROVE  LET t == update_block_list(s, a, level) IN
           t \in Seq(T) /\ Len(t) < MAX_ENTRIES /\ OneEntryEach(t)
<1>0. s \in Seq(T)
  OBVIOUS
<1>1. CASE ~cache_key_exist(s, a)
  BY <1>0, <1>1, InsertEntries DEF update_block_list
<1>2. CASE cache_key_exist(s, a)
  <2> DEFINE u == Touch(s, a)
             n == Len(s)
  <2>1. /\ u \in Seq(S) /\ Len(u) = n /\ n > 0 /\ OneEntryEach(u)
        /\ u[n] = s[Position(s, a)] /\ u[n] \in S /\ u[n].addr = a
    BY <1>2, TouchEntries
  <2>2. CASE Blocked(s, a)
    <3>1. update_block_list(s, a, level) = u
      BY <1>2, <2>2 DEF update_block_list
    <3>2. u \in Seq(T)
      BY <2>1
    <3>3. QED
      BY <2>1, <3>1, <3>2
  <2>3. CASE ~Blocked(s, a)
    <3> DEFINE e == [addr |-> a, count |-> u[n].count + level]
               t == [u EXCEPT ![n] = e]
    <3>1. update_block_list(s, a, level) = t
      BY <1>2, <2>1, <2>3 DEF update_block_list
    <3>2. e \in T
      BY <1>2, <2>1, <2>3 DEF Blocked
    <3>3. e.addr = u[n].addr
      BY <2>1
    <3> HIDE DEF e, u
    <3>4. n \in 1..n /\ n \in Nat
      BY <2>1
    <3>5. t \in Seq(T) /\ Len(t) = n /\ \A j \in 1..n : t[j] = IF j = n THEN e ELSE u[j]
      BY <2>1, <3>2, <3>4
    <3> HIDE DEF t, n
    <3>6. OneEntryEach(t)
      BY <2>1, <3>3, <3>4, <3>5 DEF OneEntryEach
    <3>7. QED
      BY <3>1, <3>5, <3>6 DEF n
  <2>4. QED
    BY <2>2, <2>3
<1>3. QED
  BY <1>1, <1>2

\* The steps of connection c.
StepOf(c) ==
    \/ AcceptUnnamed(c) \/ accept_cb(c)
    \/ server_recv_cb(c) \/ server_send_cb(c) \/ server_timeout_cb(c)
    \/ remote_recv_cb(c) \/ remote_send_cb(c)
    \/ resolv_cb(c)

\* The list may be looked up or the peer taken off it ...
ListKept(c) ==
    \/ block_list' = block_list
    \/ block_list' = Touch(block_list, PeerOf[c])
    \/ block_list' = cache_remove(block_list, PeerOf[c])

\* ... or a connection in use is closed and its peer reported.
Reported(c) ==
    /\ srv[c].obj = "live" /\ srv'[c].obj = "freed"
    /\ PeerOf[c] # Loopback
    /\ \E level \in Level : block_list' = update_block_list(block_list, PeerOf[c], level)

LEMMA CloseFrees ==
    ASSUME RelayInv, NEW c \in Conn, CloseServer(c) \/ CloseBoth(c)
    PROVE  srv'[c].obj = "freed"
<1>1. srv[c] \in Server /\ DOMAIN srv = Conn
  BY DEF RelayInv, ConnInv, ConnTypeOK
<1>2. QED
  BY <1>1 DEF CloseServer, CloseBoth, FreedServer, Server

LEMMA ReportStep ==
    ASSUME RelayInv, NEW c \in Conn, srv[c].recv, CloseServer(c) \/ CloseBoth(c),
           NEW level \in Level, report_addr(c, level)
    PROVE  ListKept(c) \/ Reported(c)
<1>1. srv[c].obj = "live" /\ srv'[c].obj = "freed"
  BY ReadingPhase, CloseFrees
<1>2. QED
  BY <1>1 DEF report_addr, ListKept, Reported

LEMMA ListStep ==
    ASSUME RelayInv, NEW c \in Conn, StepOf(c)
    PROVE  ListKept(c) \/ Reported(c)
<1>0. MALICIOUS \in Level /\ MALFORMED \in Level
  BY DEF Level
<1>1. CASE AcceptUnnamed(c) \/ accept_cb(c)
  BY <1>1 DEF AcceptUnnamed, accept_cb, check_block_list, ListKept
<1>2. CASE ServerRecvClose(c) \/ ServerRecvForward(c) \/ ServerRecvConnect(c)
           \/ ServerRecvConnectFail(c) \/ ServerRecvQuery(c)
  BY <1>2 DEF ServerRecvClose, ServerRecvForward, ForwardUp, ServerRecvConnect,
              ServerRecvConnectFail, ServerRecvQuery, ListKept
<1>3. CASE ServerRecvCryptoError(c)
  <2>1. srv[c].recv /\ (CloseServer(c) \/ CloseBoth(c)) /\ report_addr(c, MALICIOUS)
    BY <1>3 DEF ServerRecvCryptoError, Received
  <2>2. QED
    BY <1>0, <2>1, ReportStep
<1>4. CASE ServerRecvNeedMore(c)
  <2>1. srv[c].recv /\ (UNCHANGED block_list \/ (CloseServer(c) /\ report_addr(c, MALICIOUS)))
    BY <1>4 DEF ServerRecvNeedMore, Received
  <2>2. QED
    BY <1>0, <2>1, ReportStep DEF ListKept
<1>5. CASE ServerRecvMalformed(c)
  <2>1. srv[c].recv /\ CloseServer(c) /\ report_addr(c, MALFORMED)
    BY <1>5 DEF ServerRecvMalformed, Received
  <2>2. QED
    BY <1>0, <2>1, ReportStep
<1>6. CASE server_send_cb(c) \/ server_timeout_cb(c)
  BY <1>6 DEF server_send_cb, ServerSendClose, ServerSend, server_timeout_cb, ListKept
<1>7. CASE remote_recv_cb(c) \/ remote_send_cb(c)
  BY <1>7 DEF remote_recv_cb, remote_send_cb, RemoteRecvClose, RemoteRecv, RemoteSendClose,
              RemoteConnectedIdle, RemoteSend, reset_addr, remove_from_block_list, ListKept
<1>8. CASE resolv_cb(c)
  BY <1>8 DEF resolv_cb, ResolvOne, ResolvAbandoned, ResolvFail, ResolvConnect, ListKept
<1>9. QED
  BY <1>1, <1>2, <1>3, <1>4, <1>5, <1>6, <1>7, <1>8 DEF StepOf, server_recv_cb

\* Steps of the loop itself only shorten the list.
LEMMA LoopStep ==
    ASSUME [Next]_vars, ~\E c \in Conn : StepOf(c)
    PROVE  /\ block_list' = block_list \/ block_list' \in Cleared(block_list)
           /\ srv' = srv \/ free_connections
<1>1. CASE block_list_clear_cb \/ pipe_cb \/ free_connections \/ Returned \/ UNCHANGED vars
  BY <1>1 DEF block_list_clear_cb, pipe_cb, free_connections, Returned, vars
<1>2. QED
  BY <1>1 DEF Next, StepOf

\* The entries that may be in the list at all.
Allowed ==
    {e \in Entry : e.addr # Loopback /\ \E l \in Level \cup {1} : e.count <= MAX_TRIES + l}

\* The connections of peer a that have been closed, and the entries they justify.
Offences(a) == {c \in Conn : PeerOf[c] = a /\ srv[c].obj = "freed"}

Caused ==
    {e \in Entry : LET n == Cardinality(Offences(e.addr))
                   IN  n > 0 /\ \E l \in Level : e.count <= 1 + l * (n - 1)}

IsFun(f) == f = [c \in Conn |-> f[c]]

\* The invariant of the block list; RelayInv says which connections can be
\* reported, and finitely many have been accepted.
ListInv ==
    /\ RelayInv
    /\ IsFun(srv) /\ IsFun(rmt) /\ IsFun(qry) /\ IsFun(wire)
    /\ IsFiniteSet({c \in Conn : srv[c].obj # "none"})
    /\ block_list \in Seq(Allowed \cap Caused)
    /\ OneEntryEach(block_list)
    /\ Len(block_list) < MAX_ENTRIES

LEMMA FunStep ==
    ASSUME IsFun(srv), IsFun(rmt), IsFun(qry), IsFun(wire), RelayInv, [Next]_vars
    PROVE  IsFun(srv') /\ IsFun(rmt') /\ IsFun(qry') /\ IsFun(wire')
<1> DEFINE Goal == IsFun(srv') /\ IsFun(rmt') /\ IsFun(qry') /\ IsFun(wire')
<1>1. ASSUME NEW c \in Conn, AcceptUnnamed(c) \/ accept_cb(c) PROVE Goal
  BY <1>1 DEF AcceptUnnamed, accept_cb, Admitted, Refused, RelayInv, IsFun
<1>2. ASSUME NEW c \in Conn, CloseServer(c) \/ CloseBoth(c),
             wire' = wire \/ \E n \in 1..BUF_SIZE : wire' = [wire EXCEPT ![c].cin = @ + n]
      PROVE  Goal
  BY <1>2 DEF CloseServer, CloseBoth, OrphanQuery, RelayInv, IsFun
<1>3. ASSUME NEW c \in Conn, server_recv_cb(c) PROVE Goal
  <2>1. CASE ServerRecvClose(c) \/ ServerRecvCryptoError(c) \/ ServerRecvMalformed(c)
             \/ ServerRecvConnectFail(c)
    BY <1>2, <2>1 DEF ServerRecvClose, ServerRecvCryptoError, ServerRecvMalformed, ServerRecvConnectFail
  <2>2. CASE ServerRecvNeedMore(c)
    <3>1. \/ UNCHANGED <<rmt, qry>> /\ \E n \in 1..BUF_SIZE :
                /\ srv' = [srv EXCEPT ![c].nonce = @ + n, ![c].frag = @ + 1]
                /\ wire' = [wire EXCEPT ![c].cin = @ + n]
          \/ CloseServer(c) /\ \E n \in 1..BUF_SIZE : wire' = [wire EXCEPT ![c].cin = @ + n]
      BY <2>2 DEF ServerRecvNeedMore
    <3>2. QED
      BY <1>2, <3>1 DEF RelayInv, IsFun
  <2>3. CASE ServerRecvForward(c)
    BY <2>3 DEF ServerRecvForward, ForwardUp, RelayInv, IsFun
  <2>4. CASE ServerRecvConnect(c)
    BY <2>4 DEF ServerRecvConnect, RelayInv, IsFun
  <2>5. CASE ServerRecvQuery(c)
    BY <2>5 DEF ServerRecvQuery, RelayInv, IsFun
  <2>6. QED
    BY <1>3, <2>1, <2>2, <2>3, <2>4, <2>5 DEF server_recv_cb
<1>4. ASSUME NEW c \in Conn, server_send_cb(c) \/ server_timeout_cb(c) PROVE Goal
  <2>1. CASE ServerSend(c)
    BY <2>1 DEF ServerSend, SendDown, RelayInv, IsFun
  <2>2. QED
    BY <1>2, <1>4, <2>1 DEF server_send_cb, ServerSendClose, server_timeout_cb
<1>5. ASSUME NEW c \in Conn, remote_recv_cb(c) \/ remote_send_cb(c) PROVE Goal
  <2>1. CASE RemoteRecv(c)
    <3>1. PICK n \in 1..BUF_SIZE : \E s \in 0..Len(Cipher(c, n)) : ForwardDown(c, n, s) /\ UNCHANGED qry
      BY <2>1 DEF RemoteRecv
    <3>2. IsFun(srv')
      BY <3>1 DEF ForwardDown, RelayInv, IsFun
    <3>3. IsFun(rmt')
      BY <3>1 DEF ForwardDown, RelayInv, IsFun
    <3>4. IsFun(wire')
      BY <3>1 DEF ForwardDown, RelayInv, IsFun
    <3>5. QED
      BY <3>1, <3>2, <3>3, <3>4
  <2>2. CASE RemoteConnectedIdle(c)
    BY <2>2 DEF RemoteConnectedIdle, RelayInv, IsFun
  <2>3. CASE RemoteSend(c)
    BY <2>3 DEF RemoteSend, SendUp, RelayInv, IsFun
  <2>4. QED
    BY <1>2, <1>5, <2>1, <2>2, <2>3 DEF remote_recv_cb, remote_send_cb, RemoteRecvClose, RemoteSendClose
<1>6. ASSUME NEW c \in Conn, resolv_cb(c) PROVE Goal
  BY <1>6 DEF resolv_cb, ResolvOne, ResolvAbandoned, ResolvFail, ResolvConnect, RelayInv, IsFun
<1>7. CASE block_list_clear_cb \/ pipe_cb \/ free_connections \/ Returned \/ UNCHANGED vars
  BY <1>7 DEF block_list_clear_cb, pipe_cb, free_connections, Returned, vars, IsFun
<1>8. QED
  BY <1>1, <1>3, <1>4, <1>5, <1>6, <1>7 DEF Next

LEMMA ListInvTypes == ListInv => TypeOK
<1> SUFFICES ASSUME ListInv PROVE TypeOK
  OBVIOUS
<1>1. \A c \in Conn : srv[c] \in Server /\ rmt[c] \in Remote /\ qry[c] \in Query /\ wire[c] \in Wire
  BY DEF ListInv, RelayInv, ConnInv, ConnTypeOK
<1>2. srv \in [Conn -> Server] /\ rmt \in [Conn -> Remote] /\ qry \in [Conn -> Query]
      /\ wire \in [Conn -> Wire]
  BY <1>1 DEF ListInv, IsFun
<1>3. block_list \in Seq(Entry)
  BY DEF ListInv, Allowed
<1>4. QED
  BY <1>2, <1>3 DEF TypeOK, ListInv, RelayInv

\* A connection is accepted at most once, and closed for good.
LEMMA ObjectStep ==
    ASSUME RelayInv, [Next]_vars
    PROVE  /\ \A c \in Conn : srv[c].obj = "freed" => srv'[c].obj = "freed"
           /\ \/ \E c \in Conn : StepOf(c) /\ \A d \in Conn : d # c => srv'[d] = srv[d]
              \/ /\ ~\E c \in Conn : StepOf(c)
                 /\ \A d \in Conn : srv[d].obj = "none" => srv'[d].obj = "none"
<1>1. CASE \E c \in Conn : StepOf(c)
  <2>1. PICK c \in Conn : StepOf(c)
    BY <1>1
  <2>2. \A d \in Conn : d # c => srv'[d] = srv[d]
    BY <2>1, OthersUnchanged DEF StepOf
  <2>3. srv[c].obj = "freed" => srv'[c] = srv[c]
    BY <2>1, ClosedUnchanged DEF StepOf
  <2>4. QED
    BY <2>1, <2>2, <2>3
<1>2. CASE ~\E c \in Conn : StepOf(c)
  <2>1. srv' = srv \/ free_connections
    BY <1>2, LoopStep
  <2>2. QED
    BY <1>2, <2>1 DEF free_connections
<1>3. QED
  BY <1>1, <1>2

\* One report more allows for one level more.
LEMMA CountArithmetic ==
    ASSUME NEW l \in Nat, NEW k \in Nat, NEW n \in Nat, NEW m \in Nat, NEW x \in Nat, n > 0
    PROVE  /\ x <= 1 + l * (n - 1) /\ m >= n => x <= 1 + l * (m - 1)
           /\ 1 <= 1 + l * (n - 1)
           /\ x <= 1 + l * (n - 1) /\ k <= l => x + k <= 1 + l * ((n + 1) - 1)
           /\ x <= 1 + l * (n - 1) /\ l <= k => x + k <= 1 + k * ((n + 1) - 1)
<1>1. PICK p \in Nat : p = n - 1
  OBVIOUS
<1>2. l * p \in Nat /\ k * p \in Nat /\ 1 <= 1 + l * p
  OBVIOUS
<1>3. ASSUME m >= n PROVE l * p <= l * (m - 1)
  <2>1. PICK q \in Nat : m - 1 = p + q
    BY <1>1, <1>3
  <2>2. l * (p + q) = l * p + l * q /\ l * q \in Nat
    OBVIOUS
  <2>3. QED
    BY <1>2, <2>1, <2>2
<1>4. l * (p + 1) = l * p + l /\ k * (p + 1) = k * p + k
  OBVIOUS
<1>5. ASSUME l <= k PROVE l * p <= k * p
  <2>1. PICK q \in Nat : k = l + q
    BY <1>5
  <2>2. (l + q) * p = l * p + q * p /\ q * p \in Nat
    OBVIOUS
  <2>3. QED
    BY <1>2, <2>1, <2>2
<1>6. (n + 1) - 1 = p + 1 /\ n - 1 = p
  BY <1>1
<1>7. x <= 1 + l * (n - 1) /\ m >= n => x <= 1 + l * (m - 1)
  <2>1. PICK z : z = l * (m - 1)
    OBVIOUS
  <2>2. m >= n => z \in Int
    BY <2>1
  <2>3. QED
    BY <1>2, <1>3, <1>6, <2>1, <2>2
<1>8. x <= 1 + l * p /\ k <= l => x + k <= 1 + (l * p + l)
  BY <1>2
<1>9. x <= 1 + l * p /\ l <= k => x + k <= 1 + (k * p + k)
  BY <1>2, <1>5
<1>10. QED
  BY <1>2, <1>4, <1>6, <1>7, <1>8, <1>9

\* Closed connections stay closed, so a cause stays a cause.
LEMMA CausedGrows ==
    ASSUME IsFiniteSet({c \in Conn : srv[c].obj # "none"}'),
           \A c \in Conn : srv[c].obj = "freed" => srv'[c].obj = "freed"
    PROVE  /\ Caused \subseteq Caused'
           /\ \A a : Offences(a) \subseteq Offences(a)' /\ IsFiniteSet(Offences(a)')
                     /\ IsFiniteSet(Offences(a))
<1>1. ASSUME NEW a
      PROVE  /\ Offences(a) \subseteq Offences(a)' /\ IsFiniteSet(Offences(a)')
             /\ IsFiniteSet(Offences(a))
  <2>1. Offences(a) \subseteq Offences(a)'
    BY DEF Offences
  <2>2. Offences(a)' \subseteq {c \in Conn : srv[c].obj # "none"}'
    BY DEF Offences
  <2>3. IsFiniteSet(Offences(a)')
    BY <2>2, FS_Subset
  <2>4. QED
    BY <2>1, <2>3, FS_Subset
<1>2. ASSUME NEW e \in Caused PROVE e \in Caused'
  <2>1. PICK A : A = Offences(e.addr)
    OBVIOUS
  <2>2. PICK B : B = Offences(e.addr)'
    OBVIOUS
  <2>3. A \subseteq B /\ IsFiniteSet(A) /\ IsFiniteSet(B)
    BY <1>1, <2>1, <2>2
  <2>4. Cardinality(A) \in Nat /\ Cardinality(B) \in Nat /\ Cardinality(A) <= Cardinality(B)
    BY <2>3, FS_Subset, FS_CardinalityType
  <2>5. PICK l \in Level : e.count <= 1 + l * (Cardinality(A) - 1)
    BY <2>1 DEF Caused
  <2>6. e \in Entry /\ e.count \in Nat /\ Cardinality(A) > 0 /\ l \in Nat
    BY <2>1, ListConstants DEF Caused, Entry
  <2>7. e.count <= 1 + l * (Cardinality(B) - 1) /\ Cardinality(B) > 0
    BY <2>4, <2>5, <2>6, CountArithmetic
  <2>8. QED
    BY <2>2, <2>6, <2>7 DEF Caused
<1>3. QED
  BY <1>1, <1>2

\* The first count, and one report more, when c has just been closed.
LEMMA CausedByReport ==
    ASSUME IsFiniteSet({c \in Conn : srv[c].obj # "none"}'),
           \A c \in Conn : srv[c].obj = "freed" => srv'[c].obj = "freed",
           NEW c \in Conn, srv[c].obj # "freed", srv'[c].obj = "freed",
           NEW level \in Level
    PROVE  /\ [addr |-> PeerOf[c], count |-> 1] \in Caused'
           /\ \A e \in Caused : e.addr = PeerOf[c] =>
                [addr |-> PeerOf[c], count |-> e.count + level] \in Caused'
<1>0. PeerOf[c] \in Addr /\ level \in Nat
  BY RelayAssumption, ListConstants
<1>1. PICK A : A = Offences(PeerOf[c])
  OBVIOUS
<1>2. PICK B : B = Offences(PeerOf[c])'
  OBVIOUS
<1>3. A \cup {c} \subseteq B /\ c \notin A /\ IsFiniteSet(A) /\ IsFiniteSet(B)
  <2>1. A \cup {c} \subseteq B /\ c \notin A
    BY <1>1, <1>2 DEF Offences
  <2>2. PICK a : a = PeerOf[c]
    OBVIOUS
  <2>3. IsFiniteSet(Offences(a)') /\ IsFiniteSet(Offences(a))
    BY CausedGrows
  <2>4. QED
    BY <1>1, <1>2, <2>1, <2>2, <2>3
<1>4. Cardinality(A) \in Nat /\ Cardinality(B) \in Nat /\ Cardinality(A) + 1 <= Cardinality(B)
  <2>1. IsFiniteSet(A \cup {c}) /\ Cardinality(A \cup {c}) = Cardinality(A) + 1
    BY <1>3, FS_AddElement
  <2>2. QED
    BY <1>3, <2>1, FS_Subset, FS_CardinalityType
<1> DEFINE n == Cardinality(A)
           m == Cardinality(B)
<1>5. n \in Nat /\ m \in Nat /\ m >= n + 1 /\ n + 1 > 0 /\ m > 0
  BY <1>4
<1> HIDE DEF n, m
<1>6. ASSUME NEW x \in Nat, NEW l \in Level, x <= 1 + l * (m - 1)
      PROVE  [addr |-> PeerOf[c], count |-> x] \in Caused'
  <2> DEFINE e == [addr |-> PeerOf[c], count |-> x]
  <2>1. e \in Entry /\ e.addr = PeerOf[c] /\ e.count = x
    BY <1>0 DEF Entry
  <2> HIDE DEF e
  <2>2. Offences(e.addr)' = B
    BY <1>2, <2>1
  <2>3. QED
    BY <1>5, <1>6, <2>1, <2>2 DEF Caused, m, e
<1>7. [addr |-> PeerOf[c], count |-> 1] \in Caused'
  BY <1>0, <1>5, <1>6, CountArithmetic
<1>8. ASSUME NEW e \in Caused, e.addr = PeerOf[c]
      PROVE  [addr |-> PeerOf[c], count |-> e.count + level] \in Caused'
  <2>1. e.count \in Nat /\ n > 0
    BY <1>1, <1>8 DEF Caused, Entry, n
  <2>2. PICK l \in Level : e.count <= 1 + l * (n - 1)
    BY <1>1, <1>8 DEF Caused, n
  <2>3. l \in Nat /\ e.count + level \in Nat /\ n + 1 \in Nat
    BY <1>0, <1>5, <2>1, ListConstants
  <2>4. \/ e.count + level <= 1 + l * ((n + 1) - 1)
        \/ e.count + level <= 1 + level * ((n + 1) - 1)
    <3>1. level <= l \/ l <= level
      BY <1>0, <2>3
    <3>2. QED
      BY <1>0, <1>5, <2>1, <2>2, <2>3, <3>1, CountArithmetic
  <2>5. PICK k \in Level : e.count + level <= 1 + k * ((n + 1) - 1)
    BY <2>4
  <2>6. k \in Nat
    BY ListConstants
  <2>7. e.count + level <= 1 + k * (m - 1)
    BY <1>5, <2>3, <2>5, <2>6, CountArithmetic
  <2>8. QED
    BY <1>6, <2>3, <2>7
<1>9. QED
  BY <1>7, <1>8

\* Counting stops at MAX_TRIES.
LEMMA AllowedByReport ==
    ASSUME NEW a \in Addr, a # Loopback, NEW level \in Level
    PROVE  /\ [addr |-> a, count |-> 1] \in Allowed
           /\ \A e \in Allowed : ~(e.count > MAX_TRIES) =>
                [addr |-> a, count |-> e.count + level] \in Allowed
<1>1. [addr |-> a, count |-> 1] \in Allowed
  BY ListConstants DEF Allowed, Entry
<1>2. ASSUME NEW e \in Allowed, ~(e.count > MAX_TRIES)
      PROVE  [addr |-> a, count |-> e.count + level] \in Allowed
  <2>1. e.count \in Nat /\ level \in Nat /\ MAX_TRIES \in Nat
    BY ListConstants DEF Allowed, Entry
  <2>2. e.count + level \in Nat /\ e.count + level <= MAX_TRIES + level
    BY <1>2, <2>1
  <2>3. QED
    BY <2>2 DEF Allowed, Entry
<1>3. QED
  BY <1>1, <1>2

LEMMA ListInvNext ==
    ASSUME ListInv, [Next]_vars
    PROVE  ListInv'
<1> DEFINE Used == {c \in Conn : srv[c].obj # "none"}
           S == Allowed \cap Caused
           T == Allowed \cap Caused'
<1>1. RelayInv /\ RelayInv'
  BY RelayInvNext DEF ListInv
<1>2. (IsFun(srv) /\ IsFun(rmt) /\ IsFun(qry) /\ IsFun(wire))'
  BY FunStep DEF ListInv
<1>3. \A c \in Conn : srv[c].obj = "freed" => srv'[c].obj = "freed"
  BY <1>1, ObjectStep
<1>4. IsFiniteSet(Used')
  <2>1. IsFiniteSet(Used)
    BY DEF ListInv
  <2>2. Used' \subseteq Used \/ \E c \in Conn : Used' \subseteq Used \cup {c}
    BY <1>1, ObjectStep
  <2>3. QED
    BY <2>1, <2>2, FS_AddElement, FS_Subset
<1>5. Caused \subseteq Caused' /\ S \subseteq T
  BY <1>3, <1>4, CausedGrows
<1>6. /\ block_list \in Seq(S) /\ OneEntryEach(block_list) /\ Len(block_list) < MAX_ENTRIES
      /\ Len(block_list) \in Nat /\ MAX_ENTRIES \in Nat
  BY ListConstants DEF ListInv
<1>7. S \subseteq Entry /\ T \subseteq Entry
  BY DEF Allowed
<1> DEFINE Goal == block_list' \in Seq(T) /\ OneEntryEach(block_list') /\ Len(block_list') < MAX_ENTRIES
<1> HIDE DEF S, T, Used
<1>8. block_list \in Seq(T)
  BY <1>5, <1>6
<1>9. ASSUME block_list' = block_list PROVE Goal
  BY <1>6, <1>8, <1>9
<1>10. ASSUME NEW c \in Conn, ListKept(c) PROVE Goal
  <2> DEFINE a == PeerOf[c]
  <2>1. CASE ~cache_key_exist(block_list, a)
    BY <1>9, <1>10, <2>1 DEF ListKept, Touch, cache_remove
  <2>2. CASE cache_key_exist(block_list, a)
    <3>1. CASE block_list' = Touch(block_list, a)
      BY <1>6, <1>8, <2>2, <3>1, TouchEntries
    <3>2. CASE block_list' = cache_remove(block_list, a)
      <4>1. block_list' = Without(block_list, Position(block_list, a))
        BY <2>2, <3>2 DEF cache_remove
      <4>2. Position(block_list, a) \in 1..Len(block_list)
        BY <2>2, PositionFinds
      <4>3. /\ block_list' \in Seq(T) /\ Len(block_list') = Len(block_list) - 1
            /\ OneEntryEach(block_list')
        BY <1>6, <1>8, <4>1, <4>2, WithoutEntries
      <4>4. QED
        BY <1>6, <4>3
    <3>3. QED
      BY <1>9, <1>10, <3>1, <3>2 DEF ListKept
  <2>3. QED
    BY <2>1, <2>2
<1>11. ASSUME NEW c \in Conn, Reported(c) PROVE Goal
  <2> DEFINE a == PeerOf[c]
  <2>1. PICK level \in Level : block_list' = update_block_list(block_list, a, level)
    BY <1>11 DEF Reported
  <2>2. a \in Addr /\ a # Loopback
    BY <1>11, RelayAssumption DEF Reported
  <2>3. srv[c].obj # "freed" /\ srv'[c].obj = "freed"
    BY <1>11 DEF Reported
  <2>4. /\ [addr |-> a, count |-> 1] \in Caused'
        /\ \A e \in Caused : e.addr = a => [addr |-> a, count |-> e.count + level] \in Caused'
    BY <1>3, <1>4, <2>3, CausedByReport DEF Used
  <2>5. /\ [addr |-> a, count |-> 1] \in Allowed
        /\ \A e \in Allowed : ~(e.count > MAX_TRIES) =>
             [addr |-> a, count |-> e.count + level] \in Allowed
    BY <2>2, AllowedByReport
  <2> HIDE DEF a
  <2>6. /\ [addr |-> a, count |-> 1] \in T
        /\ \A e \in S : e.addr = a /\ ~(e.count > MAX_TRIES) =>
             [addr |-> a, count |-> e.count + level] \in T
    BY <2>4, <2>5 DEF S, T
  <2>7. QED
    BY <1>5, <1>6, <1>7, <2>1, <2>6, UpdateEntries
<1>12. ASSUME block_list' \in Cleared(block_list) PROVE Goal
  <2>1. PICK k \in 1..Len(block_list) + 1 : block_list' = SubSeq(block_list, k, Len(block_list))
    BY <1>12 DEF Cleared
  <2>2. /\ block_list' \in Seq(T) /\ Len(block_list') = Len(block_list) + 1 - k
        /\ OneEntryEach(block_list')
    BY <1>6, <1>8, <2>1, SuffixEntries
  <2>3. QED
    BY <1>6, <2>2
<1>13. Goal
  BY <1>1, <1>9, <1>10, <1>11, <1>12, ListStep, LoopStep
<1>14. QED
  BY <1>1, <1>2, <1>4, <1>13 DEF ListInv, T, Used, Allowed

LEMMA ListInvInit == Init => ListInv
<1> SUFFICES ASSUME Init PROVE ListInv
  OBVIOUS
<1>1. IsFun(srv) /\ IsFun(rmt) /\ IsFun(qry) /\ IsFun(wire)
  BY DEF Init, IsFun
<1>2. {c \in Conn : srv[c].obj # "none"} = {}
  BY DEF Init, NoServer
<1>3. IsFiniteSet({c \in Conn : srv[c].obj # "none"})
  BY <1>2, FS_EmptySet
<1>4. block_list = <<>> /\ Len(<<>>) = 0 /\ MAX_ENTRIES > 0
  BY ListConstants DEF Init
<1>5. QED
  BY <1>1, <1>3, <1>4, RelayInvInit DEF ListInv, OneEntryEach

\* The block list of acl.c, through all that server.c does to it.
THEOREM ListInvariant == Spec => []ListInv
<1>1. ListInv /\ [Next]_vars => ListInv'
  BY ListInvNext
<1>2. QED
  BY <1>1, ListInvInit, PTL DEF Spec

\* A peer has one entry at most, the loopback address none, counting stops when a
\* peer is blocked (update_block_list, acl.c) and the cache stays below its capacity
\* (cache_insert, cache.c); and every variable of the relay has its type.
THEOREM BlockListIsSound == Spec => []BlockListSound
<1>1. ListInv => BlockListSound
  <2> SUFFICES ASSUME ListInv PROVE BlockListSound
    OBVIOUS
  <2>1. TypeOK
    BY ListInvTypes
  <2>2. \A i \in 1..Len(block_list) : block_list[i] \in Allowed
    BY DEF ListInv
  <2>3. QED
    BY <2>1, <2>2 DEF BlockListSound, ListInv, OneEntryEach, Allowed
<1>2. QED
  BY <1>1, ListInvariant, PTL

\* A peer is blocked for its own closed connections only, each of which was reported
\* at most once (report_addr, server.c), for any set of connections.
THEOREM PeersAreBlockedForCause == Spec => []BlockedForCause
<1>1. ListInv => BlockedForCause
  <2> SUFFICES ASSUME ListInv, NEW i \in 1..Len(block_list)
               PROVE  LET n == Cardinality(Offences(block_list[i].addr))
                      IN  n > 0 /\ \E l \in Level : block_list[i].count <= 1 + l * (n - 1)
    BY DEF BlockedForCause, Offences
  <2>1. block_list[i] \in Caused
    BY DEF ListInv
  <2>2. QED
    BY <2>1 DEF Caused
<1>2. QED
  BY <1>1, ListInvariant, PTL

-----------------------------------------------------------------------------
(* The relay implements RelayChannel *)

\* What a channel shows of n bytes of ciphertext.
Shown(n) == IF n <= NONCE THEN 0 ELSE n - NONCE

\* The streams of the channel are determined by how much has been delivered.
StreamsShown ==
    /\ ChannelUp = [c \in Conn |-> Channel!Stream(Len(wire[c].toRemote))]
    /\ ChannelDown = [c \in Conn |-> Channel!Stream(Shown(Len(wire[c].toClient)))]

LEMMA ChannelStreams == RelayInv => StreamsShown
<1> SUFFICES ASSUME RelayInv PROVE StreamsShown
  OBVIOUS
<1>0. NONCE \in Nat /\ NONCE > 0 /\ Preamble \in Nat
  BY RelayAssumption DEF Preamble
<1>1. ASSUME NEW c \in Conn
      PROVE  [i \in 1..Len(wire[c].toRemote) |-> wire[c].toRemote[i] - Preamble] =
                 Channel!Stream(Len(wire[c].toRemote))
  <2>1. \A i \in 1..Len(wire[c].toRemote) : wire[c].toRemote[i] = Preamble + i
    BY DEF RelayInv, ConnInv, Delivered, UpByte
  <2>2. \A i \in 1..Len(wire[c].toRemote) : wire[c].toRemote[i] - Preamble = i
    BY <1>0, <2>1
  <2>3. QED
    BY <2>2 DEF Channel!Stream
<1>2. ASSUME NEW c \in Conn
      PROVE  SubSeq(wire[c].toClient, NONCE + 1, Len(wire[c].toClient)) =
                 Channel!Stream(Shown(Len(wire[c].toClient)))
  <2> DEFINE t == wire[c].toClient
             n == Len(t)
             u == SubSeq(t, NONCE + 1, n)
  <2>1. t \in Seq(Nat) /\ n \in Nat
    BY LenProperties DEF RelayInv, ConnInv, ConnTypeOK, Wire
  <2>2. \A i \in 1..n : t[i] = DownByte(i)
    BY DEF RelayInv, ConnInv, Delivered
  <2> HIDE DEF t, n
  <2>3. \A i \in (NONCE + 1)..n : t[i] \in Nat
    BY <1>0, <2>1, ElementOfSeq DEF n
  <2>4. /\ u \in Seq(Nat)
        /\ Len(u) = IF NONCE + 1 <= n THEN n - (NONCE + 1) + 1 ELSE 0
        /\ \A i \in 1 .. n - (NONCE + 1) + 1 : u[i] = t[(NONCE + 1) + i - 1]
    <3>1. PICK m \in Int : m = NONCE + 1
      BY <1>0
    <3>2. n \in Int /\ \A i \in m..n : t[i] \in Nat
      BY <2>1, <2>3, <3>1
    <3>3. /\ SubSeq(t, m, n) \in Seq(Nat)
          /\ Len(SubSeq(t, m, n)) = IF m <= n THEN n - m + 1 ELSE 0
          /\ \A i \in 1 .. n - m + 1 : SubSeq(t, m, n)[i] = t[m + i - 1]
      BY <3>2, SubSeqProperties
    <3>4. QED
      BY <3>1, <3>3
  <2>5. Len(u) = Shown(n) /\ Len(u) \in Nat
    BY <1>0, <2>1, <2>4 DEF Shown
  <2>6. ASSUME NEW i \in 1..Shown(n)
        PROVE  u[i] = i
    <3>1. i \in 1 .. n - (NONCE + 1) + 1 /\ (NONCE + 1) + i - 1 = NONCE + i
          /\ NONCE + i \in 1..n /\ ~(NONCE + i <= NONCE) /\ (NONCE + i) - NONCE = i
      BY <1>0, <2>1, <2>5 DEF Shown
    <3>2. QED
      BY <2>2, <2>4, <3>1 DEF DownByte
  <2>7. DOMAIN u = 1..Len(u) /\ u = [i \in DOMAIN u |-> u[i]]
    BY <2>4, LenProperties, SeqDef
  <2> HIDE DEF u
  <2>8. u = Channel!Stream(Shown(n))
    BY <2>5, <2>6, <2>7 DEF Channel!Stream
  <2>9. QED
    BY <2>8 DEF u, n, t
<1>3. QED
  BY <1>1, <1>2 DEF ChannelUp, ChannelDown, StreamsShown

LEMMA ChannelStreamsAfter == (RelayInv => StreamsShown)'
  BY ChannelStreams, PTL

\* A connection that delivers nothing in this step is opened, closed or left as it is.
Silent(c) ==
    /\ wire'[c].toRemote = wire[c].toRemote /\ wire'[c].toClient = wire[c].toClient
    /\ \/ srv'[c].obj = srv[c].obj
       \/ srv'[c].obj = "freed"
       \/ srv[c].obj = "none" /\ srv'[c].obj = "live"

\* One that delivers is open, and does so in one direction.
Delivers(c) ==
    /\ srv[c].obj = "live" /\ srv'[c].obj = "live"
    /\ \/ /\ wire'[c].toClient = wire[c].toClient
          /\ Len(wire'[c].toRemote) >= Len(wire[c].toRemote)
       \/ /\ wire'[c].toRemote = wire[c].toRemote
          /\ Len(wire'[c].toClient) >= Len(wire[c].toClient)

LEMMA Longer ==
    ASSUME NEW t \in Seq(Nat), NEW u \in Seq(Nat)
    PROVE  Len(t \o u) >= Len(t)
<1>1. Len(t) \in Nat /\ Len(u) \in Nat /\ Len(t \o u) = Len(t) + Len(u)
  BY ConcatProperties, LenProperties
<1>2. QED
  BY <1>1

LEMMA FirstPart ==
    ASSUME NEW d \in Seq(Nat), NEW s \in Nat, s <= Len(d)
    PROVE  SubSeq(d, 1, s) \in Seq(Nat)
<1>1. \A i \in 1..s : d[i] \in Nat
  BY LenProperties, ElementOfSeq
<1>2. 1 \in Int /\ s \in Int
  OBVIOUS
<1>3. QED
  BY <1>1, <1>2, SubSeqProperties

LEMMA SilentClose ==
    ASSUME RelayInv, NEW c \in Conn, CloseServer(c) \/ CloseBoth(c),
           wire' = wire \/ \E n \in 1..BUF_SIZE : wire' = [wire EXCEPT ![c].cin = @ + n]
    PROVE  Silent(c)
<1>1. srv'[c].obj = "freed"
  BY CloseFrees
<1>2. wire[c] \in Wire /\ DOMAIN wire = Conn
  BY DEF RelayInv, ConnInv, ConnTypeOK
<1>3. wire'[c].toRemote = wire[c].toRemote /\ wire'[c].toClient = wire[c].toClient
  BY <1>2 DEF Wire
<1>4. QED
  BY <1>1, <1>3 DEF Silent

LEMMA RecvDelivery ==
    ASSUME RelayInv, NEW c \in Conn, server_recv_cb(c)
    PROVE  Silent(c) \/ Delivers(c)
<1>0. /\ wire[c] \in Wire /\ DOMAIN wire = Conn /\ srv[c] \in Server /\ DOMAIN srv = Conn
      /\ wire[c].toRemote \in Seq(Nat) /\ wire[c].cin \in Nat
  BY DEF RelayInv, ConnInv, ConnTypeOK, Wire
<1>1. CASE ServerRecvClose(c) \/ ServerRecvCryptoError(c) \/ ServerRecvMalformed(c)
           \/ ServerRecvConnectFail(c)
  BY <1>1, SilentClose DEF ServerRecvClose, ServerRecvCryptoError, ServerRecvMalformed,
                           ServerRecvConnectFail
<1>2. CASE ServerRecvNeedMore(c)
  <2>1. PICK n \in 1..BUF_SIZE :
            /\ wire' = [wire EXCEPT ![c].cin = @ + n]
            /\ CloseServer(c) \/ srv' = [srv EXCEPT ![c].nonce = @ + n, ![c].frag = @ + 1]
    BY <1>2 DEF ServerRecvNeedMore
  <2>2. CASE CloseServer(c)
    BY <2>1, <2>2, SilentClose
  <2>3. CASE srv' = [srv EXCEPT ![c].nonce = @ + n, ![c].frag = @ + 1]
    BY <1>0, <2>1, <2>3 DEF Silent, Wire, Server
  <2>4. QED
    BY <2>1, <2>2, <2>3
<1>3. CASE ServerRecvConnect(c) \/ ServerRecvQuery(c)
  <2>1. PICK n \in 1..BUF_SIZE :
            /\ wire' = [wire EXCEPT ![c].cin = @ + n]
            /\ \/ srv' = [srv EXCEPT ![c] = ConnectedServer(WithHeader(c, n))]
               \/ srv' = [srv EXCEPT ![c] = [WithHeader(c, n) EXCEPT
                             !.query = TRUE, !.stage = "RESOLVE"]]
    BY <1>3 DEF ServerRecvConnect, ServerRecvQuery
  <2>2. WithHeader(c, n).obj = srv[c].obj
    BY <1>0 DEF WithHeader, Server
  <2>3. srv'[c].obj = srv[c].obj
    BY <1>0, <2>1, <2>2 DEF ConnectedServer, WithHeader, Server
  <2>4. QED
    BY <1>0, <2>1, <2>3 DEF Silent, Wire
<1>4. CASE ServerRecvForward(c)
  <2>1. PICK n \in 1..BUF_SIZE, s \in 0..BUF_SIZE : s <= n /\ ForwardUp(c, n, s)
    BY <1>4, RelayAssumption DEF ServerRecvForward
  <2>2. srv[c].recv /\ srv[c].stage = "STREAM"
    BY <2>1 DEF ForwardUp, Received
  <2>3. srv[c].obj = "live" /\ srv[c].nonce = NONCE
    BY <2>2, ReadingPhase DEF Handshaking, Streaming
  <2>4. srv'[c].obj = "live"
    BY <1>0, <2>1, <2>3 DEF ForwardUp, Server
  <2>5. /\ wire'[c].toClient = wire[c].toClient
        /\ wire'[c].toRemote = wire[c].toRemote \o SubSeq(Plain(c, n), 1, s)
    BY <1>0, <2>1 DEF ForwardUp, Wire
  <2>6. n \in Nat /\ s \in Nat /\ NONCE \in Nat
    BY <2>1, RelayAssumption
  <2>7. NonceBytes(c, n) = 0 /\ PlainLen(c, n) = n
    BY <2>3, <2>6, <2>1 DEF NonceBytes, PlainLen
  <2>8. Plain(c, n) \in Seq(Nat) /\ Len(Plain(c, n)) = n
    <3>1. Plain(c, n) = Bytes(wire[c].cin + 0, n) /\ wire[c].cin + 0 \in Nat
      BY <1>0, <2>7 DEF Plain
    <3>2. PICK from \in Nat : from = wire[c].cin + 0
      BY <3>1
    <3>3. Bytes(from, n) \in Seq(Nat) /\ Len(Bytes(from, n)) = n
      BY <2>6, BytesIsSeq
    <3>4. Plain(c, n) = Bytes(from, n)
      BY <3>1, <3>2
    <3>5. QED
      BY <3>3, <3>4
  <2>9. SubSeq(Plain(c, n), 1, s) \in Seq(Nat)
    BY <2>1, <2>6, <2>8, FirstPart
  <2>10. Len(wire'[c].toRemote) >= Len(wire[c].toRemote)
    BY <1>0, <2>5, <2>6, <2>9, Longer
  <2>11. QED
    BY <2>3, <2>4, <2>5, <2>10 DEF Delivers
<1>5. QED
  BY <1>1, <1>2, <1>3, <1>4 DEF server_recv_cb

LEMMA SendDelivery ==
    ASSUME RelayInv, NEW c \in Conn, remote_send_cb(c)
    PROVE  Silent(c) \/ Delivers(c)
<1>0. /\ wire[c] \in Wire /\ DOMAIN wire = Conn /\ srv[c] \in Server /\ DOMAIN srv = Conn
      /\ wire[c].toRemote \in Seq(Nat)
  BY DEF RelayInv, ConnInv, ConnTypeOK, Wire
<1>1. CASE RemoteSendClose(c)
  BY <1>1, SilentClose DEF RemoteSendClose
<1>2. CASE RemoteConnectedIdle(c)
  BY <1>0, <1>2 DEF RemoteConnectedIdle, Silent, Server
<1>3. CASE RemoteSend(c)
  <2>1. PICK s \in 0..rmt[c].buf.len : SendUp(c, s)
    BY <1>3 DEF RemoteSend
  <2>2. rmt[c].send /\ rmt[c].buf.len > 0
    BY <1>3 DEF RemoteSend
  <2>3. srv[c].obj = "live" /\ UpWaiting(rmt[c].buf, wire[c]) /\ rmt[c].buf \in Buffer
    BY <2>2, RemotePhase DEF Connecting, Streaming, ConnInv, ConnTypeOK, Remote
  <2>4. srv'[c].obj = "live"
    BY <1>0, <2>1, <2>3 DEF SendUp, Server
  <2>5. /\ wire'[c].toClient = wire[c].toClient
        /\ wire'[c].toRemote = wire[c].toRemote \o AtIdx(rmt[c].buf, s)
    BY <1>0, <2>1 DEF SendUp, Wire
  <2> DEFINE b == rmt[c].buf
  <2>6. /\ b.data \in Seq(Nat) /\ b.idx \in Nat /\ b.len \in Nat /\ s \in Nat
        /\ Len(b.data) \in Nat
    BY <2>1, <2>3, LenProperties DEF Buffer
  <2>7. b.idx + s <= Len(b.data)
    BY <2>1, <2>3, <2>6 DEF UpWaiting
  <2>8. AtIdx(b, s) \in Seq(Nat) /\ Len(AtIdx(b, s)) = s
    BY <2>6, <2>7, Part DEF AtIdx
  <2>9. Len(wire'[c].toRemote) >= Len(wire[c].toRemote)
    BY <1>0, <2>5, <2>8, Longer
  <2>10. QED
    BY <2>3, <2>4, <2>5, <2>9 DEF Delivers
<1>4. QED
  BY <1>1, <1>2, <1>3 DEF remote_send_cb

LEMMA DownDelivery ==
    ASSUME RelayInv, NEW c \in Conn, remote_recv_cb(c) \/ server_send_cb(c)
    PROVE  Silent(c) \/ Delivers(c)
<1>0. /\ wire[c] \in Wire /\ DOMAIN wire = Conn /\ srv[c] \in Server /\ DOMAIN srv = Conn
      /\ wire[c].toClient \in Seq(Nat)
  BY DEF RelayInv, ConnInv, ConnTypeOK, Wire
<1>1. CASE RemoteRecvClose(c) \/ ServerSendClose(c)
  BY <1>1, SilentClose DEF RemoteRecvClose, ServerSendClose
<1>2. CASE RemoteRecv(c)
  <2>1. PICK n \in 1..BUF_SIZE :
            rmt[c].recv /\ \E s \in 0..Len(Cipher(c, n)) : ForwardDown(c, n, s)
    BY <1>2 DEF RemoteRecv
  <2>2. PICK s \in 0..Len(Cipher(c, n)) : ForwardDown(c, n, s)
    BY <2>1
  <2>3. srv[c].obj = "live" /\ Streaming(srv[c], rmt[c], qry[c], wire[c])
    BY <2>1, RemotePhase DEF Connecting
  <2>4. DownIdle(srv[c], wire[c]) /\ srv[c].einit \in BOOLEAN
    BY <1>0, <2>1, <2>3 DEF Streaming, Server
  <2>5. Cipher(c, n) \in Seq(Nat) /\ n \in Nat /\ s \in Nat /\ Len(Cipher(c, n)) \in Nat
    BY <1>0, <2>2, <2>4, CipherBytes, LenProperties
  <2>6. srv'[c].obj = "live"
    BY <1>0, <2>2, <2>3 DEF ForwardDown, Server
  <2>7. /\ wire'[c].toRemote = wire[c].toRemote
        /\ wire'[c].toClient = wire[c].toClient \o SubSeq(Cipher(c, n), 1, s)
    BY <1>0, <2>2 DEF ForwardDown, Wire
  <2>8. SubSeq(Cipher(c, n), 1, s) \in Seq(Nat)
    BY <2>2, <2>5, FirstPart
  <2>9. Len(wire'[c].toClient) >= Len(wire[c].toClient)
    BY <1>0, <2>5, <2>7, <2>8, Longer
  <2>10. QED
    BY <2>3, <2>6, <2>7, <2>9 DEF Delivers
<1>3. CASE ServerSend(c)
  <2>1. PICK s \in 0..srv[c].buf.len : SendDown(c, s)
    BY <1>3 DEF ServerSend
  <2>2. srv[c].send
    BY <1>3 DEF ServerSend
  <2>3. srv[c].obj = "live" /\ DownWaiting(srv[c].buf, wire[c]) /\ srv[c].buf \in Buffer
    BY <1>0, <2>2, ServerSendPhase DEF Streaming, Server
  <2>4. srv'[c].obj = "live"
    BY <1>0, <2>1, <2>3 DEF SendDown, Server
  <2>5. /\ wire'[c].toRemote = wire[c].toRemote
        /\ wire'[c].toClient = wire[c].toClient \o AtIdx(srv[c].buf, s)
    BY <1>0, <2>1 DEF SendDown, Wire
  <2> DEFINE b == srv[c].buf
  <2>6. /\ b.data \in Seq(Nat) /\ b.idx \in Nat /\ b.len \in Nat /\ s \in Nat
        /\ Len(b.data) \in Nat
    BY <2>1, <2>3, LenProperties DEF Buffer
  <2>7. b.idx + s <= Len(b.data)
    BY <2>1, <2>3, <2>6 DEF DownWaiting
  <2>8. AtIdx(b, s) \in Seq(Nat) /\ Len(AtIdx(b, s)) = s
    BY <2>6, <2>7, Part DEF AtIdx
  <2>9. Len(wire'[c].toClient) >= Len(wire[c].toClient)
    BY <1>0, <2>5, <2>8, Longer
  <2>10. QED
    BY <2>3, <2>4, <2>5, <2>9 DEF Delivers
<1>4. QED
  BY <1>1, <1>2, <1>3 DEF remote_recv_cb, server_send_cb

LEMMA StepDelivery ==
    ASSUME RelayInv, NEW c \in Conn, StepOf(c)
    PROVE  Silent(c) \/ Delivers(c)
<1>0. /\ wire[c] \in Wire /\ DOMAIN wire = Conn /\ srv[c] \in Server /\ DOMAIN srv = Conn
  BY DEF RelayInv, ConnInv, ConnTypeOK
<1>1. CASE AcceptUnnamed(c) \/ accept_cb(c)
  <2>1. wire' = wire /\ srv[c].obj = "none" /\ (Admitted(c) \/ Refused(c))
    BY <1>1 DEF AcceptUnnamed, accept_cb
  <2>2. CASE Admitted(c)
    BY <1>0, <2>1, <2>2 DEF Admitted, NewServer, NoServer, Silent
  <2>3. CASE Refused(c)
    BY <1>0, <2>1, <2>3 DEF Refused, Server, Silent
  <2>4. QED
    BY <2>1, <2>2, <2>3
<1>2. CASE server_timeout_cb(c)
  BY <1>2, SilentClose DEF server_timeout_cb
<1>3. CASE resolv_cb(c)
  <2>1. PICK f \in Family :
          ResolvOne(c, f) \/ ResolvAbandoned(c, f) \/ ResolvFail(c, f) \/ ResolvConnect(c, f)
    BY <1>3 DEF resolv_cb
  <2>2. wire' = wire
    BY <2>1 DEF ResolvOne, ResolvAbandoned, ResolvFail, ResolvConnect
  <2>3. CASE ResolvOne(c, f) \/ ResolvAbandoned(c, f)
    BY <2>2, <2>3 DEF ResolvOne, ResolvAbandoned, Silent
  <2>4. CASE ResolvFail(c, f)
    BY <1>0, <2>2, <2>4 DEF ResolvFail, FreedServer, Server, Silent
  <2>5. CASE ResolvConnect(c, f)
    BY <1>0, <2>2, <2>5 DEF ResolvConnect, ConnectedServer, Server, Silent
  <2>6. QED
    BY <2>1, <2>3, <2>4, <2>5
<1>4. QED
  BY <1>1, <1>2, <1>3, RecvDelivery, SendDelivery, DownDelivery DEF StepOf

\* The length of a stream.
LEMMA StreamLength ==
    ASSUME NEW n \in Nat
    PROVE  Len(Channel!Stream(n)) = n
<1>1. Channel!Stream(n) \in Seq(Nat) /\ DOMAIN Channel!Stream(n) = 1..n
  BY SeqDef DEF Channel!Stream
<1>2. QED
  BY <1>1, LenProperties

\* The state a channel shows for a server_t.
StateOf(o) ==
    CASE o = "none"  -> "idle"
      [] o = "live"  -> "open"
      [] o = "freed" -> "closed"

LEMMA StateShown ==
    /\ StateOf("none") = "idle" /\ StateOf("live") = "open" /\ StateOf("freed") = "closed"
    /\ ChannelState = [c \in Conn |-> StateOf(srv[c].obj)]
    /\ ChannelState' = [c \in Conn |-> StateOf(srv'[c].obj)]
<1>1. StateOf("none") = "idle"
  BY DEF StateOf
<1>2. StateOf("live") = "open"
  BY DEF StateOf
<1>3. StateOf("freed") = "closed"
  BY DEF StateOf
<1>4. ChannelState = [c \in Conn |-> StateOf(srv[c].obj)]
  BY Zenon DEF StateOf, ChannelState
<1>5. ChannelState' = [c \in Conn |-> StateOf(srv'[c].obj)]
  BY Zenon DEF StateOf, ChannelState
<1>6. QED
  BY <1>1, <1>2, <1>3, <1>4, <1>5

\* A step in which no stream grows and one connection changes its state.
LEMMA SilentStep ==
    ASSUME RelayInv, NEW c \in Conn, Silent(c), StreamsShown, StreamsShown',
           \A d \in Conn : d # c => wire'[d] = wire[d] /\ srv'[d] = srv[d]
    PROVE  [Channel!ChannelNext]_(Channel!channelVars)
<1>1. \A d \in Conn : /\ wire'[d].toRemote = wire[d].toRemote
                       /\ wire'[d].toClient = wire[d].toClient
  BY DEF Silent
<1>2. ChannelUp' = ChannelUp /\ ChannelDown' = ChannelDown
  BY <1>1 DEF StreamsShown
<1>3. \A d \in Conn : d # c => srv'[d].obj = srv[d].obj
  OBVIOUS
<1>4. CASE srv'[c].obj = srv[c].obj
  <2>1. ChannelState' = ChannelState
    BY <1>3, <1>4, StateShown
  <2>2. QED
    BY <1>2, <2>1 DEF Channel!channelVars
<1>5. CASE srv'[c].obj = "freed"
  <2>1. ChannelState' = [d \in Conn |-> IF d \in {c} THEN "closed" ELSE ChannelState[d]]
    BY <1>3, <1>5, StateShown
  <2>2. Channel!Close({c})
    BY <1>2, <2>1 DEF Channel!Close
  <2>3. QED
    BY <2>2 DEF Channel!ChannelNext
<1>6. CASE srv[c].obj = "none" /\ srv'[c].obj = "live"
  <2>1. ChannelState[c] = "idle" /\ ChannelState' = [ChannelState EXCEPT ![c] = "open"]
    BY <1>3, <1>6, StateShown
  <2>2. Channel!Open(c)
    BY <1>2, <2>1 DEF Channel!Open
  <2>3. QED
    BY <2>2 DEF Channel!ChannelNext
<1>7. QED
  BY <1>4, <1>5, <1>6 DEF Silent

LEMMA LongerIsShown ==
    ASSUME NEW m \in Nat, NEW n \in Nat, n >= m
    PROVE  /\ Shown(m) \in Nat /\ Shown(n) \in Nat
           /\ Shown(n) >= Shown(m)
  BY RelayAssumption DEF Shown

\* A step in which one direction of an open connection grows, or does not.
LEMMA DeliverStep ==
    ASSUME RelayInv, RelayInv', NEW c \in Conn, Delivers(c), StreamsShown, StreamsShown',
           \A d \in Conn : d # c => wire'[d] = wire[d] /\ srv'[d] = srv[d]
    PROVE  [Channel!ChannelNext]_(Channel!channelVars)
<1>1. ChannelState[c] = "open" /\ ChannelState' = ChannelState
  BY StateShown DEF Delivers
<1>2. /\ Len(wire[c].toRemote) \in Nat /\ Len(wire'[c].toRemote) \in Nat
      /\ Len(wire[c].toClient) \in Nat /\ Len(wire'[c].toClient) \in Nat
  BY LenProperties DEF RelayInv, ConnInv, ConnTypeOK, Wire
<1>3. CASE /\ wire'[c].toClient = wire[c].toClient
           /\ Len(wire'[c].toRemote) >= Len(wire[c].toRemote)
  <2>1. PICK m \in Nat : m = Len(wire[c].toRemote)
    BY <1>2
  <2>2. PICK n \in Nat : n = Len(wire'[c].toRemote)
    BY <1>2
  <2>3. ChannelDown' = ChannelDown
    BY <1>3 DEF StreamsShown
  <2>4. ChannelUp[c] = Channel!Stream(m) /\ ChannelUp'[c] = Channel!Stream(n)
    BY <2>1, <2>2 DEF StreamsShown
  <2>5. ChannelUp' = [ChannelUp EXCEPT ![c] = Channel!Stream(n)]
    BY <2>2 DEF StreamsShown
  <2>6. Len(ChannelUp[c]) = m /\ Len(ChannelUp'[c]) = n
    BY <2>4, StreamLength
  <2>7. CASE m = n
    <3>1. ChannelUp' = ChannelUp
      BY <2>4, <2>5, <2>7 DEF StreamsShown
    <3>2. QED
      BY <1>1, <2>3, <3>1 DEF Channel!channelVars
  <2>8. CASE n > m
    <3>1. Channel!Grows(ChannelUp, ChannelUp', c)
      BY <2>5, <2>6, <2>8 DEF Channel!Grows
    <3>2. Channel!Deliver(c)
      BY <1>1, <2>3, <3>1 DEF Channel!Deliver
    <3>3. QED
      BY <3>2 DEF Channel!ChannelNext
  <2>9. QED
    BY <1>3, <2>1, <2>2, <2>7, <2>8
<1>4. CASE /\ wire'[c].toRemote = wire[c].toRemote
           /\ Len(wire'[c].toClient) >= Len(wire[c].toClient)
  <2>1. PICK m \in Nat : m = Shown(Len(wire[c].toClient))
    BY <1>2, <1>4, LongerIsShown
  <2>2. PICK n \in Nat : n = Shown(Len(wire'[c].toClient)) /\ n >= m
    BY <1>2, <1>4, <2>1, LongerIsShown
  <2>3. ChannelUp' = ChannelUp
    BY <1>4 DEF StreamsShown
  <2>4. ChannelDown[c] = Channel!Stream(m) /\ ChannelDown'[c] = Channel!Stream(n)
    BY <2>1, <2>2 DEF StreamsShown
  <2>5. ChannelDown' = [ChannelDown EXCEPT ![c] = Channel!Stream(n)]
    BY <2>2 DEF StreamsShown
  <2>6. Len(ChannelDown[c]) = m /\ Len(ChannelDown'[c]) = n
    BY <2>4, StreamLength
  <2>7. CASE m = n
    <3>1. ChannelDown' = ChannelDown
      BY <2>4, <2>5, <2>7 DEF StreamsShown
    <3>2. QED
      BY <1>1, <2>3, <3>1 DEF Channel!channelVars
  <2>8. CASE n > m
    <3>1. Channel!Grows(ChannelDown, ChannelDown', c)
      BY <2>5, <2>6, <2>8 DEF Channel!Grows
    <3>2. Channel!Deliver(c)
      BY <1>1, <2>3, <3>1 DEF Channel!Deliver
    <3>3. QED
      BY <3>2 DEF Channel!ChannelNext
  <2>9. QED
    BY <2>2, <2>7, <2>8
<1>5. QED
  BY <1>3, <1>4 DEF Delivers

\* Every step of the relay is a step of the channel, or one it does not show.
LEMMA ChannelStep ==
    ASSUME RelayInv, RelayInv', [Next]_vars
    PROVE  [Channel!ChannelNext]_(Channel!channelVars)
<1>1. StreamsShown /\ StreamsShown'
  BY ChannelStreams, ChannelStreamsAfter
<1>2. CASE \E c \in Conn : StepOf(c)
  <2>1. PICK c \in Conn : StepOf(c)
    BY <1>2
  <2>2. \A d \in Conn : d # c => wire'[d] = wire[d] /\ srv'[d] = srv[d]
    BY <2>1, OthersUnchanged DEF StepOf
  <2>3. QED
    BY <1>1, <2>1, <2>2, StepDelivery, SilentStep, DeliverStep
<1>3. CASE block_list_clear_cb \/ pipe_cb \/ Returned \/ UNCHANGED vars
  <2>1. srv' = srv /\ wire' = wire
    BY <1>3 DEF block_list_clear_cb, pipe_cb, Returned, vars
  <2>2. ChannelUp' = ChannelUp /\ ChannelDown' = ChannelDown /\ ChannelState' = ChannelState
    BY <2>1 DEF ChannelUp, ChannelDown, ChannelState
  <2>3. QED
    BY <2>2 DEF Channel!channelVars
<1>4. CASE free_connections
  <2> DEFINE S == {c \in Conn : srv[c].obj = "live"}
  <2>1. ChannelUp' = ChannelUp /\ ChannelDown' = ChannelDown
    BY <1>4 DEF free_connections, ChannelUp, ChannelDown
  <2>2. \A c \in Conn : srv[c] \in Server
    BY DEF RelayInv, ConnInv, ConnTypeOK
  <2>3. \A c \in Conn : srv'[c].obj = IF c \in S THEN "freed" ELSE srv[c].obj
    BY <1>4, <2>2 DEF free_connections, FreedServer, Server
  <2>4. ChannelState' = [c \in Conn |-> IF c \in S THEN "closed" ELSE ChannelState[c]]
    BY <2>3, StateShown
  <2> HIDE DEF S
  <2>5. Channel!Close(S)
    BY <2>1, <2>4 DEF Channel!Close
  <2>6. S \in SUBSET Conn
    BY DEF S
  <2>7. QED
    BY <2>5, <2>6 DEF Channel!ChannelNext
<1>5. QED
  BY <1>2, <1>3, <1>4 DEF Next, StepOf

LEMMA ChannelInitially == Init => Channel!ChannelInit
<1> SUFFICES ASSUME Init PROVE Channel!ChannelInit
  OBVIOUS
<1>1. \A c \in Conn : srv[c].obj = "none" /\ wire[c].toRemote = <<>> /\ wire[c].toClient = <<>>
  BY DEF Init, NoServer, NoWire
<1>2. ChannelState = [c \in Conn |-> "idle"]
  BY <1>1 DEF ChannelState
<1>3. RelayInv
  BY RelayInvInit
<1>4. Channel!Stream(0) = <<>>
  BY DEF Channel!Stream
<1>5. Shown(0) = 0 /\ Len(<<>>) = 0
  BY RelayAssumption DEF Shown
<1>6. ChannelUp = [c \in Conn |-> <<>>] /\ ChannelDown = [c \in Conn |-> <<>>]
  BY <1>1, <1>3, <1>4, <1>5, ChannelStreams DEF StreamsShown
<1>7. QED
  BY <1>2, <1>6 DEF Channel!ChannelInit

\* The relay implements the channel: whatever the sockets, the resolver, the
\* timers, the block list and a stop of the service do, each connection is
\* opened at most once, both its streams only grow by their next bytes, and
\* nothing arrives after its close.
THEOREM RelayImplementsChannel == Spec => ImplementsChannel
<1>1. RelayInv /\ RelayInv' /\ [Next]_vars => [Channel!ChannelNext]_(Channel!channelVars)
  BY ChannelStep
<1>2. QED
  BY <1>1, ChannelInitially, RelayInvariant, PTL
     DEF Spec, ImplementsChannel, Channel!ChannelSpec
==============================================================================
