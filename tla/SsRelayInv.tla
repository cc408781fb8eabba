----------------------------- MODULE SsRelayInv -----------------------------
(***************************************************************************)
(* The inductive invariant of the TCP relay.  It says in which of four     *)
(* phases a connection is, by which objects exist, which watchers are      *)
(* active and where the bytes are that were read and not yet delivered.    *)
(* It is stated on the records of one connection, so that a step of one    *)
(* connection leaves it true of the others.                                *)
(***************************************************************************)
EXTENDS SsRelayChannel

\* The i-th byte a remote host receives.
UpByte(i) == Preamble + i

\* The i-th byte a client receives.
DownByte(i) == IF i <= NONCE THEN 0 ELSE i - NONCE

\* What the peers have received so far.
Delivered(w) ==
    /\ \A i \in 1..Len(w.toRemote) : w.toRemote[i] = UpByte(i)
    /\ \A i \in 1..Len(w.toClient) : w.toClient[i] = DownByte(i)

\* buf holds, from idx on, the uplink bytes that follow those delivered, and
\* they are the last ones read.
UpWaiting(buf, w) ==
    /\ buf.idx + buf.len <= Len(buf.data)
    /\ \A i \in 1..buf.len : buf.data[buf.idx + i] = UpByte(Len(w.toRemote) + i)
    /\ w.cin = Preamble + Len(w.toRemote) + buf.len

UpIdle(w) == w.cin = Preamble + Len(w.toRemote)

DownWaiting(buf, w) ==
    /\ buf.idx + buf.len <= Len(buf.data)
    /\ \A i \in 1..buf.len : buf.data[buf.idx + i] = DownByte(Len(w.toClient) + i)
    /\ NONCE + w.rin = Len(w.toClient) + buf.len

DownIdle(s, w) ==
    IF s.einit THEN Len(w.toClient) = w.rin + NONCE ELSE w.rin = 0 /\ w.toClient = <<>>

\* Nothing has gone down yet.
DownUnused(s, w) ==
    ~s.send /\ ~s.einit /\ w.rin = 0 /\ w.toClient = <<>>

\* The nonce or the header is awaited.
Handshaking(s, r, q, w) ==
    /\ s.stage = "INIT" /\ ~s.remote /\ ~s.query /\ s.recv
    /\ r = NoRemote /\ q = NoQuery
    /\ s.buf = EmptyBuffer /\ w.cin = s.nonce
    /\ w.toRemote = <<>> /\ DownUnused(s, w)

\* The resolver is asked for the address.
Resolving(s, r, q, w) ==
    /\ s.stage = "RESOLVE" /\ ~s.remote /\ s.query /\ ~s.recv
    /\ r = NoRemote /\ q.obj = "live" /\ q.server /\ q.requests # {}
    /\ s.nonce = NONCE /\ s.buf.idx = 0
    /\ w.toRemote = <<>> /\ UpWaiting(s.buf, w) /\ DownUnused(s, w)

\* The connection to the remote host, or the first payload sent there, is
\* under way.
Connecting(s, r, q, w) ==
    /\ s.stage # "STREAM" /\ s.remote /\ ~s.query /\ ~s.recv
    /\ r.obj = "live" /\ r.server /\ r.send /\ ~r.recv
    /\ q.obj # "live" /\ s.nonce = NONCE
    /\ r.connected => r.buf.len > 0
    /\ UpWaiting(r.buf, w) /\ DownUnused(s, w) /\ s.buf = EmptyBuffer

\* Bytes flow both ways.
Streaming(s, r, q, w) ==
    /\ s.stage = "STREAM" /\ s.remote /\ ~s.query
    /\ r.obj = "live" /\ r.server /\ r.connected
    /\ q.obj # "live" /\ s.nonce = NONCE
    /\ (s.recv <=> ~r.send) /\ (r.recv <=> ~s.send)
    /\ IF r.send THEN r.buf.len > 0 /\ UpWaiting(r.buf, w) ELSE UpIdle(w)
    /\ IF s.send THEN s.einit /\ s.buf.len > 0 /\ DownWaiting(s.buf, w) ELSE DownIdle(s, w)

Live(s, r, q, w) ==
    /\ s.obj = "live" /\ s.timer
    /\ \/ Handshaking(s, r, q, w)
       \/ Resolving(s, r, q, w)
       \/ Connecting(s, r, q, w)
       \/ Streaming(s, r, q, w)

\* Nothing can run on a closed connection any more.
Closed(s, r, q) ==
    /\ s.obj = "freed" /\ ~s.recv /\ ~s.send /\ ~s.timer
    /\ r.obj # "live" /\ ~r.recv /\ ~r.send
    /\ q.obj = "live" => ~q.server /\ q.requests # {}

Idle(s, r, q, w) == s = NoServer /\ r = NoRemote /\ q = NoQuery /\ w = NoWire

ConnTypeOK(s, r, q, w) == s \in Server /\ r \in Remote /\ q \in Query /\ w \in Wire

ConnInv(s, r, q, w) ==
    /\ ConnTypeOK(s, r, q, w)
    /\ Delivered(w)
    /\ Idle(s, r, q, w) \/ Live(s, r, q, w) \/ Closed(s, r, q)

\* The invariant: every connection is in one of its phases, and none is left
\* when ss_server_main has returned.
RelayInv ==
    /\ DOMAIN srv = Conn /\ DOMAIN rmt = Conn /\ DOMAIN qry = Conn /\ DOMAIN wire = Conn
    /\ loop \in {"run", "cancel", "done"}
    /\ \A c \in Conn : ConnInv(srv[c], rmt[c], qry[c], wire[c])
    /\ loop = "done" => \A c \in Conn : srv[c].obj # "live" /\ qry[c].obj # "live"
==============================================================================
