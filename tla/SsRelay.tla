------------------------------- MODULE SsRelay -------------------------------
(***************************************************************************)
(* The TCP relay of ss-server (server.c, with the stream cipher framing of *)
(* stream.c and the resolver queries of resolv.c): one libev loop that     *)
(* accepts encrypted connections, learns from the first decrypted bytes    *)
(* where each one wants to go, connects there and copies bytes both ways.  *)
(*                                                                         *)
(* Every callback runs to completion on the loop, so a callback is one     *)
(* action.  What is nondeterministic is which watcher fires next and what  *)
(* the sockets answer.                                                     *)
(*                                                                         *)
(* A byte is its position in the stream of the peer that sent it.  A       *)
(* connection's uplink stream is the nonce, the address header, then the   *)
(* payload; its downlink stream is the payload alone, and encryption puts  *)
(* the nonce in front of it.                                               *)
(***************************************************************************)
EXTENDS BlockList, FiniteSets

CONSTANTS
    Conn,        \* the connections that may be accepted; one server_t each
    PeerOf,      \* the peer address of each connection
    Loopback,    \* 127.0.0.1, which report_addr never reports
    AclDenied,   \* addresses the access list refuses ({} without --acl)
    AclWhite,    \* addresses the access list exempts from the block list
    BUF_SIZE,    \* server.c:70
    MAX_FRAG,    \* server.c:78
    NONCE,       \* bytes of a nonce
    HEADER,      \* bytes of the address header
    UpLen,       \* bound: payload bytes a client sends
    DownLen      \* bound: payload bytes a remote host sends

ASSUME RelayAssumption ==
    /\ PeerOf \in [Conn -> Addr]
    /\ BUF_SIZE \in Nat \ {0}
    /\ MAX_FRAG \in Nat
    /\ NONCE \in Nat \ {0}
    /\ HEADER \in Nat \ {0}
    /\ UpLen \in Nat
    /\ DownLen \in Nat

VARIABLES
    loop,        \* the event loop, then the clean-up of ss_server_main
    srv,         \* server_t of each connection, with its watchers and ciphers
    rmt,         \* remote_t of each connection
    qry,         \* query_t of each connection, with resolv.c's record of it
    wire,        \* bytes received from and sent to the two peers
    block_list   \* acl.c

vars == <<loop, srv, rmt, qry, wire, block_list>>

-----------------------------------------------------------------------------
(* The data structures *)

Object == {"none", "live", "freed"}

Stage == {"INIT", "RESOLVE", "STREAM"}

Family == {"A", "AAAA"}

Buffer == [data : Seq(Nat), len : Nat, idx : Nat]

EmptyBuffer == [data |-> <<>>, len |-> 0, idx |-> 0]

\* The n bytes that follow the first `from' bytes of a stream.
Bytes(from, n) == [i \in 1..n |-> from + i]

\* Mutant: send from the start of the buffer, forgetting idx.
AtIdxFromStart(buf, n) == SubSeq(buf.data, 1, n)

\* The first n bytes at data + idx, where the send callbacks send from.
AtIdx(buf, n) == SubSeq(buf.data, buf.idx + 1, buf.idx + n)

\* A buffer after s of its bytes, or all of them, have been sent.
Consumed(buf, s) == [buf EXCEPT !.len = @ - s, !.idx = @ + s]

Emptied(buf) == [buf EXCEPT !.len = 0, !.idx = 0]

\* server_t.  `remote' and `query' tell whether the pointer is non-NULL;
\* `recv', `send' and `timer' whether the watcher is active; `nonce' counts
\* the nonce bytes in d_ctx->chunk and `einit' is e_ctx->init.
Server == [obj : Object, stage : Stage, frag : Nat, buf : Buffer,
           remote : BOOLEAN, query : BOOLEAN,
           recv : BOOLEAN, send : BOOLEAN, timer : BOOLEAN,
           nonce : 0..NONCE, einit : BOOLEAN]

NoServer == [obj |-> "none", stage |-> "INIT", frag |-> 0, buf |-> EmptyBuffer,
             remote |-> FALSE, query |-> FALSE,
             recv |-> FALSE, send |-> FALSE, timer |-> FALSE,
             nonce |-> 0, einit |-> FALSE]

\* remote_t.  `connected' is send_ctx->connected.
Remote == [obj : Object, buf : Buffer, server : BOOLEAN,
           recv : BOOLEAN, send : BOOLEAN, connected : BOOLEAN]

NoRemote == [obj |-> "none", buf |-> EmptyBuffer, server |-> FALSE,
             recv |-> FALSE, send |-> FALSE, connected |-> FALSE]

\* query_t with the resolv_query whose data it is: the requests c-ares has not
\* answered and the families that some response in `responses' is of.
Query == [obj : Object, server : BOOLEAN,
          requests : SUBSET Family, responses : SUBSET Family]

NoQuery == [obj |-> "none", server |-> FALSE, requests |-> {}, responses |-> {}]

Wire == [cin : Nat, rin : Nat, toRemote : Seq(Nat), toClient : Seq(Nat)]

NoWire == [cin |-> 0, rin |-> 0, toRemote |-> <<>>, toClient |-> <<>>]

\* Uplink bytes before the payload, and all of them.
Preamble == NONCE + HEADER

UpTotal == Preamble + UpLen

-----------------------------------------------------------------------------
(* new_server, new_remote, and the functions that free *)

NewServer == [NoServer EXCEPT !.obj = "live"]

NewRemote == [NoRemote EXCEPT !.obj = "live"]

\* Mutant: the read watcher is left active.
FreedServerStillReading(s) ==
    [s EXCEPT !.obj = "freed", !.query = FALSE, !.send = FALSE, !.timer = FALSE,
              !.buf = EmptyBuffer]

\* close_and_free_server, as far as the server_t itself is concerned.
FreedServer(s) ==
    [s EXCEPT !.obj = "freed", !.query = FALSE, !.send = FALSE, !.recv = FALSE,
              !.timer = FALSE, !.buf = EmptyBuffer]

\* Mutant: the read watcher is left active.
FreedRemoteStillReading(r) ==
    [r EXCEPT !.obj = "freed", !.send = FALSE, !.buf = EmptyBuffer]

\* close_and_free_remote, as far as the remote_t itself is concerned.
FreedRemote(r) ==
    [r EXCEPT !.obj = "freed", !.send = FALSE, !.recv = FALSE, !.buf = EmptyBuffer]

\* Mutant: the query keeps its pointer to the server.
OrphanQueryNot(c) == qry' = qry

\* The query of a server being closed forgets the server.
OrphanQuery(c) ==
    qry' = IF srv[c].query THEN [qry EXCEPT ![c].server = FALSE] ELSE qry

\* close_and_free_server(server)
CloseServer(c) ==
    /\ srv' = [srv EXCEPT ![c] = FreedServer(@)]
    /\ rmt' = IF srv[c].remote THEN [rmt EXCEPT ![c].server = FALSE] ELSE rmt
    /\ OrphanQuery(c)

\* close_and_free_remote(remote); close_and_free_server(server)
CloseBoth(c) ==
    /\ rmt' = [rmt EXCEPT ![c] = FreedRemote(@)]
    /\ srv' = [srv EXCEPT ![c] =
                 [FreedServer(@) EXCEPT !.remote = srv[c].remote /\ ~rmt[c].server]]
    /\ OrphanQuery(c)

\* report_addr: nothing is reported when getpeername fails.
report_addr(c, level) ==
    \/ block_list' = block_list
    \/ /\ PeerOf[c] # Loopback
       /\ block_list' = update_block_list(block_list, PeerOf[c], level)

\* reset_addr
reset_addr(c) ==
    \/ block_list' = block_list
    \/ block_list' = remove_from_block_list(block_list, PeerOf[c])

-----------------------------------------------------------------------------
(* accept_cb *)

Admitted(c) == srv' = [srv EXCEPT ![c] = [NewServer EXCEPT !.recv = TRUE, !.timer = TRUE]]

\* The socket is closed before any server_t exists for it.
Refused(c) == srv' = [srv EXCEPT ![c].obj = "freed"]

\* getpeername failed: no list is consulted.
AcceptUnnamed(c) ==
    /\ loop = "run" /\ srv[c].obj = "none"
    /\ Admitted(c)
    /\ UNCHANGED <<loop, rmt, qry, wire, block_list>>

accept_cb(c) ==
    /\ loop = "run" /\ srv[c].obj = "none"
    /\ \/ /\ PeerOf[c] \in AclDenied
          /\ Refused(c)
          /\ UNCHANGED block_list
       \/ /\ PeerOf[c] \in AclWhite \ AclDenied
          /\ Admitted(c)
          /\ UNCHANGED block_list
       \/ /\ PeerOf[c] \notin AclWhite \cup AclDenied
          /\ IF Blocked(block_list, PeerOf[c]) THEN Refused(c) ELSE Admitted(c)
          /\ block_list' = check_block_list(block_list, PeerOf[c])
    /\ UNCHANGED <<loop, rmt, qry, wire>>

-----------------------------------------------------------------------------
(* server_recv_cb: uplink *)

\* recv returned n bytes of the client's stream.
Received(c, n) ==
    /\ loop = "run" /\ srv[c].recv
    /\ wire[c].cin + n <= UpTotal

\* stream_decrypt first completes the nonce: how many of n bytes that takes,
\* and how many are left to decrypt.
NonceBytes(c, n) == IF n <= NONCE - srv[c].nonce THEN n ELSE NONCE - srv[c].nonce

PlainLen(c, n) == n - NonceBytes(c, n)

Plain(c, n) == Bytes(wire[c].cin + NonceBytes(c, n), PlainLen(c, n))

\* recv returned 0 or an error, or a streaming server could not send.  Only a
\* streaming server looks at its remote.
ServerRecvClose(c) ==
    /\ loop = "run" /\ srv[c].recv
    /\ IF srv[c].stage = "STREAM" THEN CloseBoth(c) ELSE CloseServer(c)
    /\ UNCHANGED <<loop, wire, block_list>>

\* CRYPTO_ERROR: a repeated nonce, or the cipher failed.
ServerRecvCryptoError(c) ==
    \E n \in 1..BUF_SIZE :
        /\ Received(c, n)
        /\ srv[c].nonce + NonceBytes(c, n) = NONCE
        /\ IF srv[c].stage = "STREAM" THEN CloseBoth(c) ELSE CloseServer(c)
        /\ wire' = [wire EXCEPT ![c].cin = @ + n]
        /\ report_addr(c, MALICIOUS)
        /\ UNCHANGED loop

\* CRYPTO_NEED_MORE: the bytes end within the nonce or just after it, which
\* can only happen before the header has been seen.
ServerRecvNeedMore(c) ==
    \E n \in 1..BUF_SIZE :
        /\ Received(c, n)
        /\ PlainLen(c, n) = 0
        /\ wire' = [wire EXCEPT ![c].cin = @ + n]
        /\ IF srv[c].stage # "STREAM" /\ srv[c].frag > MAX_FRAG
           THEN CloseServer(c) /\ report_addr(c, MALICIOUS)
           ELSE /\ srv' = [srv EXCEPT ![c].nonce = @ + n, ![c].frag = @ + 1]
                /\ UNCHANGED <<rmt, qry, block_list>>
        /\ UNCHANGED loop

\* STREAM: send accepted s of the n bytes (0 stands for EAGAIN).  What it did
\* not accept waits in remote->buf for remote_send_cb.
ForwardUp(c, n, s) ==
    /\ Received(c, n)
    /\ srv[c].stage = "STREAM"
    /\ rmt' = [rmt EXCEPT ![c].buf =
                 IF s < n THEN [data |-> Plain(c, n), len |-> n - s, idx |-> s]
                          ELSE [data |-> Plain(c, n), len |-> n, idx |-> @.idx],
               ![c].send = @ \/ s < n]
    /\ srv' = [srv EXCEPT ![c].recv = (s = n), ![c].timer = TRUE]
    /\ wire' = [wire EXCEPT ![c].cin = @ + n,
                            ![c].toRemote = @ \o SubSeq(Plain(c, n), 1, s)]
    /\ UNCHANGED <<loop, qry, block_list>>

ServerRecvForward(c) == \E n \in 1..BUF_SIZE : \E s \in 0..n : ForwardUp(c, n, s)

\* INIT: the first decrypted bytes must hold the whole header.
ServerRecvMalformed(c) ==
    \E n \in 1..BUF_SIZE :
        /\ Received(c, n)
        /\ srv[c].stage = "INIT" /\ PlainLen(c, n) > 0
        /\ CloseServer(c)
        /\ wire' = [wire EXCEPT ![c].cin = @ + n]
        /\ report_addr(c, MALFORMED)
        /\ UNCHANGED loop

\* The server after a complete header: the payload behind it is in its buffer
\* and reading stops until there is a connection to forward to.
WithHeader(c, n) ==
    [srv[c] EXCEPT !.nonce = NONCE, !.recv = FALSE,
                   !.buf = [data |-> SubSeq(Plain(c, n), HEADER + 1, PlainLen(c, n)),
                            len  |-> PlainLen(c, n) - HEADER,
                            idx  |-> @.idx]]

\* connect_to_remote succeeded for server s: its buffer moves to the remote,
\* and the remote's write watcher waits for the connection.
ConnectedServer(s) == [s EXCEPT !.remote = TRUE, !.buf = EmptyBuffer]

\* Mutant: nothing waits for the connection.
ConnectedRemoteUnwatched(s) ==
    [NewRemote EXCEPT !.server = TRUE,
                      !.buf = [data |-> AtIdx(s.buf, s.buf.len), len |-> s.buf.len, idx |-> 0]]

ConnectedRemote(s) ==
    [NewRemote EXCEPT !.server = TRUE, !.send = TRUE,
                      !.buf = [data |-> AtIdx(s.buf, s.buf.len), len |-> s.buf.len, idx |-> 0]]

\* The header holds an address: connect at once.
ServerRecvConnect(c) ==
    \E n \in 1..BUF_SIZE :
        /\ Received(c, n)
        /\ srv[c].stage = "INIT" /\ PlainLen(c, n) >= HEADER
        /\ srv' = [srv EXCEPT ![c] = ConnectedServer(WithHeader(c, n))]
        /\ rmt' = [rmt EXCEPT ![c] = ConnectedRemote(WithHeader(c, n))]
        /\ wire' = [wire EXCEPT ![c].cin = @ + n]
        /\ UNCHANGED <<loop, qry, block_list>>

\* The same, but connect_to_remote returned NULL (or the host is blocked).
ServerRecvConnectFail(c) ==
    \E n \in 1..BUF_SIZE :
        /\ Received(c, n)
        /\ srv[c].stage = "INIT" /\ PlainLen(c, n) >= HEADER
        /\ CloseServer(c)
        /\ wire' = [wire EXCEPT ![c].cin = @ + n]
        /\ UNCHANGED <<loop, block_list>>

\* The header holds a name: stop reading and ask the resolver.
ServerRecvQuery(c) ==
    \E n \in 1..BUF_SIZE :
        /\ Received(c, n)
        /\ srv[c].stage = "INIT" /\ PlainLen(c, n) >= HEADER
        /\ srv' = [srv EXCEPT ![c] = [WithHeader(c, n) EXCEPT
                     !.query = TRUE, !.stage = "RESOLVE"]]
        /\ qry' = [qry EXCEPT ![c] =
                     [obj |-> "live", server |-> TRUE, requests |-> Family, responses |-> {}]]
        /\ wire' = [wire EXCEPT ![c].cin = @ + n]
        /\ UNCHANGED <<loop, rmt, block_list>>

-----------------------------------------------------------------------------
(* resolv.c: dns_query_v4_cb, dns_query_v6_cb, process_client_callback with *)
(* resolv_cb and resolv_free_cb                                             *)

\* Mutant: shutting the resolver down cancels nothing.
AnswerNotCancelled(c, f, found) ==
    /\ loop = "run" /\ qry[c].obj = "live"
    /\ f \in qry[c].requests

\* c-ares answers the request for one family; a cancelled request finds nothing.
Answer(c, f, found) ==
    /\ loop \in {"run", "cancel"} /\ qry[c].obj = "live"
    /\ f \in qry[c].requests
    /\ found => loop = "run"

Responses(c, f, found) == qry[c].responses \cup (IF found THEN {f} ELSE {})

\* The other request is still open.
ResolvOne(c, f) ==
    \E found \in BOOLEAN :
        /\ Answer(c, f, found)
        /\ qry[c].requests # {f}
        /\ qry' = [qry EXCEPT ![c].requests = @ \ {f},
                              ![c].responses = Responses(c, f, found)]
        /\ UNCHANGED <<loop, srv, rmt, wire, block_list>>

\* resolv_free_cb after the client callback: the query dies, and a server that
\* is still linked to it forgets it.
FreedQuery == [NoQuery EXCEPT !.obj = "freed"]

\* The connection has been closed in the meantime.
ResolvAbandoned(c, f) ==
    \E found \in BOOLEAN :
        /\ Answer(c, f, found)
        /\ qry[c].requests = {f} /\ ~qry[c].server
        /\ qry' = [qry EXCEPT ![c] = FreedQuery]
        /\ UNCHANGED <<loop, srv, rmt, wire, block_list>>

\* No address found, or connect_to_remote returned NULL.
ResolvFail(c, f) ==
    \E found \in BOOLEAN :
        /\ Answer(c, f, found)
        /\ qry[c].requests = {f} /\ qry[c].server
        /\ srv' = [srv EXCEPT ![c] = FreedServer(@)]
        /\ rmt' = IF srv[c].remote THEN [rmt EXCEPT ![c].server = FALSE] ELSE rmt
        /\ qry' = [qry EXCEPT ![c] = FreedQuery]
        /\ UNCHANGED <<loop, wire, block_list>>

ResolvConnect(c, f) ==
    \E found \in BOOLEAN :
        /\ Answer(c, f, found)
        /\ qry[c].requests = {f} /\ qry[c].server
        /\ Responses(c, f, found) # {}
        /\ srv' = [srv EXCEPT ![c] = [ConnectedServer(@) EXCEPT !.query = FALSE]]
        /\ rmt' = [rmt EXCEPT ![c] = ConnectedRemote(srv[c])]
        /\ qry' = [qry EXCEPT ![c] = FreedQuery]
        /\ UNCHANGED <<loop, wire, block_list>>

-----------------------------------------------------------------------------
(* remote_send_cb: the connection completes, then waiting uplink bytes go out *)

\* The socket became writable but getpeername fails, or send fails; a peer whose
\* connection has been made by then is cleared first.
RemoteSendClose(c) ==
    /\ loop = "run" /\ rmt[c].send /\ rmt[c].server
    /\ CloseBoth(c)
    /\ IF rmt[c].connected \/ rmt[c].buf.len = 0
       THEN UNCHANGED block_list
       ELSE reset_addr(c)
    /\ UNCHANGED <<loop, wire>>

\* Connected, with nothing to send yet: start relaying.
RemoteConnectedIdle(c) ==
    /\ loop = "run" /\ rmt[c].send /\ rmt[c].server
    /\ ~rmt[c].connected /\ rmt[c].buf.len = 0
    /\ rmt' = [rmt EXCEPT ![c].connected = TRUE, ![c].send = FALSE, ![c].recv = TRUE]
    /\ srv' = [srv EXCEPT ![c].stage = "STREAM", ![c].recv = TRUE]
    /\ reset_addr(c)
    /\ UNCHANGED <<loop, qry, wire>>

\* send accepted s of the bytes that wait in remote->buf; when all are out,
\* reading from the client resumes, and the first time reading from the remote
\* starts.
SendUp(c, s) ==
    LET buf == rmt[c].buf IN
    /\ wire' = [wire EXCEPT ![c].toRemote = @ \o AtIdx(buf, s)]
    /\ IF s < buf.len
       THEN /\ rmt' = [rmt EXCEPT ![c].connected = TRUE, ![c].buf = Consumed(@, s)]
            /\ UNCHANGED srv
       ELSE /\ rmt' = [rmt EXCEPT ![c].connected = TRUE, ![c].send = FALSE, ![c].buf = Emptied(@),
                         ![c].recv = @ \/ srv[c].stage # "STREAM"]
            /\ srv' = [srv EXCEPT ![c].recv = TRUE, ![c].stage = "STREAM"]

RemoteSend(c) ==
    /\ loop = "run" /\ rmt[c].send /\ rmt[c].server
    /\ rmt[c].buf.len > 0
    /\ \E s \in 0..rmt[c].buf.len : SendUp(c, s)
    /\ IF rmt[c].connected THEN UNCHANGED block_list ELSE reset_addr(c)
    /\ UNCHANGED <<loop, qry>>

-----------------------------------------------------------------------------
(* remote_recv_cb and server_send_cb: downlink *)

\* recv returned 0 or failed, or encryption or send failed.
RemoteRecvClose(c) ==
    /\ loop = "run" /\ rmt[c].recv /\ rmt[c].server
    /\ CloseBoth(c)
    /\ UNCHANGED <<loop, wire, block_list>>

\* Mutant: the nonce goes in front of every chunk.
CipherNonceAgain(c, n) == [i \in 1..NONCE |-> 0] \o Bytes(wire[c].rin, n)

\* stream_encrypt puts the nonce in front of the first bytes.
Cipher(c, n) ==
    (IF srv[c].einit THEN <<>> ELSE [i \in 1..NONCE |-> 0]) \o Bytes(wire[c].rin, n)

\* send accepted s of the bytes that n received ones encrypt to.
ForwardDown(c, n, s) ==
    LET data == Cipher(c, n) IN
    /\ srv' = [srv EXCEPT ![c].buf =
                 IF s < Len(data) THEN [data |-> data, len |-> Len(data) - s, idx |-> s]
                                  ELSE [data |-> data, len |-> Len(data), idx |-> @.idx],
               ![c].send = @ \/ s < Len(data),
               ![c].einit = TRUE, ![c].timer = TRUE]
    /\ rmt' = [rmt EXCEPT ![c].recv = (s = Len(data))]
    /\ wire' = [wire EXCEPT ![c].rin = @ + n,
                            ![c].toClient = @ \o SubSeq(data, 1, s)]

RemoteRecv(c) ==
    \E n \in 1..BUF_SIZE :
        /\ loop = "run" /\ rmt[c].recv /\ rmt[c].server
        /\ wire[c].rin + n <= DownLen
        /\ \E s \in 0..Len(Cipher(c, n)) : ForwardDown(c, n, s)
        /\ UNCHANGED <<loop, qry, block_list>>

\* send failed.
ServerSendClose(c) ==
    /\ loop = "run" /\ srv[c].send /\ srv[c].remote
    /\ CloseBoth(c)
    /\ UNCHANGED <<loop, wire, block_list>>

SendDown(c, s) ==
    LET buf == srv[c].buf IN
    /\ wire' = [wire EXCEPT ![c].toClient = @ \o AtIdx(buf, s)]
    /\ IF s < buf.len
       THEN /\ srv' = [srv EXCEPT ![c].buf = Consumed(@, s)]
            /\ UNCHANGED rmt
       ELSE /\ srv' = [srv EXCEPT ![c].buf = Emptied(@), ![c].send = FALSE]
            /\ rmt' = [rmt EXCEPT ![c].recv = TRUE]

ServerSend(c) ==
    /\ loop = "run" /\ srv[c].send /\ srv[c].remote
    /\ srv[c].buf.len > 0
    /\ \E s \in 0..srv[c].buf.len : SendDown(c, s)
    /\ UNCHANGED <<loop, qry, block_list>>

-----------------------------------------------------------------------------
(* Timers, and the end of ss_server_main *)

server_timeout_cb(c) ==
    /\ loop = "run" /\ srv[c].timer
    /\ IF srv[c].remote THEN CloseBoth(c) ELSE CloseServer(c)
    /\ UNCHANGED <<loop, wire, block_list>>

block_list_clear_cb ==
    /\ loop = "run"
    /\ block_list' \in Cleared(block_list)
    /\ UNCHANGED <<loop, srv, rmt, qry, wire>>

\* ss_server_stop wrote to the pipe, or a signal came: ev_run returns and the
\* block list is cleared; ares_cancel then answers the open requests.
pipe_cb ==
    /\ loop = "run"
    /\ loop' = "cancel"
    /\ block_list' \in Cleared(block_list)
    /\ UNCHANGED <<srv, rmt, qry, wire>>

\* All requests are cancelled: close every connection that is left.
free_connections ==
    /\ loop = "cancel"
    /\ \A c \in Conn : qry[c].obj # "live"
    /\ srv' = [c \in Conn |-> IF srv[c].obj = "live" THEN FreedServer(srv[c]) ELSE srv[c]]
    /\ rmt' = [c \in Conn |-> IF srv[c].obj = "live" /\ srv[c].remote
                              THEN [FreedRemote(rmt[c]) EXCEPT !.server = FALSE]
                              ELSE rmt[c]]
    /\ loop' = "done"
    /\ UNCHANGED <<qry, wire, block_list>>

Returned == loop = "done" /\ UNCHANGED vars

-----------------------------------------------------------------------------
Init ==
    /\ loop = "run"
    /\ srv = [c \in Conn |-> NoServer]
    /\ rmt = [c \in Conn |-> NoRemote]
    /\ qry = [c \in Conn |-> NoQuery]
    /\ wire = [c \in Conn |-> NoWire]
    /\ block_list = <<>>

server_recv_cb(c) ==
    \/ ServerRecvClose(c) \/ ServerRecvCryptoError(c) \/ ServerRecvNeedMore(c)
    \/ ServerRecvForward(c) \/ ServerRecvMalformed(c) \/ ServerRecvConnect(c)
    \/ ServerRecvConnectFail(c) \/ ServerRecvQuery(c)

resolv_cb(c) ==
    \E f \in Family :
        ResolvOne(c, f) \/ ResolvAbandoned(c, f) \/ ResolvFail(c, f) \/ ResolvConnect(c, f)

remote_send_cb(c) == RemoteSendClose(c) \/ RemoteConnectedIdle(c) \/ RemoteSend(c)

remote_recv_cb(c) == RemoteRecvClose(c) \/ RemoteRecv(c)

server_send_cb(c) == ServerSendClose(c) \/ ServerSend(c)

Next ==
    \/ \E c \in Conn :
          \/ AcceptUnnamed(c) \/ accept_cb(c)
          \/ server_recv_cb(c) \/ server_send_cb(c) \/ server_timeout_cb(c)
          \/ remote_recv_cb(c) \/ remote_send_cb(c)
          \/ resolv_cb(c)
    \/ block_list_clear_cb
    \/ pipe_cb
    \/ free_connections
    \/ Returned

Spec == Init /\ [][Next]_vars

-----------------------------------------------------------------------------
(* Fairness: libev dispatches every ready watcher, a socket that is waited on *)
(* eventually becomes ready, and c-ares answers or gives up after its tries.  *)
(* Nothing makes a peer close, a timer fire or the service stop.              *)

ServerRecvData(c) ==
    \/ ServerRecvCryptoError(c) \/ ServerRecvNeedMore(c) \/ ServerRecvForward(c)
    \/ ServerRecvMalformed(c) \/ ServerRecvConnect(c) \/ ServerRecvConnectFail(c)
    \/ ServerRecvQuery(c)

Fairness ==
    /\ \A c \in Conn :
        /\ WF_vars(ServerRecvData(c))
        /\ WF_vars(remote_send_cb(c))
        /\ WF_vars(RemoteRecv(c))
        /\ WF_vars(server_send_cb(c))
        /\ WF_vars(resolv_cb(c))
    /\ WF_vars(free_connections)

FairSpec == Spec /\ Fairness

-----------------------------------------------------------------------------
(* Properties *)

\* The variables have the types of the C structures they stand for.
TypeOK ==
    /\ loop \in {"run", "cancel", "done"}
    /\ srv \in [Conn -> Server]
    /\ rmt \in [Conn -> Remote]
    /\ qry \in [Conn -> Query]
    /\ wire \in [Conn -> Wire]
    /\ block_list \in Seq(Entry)

\* Uplink bytes read from the client and not yet given to the remote socket:
\* in server->buf while the name is resolved, then in remote->buf.
UpPending(c) ==
    IF srv[c].obj = "live" /\ srv[c].stage = "RESOLVE" /\ ~srv[c].remote
    THEN AtIdx(srv[c].buf, srv[c].buf.len)
    ELSE IF rmt[c].send THEN AtIdx(rmt[c].buf, rmt[c].buf.len) ELSE <<>>

DownPending(c) ==
    IF srv[c].send THEN AtIdx(srv[c].buf, srv[c].buf.len) ELSE <<>>

\* Downlink bytes as the client must see them: the nonce, then the payload.
DownStream(n) == [i \in 1..n |-> IF i <= NONCE THEN 0 ELSE i - NONCE]

\* The remote host gets the client's payload in order, without the nonce and
\* the header, with nothing lost, repeated or overwritten: what it got and
\* what waits in a buffer (server_recv_cb's and remote_send_cb's idx and len
\* arithmetic, the copy "XXX: should handle buffer carefully") is exactly what
\* was read.
UplinkExact ==
    \A c \in Conn :
        /\ wire[c].toRemote = Bytes(Preamble, Len(wire[c].toRemote))
        /\ srv[c].obj = "live" /\ (srv[c].remote \/ srv[c].query) =>
              wire[c].toRemote \o UpPending(c) = Bytes(Preamble, wire[c].cin - Preamble)

\* The client gets one nonce and then the remote host's bytes in order, with
\* nothing lost, repeated or overwritten (remote_recv_cb, server_send_cb).
DownlinkExact ==
    \A c \in Conn :
        /\ wire[c].toClient = DownStream(Len(wire[c].toClient))
        /\ srv[c].obj = "live" =>
              wire[c].toClient \o DownPending(c) =
                 DownStream(wire[c].rin + (IF srv[c].einit THEN NONCE ELSE 0))

\* No callback can run on freed memory or reach the branches the code calls
\* invalid: an active watcher belongs to a live object, a pointer between
\* server, remote and query leads to a live object that points back, a server
\* is never read while its name is resolved (FATAL "server context error"), a
\* streaming server has a remote, and a send watcher has something to send.
CallbacksSafe ==
    \A c \in Conn :
        /\ srv[c].recv \/ srv[c].send \/ srv[c].timer => srv[c].obj = "live"
        /\ rmt[c].recv \/ rmt[c].send => rmt[c].obj = "live" /\ rmt[c].server
        /\ rmt[c].obj = "live" => rmt[c].server
        /\ rmt[c].server /\ rmt[c].obj = "live" => srv[c].obj = "live" /\ srv[c].remote
        /\ srv[c].obj = "live" /\ srv[c].remote => rmt[c].obj = "live" /\ rmt[c].server
        /\ srv[c].obj = "live" /\ srv[c].query => qry[c].obj = "live" /\ qry[c].server
        /\ qry[c].obj = "live" /\ qry[c].server => srv[c].obj = "live" /\ srv[c].query
        /\ srv[c].recv => srv[c].stage # "RESOLVE"
        /\ srv[c].recv /\ srv[c].stage = "STREAM" => srv[c].remote
        /\ srv[c].send => srv[c].remote /\ srv[c].buf.len > 0
        /\ rmt[c].send /\ rmt[c].connected => rmt[c].buf.len > 0

\* server->buf and remote->buf are each filled by one callback and emptied by
\* another; a buffer that waits to be sent is never read into.
NoOverwrite ==
    \A c \in Conn :
        /\ ~(srv[c].recv /\ rmt[c].send)
        /\ ~(rmt[c].recv /\ srv[c].send)

\* No lost wake-up: while the loop runs, a live connection has its idle timer,
\* something that will continue its uplink (its own read watcher, the remote's
\* write watcher or the resolver) and, once streaming, its downlink.
NoLostWakeup ==
    loop = "run" =>
        \A c \in Conn : srv[c].obj = "live" =>
            /\ srv[c].timer
            /\ srv[c].recv \/ rmt[c].send \/ (srv[c].query /\ qry[c].requests # {})
            /\ srv[c].stage = "STREAM" => rmt[c].recv \/ srv[c].send

\* Nothing outlives ss_server_main: when it returns, no server, remote or query
\* is left allocated and no watcher is active.
FreedAtExit ==
    loop = "done" =>
        \A c \in Conn :
            /\ srv[c].obj # "live" /\ rmt[c].obj # "live" /\ qry[c].obj # "live"
            /\ ~srv[c].recv /\ ~srv[c].send /\ ~srv[c].timer
            /\ ~rmt[c].recv /\ ~rmt[c].send

\* Every variable has its type, a peer has at most one block list entry, the
\* loopback address has none, the list stays below its capacity, and counting
\* stops once a peer is blocked.
BlockListSound ==
    /\ TypeOK
    /\ \A i, j \in 1..Len(block_list) : block_list[i].addr = block_list[j].addr => i = j
    /\ \A i \in 1..Len(block_list) :
          /\ block_list[i].addr # Loopback
          /\ \E l \in Level \cup {1} : block_list[i].count <= MAX_TRIES + l
    /\ Len(block_list) < MAX_ENTRIES

\* A peer is listed, and in the end refused, only for connections of its own
\* that the server closed: each one adds at most the highest level to the first
\* count of 1 (report_addr runs once per connection, whatever else its
\* callbacks do).
BlockedForCause ==
    \A i \in 1..Len(block_list) :
        LET n == Cardinality({c \in Conn : /\ PeerOf[c] = block_list[i].addr
                                           /\ srv[c].obj = "freed"})
        IN  n > 0 /\ \E l \in Level : block_list[i].count <= 1 + l * (n - 1)

\* What cache.h:53 says of max_entries, "Amount of entries this cache object can
\* hold": a new entry takes the place of another only when the list holds
\* that many.
EvictedOnlyWhenFull ==
    [][LET listed == {block_list[i].addr : i \in 1..Len(block_list)}
           after  == {block_list'[i].addr : i \in 1..Len(block_list')}
       IN  (Len(block_list) < MAX_ENTRIES /\ after \ listed # {}) => listed \subseteq after]_vars

\* Nothing reaches a peer of a connection that has been closed: close(fd) comes
\* with the end of every watcher that could send.
SilentAfterClose ==
    [][\A c \in Conn : srv[c].obj = "freed" =>
          wire[c]' = wire[c] /\ srv[c]'.obj = "freed" /\ UNCHANGED rmt[c].obj]_vars

\* All the bytes of a connection that stays open arrive at both ends.
Drained(c) ==
    /\ Len(wire[c].toRemote) = UpLen
    /\ Len(wire[c].toClient) = (IF DownLen = 0 THEN 0 ELSE NONCE) + DownLen

RelayCompletes ==
    \A c \in Conn : srv[c].obj = "live" ~> srv[c].obj = "freed" \/ Drained(c)

\* Once the loop is left, ss_server_main returns: cancelling the requests lets
\* free_connections run.
StopCompletes == loop = "cancel" ~> loop = "done"
==============================================================================
