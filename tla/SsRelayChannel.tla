--------------------------- MODULE SsRelayChannel ---------------------------
(* The TCP relay of ss-server implements the channel of RelayChannel. *)
EXTENDS SsRelay

\* A connection is open as long as its server_t lives.
ChannelState ==
    [c \in Conn |-> CASE srv[c].obj = "none"  -> "idle"
                      [] srv[c].obj = "live"  -> "open"
                      [] srv[c].obj = "freed" -> "closed"]

\* The payload the remote host received, numbered from 1.
ChannelUp ==
    [c \in Conn |-> [i \in 1..Len(wire[c].toRemote) |-> wire[c].toRemote[i] - Preamble]]

\* The payload the client can decrypt: what follows the nonce.
ChannelDown ==
    [c \in Conn |-> SubSeq(wire[c].toClient, NONCE + 1, Len(wire[c].toClient))]

Channel == INSTANCE RelayChannel
    WITH state <- ChannelState, up <- ChannelUp, down <- ChannelDown

\* Whatever the sockets, the resolver, the timers and a stop of the service do,
\* a client and a remote host see a pair of ordered byte streams that end at
\* the close of the connection.
ImplementsChannel == Channel!ChannelSpec
==============================================================================
