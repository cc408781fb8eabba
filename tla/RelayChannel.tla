---------------------------- MODULE RelayChannel ----------------------------
(***************************************************************************)
(* What the TCP relay promises its users: each connection is opened at     *)
(* most once, carries two independent byte streams that arrive in order    *)
(* and without gaps while it is open, and never carries anything again     *)
(* once it is closed.  Where a stream is cut into pieces is not promised.  *)
(***************************************************************************)
EXTENDS Integers, Sequences

CONSTANT Conn

VARIABLES
    state,   \* "idle", "open" or "closed"
    up,      \* payload the remote host has received, as stream positions
    down     \* payload the client has received

channelVars == <<state, up, down>>

\* The stream as far as n bytes.
Stream(n) == [i \in 1..n |-> i]

ChannelInit ==
    /\ state = [c \in Conn |-> "idle"]
    /\ up = [c \in Conn |-> <<>>]
    /\ down = [c \in Conn |-> <<>>]

Open(c) ==
    /\ state[c] = "idle"
    /\ state' = [state EXCEPT ![c] = "open"]
    /\ UNCHANGED <<up, down>>

\* The next bytes of one direction arrive, as many as it likes.
Grows(stream, new, c) ==
    /\ Len(new[c]) > Len(stream[c])
    /\ new = [stream EXCEPT ![c] = Stream(Len(new[c]))]

Deliver(c) ==
    /\ state[c] = "open"
    /\ \/ Grows(up, up', c) /\ UNCHANGED down
       \/ Grows(down, down', c) /\ UNCHANGED up
    /\ UNCHANGED state

\* Connections are refused or closed: one by one, or all at once on shutdown.
Close(S) ==
    /\ state' = [c \in Conn |-> IF c \in S THEN "closed" ELSE state[c]]
    /\ UNCHANGED <<up, down>>

ChannelNext ==
    \/ \E c \in Conn : Open(c) \/ Deliver(c)
    \/ \E S \in SUBSET Conn : Close(S)

ChannelSpec == ChannelInit /\ [][ChannelNext]_channelVars
==============================================================================
