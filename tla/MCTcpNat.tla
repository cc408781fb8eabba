------------------------------- MODULE MCTcpNat -------------------------------
(* TcpNat for TLC: connections of apps that share source ports. *)
EXTENDS TcpNat

Conn(s, ip, p) == [sport |-> s, ip |-> ip, port |-> p]

\* Beside a connection to a's https port: one to another host from the same source port,
\* one to another port from the same source port, one from another source port.
First == Conn("s1", "a", "https")

Seconds == {Conn("s1", "b", "https"), Conn("s1", "a", "http"), Conn("s2", "a", "https")}

Flows == {First} \cup Seconds

Pairs == {{First, f} : f \in Seconds}
=============================================================================
