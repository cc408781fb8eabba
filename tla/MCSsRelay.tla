------------------------------ MODULE MCSsRelay ------------------------------
(* Instances of SsRelay for TLC. *)
EXTENDS SsRelayInv

CONSTANTS c1, c2, c3, lo, p1, p2

OneConn == {c1}

TwoConns == {c1, c2}

ThreeConns == {c1, c2, c3}

\* Every peer is the loopback address, as when the tunnel of this app connects.
LocalPeer == [c \in Conn |-> lo]

\* One peer is on the white list of the access list, the other is denied.
ListedPeers == [c \in Conn |-> IF c = c1 THEN p1 ELSE p2]

\* Every connection comes from the same remote peer.
SamePeer == [c \in Conn |-> p1]
==============================================================================
