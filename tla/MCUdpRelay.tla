------------------------------ MODULE MCUdpRelay ------------------------------
(* UdpRelay with two clients, one numeric family and a cache of two places.  *)
EXTENDS UdpRelay, TLC

\* Clients and addresses are only compared with each other.
Symmetry == Permutations(Client) \cup Permutations(Remote)
==============================================================================
