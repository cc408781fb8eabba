---------------------------- MODULE MCTunnelRelay -----------------------------
(* TunnelRelay for TLC. *)
EXTENDS TunnelRelay

\* Two connections together, or one whose sockets may break and whose peers may end.
Conns == {"c1", "c2", "c3"}

PairOrOne == {{"c1", "c2"}, {"c3"}}

OneOnly == {{"c3"}}

BothOfOne == {<<"c3", "L">>, <<"c3", "R">>}

NoSocket == {}
=============================================================================
