----------------------------- MODULE MCRtcSession -----------------------------
(* RtcSession for TLC. *)
EXTENDS RtcSession

Sessions(a, b) == [d \in Device |-> IF d = "a" THEN a ELSE b]

\* Device a is started up to twice and its activities may overlap.
Restarts ==
    [sessions |-> Sessions(2, 1), activities |-> 2, clickers |-> {}, leavers |-> Device]

\* Device a leaves and comes back while b clicks: b has agents for both of its sessions.
Returns ==
    [sessions |-> Sessions(2, 1), activities |-> 1, clickers |-> {"b"}, leavers |-> {"a"}]

\* One session of each device, both of whose users may click.
BothClick ==
    [sessions |-> Sessions(1, 1), activities |-> 1, clickers |-> Device, leavers |-> Device]

Trials == {Restarts, Returns, BothClick}
===============================================================================
