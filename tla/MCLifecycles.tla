----------------------------- MODULE MCLifecycles -----------------------------
(***************************************************************************)
(* An instance of the two lifecycles for TLC.  A device is a client, with  *)
(* the VPN (VpnLifecycle), or a server, with ss-server                     *)
(* (SsServerLifecycle).                                                    *)
(***************************************************************************)
EXTENDS VpnLifecycle

VARIABLES
    role,
    caller, server, g_env, pipe, protecting, pending, sprocess, sstarts, sstops, early

svars == <<caller, server, g_env, pipe, protecting, pending, sprocess, sstarts, sstops,
           early>>

S == INSTANCE SsServerLifecycle WITH
    MaxStarts <- 3, MaxStops <- 4,
    process <- sprocess, starts <- sstarts, stops <- sstops

MCInit == role \in {"client", "server"} /\ Init /\ S!Init

MCNext ==
    \/ role = "client" /\ Next /\ UNCHANGED <<role, svars>>
    \/ role = "server" /\ S!Next /\ UNCHANGED <<role, vars>>

MCSpec ==
    /\ MCInit /\ [][MCNext]_<<role, vars, svars>>
    /\ Fairness /\ S!Fairness

==============================================================================
