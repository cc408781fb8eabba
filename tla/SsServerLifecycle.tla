--------------------------- MODULE SsServerLifecycle --------------------------
(***************************************************************************)
(* Start and stop of ss-server in the app's process: SSProxyServer.kt,     *)
(* its native side (ssproxyserver.c, vpninterface.c) and the parts of      *)
(* ss_server_main that they meet (server.c): the pipe through which a stop *)
(* reaches the event loop, and the JNIEnv kept in a global.  SsRelay is    *)
(* what happens inside the loop.                                           *)
(*                                                                         *)
(* One thread calls start and stop in any order, and one runs the server.  *)
(***************************************************************************)
EXTENDS Naturals

CONSTANTS MaxStarts, MaxStops   \* bounds: calls of start and of stop

VARIABLES
    caller,    \* "idle", or how far stop has got
    server,    \* how far mServerThread has got
    g_env,     \* g_env is not NULL
    pipe,      \* the bytes in the pipe; NoPipe when it is not open
    protecting,\* the server's thread is in vpn_interface_protect_socket
    pending,   \* the server's thread has an exception pending in its JNIEnv
    process,   \* "up", or what ended it
    starts, stops,
    early      \* history: the last stop came before its server had a pipe

vars == <<caller, server, g_env, pipe, protecting, pending, process, starts, stops, early>>

NoPipe == MaxStops + 1

Init ==
    /\ caller = "idle" /\ server = "none"
    /\ g_env = FALSE /\ protecting = FALSE /\ pending = FALSE
    /\ pipe = NoPipe
    /\ process = "up"
    /\ starts = 0 /\ stops = 0 /\ early = FALSE

-----------------------------------------------------------------------------
(* The thread that calls start and stop *)

\* A second server cannot bind its port: FATAL ends the process.
start ==
    /\ caller = "idle" /\ starts < MaxStarts
    /\ starts' = starts + 1
    /\ IF server \in {"none", "ended"}
       THEN server' = "thread" /\ pending' = FALSE /\ UNCHANGED process
       ELSE process' = "bind" /\ UNCHANGED <<server, pending>>
    /\ UNCHANGED <<caller, g_env, pipe, protecting, stops, early>>


\* ss_server_stop: before the pipe is made, or after it is closed, the byte goes
\* wherever g_pipe_fd points to.
ss_server_stop ==
    /\ pipe' = IF pipe = NoPipe THEN pipe ELSE pipe + 1
    /\ early' = (server \in {"thread", "main"})

\* stop, with SSProxyServerStop to its first call.
stop ==
    /\ caller = "idle" /\ stops < MaxStops
    /\ server # "none"
    /\ stops' = stops + 1
    /\ ss_server_stop
    /\ caller' = "final"
    /\ UNCHANGED <<server, g_env, protecting, pending, process, starts>>

vpn_interface_final ==
    /\ caller = "final"
    /\ g_env' = FALSE
    /\ caller' = "join"
    /\ UNCHANGED <<server, pipe, protecting, pending, process, starts, stops, early>>

Join ==
    /\ caller = "join" /\ server = "ended"
    /\ caller' = "idle"
    /\ UNCHANGED <<server, g_env, pipe, protecting, pending, process, starts, stops, early>>

-----------------------------------------------------------------------------
(* The server's thread *)

\* SSProxyServerStart: vpn_interface_init.
vpn_interface_init ==
    /\ server = "thread"
    /\ g_env' = TRUE
    /\ server' = "main"
    /\ UNCHANGED <<caller, pipe, protecting, pending, process, starts, stops, early>>

\* ss_server_main makes the pipe, before it binds its port.
CreatePipe ==
    /\ server = "main"
    /\ pipe' = 0
    /\ server' = "bind"
    /\ UNCHANGED <<caller, g_env, protecting, pending, process, starts, stops, early>>

\* Once the listening socket has been made, the loop runs.
AfterSocket == IF server = "bind" THEN "loop" ELSE server

\* vpn_interface_protect_socket, for the listening socket (server.c:401) and for
\* each one to a destination (server.c:487), which a query that is cancelled half
\* answered makes even during the clean-up: g_env is looked at,
protect_begin ==
    /\ server \in {"bind", "loop", "cleanup"} /\ ~protecting
    /\ IF g_env THEN protecting' = TRUE /\ UNCHANGED server
                ELSE server' = AfterSocket /\ UNCHANGED protecting
    /\ UNCHANGED <<caller, g_env, pipe, pending, process, starts, stops, early>>

\* and used.  protectSocket is no static method, so GetStaticMethodID leaves an
\* exception pending; a FindClass with one pending may abort.
protect_end ==
    /\ protecting
    /\ IF ~g_env THEN process' = "null" /\ UNCHANGED <<server, protecting, pending>>
       ELSE \/ /\ pending /\ process' = "abort"
               /\ UNCHANGED <<server, protecting, pending>>
            \/ /\ server' = AfterSocket /\ protecting' = FALSE /\ pending' = TRUE
               /\ UNCHANGED process
    /\ UNCHANGED <<caller, g_env, pipe, starts, stops, early>>

pipe_cb ==
    /\ server = "loop" /\ ~protecting /\ pipe > 0
    /\ pipe' = pipe - 1
    /\ server' = "cleanup"
    /\ UNCHANGED <<caller, g_env, protecting, pending, process, starts, stops, early>>

ClosePipe ==
    /\ server = "cleanup" /\ ~protecting
    /\ pipe' = NoPipe
    /\ server' = "closed"
    /\ UNCHANGED <<caller, g_env, protecting, pending, process, starts, stops, early>>

\* ss_server_main returns.  A pending exception is thrown where the thread called
\* SSProxyServerStart; nobody catches it there, and it ends the process.
Return ==
    /\ server = "closed"
    /\ IF pending THEN process' = "exception" /\ UNCHANGED server
                  ELSE server' = "ended" /\ UNCHANGED process
    /\ UNCHANGED <<caller, g_env, pipe, protecting, pending, starts, stops, early>>

Running == process = "up"

Caller == start \/ stop \/ vpn_interface_final \/ Join

Server == vpn_interface_init \/ CreatePipe \/ protect_begin \/ protect_end \/ pipe_cb
              \/ ClosePipe \/ Return

Next == Running /\ (Caller \/ Server)

\* Both threads go on with what they have begun.  The loop looks at the pipe again
\* and again, and few cancelled queries make a socket, but these come in between.
Fairness ==
    /\ WF_vars(Running /\ (vpn_interface_final \/ Join))
    /\ WF_vars(Running /\ (vpn_interface_init \/ CreatePipe \/ protect_end \/ Return
                              \/ (server = "bind" /\ protect_begin)))
    /\ SF_vars(Running /\ pipe_cb)
    /\ SF_vars(Running /\ ClosePipe)

Spec == Init /\ [][Next]_vars /\ Fairness

-----------------------------------------------------------------------------
(* Properties *)

\* The server's thread ends only after a stop that found the pipe, and only if no
\* socket had been protected (vpninterface.c:29-33, SSProxyServer.kt:37).
EndIsClean == server = "ended" => ~early /\ ~pending

\* The server's thread has called into Java for a socket, or is about to.
Protected == pending \/ protecting

=============================================================================
