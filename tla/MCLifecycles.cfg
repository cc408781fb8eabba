\* Six uses of the switch by two activities; three starts and four stops of
\* ss-server.  Both may be left alone for good.
SPECIFICATION MCSpec
CONSTANTS
    MaxClicks = 6
    MaxActivities = 2
INVARIANTS
    OneThreadWithProxies
    SocketsAreProtected
PROPERTIES
    StopPassesVpnThread
    
CHECK_DEADLOCK FALSE
