------------------------------ MODULE RtcSession ------------------------------
(***************************************************************************)
(* How two devices find each other and negotiate a peer connection         *)
(* (RtcSignalling.kt, RtcEngine.kt, RtcAgentContainer.kt, RtcAgent.kt and  *)
(* the part of MainActivity.kt and PeerListAdapter.kt that drives them).   *)
(*                                                                         *)
(* Every initialize opens a web socket under a fresh name: the n-th socket *)
(* of device d, and the client it registers, are <<d, n>>.  All other      *)
(* state is static and outlives the activity that created it.  Callbacks   *)
(* of a web socket and the user's clicks run on the UI thread; those of a  *)
(* peer connection on a thread of WebRTC.  The signalling server, which is *)
(* not part of the repository, handles a request when it is sent and       *)
(* queues what it has to say to each client.                               *)
(***************************************************************************)
EXTENDS Integers, Sequences

CONSTANTS
    Device,
    MaxSessions,    \* bound: web sockets of a device
    Trial           \* bounds: what the devices may do, one of which each behaviour keeps

ASSUME RtcAssumption ==
    /\ MaxSessions \in Nat
    /\ Trial \subseteq [sessions : [Device -> 0..MaxSessions],
                        activities : Nat,           \* of MainActivity, alive at a time
                        clickers : SUBSET Device,   \* whose users click on peers
                        leavers : SUBSET Device]    \* whose activities and sockets may end

VARIABLES
    mSignallingState,
    session,       \* number of the current mWebSocketConnection; 0 is null
    activities,    \* instances of MainActivity
    mPeerMap,
    mPeerList,     \* of the adapter of the activity that listens
    mRtcAgentMap,
    factory,       \* mPeerConnectionFactory
    ws,            \* the state of each web socket
    room,          \* the server: registered clients
    inbox,         \* the server: messages on their way to each client
    late,          \* history: the list has news from an earlier socket in it
    trial          \* the bounds of this behaviour

signalling == <<mSignallingState, session, activities, mPeerMap, mPeerList, late>>
agents == <<mRtcAgentMap, factory>>
server == <<ws, room, inbox>>
vars == <<mSignallingState, session, activities, mPeerMap, mPeerList, mRtcAgentMap,
          factory, ws, room, inbox, late, trial>>

Client == Device \X (1..MaxSessions)

\* The client of the current web socket: mMyPeerName.
Me(d) == <<d, session[d]>>

(***************************************************************************)
(* An agent is the signalling state of its mLocalPeerConnection, the       *)
(* descriptions that are being created for it, and whether its candidates  *)
(* are still to be reported.                                               *)
(***************************************************************************)
NoAgent == [pc |-> "none", creating |-> <<>>, gathering |-> FALSE]

NewAgent == [NoAgent EXCEPT !.pc = "new"]

Agent == [pc : {"none", "new", "localOffer", "remoteOffer", "stable"},
          creating : Seq({"offer", "answer"}),
          gathering : BOOLEAN]

Message ==
    [cmd : {"peer_list"}, peers : SUBSET Client]
        \cup [cmd : {"add_peer", "del_peer"}, id : Client]
        \cup [cmd : {"offer", "answer", "candidate"}, sourceid : Client]

\* CONNECTED and DISCONNECTED are passed through within a callback.
TypeOK ==
    /\ mSignallingState \in [Device -> {"IDLE", "CONNECTING", "REGISTERED", "CLOSED"}]
    /\ trial \in Trial
    /\ session \in [Device -> Nat] /\ \A d \in Device : session[d] <= trial.sessions[d]
    /\ activities \in [Device -> 0..trial.activities]
    /\ mPeerMap \in [Device -> SUBSET Client]
    /\ mPeerList \in [Device -> SUBSET Client]
    /\ mRtcAgentMap \in [Device -> [Client -> Agent]]
    /\ factory \in [Device -> {"none", "live", "disposed"}]
    /\ ws \in [Client -> {"none", "connecting", "open", "closing", "closed"}]
    /\ room \subseteq Client
    /\ inbox \in [Client -> Seq(Message)]
    /\ late \in [Device -> BOOLEAN]

Init ==
    /\ mSignallingState = [d \in Device |-> "IDLE"]
    /\ session = [d \in Device |-> 0]
    /\ activities = [d \in Device |-> 0]
    /\ mPeerMap = [d \in Device |-> {}]
    /\ mPeerList = [d \in Device |-> {}]
    /\ mRtcAgentMap = [d \in Device |-> [c \in Client |-> NoAgent]]
    /\ factory = [d \in Device |-> "none"]
    /\ ws = [c \in Client |-> "none"]
    /\ room = {}
    /\ inbox = [c \in Client |-> <<>>]
    /\ late = [d \in Device |-> FALSE]
    /\ trial \in Trial

-----------------------------------------------------------------------------
(* The signalling server (external) *)

\* A client registers: it is sent the list, the others are told of it.
Join(c) ==
    /\ room' = room \cup {c}
    /\ inbox' = [x \in Client |->
                    CASE x = c -> Append(inbox[x], [cmd |-> "peer_list", peers |-> room'])
                      [] x \in room \ {c} /\ c \notin room ->
                             Append(inbox[x], [cmd |-> "add_peer", id |-> c])
                      [] OTHER -> inbox[x]]

\* A client has gone: the others are told.  Its own messages end with its socket.
Leave(c) ==
    /\ room' = room \ {c}
    /\ inbox' = [x \in Client |->
                    CASE x = c -> IF ws'[c] = "closed" THEN <<>> ELSE inbox[x]
                      [] x \in room \ {c} /\ c \in room ->
                             Append(inbox[x], [cmd |-> "del_peer", id |-> c])
                      [] OTHER -> inbox[x]]

\* RtcSignalling.sendToPeer: forwarded if both are registered.
sendToPeer(d, c, cmd) ==
    inbox' = IF /\ mSignallingState[d] = "REGISTERED"
                /\ ws[Me(d)] = "open"
                /\ {Me(d), c} \subseteq room
             THEN [inbox EXCEPT ![c] = Append(@, [cmd |-> cmd, sourceid |-> Me(d)])]
             ELSE inbox

-----------------------------------------------------------------------------
(* RtcSignalling *)

\* initialize: a socket that is connecting is kept; any other is replaced, and
\* the one it replaces is not closed.
initialize(d) ==
    \/ /\ mSignallingState[d] = "CONNECTING"
       /\ UNCHANGED <<mSignallingState, session, ws, late>>
    \/ /\ mSignallingState[d] # "CONNECTING"
       /\ session[d] < trial.sessions[d]
       /\ session' = [session EXCEPT ![d] = @ + 1]
       /\ ws' = [ws EXCEPT ![<<d, session[d] + 1>>] = "connecting"]
       /\ mSignallingState' = [mSignallingState EXCEPT ![d] = "CONNECTING"]
       /\ late' = [late EXCEPT ![d] = FALSE]

\* MainActivity.onCreate: RtcEngine.initialize with an empty adapter.
onCreate(d) ==
    /\ activities[d] < trial.activities
    /\ activities' = [activities EXCEPT ![d] = @ + 1]
    /\ mPeerList' = [mPeerList EXCEPT ![d] = {}]
    /\ initialize(d)
    /\ UNCHANGED <<mPeerMap, agents, room, inbox>>

\* register sends the name of the current session on its socket, which need not
\* be the one that has opened.
register(d) ==
    /\ mSignallingState' = [mSignallingState EXCEPT ![d] = "REGISTERED"]
    /\ IF ws'[Me(d)] = "open" THEN Join(Me(d)) ELSE UNCHANGED <<room, inbox>>

onOpen(c) ==
    /\ ws[c] = "connecting"
    /\ ws' = [ws EXCEPT ![c] = "open"]
    /\ register(c[1])
    /\ UNCHANGED <<session, activities, mPeerMap, mPeerList, late, agents>>

\* Mutant: a lost connection is not noted.
onClose_Unnoted(c) ==
    /\ c[1] \in trial.leavers
    /\ ws[c] \in {"connecting", "open", "closing"}
    /\ ws' = [ws EXCEPT ![c] = "closed"]
    /\ Leave(c)
    /\ UNCHANGED <<signalling, agents>>

\* onClose: the socket was disconnected, lost, or could not connect.
onClose(c) ==
    /\ c[1] \in trial.leavers
    /\ ws[c] \in {"connecting", "open", "closing"}
    /\ ws' = [ws EXCEPT ![c] = "closed"]
    /\ mSignallingState' = [mSignallingState EXCEPT ![c[1]] = "CLOSED"]
    /\ Leave(c)
    /\ UNCHANGED <<session, activities, mPeerMap, mPeerList, late, agents>>

\* destroy: only a registered client is disconnected.  Its "bye" is broadcast
\* without a source, and receivers only log it.
destroy(d) ==
    /\ mSignallingState' = [mSignallingState EXCEPT
                               ![d] = IF @ = "IDLE" THEN @ ELSE "CLOSED"]
    /\ ws' = IF mSignallingState[d] = "REGISTERED"
                /\ ws[Me(d)] \in {"connecting", "open"}
             THEN [ws EXCEPT ![Me(d)] = "closing"]
             ELSE ws

\* MainActivity.onDestroy: RtcEngine.destroy.  Agents and peers are kept.
onDestroy(d) ==
    /\ d \in trial.leavers
    /\ activities[d] > 0
    /\ activities' = [activities EXCEPT ![d] = @ - 1]
    /\ destroy(d)
    /\ UNCHANGED <<session, mPeerMap, mPeerList, late, agents, room, inbox>>

\* The DELETE request that destroy sends over HTTP reaches the server before
\* the web socket has closed.
HttpDelete(c) ==
    /\ ws[c] = "closing"
    /\ c \in room
    /\ UNCHANGED <<signalling, agents, ws>>
    /\ Leave(c)

-----------------------------------------------------------------------------
(* RtcAgent: the peer connection.  What WebRTC accepts in which signalling   *)
(* state is external; what is done whatever it answers is the code's.        *)

\* setRemoteDescription fails, with onSetFailure, in any other state.
setRemoteDescription(a, sdp) ==
    CASE sdp = "offer" /\ a.pc \in {"new", "stable", "remoteOffer"} ->
             [a EXCEPT !.pc = "remoteOffer"]
      [] sdp = "answer" /\ a.pc = "localOffer" -> [a EXCEPT !.pc = "stable"]
      [] OTHER -> a

setLocalDescription(a, sdp) ==
    CASE sdp = "offer" /\ a.pc \in {"new", "stable", "localOffer"} ->
             [a EXCEPT !.pc = "localOffer", !.gathering = TRUE]
      [] sdp = "answer" /\ a.pc = "remoteOffer" ->
             [a EXCEPT !.pc = "stable", !.gathering = TRUE]
      [] OTHER -> a

\* createDataChannel, with the description it asks for.
createDataChannel(a, sdp) == [a EXCEPT !.creating = Append(@, sdp)]

\* Mutant: an offer is applied but not answered.
processSessionDescription_Silent(a, sdp) == setRemoteDescription(a, sdp)

\* processSessionDescription, and initialize of an acceptor.
processSessionDescription(a, sdp) ==
    LET b == setRemoteDescription(a, sdp) IN
    IF sdp = "offer" THEN createDataChannel(b, "answer") ELSE b

\* processMessage of the agent, of which a candidate changes nothing here.
processMessage(a, cmd) ==
    IF cmd = "candidate" THEN a ELSE processSessionDescription(a, cmd)

\* onCreateSuccess, and onCreateFailure for an answer without an offer.  The
\* description is sent whether or not it could be set.
onCreateSuccess(d, c) ==
    LET a == mRtcAgentMap[d][c]
        sdp == Head(a.creating)
        b == [a EXCEPT !.creating = Tail(@)]
    IN
    /\ a.creating # <<>>
    /\ \/ /\ sdp = "answer" /\ a.pc # "remoteOffer"
          /\ mRtcAgentMap' = [mRtcAgentMap EXCEPT ![d][c] = b]
          /\ UNCHANGED inbox
       \/ /\ ~(sdp = "answer" /\ a.pc # "remoteOffer")
          /\ mRtcAgentMap' = [mRtcAgentMap EXCEPT ![d][c] = setLocalDescription(b, sdp)]
          /\ sendToPeer(d, c, sdp)
    /\ UNCHANGED <<signalling, factory, ws, room>>

onIceCandidate(d, c) ==
    /\ mRtcAgentMap[d][c].gathering
    /\ mRtcAgentMap' = [mRtcAgentMap EXCEPT ![d][c].gathering = FALSE]
    /\ sendToPeer(d, c, "candidate")
    /\ UNCHANGED <<signalling, factory, ws, room>>

-----------------------------------------------------------------------------
(* RtcAgentContainer *)

\* RtcAgent.initialize: the first agent makes the factory.
initFactory(d) == factory' = [factory EXCEPT ![d] = "live"]

\* createChannel: a peer that has an agent, whatever became of it, is left alone.
createChannel(d, c) ==
    /\ mRtcAgentMap[d][c] = NoAgent
    /\ initFactory(d)
    /\ mRtcAgentMap' = [mRtcAgentMap EXCEPT ![d][c] = createDataChannel(NewAgent, "offer")]

onItemClick(d, c) ==
    /\ d \in trial.clickers
    /\ activities[d] > 0
    /\ c \in mPeerList[d]
    /\ createChannel(d, c)
    /\ UNCHANGED <<signalling, server>>

\* processMessage: a source without an agent gets one, whatever it says; what is
\* meant for the name of an earlier session is ignored.
onMiscMsg(c, msg) ==
    LET d == c[1]
        a == mRtcAgentMap[d][msg.sourceid]
    IN
    IF c # Me(d)
    THEN UNCHANGED agents
    ELSE /\ initFactory(d)
         /\ mRtcAgentMap' = [mRtcAgentMap EXCEPT ![d][msg.sourceid] =
                processMessage(IF a = NoAgent THEN NewAgent ELSE a, msg.cmd)]

\* Mutant: the factory goes with any agent.
delPeer_Dispose(d, c) ==
    /\ mRtcAgentMap' = [mRtcAgentMap EXCEPT ![d][c] = NoAgent]
    /\ factory' = IF mRtcAgentMap[d][c] # NoAgent
                  THEN [factory EXCEPT ![d] = "disposed"]
                  ELSE factory

\* delPeer: the agent is destroyed, and with the last one the factory.
delPeer(d, c) ==
    /\ mRtcAgentMap' = [mRtcAgentMap EXCEPT ![d][c] = NoAgent]
    /\ factory' = IF /\ mRtcAgentMap[d][c] # NoAgent
                     /\ \A x \in Client \ {c} : mRtcAgentMap[d][x] = NoAgent
                  THEN [factory EXCEPT ![d] = "disposed"]
                  ELSE factory

-----------------------------------------------------------------------------
(* RtcSignalling and RtcEngine: messages *)

\* Mutant: mPeerMap.clear() is forgotten.
onPeerList_Keep(d, peers) ==
    /\ mPeerMap' = [mPeerMap EXCEPT ![d] = @ \cup peers]
    /\ mPeerList' = [mPeerList EXCEPT ![d] = mPeerMap'[d]]

\* onPeerList: the map is replaced and the adapter takes it over.
onPeerList(d, peers) ==
    /\ mPeerMap' = [mPeerMap EXCEPT ![d] = peers]
    /\ mPeerList' = [mPeerList EXCEPT ![d] = peers]

\* onAddPeer: the adapter is told of peers the map does not have.
onAddPeer(d, p) ==
    /\ mPeerMap' = [mPeerMap EXCEPT ![d] = @ \cup {p}]
    /\ mPeerList' = IF p \in mPeerMap[d] THEN mPeerList
                    ELSE [mPeerList EXCEPT ![d] = @ \cup {p}]

onDelPeer(d, p) ==
    /\ mPeerMap' = [mPeerMap EXCEPT ![d] = @ \ {p}]
    /\ mPeerList' = [mPeerList EXCEPT ![d] = @ \ {p}]
    /\ delPeer(d, p)

\* A list without other peers is not passed on.
processPeerList(d, peers) ==
    /\ IF peers \ {Me(d)} # {}
       THEN onPeerList(d, peers \ {Me(d)})
       ELSE UNCHANGED <<mPeerMap, mPeerList>>
    /\ UNCHANGED agents

processAddPeer(d, p) ==
    /\ IF p # Me(d) THEN onAddPeer(d, p) ELSE UNCHANGED <<mPeerMap, mPeerList>>
    /\ UNCHANGED agents

processDelPeer(d, p) ==
    IF p # Me(d) THEN onDelPeer(d, p) ELSE UNCHANGED <<mPeerMap, mPeerList, agents>>

\* onTextMessage: commands of the server first, then what is for an agent.
onTextMessage(c) ==
    LET d == c[1]
        msg == Head(inbox[c])
    IN
    /\ ws[c] \in {"open", "closing"}
    /\ inbox[c] # <<>>
    /\ inbox' = [inbox EXCEPT ![c] = Tail(@)]
    /\ \/ msg.cmd = "peer_list" /\ processPeerList(d, msg.peers)
       \/ msg.cmd = "add_peer" /\ processAddPeer(d, msg.id)
       \/ msg.cmd = "del_peer" /\ processDelPeer(d, msg.id)
       \/ /\ msg.cmd \in {"offer", "answer", "candidate"}
          /\ onMiscMsg(c, msg)
          /\ UNCHANGED <<mPeerMap, mPeerList>>
    /\ late' = [late EXCEPT ![d] =
                   CASE c # Me(d) /\ msg.cmd \in {"peer_list", "add_peer", "del_peer"} -> TRUE
                     [] c = Me(d) /\ msg.cmd = "peer_list" /\ msg.peers # {c} -> FALSE
                     [] OTHER -> @]
    /\ UNCHANGED <<mSignallingState, session, activities, ws, room>>

-----------------------------------------------------------------------------
Next ==
    /\ \/ \E d \in Device : onCreate(d) \/ onDestroy(d)
       \/ \E c \in Client : onOpen(c) \/ onClose(c) \/ HttpDelete(c) \/ onTextMessage(c)
       \/ \E d \in Device, c \in Client :
              onItemClick(d, c) \/ onCreateSuccess(d, c) \/ onIceCandidate(d, c)
    /\ UNCHANGED trial

Spec == Init /\ [][Next]_vars

-----------------------------------------------------------------------------
(* No agent outlives the factory its peer connections come from: delPeer     *)
(* disposes of it only with the last agent, and initialize makes a new one   *)
(* when it has gone (RtcAgentContainer.kt:150, RtcAgent.kt:253).             *)
FactoryOutlivesAgents ==
    \A d \in Device :
        (\E c \in Client : mRtcAgentMap[d][c] # NoAgent) => factory[d] = "live"

(* The device takes itself for registered, and so sends messages, only while *)
(* one of its web sockets is open, however late the callbacks of the sockets *)
(* of earlier sessions come (RtcSignalling.kt:143-150, 163-200); its state   *)
(* and all else have their types.                                            *)
RegisteredMeansOpen ==
    TypeOK /\ \A d \in Device :
        mSignallingState[d] = "REGISTERED" =>
            \E n \in 1..session[d] : ws[<<d, n>>] = "open"

(* When everything the server has said has been handled, the list the user   *)
(* sees is the room without oneself: nothing of an earlier session is left,  *)
(* although the peer map is kept and a list without others is not passed on, *)
(* and nobody is missing.  The exception is news that a socket of an earlier *)
(* session delivers after the new one was made, until a list comes           *)
(* (RtcEngine.kt:57-76, RtcSignalling.kt:61-89).                             *)
ListShowsRoom ==
    \A d \in Device :
        (/\ mSignallingState[d] = "REGISTERED"
         /\ ws[Me(d)] = "open"
         /\ ~late[d]
         /\ inbox[Me(d)] = <<>>)
            => mPeerList[d] = room \ {Me(d)}

\* The two devices are registered, in their first sessions: agents are kept from one
\* session to the next, and those of an earlier one know nothing of its end.
Linked(d, c) ==
    \A e \in {d, c[1]} : /\ session[e] = 1
                         /\ mSignallingState[e] = "REGISTERED"
                         /\ ws[<<e, 1>>] = "open"
                         /\ <<e, 1>> \in room

\* No message or description of the two is on its way.
Quiet(d, c) ==
    /\ inbox[<<d, 1>>] = <<>> /\ mRtcAgentMap[d][c].creating = <<>>
    /\ inbox[c] = <<>> /\ mRtcAgentMap[c[1]][<<d, 1>>].creating = <<>>

(* A negotiation ends on both sides alike, whoever began it and however the  *)
(* two offers, the answers and the candidates cross: when nothing more is on *)
(* its way, either both ends are stable, or both clicked and both offers     *)
(* were refused.  It is never only one side that believes in the connection  *)
(* (RtcAgent.kt:148-153, 330-342, RtcAgentContainer.kt:94-144).              *)
OfferIsSettled ==
    \A d \in Device, c \in Client :
        (c[1] # d /\ c[2] = 1 /\ Linked(d, c) /\ Quiet(d, c)) =>
            LET mine == mRtcAgentMap[d][c].pc
                theirs == mRtcAgentMap[c[1]][<<d, 1>>].pc
            IN  mine = theirs /\ mine \in {"none", "stable", "localOffer"}
=============================================================================
