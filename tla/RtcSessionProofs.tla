--------------------------- MODULE RtcSessionProofs ---------------------------
(***************************************************************************)
(* Proofs about signalling.  The list of peers a user sees is made of the  *)
(* news on their way to the device, and the news were made of the room.    *)
(* The invariant says of each client of a device's current socket what the *)
(* messages in its queue say of each peer: the last one is right about the *)
(* room, and a list that names nobody else, which is not passed on, finds  *)
(* the peers gone already.                                                 *)
(*                                                                         *)
(* The second invariant is about two devices in their first sessions: the  *)
(* stages their agents are at fit each other and the descriptions that are *)
(* on their way between the two.                                           *)
(***************************************************************************)
EXTENDS RtcSession, SequenceTheorems, TLAPS

\* A client whose socket has never been open; it has not been in the room.
Fresh(c) == ws[c] \in {"none", "connecting"}

\* What a message says of a peer.
IsNews(m, p) == m.cmd = "peer_list" \/ (m.cmd \in {"add_peer", "del_peer"} /\ m.id = p)

Says(m, p) ==
    \/ m.cmd = "peer_list" /\ p \in m.peers
    \/ m.cmd = "add_peer" /\ m.id = p

Adds(m, p) == m.cmd = "add_peer" /\ m.id = p

Names(m, p) == Says(m, p) \/ (m.cmd = "del_peer" /\ m.id = p)

Lone(m, x) == m.cmd = "peer_list" /\ m.peers \subseteq {x}

NoNews(q, from, to, p) == \A i \in from..to : ~IsNews(q[i], p)

\* A peer is added only before anything else says that it is there.
Ordered(q) ==
    \A p \in Client, j, k \in 1..Len(q) : j < k /\ Says(q[j], p) => ~Adds(q[k], p)

\* The messages of queue q, to client x, when nobody of F has been in the room.
NewsOf(q, x, F) ==
    /\ Ordered(q)
    /\ \A p \in F : \A k \in 1..Len(q) : ~Names(q[k], p)
    /\ \A k \in 1..Len(q) : q[k].cmd = "peer_list" => x \in q[k].peers

\* The last news of peer p is right about room R, and before a list without others
\* the last news of it is that it has gone.
ToldOf(q, x, R, p) ==
    /\ \A k \in 1..Len(q) :
          IsNews(q[k], p) /\ NoNews(q, k + 1, Len(q), p) => (Says(q[k], p) <=> p \in R)
    /\ \A j, k \in 1..Len(q) :
          j < k /\ Lone(q[k], x) /\ IsNews(q[j], p) /\ NoNews(q, j + 1, k - 1, p) =>
              ~Says(q[j], p)

Told(q, x, R) == \A p \in Client \ {x} : ToldOf(q, x, R, p)

\* A peer without news in queue q is in list L when it is in room R, and not in it
\* before a list without others; map M has nobody who is still to be added.
ShownOf(q, x, R, L, M, p) ==
    /\ NoNews(q, 1, Len(q), p) => (p \in L <=> p \in R)
    /\ \A k \in 1..Len(q) : Lone(q[k], x) /\ NoNews(q, 1, k - 1, p) => p \notin L
    /\ \A k \in 1..Len(q) : Adds(q[k], p) => p \notin M

ShownBy(q, x, R, L, M) == \A p \in Client \ {x} : ShownOf(q, x, R, L, M, p)

-----------------------------------------------------------------------------
(* The invariant *)

\* Sockets have been made in order, and only the current one is waited for.
SocketInv ==
    /\ \A c \in Client : ws[c] # "none" => c[2] <= session[c[1]]
    /\ \A d \in Device : mSignallingState[d] = "CONNECTING" =>
          session[d] > 0 /\ ws[Me(d)] = "connecting"
    /\ \A d \in Device : mSignallingState[d] = "REGISTERED" =>
          \E n \in 1..session[d] : ws[<<d, n>>] = "open"

RoomInv ==
    /\ \A c \in room : ~Fresh(c)
    /\ \A c \in Client : Fresh(c) => inbox[c] = <<>>
    /\ \A d \in Device : session[d] > 0 /\ ws[Me(d)] = "open" => Me(d) \in room

FreshClients == {c \in Client : Fresh(c)}

\* Nothing is said of a client that has not been in the room, and a list names the
\* client it is sent to.
NewsInv ==
    /\ \A c \in Client : NewsOf(inbox[c], c, FreshClients)
    /\ \A d \in Device : mPeerMap[d] \cap FreshClients = {}

ShownFor(d) ==
    /\ Me(d) \notin mPeerList[d]
    /\ session[d] > 0 /\ ws[Me(d)] = "connecting" /\ ~late[d] => mPeerList[d] = {}
    /\ session[d] > 0 /\ ws[Me(d)] = "open" =>
          /\ Told(inbox[Me(d)], Me(d), room)
          /\ ~late[d] => ShownBy(inbox[Me(d)], Me(d), room, mPeerList[d], mPeerMap[d])

ShownInv == \A d \in Device : ShownFor(d)

RtcInv ==
    /\ TypeOK /\ FactoryOutlivesAgents
    /\ SocketInv /\ RoomInv /\ NewsInv /\ ShownInv

-----------------------------------------------------------------------------
(* Queues: what a further message and the removal of the first one leave true *)

LEMMA AppendParts ==
    ASSUME NEW q \in Seq(Message), NEW m \in Message, NEW r, r = Append(q, m)
    PROVE  /\ r \in Seq(Message) /\ Len(q) \in Nat /\ Len(r) = Len(q) + 1
           /\ \A i \in 1..Len(q) : r[i] = q[i]
           /\ r[Len(q) + 1] = m
  BY AppendProperties, LenProperties

LEMMA TailParts ==
    ASSUME NEW q \in Seq(Message), q # <<>>, NEW r, r = Tail(q)
    PROVE  /\ r \in Seq(Message) /\ Len(q) \in Nat /\ Len(q) > 0 /\ Len(r) = Len(q) - 1
           /\ \A i \in 1..Len(r) : r[i] = q[i + 1]
           /\ Head(q) = q[1] /\ q[1] \in Message
<1>1. Head(q) \in Message /\ r \in Seq(Message)
  BY HeadTailProperties
<1>2. Len(q) \in Nat /\ Len(q) > 0 /\ Len(r) = Len(q) - 1 /\ \A i \in 1..Len(r) : r[i] = q[i + 1]
  BY HeadTailProperties, EmptySeq, LenProperties
<1>3. Head(q) = q[1]
  OBVIOUS
<1>4. QED
  BY <1>1, <1>2, <1>3

LEMMA AppendOrdered ==
    ASSUME NEW q \in Seq(Message), NEW m \in Message, Ordered(q),
           \A p \in Client, j \in 1..Len(q) : Adds(m, p) => ~Says(q[j], p)
    PROVE  Ordered(Append(q, m))
<1>1. PICK r : r = Append(q, m)
  OBVIOUS
<1>2. /\ Len(q) \in Nat /\ Len(r) = Len(q) + 1
      /\ \A i \in 1..Len(q) : r[i] = q[i]
      /\ r[Len(q) + 1] = m
  BY <1>1, AppendParts
<1>3. ASSUME NEW p \in Client, NEW j \in 1..Len(r), NEW k \in 1..Len(r), j < k, Says(r[j], p), Adds(r[k], p)
      PROVE  FALSE
  <2>1. j \in 1..Len(q) /\ r[j] = q[j]
    BY <1>2, <1>3
  <2>2. CASE k \in 1..Len(q)
    BY <1>2, <1>3, <2>1, <2>2 DEF Ordered
  <2>3. CASE k = Len(q) + 1
    BY <1>2, <1>3, <2>1, <2>3
  <2>4. QED
    BY <1>2, <2>2, <2>3
<1>4. QED
  BY <1>1, <1>3 DEF Ordered

LEMMA TailOrdered ==
    ASSUME NEW q \in Seq(Message), q # <<>>, Ordered(q)
    PROVE  Ordered(Tail(q))
<1>1. PICK r : r = Tail(q)
  OBVIOUS
<1>2. Len(q) \in Nat /\ Len(r) = Len(q) - 1 /\ \A i \in 1..Len(r) : r[i] = q[i + 1]
  BY <1>1, TailParts
<1>3. ASSUME NEW p \in Client, NEW j \in 1..Len(r), NEW k \in 1..Len(r), j < k, Says(r[j], p), Adds(r[k], p)
      PROVE  FALSE
  <2>1. j + 1 \in 1..Len(q) /\ k + 1 \in 1..Len(q) /\ j + 1 < k + 1
    BY <1>2, <1>3
  <2>2. r[j] = q[j + 1] /\ r[k] = q[k + 1]
    BY <1>2
  <2>3. QED
    BY <1>3, <2>1, <2>2 DEF Ordered
<1>4. QED
  BY <1>1, <1>3 DEF Ordered

LEMMA AppendNews ==
    ASSUME NEW q \in Seq(Message), NEW m \in Message, NEW x, NEW F, NEW G, G \subseteq F,
           NewsOf(q, x, F),
           \A p \in Client, j \in 1..Len(q) : Adds(m, p) => ~Says(q[j], p),
           \A p \in G : ~Names(m, p),
           m.cmd = "peer_list" => x \in m.peers
    PROVE  NewsOf(Append(q, m), x, G)
<1>1. PICK r : r = Append(q, m)
  OBVIOUS
<1>2. /\ Len(q) \in Nat /\ Len(r) = Len(q) + 1
      /\ \A i \in 1..Len(q) : r[i] = q[i]
      /\ r[Len(q) + 1] = m
  BY <1>1, AppendParts
<1>3. \A k \in 1..Len(r) : k \in 1..Len(q) \/ k = Len(q) + 1
  BY <1>2
<1>4. Ordered(r)
  BY <1>1, AppendOrdered DEF NewsOf
<1>5. \A p \in G : \A k \in 1..Len(r) : ~Names(r[k], p)
  BY <1>2, <1>3 DEF NewsOf
<1>6. \A k \in 1..Len(r) : r[k].cmd = "peer_list" => x \in r[k].peers
  BY <1>2, <1>3 DEF NewsOf
<1>7. QED
  BY <1>1, <1>4, <1>5, <1>6 DEF NewsOf

LEMMA TailNews ==
    ASSUME NEW q \in Seq(Message), q # <<>>, NEW x, NEW F, NewsOf(q, x, F)
    PROVE  NewsOf(Tail(q), x, F)
<1>1. PICK r : r = Tail(q)
  OBVIOUS
<1>2. Len(q) \in Nat /\ Len(r) = Len(q) - 1 /\ \A i \in 1..Len(r) : r[i] = q[i + 1]
  BY <1>1, TailParts
<1>3. \A k \in 1..Len(r) : k + 1 \in 1..Len(q)
  BY <1>2
<1>4. Ordered(r)
  BY <1>1, TailOrdered DEF NewsOf
<1>5. \A p \in F : \A k \in 1..Len(r) : ~Names(r[k], p)
  BY <1>2, <1>3 DEF NewsOf
<1>6. \A k \in 1..Len(r) : r[k].cmd = "peer_list" => x \in r[k].peers
  BY <1>2, <1>3 DEF NewsOf
<1>7. QED
  BY <1>1, <1>4, <1>5, <1>6 DEF NewsOf

\* A queue without messages.
LEMMA EmptyQueue ==
    ASSUME NEW x, NEW F, NEW M
    PROVE  NewsOf(<<>>, x, F) /\ Told(<<>>, x, {}) /\ ShownBy(<<>>, x, {}, {}, M)
<1>1. PICK q : q = <<>> /\ Len(q) = 0
  BY EmptySeq
<1>2. \A k \in 1..Len(q) : FALSE
  BY <1>1
<1>3. NewsOf(q, x, F)
  BY <1>2 DEF NewsOf, Ordered
<1>4. Told(q, x, {})
  BY <1>2 DEF Told, ToldOf
<1>5. ShownBy(q, x, {}, {}, M)
  BY <1>2 DEF ShownBy, ShownOf
<1>6. QED
  BY <1>1, <1>3, <1>4, <1>5

\* The queue seen from peer p: whether p is in R, a message that says so much of it,
\* or nothing.
LEMMA AppendTold ==
    ASSUME NEW q \in Seq(Message), NEW m \in Message, NEW x, NEW R, NEW S,
           NEW p \in Client \ {x}, Told(q, x, R),
           IsNews(m, p) => (Says(m, p) <=> p \in S), ~IsNews(m, p) => (p \in R <=> p \in S),
           Lone(m, x) => p \notin R,
           NEW r, r = Append(q, m)
    PROVE  ToldOf(r, x, S, p)
<1>2. PICK n \in Nat : n = Len(q)
  BY LenProperties
<1>3. /\ Len(r) = n + 1 /\ r[n + 1] = m
      /\ \A i \in 1..n : r[i] = q[i]
  BY <1>2, AppendParts
<1>4. ASSUME NEW k \in 1..(n + 1), IsNews(r[k], p), NoNews(r, k + 1, n + 1, p)
      PROVE  Says(r[k], p) <=> p \in S
  <2>1. CASE k = n + 1
    BY <1>3, <1>4, <2>1
  <2>2. CASE k # n + 1
    <3>1. k \in 1..n /\ n + 1 \in (k + 1)..(n + 1) /\ \A i \in (k + 1)..n : i \in (k + 1)..(n + 1) /\ i \in 1..n
      BY <2>2
    <3>2. ~IsNews(m, p) /\ NoNews(q, k + 1, n, p)
      BY <1>3, <1>4, <3>1 DEF NoNews
    <3>3. QED
      BY <1>2, <1>3, <1>4, <3>1, <3>2 DEF Told, ToldOf
  <2>3. QED
    BY <2>1, <2>2
<1>5. ASSUME NEW j \in 1..(n + 1), NEW k \in 1..(n + 1), j < k, Lone(r[k], x), IsNews(r[j], p),
             NoNews(r, j + 1, k - 1, p)
      PROVE  ~Says(r[j], p)
  <2>1. j \in 1..n /\ r[j] = q[j]
    BY <1>3, <1>5
  <2>2. \A i \in (j + 1)..(k - 1) : i \in 1..n
    BY <1>5
  <2>3. NoNews(q, j + 1, k - 1, p)
    BY <1>3, <1>5, <2>2 DEF NoNews
  <2>4. CASE k = n + 1
    <3>1. k - 1 = n
      BY <2>4
    <3>2. Says(q[j], p) <=> p \in R
      BY <1>2, <1>5, <2>1, <2>3, <3>1 DEF Told, ToldOf
    <3>3. QED
      BY <1>3, <1>5, <2>1, <2>4, <3>2
  <2>5. CASE k # n + 1
    BY <1>2, <1>3, <1>5, <2>1, <2>3, <2>5 DEF Told, ToldOf
  <2>6. QED
    BY <2>4, <2>5
<1>6. QED
  BY <1>3, <1>4, <1>5 DEF ToldOf

LEMMA AppendToldAll ==
    ASSUME NEW q \in Seq(Message), NEW m \in Message, NEW x, NEW R, NEW S, Told(q, x, R),
           \A p \in Client \ {x} :
               /\ IsNews(m, p) => (Says(m, p) <=> p \in S)
               /\ ~IsNews(m, p) => (p \in R <=> p \in S)
               /\ Lone(m, x) => p \notin R
    PROVE  Told(Append(q, m), x, S)
<1>1. PICK r : r = Append(q, m)
  OBVIOUS
<1>2. ASSUME NEW p \in Client \ {x}
      PROVE  ToldOf(r, x, S, p)
  BY <1>1, AppendTold
<1>3. QED
  BY <1>1, <1>2 DEF Told

\* The same for the list that is shown.
LEMMA AppendShown ==
    ASSUME NEW q \in Seq(Message), NEW m \in Message, NEW x, NEW R, NEW S, NEW L, NEW M,
           NEW p \in Client \ {x}, ShownBy(q, x, R, L, M),
           ~IsNews(m, p) => (p \in R <=> p \in S),
           Lone(m, x) => p \notin R,
           Adds(m, p) => p \notin M,
           NEW r, r = Append(q, m)
    PROVE  ShownOf(r, x, S, L, M, p)
<1>2. PICK n \in Nat : n = Len(q)
  BY LenProperties
<1>3. /\ Len(r) = n + 1 /\ r[n + 1] = m
      /\ \A i \in 1..n : r[i] = q[i]
  BY <1>2, AppendParts
<1>4. ASSUME NoNews(r, 1, n + 1, p)
      PROVE  p \in L <=> p \in S
  <2>1. \A i \in 1..n : i \in 1..(n + 1)
    OBVIOUS
  <2>2. ~IsNews(m, p) /\ NoNews(q, 1, n, p)
    BY <1>3, <1>4, <2>1 DEF NoNews
  <2>3. QED
    BY <1>2, <2>2 DEF ShownBy, ShownOf
<1>5. ASSUME NEW k \in 1..(n + 1), Lone(r[k], x), NoNews(r, 1, k - 1, p)
      PROVE  p \notin L
  <2>1. \A i \in 1..(k - 1) : i \in 1..n
    OBVIOUS
  <2>2. NoNews(q, 1, k - 1, p)
    BY <1>3, <1>5, <2>1 DEF NoNews
  <2>3. CASE k = n + 1
    <3>1. NoNews(q, 1, n, p)
      BY <2>2, <2>3
    <3>2. QED
      BY <1>2, <1>3, <1>5, <2>3, <3>1 DEF ShownBy, ShownOf
  <2>4. CASE k # n + 1
    BY <1>2, <1>3, <1>5, <2>2, <2>4 DEF ShownBy, ShownOf
  <2>5. QED
    BY <2>3, <2>4
<1>6. ASSUME NEW k \in 1..(n + 1), Adds(r[k], p)
      PROVE  p \notin M
  BY <1>2, <1>3, <1>6 DEF ShownBy, ShownOf
<1>7. QED
  BY <1>3, <1>4, <1>5, <1>6 DEF ShownOf

LEMMA AppendShownAll ==
    ASSUME NEW q \in Seq(Message), NEW m \in Message, NEW x, NEW R, NEW S, NEW L, NEW M,
           ShownBy(q, x, R, L, M),
           \A p \in Client \ {x} : /\ ~IsNews(m, p) => (p \in R <=> p \in S)
                                   /\ Lone(m, x) => p \notin R
                                   /\ Adds(m, p) => p \notin M
    PROVE  ShownBy(Append(q, m), x, S, L, M)
<1>1. PICK r : r = Append(q, m)
  OBVIOUS
<1>2. ASSUME NEW p \in Client \ {x}
      PROVE  ShownOf(r, x, S, L, M, p)
  BY <1>1, AppendShown
<1>3. QED
  BY <1>1, <1>2 DEF ShownBy

\* The first message is handled.
LEMMA TailTold ==
    ASSUME NEW q \in Seq(Message), q # <<>>, NEW x, NEW R, Told(q, x, R)
    PROVE  Told(Tail(q), x, R)
<1>1. PICK r : r = Tail(q)
  OBVIOUS
<1>2. PICK n \in Nat : n = Len(r)
  BY <1>1, TailParts, LenProperties
<1>3. Len(q) = n + 1 /\ \A i \in 1..n : r[i] = q[i + 1]
  BY <1>1, <1>2, TailParts
<1>4. ASSUME NEW p, NEW a \in Nat, NEW b \in Int, b <= n, NoNews(r, a + 1, b, p)
      PROVE  NoNews(q, a + 2, b + 1, p)
  <2>1. ASSUME NEW i \in (a + 2)..(b + 1) PROVE ~IsNews(q[i], p)
    <3>1. i - 1 \in (a + 1)..b /\ i - 1 \in 1..n /\ (i - 1) + 1 = i
      BY <1>4
    <3>2. QED
      BY <1>3, <1>4, <3>1 DEF NoNews
  <2>2. QED
    BY <2>1 DEF NoNews
<1>5. ASSUME NEW p \in Client \ {x}, NEW k \in 1..n, IsNews(r[k], p), NoNews(r, k + 1, n, p)
      PROVE  Says(r[k], p) <=> p \in R
  <2>1. PICK i \in 1..(n + 1) : i = k + 1
    OBVIOUS
  <2>2. NoNews(q, i + 1, n + 1, p)
    <3>1. NoNews(q, k + 2, n + 1, p)
      BY <1>4, <1>5
    <3>2. i + 1 = k + 2
      BY <2>1
    <3>3. QED
      BY <3>1, <3>2
  <2>3. QED
    BY <1>3, <1>5, <2>1, <2>2 DEF Told, ToldOf
<1>6. ASSUME NEW p \in Client \ {x}, NEW j \in 1..n, NEW k \in 1..n, j < k, Lone(r[k], x),
             IsNews(r[j], p), NoNews(r, j + 1, k - 1, p)
      PROVE  ~Says(r[j], p)
  <2>1. PICK i \in 1..(n + 1) : i = j + 1
    OBVIOUS
  <2>2. PICK l \in 1..(n + 1) : l = k + 1
    OBVIOUS
  <2>3. NoNews(q, i + 1, l - 1, p)
    <3>1. NoNews(q, j + 2, (k - 1) + 1, p)
      BY <1>4, <1>6
    <3>2. i + 1 = j + 2 /\ l - 1 = (k - 1) + 1
      BY <2>1, <2>2
    <3>3. QED
      BY <3>1, <3>2
  <2>4. i < l /\ r[j] = q[i] /\ r[k] = q[l]
    BY <1>3, <1>6, <2>1, <2>2
  <2>5. QED
    BY <1>3, <1>6, <2>3, <2>4 DEF Told, ToldOf
<1>7. QED
  BY <1>1, <1>2, <1>5, <1>6 DEF Told, ToldOf

LEMMA TailShown ==
    ASSUME NEW q \in Seq(Message), q # <<>>, NEW x, NEW R, NEW L, NEW M, NEW L2, NEW M2,
           NEW p \in Client \ {x}, Told(q, x, R), Ordered(q),
           IsNews(q[1], p) => (p \in L2 <=> Says(q[1], p)),
           ~IsNews(q[1], p) => (p \in L2 <=> p \in L) /\ ShownBy(q, x, R, L, M),
           p \in M2 => Says(q[1], p) \/ (p \in M /\ ShownBy(q, x, R, L, M)),
           NEW r, r = Tail(q)
    PROVE  ShownOf(r, x, R, L2, M2, p)
<1>1. PICK n \in Nat : n = Len(r)
  BY TailParts, LenProperties
<1>2. Len(q) = n + 1 /\ \A i \in 1..n : r[i] = q[i + 1]
  BY <1>1, TailParts
<1>3. ASSUME NEW b \in Nat, b <= n, NoNews(r, 1, b, p)
      PROVE  NoNews(q, 2, b + 1, p)
  <2>1. ASSUME NEW i \in 2..(b + 1) PROVE ~IsNews(q[i], p)
    <3>1. i - 1 \in 1..b /\ i - 1 \in 1..n /\ (i - 1) + 1 = i
      BY <1>3
    <3>2. QED
      BY <1>2, <1>3, <3>1 DEF NoNews
  <2>2. QED
    BY <2>1 DEF NoNews
<1>4. ASSUME NEW b \in Nat, NoNews(q, 2, b + 1, p), ~IsNews(q[1], p)
      PROVE  NoNews(q, 1, b + 1, p)
  <2>1. ASSUME NEW i \in 1..(b + 1) PROVE ~IsNews(q[i], p)
    <3>1. i = 1 \/ i \in 2..(b + 1)
      OBVIOUS
    <3>2. QED
      BY <1>4, <3>1 DEF NoNews
  <2>2. QED
    BY <2>1 DEF NoNews
<1>5. ASSUME NoNews(r, 1, n, p)
      PROVE  p \in L2 <=> p \in R
  <2>1. NoNews(q, 2, n + 1, p)
    BY <1>3, <1>5
  <2>2. CASE IsNews(q[1], p)
    <3>1. PICK k \in 1..Len(q) : k = 1
      BY <1>2
    <3>2. NoNews(q, k + 1, Len(q), p)
      BY <1>2, <2>1, <3>1
    <3>3. Says(q[1], p) <=> p \in R
      BY <2>2, <3>1, <3>2 DEF Told, ToldOf
    <3>4. QED
      BY <2>2, <3>3
  <2>3. CASE ~IsNews(q[1], p)
    <3>1. NoNews(q, 1, Len(q), p)
      BY <1>2, <1>4, <2>1, <2>3
    <3>2. QED
      BY <2>3, <3>1 DEF ShownBy, ShownOf
  <2>4. QED
    BY <2>2, <2>3
<1>6. ASSUME NEW k \in 1..n, Lone(r[k], x), NoNews(r, 1, k - 1, p)
      PROVE  p \notin L2
  <2>1. PICK b \in Nat : b = k - 1
    OBVIOUS
  <2>2. NoNews(q, 2, b + 1, p)
    BY <1>3, <1>6, <2>1
  <2>3. PICK l \in 1..Len(q) : l = k + 1
    BY <1>2
  <2>4. Lone(q[l], x) /\ l - 1 = b + 1 /\ 1 < l
    BY <1>2, <1>6, <2>1, <2>3
  <2>5. CASE IsNews(q[1], p)
    <3>1. PICK j \in 1..Len(q) : j = 1
      BY <1>2
    <3>2. j < l /\ NoNews(q, j + 1, l - 1, p)
      BY <2>2, <2>4, <3>1
    <3>3. ~Says(q[j], p)
      BY <2>4, <2>5, <3>1, <3>2 DEF Told, ToldOf
    <3>4. QED
      BY <2>5, <3>1, <3>3
  <2>6. CASE ~IsNews(q[1], p)
    <3>1. NoNews(q, 1, l - 1, p)
      BY <1>4, <2>2, <2>4, <2>6
    <3>2. QED
      BY <2>4, <2>6, <3>1 DEF ShownBy, ShownOf
  <2>7. QED
    BY <2>5, <2>6
<1>7. ASSUME NEW k \in 1..n, Adds(r[k], p)
      PROVE  p \notin M2
  <2>1. PICK l \in 1..Len(q) : l = k + 1
    BY <1>2
  <2>2. Adds(q[l], p)
    BY <1>2, <1>7, <2>1
  <2>3. PICK j \in 1..Len(q) : j = 1
    BY <1>2
  <2>4. ~Says(q[j], p)
    BY <2>1, <2>2, <2>3 DEF Ordered
  <2>5. QED
    BY <2>2, <2>3, <2>4 DEF ShownBy, ShownOf
<1>8. QED
  BY <1>1, <1>5, <1>6, <1>7 DEF ShownOf

-----------------------------------------------------------------------------
(* Types *)

LEMMA MessageForms ==
    /\ \A S \in SUBSET Client : [cmd |-> "peer_list", peers |-> S] \in Message
    /\ \A p \in Client : [cmd |-> "add_peer", id |-> p] \in Message
    /\ \A p \in Client : [cmd |-> "del_peer", id |-> p] \in Message
    /\ \A p \in Client, c \in {"offer", "answer", "candidate"} :
          [cmd |-> c, sourceid |-> p] \in Message
  BY DEF Message

LEMMA MessageParts ==
    ASSUME NEW m \in Message
    PROVE  /\ m.cmd = "peer_list" => m.peers \subseteq Client
           /\ m.cmd \in {"add_peer", "del_peer"} => m.id \in Client
           /\ m.cmd \in {"offer", "answer", "candidate"} => m.sourceid \in Client
<1>1. CASE m \in [cmd : {"peer_list"}, peers : SUBSET Client]
  BY <1>1
<1>2. CASE m \in [cmd : {"add_peer", "del_peer"}, id : Client]
  BY <1>2
<1>3. CASE m \in [cmd : {"offer", "answer", "candidate"}, sourceid : Client]
  BY <1>3
<1>4. QED
  BY <1>1, <1>2, <1>3 DEF Message

LEMMA ClientParts ==
    ASSUME NEW c \in Client
    PROVE  c[1] \in Device /\ c[2] \in 1..MaxSessions /\ c[2] \in Nat /\ c = <<c[1], c[2]>>
  BY RtcAssumption DEF Client

LEMMA MeParts ==
    ASSUME TypeOK, NEW d \in Device
    PROVE  /\ session[d] \in Nat /\ session[d] <= MaxSessions
           /\ session[d] > 0 => Me(d) \in Client
           /\ Me(d)[1] = d /\ Me(d)[2] = session[d]
<1>1. trial.sessions[d] \in 0..MaxSessions
  BY RtcAssumption DEF TypeOK
<1>2. session[d] \in Nat /\ session[d] <= trial.sessions[d]
  BY DEF TypeOK
<1>3. QED
  BY <1>1, <1>2, RtcAssumption DEF Me, Client

Sdp == {"offer", "answer"}

LEMMA AgentTypes ==
    /\ NoAgent \in Agent /\ NewAgent \in Agent /\ NoAgent.creating = <<>> /\ ~NoAgent.gathering
    /\ \A a \in Agent, sdp \in Sdp :
          /\ createDataChannel(a, sdp) \in Agent
          /\ setRemoteDescription(a, sdp) \in Agent
          /\ setLocalDescription(a, sdp) \in Agent
          /\ processMessage(a, sdp) \in Agent
    /\ \A a \in Agent : processMessage(a, "candidate") \in Agent
<1>1. NoAgent \in Agent /\ NewAgent \in Agent /\ NoAgent.creating = <<>> /\ ~NoAgent.gathering
  BY EmptySeq DEF NoAgent, NewAgent, Agent
<1>2. ASSUME NEW a \in Agent, NEW sdp \in Sdp PROVE createDataChannel(a, sdp) \in Agent
  <2>1. Append(a.creating, sdp) \in Seq(Sdp)
    BY AppendProperties DEF Agent, Sdp
  <2>2. QED
    BY <2>1 DEF createDataChannel, Agent, Sdp
<1>3. ASSUME NEW a \in Agent, NEW sdp \in Sdp PROVE setRemoteDescription(a, sdp) \in Agent
  <2>1. [a EXCEPT !.pc = "remoteOffer"] \in Agent /\ [a EXCEPT !.pc = "stable"] \in Agent
    BY DEF Agent
  <2>2. CASE sdp = "offer" /\ a.pc \in {"new", "stable", "remoteOffer"}
    BY <2>1, <2>2 DEF setRemoteDescription
  <2>3. CASE sdp = "answer" /\ a.pc = "localOffer"
    BY <2>1, <2>3 DEF setRemoteDescription
  <2>4. CASE /\ ~(sdp = "offer" /\ a.pc \in {"new", "stable", "remoteOffer"})
             /\ ~(sdp = "answer" /\ a.pc = "localOffer")
    BY <2>4 DEF setRemoteDescription
  <2>5. QED
    BY <2>2, <2>3, <2>4
<1>4. ASSUME NEW a \in Agent, NEW sdp \in Sdp PROVE setLocalDescription(a, sdp) \in Agent
  <2>1. /\ [a EXCEPT !.pc = "localOffer", !.gathering = TRUE] \in Agent
        /\ [a EXCEPT !.pc = "stable", !.gathering = TRUE] \in Agent
    BY DEF Agent
  <2>2. CASE sdp = "offer" /\ a.pc \in {"new", "stable", "localOffer"}
    BY <2>1, <2>2 DEF setLocalDescription
  <2>3. CASE sdp = "answer" /\ a.pc = "remoteOffer"
    BY <2>1, <2>3 DEF setLocalDescription
  <2>4. CASE /\ ~(sdp = "offer" /\ a.pc \in {"new", "stable", "localOffer"})
             /\ ~(sdp = "answer" /\ a.pc = "remoteOffer")
    BY <2>4 DEF setLocalDescription
  <2>5. QED
    BY <2>2, <2>3, <2>4
<1>5. ASSUME NEW a \in Agent, NEW sdp \in Sdp PROVE processMessage(a, sdp) \in Agent
  BY <1>2, <1>3 DEF processMessage, processSessionDescription, Sdp
<1>6. \A a \in Agent : processMessage(a, "candidate") \in Agent
  BY DEF processMessage
<1>7. QED
  BY <1>1, <1>2, <1>3, <1>4, <1>5, <1>6

\* One agent of one device is replaced.
LEMMA AgentSet ==
    ASSUME TypeOK, NEW d \in Device, NEW c \in Client, NEW v \in Agent,
           mRtcAgentMap' = [mRtcAgentMap EXCEPT ![d][c] = v]
    PROVE  /\ mRtcAgentMap' \in [Device -> [Client -> Agent]]
           /\ mRtcAgentMap'[d][c] = v
           /\ \A e \in Device, x \in Client : e # d \/ x # c => mRtcAgentMap'[e][x] = mRtcAgentMap[e][x]
  BY DEF TypeOK

-----------------------------------------------------------------------------
(* The server's queues *)

AddMessage(c) == [cmd |-> "add_peer", id |-> c]
DelMessage(c) == [cmd |-> "del_peer", id |-> c]
ListMessage(S) == [cmd |-> "peer_list", peers |-> S]

\* Queues after c has registered, after it has gone, and after it was sent something
\* by another client.
Joined(c) ==
    /\ inbox'[c] = Append(inbox[c], ListMessage(room'))
    /\ \A x \in Client \ {c} :
          inbox'[x] = IF x \in room /\ c \notin room
                      THEN Append(inbox[x], AddMessage(c)) ELSE inbox[x]

Left(c) ==
    /\ inbox'[c] = <<>> \/ inbox'[c] = inbox[c]
    /\ \A x \in Client \ {c} :
          inbox'[x] = IF x \in room /\ c \in room
                      THEN Append(inbox[x], DelMessage(c)) ELSE inbox[x]

Sent(c) ==
    /\ \/ inbox'[c] = inbox[c]
       \/ /\ c \in room
          /\ \E m \in Message : /\ m.cmd \in {"offer", "answer", "candidate"}
                                /\ inbox'[c] = Append(inbox[c], m)
    /\ \A x \in Client \ {c} : inbox'[x] = inbox[x]

QueueTypes == inbox' \in [Client -> Seq(Message)]

LEMMA QueuesTyped ==
    ASSUME TypeOK, inbox' = [x \in Client |-> inbox'[x]],
           \A x \in Client : \/ inbox'[x] \in {<<>>, inbox[x]}
                             \/ \E m \in Message : inbox'[x] = Append(inbox[x], m)
    PROVE  QueueTypes
<1>1. \A x \in Client : inbox[x] \in Seq(Message)
  BY DEF TypeOK
<1>2. ASSUME NEW x \in Client PROVE inbox'[x] \in Seq(Message)
  <2>1. PICK q \in Seq(Message) : q = inbox[x]
    BY <1>1
  <2>2. CASE inbox'[x] \in {<<>>, inbox[x]}
    BY <2>1, <2>2, EmptySeq
  <2>3. CASE \E m \in Message : inbox'[x] = Append(inbox[x], m)
    BY <2>1, <2>3, AppendProperties
  <2>4. QED
    BY <2>2, <2>3
<1>3. QED
  BY <1>2 DEF QueueTypes

LEMMA JoinStep ==
    ASSUME TypeOK, NEW c \in Client, Join(c)
    PROVE  QueueTypes /\ Joined(c) /\ room' = room \cup {c} /\ room' \subseteq Client
<1>1. room' = room \cup {c} /\ room' \subseteq Client
  BY DEF Join, TypeOK
<1>2. inbox' = [x \in Client |->
                    CASE x = c -> Append(inbox[x], ListMessage(room'))
                      [] x \in room \ {c} /\ c \notin room -> Append(inbox[x], AddMessage(c))
                      [] OTHER -> inbox[x]]
  BY Zenon DEF Join, ListMessage, AddMessage
<1>3. inbox'[c] = Append(inbox[c], ListMessage(room'))
  BY <1>2
<1>4. ASSUME NEW x \in Client \ {c}
      PROVE  inbox'[x] = IF x \in room /\ c \notin room
                         THEN Append(inbox[x], AddMessage(c)) ELSE inbox[x]
  <2>1. CASE x \in room /\ c \notin room
    BY <1>2, <2>1
  <2>2. CASE ~(x \in room /\ c \notin room)
    BY <1>2, <2>2
  <2>3. QED
    BY <2>1, <2>2
<1>5. ListMessage(room') \in Message /\ AddMessage(c) \in Message
  BY <1>1, MessageForms DEF ListMessage, AddMessage
<1>6. inbox' = [x \in Client |-> inbox'[x]]
  BY <1>2
<1>7. \A x \in Client : \/ inbox'[x] \in {<<>>, inbox[x]}
                        \/ \E m \in Message : inbox'[x] = Append(inbox[x], m)
  BY <1>3, <1>4, <1>5
<1>8. QED
  BY <1>1, <1>3, <1>4, <1>6, <1>7, QueuesTyped DEF Joined

LEMMA LeaveStep ==
    ASSUME TypeOK, NEW c \in Client, Leave(c)
    PROVE  QueueTypes /\ Left(c) /\ room' = room \ {c} /\ room' \subseteq Client
<1>1. room' = room \ {c} /\ room' \subseteq Client
  BY DEF Leave, TypeOK
<1>2. inbox' = [x \in Client |->
                    CASE x = c -> IF ws'[c] = "closed" THEN <<>> ELSE inbox[x]
                      [] x \in room \ {c} /\ c \in room -> Append(inbox[x], DelMessage(c))
                      [] OTHER -> inbox[x]]
  BY Zenon DEF Leave, DelMessage
<1>3. inbox'[c] = <<>> \/ inbox'[c] = inbox[c]
  BY <1>2
<1>4. ASSUME NEW x \in Client \ {c}
      PROVE  inbox'[x] = IF x \in room /\ c \in room
                         THEN Append(inbox[x], DelMessage(c)) ELSE inbox[x]
  <2>1. CASE x \in room /\ c \in room
    BY <1>2, <2>1
  <2>2. CASE ~(x \in room /\ c \in room)
    BY <1>2, <2>2
  <2>3. QED
    BY <2>1, <2>2
<1>5. DelMessage(c) \in Message
  BY MessageForms DEF DelMessage
<1>6. inbox' = [x \in Client |-> inbox'[x]]
  BY <1>2
<1>7. \A x \in Client : \/ inbox'[x] \in {<<>>, inbox[x]}
                        \/ \E m \in Message : inbox'[x] = Append(inbox[x], m)
  BY <1>3, <1>4, <1>5
<1>8. QED
  BY <1>1, <1>3, <1>4, <1>6, <1>7, QueuesTyped DEF Left

LEMMA SendStep ==
    ASSUME TypeOK, NEW d \in Device, NEW c \in Client, NEW cmd \in {"offer", "answer", "candidate"},
           sendToPeer(d, c, cmd)
    PROVE  QueueTypes /\ Sent(c)
<1>1. inbox \in [Client -> Seq(Message)] /\ room \subseteq Client
  BY DEF TypeOK
<1>2. CASE inbox' = inbox
  BY <1>1, <1>2 DEF QueueTypes, Sent
<1>3. CASE inbox' # inbox
  <2>1. /\ {Me(d), c} \subseteq room
        /\ inbox' = [inbox EXCEPT ![c] = Append(@, [cmd |-> cmd, sourceid |-> Me(d)])]
    BY <1>3 DEF sendToPeer
  <2>2. PICK m \in Message : m = [cmd |-> cmd, sourceid |-> Me(d)]
    BY <1>1, <2>1, MessageForms
  <2>3. /\ inbox'[c] = Append(inbox[c], m) /\ m.cmd = cmd
        /\ \A x \in Client \ {c} : inbox'[x] = inbox[x]
        /\ inbox' = [x \in Client |-> inbox'[x]]
    BY <1>1, <2>1, <2>2
  <2>4. Sent(c)
    BY <2>1, <2>3 DEF Sent
  <2>5. QueueTypes
    BY <2>3, QueuesTyped
  <2>6. QED
    BY <2>4, <2>5
<1>4. QED
  BY <1>2, <1>3

-----------------------------------------------------------------------------
(* Types and the factory *)

LEMMA OpenIsCurrent ==
    ASSUME RtcInv, NEW c \in Client, ws[c] # "none"
    PROVE  c[1] \in Device /\ session[c[1]] > 0 /\ c[2] <= session[c[1]] /\ Me(c[1]) \in Client
<1>1. TypeOK /\ SocketInv
  BY DEF RtcInv
<1>2. c[1] \in Device /\ c[2] \in 1..MaxSessions /\ c[2] <= session[c[1]]
  BY <1>1, ClientParts DEF SocketInv
<1>3. session[c[1]] \in Nat
  BY <1>1, <1>2, MeParts
<1>4. session[c[1]] > 0
  BY <1>2, <1>3, RtcAssumption
<1>5. QED
  BY <1>1, <1>2, <1>4, MeParts

LEMMA RegisterStep ==
    ASSUME RtcInv, NEW c \in Client, onOpen(c)
    PROVE  /\ Me(c[1]) \in Client
           /\ \/ ws'[Me(c[1])] = "open" /\ Join(Me(c[1]))
              \/ ws'[Me(c[1])] # "open" /\ room' = room /\ inbox' = inbox
<1>1. Me(c[1]) \in Client
  BY OpenIsCurrent DEF onOpen
<1>2. QED
  BY <1>1 DEF onOpen, register

LEMMA SignallingTypes ==
    ASSUME RtcInv, trial' = trial, NEW d \in Device, onCreate(d) \/ onDestroy(d)
    PROVE  TypeOK' /\ agents' = agents
<1>0. TypeOK
  BY DEF RtcInv
<1>1. CASE onCreate(d)
  <2>0. agents' = agents /\ mPeerMap' = mPeerMap /\ room' = room /\ inbox' = inbox
    BY <1>1 DEF onCreate, agents
  <2>1. activities' \in [Device -> 0..trial.activities]
    <3>1. trial.activities \in Nat /\ activities[d] \in 0..trial.activities
      BY <1>0, RtcAssumption DEF TypeOK
    <3>2. activities[d] + 1 \in 0..trial.activities
      BY <1>1, <3>1 DEF onCreate
    <3>3. QED
      BY <1>0, <1>1, <3>2 DEF TypeOK, onCreate
  <2>2. mPeerList' \in [Device -> SUBSET Client]
    BY <1>0, <1>1 DEF TypeOK, onCreate
  <2>3. CASE UNCHANGED <<mSignallingState, session, ws, late>>
    BY <1>0, <2>0, <2>1, <2>2, <2>3 DEF TypeOK, agents
  <2>4. CASE /\ session[d] < trial.sessions[d]
             /\ session' = [session EXCEPT ![d] = @ + 1]
             /\ ws' = [ws EXCEPT ![<<d, session[d] + 1>>] = "connecting"]
             /\ mSignallingState' = [mSignallingState EXCEPT ![d] = "CONNECTING"]
             /\ late' = [late EXCEPT ![d] = FALSE]
    <3>1. session[d] \in Nat /\ trial.sessions[d] \in Nat
      BY <1>0, MeParts, RtcAssumption DEF TypeOK
    <3>2. session' \in [Device -> Nat] /\ \A e \in Device : session'[e] <= trial.sessions[e]
      BY <1>0, <2>4, <3>1 DEF TypeOK
    <3>3. ws' \in [Client -> {"none", "connecting", "open", "closing", "closed"}]
      BY <1>0, <2>4 DEF TypeOK
    <3>4. mSignallingState' \in [Device -> {"IDLE", "CONNECTING", "REGISTERED", "CLOSED"}]
      BY <1>0, <2>4 DEF TypeOK
    <3>5. late' \in [Device -> BOOLEAN]
      BY <1>0, <2>4 DEF TypeOK
    <3>6. QED
      BY <1>0, <2>0, <2>1, <2>2, <3>2, <3>3, <3>4, <3>5 DEF TypeOK, agents
  <2>5. QED
    BY <1>1, <2>3, <2>4 DEF onCreate, initialize
<1>2. CASE onDestroy(d)
  <2>1. activities' \in [Device -> 0..trial.activities]
    <3>1. trial.activities \in Nat /\ activities[d] \in 0..trial.activities
      BY <1>0, RtcAssumption DEF TypeOK
    <3>2. activities[d] - 1 \in 0..trial.activities
      BY <1>2, <3>1 DEF onDestroy
    <3>3. QED
      BY <1>0, <1>2, <3>2 DEF TypeOK, onDestroy
  <2>2. mSignallingState' \in [Device -> {"IDLE", "CONNECTING", "REGISTERED", "CLOSED"}]
    BY <1>0, <1>2 DEF TypeOK, onDestroy, destroy
  <2>3. ws' \in [Client -> {"none", "connecting", "open", "closing", "closed"}]
    BY <1>0, <1>2 DEF TypeOK, onDestroy, destroy
  <2>4. QED
    BY <1>0, <1>2, <2>1, <2>2, <2>3 DEF TypeOK, onDestroy, agents
<1>3. QED
  BY <1>1, <1>2

LEMMA ServerTypes ==
    ASSUME RtcInv, trial' = trial, NEW c \in Client, onOpen(c) \/ onClose(c) \/ HttpDelete(c)
    PROVE  TypeOK' /\ agents' = agents
<1>0. TypeOK /\ c[1] \in Device
  BY ClientParts DEF RtcInv
<1>1. CASE onOpen(c)
  <2>1. QueueTypes /\ room' \subseteq Client
    BY <1>0, <1>1, RegisterStep, JoinStep DEF TypeOK, QueueTypes
  <2>2. ws' \in [Client -> {"none", "connecting", "open", "closing", "closed"}]
    BY <1>0, <1>1 DEF TypeOK, onOpen
  <2>3. mSignallingState' \in [Device -> {"IDLE", "CONNECTING", "REGISTERED", "CLOSED"}]
    BY <1>0, <1>1 DEF TypeOK, onOpen, register
  <2>4. QED
    BY <1>0, <1>1, <2>1, <2>2, <2>3 DEF TypeOK, onOpen, agents, QueueTypes
<1>2. CASE onClose(c)
  <2>1. QueueTypes /\ room' \subseteq Client
    BY <1>0, <1>2, LeaveStep DEF onClose
  <2>2. ws' \in [Client -> {"none", "connecting", "open", "closing", "closed"}]
    BY <1>0, <1>2 DEF TypeOK, onClose
  <2>3. mSignallingState' \in [Device -> {"IDLE", "CONNECTING", "REGISTERED", "CLOSED"}]
    BY <1>0, <1>2 DEF TypeOK, onClose
  <2>4. QED
    BY <1>0, <1>2, <2>1, <2>2, <2>3 DEF TypeOK, onClose, agents, QueueTypes
<1>3. CASE HttpDelete(c)
  <2>1. QueueTypes /\ room' \subseteq Client
    BY <1>0, <1>3, LeaveStep DEF HttpDelete
  <2>2. QED
    BY <1>0, <1>3, <2>1 DEF TypeOK, HttpDelete, agents, signalling, QueueTypes
<1>4. QED
  BY <1>1, <1>2, <1>3

LEMMA ClickTypes ==
    ASSUME RtcInv, trial' = trial, NEW d \in Device, NEW c \in Client, onItemClick(d, c)
    PROVE  TypeOK' /\ FactoryOutlivesAgents'
<1>0. TypeOK /\ FactoryOutlivesAgents
  BY DEF RtcInv
<1>1. PICK v \in Agent : v = createDataChannel(NewAgent, "offer")
  BY AgentTypes DEF Sdp
<1>2. /\ mRtcAgentMap' = [mRtcAgentMap EXCEPT ![d][c] = v]
      /\ factory' = [factory EXCEPT ![d] = "live"]
      /\ UNCHANGED <<signalling, server>>
  BY <1>1 DEF onItemClick, createChannel, initFactory
<1>3. /\ mRtcAgentMap' \in [Device -> [Client -> Agent]]
      /\ \A e \in Device, x \in Client : e # d => mRtcAgentMap'[e][x] = mRtcAgentMap[e][x]
  BY <1>0, <1>2, AgentSet
<1>4. /\ factory' \in [Device -> {"none", "live", "disposed"}] /\ factory'[d] = "live"
      /\ \A e \in Device : e # d => factory'[e] = factory[e]
  BY <1>0, <1>2 DEF TypeOK
<1>5. TypeOK'
  BY <1>0, <1>2, <1>3, <1>4 DEF TypeOK, signalling, server
<1>6. QED
  BY <1>0, <1>3, <1>4, <1>5 DEF FactoryOutlivesAgents

\* A description has been created, or candidates are there: there is an agent.
LEMMA DescriptionTypes ==
    ASSUME RtcInv, trial' = trial, NEW d \in Device, NEW c \in Client,
           onCreateSuccess(d, c) \/ onIceCandidate(d, c)
    PROVE  TypeOK' /\ FactoryOutlivesAgents' /\ QueueTypes /\ Sent(c)
<1> DEFINE a == mRtcAgentMap[d][c]
<1>0. TypeOK /\ FactoryOutlivesAgents
  BY DEF RtcInv
<1>1. a \in Agent
  BY <1>0 DEF TypeOK
<1>2. a # NoAgent
  BY AgentTypes DEF onCreateSuccess, onIceCandidate
<1>3. factory[d] = "live"
  BY <1>0, <1>2 DEF FactoryOutlivesAgents
<1>4. /\ UNCHANGED <<signalling, factory, ws, room>>
      /\ \E v \in Agent : mRtcAgentMap' = [mRtcAgentMap EXCEPT ![d][c] = v]
      /\ inbox' = inbox \/ \E cmd \in {"offer", "answer", "candidate"} : sendToPeer(d, c, cmd)
  <2>1. CASE onIceCandidate(d, c)
    <3>1. PICK v \in Agent : v = [a EXCEPT !.gathering = FALSE]
      BY <1>1 DEF Agent
    <3>2. mRtcAgentMap' = [mRtcAgentMap EXCEPT ![d][c] = v]
      BY <1>0, <2>1, <3>1 DEF onIceCandidate, TypeOK
    <3>3. QED
      BY <2>1, <3>2 DEF onIceCandidate
  <2>2. CASE onCreateSuccess(d, c)
    <3>1. a.creating \in Seq(Sdp) /\ a.creating # <<>>
      BY <1>1, <2>2 DEF onCreateSuccess, Agent, Sdp
    <3>2. PICK sdp \in Sdp : sdp = Head(a.creating)
      BY <3>1, HeadTailProperties
    <3>3. Tail(a.creating) \in Seq(Sdp)
      BY <3>1, HeadTailProperties
    <3>4. PICK b \in Agent : b = [a EXCEPT !.creating = Tail(@)]
      BY <1>1, <3>3 DEF Agent, Sdp
    <3>5. setLocalDescription(b, sdp) \in Agent
      BY AgentTypes
    <3>6. UNCHANGED <<signalling, factory, ws, room>>
      BY <2>2 DEF onCreateSuccess
    <3>7. \/ mRtcAgentMap' = [mRtcAgentMap EXCEPT ![d][c] = b] /\ inbox' = inbox
          \/ /\ mRtcAgentMap' = [mRtcAgentMap EXCEPT ![d][c] = setLocalDescription(b, sdp)]
             /\ sendToPeer(d, c, sdp)
      BY <2>2, <3>2, <3>4 DEF onCreateSuccess
    <3>8. QED
      BY <3>5, <3>6, <3>7 DEF Sdp
  <2>3. QED
    BY <2>1, <2>2
<1>5. PICK v \in Agent : mRtcAgentMap' = [mRtcAgentMap EXCEPT ![d][c] = v]
  BY <1>4
<1>6. /\ mRtcAgentMap' \in [Device -> [Client -> Agent]]
      /\ \A e \in Device, x \in Client : e # d => mRtcAgentMap'[e][x] = mRtcAgentMap[e][x]
  BY <1>0, <1>5, AgentSet
<1>7. QueueTypes /\ Sent(c)
  BY <1>0, <1>4, SendStep DEF QueueTypes, Sent, TypeOK
<1>8. TypeOK'
  BY <1>0, <1>4, <1>6, <1>7 DEF TypeOK, signalling, QueueTypes
<1>9. FactoryOutlivesAgents'
  BY <1>0, <1>3, <1>4, <1>6 DEF FactoryOutlivesAgents
<1>10. QED
  BY <1>7, <1>8, <1>9

-----------------------------------------------------------------------------
(* Messages *)

\* Whether the list has news from an earlier socket in it, after message m came to c.
LateAfter(c, m) ==
    IF c # Me(c[1]) /\ m.cmd \in {"peer_list", "add_peer", "del_peer"} THEN TRUE
    ELSE IF c = Me(c[1]) /\ m.cmd = "peer_list" /\ m.peers # {c} THEN FALSE
    ELSE late[c[1]]

\* What a message changes, of whatever kind it is.
Heard(c, m) ==
    LET d == c[1] IN
    /\ ws[c] \in {"open", "closing"} /\ inbox[c] # <<>> /\ m = Head(inbox[c])
    /\ inbox' = [inbox EXCEPT ![c] = Tail(@)]
    /\ \A e \in Device : e # d => mPeerMap'[e] = mPeerMap[e] /\ mPeerList'[e] = mPeerList[e]
                                  /\ late'[e] = late[e]
    /\ late'[d] = LateAfter(c, m)
    /\ UNCHANGED <<mSignallingState, session, activities, ws, room>>

\* What it does to the peers of device d.
PeersAfter(d, m) ==
    /\ m.cmd = "peer_list" /\ m.peers \ {Me(d)} # {} =>
          mPeerMap'[d] = m.peers \ {Me(d)} /\ mPeerList'[d] = m.peers \ {Me(d)}
    /\ m.cmd = "add_peer" /\ m.id # Me(d) =>
          /\ mPeerMap'[d] = mPeerMap[d] \cup {m.id}
          /\ mPeerList'[d] = IF m.id \in mPeerMap[d] THEN mPeerList[d]
                             ELSE mPeerList[d] \cup {m.id}
    /\ m.cmd = "del_peer" /\ m.id # Me(d) =>
          mPeerMap'[d] = mPeerMap[d] \ {m.id} /\ mPeerList'[d] = mPeerList[d] \ {m.id}
    /\ \/ m.cmd = "peer_list" /\ m.peers \ {Me(d)} = {}
       \/ m.cmd \in {"add_peer", "del_peer"} /\ m.id = Me(d)
       \/ m.cmd \notin {"peer_list", "add_peer", "del_peer"}
       => mPeerMap'[d] = mPeerMap[d] /\ mPeerList'[d] = mPeerList[d]

PeerTypes == mPeerMap' \in [Device -> SUBSET Client] /\ mPeerList' \in [Device -> SUBSET Client]

LEMMA PeersStep ==
    ASSUME TypeOK, NEW c \in Client, onTextMessage(c), NEW m, m = Head(inbox[c])
    PROVE  /\ PeerTypes /\ PeersAfter(c[1], m) /\ m \in Message
           /\ \A e \in Device : e # c[1] => mPeerMap'[e] = mPeerMap[e] /\ mPeerList'[e] = mPeerList[e]
<1> DEFINE d == c[1]
<1>0. d \in Device
  BY ClientParts
<1>1. mPeerMap \in [Device -> SUBSET Client] /\ mPeerList \in [Device -> SUBSET Client]
  BY DEF TypeOK
<1>2. m \in Message
  BY HeadTailProperties DEF TypeOK, onTextMessage
<1>3. \/ m.cmd = "peer_list" /\ processPeerList(d, m.peers)
      \/ m.cmd = "add_peer" /\ processAddPeer(d, m.id)
      \/ m.cmd = "del_peer" /\ processDelPeer(d, m.id)
      \/ m.cmd \in {"offer", "answer", "candidate"} /\ UNCHANGED <<mPeerMap, mPeerList>>
  BY DEF onTextMessage
<1> HIDE DEF d
<1> DEFINE Goal == /\ PeerTypes /\ PeersAfter(d, m)
                   /\ \A e \in Device : e # d => mPeerMap'[e] = mPeerMap[e] /\ mPeerList'[e] = mPeerList[e]
<1>4. ASSUME mPeerMap' = mPeerMap, mPeerList' = mPeerList,
             \/ m.cmd = "peer_list" /\ m.peers \ {Me(d)} = {}
             \/ m.cmd \in {"add_peer", "del_peer"} /\ m.id = Me(d)
             \/ m.cmd \notin {"peer_list", "add_peer", "del_peer"}
      PROVE  Goal
  BY <1>1, <1>4 DEF PeersAfter, PeerTypes
<1>5. ASSUME m.cmd = "peer_list", processPeerList(d, m.peers)
      PROVE  Goal
  <2>1. CASE m.peers \ {Me(d)} # {}
    <3>1. PICK S \in SUBSET Client : S = m.peers \ {Me(d)}
      BY <1>2, <1>5, MessageParts
    <3>2. mPeerMap' = [mPeerMap EXCEPT ![d] = S] /\ mPeerList' = [mPeerList EXCEPT ![d] = S]
      BY <1>5, <2>1, <3>1 DEF processPeerList, onPeerList
    <3>3. QED
      BY <1>0, <1>1, <1>5, <2>1, <3>1, <3>2 DEF PeersAfter, PeerTypes
  <2>2. CASE m.peers \ {Me(d)} = {}
    BY <1>4, <1>5, <2>2 DEF processPeerList
  <2>3. QED
    BY <2>1, <2>2
<1>6. ASSUME m.cmd = "add_peer", processAddPeer(d, m.id)
      PROVE  Goal
  <2>1. m.id \in Client
    BY <1>2, <1>6, MessageParts
  <2>2. CASE m.id # Me(d)
    <3>1. /\ mPeerMap' = [mPeerMap EXCEPT ![d] = @ \cup {m.id}]
          /\ mPeerList' = IF m.id \in mPeerMap[d] THEN mPeerList
                          ELSE [mPeerList EXCEPT ![d] = @ \cup {m.id}]
      BY <1>6, <2>2 DEF processAddPeer, onAddPeer
    <3>2. mPeerMap' \in [Device -> SUBSET Client] /\ mPeerMap'[d] = mPeerMap[d] \cup {m.id}
          /\ \A e \in Device : e # d => mPeerMap'[e] = mPeerMap[e]
      BY <1>0, <1>1, <2>1, <3>1
    <3>3. mPeerList' \in [Device -> SUBSET Client]
          /\ mPeerList'[d] = (IF m.id \in mPeerMap[d] THEN mPeerList[d] ELSE mPeerList[d] \cup {m.id})
          /\ \A e \in Device : e # d => mPeerList'[e] = mPeerList[e]
      BY <1>0, <1>1, <2>1, <3>1
    <3>4. QED
      BY <1>6, <2>2, <3>2, <3>3 DEF PeersAfter, PeerTypes
  <2>3. CASE m.id = Me(d)
    BY <1>4, <1>6, <2>3 DEF processAddPeer
  <2>4. QED
    BY <2>2, <2>3
<1>7. ASSUME m.cmd = "del_peer", processDelPeer(d, m.id)
      PROVE  Goal
  <2>1. CASE m.id # Me(d)
    <3>1. /\ mPeerMap' = [mPeerMap EXCEPT ![d] = @ \ {m.id}]
          /\ mPeerList' = [mPeerList EXCEPT ![d] = @ \ {m.id}]
      BY <1>7, <2>1 DEF processDelPeer, onDelPeer
    <3>2. QED
      BY <1>0, <1>1, <1>7, <2>1, <3>1 DEF PeersAfter, PeerTypes
  <2>2. CASE m.id = Me(d)
    BY <1>4, <1>7, <2>2 DEF processDelPeer
  <2>3. QED
    BY <2>1, <2>2
<1>8. Goal
  BY <1>3, <1>4, <1>5, <1>6, <1>7
<1>9. QED
  BY <1>2, <1>8 DEF d

LEMMA HeardStep ==
    ASSUME TypeOK, NEW c \in Client, onTextMessage(c), NEW m, m = Head(inbox[c])
    PROVE  Heard(c, m) /\ QueueTypes /\ late' \in [Device -> BOOLEAN]
<1> DEFINE d == c[1]
           v == CASE c # Me(d) /\ m.cmd \in {"peer_list", "add_peer", "del_peer"} -> TRUE
                  [] c = Me(d) /\ m.cmd = "peer_list" /\ m.peers # {c} -> FALSE
                  [] OTHER -> late[d]
<1>0. d \in Device /\ late \in [Device -> BOOLEAN] /\ inbox \in [Client -> Seq(Message)]
  BY ClientParts DEF TypeOK
<1>1. late' = [late EXCEPT ![d] = v]
  BY Zenon DEF onTextMessage
<1>2. v = LateAfter(c, m)
  <2>1. CASE c # Me(d) /\ m.cmd \in {"peer_list", "add_peer", "del_peer"}
    BY <2>1 DEF LateAfter
  <2>2. CASE c = Me(d) /\ m.cmd = "peer_list" /\ m.peers # {c}
    BY <2>2 DEF LateAfter
  <2>3. CASE /\ ~(c # Me(d) /\ m.cmd \in {"peer_list", "add_peer", "del_peer"})
             /\ ~(c = Me(d) /\ m.cmd = "peer_list" /\ m.peers # {c})
    BY <2>3 DEF LateAfter
  <2>4. QED
    BY <2>1, <2>2, <2>3
<1> HIDE DEF v
<1>3. LateAfter(c, m) \in BOOLEAN
  BY <1>0 DEF LateAfter
<1>4. late' \in [Device -> BOOLEAN] /\ late'[d] = LateAfter(c, m)
      /\ \A e \in Device : e # d => late'[e] = late[e]
  BY <1>0, <1>1, <1>2, <1>3
<1>5. /\ ws[c] \in {"open", "closing"} /\ inbox[c] # <<>>
      /\ inbox' = [inbox EXCEPT ![c] = Tail(@)]
      /\ UNCHANGED <<mSignallingState, session, activities, ws, room>>
  BY DEF onTextMessage
<1>6. QueueTypes
  <2>1. Tail(inbox[c]) \in Seq(Message)
    BY <1>0, <1>5, HeadTailProperties
  <2>2. QED
    BY <1>0, <1>5, <2>1 DEF QueueTypes
<1>7. \A e \in Device : e # d => mPeerMap'[e] = mPeerMap[e] /\ mPeerList'[e] = mPeerList[e]
  BY PeersStep
<1>8. QED
  BY <1>4, <1>5, <1>6, <1>7 DEF Heard

LEMMA AgentsHear ==
    ASSUME RtcInv, NEW c \in Client, onTextMessage(c)
    PROVE  /\ mRtcAgentMap' \in [Device -> [Client -> Agent]]
           /\ factory' \in [Device -> {"none", "live", "disposed"}]
           /\ FactoryOutlivesAgents'
<1> DEFINE d == c[1]
           m == Head(inbox[c])
<1>0. TypeOK /\ FactoryOutlivesAgents /\ d \in Device
  BY ClientParts DEF RtcInv
<1>1. m \in Message
  BY <1>0, PeersStep
<1>2. \/ agents' = agents
      \/ m.cmd = "del_peer" /\ m.id \in Client /\ delPeer(d, m.id)
      \/ m.cmd \in {"offer", "answer", "candidate"} /\ c = Me(d) /\ onMiscMsg(c, m)
  BY <1>1, MessageParts DEF onTextMessage, processPeerList, processAddPeer, processDelPeer,
                            onDelPeer, onMiscMsg, agents
<1>3. CASE agents' = agents
  BY <1>0, <1>3 DEF agents, TypeOK, FactoryOutlivesAgents
<1> HIDE DEF m, d
<1>4. CASE m.cmd = "del_peer" /\ m.id \in Client /\ delPeer(d, m.id)
  <2>1. mRtcAgentMap' = [mRtcAgentMap EXCEPT ![d][m.id] = NoAgent]
    BY <1>4 DEF delPeer
  <2>2. /\ mRtcAgentMap' \in [Device -> [Client -> Agent]]
        /\ mRtcAgentMap'[d][m.id] = NoAgent
        /\ \A e \in Device, x \in Client :
              e # d \/ x # m.id => mRtcAgentMap'[e][x] = mRtcAgentMap[e][x]
    <3>1. PICK y \in Client : y = m.id
      BY <1>4
    <3>2. PICK v \in Agent : v = NoAgent
      BY AgentTypes
    <3>3. mRtcAgentMap' = [mRtcAgentMap EXCEPT ![d][y] = v]
      BY <2>1, <3>1, <3>2
    <3>4. /\ mRtcAgentMap' \in [Device -> [Client -> Agent]]
          /\ mRtcAgentMap'[d][y] = v
          /\ \A e \in Device, x \in Client : e # d \/ x # y => mRtcAgentMap'[e][x] = mRtcAgentMap[e][x]
      BY <1>0, <3>3, AgentSet
    <3>5. QED
      BY <3>1, <3>2, <3>4
  <2>3. \/ factory' = factory
        \/ /\ factory' = [factory EXCEPT ![d] = "disposed"]
           /\ \A x \in Client \ {m.id} : mRtcAgentMap[d][x] = NoAgent
    BY <1>4 DEF delPeer
  <2>4. factory' \in [Device -> {"none", "live", "disposed"}]
    BY <1>0, <2>3 DEF TypeOK
  <2>5. ASSUME NEW e \in Device, NEW x \in Client, mRtcAgentMap'[e][x] # NoAgent
        PROVE  factory'[e] = "live"
    <3>1. mRtcAgentMap[e][x] # NoAgent /\ (e # d \/ x # m.id)
      BY <2>2, <2>5
    <3>2. factory[e] = "live"
      BY <1>0, <3>1 DEF FactoryOutlivesAgents
    <3>3. QED
      BY <1>0, <2>3, <3>1, <3>2 DEF TypeOK
  <2>6. QED
    BY <2>2, <2>4, <2>5 DEF FactoryOutlivesAgents
<1>5. CASE m.cmd \in {"offer", "answer", "candidate"} /\ c = Me(d) /\ onMiscMsg(c, m)
  <2>1. m.sourceid \in Client
    BY <1>1, <1>5, MessageParts
  <2>2. PICK a \in Agent :
          a = IF mRtcAgentMap[d][m.sourceid] = NoAgent THEN NewAgent ELSE mRtcAgentMap[d][m.sourceid]
    BY <1>0, <2>1, AgentTypes DEF TypeOK
  <2>3. PICK v \in Agent : v = processMessage(a, m.cmd)
    BY <1>5, AgentTypes DEF Sdp
  <2>4. /\ mRtcAgentMap' = [mRtcAgentMap EXCEPT ![d][m.sourceid] = v]
        /\ factory' = [factory EXCEPT ![d] = "live"]
    BY <1>5, <2>2, <2>3 DEF onMiscMsg, initFactory, d
  <2>5. /\ mRtcAgentMap' \in [Device -> [Client -> Agent]]
        /\ \A e \in Device, x \in Client : e # d => mRtcAgentMap'[e][x] = mRtcAgentMap[e][x]
    BY <1>0, <2>1, <2>4, AgentSet
  <2>6. /\ factory' \in [Device -> {"none", "live", "disposed"}] /\ factory'[d] = "live"
        /\ \A e \in Device : e # d => factory'[e] = factory[e]
    BY <1>0, <2>4 DEF TypeOK
  <2>7. QED
    BY <1>0, <2>5, <2>6 DEF FactoryOutlivesAgents
<1>6. QED
  BY <1>2, <1>3, <1>4, <1>5

LEMMA MessageTypes ==
    ASSUME RtcInv, trial' = trial, NEW c \in Client, onTextMessage(c)
    PROVE  TypeOK' /\ FactoryOutlivesAgents'
<1>0. TypeOK
  BY DEF RtcInv
<1>1. PICK m : m = Head(inbox[c])
  OBVIOUS
<1>2. PeerTypes /\ Heard(c, m) /\ QueueTypes /\ late' \in [Device -> BOOLEAN]
  BY <1>0, <1>1, PeersStep, HeardStep
<1>3. UNCHANGED <<mSignallingState, session, activities, ws, room>>
  BY <1>2 DEF Heard
<1>4. QED
  BY <1>0, <1>2, <1>3, AgentsHear DEF TypeOK, PeerTypes, QueueTypes

-----------------------------------------------------------------------------
(* The steps that touch neither the room nor a queue *)

Others == SocketInv /\ RoomInv /\ NewsInv /\ ShownInv

\* A click.
LEMMA SameKeeps ==
    ASSUME RtcInv, UNCHANGED <<signalling, server>>
    PROVE  Others'
<1>1. /\ session' = session /\ ws' = ws /\ room' = room /\ inbox' = inbox /\ late' = late
      /\ mPeerMap' = mPeerMap /\ mPeerList' = mPeerList /\ mSignallingState' = mSignallingState
  BY DEF signalling, server
<1>2. SocketInv'
  BY <1>1 DEF RtcInv, SocketInv, Me
<1>3. RoomInv' /\ FreshClients' = FreshClients
  BY <1>1 DEF RtcInv, RoomInv, Me, Fresh, FreshClients
<1>4. NewsInv'
  BY <1>1, <1>3 DEF RtcInv, NewsInv
<1>5. ShownInv'
  BY <1>1 DEF RtcInv, ShownInv, ShownFor, Me
<1>6. QED
  BY <1>2, <1>3, <1>4, <1>5 DEF Others

\* No socket becomes fresh or leaves that state by being made: the first socket
\* of a session is one that was not there.
LEMMA CreateKeeps ==
    ASSUME RtcInv, NEW d \in Device, onCreate(d)
    PROVE  Others'
<1>0. TypeOK /\ SocketInv /\ RoomInv /\ NewsInv /\ ShownInv
  BY DEF RtcInv
<1>1. /\ mPeerMap' = mPeerMap /\ room' = room /\ inbox' = inbox
      /\ mPeerList'[d] = {} /\ \A e \in Device \ {d} : mPeerList'[e] = mPeerList[e]
  BY <1>0 DEF onCreate, TypeOK
<1>2. CASE /\ mSignallingState[d] = "CONNECTING"
           /\ UNCHANGED <<mSignallingState, session, ws, late>>
  <2>1. ws[Me(d)] = "connecting"
    BY <1>0, <1>2 DEF SocketInv
  <2>2. SocketInv' /\ RoomInv' /\ FreshClients' = FreshClients
    BY <1>0, <1>1, <1>2 DEF SocketInv, RoomInv, Me, Fresh, FreshClients
  <2>3. NewsInv'
    BY <1>0, <1>1, <2>2 DEF NewsInv
  <2>4. ASSUME NEW e \in Device PROVE ShownFor(e)'
    <3>1. CASE e = d
      BY <1>1, <1>2, <2>1, <3>1 DEF ShownFor, Me
    <3>2. CASE e # d
      <4>1. mPeerList'[e] = mPeerList[e] /\ ShownFor(e)
        BY <1>0, <1>1, <3>2 DEF ShownInv
      <4>2. QED
        BY <1>1, <1>2, <4>1 DEF ShownFor, Me
    <3>3. QED
      BY <3>1, <3>2
  <2>5. QED
    BY <2>2, <2>3, <2>4 DEF Others, ShownInv
<1>3. CASE /\ session[d] < trial.sessions[d]
           /\ session' = [session EXCEPT ![d] = @ + 1]
           /\ ws' = [ws EXCEPT ![<<d, session[d] + 1>>] = "connecting"]
           /\ mSignallingState' = [mSignallingState EXCEPT ![d] = "CONNECTING"]
           /\ late' = [late EXCEPT ![d] = FALSE]
  <2>1. session[d] \in Nat /\ trial.sessions[d] \in 0..MaxSessions
    BY <1>0, MeParts, RtcAssumption DEF TypeOK
  <2>2. PICK c \in Client : c = <<d, session[d] + 1>>
    BY <1>3, <2>1, RtcAssumption DEF Client
  <2>3. c[1] = d /\ c[2] = session[d] + 1
    BY <2>2
  <2>4. ws[c] = "none"
    BY <1>0, <2>1, <2>3 DEF SocketInv
  <2>5. ws'[c] = "connecting" /\ \A x \in Client : x # c => ws'[x] = ws[x]
    BY <1>0, <1>3, <2>2 DEF TypeOK
  <2>6. /\ session'[d] = session[d] + 1 /\ mSignallingState'[d] = "CONNECTING" /\ Me(d)' = c
        /\ \A e \in Device \ {d} : /\ session'[e] = session[e] /\ late'[e] = late[e]
                                   /\ mSignallingState'[e] = mSignallingState[e]
    BY <1>0, <1>3, <2>2 DEF TypeOK, Me
  <2>7. \A x \in Client : Fresh(x)' <=> Fresh(x)
    BY <2>4, <2>5 DEF Fresh
  <2>8. ASSUME NEW e \in Device \ {d}
        PROVE  /\ Me(e)' = Me(e) /\ (session[e] > 0 => Me(e) \in Client /\ ws'[Me(e)] = ws[Me(e)])
               /\ \A n \in 1..session[e] : <<e, n>> \in Client /\ ws'[<<e, n>>] = ws[<<e, n>>]
    <3>1. Me(e)' = Me(e)
      BY <2>6 DEF Me
    <3>2. session[e] \in Nat /\ session[e] <= MaxSessions /\ Me(e)[1] = e
          /\ (session[e] > 0 => Me(e) \in Client)
      BY <1>0, MeParts
    <3>3. session[e] > 0 => ws'[Me(e)] = ws[Me(e)]
      BY <2>3, <2>5, <3>2
    <3>4. ASSUME NEW n \in 1..session[e] PROVE <<e, n>> \in Client /\ ws'[<<e, n>>] = ws[<<e, n>>]
      BY <2>3, <2>5, <3>2, RtcAssumption DEF Client
    <3>5. QED
      BY <3>1, <3>2, <3>3, <3>4
  <2>9. SocketInv'
    <3>1. ASSUME NEW x \in Client, ws'[x] # "none" PROVE x[2] <= session'[x[1]]
      <4>1. x[1] \in Device /\ x[2] \in Nat
        BY ClientParts
      <4>2. session[x[1]] \in Nat
        BY <1>0, <4>1, MeParts
      <4>3. CASE x = c
        BY <2>1, <2>3, <2>6, <4>3
      <4>4. CASE x # c
        <5>1. x[2] <= session[x[1]]
          BY <1>0, <2>5, <3>1, <4>4 DEF SocketInv
        <5>2. QED
          BY <2>1, <2>6, <4>1, <4>2, <5>1
      <4>5. QED
        BY <4>3, <4>4
    <3>2. ASSUME NEW e \in Device, mSignallingState'[e] = "CONNECTING"
          PROVE  session'[e] > 0 /\ ws'[Me(e)'] = "connecting"
      <4>1. CASE e = d
        BY <2>1, <2>5, <2>6, <4>1
      <4>2. CASE e # d
        <5>1. session[e] > 0 /\ ws[Me(e)] = "connecting"
          BY <1>0, <2>6, <3>2, <4>2 DEF SocketInv
        <5>2. QED
          BY <2>6, <2>8, <4>2, <5>1
      <4>3. QED
        BY <4>1, <4>2
    <3>3. ASSUME NEW e \in Device, mSignallingState'[e] = "REGISTERED"
          PROVE  \E n \in 1..session'[e] : ws'[<<e, n>>] = "open"
      <4>1. e # d
        BY <2>6, <3>3
      <4>2. PICK n \in 1..session[e] : ws[<<e, n>>] = "open"
        BY <1>0, <2>6, <3>3, <4>1 DEF SocketInv
      <4>3. QED
        BY <2>6, <2>8, <4>1, <4>2
    <3>4. QED
      BY <3>1, <3>2, <3>3 DEF SocketInv
  <2>10. RoomInv'
    <3>1. ASSUME NEW e \in Device, session'[e] > 0, ws'[Me(e)'] = "open" PROVE Me(e)' \in room
      <4>1. e # d
        BY <2>5, <2>6, <3>1
      <4>2. session[e] > 0 /\ ws[Me(e)] = "open"
        BY <2>6, <2>8, <3>1, <4>1
      <4>3. QED
        BY <1>0, <2>8, <4>1, <4>2 DEF RoomInv
    <3>2. \A x \in room : x \in Client
      BY <1>0 DEF TypeOK
    <3>3. (\A x \in room : ~Fresh(x)') /\ (\A x \in Client : Fresh(x)' => inbox[x] = <<>>)
      BY <1>0, <2>7, <3>2 DEF RoomInv
    <3>4. QED
      BY <1>1, <3>1, <3>3 DEF RoomInv
  <2>11. NewsInv'
    <3>1. FreshClients' = FreshClients
      BY <2>7 DEF FreshClients
    <3>2. QED
      BY <1>0, <1>1, <3>1 DEF NewsInv
  <2>12. ASSUME NEW e \in Device PROVE ShownFor(e)'
    <3>1. CASE e = d
      BY <1>1, <2>5, <2>6, <3>1 DEF ShownFor
    <3>2. CASE e # d
      <4>1. mPeerList'[e] = mPeerList[e] /\ ShownFor(e) /\ session'[e] = session[e] /\ late'[e] = late[e]
        BY <1>0, <1>1, <2>6, <3>2 DEF ShownInv
      <4>2. Me(e)' = Me(e) /\ (session[e] > 0 => ws'[Me(e)] = ws[Me(e)])
        BY <2>8, <3>2
      <4>3. QED
        BY <1>1, <4>1, <4>2 DEF ShownFor
    <3>3. QED
      BY <3>1, <3>2
  <2>13. QED
    BY <2>9, <2>10, <2>11, <2>12 DEF Others, ShownInv
<1>4. QED
  BY <1>2, <1>3 DEF onCreate, initialize

\* What holds of the sockets after one of a device's has been closed.
LEMMA DestroyKeeps ==
    ASSUME RtcInv, NEW d \in Device, onDestroy(d)
    PROVE  Others'
<1>0. TypeOK /\ SocketInv /\ RoomInv /\ NewsInv /\ ShownInv
  BY DEF RtcInv
<1>1. /\ mPeerMap' = mPeerMap /\ room' = room /\ inbox' = inbox /\ mPeerList' = mPeerList
      /\ session' = session /\ late' = late
  BY DEF onDestroy
<1>2. /\ mSignallingState'[d] \in {"IDLE", "CLOSED"}
      /\ \A e \in Device \ {d} : mSignallingState'[e] = mSignallingState[e]
  BY <1>0 DEF onDestroy, destroy, TypeOK
<1>3. \A x \in Client : \/ ws'[x] = ws[x]
                        \/ ws[x] \in {"connecting", "open"} /\ ws'[x] = "closing" /\ x[1] = d
  <2>1. CASE ws' = ws
    BY <2>1
  <2>2. CASE ws' # ws
    <3>1. /\ mSignallingState[d] = "REGISTERED" /\ ws[Me(d)] \in {"connecting", "open"}
          /\ ws' = [ws EXCEPT ![Me(d)] = "closing"]
      BY <2>2 DEF onDestroy, destroy
    <3>2. Me(d)[1] = d
      BY <1>0, MeParts
    <3>3. QED
      BY <1>0, <3>1, <3>2 DEF TypeOK
  <2>3. QED
    BY <2>1, <2>2
<1>4. \A e \in Device : Me(e)' = Me(e) /\ Me(e)[1] = e /\ (session[e] > 0 => Me(e) \in Client)
  BY <1>0, <1>1, MeParts DEF Me
<1>5. SocketInv'
  <2>1. ASSUME NEW x \in Client, ws'[x] # "none" PROVE x[2] <= session'[x[1]]
    BY <1>0, <1>1, <1>3, <2>1 DEF SocketInv
  <2>2. ASSUME NEW e \in Device, mSignallingState'[e] = "CONNECTING"
        PROVE  session'[e] > 0 /\ ws'[Me(e)'] = "connecting"
    <3>1. e # d /\ session[e] > 0 /\ ws[Me(e)] = "connecting"
      BY <1>0, <1>2, <2>2 DEF SocketInv
    <3>2. QED
      BY <1>1, <1>3, <1>4, <3>1
  <2>3. ASSUME NEW e \in Device, mSignallingState'[e] = "REGISTERED"
        PROVE  \E n \in 1..session'[e] : ws'[<<e, n>>] = "open"
    <3>1. e # d
      BY <1>2, <2>3
    <3>2. PICK n \in 1..session[e] : ws[<<e, n>>] = "open"
      BY <1>0, <1>2, <2>3, <3>1 DEF SocketInv
    <3>3. session[e] \in Nat /\ session[e] <= MaxSessions
      BY <1>0, MeParts
    <3>4. PICK y \in Client : y = <<e, n>>
      BY <3>2, <3>3, RtcAssumption DEF Client
    <3>5. y[1] = e
      BY <3>4
    <3>6. QED
      BY <1>1, <1>3, <3>1, <3>2, <3>4, <3>5
  <2>4. QED
    BY <2>1, <2>2, <2>3 DEF SocketInv
<1>6. \A x \in Client : Fresh(x)' => Fresh(x)
  BY <1>3 DEF Fresh
<1>7. RoomInv'
  <2>1. ASSUME NEW e \in Device, session'[e] > 0, ws'[Me(e)'] = "open" PROVE Me(e)' \in room
    BY <1>0, <1>1, <1>3, <1>4, <2>1 DEF RoomInv
  <2>2. \A x \in room : x \in Client
    BY <1>0 DEF TypeOK
  <2>3. (\A x \in room : ~Fresh(x)') /\ (\A x \in Client : Fresh(x)' => inbox[x] = <<>>)
    BY <1>0, <1>6, <2>2 DEF RoomInv
  <2>4. QED
    BY <1>1, <2>1, <2>3 DEF RoomInv
<1>8. NewsInv'
  <2>1. FreshClients' \subseteq FreshClients
    BY <1>6 DEF FreshClients
  <2>2. QED
    BY <1>0, <1>1, <2>1 DEF NewsInv, NewsOf
<1>9. ASSUME NEW e \in Device PROVE ShownFor(e)'
  <2>1. session[e] > 0 => ws'[Me(e)] = ws[Me(e)] \/ ws'[Me(e)] = "closing"
    BY <1>3, <1>4
  <2>2. Me(e)' = Me(e) /\ ShownFor(e)
    BY <1>0, <1>4 DEF ShownInv
  <2>3. QED
    BY <1>1, <2>1, <2>2 DEF ShownFor
<1>10. QED
  BY <1>5, <1>7, <1>8, <1>9 DEF Others, ShownInv

-----------------------------------------------------------------------------
(* The steps that put messages into queues *)

\* A message for an agent is no news.
LEMMA SendKeeps ==
    ASSUME RtcInv, NEW c \in Client, Sent(c), UNCHANGED <<signalling, ws, room>>
    PROVE  Others'
<1>0. TypeOK /\ SocketInv /\ RoomInv /\ NewsInv /\ ShownInv
  BY DEF RtcInv
<1>1. /\ session' = session /\ ws' = ws /\ room' = room /\ late' = late
      /\ mPeerMap' = mPeerMap /\ mPeerList' = mPeerList /\ mSignallingState' = mSignallingState
  BY DEF signalling
<1>2. SocketInv' /\ FreshClients' = FreshClients
  BY <1>0, <1>1 DEF SocketInv, Me, FreshClients, Fresh
<1>3. \A x \in Client : inbox[x] \in Seq(Message)
  BY <1>0 DEF TypeOK
<1>4. ASSUME NEW x \in Client, NEW L, NEW M
      PROVE  /\ NewsOf(inbox[x], x, FreshClients) => NewsOf(inbox'[x], x, FreshClients)
             /\ Told(inbox[x], x, room) => Told(inbox'[x], x, room)
             /\ ShownBy(inbox[x], x, room, L, M) => ShownBy(inbox'[x], x, room, L, M)
             /\ x \notin room => inbox'[x] = inbox[x]
  <2>1. CASE inbox'[x] = inbox[x]
    BY <2>1
  <2>2. CASE inbox'[x] # inbox[x]
    <3>1. x \in room
      BY <2>2 DEF Sent
    <3>2. PICK m \in Message : /\ m.cmd \in {"offer", "answer", "candidate"}
                               /\ inbox'[x] = Append(inbox[x], m)
      BY <2>2 DEF Sent
    <3>3. PICK q \in Seq(Message) : q = inbox[x]
      BY <1>3
    <3>4. \A p : ~IsNews(m, p) /\ ~Adds(m, p) /\ ~Names(m, p)
      BY <3>2 DEF IsNews, Adds, Names, Says
    <3>5. ~Lone(m, x) /\ m.cmd # "peer_list"
      BY <3>2 DEF Lone
    <3>6. NewsOf(q, x, FreshClients) => NewsOf(Append(q, m), x, FreshClients)
      BY <3>4, <3>5, AppendNews
    <3>7. Told(q, x, room) => Told(Append(q, m), x, room)
      BY <3>4, <3>5, AppendToldAll
    <3>8. ShownBy(q, x, room, L, M) => ShownBy(Append(q, m), x, room, L, M)
      BY <3>4, <3>5, AppendShownAll
    <3>9. QED
      BY <3>1, <3>2, <3>3, <3>6, <3>7, <3>8
  <2>3. QED
    BY <2>1, <2>2
<1>5. RoomInv'
  <2>1. \A x \in Client : Fresh(x) => inbox'[x] = <<>>
    BY <1>0, <1>4 DEF RoomInv
  <2>2. QED
    BY <1>0, <1>1, <2>1 DEF RoomInv, Fresh, Me
<1>6. NewsInv'
  BY <1>0, <1>1, <1>2, <1>4 DEF NewsInv
<1>7. ASSUME NEW e \in Device PROVE ShownFor(e)'
  <2>1. ShownFor(e) /\ Me(e)' = Me(e)
    BY <1>0, <1>1 DEF ShownInv, Me
  <2>2. session[e] > 0 => Me(e) \in Client
    BY <1>0, MeParts
  <2>3. QED
    BY <1>1, <1>4, <2>1, <2>2 DEF ShownFor
<1>8. QED
  BY <1>2, <1>5, <1>6, <1>7 DEF Others, ShownInv

\* A client has gone.
LEMMA LeaveKeeps ==
    ASSUME RtcInv, NEW c \in Client, Left(c), room' = room \ {c},
           ws[c] # "none", ws'[c] \in {"closing", "closed"}, \A x \in Client \ {c} : ws'[x] = ws[x],
           UNCHANGED <<session, mPeerMap, mPeerList, late>>
    PROVE  RoomInv' /\ NewsInv' /\ ShownInv'
<1>0. TypeOK /\ SocketInv /\ RoomInv /\ NewsInv /\ ShownInv
  BY DEF RtcInv
<1>1. \A x \in Client : inbox[x] \in Seq(Message)
  BY <1>0 DEF TypeOK
<1>2. room \subseteq Client
  BY <1>0 DEF TypeOK
<1>3. \A x \in Client : Fresh(x)' => Fresh(x) /\ x # c
  BY DEF Fresh
<1>4. PICK F : F = FreshClients'
  OBVIOUS
<1>5. F \subseteq FreshClients /\ c \notin F
  BY <1>3, <1>4 DEF FreshClients
<1>6. PICK m \in Message : m = DelMessage(c)
  BY MessageForms DEF DelMessage
<1>7. /\ \A p : ~Adds(m, p) /\ ~Says(m, p) /\ (IsNews(m, p) <=> p = c) /\ (Names(m, p) <=> p = c)
      /\ \A x : ~Lone(m, x)
      /\ m.cmd # "peer_list"
  BY <1>6 DEF DelMessage, Adds, Says, IsNews, Names, Lone
<1>8. ASSUME NEW x \in Client, x # c
      PROVE  /\ NewsOf(inbox'[x], x, F)
             /\ x \notin room => inbox'[x] = inbox[x]
             /\ x \in room =>
                  /\ Told(inbox[x], x, room) => Told(inbox'[x], x, room')
                  /\ \A L, M : ShownBy(inbox[x], x, room, L, M) => ShownBy(inbox'[x], x, room', L, M)
  <2>0. NewsOf(inbox[x], x, FreshClients)
    BY <1>0 DEF NewsInv
  <2>1. CASE x \in room /\ c \in room
    <3>1. PICK q \in Seq(Message) : q = inbox[x]
      BY <1>1
    <3>2. inbox'[x] = Append(q, m)
      BY <1>6, <1>8, <2>1, <3>1 DEF Left
    <3>3. NewsOf(Append(q, m), x, F)
      BY <1>5, <1>7, <2>0, <3>1, AppendNews
    <3>4. PICK S : S = room'
      OBVIOUS
    <3>5. c \notin S /\ \A p : p # c => (p \in room <=> p \in S)
      BY <3>4
    <3>6. Told(q, x, room) => Told(Append(q, m), x, S)
      BY <1>7, <3>5, AppendToldAll
    <3>7. ASSUME NEW L, NEW M, ShownBy(q, x, room, L, M) PROVE ShownBy(Append(q, m), x, S, L, M)
      BY <1>7, <3>5, <3>7, AppendShownAll
    <3>8. QED
      BY <2>1, <3>1, <3>2, <3>3, <3>4, <3>6, <3>7
  <2>2. CASE ~(x \in room /\ c \in room)
    <3>1. inbox'[x] = inbox[x]
      BY <1>8, <2>2 DEF Left
    <3>2. NewsOf(inbox[x], x, F)
      BY <1>5, <2>0 DEF NewsOf
    <3>3. x \in room => room' = room
      BY <2>2
    <3>4. QED
      BY <3>1, <3>2, <3>3
  <2>3. QED
    BY <2>1, <2>2
<1>9. \A e \in Device : Me(e)' = Me(e) /\ (session[e] > 0 => Me(e) \in Client)
  BY <1>0, MeParts DEF Me
<1>10. RoomInv'
  <2>1. \A x \in room' : ~Fresh(x)'
    BY <1>0, <1>2, <1>3 DEF RoomInv
  <2>2. ASSUME NEW x \in Client, Fresh(x)' PROVE inbox'[x] = <<>>
    <3>1. Fresh(x) /\ x # c
      BY <1>3, <2>2
    <3>2. inbox[x] = <<>> /\ x \notin room
      BY <1>0, <3>1 DEF RoomInv
    <3>3. QED
      BY <1>8, <3>1, <3>2
  <2>3. ASSUME NEW e \in Device, session'[e] > 0, ws'[Me(e)'] = "open" PROVE Me(e)' \in room'
    <3>1. Me(e) \in Client /\ Me(e) # c /\ ws[Me(e)] = "open"
      BY <1>9, <2>3
    <3>2. QED
      BY <1>0, <1>9, <2>3, <3>1 DEF RoomInv
  <2>4. QED
    BY <2>1, <2>2, <2>3 DEF RoomInv
<1>11. NewsInv'
  <2>1. NewsOf(inbox'[c], c, F)
    <3>1. NewsOf(inbox[c], c, FreshClients)
      BY <1>0 DEF NewsInv
    <3>2. NewsOf(inbox[c], c, F)
      BY <1>5, <3>1 DEF NewsOf
    <3>3. NewsOf(<<>>, c, F)
      BY EmptyQueue
    <3>4. QED
      BY <3>2, <3>3 DEF Left
  <2>2. \A x \in Client : NewsOf(inbox'[x], x, F)
    BY <1>8, <2>1
  <2>3. \A d \in Device : mPeerMap'[d] \cap F = {}
    BY <1>0, <1>5 DEF NewsInv
  <2>4. QED
    BY <1>4, <2>2, <2>3 DEF NewsInv
<1>12. ASSUME NEW e \in Device PROVE ShownFor(e)'
  <2>1. ShownFor(e) /\ Me(e)' = Me(e) /\ (session[e] > 0 => Me(e) \in Client)
    BY <1>0, <1>9 DEF ShownInv
  <2>2. session[e] > 0 /\ ws'[Me(e)] = "connecting" => ws[Me(e)] = "connecting"
    BY <2>1
  <2>3. ASSUME session[e] > 0, ws'[Me(e)] = "open"
        PROVE  /\ Told(inbox'[Me(e)], Me(e), room')
               /\ ~late[e] => ShownBy(inbox'[Me(e)], Me(e), room', mPeerList[e], mPeerMap[e])
    <3>1. PICK x \in Client : x = Me(e)
      BY <2>1, <2>3
    <3>2. x # c /\ ws[x] = "open"
      BY <2>3, <3>1
    <3>3. x \in room
      BY <1>0, <2>3, <3>1, <3>2 DEF RoomInv
    <3>4. Told(inbox[x], x, room) /\ (~late[e] => ShownBy(inbox[x], x, room, mPeerList[e], mPeerMap[e]))
      BY <2>1, <2>3, <3>1, <3>2 DEF ShownFor
    <3>5. QED
      BY <1>8, <3>1, <3>2, <3>3, <3>4
  <2>4. QED
    BY <2>1, <2>2, <2>3 DEF ShownFor
<1>13. QED
  BY <1>10, <1>11, <1>12 DEF ShownInv

LEMMA CloseKeeps ==
    ASSUME RtcInv, NEW c \in Client, onClose(c) \/ HttpDelete(c)
    PROVE  Others'
<1>0. TypeOK /\ SocketInv /\ c[1] \in Device
  BY ClientParts DEF RtcInv
<1>1. Left(c) /\ room' = room \ {c}
  BY <1>0, LeaveStep DEF onClose, HttpDelete
<1>2. /\ ws[c] \in {"connecting", "open", "closing"} /\ ws'[c] \in {"closing", "closed"}
      /\ \A x \in Client \ {c} : ws'[x] = ws[x]
  BY <1>0 DEF onClose, HttpDelete, TypeOK
<1>3. UNCHANGED <<session, mPeerMap, mPeerList, late>>
  BY DEF onClose, HttpDelete, signalling
<1>4. RoomInv' /\ NewsInv' /\ ShownInv'
  BY <1>1, <1>2, <1>3, LeaveKeeps
<1>5. /\ \A e \in Device : e # c[1] => mSignallingState'[e] = mSignallingState[e]
      /\ mSignallingState'[c[1]] = "CLOSED" \/ (ws' = ws /\ mSignallingState' = mSignallingState)
  BY <1>0 DEF onClose, HttpDelete, signalling, TypeOK
<1>6. SocketInv'
  <2>1. CASE ws' = ws /\ mSignallingState' = mSignallingState
    BY <1>0, <1>3, <2>1 DEF SocketInv, Me
  <2>2. CASE mSignallingState'[c[1]] = "CLOSED"
    <3>1. ASSUME NEW x \in Client, ws'[x] # "none" PROVE x[2] <= session'[x[1]]
      BY <1>0, <1>2, <1>3, <3>1 DEF SocketInv
    <3>2. ASSUME NEW e \in Device, mSignallingState'[e] = "CONNECTING"
          PROVE  session'[e] > 0 /\ ws'[Me(e)'] = "connecting"
      <4>1. e # c[1] /\ session[e] > 0 /\ ws[Me(e)] = "connecting"
        BY <1>0, <1>5, <2>2, <3>2 DEF SocketInv
      <4>2. Me(e)' = Me(e) /\ Me(e) \in Client /\ Me(e)[1] = e
        BY <1>0, <1>3, <4>1, MeParts DEF Me
      <4>3. QED
        BY <1>2, <1>3, <4>1, <4>2
    <3>3. ASSUME NEW e \in Device, mSignallingState'[e] = "REGISTERED"
          PROVE  \E n \in 1..session'[e] : ws'[<<e, n>>] = "open"
      <4>1. e # c[1]
        BY <2>2, <3>3
      <4>2. PICK n \in 1..session[e] : ws[<<e, n>>] = "open"
        BY <1>0, <1>5, <3>3, <4>1 DEF SocketInv
      <4>3. session[e] \in Nat /\ session[e] <= MaxSessions
        BY <1>0, MeParts
      <4>4. PICK y \in Client : y = <<e, n>>
        BY <4>2, <4>3, RtcAssumption DEF Client
      <4>5. y[1] = e
        BY <4>4
      <4>6. QED
        BY <1>2, <1>3, <4>1, <4>2, <4>4, <4>5
    <3>4. QED
      BY <3>1, <3>2, <3>3 DEF SocketInv
  <2>3. QED
    BY <1>5, <2>1, <2>2
<1>7. QED
  BY <1>4, <1>6 DEF Others

\* A socket has opened, whether or not its device still waits for it.
LEMMA OpenSockets ==
    ASSUME RtcInv, NEW c \in Client, onOpen(c)
    PROVE  SocketInv'
<1>0. TypeOK /\ SocketInv /\ c[1] \in Device
  BY ClientParts DEF RtcInv
<1>1. /\ session' = session /\ ws[c] = "connecting" /\ ws'[c] = "open"
      /\ \A x \in Client \ {c} : ws'[x] = ws[x]
      /\ mSignallingState'[c[1]] = "REGISTERED"
      /\ \A e \in Device : e # c[1] => mSignallingState'[e] = mSignallingState[e]
  BY <1>0 DEF onOpen, register, TypeOK
<1>2. ASSUME NEW x \in Client, ws'[x] # "none" PROVE x[2] <= session'[x[1]]
  BY <1>0, <1>1, <1>2 DEF SocketInv
<1>3. ASSUME NEW e \in Device, mSignallingState'[e] = "CONNECTING"
      PROVE  session'[e] > 0 /\ ws'[Me(e)'] = "connecting"
  <2>1. e # c[1] /\ session[e] > 0 /\ ws[Me(e)] = "connecting"
    BY <1>0, <1>1, <1>3 DEF SocketInv
  <2>2. Me(e)' = Me(e) /\ Me(e) \in Client /\ Me(e)[1] = e
    BY <1>0, <1>1, <2>1, MeParts DEF Me
  <2>3. QED
    BY <1>1, <2>1, <2>2
<1>4. ASSUME NEW e \in Device, mSignallingState'[e] = "REGISTERED"
      PROVE  \E n \in 1..session'[e] : ws'[<<e, n>>] = "open"
  <2>0. session[e] \in Nat /\ session[e] <= MaxSessions
    BY <1>0, MeParts
  <2>1. CASE e = c[1]
    <3>1. PICK n \in Nat : n = c[2]
      BY ClientParts
    <3>2. n \in 1..MaxSessions /\ n <= session[e] /\ c = <<e, n>>
      BY <1>0, <1>1, <2>1, <3>1, ClientParts DEF SocketInv
    <3>3. n \in 1..session[e]
      BY <2>0, <3>2, RtcAssumption
    <3>4. QED
      BY <1>1, <3>2, <3>3
  <2>2. CASE e # c[1]
    <3>1. PICK n \in 1..session[e] : ws[<<e, n>>] = "open"
      BY <1>0, <1>1, <1>4, <2>2 DEF SocketInv
    <3>2. PICK y \in Client : y = <<e, n>>
      BY <2>0, <3>1, RtcAssumption DEF Client
    <3>3. QED
      BY <1>1, <3>1, <3>2
  <2>3. QED
    BY <2>1, <2>2
<1>5. QED
  BY <1>2, <1>3, <1>4 DEF SocketInv

\* The client that registers is new, or has registered before.
LEMMA OpenKeeps ==
    ASSUME RtcInv, NEW c \in Client, onOpen(c)
    PROVE  Others'
<1> DEFINE d == c[1]
<1>0. TypeOK /\ SocketInv /\ RoomInv /\ NewsInv /\ ShownInv /\ d \in Device
  BY ClientParts DEF RtcInv
<1>1. /\ session' = session /\ ws[c] = "connecting" /\ ws'[c] = "open"
      /\ \A y \in Client \ {c} : ws'[y] = ws[y]
      /\ mPeerMap' = mPeerMap /\ mPeerList' = mPeerList /\ late' = late
  BY <1>0 DEF onOpen, TypeOK
<1>2. PICK x \in Client : x = Me(d)
  BY RegisterStep
<1>3. \/ ws'[x] = "open" /\ Join(x)
      \/ ws'[x] # "open" /\ room' = room /\ inbox' = inbox
  BY <1>2, RegisterStep
<1>4. session[d] > 0
  BY <1>1, OpenIsCurrent
<1>5. \A e \in Device : /\ Me(e)' = Me(e) /\ Me(e)[1] = e
                        /\ session[e] > 0 => Me(e) \in Client
  BY <1>0, <1>1, MeParts DEF Me
<1> HIDE DEF d
<1>6. \A e \in Device \ {d} : session[e] > 0 => ws'[Me(e)] = ws[Me(e)] /\ Me(e) # x
  <2>1. x[1] = d /\ c[1] = d
    BY <1>0, <1>2, <1>5 DEF d
  <2>2. QED
    BY <1>1, <1>5, <2>1
<1>7. \A y \in Client : Fresh(y)' => Fresh(y) /\ y # c
  BY <1>1 DEF Fresh
<1>8. PICK F : F = FreshClients'
  OBVIOUS
<1>9. F \subseteq FreshClients
  BY <1>7, <1>8 DEF FreshClients
<1>10. room \subseteq Client /\ \A y \in Client : inbox[y] \in Seq(Message)
  BY <1>0 DEF TypeOK
<1>11. CASE ws'[x] # "open" /\ room' = room /\ inbox' = inbox
  <2>1. x # c /\ ws'[x] = ws[x]
    BY <1>1, <1>11
  <2>2. \A e \in Device : session[e] > 0 => ws'[Me(e)] = ws[Me(e)]
    BY <1>2, <1>6, <2>1
  <2>3. RoomInv'
    <3>1. (\A y \in room : ~Fresh(y)') /\ (\A y \in Client : Fresh(y)' => inbox[y] = <<>>)
      BY <1>0, <1>7, <1>10 DEF RoomInv
    <3>2. \A e \in Device : session[e] > 0 /\ ws'[Me(e)] = "open" => Me(e) \in room
      BY <1>0, <2>2 DEF RoomInv
    <3>3. QED
      BY <1>1, <1>5, <1>11, <3>1, <3>2 DEF RoomInv
  <2>4. NewsInv'
    <3>1. \A y \in Client : NewsOf(inbox[y], y, F)
      BY <1>0, <1>9 DEF NewsInv, NewsOf
    <3>2. \A e \in Device : mPeerMap[e] \cap F = {}
      BY <1>0, <1>9 DEF NewsInv
    <3>3. QED
      BY <1>1, <1>8, <1>11, <3>1, <3>2 DEF NewsInv
  <2>5. ASSUME NEW e \in Device PROVE ShownFor(e)'
    BY <1>0, <1>1, <1>5, <1>11, <2>2 DEF ShownInv, ShownFor
  <2>6. QED
    BY <2>3, <2>4, <2>5, OpenSockets DEF Others, ShownInv
<1>12. CASE ws'[x] = "open" /\ Join(x)
  <2>1. Joined(x) /\ room' = room \cup {x} /\ room' \subseteq Client
    BY <1>0, <1>12, JoinStep
  <2>2. PICK S : S = room'
    OBVIOUS
  <2>3. S = room \cup {x} /\ S \subseteq Client
    BY <2>1, <2>2
  <2>4. x = c \/ (ws[x] = "open" /\ x \in room)
    <3>1. CASE x # c
      BY <1>0, <1>1, <1>2, <1>4, <1>12, <3>1 DEF RoomInv
    <3>2. QED
      BY <3>1
  <2>5. x \notin F /\ (x \notin room => x \in FreshClients)
    BY <1>1, <1>8, <1>12, <2>4 DEF FreshClients, Fresh
  <2>6. \A y \in room : y \notin FreshClients
    BY <1>0, <1>10 DEF RoomInv, FreshClients
  <2>7. PICK m \in Message : m = AddMessage(x)
    BY MessageForms DEF AddMessage
  <2>8. /\ \A p : /\ Adds(m, p) <=> p = x
                  /\ Says(m, p) <=> p = x
                  /\ IsNews(m, p) <=> p = x
                  /\ Names(m, p) <=> p = x
        /\ \A y : ~Lone(m, y)
        /\ m.cmd # "peer_list"
    BY <2>7 DEF AddMessage, Adds, Says, IsNews, Names, Lone
  <2>9. PICK l \in Message : l = ListMessage(S)
    BY <2>3, MessageForms DEF ListMessage
  <2>10. /\ \A p : /\ ~Adds(l, p) /\ IsNews(l, p)
                   /\ Says(l, p) <=> p \in S
                   /\ Names(l, p) <=> p \in S
         /\ Lone(l, x) <=> S \subseteq {x}
         /\ l.cmd = "peer_list" /\ l.peers = S
    BY <2>9 DEF ListMessage, Adds, Says, IsNews, Names, Lone
  <2>11. inbox'[x] = Append(inbox[x], l)
    BY <2>1, <2>2, <2>9 DEF Joined
  <2>12. ASSUME NEW y \in Client, y # x
         PROVE  /\ y \notin room => inbox'[y] = inbox[y]
                /\ y \in room /\ x \notin room => inbox'[y] = Append(inbox[y], m)
                /\ x \in room => inbox'[y] = inbox[y]
    BY <2>1, <2>7, <2>12 DEF Joined
  <2>13. ASSUME NEW y \in Client PROVE NewsOf(inbox'[y], y, F)
    <3>1. PICK q \in Seq(Message) : q = inbox[y]
      BY <1>10
    <3>2. NewsOf(q, y, FreshClients)
      BY <1>0, <3>1 DEF NewsInv
    <3>3. CASE y = x
      <4>1. \A p \in F : ~Names(l, p)
        <5>1. \A p \in F : p \notin S
          BY <1>9, <2>3, <2>5, <2>6
        <5>2. QED
          BY <2>10, <5>1
      <4>2. l.cmd = "peer_list" => y \in l.peers
        BY <2>3, <2>10, <3>3
      <4>3. NewsOf(Append(q, l), y, F)
        BY <1>9, <2>10, <3>2, <4>1, <4>2, AppendNews
      <4>4. QED
        BY <2>11, <3>1, <3>3, <4>3
    <3>4. CASE y # x /\ y \in room /\ x \notin room
      <4>1. \A k \in 1..Len(q) : ~Names(q[k], x)
        BY <2>5, <3>2, <3>4 DEF NewsOf
      <4>2. \A p \in Client, k \in 1..Len(q) : Adds(m, p) => ~Says(q[k], p)
        BY <2>8, <4>1 DEF Names
      <4>3. \A p \in F : ~Names(m, p)
        BY <2>5, <2>8
      <4>4. NewsOf(Append(q, m), y, F)
        BY <1>9, <2>8, <3>2, <4>2, <4>3, AppendNews
      <4>5. QED
        BY <2>12, <3>1, <3>4, <4>4
    <3>5. CASE y # x /\ ~(y \in room /\ x \notin room)
      <4>1. NewsOf(q, y, F)
        BY <1>9, <3>2 DEF NewsOf
      <4>2. QED
        BY <2>12, <3>1, <3>5, <4>1
    <3>6. QED
      BY <3>3, <3>4, <3>5
  <2>14. NewsInv'
    <3>1. \A e \in Device : mPeerMap[e] \cap F = {}
      BY <1>0, <1>9 DEF NewsInv
    <3>2. QED
      BY <1>1, <1>8, <2>13, <3>1 DEF NewsInv
  <2>15. RoomInv'
    <3>1. \A y \in S : ~Fresh(y)'
      <4>1. \A y \in S : y \notin F /\ y \in Client
        BY <1>9, <2>3, <2>5, <2>6
      <4>2. QED
        BY <1>8, <4>1 DEF FreshClients
    <3>2. ASSUME NEW y \in Client, Fresh(y)' PROVE inbox'[y] = <<>>
      <4>1. y \in F
        BY <1>8, <3>2 DEF FreshClients
      <4>2. y \in FreshClients /\ y # x
        BY <1>9, <2>5, <4>1
      <4>3. y \notin room /\ inbox[y] = <<>>
        BY <1>0, <2>6, <4>2 DEF RoomInv, FreshClients
      <4>4. QED
        BY <2>12, <4>2, <4>3
    <3>3. ASSUME NEW e \in Device, session[e] > 0, ws'[Me(e)] = "open" PROVE Me(e) \in S
      <4>1. CASE e = d
        BY <1>2, <2>3, <4>1
      <4>2. CASE e # d
        BY <1>0, <1>6, <2>3, <3>3, <4>2 DEF RoomInv
      <4>3. QED
        BY <4>1, <4>2
    <3>4. QED
      BY <1>1, <1>5, <2>2, <3>1, <3>2, <3>3 DEF RoomInv
  <2>16. ASSUME NEW L, NEW M, NEW e \in Device, L = mPeerList[e], M = mPeerMap[e],
                session[e] > 0, ws'[Me(e)] = "open"
         PROVE  /\ Told(inbox'[Me(e)], Me(e), S)
                /\ ~late[e] => ShownBy(inbox'[Me(e)], Me(e), S, L, M)
    <3>0. PICK y \in Client : y = Me(e)
      BY <1>5, <2>16
    <3>1. PICK q \in Seq(Message) : q = inbox[y]
      BY <1>10
    <3>2. ShownFor(e)
      BY <1>0 DEF ShownInv
    <3>3. CASE e = d /\ x = c
      <4>1. x = y /\ ws[y] = "connecting"
        BY <1>1, <1>2, <3>0, <3>3
      <4>2. q = <<>>
        BY <1>0, <3>1, <4>1 DEF RoomInv, Fresh
      <4>3. Told(q, x, {}) /\ ShownBy(q, x, {}, {}, M)
        BY <4>2, EmptyQueue
      <4>4. Told(Append(q, l), x, S)
        BY <2>10, <4>3, AppendToldAll
      <4>5. ShownBy(Append(q, l), x, S, {}, M)
        BY <2>10, <4>3, AppendShownAll
      <4>6. ~late[e] => L = {}
        BY <2>16, <3>0, <3>2, <4>1 DEF ShownFor
      <4>7. QED
        BY <2>11, <3>0, <3>1, <4>1, <4>4, <4>5, <4>6
    <3>4. CASE e = d /\ x # c
      <4>1. x = y /\ ws[y] = "open" /\ S = room
        BY <1>2, <2>3, <2>4, <3>0, <3>4
      <4>2. Told(q, x, S) /\ (~late[e] => ShownBy(q, x, S, L, M))
        BY <2>16, <3>0, <3>1, <3>2, <4>1 DEF ShownFor
      <4>3. Lone(l, x) => \A p \in Client \ {x} : p \notin S
        BY <2>10
      <4>4. Told(Append(q, l), x, S)
        BY <2>10, <4>2, <4>3, AppendToldAll
      <4>5. ~late[e] => ShownBy(Append(q, l), x, S, L, M)
        BY <2>10, <4>2, <4>3, AppendShownAll
      <4>6. QED
        BY <2>11, <3>0, <3>1, <4>1, <4>4, <4>5
    <3>5. CASE e # d
      <4>1. ws[y] = "open" /\ y # x
        BY <1>6, <2>16, <3>0, <3>5
      <4>2. y \in room
        BY <1>0, <2>16, <3>0, <4>1 DEF RoomInv
      <4>3. Told(q, y, room) /\ (~late[e] => ShownBy(q, y, room, L, M))
        BY <2>16, <3>0, <3>1, <3>2, <4>1 DEF ShownFor
      <4>4. CASE x \in room
        <5>1. S = room /\ inbox'[y] = q
          BY <2>3, <2>12, <3>1, <4>1, <4>4
        <5>2. QED
          BY <3>0, <4>3, <5>1
      <4>5. CASE x \notin room
        <5>1. inbox'[y] = Append(q, m)
          BY <2>12, <3>1, <4>1, <4>2, <4>5
        <5>2. x \notin M
          BY <1>0, <2>5, <2>16, <4>5 DEF NewsInv
        <5>3. x \in S /\ \A p : p # x => (p \in room <=> p \in S)
          BY <2>3
        <5>4. Told(Append(q, m), y, S)
          BY <2>8, <4>3, <5>3, AppendToldAll
        <5>5. ~late[e] => ShownBy(Append(q, m), y, S, L, M)
          BY <2>8, <4>3, <5>2, <5>3, AppendShownAll
        <5>6. QED
          BY <3>0, <5>1, <5>4, <5>5
      <4>6. QED
        BY <4>4, <4>5
    <3>6. QED
      BY <3>3, <3>4, <3>5
  <2>17. ASSUME NEW e \in Device PROVE ShownFor(e)'
    <3>1. ShownFor(e)
      BY <1>0 DEF ShownInv
    <3>2. session[e] > 0 /\ ws'[Me(e)] = "connecting" => ws[Me(e)] = "connecting"
      BY <1>1, <1>5
    <3>3. session[e] > 0 /\ ws'[Me(e)] = "open" =>
            /\ Told(inbox'[Me(e)], Me(e), S)
            /\ ~late[e] => ShownBy(inbox'[Me(e)], Me(e), S, mPeerList[e], mPeerMap[e])
      BY <2>16
    <3>4. QED
      BY <1>1, <1>5, <2>2, <3>1, <3>2, <3>3 DEF ShownFor
  <2>18. QED
    BY <2>14, <2>15, <2>17, OpenSockets DEF Others, ShownInv
<1>13. QED
  BY <1>3, <1>11, <1>12

-----------------------------------------------------------------------------
(* A message is handled *)

\* What the own list is after the own socket has delivered a message, of peer p.
LEMMA OwnNews ==
    ASSUME TypeOK, NEW d \in Device, NEW c \in Client, c = Me(d),
           NEW q \in Seq(Message), q # <<>>, NEW m, m = q[1],
           NewsOf(q, c, FreshClients), Told(q, c, room),
           PeersAfter(d, m), NEW L, L = mPeerList[d], NEW M, M = mPeerMap[d],
           NEW L2, L2 = mPeerList'[d], NEW M2, M2 = mPeerMap'[d],
           (m.cmd = "peer_list" /\ m.peers # {c}) \/ ShownBy(q, c, room, L, M),
           NEW p \in Client \ {c}
    PROVE  ShownOf(Tail(q), c, room, L2, M2, p)
<1>1. Len(q) \in Nat /\ Len(q) > 0 /\ m \in Message
  BY TailParts
<1>2. PICK k \in 1..Len(q) : k = 1
  BY <1>1
<1>3. NoNews(q, 1, k - 1, p) /\ q[k] = m
  BY <1>2 DEF NoNews
<1>4. /\ IsNews(m, p) => (p \in L2 <=> Says(m, p))
      /\ ~IsNews(m, p) => (p \in L2 <=> p \in L) /\ ShownBy(q, c, room, L, M)
      /\ p \in M2 => Says(m, p) \/ (p \in M /\ ShownBy(q, c, room, L, M))
  <2>1. CASE m.cmd = "peer_list" /\ m.peers \ {c} # {}
    <3>1. L2 = m.peers \ {c} /\ M2 = m.peers \ {c}
      BY <2>1 DEF PeersAfter
    <3>2. IsNews(m, p) /\ (Says(m, p) <=> p \in m.peers)
      BY <2>1 DEF IsNews, Says
    <3>3. QED
      BY <3>1, <3>2
  <2>2. CASE m.cmd = "peer_list" /\ m.peers \ {c} = {}
    <3>1. m.peers = {c}
      <4>1. c \in m.peers
        BY <1>2, <1>3, <2>2 DEF NewsOf
      <4>2. QED
        BY <2>2, <4>1
    <3>2. L2 = L /\ M2 = M
      BY <2>2 DEF PeersAfter
    <3>3. ShownBy(q, c, room, L, M)
      BY <3>1
    <3>4. Lone(q[k], c)
      BY <1>3, <2>2, <3>1 DEF Lone
    <3>5. p \notin L
      BY <1>3, <3>3, <3>4 DEF ShownBy, ShownOf
    <3>6. IsNews(m, p) /\ ~Says(m, p)
      BY <2>2, <3>1 DEF IsNews, Says
    <3>7. QED
      BY <3>2, <3>3, <3>5, <3>6
  <2>3. CASE m.cmd = "add_peer"
    <3>1. ShownBy(q, c, room, L, M)
      BY <2>3
    <3>2. (IsNews(m, p) <=> p = m.id) /\ (Says(m, p) <=> p = m.id) /\ (Adds(m, p) <=> p = m.id)
      BY <2>3 DEF IsNews, Says, Adds
    <3>3. p = m.id => p \notin M
      BY <1>3, <3>1, <3>2 DEF ShownBy, ShownOf
    <3>4. CASE m.id # c
      <4>1. M2 = M \cup {m.id} /\ L2 = (IF m.id \in M THEN L ELSE L \cup {m.id})
        BY <2>3, <3>4 DEF PeersAfter
      <4>2. QED
        BY <3>1, <3>2, <3>3, <4>1
    <3>5. CASE m.id = c
      <4>1. M2 = M /\ L2 = L
        BY <2>3, <3>5 DEF PeersAfter
      <4>2. QED
        BY <3>1, <3>2, <3>5, <4>1
    <3>6. QED
      BY <3>4, <3>5
  <2>4. CASE m.cmd = "del_peer"
    <3>1. ShownBy(q, c, room, L, M)
      BY <2>4
    <3>2. (IsNews(m, p) <=> p = m.id) /\ ~Says(m, p)
      BY <2>4 DEF IsNews, Says
    <3>3. CASE m.id # c
      <4>1. M2 = M \ {m.id} /\ L2 = L \ {m.id}
        BY <2>4, <3>3 DEF PeersAfter
      <4>2. QED
        BY <3>1, <3>2, <4>1
    <3>4. CASE m.id = c
      <4>1. M2 = M /\ L2 = L
        BY <2>4, <3>4 DEF PeersAfter
      <4>2. QED
        BY <3>1, <3>2, <3>4, <4>1
    <3>5. QED
      BY <3>3, <3>4
  <2>5. CASE m.cmd \notin {"peer_list", "add_peer", "del_peer"}
    <3>1. M2 = M /\ L2 = L
      BY <2>5 DEF PeersAfter
    <3>2. ~IsNews(m, p)
      BY <2>5 DEF IsNews
    <3>3. QED
      BY <2>5, <3>1, <3>2
  <2>6. QED
    BY <2>1, <2>2, <2>3, <2>4, <2>5
<1>5. PICK r : r = Tail(q)
  OBVIOUS
<1>6. Ordered(q)
  BY DEF NewsOf
<1>7. ShownOf(r, c, room, L2, M2, p)
  BY <1>4, <1>5, <1>6, TailShown
<1>8. QED
  BY <1>5, <1>7

LEMMA HearKeeps ==
    ASSUME RtcInv, NEW c \in Client, onTextMessage(c)
    PROVE  Others'
<1> DEFINE d == c[1]
<1>0. TypeOK /\ SocketInv /\ RoomInv /\ NewsInv /\ ShownInv /\ d \in Device
  BY ClientParts DEF RtcInv
<1>1. PICK m : m = Head(inbox[c])
  OBVIOUS
<1>2. Heard(c, m) /\ PeersAfter(d, m) /\ m \in Message
  BY <1>0, <1>1, HeardStep, PeersStep
<1>3. /\ ws[c] \in {"open", "closing"} /\ inbox[c] # <<>>
      /\ session' = session /\ ws' = ws /\ room' = room /\ mSignallingState' = mSignallingState
      /\ late'[d] = LateAfter(c, m)
      /\ \A e \in Device \ {d} : /\ mPeerMap'[e] = mPeerMap[e] /\ mPeerList'[e] = mPeerList[e]
                                 /\ late'[e] = late[e]
  BY <1>2 DEF Heard
<1>4. PICK q \in Seq(Message) : q = inbox[c] /\ q # <<>> /\ m = q[1]
  <2>1. inbox[c] \in Seq(Message)
    BY <1>0 DEF TypeOK
  <2>2. Head(inbox[c]) = inbox[c][1]
    BY <1>3, <2>1, TailParts
  <2>3. QED
    BY <1>1, <1>3, <2>1, <2>2
<1>5. inbox'[c] = Tail(q) /\ \A x \in Client \ {c} : inbox'[x] = inbox[x]
  BY <1>0, <1>2, <1>4 DEF Heard, TypeOK
<1>6. NewsOf(q, c, FreshClients)
  BY <1>0, <1>4 DEF NewsInv
<1>7. FreshClients' = FreshClients /\ \A x \in Client : Fresh(x)' <=> Fresh(x)
  BY <1>3 DEF FreshClients, Fresh
<1> HIDE DEF d
<1>8. SocketInv'
  BY <1>0, <1>3 DEF SocketInv, Me
<1>9. RoomInv'
  <2>1. ASSUME NEW x \in Client, Fresh(x) PROVE inbox'[x] = <<>>
    <3>1. x # c
      BY <1>3, <2>1 DEF Fresh
    <3>2. QED
      BY <1>0, <1>5, <2>1, <3>1 DEF RoomInv
  <2>2. QED
    BY <1>0, <1>3, <2>1 DEF RoomInv, Fresh, Me
<1>10. NewsInv'
  <2>1. NewsOf(inbox'[c], c, FreshClients)
    BY <1>4, <1>5, <1>6, TailNews
  <2>2. \A x \in Client : NewsOf(inbox'[x], x, FreshClients)
    BY <1>0, <1>5, <2>1 DEF NewsInv
  <2>3. ASSUME NEW e \in Device, NEW p \in mPeerMap'[e], p \in FreshClients PROVE FALSE
    <3>1. p \notin mPeerMap[e]
      BY <1>0, <2>3 DEF NewsInv
    <3>2. e = d
      BY <1>3, <2>3, <3>1
    <3>3. Says(m, p)
      BY <2>3, <3>1, <3>2 , <1>2 DEF PeersAfter, Says
    <3>4. Len(q) \in Nat /\ Len(q) > 0
      BY <1>4, TailParts
    <3>5. PICK k \in 1..Len(q) : k = 1
      BY <3>4
    <3>6. Names(q[k], p)
      BY <1>4, <3>3, <3>5 DEF Names
    <3>7. QED
      BY <1>6, <2>3, <3>6 DEF NewsOf
  <2>4. QED
    BY <1>7, <2>2, <2>3 DEF NewsInv
<1>11. \A e \in Device : Me(e)' = Me(e) /\ Me(e)[1] = e /\ (session[e] > 0 => Me(e) \in Client)
  BY <1>0, <1>3, MeParts DEF Me
<1>12. ASSUME NEW e \in Device, e # d PROVE ShownFor(e)'
  <2>1. ShownFor(e) /\ Me(e)' = Me(e)
    BY <1>0, <1>11 DEF ShownInv
  <2>2. session[e] > 0 => inbox'[Me(e)] = inbox[Me(e)]
    BY <1>5, <1>11, <1>12 DEF d
  <2>3. mPeerMap'[e] = mPeerMap[e] /\ mPeerList'[e] = mPeerList[e] /\ late'[e] = late[e]
    BY <1>3, <1>12
  <2>4. QED
    BY <1>3, <2>1, <2>2, <2>3 DEF ShownFor
<1>13. ShownFor(d)'
  <2>0. ShownFor(d)
    BY <1>0 DEF ShownInv
  <2>1. PICK x : x = Me(d)
    OBVIOUS
  <2>2. x \notin mPeerList'[d]
    BY <1>2, <2>0, <2>1 DEF PeersAfter, ShownFor
  <2>3. CASE x # c
    <3>1. ASSUME ~late'[d]
          PROVE  ~late[d] /\ mPeerMap'[d] = mPeerMap[d] /\ mPeerList'[d] = mPeerList[d]
      <4>1. m.cmd \notin {"peer_list", "add_peer", "del_peer"} /\ ~late[d]
        BY <1>3, <2>1, <2>3, <3>1 DEF LateAfter, d
      <4>2. QED
        BY <1>2, <4>1 DEF PeersAfter
    <3>2. session[d] > 0 => inbox'[x] = inbox[x]
      BY <1>0, <1>5, <1>11, <2>1, <2>3
    <3>3. Me(d)' = x
      BY <1>0, <1>11, <2>1
    <3>4. QED
      BY <1>3, <2>0, <2>1, <2>2, <3>1, <3>2, <3>3 DEF ShownFor
  <2>4. CASE x = c
    <3>1. PICK L : L = mPeerList[d]
      OBVIOUS
    <3>2. PICK M : M = mPeerMap[d]
      OBVIOUS
    <3>3. PICK L2 : L2 = mPeerList'[d]
      OBVIOUS
    <3>4. PICK M2 : M2 = mPeerMap'[d]
      OBVIOUS
    <3>5. ASSUME session[d] > 0, ws[c] = "open"
          PROVE  /\ Told(Tail(q), c, room)
                 /\ ~late'[d] => ShownBy(Tail(q), c, room, L2, M2)
      <4>1. Told(q, c, room) /\ (~late[d] => ShownBy(q, c, room, L, M))
        BY <1>4, <2>0, <2>1, <2>4, <3>1, <3>2, <3>5 DEF ShownFor
      <4>2. Told(Tail(q), c, room)
        BY <1>4, <4>1, TailTold
      <4>3. ASSUME ~late'[d] PROVE ShownBy(Tail(q), c, room, L2, M2)
        <5>1. (m.cmd = "peer_list" /\ m.peers # {c}) \/ ~late[d]
          BY <1>3, <2>1, <2>4, <4>3 DEF LateAfter, d
        <5>2. (m.cmd = "peer_list" /\ m.peers # {c}) \/ ShownBy(q, c, room, L, M)
          BY <4>1, <5>1
        <5>3. ASSUME NEW p \in Client \ {c} PROVE ShownOf(Tail(q), c, room, L2, M2, p)
          BY <1>0, <1>2, <1>4, <1>6, <2>1, <2>4, <3>1, <3>2, <3>3, <3>4, <4>1, <5>2, OwnNews
        <5>4. QED
          BY <5>3 DEF ShownBy
      <4>4. QED
        BY <4>2, <4>3
    <3>6. Me(d)' = c /\ ws[c] # "connecting"
      BY <1>0, <1>3, <1>11, <2>1, <2>4
    <3>7. QED
      BY <1>3, <1>5, <2>1, <2>2, <2>4, <3>3, <3>4, <3>5, <3>6 DEF ShownFor
  <2>5. QED
    BY <2>3, <2>4
<1>14. ShownInv'
  BY <1>12, <1>13 DEF ShownInv
<1>15. QED
  BY <1>8, <1>9, <1>10, <1>14 DEF Others

-----------------------------------------------------------------------------
(* The theorems *)

LEMMA RtcInvInit ==
    ASSUME Init PROVE RtcInv
<1>1. TypeOK
  <2>1. <<>> \in Seq(Message) /\ NoAgent \in Agent
    BY EmptySeq, AgentTypes
  <2>2. \A d \in Device : trial.sessions[d] \in Nat
    <3>1. trial \in Trial
      BY DEF Init
    <3>2. trial.sessions \in [Device -> 0..MaxSessions]
      BY <3>1, RtcAssumption
    <3>3. QED
      BY <3>2, RtcAssumption
  <2>3. trial.activities \in Nat
    BY RtcAssumption DEF Init
  <2>4. session \in [Device -> Nat] /\ \A d \in Device : session[d] <= trial.sessions[d]
    BY <2>2 DEF Init
  <2>5. activities \in [Device -> 0..trial.activities]
    BY <2>3 DEF Init
  <2>6. inbox \in [Client -> Seq(Message)] /\ mRtcAgentMap \in [Device -> [Client -> Agent]]
    BY <2>1 DEF Init
  <2>7. late \in [Device -> BOOLEAN]
    BY DEF Init
  <2>8. QED
    BY <2>4, <2>5, <2>6, <2>7 DEF Init, TypeOK
<1>2. FactoryOutlivesAgents
  BY DEF Init, FactoryOutlivesAgents
<1>3. SocketInv
  BY DEF Init, SocketInv
<1>4. \A d \in Device : session[d] = 0 /\ mPeerList[d] = {} /\ mPeerMap[d] = {}
  BY DEF Init
<1>5. RoomInv
  BY <1>4 DEF Init, RoomInv
<1>6. NewsInv
  <2>1. \A c \in Client : inbox[c] = <<>>
    BY DEF Init
  <2>2. QED
    BY <1>4, <2>1, EmptyQueue DEF NewsInv
<1>7. ShownInv
  <2>1. ASSUME NEW d \in Device PROVE ~(session[d] > 0)
    <3>1. PICK n \in Nat : n = session[d] /\ n = 0
      BY <1>4
    <3>2. ~(n > 0)
      BY <3>1
    <3>3. QED
      BY <3>1, <3>2
  <2>2. QED
    BY <1>4, <2>1 DEF ShownInv, ShownFor
<1>8. QED
  BY <1>1, <1>2, <1>3, <1>5, <1>6, <1>7 DEF RtcInv

LEMMA RtcInvNext ==
    ASSUME RtcInv, [Next]_vars PROVE RtcInv'
<1>0. TypeOK /\ FactoryOutlivesAgents
  BY DEF RtcInv
<1>1. ASSUME TypeOK', FactoryOutlivesAgents', Others' PROVE RtcInv'
  BY <1>1 DEF RtcInv, Others
<1>2. agents' = agents => FactoryOutlivesAgents'
  BY <1>0 DEF agents, FactoryOutlivesAgents
<1>3. CASE UNCHANGED vars
  <2>1. TypeOK' /\ FactoryOutlivesAgents'
    BY <1>0, <1>3 DEF vars, TypeOK, FactoryOutlivesAgents
  <2>2. Others'
    BY <1>3, SameKeeps DEF vars, signalling, server
  <2>3. QED
    BY <1>1, <2>1, <2>2
<1>4. CASE Next
  <2>1. trial' = trial
    BY <1>4 DEF Next
  <2>2. ASSUME NEW d \in Device, onCreate(d) \/ onDestroy(d) PROVE RtcInv'
    BY <1>1, <1>2, <2>1, <2>2, SignallingTypes, CreateKeeps, DestroyKeeps
  <2>3. ASSUME NEW c \in Client, onOpen(c) \/ onClose(c) \/ HttpDelete(c) PROVE RtcInv'
    BY <1>1, <1>2, <2>1, <2>3, ServerTypes, OpenKeeps, CloseKeeps
  <2>4. ASSUME NEW c \in Client, onTextMessage(c) PROVE RtcInv'
    BY <1>1, <2>1, <2>4, MessageTypes, HearKeeps
  <2>5. ASSUME NEW d \in Device, NEW c \in Client, onItemClick(d, c) PROVE RtcInv'
    <3>1. UNCHANGED <<signalling, server>>
      BY <2>5 DEF onItemClick
    <3>2. QED
      BY <1>1, <2>1, <2>5, <3>1, ClickTypes, SameKeeps
  <2>6. ASSUME NEW d \in Device, NEW c \in Client, onCreateSuccess(d, c) \/ onIceCandidate(d, c)
        PROVE  RtcInv'
    <3>1. TypeOK' /\ FactoryOutlivesAgents' /\ Sent(c)
      BY <2>1, <2>6, DescriptionTypes
    <3>2. UNCHANGED <<signalling, ws, room>>
      BY <2>6 DEF onCreateSuccess, onIceCandidate
    <3>3. QED
      BY <1>1, <3>1, <3>2, SendKeeps
  <2>7. QED
    BY <1>4, <2>2, <2>3, <2>4, <2>5, <2>6 DEF Next
<1>5. QED
  BY <1>3, <1>4

(* In every state of the signalling, whatever the devices' users, activities *)
(* and sockets do and however many there are of them, the invariant holds:   *)
(* the queues of the server tell each client of a current socket the truth   *)
(* about the room.                                                           *)
THEOREM RtcInvariant == Spec => []RtcInv
<1>1. Init => RtcInv
  BY RtcInvInit
<1>2. RtcInv /\ [Next]_vars => RtcInv'
  BY RtcInvNext
<1>3. QED
  BY <1>1, <1>2, PTL DEF Spec

(* No agent outlives the factory of its peer connections: delPeer disposes   *)
(* of the factory only with the last agent (RtcAgentContainer.kt:150).       *)
THEOREM FactoryIsKept == Spec => []FactoryOutlivesAgents
<1>1. RtcInv => FactoryOutlivesAgents
  BY DEF RtcInv
<1>2. QED
  BY <1>1, RtcInvariant, PTL

(* A device that takes itself for registered has an open web socket, however *)
(* late the callbacks of earlier sockets come (RtcSignalling.kt:143-200).    *)
THEOREM RegisteredIsOpen == Spec => []RegisteredMeansOpen
<1>1. RtcInv => RegisteredMeansOpen
  BY DEF RtcInv, SocketInv, RegisteredMeansOpen
<1>2. QED
  BY <1>1, RtcInvariant, PTL

(* A device that is registered on its current socket, has handled all the    *)
(* news and has none from an earlier socket in its list shows exactly the    *)
(* others who are in the room (RtcEngine.kt:57-76, RtcSignalling.kt:61-89).  *)
THEOREM TheListIsTheRoom == Spec => []ListShowsRoom
<1>1. ASSUME RtcInv PROVE ListShowsRoom
  <2>0. TypeOK /\ SocketInv /\ ShownInv
    BY <1>1 DEF RtcInv
  <2>1. SUFFICES ASSUME NEW d \in Device, mSignallingState[d] = "REGISTERED", ws[Me(d)] = "open",
                        ~late[d], inbox[Me(d)] = <<>>
                 PROVE  mPeerList[d] = room \ {Me(d)}
    BY DEF ListShowsRoom
  <2>2. session[d] > 0
    <3>1. session[d] \in Nat
      BY <2>0, MeParts
    <3>2. PICK n \in 1..session[d] : ws[<<d, n>>] = "open"
      BY <2>0, <2>1 DEF SocketInv
    <3>3. QED
      BY <3>1, <3>2
  <2>3. PICK x : x = Me(d)
    OBVIOUS
  <2>4. x \notin mPeerList[d] /\ ShownBy(<<>>, x, room, mPeerList[d], mPeerMap[d])
    BY <2>0, <2>1, <2>2, <2>3 DEF ShownInv, ShownFor
  <2>5. PICK q : q = <<>> /\ Len(q) = 0
    BY EmptySeq
  <2>6. \A p : NoNews(q, 1, Len(q), p)
    BY <2>5 DEF NoNews
  <2>7. \A p \in Client \ {x} : p \in mPeerList[d] <=> p \in room
    BY <2>4, <2>5, <2>6 DEF ShownBy, ShownOf
  <2>8. mPeerList[d] \subseteq Client /\ room \subseteq Client
    BY <2>0 DEF TypeOK
  <2>9. QED
    BY <2>3, <2>4, <2>7, <2>8
<1>2. QED
  BY <1>1, RtcInvariant, PTL

-----------------------------------------------------------------------------
(* Negotiations *)

\* What a and b are to each other, and which of their descriptions are on the way from
\* a to b (ab) and back (ba).
Is(a, pc, creating) == a.pc = pc /\ a.creating = creating

Silent(s) == "offer" \notin s /\ "answer" \notin s

\* No agent, or one that a click has just made.
Idle(a) == a = NoAgent \/ (Is(a, "new", <<"offer">>) /\ ~a.gathering)

\* The offer that comes to a, which has made one itself, is still on its way or has been
\* refused; onCreateSuccess may not have failed to answer it yet.
Refuses(a, s) == a.creating = <<>> \/ (a.creating = <<"answer">> /\ "offer" \notin s)

Offered(a, b, ab, ba) ==
    /\ Is(a, "localOffer", <<>>) /\ Idle(b)
    /\ "offer" \in ab /\ "answer" \notin ab /\ Silent(ba)

\* b may have clicked as well, and then still offers before it answers.
Answering(a, b, ab, ba) ==
    /\ a.pc = "localOffer" /\ b.pc = "remoteOffer" /\ Silent(ab) /\ "answer" \notin ba
    /\ \/ a.creating = <<>> /\ b.creating = <<"offer", "answer">> /\ "offer" \notin ba
       \/ Refuses(a, ba) /\ b.creating = <<"answer">>

Answered(a, b, ab, ba) ==
    /\ a.pc = "localOffer" /\ Is(b, "stable", <<>>) /\ Silent(ab) /\ "answer" \in ba
    /\ Refuses(a, ba)

Settled(a, b, ab, ba) ==
    /\ a.pc = "stable" /\ a.creating \in {<<>>, <<"answer">>} /\ Is(b, "stable", <<>>)
    /\ Silent(ab) /\ Silent(ba)

Crossed(a, b, ab, ba) ==
    /\ a.pc = "localOffer" /\ b.pc = "localOffer" /\ "answer" \notin ab /\ "answer" \notin ba
    /\ Refuses(a, ba) /\ Refuses(b, ab)

\* How far the two are when a has made the first offer, or both, or nobody.
Stage(a, b, ab, ba) ==
    \/ Idle(a) /\ Idle(b) /\ Silent(ab) /\ Silent(ba)
    \/ Offered(a, b, ab, ba) \/ Answering(a, b, ab, ba) \/ Answered(a, b, ab, ba)
    \/ Settled(a, b, ab, ba) \/ Crossed(a, b, ab, ba)

Between(a, b, ab, ba) == Stage(a, b, ab, ba) \/ Stage(b, a, ba, ab)

\* An agent that has set its description looks for candidates.
Described(a) == a.pc \in {"localOffer", "stable"}

LEMMA AppendAny ==
    ASSUME NEW S, NEW q \in Seq(S), NEW m \in S, NEW r, r = Append(q, m)
    PROVE  /\ r \in Seq(S) /\ Len(r) = Len(q) + 1
           /\ \A i \in 1..Len(q) : r[i] = q[i]
           /\ r[Len(q) + 1] = m
  BY AppendProperties

LEMMA AppendTwo ==
    ASSUME NEW S, NEW x \in S, NEW y \in S
    PROVE  Append(<<x>>, y) = <<x, y>>
<1>1. <<x>> \in Seq(S) /\ <<x, y>> \in Seq(S)
  OBVIOUS
<1>2. PICK s : s = <<x>>
  OBVIOUS
<1>3. s \in Seq(S) /\ Len(s) = 1 /\ s[1] = x
  BY <1>1, <1>2
<1>4. PICK t : t = <<x, y>>
  OBVIOUS
<1>5. t \in Seq(S) /\ Len(t) = 2 /\ t[1] = x /\ t[2] = y
  BY <1>1, <1>4
<1>6. PICK u : u = Append(s, y)
  OBVIOUS
<1>7. /\ u \in Seq(S) /\ Len(u) = Len(s) + 1
      /\ u[Len(s) + 1] = y
      /\ \A i \in 1..Len(s) : u[i] = s[i]
  BY <1>3, <1>6, AppendAny
<1>8. Len(s) + 1 = 2 /\ 1 \in 1..Len(s)
  BY <1>3
<1>9. Len(u) = 2 /\ u[1] = x /\ u[2] = y
  BY <1>3, <1>7, <1>8
<1>10. \A i \in 1..Len(u) : u[i] = t[i]
  BY <1>5, <1>9
<1>11. u = t
  BY <1>5, <1>7, <1>9, <1>10, SeqEqual
<1>12. QED
  BY <1>2, <1>4, <1>6, <1>11

LEMMA Creations ==
    /\ Head(<<"offer">>) = "offer" /\ Tail(<<"offer">>) = <<>>
    /\ Head(<<"answer">>) = "answer" /\ Tail(<<"answer">>) = <<>>
    /\ Head(<<"offer", "answer">>) = "offer" /\ Tail(<<"offer", "answer">>) = <<"answer">>
    /\ Append(<<>>, "offer") = <<"offer">> /\ Append(<<>>, "answer") = <<"answer">>
    /\ Append(<<"offer">>, "answer") = <<"offer", "answer">>
    /\ <<"offer">> # <<>> /\ <<"answer">> # <<>> /\ <<"offer", "answer">> # <<>>
    /\ <<"offer">> # <<"answer">> /\ <<"offer">> # <<"offer", "answer">>
    /\ <<"answer">> # <<"offer", "answer">>
<1>1. /\ Head(<<"offer">>) = "offer" /\ Tail(<<"offer">>) = <<>>
      /\ Head(<<"answer">>) = "answer" /\ Tail(<<"answer">>) = <<>>
  OBVIOUS
<1>2. Head(<<"offer", "answer">>) = "offer" /\ Tail(<<"offer", "answer">>) = <<"answer">>
  OBVIOUS
<1>3. Append(<<>>, "offer") = <<"offer">> /\ Append(<<>>, "answer") = <<"answer">>
  OBVIOUS
<1>4. Append(<<"offer">>, "answer") = <<"offer", "answer">>
  <2>1. "offer" \in Sdp /\ "answer" \in Sdp
    BY DEF Sdp
  <2>2. QED
    BY <2>1, AppendTwo
<1>5. <<"offer">> # <<>> /\ <<"answer">> # <<>> /\ <<"offer", "answer">> # <<>>
  OBVIOUS
<1>6. /\ <<"offer">> # <<"answer">> /\ <<"offer">> # <<"offer", "answer">>
      /\ <<"answer">> # <<"offer", "answer">>
  OBVIOUS
<1>7. QED
  BY <1>1, <1>2, <1>3, <1>4, <1>5, <1>6

LEMMA AgentParts ==
    /\ Is(NoAgent, "none", <<>>) /\ ~NoAgent.gathering
    /\ Is(NewAgent, "new", <<>>) /\ ~NewAgent.gathering
    /\ \A a \in Agent, sdp \in Sdp :
          LET b == createDataChannel(a, sdp)
          IN  Is(b, a.pc, Append(a.creating, sdp)) /\ b.gathering = a.gathering
    /\ \A a \in Agent, s \in Seq(Sdp) :
          LET b == [a EXCEPT !.creating = s]
          IN  Is(b, a.pc, s) /\ b.gathering = a.gathering /\ b \in Agent
    /\ \A a \in Agent :
          LET b == [a EXCEPT !.gathering = FALSE]
          IN  Is(b, a.pc, a.creating) /\ ~b.gathering /\ b \in Agent
<1>1. Is(NoAgent, "none", <<>>) /\ ~NoAgent.gathering
  BY DEF NoAgent, Is
<1>2. Is(NewAgent, "new", <<>>) /\ ~NewAgent.gathering
  BY DEF NoAgent, NewAgent, Is
<1>3. ASSUME NEW a \in Agent, NEW s
      PROVE  LET b == [a EXCEPT !.creating = s]
             IN  Is(b, a.pc, s) /\ b.gathering = a.gathering
  BY DEF Is, Agent
<1>4. ASSUME NEW a \in Agent, NEW s \in Seq(Sdp)
      PROVE  [a EXCEPT !.creating = s] \in Agent
  BY DEF Agent, Sdp
<1>5. ASSUME NEW a \in Agent
      PROVE  LET b == [a EXCEPT !.gathering = FALSE]
             IN  Is(b, a.pc, a.creating) /\ ~b.gathering /\ b \in Agent
  BY DEF Is, Agent
<1>6. QED
  BY <1>1, <1>2, <1>3, <1>4, <1>5 DEF createDataChannel

\* What setting a description does to an agent.
LEMMA SetParts ==
    ASSUME NEW a \in Agent
    PROVE  /\ LET b == setLocalDescription(a, "offer") IN
              /\ b.creating = a.creating
              /\ a.pc \in {"new", "stable", "localOffer"} => b.pc = "localOffer"
              /\ a.pc \notin {"new", "stable", "localOffer"} => b = a
           /\ LET b == setLocalDescription(a, "answer") IN
              /\ b.creating = a.creating
              /\ a.pc = "remoteOffer" => b.pc = "stable"
           /\ LET b == setRemoteDescription(a, "offer") IN
              /\ b.creating = a.creating /\ b.gathering = a.gathering
              /\ a.pc \in {"new", "stable", "remoteOffer"} => b.pc = "remoteOffer"
              /\ a.pc \notin {"new", "stable", "remoteOffer"} => b = a
           /\ LET b == setRemoteDescription(a, "answer") IN
              /\ b.creating = a.creating /\ b.gathering = a.gathering
              /\ a.pc = "localOffer" => b.pc = "stable"
<1> DEFINE lo == [a EXCEPT !.pc = "localOffer", !.gathering = TRUE]
           ls == [a EXCEPT !.pc = "stable", !.gathering = TRUE]
           ro == [a EXCEPT !.pc = "remoteOffer"]
           rs == [a EXCEPT !.pc = "stable"]
<1>1. /\ lo.pc = "localOffer" /\ lo.creating = a.creating
      /\ ls.pc = "stable" /\ ls.creating = a.creating
      /\ ro.pc = "remoteOffer" /\ ro.creating = a.creating /\ ro.gathering = a.gathering
      /\ rs.pc = "stable" /\ rs.creating = a.creating /\ rs.gathering = a.gathering
  BY DEF Agent
<1>2. setLocalDescription(a, "offer") = IF a.pc \in {"new", "stable", "localOffer"} THEN lo ELSE a
  BY DEF setLocalDescription
<1>3. setLocalDescription(a, "answer") = IF a.pc = "remoteOffer" THEN ls ELSE a
  BY DEF setLocalDescription
<1>4. setRemoteDescription(a, "offer") = IF a.pc \in {"new", "stable", "remoteOffer"} THEN ro ELSE a
  BY DEF setRemoteDescription
<1>5. setRemoteDescription(a, "answer") = IF a.pc = "localOffer" THEN rs ELSE a
  BY DEF setRemoteDescription
<1> HIDE DEF lo, ls, ro, rs
<1>6. QED
  BY <1>1, <1>2, <1>3, <1>4, <1>5

\* A click makes an agent that is about to offer.
LEMMA StageClick ==
    ASSUME NEW b, NEW ab, NEW ba, Between(NoAgent, b, ab, ba), NEW a,
           a = createDataChannel(NewAgent, "offer")
    PROVE  Between(a, b, ab, ba)
<1>1. Idle(a)
  BY AgentTypes, AgentParts, Creations DEF Idle, Is, Sdp
<1>2. Idle(NoAgent) /\ ~(NoAgent.pc \in {"localOffer", "remoteOffer", "stable"})
  BY AgentParts DEF Idle, Is
<1>3. QED
  BY <1>1, <1>2 DEF Between, Stage, Offered, Answering, Answered, Settled, Crossed, Is

\* The offer is set, unless one of the peer's was set before, and sent.
LEMMA StageOffer ==
    ASSUME NEW a \in Agent, NEW b \in Agent, NEW ab, NEW ba, Between(a, b, ab, ba),
           a.creating # <<>>, Head(a.creating) = "offer",
           NEW a2, a2.creating = Tail(a.creating),
           a.pc \in {"new", "stable", "localOffer"} => a2.pc = "localOffer",
           a.pc \notin {"new", "stable", "localOffer"} => a2.pc = a.pc,
           NEW ab2, "offer" \in ab2, "answer" \in ab2 <=> "answer" \in ab
    PROVE  /\ Between(a2, b, ab2, ba) /\ Silent(ab) /\ ~Described(a)
           /\ Described(a2) => a2.pc = "localOffer"
<1>1. \/ a.creating = <<"offer">> /\ Tail(a.creating) = <<>>
      \/ a.creating = <<"offer", "answer">> /\ Tail(a.creating) = <<"answer">>
  BY Creations, AgentParts
     DEF Between, Stage, Idle, Offered, Answering, Answered, Settled, Crossed, Is, Refuses
<1>2. QED
  BY <1>1, Creations, AgentParts
     DEF Between, Stage, Idle, Offered, Answering, Answered, Settled, Crossed, Is, Refuses,
         Silent, Described

\* The answer is set and sent.
LEMMA StageAnswer ==
    ASSUME NEW a \in Agent, NEW b \in Agent, NEW ab, NEW ba, Between(a, b, ab, ba),
           a.creating # <<>>, Head(a.creating) = "answer", a.pc = "remoteOffer",
           NEW a2, a2.creating = Tail(a.creating), a2.pc = "stable",
           NEW ab2, "answer" \in ab2, "offer" \in ab2 <=> "offer" \in ab
    PROVE  Between(a2, b, ab2, ba) /\ "answer" \notin ab
<1>1. a.creating = <<"answer">> /\ Tail(a.creating) = <<>>
  BY Creations, AgentParts
     DEF Between, Stage, Idle, Offered, Answering, Answered, Settled, Crossed, Is, Refuses
<1>2. Answering(b, a, ba, ab)
  BY <1>1, Creations, AgentParts
     DEF Between, Stage, Idle, Offered, Answering, Answered, Settled, Crossed, Is, Refuses
<1>3. Answered(b, a2, ba, ab2)
  BY <1>1, <1>2, Creations DEF Answering, Answered, Silent, Is, Refuses
<1>4. QED
  BY <1>2, <1>3 DEF Answering, Between, Stage

\* An offer that was refused is not answered.
LEMMA StageFailure ==
    ASSUME NEW a \in Agent, NEW b \in Agent, NEW ab, NEW ba, Between(a, b, ab, ba),
           a.creating # <<>>, Head(a.creating) = "answer", a.pc # "remoteOffer",
           NEW a2, a2.creating = Tail(a.creating), a2.pc = a.pc
    PROVE  Between(a2, b, ab, ba)
<1>1. a.creating = <<"answer">> /\ Tail(a.creating) = <<>>
  BY Creations, AgentParts
     DEF Between, Stage, Idle, Offered, Answering, Answered, Settled, Crossed, Is, Refuses
<1>2. QED
  BY <1>1, Creations, AgentParts
     DEF Between, Stage, Idle, Offered, Answering, Answered, Settled, Crossed, Is, Refuses,
         Silent

\* Only what is set and created counts, for an agent that has candidates.
LEMMA StageSame ==
    ASSUME NEW a, NEW b, NEW ab, NEW ba, Between(a, b, ab, ba),
           NEW a2, a2.creating = a.creating, a2.pc = a.pc, a2 = a \/ a.gathering,
           NEW ab2, Silent(ab2) <=> Silent(ab), "offer" \in ab2 <=> "offer" \in ab,
           "answer" \in ab2 <=> "answer" \in ab,
           NEW ba2, "offer" \in ba2 <=> "offer" \in ba, "answer" \in ba2 <=> "answer" \in ba
    PROVE  Between(a2, b, ab2, ba2)
<1>1. Idle(a) => Idle(a2)
  BY AgentParts DEF Idle, Is
<1>2. QED
  BY <1>1 DEF Between, Stage, Offered, Answering, Answered, Settled, Crossed, Is, Refuses, Silent

\* The peer's offer has come.
LEMMA StageHearOffer ==
    ASSUME NEW a \in Agent, NEW b \in Agent, NEW ab, NEW ba, Between(a, b, ab, ba),
           "offer" \in ba, NEW ba2, "offer" \notin ba2, "answer" \in ba2 <=> "answer" \in ba,
           NEW a1, a1 = IF a = NoAgent THEN NewAgent ELSE a,
           NEW a2, a2.creating = Append(a1.creating, "answer"),
           a1.pc \in {"new", "stable", "remoteOffer"} => a2.pc = "remoteOffer",
           a1.pc \notin {"new", "stable", "remoteOffer"} => a2.pc = a1.pc
    PROVE  Between(a2, b, ab, ba2) /\ (Described(a) => Described(a2))
<1>1. CASE Offered(b, a, ba, ab)
  <2>1. /\ a1.creating \in {<<>>, <<"offer">>} /\ a1.pc = "new" /\ ~Described(a)
    BY <1>1, AgentParts DEF Offered, Idle, Is, Described
  <2>2. a2.creating \in {<<"answer">>, <<"offer", "answer">>} /\ a2.pc = "remoteOffer"
    BY <2>1, Creations
  <2>3. Answering(b, a2, ba2, ab)
    BY <1>1, <2>2 DEF Answering, Offered, Silent, Is, Refuses
  <2>4. QED
    BY <2>1, <2>3 DEF Between, Stage
<1>2. CASE ~Offered(b, a, ba, ab)
  <2>1. a.pc = "localOffer" /\ a.creating = <<>>
    BY <1>2, Creations
       DEF Between, Stage, Offered, Answering, Answered, Settled, Crossed, Silent, Refuses
  <2>2. a1 = a
    BY <2>1, AgentParts DEF Is
  <2>3. a2.pc = "localOffer" /\ a2.creating = <<"answer">>
    BY <2>1, <2>2, Creations
  <2>4. QED
    BY <1>2, <2>1, <2>3, Creations
       DEF Between, Stage, Idle, Offered, Answering, Answered, Settled, Crossed, Is, Silent,
           Refuses, Described
<1>3. QED
  BY <1>1, <1>2

\* The peer's answer has come.
LEMMA StageHearAnswer ==
    ASSUME NEW a \in Agent, NEW b \in Agent, NEW ab, NEW ba, Between(a, b, ab, ba),
           "answer" \in ba, "offer" \notin ba, NEW ba2, Silent(ba2),
           NEW a2, a2.creating = a.creating, a.pc = "localOffer" => a2.pc = "stable"
    PROVE  Between(a2, b, ab, ba2) /\ a # NoAgent /\ a2.pc = "stable"
<1>1. Answered(a, b, ab, ba)
  BY DEF Between, Stage, Offered, Answering, Answered, Settled, Crossed, Silent
<1>2. a # NoAgent /\ a2.pc = "stable"
  BY <1>1, AgentParts DEF Answered, Is
<1>3. Settled(a2, b, ab, ba2)
  BY <1>1, <1>2 DEF Answered, Settled, Refuses, Silent, Is
<1>4. QED
  BY <1>2, <1>3 DEF Between, Stage

\* A candidate comes to an agent that is there.
LEMMA StageCandidate ==
    ASSUME NEW a \in Agent, NEW b \in Agent, NEW ab, NEW ba, Between(a, b, ab, ba),
           "offer" \notin ba, Described(b)
    PROVE  a # NoAgent
  BY AgentParts
     DEF Between, Stage, Idle, Offered, Answering, Answered, Settled, Crossed, Is, Silent,
         Described

-----------------------------------------------------------------------------
(* Messages from one agent to another *)

ForAgent(m, s) == m.cmd \in {"offer", "answer", "candidate"} /\ m.sourceid = s

\* The messages from client s in queue q.
On(q, s, cmd) == \E k \in 1..Len(q) : ForAgent(q[k], s) /\ q[k].cmd = cmd

DescriptionsOf(q, s) == {cmd \in Sdp : On(q, s, cmd)}

\* An offer comes before anything else, and there is one answer at most.
InTurn(q, s) ==
    \A j, k \in 1..Len(q) :
        j < k /\ ForAgent(q[j], s) /\ ForAgent(q[k], s) =>
            /\ q[k].cmd # "offer"
            /\ q[j].cmd = "answer" => q[k].cmd # "answer"

\* Queue r has the same messages from s as q.
Alike(q, r, s) ==
    /\ \A cmd : On(r, s, cmd) <=> On(q, s, cmd)
    /\ InTurn(q, s) => InTurn(r, s)

LEMMA OnAppend ==
    ASSUME NEW q \in Seq(Message), NEW m \in Message, NEW r, r = Append(q, m), NEW s
    PROVE  /\ \A cmd : On(r, s, cmd) <=> On(q, s, cmd) \/ (ForAgent(m, s) /\ m.cmd = cmd)
           /\ (/\ InTurn(q, s)
               /\ ForAgent(m, s) => /\ m.cmd = "offer" => \A cmd : ~On(q, s, cmd)
                                    /\ m.cmd = "answer" => ~On(q, s, "answer"))
              => InTurn(r, s)
<1>1. PICK n \in Nat : n = Len(q)
  BY LenProperties
<1>2. /\ Len(r) = n + 1 /\ r[n + 1] = m
      /\ \A i \in 1..n : r[i] = q[i] /\ i \in 1..(n + 1)
  BY <1>1, AppendParts
<1>3. \A k \in 1..(n + 1) : k = n + 1 \/ k \in 1..n
  OBVIOUS
<1>4. n + 1 \in 1..(n + 1)
  OBVIOUS
<1>5. ASSUME NEW cmd
      PROVE  On(r, s, cmd) <=> On(q, s, cmd) \/ (ForAgent(m, s) /\ m.cmd = cmd)
  BY <1>1, <1>2, <1>3, <1>4 DEF On
<1>6. ASSUME InTurn(q, s), ForAgent(m, s) => /\ m.cmd = "offer" => \A cmd : ~On(q, s, cmd)
                                             /\ m.cmd = "answer" => ~On(q, s, "answer")
      PROVE  InTurn(r, s)
  <2> SUFFICES ASSUME NEW j \in 1..(n + 1), NEW k \in 1..(n + 1), j < k,
                      ForAgent(r[j], s), ForAgent(r[k], s)
               PROVE  r[k].cmd # "offer" /\ (r[j].cmd = "answer" => r[k].cmd # "answer")
    BY <1>2 DEF InTurn
  <2>1. j \in 1..n /\ r[j] = q[j]
    BY <1>2
  <2>2. CASE k = n + 1
    <3>1. On(q, s, q[j].cmd)
      BY <1>1, <2>1 DEF On
    <3>2. QED
      BY <1>2, <1>6, <2>1, <2>2, <3>1
  <2>3. CASE k # n + 1
    BY <1>1, <1>2, <1>3, <1>6, <2>1, <2>3 DEF InTurn
  <2>4. QED
    BY <2>2, <2>3
<1>7. QED
  BY <1>5, <1>6

LEMMA OnTail ==
    ASSUME NEW q \in Seq(Message), q # <<>>, NEW r, r = Tail(q), NEW m, m = Head(q), NEW s
    PROVE  /\ \A cmd : On(q, s, cmd) <=> On(r, s, cmd) \/ (ForAgent(m, s) /\ m.cmd = cmd)
           /\ InTurn(q, s) => InTurn(r, s)
           /\ InTurn(q, s) /\ ForAgent(m, s) =>
                 /\ ~On(r, s, "offer")
                 /\ m.cmd = "answer" => ~On(r, s, "answer")
<1>1. PICK n \in Nat : n = Len(r) /\ Len(q) = n + 1
  BY TailParts
<1>2. m = q[1] /\ \A i \in 1..n : r[i] = q[i + 1] /\ i + 1 \in 1..(n + 1) /\ 1 < i + 1
  BY <1>1, TailParts
<1>3. \A k \in 1..(n + 1) : k = 1 \/ (k - 1 \in 1..n /\ q[k] = r[k - 1])
  <2> SUFFICES ASSUME NEW k \in 1..(n + 1), k # 1 PROVE k - 1 \in 1..n /\ q[k] = r[k - 1]
    OBVIOUS
  <2>1. k - 1 \in 1..n /\ (k - 1) + 1 = k
    OBVIOUS
  <2>2. QED
    BY <1>2, <2>1
<1>4. 1 \in 1..(n + 1)
  OBVIOUS
<1>5. ASSUME NEW cmd
      PROVE  On(q, s, cmd) <=> On(r, s, cmd) \/ (ForAgent(m, s) /\ m.cmd = cmd)
  <2>1. On(r, s, cmd) => On(q, s, cmd)
    BY <1>1, <1>2 DEF On
  <2>2. ForAgent(m, s) /\ m.cmd = cmd => On(q, s, cmd)
    BY <1>1, <1>2, <1>4 DEF On
  <2>3. On(q, s, cmd) => On(r, s, cmd) \/ (ForAgent(m, s) /\ m.cmd = cmd)
    BY <1>1, <1>2, <1>3 DEF On
  <2>4. QED
    BY <2>1, <2>2, <2>3
<1>6. ASSUME InTurn(q, s) PROVE InTurn(r, s)
  <2> SUFFICES ASSUME NEW j \in 1..n, NEW k \in 1..n, j < k, ForAgent(r[j], s), ForAgent(r[k], s)
               PROVE  r[k].cmd # "offer" /\ (r[j].cmd = "answer" => r[k].cmd # "answer")
    BY <1>1 DEF InTurn
  <2>1. j + 1 < k + 1
    OBVIOUS
  <2>2. QED
    BY <1>1, <1>2, <1>6, <2>1 DEF InTurn
<1>7. ASSUME InTurn(q, s), ForAgent(m, s)
      PROVE  ~On(r, s, "offer") /\ (m.cmd = "answer" => ~On(r, s, "answer"))
  <2>1. ASSUME NEW k \in 1..n, ForAgent(r[k], s)
        PROVE  r[k].cmd # "offer" /\ (m.cmd = "answer" => r[k].cmd # "answer")
    BY <1>1, <1>2, <1>4, <1>7, <2>1 DEF InTurn
  <2>2. QED
    BY <1>1, <2>1 DEF On
<1>8. QED
  BY <1>5, <1>6, <1>7

LEMMA AlikeAppend ==
    ASSUME NEW q \in Seq(Message), NEW m \in Message, NEW s, ~ForAgent(m, s)
    PROVE  Alike(q, Append(q, m), s)
<1>1. PICK r : r = Append(q, m)
  OBVIOUS
<1>2. QED
  BY <1>1, OnAppend DEF Alike

LEMMA AlikeTail ==
    ASSUME NEW q \in Seq(Message), q # <<>>, NEW s, ~ForAgent(Head(q), s)
    PROVE  Alike(q, Tail(q), s)
<1>1. PICK r : r = Tail(q)
  OBVIOUS
<1>2. PICK m : m = Head(q)
  OBVIOUS
<1>3. QED
  BY <1>1, <1>2, OnTail DEF Alike

LEMMA AlikeSame ==
    ASSUME NEW q, NEW s PROVE Alike(q, q, s)
  BY DEF Alike

-----------------------------------------------------------------------------
(* Two agents and the messages between them *)

\* a is the agent of client x, with queue qa, for client y; b that of y, with qb, for x.
Sends(a, q, x) ==
    /\ InTurn(q, x)
    /\ a.gathering \/ On(q, x, "candidate") => Described(a)

Pair(a, b, qa, qb, x, y) ==
    /\ Sends(a, qb, x) /\ Sends(b, qa, y)
    /\ Between(a, b, DescriptionsOf(qb, x), DescriptionsOf(qa, y))

LEMMA PairSwap ==
    ASSUME NEW a, NEW b, NEW qa, NEW qb, NEW x, NEW y, Pair(a, b, qa, qb, x, y)
    PROVE  Pair(b, a, qb, qa, y, x)
  BY DEF Pair, Between

\* The two have nothing to do with each other yet.
LEMMA PairNew ==
    ASSUME NEW qa, NEW qb, NEW x, NEW y,
           \A k \in 1..Len(qa) : ~ForAgent(qa[k], y), \A k \in 1..Len(qb) : ~ForAgent(qb[k], x)
    PROVE  Pair(NoAgent, NoAgent, qa, qb, x, y)
<1>1. \A cmd : ~On(qa, y, cmd) /\ ~On(qb, x, cmd)
  BY DEF On
<1>2. InTurn(qa, y) /\ InTurn(qb, x)
  BY DEF InTurn
<1>3. QED
  BY <1>1, <1>2, AgentTypes DEF Pair, Sends, Between, Stage, Idle, Silent, DescriptionsOf

\* What is sent by others, or to others, changes nothing.
LEMMA PairAlike ==
    ASSUME NEW a, NEW b, NEW qa, NEW qb, NEW x, NEW y, Pair(a, b, qa, qb, x, y),
           NEW ra, Alike(qa, ra, y), NEW rb, Alike(qb, rb, x)
    PROVE  Pair(a, b, ra, rb, x, y)
<1>1. DescriptionsOf(ra, y) = DescriptionsOf(qa, y) /\ DescriptionsOf(rb, x) = DescriptionsOf(qb, x)
  BY DEF Alike, DescriptionsOf
<1>2. QED
  BY <1>1 DEF Pair, Sends, Alike

LEMMA PairClick ==
    ASSUME NEW b, NEW qa, NEW qb, NEW x, NEW y, Pair(NoAgent, b, qa, qb, x, y), NEW a,
           a = createDataChannel(NewAgent, "offer")
    PROVE  Pair(a, b, qa, qb, x, y)
<1>1. ~a.gathering /\ ~Described(NoAgent)
  BY AgentTypes, AgentParts DEF Sdp, Described, Is
<1>2. QED
  BY <1>1, StageClick DEF Pair, Sends

\* onCreateSuccess of a, when the description is sent to y.
LEMMA PairSends ==
    ASSUME NEW a \in Agent, NEW b \in Agent, NEW qa, NEW qb \in Seq(Message),
           NEW x, NEW y, Pair(a, b, qa, qb, x, y),
           a.creating # <<>>, NEW sdp \in Sdp, sdp = Head(a.creating),
           sdp = "answer" => a.pc = "remoteOffer",
           NEW a1 \in Agent, a1.pc = a.pc, a1.creating = Tail(a.creating),
           a1.gathering = a.gathering,
           NEW m \in Message, ForAgent(m, x), m.cmd = sdp
    PROVE  Pair(setLocalDescription(a1, sdp), b, qa, Append(qb, m), x, y)
<1>1. PICK r : r = Append(qb, m)
  OBVIOUS
<1>2. PICK a2 : a2 = setLocalDescription(a1, sdp)
  OBVIOUS
<1>3. \A cmd : On(r, x, cmd) <=> On(qb, x, cmd) \/ cmd = sdp
  BY <1>1, OnAppend
<1>4. /\ Between(a, b, DescriptionsOf(qb, x), DescriptionsOf(qa, y))
      /\ Sends(a, qb, x) /\ Sends(b, qa, y)
  BY DEF Pair
<1>5. CASE sdp = "offer"
  <2>1. /\ a2.creating = Tail(a.creating)
        /\ a.pc \in {"new", "stable", "localOffer"} => a2.pc = "localOffer"
        /\ a.pc \notin {"new", "stable", "localOffer"} => a2 = a1
    <3>1. a2 = setLocalDescription(a1, "offer") /\ a1 \in Agent
      BY <1>2, <1>5
    <3>2. QED
      BY <3>1, SetParts
  <2>2. /\ "offer" \in DescriptionsOf(r, x)
        /\ "answer" \in DescriptionsOf(r, x) <=> "answer" \in DescriptionsOf(qb, x)
    BY <1>3, <1>5 DEF DescriptionsOf, Sdp
  <2>3. /\ Between(a2, b, DescriptionsOf(r, x), DescriptionsOf(qa, y))
        /\ Silent(DescriptionsOf(qb, x)) /\ ~Described(a)
    BY <1>4, <1>5, <2>1, <2>2, StageOffer
  <2>4. ~On(qb, x, "offer") /\ ~On(qb, x, "answer") /\ ~On(qb, x, "candidate") /\ ~a.gathering
    BY <1>4, <2>3 DEF Silent, DescriptionsOf, Sends, Sdp
  <2>5. \A cmd : ~On(qb, x, cmd)
    BY <2>4 DEF On, ForAgent
  <2>6. InTurn(r, x)
    <3>1. InTurn(qb, x) /\ m \in Message /\ m.cmd # "answer"
      BY <1>4, <1>5 DEF Sends
    <3>2. QED
      BY <1>1, <2>5, <3>1, OnAppend
  <2>7. a2.gathering \/ On(r, x, "candidate") => Described(a2)
    <3>1. ~On(r, x, "candidate")
      BY <1>3, <1>5, <2>5
    <3>2. CASE a.pc \in {"new", "stable", "localOffer"}
      BY <2>1, <3>2 DEF Described
    <3>3. CASE a.pc \notin {"new", "stable", "localOffer"}
      <4>1. ~a2.gathering
        BY <2>1, <2>4, <3>3
      <4>2. QED
        BY <3>1, <4>1
    <3>4. QED
      BY <3>2, <3>3
  <2>8. QED
    BY <1>1, <1>2, <1>4, <2>3, <2>6, <2>7 DEF Pair, Sends
<1>6. CASE sdp = "answer"
  <2>1. a.pc = "remoteOffer" /\ a2.creating = Tail(a.creating) /\ a2.pc = "stable"
    <3>1. a2 = setLocalDescription(a1, "answer") /\ a1 \in Agent /\ a1.pc = "remoteOffer"
      BY <1>2, <1>6
    <3>2. QED
      BY <3>1, SetParts
  <2>2. /\ "answer" \in DescriptionsOf(r, x)
        /\ "offer" \in DescriptionsOf(r, x) <=> "offer" \in DescriptionsOf(qb, x)
    BY <1>3, <1>6 DEF DescriptionsOf, Sdp
  <2>3. /\ Between(a2, b, DescriptionsOf(r, x), DescriptionsOf(qa, y))
        /\ "answer" \notin DescriptionsOf(qb, x)
    BY <1>4, <1>6, <2>1, <2>2, StageAnswer
  <2>4. InTurn(r, x)
    BY <1>1, <1>4, <1>6, <2>3, OnAppend DEF Sends, DescriptionsOf, Sdp
  <2>5. QED
    BY <1>1, <1>2, <1>4, <2>1, <2>3, <2>4 DEF Pair, Sends, Described
<1>7. QED
  BY <1>5, <1>6 DEF Sdp

\* onCreateFailure of a.
LEMMA PairFails ==
    ASSUME NEW a \in Agent, NEW b \in Agent, NEW qa, NEW qb, NEW x, NEW y,
           Pair(a, b, qa, qb, x, y), a.creating # <<>>, Head(a.creating) = "answer",
           a.pc # "remoteOffer", NEW a2, a2 = [a EXCEPT !.creating = Tail(@)]
    PROVE  Pair(a2, b, qa, qb, x, y)
<1>1. a2.creating = Tail(a.creating) /\ a2.pc = a.pc /\ a2.gathering = a.gathering
  BY DEF Agent
<1>2. QED
  BY <1>1, StageFailure DEF Pair, Sends, Described

\* onIceCandidate of a.
LEMMA PairGathers ==
    ASSUME NEW a \in Agent, NEW b \in Agent, NEW qa, NEW qb \in Seq(Message),
           NEW x, NEW y, Pair(a, b, qa, qb, x, y), a.gathering,
           NEW a2, a2 = [a EXCEPT !.gathering = FALSE],
           NEW m \in Message, ForAgent(m, x), m.cmd = "candidate"
    PROVE  Pair(a2, b, qa, Append(qb, m), x, y)
<1>1. PICK r : r = Append(qb, m)
  OBVIOUS
<1>2. a2.pc = a.pc /\ a2.creating = a.creating /\ ~a2.gathering
  BY AgentParts DEF Is
<1>3. \A cmd : On(r, x, cmd) => On(qb, x, cmd) \/ cmd = "candidate"
  BY <1>1, OnAppend
<1>4. \A cmd : On(qb, x, cmd) => On(r, x, cmd)
  BY <1>1, OnAppend
<1>5. /\ "offer" \in DescriptionsOf(r, x) <=> "offer" \in DescriptionsOf(qb, x)
      /\ "answer" \in DescriptionsOf(r, x) <=> "answer" \in DescriptionsOf(qb, x)
  BY <1>3, <1>4 DEF DescriptionsOf
<1>6. InTurn(r, x)
  BY <1>1, OnAppend DEF Pair, Sends
<1>7. Between(a2, b, DescriptionsOf(r, x), DescriptionsOf(qa, y))
  BY <1>2, <1>5, StageSame DEF Pair, Silent
<1>8. QED
  BY <1>1, <1>2, <1>6, <1>7 DEF Pair, Sends, Described

\* processMessage of a, with a message that y has sent.
LEMMA PairHears ==
    ASSUME NEW a \in Agent, NEW b \in Agent, NEW qa \in Seq(Message), NEW qb, NEW x, NEW y,
           Pair(a, b, qa, qb, x, y), qa # <<>>, NEW m, m = Head(qa), ForAgent(m, y),
           NEW a1, a1 = IF a = NoAgent THEN NewAgent ELSE a
    PROVE  Pair(processMessage(a1, m.cmd), b, Tail(qa), qb, x, y)
<1>1. PICK r : r = Tail(qa)
  OBVIOUS
<1>2. PICK a2 : a2 = processMessage(a1, m.cmd)
  OBVIOUS
<1>3. /\ \A cmd : On(qa, y, cmd) <=> On(r, y, cmd) \/ m.cmd = cmd
      /\ InTurn(r, y) /\ ~On(r, y, "offer") /\ (m.cmd = "answer" => ~On(r, y, "answer"))
  BY <1>1, OnTail DEF Pair, Sends
<1>4. /\ Between(a, b, DescriptionsOf(qb, x), DescriptionsOf(qa, y))
      /\ Sends(a, qb, x) /\ Sends(b, qa, y)
  BY DEF Pair
<1>5. Sends(b, r, y)
  BY <1>3, <1>4 DEF Sends
<1>6. a1 \in Agent /\ a1.gathering = a.gathering
  <2>1. NewAgent \in Agent /\ ~NewAgent.gathering /\ ~NoAgent.gathering
    BY AgentTypes, AgentParts
  <2>2. NewAgent.gathering \in BOOLEAN /\ NoAgent.gathering \in BOOLEAN
    BY DEF NewAgent, NoAgent
  <2>3. QED
    BY <2>1, <2>2
<1>7. CASE m.cmd = "offer"
  <2>1. PICK c \in Agent : c = setRemoteDescription(a1, "offer")
    BY <1>6, AgentTypes DEF Sdp
  <2>2. /\ c.creating = a1.creating /\ c.gathering = a1.gathering
        /\ a1.pc \in {"new", "stable", "remoteOffer"} => c.pc = "remoteOffer"
        /\ a1.pc \notin {"new", "stable", "remoteOffer"} => c = a1
    BY <1>6, <2>1, SetParts
  <2>3. a2 = createDataChannel(c, "answer")
    BY <1>2, <1>7, <2>1 DEF processMessage, processSessionDescription
  <2>4. a2.creating = Append(a1.creating, "answer") /\ a2.pc = c.pc /\ a2.gathering = a.gathering
    BY <1>6, <2>2, <2>3, AgentParts DEF Is, Sdp
  <2>5. /\ "offer" \in DescriptionsOf(qa, y) /\ "offer" \notin DescriptionsOf(r, y)
        /\ "answer" \in DescriptionsOf(r, y) <=> "answer" \in DescriptionsOf(qa, y)
    BY <1>3, <1>7 DEF DescriptionsOf, Sdp
  <2>6. /\ Between(a2, b, DescriptionsOf(qb, x), DescriptionsOf(r, y))
        /\ Described(a) => Described(a2)
    BY <1>4, <2>2, <2>4, <2>5, StageHearOffer
  <2>7. QED
    BY <1>1, <1>2, <1>4, <1>5, <2>4, <2>6 DEF Pair, Sends
<1>8. CASE m.cmd = "answer"
  <2>1. /\ "answer" \in DescriptionsOf(qa, y) /\ "offer" \notin DescriptionsOf(qa, y)
        /\ Silent(DescriptionsOf(r, y))
    BY <1>3, <1>8 DEF DescriptionsOf, Sdp, Silent
  <2>2. a2 = setRemoteDescription(a1, "answer")
    BY <1>2, <1>8 DEF processMessage, processSessionDescription
  <2>3. /\ a2.creating = a1.creating /\ a2.gathering = a.gathering
        /\ a1.pc = "localOffer" => a2.pc = "stable"
    BY <1>6, <2>2, SetParts
  <2>4. a1.creating = a.creating /\ (a.pc = "localOffer" => a1.pc = "localOffer")
    BY AgentParts DEF Is
  <2>5. Between(a2, b, DescriptionsOf(qb, x), DescriptionsOf(r, y)) /\ a2.pc = "stable"
    BY <1>4, <2>1, <2>3, <2>4, StageHearAnswer
  <2>6. QED
    BY <1>1, <1>2, <1>4, <1>5, <2>5 DEF Pair, Sends, Described
<1>9. CASE m.cmd = "candidate"
  <2>1. /\ "offer" \notin DescriptionsOf(qa, y) /\ Described(b)
        /\ DescriptionsOf(r, y) = DescriptionsOf(qa, y)
    BY <1>3, <1>4, <1>9 DEF DescriptionsOf, Sdp, Sends
  <2>2. a # NoAgent
    BY <1>4, <2>1, StageCandidate
  <2>3. a2 = a
    BY <1>2, <1>9, <2>2 DEF processMessage
  <2>4. QED
    BY <1>1, <1>2, <1>4, <1>5, <2>1, <2>3 DEF Pair
<1>10. QED
  BY <1>7, <1>8, <1>9 DEF ForAgent

-----------------------------------------------------------------------------
(* Strangers *)

Unheard(q, s) == \A k \in 1..Len(q) : ~ForAgent(q[k], s)

\* Nobody has an agent for a client that has not been in the room, or shows it, or has a
\* message from it.
StrangersInv ==
    \A c \in Client : Fresh(c) =>
        /\ \A d \in Device : mRtcAgentMap[d][c] = NoAgent /\ c \notin mPeerList[d]
        /\ \A x \in Client : Unheard(inbox[x], c)

\* A device that waits for its first socket to open ...
New(d) == <<d, 1>> \in Client /\ session[d] <= 1 /\ Fresh(<<d, 1>>)

\* ... knows nobody.
NewcomersInv ==
    \A d \in Device : New(d) =>
        mPeerList[d] = {} /\ \A c \in Client : mRtcAgentMap[d][c] = NoAgent

Gone(c) == ws[c] \in {"closing", "closed"}

\* Who is said to have gone does not come back.
GoneInv ==
    \A x \in Client : \A k \in 1..Len(inbox[x]) :
        inbox[x][k].cmd = "del_peer" => Gone(inbox[x][k].id)

\* A device in its first session, registered with a socket that is open.
First(d) ==
    /\ session[d] = 1 /\ mSignallingState[d] = "REGISTERED"
    /\ ws[<<d, 1>>] = "open" /\ <<d, 1>> \in room

Negotiation(d, e) ==
    Pair(mRtcAgentMap[d][<<e, 1>>], mRtcAgentMap[e][<<d, 1>>],
         inbox[<<d, 1>>], inbox[<<e, 1>>], <<d, 1>>, <<e, 1>>)

NegotiationInv ==
    \A d, e \in Device : d # e /\ First(d) /\ First(e) => Negotiation(d, e)

NegInv == StrangersInv /\ NewcomersInv /\ GoneInv /\ NegotiationInv

LEMMA FirstParts ==
    ASSUME TypeOK, NEW d \in Device, session[d] = 1
    PROVE  <<d, 1>> \in Client /\ Me(d) = <<d, 1>>
<1>1. Me(d) = <<d, 1>>
  BY DEF Me
<1>2. session[d] > 0
  OBVIOUS
<1>3. QED
  BY <1>1, <1>2, MeParts

-----------------------------------------------------------------------------
(* What a step does to sockets *)

SocketsMove ==
    /\ \A c \in Client : (Fresh(c)' => Fresh(c)) /\ (Gone(c) => Gone(c)')
    /\ \A d \in Device : session'[d] <= 1 => session[d] <= 1

LEMMA MovesNew ==
    ASSUME SocketsMove, NEW d \in Device, New(d)' PROVE New(d)
  BY DEF SocketsMove, New

LEMMA CreateMoves ==
    ASSUME RtcInv, NEW d \in Device, onCreate(d)
    PROVE  SocketsMove /\ \A e \in Device : First(e)' => First(e)
<1>0. TypeOK /\ SocketInv
  BY DEF RtcInv
<1>1. room' = room
  BY DEF onCreate
<1>2. CASE UNCHANGED <<mSignallingState, session, ws, late>>
  BY <1>1, <1>2 DEF SocketsMove, Fresh, Gone, First
<1>3. CASE /\ session[d] < trial.sessions[d]
           /\ session' = [session EXCEPT ![d] = @ + 1]
           /\ ws' = [ws EXCEPT ![<<d, session[d] + 1>>] = "connecting"]
           /\ mSignallingState' = [mSignallingState EXCEPT ![d] = "CONNECTING"]
           /\ late' = [late EXCEPT ![d] = FALSE]
  <2>1. session[d] \in Nat /\ trial.sessions[d] \in 0..MaxSessions
    BY <1>0, MeParts, RtcAssumption DEF TypeOK
  <2>2. PICK c \in Client : c = <<d, session[d] + 1>>
    BY <1>3, <2>1, RtcAssumption DEF Client
  <2>3. c[1] = d /\ c[2] = session[d] + 1
    BY <2>2
  <2>4. ws[c] = "none"
    BY <1>0, <2>1, <2>3 DEF SocketInv
  <2>5. ws'[c] = "connecting" /\ \A x \in Client : x # c => ws'[x] = ws[x]
    BY <1>0, <1>3, <2>2 DEF TypeOK
  <2>6. /\ session'[d] = session[d] + 1 /\ mSignallingState'[d] = "CONNECTING"
        /\ \A e \in Device \ {d} : /\ session'[e] = session[e]
                                   /\ mSignallingState'[e] = mSignallingState[e]
    BY <1>0, <1>3 DEF TypeOK
  <2>7. SocketsMove
    <3>1. \A x \in Client : (Fresh(x)' => Fresh(x)) /\ (Gone(x) => Gone(x)')
      BY <2>4, <2>5 DEF Fresh, Gone
    <3>2. ASSUME NEW e \in Device, session'[e] <= 1 PROVE session[e] <= 1
      BY <2>1, <2>6, <3>2
    <3>3. QED
      BY <3>1, <3>2 DEF SocketsMove
  <2>8. ASSUME NEW e \in Device, First(e)' PROVE First(e)
    <3>1. e # d
      BY <2>6, <2>8 DEF First
    <3>2. session[e] = 1 /\ mSignallingState[e] = "REGISTERED"
      BY <2>6, <2>8, <3>1 DEF First
    <3>3. <<e, 1>> \in Client /\ <<e, 1>> # c
      BY <1>0, <2>3, <3>1, <3>2, FirstParts
    <3>4. QED
      BY <1>1, <2>5, <2>8, <3>2, <3>3 DEF First
  <2>9. QED
    BY <2>7, <2>8
<1>4. QED
  BY <1>2, <1>3 DEF onCreate, initialize

LEMMA DestroyMoves ==
    ASSUME RtcInv, NEW d \in Device, onDestroy(d)
    PROVE  SocketsMove /\ \A e \in Device : First(e)' => First(e)
<1>0. TypeOK
  BY DEF RtcInv
<1>1. /\ room' = room /\ session' = session
      /\ mSignallingState'[d] \in {"IDLE", "CLOSED"}
      /\ \A e \in Device \ {d} : mSignallingState'[e] = mSignallingState[e]
  BY <1>0 DEF onDestroy, destroy, TypeOK
<1>2. \A x \in Client : \/ ws'[x] = ws[x]
                        \/ ws[x] \in {"connecting", "open"} /\ ws'[x] = "closing"
  BY <1>0 DEF onDestroy, destroy, TypeOK
<1>3. SocketsMove
  BY <1>1, <1>2 DEF SocketsMove, Fresh, Gone
<1>4. ASSUME NEW e \in Device, First(e)' PROVE First(e)
  <2>1. e # d /\ session[e] = 1 /\ mSignallingState[e] = "REGISTERED"
    BY <1>1, <1>4 DEF First
  <2>2. <<e, 1>> \in Client
    BY <1>0, <2>1, FirstParts
  <2>3. QED
    BY <1>1, <1>2, <1>4, <2>1, <2>2 DEF First
<1>5. QED
  BY <1>3, <1>4

LEMMA CloseMoves ==
    ASSUME RtcInv, NEW c \in Client, onClose(c) \/ HttpDelete(c)
    PROVE  /\ SocketsMove /\ \A e \in Device : First(e)' => First(e) /\ <<e, 1>> # c
           /\ Left(c) /\ Gone(c)'
<1>0. TypeOK /\ c[1] \in Device
  BY ClientParts DEF RtcInv
<1>1. Left(c) /\ room' = room \ {c}
  BY <1>0, LeaveStep DEF onClose, HttpDelete
<1>2. /\ ws[c] \in {"connecting", "open", "closing"} /\ ws'[c] \in {"closing", "closed"}
      /\ \A x \in Client \ {c} : ws'[x] = ws[x]
  BY <1>0 DEF onClose, HttpDelete, TypeOK
<1>3. session' = session
  BY DEF onClose, HttpDelete, signalling
<1>4. \A e \in Device : e # c[1] => mSignallingState'[e] = mSignallingState[e]
  BY <1>0 DEF onClose, HttpDelete, signalling, TypeOK
<1>5. SocketsMove
  BY <1>2, <1>3 DEF SocketsMove, Fresh, Gone
<1>6. ASSUME NEW e \in Device, First(e)' PROVE First(e) /\ <<e, 1>> # c
  <2>1. session[e] = 1 /\ <<e, 1>> \in room /\ <<e, 1>> # c
    BY <1>1, <1>3, <1>6 DEF First
  <2>2. <<e, 1>> \in Client
    BY <1>0, <2>1, FirstParts
  <2>3. ws[<<e, 1>>] = "open"
    BY <1>2, <1>6, <2>1, <2>2 DEF First
  <2>4. mSignallingState[e] = "REGISTERED"
    <3>1. CASE e # c[1]
      BY <1>4, <1>6, <3>1 DEF First
    <3>2. CASE e = c[1]
      <4>1. mSignallingState'[e] = "CLOSED" \/ mSignallingState' = mSignallingState
        BY <1>0, <3>2 DEF onClose, HttpDelete, signalling, TypeOK
      <4>2. QED
        BY <1>6, <4>1 DEF First
    <3>3. QED
      BY <3>1, <3>2
  <2>5. QED
    BY <2>1, <2>3, <2>4 DEF First
<1>7. QED
  BY <1>1, <1>2, <1>5, <1>6 DEF Gone

LEMMA OpenMoves ==
    ASSUME RtcInv, NEW c \in Client, onOpen(c)
    PROVE  /\ SocketsMove /\ \A e \in Device : First(e)' => First(e) \/ c = <<e, 1>>
           /\ Fresh(c) /\ session' = session
           /\ \E x \in Client : Joined(x) \/ inbox' = inbox
<1>0. TypeOK /\ c[1] \in Device
  BY ClientParts DEF RtcInv
<1>1. /\ session' = session /\ ws[c] = "connecting" /\ ws'[c] = "open"
      /\ \A x \in Client \ {c} : ws'[x] = ws[x]
      /\ \A e \in Device : e # c[1] => mSignallingState'[e] = mSignallingState[e]
  BY <1>0 DEF onOpen, register, TypeOK
<1>2. /\ Me(c[1]) \in Client
      /\ Joined(Me(c[1])) \/ inbox' = inbox
      /\ room' \subseteq room \cup {Me(c[1])}
  BY <1>0, RegisterStep, JoinStep
<1>3. SocketsMove
  BY <1>1 DEF SocketsMove, Fresh, Gone
<1>4. ASSUME NEW e \in Device, First(e)', c # <<e, 1>> PROVE First(e)
  <2>1. session[e] = 1 /\ <<e, 1>> \in Client
    BY <1>0, <1>1, <1>4, FirstParts DEF First
  <2>2. c[1] # e
    <3>1. SUFFICES ASSUME c[1] = e PROVE FALSE
      OBVIOUS
    <3>2. c[2] <= 1 /\ c[2] \in 1..MaxSessions /\ c = <<c[1], c[2]>>
      BY <1>1, <2>1, <3>1, OpenIsCurrent, ClientParts
    <3>3. c[2] = 1
      BY <3>2, RtcAssumption
    <3>4. QED
      BY <1>4, <3>1, <3>2, <3>3
  <2>3. <<e, 1>> \in room
    <3>1. Me(c[1])[1] = c[1]
      BY <1>0, MeParts
    <3>2. QED
      BY <1>2, <1>4, <2>2, <3>1 DEF First
  <2>4. QED
    BY <1>1, <1>4, <2>1, <2>2, <2>3 DEF First
<1>5. QED
  BY <1>1, <1>2, <1>3, <1>4 DEF Fresh

LEMMA StayMoves ==
    ASSUME UNCHANGED <<mSignallingState, session, ws, room>>
    PROVE  SocketsMove /\ \A e \in Device : First(e)' => First(e)
  BY DEF SocketsMove, Fresh, Gone, First

-----------------------------------------------------------------------------
(* Strangers stay strangers, and who has gone stays away *)

Known(d, c) == ~Fresh(c) /\ ~New(d)

\* A new message says only of clients that have gone that they have, and for an agent
\* it is from a client that has been in the room.
Honest(m) ==
    /\ m \in Message
    /\ m.cmd = "del_peer" => Gone(m.id)
    /\ \A s \in Client : ForAgent(m, s) => ~Fresh(s)

QueueMoves(x) ==
    \/ inbox'[x] \in {<<>>, inbox[x]}
    \/ inbox[x] # <<>> /\ inbox'[x] = Tail(inbox[x])
    \/ \E m \in Message : Honest(m)' /\ inbox'[x] = Append(inbox[x], m)

LEMMA QueueMembers ==
    ASSUME TypeOK, NEW x \in Client, QueueMoves(x), NEW k \in 1..Len(inbox'[x])
    PROVE  \/ \E j \in 1..Len(inbox[x]) : inbox'[x][k] = inbox[x][j]
           \/ Honest(inbox[x][k])'
<1>0. PICK q \in Seq(Message) : q = inbox[x]
  BY DEF TypeOK
<1>1. PICK r : r = inbox'[x]
  OBVIOUS
<1>2. CASE r = <<>>
  <2>1. k \in 1..0
    BY <1>1, <1>2, EmptySeq
  <2>2. QED
    BY <2>1
<1>3. CASE r = q
  BY <1>0, <1>1, <1>3
<1>4. CASE q # <<>> /\ r = Tail(q)
  <2>1. PICK n \in Nat : n = Len(r) /\ Len(q) = n + 1
    BY <1>4, TailParts
  <2>2. k \in 1..n
    BY <1>1, <2>1
  <2>3. r[k] = q[k + 1] /\ k + 1 \in 1..(n + 1)
    BY <1>4, <2>1, <2>2, TailParts
  <2>4. QED
    BY <1>0, <1>1, <2>1, <2>3
<1>5. CASE \E m \in Message : Honest(m)' /\ r = Append(q, m)
  <2>1. PICK m \in Message : Honest(m)' /\ r = Append(q, m)
    BY <1>5
  <2>2. PICK n \in Nat : n = Len(q)
    BY LenProperties
  <2>3. Len(r) = n + 1 /\ r[n + 1] = m /\ \A i \in 1..n : r[i] = q[i]
    BY <2>1, <2>2, AppendParts
  <2>4. k \in 1..(n + 1)
    BY <1>1, <2>3
  <2>5. k = n + 1 \/ k \in 1..n
    BY <2>4
  <2>6. QED
    BY <1>0, <1>1, <2>1, <2>2, <2>3, <2>5
<1>6. QED
  BY <1>0, <1>1, <1>2, <1>3, <1>4, <1>5 DEF QueueMoves

LEMMA UnknownKeeps ==
    ASSUME TypeOK, TypeOK', StrangersInv, NewcomersInv, GoneInv, SocketsMove,
           \A d \in Device, c \in Client :
              mRtcAgentMap'[d][c] # NoAgent => mRtcAgentMap[d][c] # NoAgent \/ Known(d, c),
           \A d \in Device : \A c \in mPeerList'[d] : c \in mPeerList[d] \/ Known(d, c),
           \A x \in Client : QueueMoves(x)
    PROVE  StrangersInv' /\ NewcomersInv' /\ GoneInv'
<1>1. \A c \in Client : (Fresh(c)' => Fresh(c)) /\ (Gone(c) => Gone(c)')
  BY DEF SocketsMove
<1>2. ASSUME NEW c \in Client, Fresh(c)'
      PROVE  /\ \A d \in Device : mRtcAgentMap'[d][c] = NoAgent /\ c \notin mPeerList'[d]
             /\ \A x \in Client : Unheard(inbox'[x], c)
  <2>1. Fresh(c)
    BY <1>1, <1>2
  <2>2. \A d \in Device : mRtcAgentMap'[d][c] = NoAgent /\ c \notin mPeerList'[d]
    BY <2>1 DEF StrangersInv, Known
  <2>3. ASSUME NEW x \in Client, NEW k \in 1..Len(inbox'[x]) PROVE ~ForAgent(inbox'[x][k], c)
    <3>1. CASE \E j \in 1..Len(inbox[x]) : inbox'[x][k] = inbox[x][j]
      BY <2>1, <3>1 DEF StrangersInv, Unheard
    <3>2. CASE Honest(inbox[x][k])'
      BY <1>2, <3>2 DEF Honest
    <3>3. QED
      BY <3>1, <3>2, QueueMembers
  <2>4. QED
    BY <2>2, <2>3 DEF Unheard
<1>3. StrangersInv'
  BY <1>2 DEF StrangersInv
<1>4. ASSUME NEW d \in Device, New(d)'
      PROVE  mPeerList'[d] = {} /\ \A c \in Client : mRtcAgentMap'[d][c] = NoAgent
  <2>1. New(d)
    BY <1>4, MovesNew
  <2>2. \A c \in Client : mRtcAgentMap'[d][c] = NoAgent
    BY <2>1 DEF NewcomersInv, Known
  <2>3. \A c \in mPeerList'[d] : FALSE
    BY <2>1 DEF NewcomersInv, Known
  <2>4. QED
    BY <2>2, <2>3
<1>5. NewcomersInv'
  BY <1>4 DEF NewcomersInv
<1>6. ASSUME NEW x \in Client, NEW k \in 1..Len(inbox'[x]), inbox'[x][k].cmd = "del_peer"
      PROVE  Gone(inbox[x][k].id)'
  <2>1. CASE \E j \in 1..Len(inbox[x]) : inbox'[x][k] = inbox[x][j]
    <3>1. PICK j \in 1..Len(inbox[x]) : inbox'[x][k] = inbox[x][j]
      BY <2>1
    <3>2. PICK m : m = inbox[x][j] /\ m = inbox'[x][k]
      BY <3>1
    <3>3. m.cmd = "del_peer" /\ Gone(m.id)
      BY <1>6, <3>1, <3>2 DEF GoneInv
    <3>4. m \in Message
      <4>1. PICK q \in Seq(Message) : q = inbox[x]
        BY DEF TypeOK
      <4>2. j \in 1..Len(q)
        BY <4>1
      <4>3. QED
        BY <3>2, <4>1, <4>2, ElementOfSeq
    <3>5. m.id \in Client
      BY <3>3, <3>4, MessageParts
    <3>6. ws'[m.id] \in {"closing", "closed"}
      BY <1>1, <3>3, <3>5 DEF Gone
    <3>7. QED
      BY <3>2, <3>6 DEF Gone
  <2>2. CASE Honest(inbox[x][k])'
    BY <1>6, <2>2 DEF Honest, Gone
  <2>3. QED
    BY <2>1, <2>2, QueueMembers
<1>7. GoneInv'
  BY <1>6 DEF GoneInv
<1>8. QED
  BY <1>3, <1>5, <1>7

-----------------------------------------------------------------------------
(* Negotiations that a step leaves alone *)

LEMMA FrameNegotiation ==
    ASSUME NEW d, NEW e, Negotiation(d, e),
           mRtcAgentMap'[d][<<e, 1>>] = mRtcAgentMap[d][<<e, 1>>],
           mRtcAgentMap'[e][<<d, 1>>] = mRtcAgentMap[e][<<d, 1>>],
           Alike(inbox[<<d, 1>>], inbox'[<<d, 1>>], <<e, 1>>),
           Alike(inbox[<<e, 1>>], inbox'[<<e, 1>>], <<d, 1>>)
    PROVE  Negotiation(d, e)'
<1>1. PICK x : x = <<d, 1>>
  OBVIOUS
<1>2. PICK y : y = <<e, 1>>
  OBVIOUS
<1>3. Pair(mRtcAgentMap[d][y], mRtcAgentMap[e][x], inbox[x], inbox[y], x, y)
  BY <1>1, <1>2 DEF Negotiation
<1>4. Pair(mRtcAgentMap[d][y], mRtcAgentMap[e][x], inbox'[x], inbox'[y], x, y)
  BY <1>1, <1>2, <1>3, PairAlike
<1>5. QED
  BY <1>1, <1>2, <1>4 DEF Negotiation

LEMMA NegotiationSwap ==
    ASSUME NEW d, NEW e, Negotiation(d, e) PROVE Negotiation(e, d)
  BY PairSwap DEF Negotiation

LEMMA NegotiationSwapNext ==
    ASSUME NEW d, NEW e, Negotiation(d, e)' PROVE Negotiation(e, d)'
  BY PairSwap DEF Negotiation

LEMMA JoinedQueues ==
    ASSUME TypeOK, TypeOK', NEW x \in Client, Joined(x), NEW y \in Client
    PROVE  QueueMoves(y) /\ \A s : Alike(inbox[y], inbox'[y], s)
<1>1. PICK q \in Seq(Message) : q = inbox[y]
  BY DEF TypeOK
<1>2. /\ ListMessage(room') \in Message /\ ListMessage(room').cmd = "peer_list"
      /\ AddMessage(x) \in Message /\ AddMessage(x).cmd = "add_peer"
  BY MessageForms DEF ListMessage, AddMessage, TypeOK
<1>3. CASE inbox'[y] = q
  BY <1>1, <1>3, AlikeSame DEF QueueMoves
<1>4. CASE \E m \in Message : m.cmd \in {"peer_list", "add_peer"} /\ inbox'[y] = Append(q, m)
  <2>1. PICK m \in Message : m.cmd \in {"peer_list", "add_peer"} /\ inbox'[y] = Append(q, m)
    BY <1>4
  <2>2. m.cmd # "del_peer" /\ \A s : ~ForAgent(m, s)
    BY <2>1 DEF ForAgent
  <2>3. Honest(m)'
    BY <2>2 DEF Honest
  <2>4. QueueMoves(y)
    BY <1>1, <2>1, <2>3 DEF QueueMoves
  <2>5. \A s : Alike(q, Append(q, m), s)
    BY <2>2, AlikeAppend
  <2>6. QED
    BY <1>1, <2>1, <2>4, <2>5
<1>5. inbox'[y] = q \/ \E m \in Message : m.cmd \in {"peer_list", "add_peer"} /\ inbox'[y] = Append(q, m)
  <2>1. CASE y = x
    BY <1>1, <1>2, <2>1 DEF Joined
  <2>2. CASE y # x
    BY <1>1, <1>2, <2>2 DEF Joined
  <2>3. QED
    BY <2>1, <2>2
<1>6. QED
  BY <1>3, <1>4, <1>5

LEMMA LeftQueues ==
    ASSUME TypeOK, NEW x \in Client, Left(x), Gone(x)', NEW y \in Client
    PROVE  QueueMoves(y) /\ (y # x => \A s : Alike(inbox[y], inbox'[y], s))
<1>1. PICK q \in Seq(Message) : q = inbox[y]
  BY DEF TypeOK
<1>2. PICK m \in Message : m = DelMessage(x)
  BY MessageForms DEF DelMessage
<1>3. m.cmd = "del_peer" /\ m.id = x
  BY <1>2 DEF DelMessage
<1>4. \A s : ~ForAgent(m, s)
  BY <1>3 DEF ForAgent
<1>5. Honest(m)'
  BY <1>3, <1>4 DEF Honest, Gone
<1>6. CASE y = x
  BY <1>6 DEF Left, QueueMoves
<1>7. CASE y # x
  <2>1. inbox'[y] = q \/ inbox'[y] = Append(q, m)
    BY <1>1, <1>2, <1>7 DEF Left
  <2>2. \A s : Alike(q, q, s) /\ Alike(q, Append(q, m), s)
    BY <1>4, AlikeSame, AlikeAppend
  <2>3. QED
    BY <1>1, <1>5, <2>1, <2>2 DEF QueueMoves
<1>8. QED
  BY <1>6, <1>7

-----------------------------------------------------------------------------
(* The steps of the sockets *)

\* What is left to show when no agent changes, and every queue with it.
LEMMA AgentsKeep ==
    ASSUME TypeOK, TypeOK', StrangersInv, NewcomersInv, GoneInv, SocketsMove, agents' = agents,
           \A d \in Device : mPeerList'[d] \subseteq mPeerList[d],
           \A x \in Client : QueueMoves(x),
           \A d, e \in Device : d # e /\ First(d)' /\ First(e)' =>
              /\ Negotiation(d, e)
              /\ Alike(inbox[<<d, 1>>], inbox'[<<d, 1>>], <<e, 1>>)
              /\ Alike(inbox[<<e, 1>>], inbox'[<<e, 1>>], <<d, 1>>)
    PROVE  NegInv'
<1>1. mRtcAgentMap' = mRtcAgentMap
  BY DEF agents
<1>2. StrangersInv' /\ NewcomersInv' /\ GoneInv'
  BY <1>1, UnknownKeeps
<1>3. ASSUME NEW d \in Device, NEW e \in Device, d # e, First(d)', First(e)'
      PROVE  Negotiation(d, e)'
  BY <1>1, <1>3, FrameNegotiation
<1>4. NegotiationInv'
  BY <1>3 DEF NegotiationInv
<1>5. QED
  BY <1>2, <1>4 DEF NegInv

LEMMA SameQueues ==
    ASSUME inbox' = inbox, NEW x
    PROVE  QueueMoves(x) /\ \A s : Alike(inbox[x], inbox'[x], s)
  BY AlikeSame DEF QueueMoves

LEMMA CreateNegotiates ==
    ASSUME RtcInv, TypeOK', NegInv, NEW d \in Device, onCreate(d) \/ onDestroy(d)
    PROVE  NegInv'
<1>1. TypeOK /\ StrangersInv /\ NewcomersInv /\ GoneInv /\ NegotiationInv
  BY DEF RtcInv, NegInv
<1>2. SocketsMove /\ \A e \in Device : First(e)' => First(e)
  BY CreateMoves, DestroyMoves
<1>3. agents' = agents /\ inbox' = inbox
  BY DEF onCreate, onDestroy
<1>4. \A e \in Device : mPeerList'[e] \subseteq mPeerList[e]
  BY <1>1 DEF onCreate, onDestroy, TypeOK
<1>5. \A p, q \in Device : p # q /\ First(p)' /\ First(q)' => Negotiation(p, q)
  BY <1>1, <1>2 DEF NegotiationInv
<1>6. QED
  BY <1>1, <1>2, <1>3, <1>4, <1>5, SameQueues, AgentsKeep

LEMMA CloseNegotiates ==
    ASSUME RtcInv, TypeOK', NegInv, NEW c \in Client, onClose(c) \/ HttpDelete(c)
    PROVE  NegInv'
<1>1. TypeOK /\ StrangersInv /\ NewcomersInv /\ GoneInv /\ NegotiationInv
  BY DEF RtcInv, NegInv
<1>2. /\ SocketsMove /\ Left(c) /\ Gone(c)'
      /\ \A e \in Device : First(e)' => First(e) /\ <<e, 1>> # c
  BY CloseMoves
<1>3. agents' = agents /\ mPeerList' = mPeerList
  BY DEF onClose, HttpDelete, signalling
<1>4. ASSUME NEW e \in Device, First(e)'
      PROVE  \A s : Alike(inbox[<<e, 1>>], inbox'[<<e, 1>>], s)
  <2>1. <<e, 1>> # c /\ session[e] = 1
    BY <1>2, <1>4 DEF First
  <2>2. <<e, 1>> \in Client
    BY <1>1, <2>1, FirstParts
  <2>3. QED
    BY <1>1, <1>2, <2>1, <2>2, LeftQueues
<1>5. \A p, q \in Device : p # q /\ First(p)' /\ First(q)' => Negotiation(p, q)
  BY <1>1, <1>2 DEF NegotiationInv
<1>6. \A x \in Client : QueueMoves(x)
  BY <1>1, <1>2, LeftQueues
<1>7. QED
  BY <1>1, <1>2, <1>3, <1>4, <1>5, <1>6, AgentsKeep

\* A client that registers has never been in the room: nobody knows it and it knows nobody.
LEMMA NewNegotiation ==
    ASSUME RtcInv, NegInv, NEW d \in Device, NEW e \in Device, d # e, session[d] = 1,
           <<e, 1>> \in Client, Fresh(<<d, 1>>)
    PROVE  Negotiation(d, e)
<1>1. TypeOK /\ RoomInv /\ StrangersInv /\ NewcomersInv
  BY DEF RtcInv, NegInv
<1>2. PICK x \in Client : x = <<d, 1>>
  BY <1>1, FirstParts
<1>3. PICK y \in Client : y = <<e, 1>>
  OBVIOUS
<1>4. Fresh(x) /\ New(d)
  BY <1>2 DEF New
<1>5. mRtcAgentMap[d][y] = NoAgent /\ mRtcAgentMap[e][x] = NoAgent
  BY <1>1, <1>4 DEF StrangersInv, NewcomersInv
<1>6. inbox[x] = <<>>
  BY <1>1, <1>4 DEF RoomInv
<1>7. \A k \in 1..Len(inbox[x]) : ~ForAgent(inbox[x][k], y)
  <2>1. \A k \in 1..Len(inbox[x]) : FALSE
    BY <1>6, EmptySeq
  <2>2. QED
    BY <2>1
<1>8. \A k \in 1..Len(inbox[y]) : ~ForAgent(inbox[y][k], x)
  BY <1>1, <1>4 DEF StrangersInv, Unheard
<1>9. Pair(NoAgent, NoAgent, inbox[x], inbox[y], x, y)
  BY <1>7, <1>8, PairNew
<1>10. QED
  BY <1>2, <1>3, <1>5, <1>9 DEF Negotiation

LEMMA OpenNegotiates ==
    ASSUME RtcInv, TypeOK', NegInv, NEW c \in Client, onOpen(c)
    PROVE  NegInv'
<1>1. TypeOK /\ StrangersInv /\ NewcomersInv /\ GoneInv /\ NegotiationInv
  BY DEF RtcInv, NegInv
<1>2. /\ SocketsMove /\ Fresh(c) /\ session' = session
      /\ \A e \in Device : First(e)' => First(e) \/ c = <<e, 1>>
  BY OpenMoves
<1>3. PICK x \in Client : Joined(x) \/ inbox' = inbox
  BY OpenMoves
<1>4. agents' = agents /\ mPeerList' = mPeerList
  BY DEF onOpen
<1>5. \A y \in Client : QueueMoves(y) /\ \A s : Alike(inbox[y], inbox'[y], s)
  <2>1. CASE Joined(x)
    BY <1>1, <2>1, JoinedQueues
  <2>2. CASE inbox' = inbox
    BY <2>2, SameQueues
  <2>3. QED
    BY <1>3, <2>1, <2>2
<1>6. \A e \in Device : First(e)' => session[e] = 1 /\ <<e, 1>> \in Client
  BY <1>1, <1>2, FirstParts DEF First
<1>7. ASSUME NEW p \in Device, NEW q \in Device, p # q, First(p)', First(q)'
      PROVE  Negotiation(p, q)
  <2>1. CASE c = <<p, 1>>
    BY <1>2, <1>6, <1>7, <2>1, NewNegotiation
  <2>2. CASE c = <<q, 1>>
    <3>1. Negotiation(q, p)
      BY <1>2, <1>6, <1>7, <2>2, NewNegotiation
    <3>2. QED
      BY <3>1, NegotiationSwap
  <2>3. CASE c # <<p, 1>> /\ c # <<q, 1>>
    BY <1>1, <1>2, <1>7, <2>3 DEF NegotiationInv
  <2>4. QED
    BY <2>1, <2>2, <2>3
<1>8. QED
  BY <1>1, <1>2, <1>4, <1>5, <1>6, <1>7, AgentsKeep

-----------------------------------------------------------------------------
(* The steps of an agent *)

\* One agent of d changes, that for client c, and the two of d's device and another.
LEMMA OnePair ==
    ASSUME NEW d, NEW c,
           \A p, q \in Device :
              p # q /\ First(p)' /\ First(q)' /\ p = d /\ c = <<q, 1>> => Negotiation(p, q)',
           \A p, q \in Device :
              /\ p # q /\ First(p)' /\ First(q)'
              /\ ~(p = d /\ c = <<q, 1>>) /\ ~(q = d /\ c = <<p, 1>>)
              => Negotiation(p, q)'
    PROVE  NegotiationInv'
<1>1. ASSUME NEW p \in Device, NEW q \in Device, p # q, First(p)', First(q)'
      PROVE  Negotiation(p, q)'
  <2>1. CASE q = d /\ c = <<p, 1>>
    <3>1. Negotiation(q, p)'
      BY <1>1, <2>1
    <3>2. QED
      BY <3>1, NegotiationSwapNext
  <2>2. QED
    BY <1>1, <2>1
<1>2. QED
  BY <1>1 DEF NegotiationInv

LEMMA ClickNegotiates ==
    ASSUME RtcInv, TypeOK', NegInv, NEW d \in Device, NEW c \in Client, onItemClick(d, c)
    PROVE  NegInv'
<1>1. TypeOK /\ StrangersInv /\ NewcomersInv /\ GoneInv /\ NegotiationInv
  BY DEF RtcInv, NegInv
<1>2. /\ UNCHANGED <<mSignallingState, session, ws, room>> /\ inbox' = inbox
      /\ mPeerList' = mPeerList
  BY DEF onItemClick, signalling, server
<1>3. SocketsMove /\ \A e \in Device : First(e)' => First(e)
  BY <1>2, StayMoves
<1>4. PICK v \in Agent : v = createDataChannel(NewAgent, "offer")
  BY AgentTypes DEF Sdp
<1>5. mRtcAgentMap' = [mRtcAgentMap EXCEPT ![d][c] = v] /\ mRtcAgentMap[d][c] = NoAgent
  BY <1>4 DEF onItemClick, createChannel
<1>6. /\ mRtcAgentMap'[d][c] = v
      /\ \A e \in Device, x \in Client : e # d \/ x # c => mRtcAgentMap'[e][x] = mRtcAgentMap[e][x]
  BY <1>1, <1>5, AgentSet
<1>7. Known(d, c)
  <2>1. c \in mPeerList[d]
    BY DEF onItemClick
  <2>2. QED
    BY <1>1, <2>1 DEF Known, StrangersInv, NewcomersInv
<1>8. StrangersInv' /\ NewcomersInv' /\ GoneInv'
  <2>1. \A x \in Client : QueueMoves(x)
    BY <1>2, SameQueues
  <2>2. \A e \in Device, x \in Client :
           mRtcAgentMap'[e][x] # NoAgent => mRtcAgentMap[e][x] # NoAgent \/ Known(e, x)
    BY <1>6, <1>7
  <2>3. \A e \in Device : \A x \in mPeerList'[e] : x \in mPeerList[e] \/ Known(e, x)
    BY <1>2
  <2>4. QED
    BY <1>1, <1>3, <2>1, <2>2, <2>3, UnknownKeeps
<1>9. ASSUME NEW p \in Device, NEW q \in Device, p # q, First(p)', First(q)'
      PROVE  Negotiation(p, q) /\ <<p, 1>> \in Client /\ <<q, 1>> \in Client
  BY <1>1, <1>3, <1>9, FirstParts DEF NegotiationInv, First
<1>10. ASSUME NEW p \in Device, NEW q \in Device, p # q, First(p)', First(q)',
              p = d, c = <<q, 1>>
       PROVE  Negotiation(p, q)'
  <2>1. PICK x : x = <<p, 1>>
    OBVIOUS
  <2>2. mRtcAgentMap'[q][x] = mRtcAgentMap[q][x]
    BY <1>6, <1>9, <1>10, <2>1
  <2>3. Pair(NoAgent, mRtcAgentMap[q][x], inbox[x], inbox[c], x, c)
    BY <1>5, <1>9, <1>10, <2>1 DEF Negotiation
  <2>4. Pair(v, mRtcAgentMap[q][x], inbox[x], inbox[c], x, c)
    BY <1>4, <2>3, PairClick
  <2>5. QED
    BY <1>2, <1>6, <1>10, <2>1, <2>2, <2>4 DEF Negotiation
<1>11. ASSUME NEW p \in Device, NEW q \in Device, p # q, First(p)', First(q)',
              ~(p = d /\ c = <<q, 1>>), ~(q = d /\ c = <<p, 1>>)
       PROVE  Negotiation(p, q)'
  BY <1>2, <1>6, <1>9, <1>11, SameQueues, FrameNegotiation
<1>12. NegotiationInv'
  BY <1>10, <1>11, OnePair
<1>13. QED
  BY <1>8, <1>12 DEF NegInv

\* What sendToPeer does with a message from d to c.
CanSend(d, c) ==
    mSignallingState[d] = "REGISTERED" /\ ws[Me(d)] = "open" /\ {Me(d), c} \subseteq room

SendsTo(d, c, cmd) ==
    \/ ~CanSend(d, c) /\ inbox' = inbox
    \/ /\ CanSend(d, c) /\ Me(d) \in Client
       /\ \A x \in Client \ {c} : inbox'[x] = inbox[x]
       /\ \E m \in Message : /\ m.cmd = cmd /\ m.sourceid = Me(d)
                             /\ inbox'[c] = Append(inbox[c], m)

LEMMA SendParts ==
    ASSUME TypeOK, NEW d \in Device, NEW c \in Client, NEW cmd \in {"offer", "answer", "candidate"},
           sendToPeer(d, c, cmd)
    PROVE  SendsTo(d, c, cmd)
<1>1. inbox \in [Client -> Seq(Message)] /\ room \subseteq Client
  BY DEF TypeOK
<1>2. CASE ~CanSend(d, c)
  BY <1>2 DEF sendToPeer, SendsTo, CanSend
<1>3. CASE CanSend(d, c)
  <2>1. Me(d) \in Client
    BY <1>1, <1>3 DEF CanSend
  <2>2. inbox' = [inbox EXCEPT ![c] = Append(@, [cmd |-> cmd, sourceid |-> Me(d)])]
    BY <1>3 DEF sendToPeer, CanSend
  <2>3. PICK m \in Message : m = [cmd |-> cmd, sourceid |-> Me(d)]
    BY <2>1, MessageForms
  <2>4. m.cmd = cmd /\ m.sourceid = Me(d)
    BY <2>3
  <2>5. inbox'[c] = Append(inbox[c], m) /\ \A x \in Client \ {c} : inbox'[x] = inbox[x]
    BY <1>1, <2>2, <2>3
  <2>6. QED
    BY <1>3, <2>1, <2>4, <2>5 DEF SendsTo
<1>4. QED
  BY <1>2, <1>3

LEMMA SendQueues ==
    ASSUME TypeOK, NEW d \in Device, NEW c \in Client, NEW cmd \in {"offer", "answer", "candidate"},
           inbox' = inbox \/ SendsTo(d, c, cmd), ws' = ws, NEW y \in Client
    PROVE  QueueMoves(y) /\ \A s : y # c \/ s # Me(d) => Alike(inbox[y], inbox'[y], s)
<1>1. PICK q \in Seq(Message) : q = inbox[y]
  BY DEF TypeOK
<1>2. CASE inbox'[y] = q
  BY <1>1, <1>2, AlikeSame DEF QueueMoves
<1>3. CASE inbox'[y] # q
  <2>1. /\ y = c /\ CanSend(d, c)
        /\ \E m \in Message : m.cmd = cmd /\ m.sourceid = Me(d) /\ inbox'[c] = Append(inbox[c], m)
    BY <1>1, <1>3 DEF SendsTo
  <2>2. PICK m \in Message : m.cmd = cmd /\ m.sourceid = Me(d) /\ inbox'[y] = Append(q, m)
    BY <1>1, <2>1
  <2>3. \A s : ForAgent(m, s) => s = Me(d)
    BY <2>2 DEF ForAgent
  <2>4. ws'[Me(d)] = "open"
    BY <2>1 DEF CanSend
  <2>5. Honest(m)'
    BY <2>2, <2>3, <2>4 DEF Honest, Fresh
  <2>6. QueueMoves(y)
    BY <1>1, <2>2, <2>5 DEF QueueMoves
  <2>7. \A s : s # Me(d) => Alike(q, Append(q, m), s)
    BY <2>3, AlikeAppend
  <2>8. QED
    BY <1>1, <2>1, <2>2, <2>6, <2>7
<1>4. QED
  BY <1>2, <1>3

\* What an agent does of its own accord.
Speaks(d, c, sdp) ==
    LET a == mRtcAgentMap[d][c]
        b == [a EXCEPT !.creating = Tail(@)]
    IN
    /\ sdp = Head(a.creating) /\ a.creating # <<>> /\ b \in Agent
    /\ sdp = "answer" => a.pc = "remoteOffer"
    /\ mRtcAgentMap' = [mRtcAgentMap EXCEPT ![d][c] = setLocalDescription(b, sdp)]
    /\ SendsTo(d, c, sdp)

Fails(d, c) ==
    LET a == mRtcAgentMap[d][c]
        b == [a EXCEPT !.creating = Tail(@)]
    IN
    /\ Head(a.creating) = "answer" /\ a.creating # <<>> /\ b \in Agent /\ a.pc # "remoteOffer"
    /\ mRtcAgentMap' = [mRtcAgentMap EXCEPT ![d][c] = b]
    /\ inbox' = inbox

Gathers(d, c) ==
    LET a == mRtcAgentMap[d][c]
        b == [a EXCEPT !.gathering = FALSE]
    IN
    /\ a.gathering /\ b \in Agent
    /\ mRtcAgentMap' = [mRtcAgentMap EXCEPT ![d][c] = b]
    /\ SendsTo(d, c, "candidate")

LEMMA DescriptionStep ==
    ASSUME TypeOK, NEW d \in Device, NEW c \in Client,
           onCreateSuccess(d, c) \/ onIceCandidate(d, c)
    PROVE  /\ \/ \E sdp \in Sdp : Speaks(d, c, sdp)
              \/ Fails(d, c)
              \/ Gathers(d, c)
           /\ mRtcAgentMap[d][c] # NoAgent
           /\ UNCHANGED <<mSignallingState, session, ws, room>> /\ mPeerList' = mPeerList
<1> DEFINE a == mRtcAgentMap[d][c]
<1>1. a \in Agent
  BY DEF TypeOK
<1>2. a # NoAgent
  BY AgentTypes DEF onCreateSuccess, onIceCandidate
<1>3. UNCHANGED <<mSignallingState, session, ws, room>> /\ mPeerList' = mPeerList
  BY DEF onCreateSuccess, onIceCandidate, signalling
<1>4. CASE onIceCandidate(d, c)
  <2>1. PICK v \in Agent : v = [a EXCEPT !.gathering = FALSE]
    BY <1>1, AgentParts
  <2>2. mRtcAgentMap' = [mRtcAgentMap EXCEPT ![d][c] = v]
    BY <1>4, <2>1 DEF onIceCandidate, TypeOK
  <2>3. SendsTo(d, c, "candidate")
    BY <1>4, SendParts DEF onIceCandidate
  <2>4. Gathers(d, c)
    BY <1>4, <2>1, <2>2, <2>3 DEF onIceCandidate, Gathers
  <2>5. QED
    BY <1>2, <1>3, <2>4
<1>5. CASE onCreateSuccess(d, c)
  <2>1. a.creating \in Seq(Sdp) /\ a.creating # <<>>
    BY <1>1, <1>5 DEF onCreateSuccess, Agent, Sdp
  <2>2. PICK sdp \in Sdp : sdp = Head(a.creating)
    BY <2>1, HeadTailProperties
  <2>3. Tail(a.creating) \in Seq(Sdp)
    BY <2>1, HeadTailProperties
  <2>4. PICK b \in Agent : b = [a EXCEPT !.creating = Tail(@)]
    BY <1>1, <2>3 DEF Agent, Sdp
  <2>5. \/ /\ sdp = "answer" /\ a.pc # "remoteOffer"
           /\ mRtcAgentMap' = [mRtcAgentMap EXCEPT ![d][c] = b] /\ inbox' = inbox
        \/ /\ ~(sdp = "answer" /\ a.pc # "remoteOffer")
           /\ mRtcAgentMap' = [mRtcAgentMap EXCEPT ![d][c] = setLocalDescription(b, sdp)]
           /\ sendToPeer(d, c, sdp)
    BY <1>5, <2>2, <2>4 DEF onCreateSuccess
  <2>6. CASE /\ sdp = "answer" /\ a.pc # "remoteOffer"
             /\ mRtcAgentMap' = [mRtcAgentMap EXCEPT ![d][c] = b] /\ inbox' = inbox
    BY <1>2, <1>3, <2>1, <2>2, <2>4, <2>6 DEF Fails
  <2>7. CASE /\ ~(sdp = "answer" /\ a.pc # "remoteOffer")
             /\ mRtcAgentMap' = [mRtcAgentMap EXCEPT ![d][c] = setLocalDescription(b, sdp)]
             /\ sendToPeer(d, c, sdp)
    <3>1. SendsTo(d, c, sdp)
      BY <2>7, SendParts DEF Sdp
    <3>2. Speaks(d, c, sdp)
      BY <2>1, <2>2, <2>4, <2>7, <3>1 DEF Speaks
    <3>3. QED
      BY <1>2, <1>3, <3>2
  <2>8. QED
    BY <2>5, <2>6, <2>7
<1>6. QED
  BY <1>4, <1>5

\* The agent of d for c, and no other, is replaced by v.
Becomes(d, c, v) == mRtcAgentMap' = [mRtcAgentMap EXCEPT ![d][c] = v]

LEMMA OneAgent ==
    ASSUME TypeOK, NEW d \in Device, NEW c \in Client, NEW v \in Agent, Becomes(d, c, v)
    PROVE  /\ mRtcAgentMap'[d][c] = v
           /\ \A e \in Device, x \in Client : e # d \/ x # c => mRtcAgentMap'[e][x] = mRtcAgentMap[e][x]
<1>1. mRtcAgentMap \in [Device -> [Client -> Agent]]
  BY DEF TypeOK
<1>2. mRtcAgentMap'[d][c] = v
  BY <1>1 DEF Becomes
<1>3. \A e \in Device, x \in Client : e # d \/ x # c => mRtcAgentMap'[e][x] = mRtcAgentMap[e][x]
  BY <1>1 DEF Becomes
<1>4. QED
  BY <1>2, <1>3

\* In the negotiation of d, with client x, and e, with client y, d's agent acts.
LEMMA DescriptionPair ==
    ASSUME TypeOK, NEW d \in Device, NEW e \in Device, d # e,
           NEW x \in Client, NEW y \in Client, x # y, Me(d) = x, CanSend(d, y),
           Pair(mRtcAgentMap[d][y], mRtcAgentMap[e][x], inbox[x], inbox[y], x, y),
           (\E sdp \in Sdp : Speaks(d, y, sdp)) \/ Fails(d, y) \/ Gathers(d, y)
    PROVE  Pair(mRtcAgentMap'[d][y], mRtcAgentMap'[e][x], inbox'[x], inbox'[y], x, y)
<1> DEFINE Goal == Pair(mRtcAgentMap'[d][y], mRtcAgentMap'[e][x], inbox'[x], inbox'[y], x, y)
<1>1. PICK a \in Agent : a = mRtcAgentMap[d][y]
  BY DEF TypeOK
<1>2. PICK b \in Agent : b = mRtcAgentMap[e][x]
  BY DEF TypeOK
<1>3. PICK qa \in Seq(Message) : qa = inbox[x]
  BY DEF TypeOK
<1>4. PICK qb \in Seq(Message) : qb = inbox[y]
  BY DEF TypeOK
<1>5. Pair(a, b, qa, qb, x, y)
  BY <1>1, <1>2, <1>3, <1>4
<1>6. ASSUME NEW v \in Agent, Becomes(d, y, v),
             NEW rb, inbox'[y] = rb, inbox'[x] = qa, Pair(v, b, qa, rb, x, y)
      PROVE  Goal
  <2>1. mRtcAgentMap'[d][y] = v /\ mRtcAgentMap'[e][x] = mRtcAgentMap[e][x]
    BY <1>6, OneAgent
  <2>2. QED
    BY <1>2, <1>6, <2>1
<1>7. ASSUME NEW cmd, SendsTo(d, y, cmd)
      PROVE  inbox'[x] = qa /\ \E m \in Message : /\ m.cmd = cmd /\ m.sourceid = x
                                                  /\ inbox'[y] = Append(qb, m)
  BY <1>3, <1>4, <1>7 DEF SendsTo
<1>8. CASE \E sdp \in Sdp : Speaks(d, y, sdp)
  <2>1. PICK sdp \in Sdp : Speaks(d, y, sdp)
    BY <1>8
  <2>2. PICK a1 \in Agent : a1 = [a EXCEPT !.creating = Tail(@)]
    BY <1>1, <2>1 DEF Speaks
  <2>3. /\ sdp = Head(a.creating) /\ a.creating # <<>> /\ (sdp = "answer" => a.pc = "remoteOffer")
        /\ Becomes(d, y, setLocalDescription(a1, sdp))
        /\ SendsTo(d, y, sdp)
    BY <1>1, <2>1, <2>2 DEF Speaks, Becomes
  <2>4. a1.pc = a.pc /\ a1.creating = Tail(a.creating) /\ a1.gathering = a.gathering
    BY <2>2 DEF Agent
  <2>5. PICK m \in Message : m.cmd = sdp /\ m.sourceid = x /\ inbox'[y] = Append(qb, m)
    BY <1>7, <2>3
  <2>6. ForAgent(m, x)
    BY <2>5 DEF ForAgent, Sdp
  <2>7. Pair(setLocalDescription(a1, sdp), b, qa, Append(qb, m), x, y)
    BY <1>5, <2>3, <2>4, <2>5, <2>6, PairSends
  <2>8. setLocalDescription(a1, sdp) \in Agent
    BY AgentTypes
  <2>9. QED
    BY <1>6, <1>7, <2>3, <2>5, <2>7, <2>8
<1>9. CASE Fails(d, y)
  <2>1. PICK a1 \in Agent : a1 = [a EXCEPT !.creating = Tail(@)]
    BY <1>1, <1>9 DEF Fails, Becomes
  <2>2. /\ Head(a.creating) = "answer" /\ a.creating # <<>> /\ a.pc # "remoteOffer"
        /\ Becomes(d, y, a1) /\ inbox' = inbox
    BY <1>1, <1>9, <2>1 DEF Fails, Becomes
  <2>3. Pair(a1, b, qa, qb, x, y)
    BY <1>5, <2>1, <2>2, PairFails
  <2>4. QED
    BY <1>3, <1>4, <1>6, <2>2, <2>3
<1>10. CASE Gathers(d, y)
  <2>1. PICK a1 \in Agent : a1 = [a EXCEPT !.gathering = FALSE]
    BY <1>1, <1>10 DEF Gathers, Becomes
  <2>2. /\ a.gathering /\ Becomes(d, y, a1)
        /\ SendsTo(d, y, "candidate")
    BY <1>1, <1>10, <2>1 DEF Gathers, Becomes
  <2>3. PICK m \in Message : m.cmd = "candidate" /\ m.sourceid = x /\ inbox'[y] = Append(qb, m)
    BY <1>7, <2>2
  <2>4. ForAgent(m, x)
    BY <2>3 DEF ForAgent
  <2>5. Pair(a1, b, qa, Append(qb, m), x, y)
    BY <1>5, <2>1, <2>2, <2>3, <2>4, PairGathers
  <2>6. QED
    BY <1>6, <1>7, <2>2, <2>3, <2>5
<1>11. QED
  BY <1>8, <1>9, <1>10

LEMMA DescriptionNegotiates ==
    ASSUME RtcInv, TypeOK', NegInv, NEW d \in Device, NEW c \in Client,
           onCreateSuccess(d, c) \/ onIceCandidate(d, c)
    PROVE  NegInv'
<1>1. TypeOK /\ StrangersInv /\ NewcomersInv /\ GoneInv /\ NegotiationInv
  BY DEF RtcInv, NegInv
<1>2. /\ (\E sdp \in Sdp : Speaks(d, c, sdp)) \/ Fails(d, c) \/ Gathers(d, c)
      /\ mRtcAgentMap[d][c] # NoAgent
      /\ UNCHANGED <<mSignallingState, session, ws, room>> /\ mPeerList' = mPeerList
  BY <1>1, DescriptionStep
<1>3. SocketsMove /\ \A e \in Device : First(e)' => First(e)
  BY <1>2, StayMoves
<1>4. \E v \in Agent : mRtcAgentMap' = [mRtcAgentMap EXCEPT ![d][c] = v]
  BY <1>2, AgentTypes DEF Speaks, Fails, Gathers
<1>5. \A e \in Device, x \in Client : e # d \/ x # c => mRtcAgentMap'[e][x] = mRtcAgentMap[e][x]
  BY <1>1, <1>4, AgentSet
<1>6. \E cmd \in {"offer", "answer", "candidate"} : inbox' = inbox \/ SendsTo(d, c, cmd)
  BY <1>2 DEF Speaks, Fails, Gathers, Sdp
<1>7. \A y \in Client : QueueMoves(y) /\ \A s : y # c \/ s # Me(d) => Alike(inbox[y], inbox'[y], s)
  BY <1>1, <1>2, <1>6, SendQueues
<1>8. StrangersInv' /\ NewcomersInv' /\ GoneInv'
  <2>1. \A e \in Device, x \in Client :
           mRtcAgentMap'[e][x] # NoAgent => mRtcAgentMap[e][x] # NoAgent \/ Known(e, x)
    BY <1>2, <1>5
  <2>2. \A e \in Device : \A x \in mPeerList'[e] : x \in mPeerList[e] \/ Known(e, x)
    BY <1>2
  <2>3. QED
    BY <1>1, <1>3, <1>7, <2>1, <2>2, UnknownKeeps
<1>9. ASSUME NEW p \in Device, NEW q \in Device, p # q, First(p)', First(q)'
      PROVE  /\ Negotiation(p, q) /\ First(p) /\ First(q)
             /\ <<p, 1>> \in Client /\ <<q, 1>> \in Client
  BY <1>1, <1>3, <1>9, FirstParts DEF NegotiationInv, First
<1>10. ASSUME NEW p \in Device, NEW q \in Device, p # q, First(p)', First(q)',
              p = d, c = <<q, 1>>
       PROVE  Negotiation(p, q)'
  <2>1. First(p) /\ First(q) /\ <<p, 1>> \in Client /\ Negotiation(p, q)
    BY <1>9, <1>10
  <2>2. PICK x \in Client : x = <<p, 1>> /\ x # c
    BY <1>10, <2>1
  <2>3. Me(d) = x /\ CanSend(d, c)
    BY <1>10, <2>1, <2>2 DEF First, Me, CanSend
  <2>4. Pair(mRtcAgentMap[d][c], mRtcAgentMap[q][x], inbox[x], inbox[c], x, c)
    BY <1>10, <2>1, <2>2 DEF Negotiation
  <2>5. Pair(mRtcAgentMap'[d][c], mRtcAgentMap'[q][x], inbox'[x], inbox'[c], x, c)
    BY <1>1, <1>2, <1>10, <2>2, <2>3, <2>4, DescriptionPair
  <2>6. QED
    BY <1>10, <2>2, <2>5 DEF Negotiation
<1>11. ASSUME NEW p \in Device, NEW q \in Device, p # q, First(p)', First(q)',
              ~(p = d /\ c = <<q, 1>>), ~(q = d /\ c = <<p, 1>>)
       PROVE  Negotiation(p, q)'
  <2>1. /\ mRtcAgentMap'[p][<<q, 1>>] = mRtcAgentMap[p][<<q, 1>>]
        /\ mRtcAgentMap'[q][<<p, 1>>] = mRtcAgentMap[q][<<p, 1>>]
    BY <1>5, <1>9, <1>11
  <2>2. Me(d)[1] = d
    BY DEF Me
  <2>3. <<p, 1>> # c \/ <<q, 1>> # Me(d)
    BY <1>11, <2>2
  <2>4. <<q, 1>> # c \/ <<p, 1>> # Me(d)
    BY <1>11, <2>2
  <2>5. QED
    BY <1>7, <1>9, <1>11, <2>1, <2>3, <2>4, FrameNegotiation
<1>12. NegotiationInv'
  BY <1>10, <1>11, OnePair
<1>13. QED
  BY <1>8, <1>12 DEF NegInv

\* What a message of the server, and one of a peer, does to the agents.
Forgets(d, c) == c # Me(d) /\ c \in Client /\ Becomes(d, c, NoAgent)

Obeys(c, m) ==
    LET d == c[1]
        a == mRtcAgentMap[d][m.sourceid]
    IN
    /\ m.cmd \in {"offer", "answer", "candidate"} /\ c = Me(d) /\ m.sourceid \in Client
    /\ Becomes(d, m.sourceid, processMessage(IF a = NoAgent THEN NewAgent ELSE a, m.cmd))

LEMMA ObeyStep ==
    ASSUME RtcInv, NEW c \in Client, onTextMessage(c), NEW m, m = Head(inbox[c])
    PROVE  \/ /\ mRtcAgentMap' = mRtcAgentMap
              /\ ~(m.cmd \in {"offer", "answer", "candidate"} /\ c = Me(c[1]))
           \/ m.cmd = "del_peer" /\ Forgets(c[1], m.id)
           \/ Obeys(c, m)
<1>1. TypeOK
  BY DEF RtcInv
<1>2. m \in Message
  BY <1>1, PeersStep
<1>3. \/ m.cmd = "peer_list" /\ processPeerList(c[1], m.peers)
      \/ m.cmd = "add_peer" /\ processAddPeer(c[1], m.id)
      \/ m.cmd = "del_peer" /\ processDelPeer(c[1], m.id)
      \/ m.cmd \in {"offer", "answer", "candidate"} /\ onMiscMsg(c, m)
  BY DEF onTextMessage
<1>4. CASE \/ m.cmd = "peer_list" /\ processPeerList(c[1], m.peers)
           \/ m.cmd = "add_peer" /\ processAddPeer(c[1], m.id)
  BY <1>4 DEF processPeerList, processAddPeer, agents
<1>5. CASE m.cmd = "del_peer" /\ processDelPeer(c[1], m.id)
  <2>1. m.id \in Client
    BY <1>2, <1>5, MessageParts
  <2>2. CASE m.id # Me(c[1])
    BY <1>5, <2>1, <2>2 DEF processDelPeer, onDelPeer, delPeer, Forgets, Becomes
  <2>3. CASE m.id = Me(c[1])
    BY <1>5, <2>3 DEF processDelPeer, agents
  <2>4. QED
    BY <2>2, <2>3
<1>6. CASE m.cmd \in {"offer", "answer", "candidate"} /\ onMiscMsg(c, m)
  <2>1. m.sourceid \in Client
    BY <1>2, <1>6, MessageParts
  <2>2. CASE c = Me(c[1])
    BY <1>6, <2>1, <2>2 DEF onMiscMsg, Obeys, Becomes
  <2>3. CASE c # Me(c[1])
    BY <1>6, <2>3 DEF onMiscMsg, agents
  <2>4. QED
    BY <2>2, <2>3
<1>7. QED
  BY <1>3, <1>4, <1>5, <1>6

\* A device that has had a message is not waiting for its first socket, and knows only
\* clients that have been in the room.
LEMMA HearsKnown ==
    ASSUME RtcInv, NEW c \in Client, ws[c] \in {"open", "closing"}
    PROVE  ~New(c[1])
<1>1. SUFFICES ASSUME New(c[1]) PROVE FALSE
  OBVIOUS
<1>2. c[1] \in Device /\ c[2] <= session[c[1]] /\ c[2] \in 1..MaxSessions /\ c = <<c[1], c[2]>>
  BY OpenIsCurrent, ClientParts
<1>3. session[c[1]] \in Nat /\ session[c[1]] <= 1
  BY <1>1, <1>2, MeParts DEF RtcInv, New
<1>4. c[2] = 1
  BY <1>2, <1>3, RtcAssumption
<1>5. Fresh(c)
  BY <1>1, <1>2, <1>4 DEF New
<1>6. QED
  BY <1>5 DEF Fresh

\* The first message of a queue is one of its messages.
LEMMA HeadMember ==
    ASSUME NEW q \in Seq(Message), q # <<>>
    PROVE  1 \in 1..Len(q) /\ Head(q) = q[1]
<1>1. Len(q) \in Nat /\ Len(q) > 0 /\ Head(q) = q[1]
  BY TailParts
<1>2. QED
  BY <1>1

LEMMA HearUnknown ==
    ASSUME RtcInv, TypeOK', NegInv, NEW c \in Client, onTextMessage(c)
    PROVE  StrangersInv' /\ NewcomersInv' /\ GoneInv'
<1>1. TypeOK /\ NewsInv /\ StrangersInv /\ NewcomersInv /\ GoneInv /\ c[1] \in Device
  BY ClientParts DEF RtcInv, NegInv
<1>2. PICK m : m = Head(inbox[c])
  OBVIOUS
<1>3. PICK d \in Device : d = c[1]
  BY <1>1
<1>4. Heard(c, m) /\ PeersAfter(d, m) /\ m \in Message
  BY <1>1, <1>2, <1>3, HeardStep, PeersStep
<1>5. PICK q \in Seq(Message) : q = inbox[c]
  BY <1>1 DEF TypeOK
<1>6. q # <<>> /\ 1 \in 1..Len(q) /\ m = q[1]
  BY <1>2, <1>4, <1>5, HeadMember DEF Heard
<1>7. ~New(d)
  BY <1>3, <1>4, HearsKnown DEF Heard
<1>8. SocketsMove
  BY <1>4, StayMoves DEF Heard
<1>9. \A x \in Client : QueueMoves(x)
  BY <1>1, <1>4 DEF Heard, QueueMoves, TypeOK
<1>10. ASSUME NEW x \in Client, Names(m, x) PROVE ~Fresh(x)
  BY <1>1, <1>5, <1>6, <1>10 DEF NewsInv, NewsOf, FreshClients
<1>11. ASSUME NEW e \in Device, NEW x \in mPeerList'[e], x \notin mPeerList[e]
       PROVE  Known(e, x)
  <2>1. e = d
    BY <1>3, <1>4, <1>11 DEF Heard
  <2>2. mPeerList'[d] \subseteq Client
    BY DEF TypeOK
  <2>3. Says(m, x)
    BY <1>4, <1>11, <2>1, MessageForms DEF PeersAfter, Says, Message
  <2>4. QED
    BY <1>7, <1>10, <1>11, <2>1, <2>2, <2>3 DEF Known, Names
<1>12. ASSUME NEW e \in Device, NEW x \in Client, mRtcAgentMap'[e][x] # NoAgent,
              mRtcAgentMap[e][x] = NoAgent
       PROVE  Known(e, x)
  <2>1. CASE mRtcAgentMap' = mRtcAgentMap
    BY <1>12, <2>1
  <2>2. CASE Forgets(d, m.id)
    <3>1. PICK y \in Client : y = m.id /\ Becomes(d, y, NoAgent)
      BY <2>2 DEF Forgets
    <3>2. /\ mRtcAgentMap'[d][y] = NoAgent
          /\ \A f \in Device, z \in Client : f # d \/ z # y => mRtcAgentMap'[f][z] = mRtcAgentMap[f][z]
      BY <1>1, <3>1, OneAgent, AgentTypes
    <3>3. QED
      BY <1>12, <3>2
  <2>3. CASE Obeys(c, m)
    <3>1. PICK y \in Client : y = m.sourceid
      BY <2>3 DEF Obeys
    <3>2. PICK v : v = processMessage(IF mRtcAgentMap[d][y] = NoAgent THEN NewAgent
                                      ELSE mRtcAgentMap[d][y], m.cmd)
      OBVIOUS
    <3>3. m.cmd \in {"offer", "answer", "candidate"} /\ Becomes(d, y, v)
      BY <1>3, <2>3, <3>1, <3>2 DEF Obeys
    <3>4. v \in Agent
      <4>1. PICK a \in Agent : a = IF mRtcAgentMap[d][y] = NoAgent THEN NewAgent ELSE mRtcAgentMap[d][y]
        BY <1>1, AgentTypes DEF TypeOK
      <4>2. QED
        BY <3>2, <3>3, <4>1, AgentTypes DEF Sdp
    <3>5. \A f \in Device, z \in Client : f # d \/ z # y => mRtcAgentMap'[f][z] = mRtcAgentMap[f][z]
      BY <1>1, <3>3, <3>4, OneAgent
    <3>6. e = d /\ x = y
      BY <1>12, <3>5
    <3>7. ForAgent(m, y)
      BY <3>1, <3>3 DEF ForAgent
    <3>8. ~Fresh(y)
      BY <1>1, <1>5, <1>6, <3>7 DEF StrangersInv, Unheard
    <3>9. QED
      BY <1>7, <3>6, <3>8 DEF Known
  <2>4. QED
    BY <1>2, <1>3, <2>1, <2>2, <2>3, ObeyStep
<1>13. QED
  BY <1>1, <1>8, <1>9, <1>11, <1>12, UnknownKeeps

\* In the negotiation of d, with client x, and e, with client y, d hears a message.
LEMMA HearPair ==
    ASSUME RtcInv, NegInv, NEW x \in Client, NEW y \in Client, x # y, ws[y] = "open",
           onTextMessage(x), NEW d \in Device, d = x[1], NEW e \in Device, d # e,
           Pair(mRtcAgentMap[d][y], mRtcAgentMap[e][x], inbox[x], inbox[y], x, y),
           x = Me(d)
    PROVE  Pair(mRtcAgentMap'[d][y], mRtcAgentMap'[e][x], inbox'[x], inbox'[y], x, y)
<1>1. TypeOK /\ GoneInv
  BY DEF RtcInv, NegInv
<1>2. PICK m : m = Head(inbox[x])
  OBVIOUS
<1>3. Heard(x, m) /\ m \in Message
  BY <1>1, <1>2, HeardStep, PeersStep
<1>4. PICK qa \in Seq(Message) : qa = inbox[x]
  BY <1>1 DEF TypeOK
<1>5. PICK qb : qb = inbox[y]
  OBVIOUS
<1>6. /\ qa # <<>> /\ m = Head(qa) /\ inbox'[x] = Tail(qa) /\ inbox'[y] = qb
      /\ 1 \in 1..Len(qa) /\ m = qa[1]
  BY <1>1, <1>2, <1>3, <1>4, <1>5, HeadMember DEF Heard, TypeOK
<1>7. PICK a \in Agent : a = mRtcAgentMap[d][y]
  BY <1>1 DEF TypeOK
<1>8. PICK b \in Agent : b = mRtcAgentMap[e][x]
  BY <1>1 DEF TypeOK
<1>9. Pair(a, b, qa, qb, x, y)
  BY <1>4, <1>5, <1>7, <1>8
<1>10. CASE ForAgent(m, y)
  <2>1. PICK a1 \in Agent : a1 = IF a = NoAgent THEN NewAgent ELSE a
    BY AgentTypes
  <2>2. m.cmd \in {"offer", "answer", "candidate"} /\ m.sourceid = y
    BY <1>10 DEF ForAgent
  <2>3. Obeys(x, m)
    BY <1>2, <2>2, ObeyStep
  <2>4. PICK v : v = processMessage(a1, m.cmd)
    OBVIOUS
  <2>5. v \in Agent
    BY <2>2, <2>4, AgentTypes DEF Sdp
  <2>6. Becomes(d, y, v)
    BY <1>7, <2>1, <2>2, <2>3, <2>4 DEF Obeys
  <2>7. mRtcAgentMap'[d][y] = v /\ mRtcAgentMap'[e][x] = b
    BY <1>1, <1>8, <2>5, <2>6, OneAgent
  <2>8. Pair(v, b, Tail(qa), qb, x, y)
    BY <1>6, <1>9, <1>10, <2>1, <2>4, PairHears
  <2>9. QED
    BY <1>6, <2>7, <2>8
<1>11. CASE ~ForAgent(m, y)
  <2>1. mRtcAgentMap'[d][y] = a /\ mRtcAgentMap'[e][x] = b
    <3>1. CASE mRtcAgentMap' = mRtcAgentMap
      BY <1>7, <1>8, <3>1
    <3>2. CASE m.cmd = "del_peer" /\ Forgets(d, m.id)
      <4>1. PICK z \in Client : z = m.id /\ Becomes(d, z, NoAgent)
        BY <3>2 DEF Forgets
      <4>2. Gone(z)
        BY <1>1, <1>4, <1>6, <3>2, <4>1 DEF GoneInv
      <4>3. z # y
        BY <4>2 DEF Gone
      <4>4. NoAgent \in Agent
        BY AgentTypes
      <4>5. \A f \in Device, w \in Client : f # d \/ w # z => mRtcAgentMap'[f][w] = mRtcAgentMap[f][w]
        BY <1>1, <4>1, <4>4, OneAgent
      <4>6. QED
        BY <1>7, <1>8, <4>3, <4>5
    <3>3. CASE Obeys(x, m)
      <4>1. PICK z \in Client : z = m.sourceid
        BY <3>3 DEF Obeys
      <4>2. m.cmd \in {"offer", "answer", "candidate"}
        BY <3>3 DEF Obeys
      <4>3. z # y
        BY <1>11, <4>1, <4>2 DEF ForAgent
      <4>4. PICK a1 \in Agent : a1 = IF mRtcAgentMap[d][z] = NoAgent THEN NewAgent ELSE mRtcAgentMap[d][z]
        BY <1>1, AgentTypes DEF TypeOK
      <4>5. PICK v \in Agent : v = processMessage(a1, m.cmd)
        BY <4>2, AgentTypes DEF Sdp
      <4>6. Becomes(d, z, v)
        BY <3>3, <4>1, <4>4, <4>5 DEF Obeys
      <4>7. \A f \in Device, w \in Client : f # d \/ w # z => mRtcAgentMap'[f][w] = mRtcAgentMap[f][w]
        BY <1>1, <4>6, OneAgent
      <4>8. QED
        BY <1>7, <1>8, <4>3, <4>7
    <3>4. QED
      BY <1>2, <3>1, <3>2, <3>3, ObeyStep
  <2>2. Alike(qa, Tail(qa), y) /\ Alike(qb, qb, x)
    BY <1>6, <1>11, AlikeTail, AlikeSame
  <2>3. Pair(a, b, Tail(qa), qb, x, y)
    BY <1>9, <2>2, PairAlike
  <2>4. QED
    BY <1>6, <2>1, <2>3
<1>12. QED
  BY <1>10, <1>11

\* The agents of other devices are left alone.
LEMMA OthersKeep ==
    ASSUME RtcInv, NEW c \in Client, onTextMessage(c)
    PROVE  \A e \in Device : e # c[1] => \A x \in Client : mRtcAgentMap'[e][x] = mRtcAgentMap[e][x]
<1>1. TypeOK /\ c[1] \in Device
  BY ClientParts DEF RtcInv
<1>2. PICK m : m = Head(inbox[c])
  OBVIOUS
<1>3. PICK d \in Device : d = c[1]
  BY <1>1
<1>4. CASE mRtcAgentMap' = mRtcAgentMap
  BY <1>4
<1>5. CASE Forgets(d, m.id)
  BY <1>1, <1>3, <1>5, OneAgent, AgentTypes DEF Forgets
<1>6. CASE Obeys(c, m)
  <2>1. PICK y \in Client : y = m.sourceid
    BY <1>6 DEF Obeys
  <2>2. m.cmd \in {"offer", "answer", "candidate"}
    BY <1>6 DEF Obeys
  <2>3. PICK a \in Agent : a = IF mRtcAgentMap[d][y] = NoAgent THEN NewAgent ELSE mRtcAgentMap[d][y]
    BY <1>1, AgentTypes DEF TypeOK
  <2>4. PICK v \in Agent : v = processMessage(a, m.cmd)
    BY <2>2, AgentTypes DEF Sdp
  <2>5. Becomes(d, y, v)
    BY <1>3, <1>6, <2>1, <2>3, <2>4 DEF Obeys
  <2>6. QED
    BY <1>1, <1>3, <2>5, OneAgent
<1>7. QED
  BY <1>2, <1>3, <1>4, <1>5, <1>6, ObeyStep

LEMMA HearNegotiates ==
    ASSUME RtcInv, TypeOK', NegInv, NEW c \in Client, onTextMessage(c)
    PROVE  NegInv'
<1>1. TypeOK /\ NegotiationInv /\ c[1] \in Device
  BY ClientParts DEF RtcInv, NegInv
<1>2. PICK m : m = Head(inbox[c])
  OBVIOUS
<1>3. Heard(c, m)
  BY <1>1, <1>2, HeardStep
<1>4. UNCHANGED <<mSignallingState, session, ws, room>> /\ ws[c] \in {"open", "closing"}
  BY <1>3 DEF Heard
<1>5. \A e \in Device : First(e)' => First(e)
  BY <1>4, StayMoves
<1>6. ASSUME NEW p \in Device, NEW q \in Device, p # q, First(p)', First(q)'
      PROVE  /\ Negotiation(p, q) /\ First(p) /\ First(q)
             /\ <<p, 1>> \in Client /\ <<q, 1>> \in Client
  BY <1>1, <1>5, <1>6, FirstParts DEF NegotiationInv, First
\* A device in its first session has had one socket only.
<1>7. ASSUME NEW p \in Device, First(p), c # <<p, 1>> PROVE c[1] # p
  <2>1. SUFFICES ASSUME c[1] = p PROVE FALSE
    OBVIOUS
  <2>2. c[2] <= 1 /\ c[2] \in 1..MaxSessions /\ c = <<c[1], c[2]>>
    BY <1>4, <1>7, <2>1, OpenIsCurrent, ClientParts DEF First
  <2>3. c[2] = 1
    BY <2>2, RtcAssumption
  <2>4. QED
    BY <1>7, <2>1, <2>2, <2>3
<1>8. ASSUME NEW p \in Device, NEW q \in Device, p # q, First(p)', First(q)', c = <<p, 1>>
      PROVE  Negotiation(p, q)'
  <2>1. PICK y \in Client : y = <<q, 1>> /\ c # y /\ ws[y] = "open"
    BY <1>6, <1>8 DEF First
  <2>2. c[1] = p /\ c = Me(p)
    BY <1>6, <1>8 DEF First, Me
  <2>3. Pair(mRtcAgentMap[p][y], mRtcAgentMap[q][c], inbox[c], inbox[y], c, y)
    BY <1>6, <1>8, <2>1 DEF Negotiation
  <2>4. Pair(mRtcAgentMap'[p][y], mRtcAgentMap'[q][c], inbox'[c], inbox'[y], c, y)
    BY <1>8, <2>1, <2>2, <2>3, HearPair
  <2>5. QED
    BY <1>8, <2>1, <2>4 DEF Negotiation
<1>9. ASSUME NEW p \in Device, NEW q \in Device, p # q, First(p)', First(q)',
             c # <<p, 1>>, c # <<q, 1>>
      PROVE  Negotiation(p, q)'
  <2>1. p # c[1] /\ q # c[1]
    BY <1>6, <1>7, <1>9
  <2>2. \A e \in Device : e # c[1] => \A x \in Client : mRtcAgentMap'[e][x] = mRtcAgentMap[e][x]
    BY <1>1, <1>2, OthersKeep
  <2>3. inbox'[<<p, 1>>] = inbox[<<p, 1>>] /\ inbox'[<<q, 1>>] = inbox[<<q, 1>>]
    BY <1>1, <1>3, <1>6, <1>9 DEF Heard, TypeOK
  <2>4. QED
    BY <1>6, <1>9, <2>1, <2>2, <2>3, AlikeSame, FrameNegotiation
<1>10. ASSUME NEW p \in Device, NEW q \in Device, p # q, First(p)', First(q)'
       PROVE  Negotiation(p, q)'
  <2>1. CASE c = <<q, 1>>
    <3>1. Negotiation(q, p)'
      BY <1>8, <1>10, <2>1
    <3>2. QED
      BY <3>1, NegotiationSwapNext
  <2>2. QED
    BY <1>8, <1>9, <1>10, <2>1
<1>11. NegotiationInv'
  BY <1>10 DEF NegotiationInv
<1>12. QED
  BY <1>11, HearUnknown DEF NegInv

LEMMA NegInit ==
    ASSUME Init PROVE NegInv
<1>1. \A x \in Client : inbox[x] = <<>>
  BY DEF Init
<1>2. \A x \in Client : \A k \in 1..Len(inbox[x]) : FALSE
  BY <1>1, EmptySeq
<1>3. \A d \in Device : mPeerList[d] = {} /\ session[d] = 0 /\ \A c \in Client : mRtcAgentMap[d][c] = NoAgent
  BY DEF Init
<1>4. StrangersInv /\ NewcomersInv /\ GoneInv
  BY <1>2, <1>3 DEF StrangersInv, NewcomersInv, GoneInv, Unheard
<1>5. NegotiationInv
  BY <1>3 DEF NegotiationInv, First
<1>6. QED
  BY <1>4, <1>5 DEF NegInv

LEMMA NegNext ==
    ASSUME RtcInv, RtcInv', NegInv, [Next]_vars PROVE NegInv'
<1>0. TypeOK /\ TypeOK'
  BY DEF RtcInv
<1>1. CASE UNCHANGED vars
  <2>1. /\ UNCHANGED <<mSignallingState, session, ws, room>> /\ agents' = agents
        /\ inbox' = inbox /\ mPeerList' = mPeerList
    BY <1>1 DEF vars, agents
  <2>2. SocketsMove /\ \A e \in Device : First(e)' => First(e)
    BY <2>1, StayMoves
  <2>3. StrangersInv /\ NewcomersInv /\ GoneInv /\ NegotiationInv
    BY DEF NegInv
  <2>4. \A p, q \in Device : p # q /\ First(p)' /\ First(q)' => Negotiation(p, q)
    BY <2>2, <2>3 DEF NegotiationInv
  <2>5. QED
    BY <1>0, <2>1, <2>2, <2>3, <2>4, SameQueues, AgentsKeep
<1>2. CASE Next
  <2>1. ASSUME NEW d \in Device, onCreate(d) \/ onDestroy(d) PROVE NegInv'
    BY <1>0, <2>1, CreateNegotiates
  <2>2. ASSUME NEW c \in Client, onOpen(c) PROVE NegInv'
    BY <1>0, <2>2, OpenNegotiates
  <2>3. ASSUME NEW c \in Client, onClose(c) \/ HttpDelete(c) PROVE NegInv'
    BY <1>0, <2>3, CloseNegotiates
  <2>4. ASSUME NEW c \in Client, onTextMessage(c) PROVE NegInv'
    BY <1>0, <2>4, HearNegotiates
  <2>5. ASSUME NEW d \in Device, NEW c \in Client, onItemClick(d, c) PROVE NegInv'
    BY <1>0, <2>5, ClickNegotiates
  <2>6. ASSUME NEW d \in Device, NEW c \in Client, onCreateSuccess(d, c) \/ onIceCandidate(d, c)
        PROVE  NegInv'
    BY <1>0, <2>6, DescriptionNegotiates
  <2>7. QED
    BY <1>2, <2>1, <2>2, <2>3, <2>4, <2>5, <2>6 DEF Next
<1>3. QED
  BY <1>1, <1>2

\* When nothing is on its way, the two have settled, or refused each other's offers.
LEMMA QuietPair ==
    ASSUME NEW a \in Agent, NEW b \in Agent, a.creating = <<>>, b.creating = <<>>,
           NEW ab, NEW ba, ab = {}, ba = {}, Between(a, b, ab, ba)
    PROVE  a.pc = b.pc /\ a.pc \in {"none", "stable", "localOffer"}
  BY Creations, AgentParts
     DEF Between, Stage, Idle, Offered, Answering, Answered, Settled, Crossed, Is, Silent

(* In every state of the signalling the invariant of the negotiations holds: *)
(* two devices in their first sessions are at matching stages, given the     *)
(* descriptions that are on their way between them, however many others talk *)
(* to them (RtcAgent.kt:148-153, 330-342, RtcAgentContainer.kt:94-144).      *)
THEOREM NegotiationInvariant == Spec => []NegInv
<1>1. Init => NegInv
  BY NegInit
<1>2. RtcInv /\ RtcInv' /\ NegInv /\ [Next]_vars => NegInv'
  BY NegNext
<1>3. QED
  BY <1>1, <1>2, RtcInvariant, PTL DEF Spec

(* When nothing is on its way between two devices in their first sessions,   *)
(* their agents agree: none, stable on both sides, or both offers refused    *)
(* (RtcAgent.kt:148-153, 330-342, RtcAgentContainer.kt:94-144).              *)
THEOREM NegotiationsAreSettled == Spec => []OfferIsSettled
<1>1. ASSUME RtcInv, NegInv PROVE OfferIsSettled
  <2>0. TypeOK /\ NegotiationInv
    BY <1>1 DEF RtcInv, NegInv
  <2>1. SUFFICES ASSUME NEW d \in Device, NEW c \in Client, c[1] # d, c[2] = 1,
                        Linked(d, c), Quiet(d, c)
                 PROVE  /\ mRtcAgentMap[d][c].pc = mRtcAgentMap[c[1]][<<d, 1>>].pc
                        /\ mRtcAgentMap[d][c].pc \in {"none", "stable", "localOffer"}
    BY DEF OfferIsSettled
  <2>2. PICK e \in Device : e = c[1] /\ c = <<e, 1>>
    BY <2>1, ClientParts
  <2>3. First(d) /\ First(e)
    BY <2>1, <2>2 DEF Linked, First
  <2>4. PICK x \in Client : x = <<d, 1>>
    BY <2>0, <2>3, FirstParts DEF First
  <2>5. PICK a \in Agent : a = mRtcAgentMap[d][c]
    BY <2>0 DEF TypeOK
  <2>6. PICK b \in Agent : b = mRtcAgentMap[e][x]
    BY <2>0 DEF TypeOK
  <2>7. inbox[x] = <<>> /\ inbox[c] = <<>> /\ a.creating = <<>> /\ b.creating = <<>>
    BY <2>1, <2>2, <2>4, <2>5, <2>6 DEF Quiet
  <2>8. Negotiation(d, e)
    BY <2>0, <2>1, <2>2, <2>3 DEF NegotiationInv
  <2>9. Pair(a, b, <<>>, <<>>, x, c)
    BY <2>2, <2>4, <2>5, <2>6, <2>7, <2>8 DEF Negotiation
  <2>10. PICK q : q = <<>> /\ Len(q) = 0
    BY EmptySeq
  <2>11. Between(a, b, DescriptionsOf(q, x), DescriptionsOf(q, c))
    BY <2>9, <2>10 DEF Pair
  <2>12. DescriptionsOf(q, x) = {} /\ DescriptionsOf(q, c) = {}
    BY <2>10 DEF DescriptionsOf, On
  <2>13. a.pc = b.pc /\ a.pc \in {"none", "stable", "localOffer"}
    BY <2>7, <2>11, <2>12, QuietPair
  <2>14. QED
    BY <2>2, <2>4, <2>5, <2>6, <2>13
<1>2. QED
  BY <1>1, RtcInvariant, NegotiationInvariant, PTL
=============================================================================
