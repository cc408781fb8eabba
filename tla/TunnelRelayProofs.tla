--------------------------- MODULE TunnelRelayProofs ---------------------------
(***************************************************************************)
(* Proofs about the tunnels.  The invariant follows a connection through   *)
(* its life: no key of it is there before its remote tunnel connects, what *)
(* the server has taken begins with the handshake once it has connected,   *)
(* and as long as every socket takes all it is given, what has been read   *)
(* has been written.  A remote tunnel that has gone down without an error  *)
(* has nothing more to read.                                               *)
(***************************************************************************)
EXTENDS TunnelRelay, SequenceTheorems, TLAPS

\* A socket's key: nothing is done with a connection before its remote tunnel connects,
\* and then only that; nothing is written later unless a socket took a part.
SockInv(s) ==
    /\ conn[s[1]] \in {"unused", "none", "idle"} =>
          s \notin cancelled /\ interest[s] = "none" /\ \A op : <<s, op>> \notin selected
    /\ conn[s[1]] = "connecting" =>
          /\ s \notin cancelled
          /\ interest[s] = IF s[2] = "R" THEN "connect" ELSE "none"
          /\ \A op : <<s, op>> \in selected => s[2] = "R" /\ op = "connect"
    /\ conn[s[1]] \in {"established", "down"} =>
          interest[s] # "connect" /\ <<s, "connect">> \notin selected
    /\ ~partial => interest[s] # "write" /\ <<s, "write">> \notin selected

\* The shared buffer is full to its limit once something was kept in it.
RemainInv ==
    /\ remaining \in [bytes : Seq(Byte), position : Nat, limit : Nat]
    /\ Running => /\ remaining.position <= Len(remaining.bytes)
                  /\ partial => remaining.limit = Len(remaining.bytes)

HasHandshake(q, c) == HEADER <= Len(q) /\ \A i \in 1..HEADER : q[i] = handshake(c)[i]

\* The bytes of a connection.
DataInv(c) ==
    /\ Running => IF ivSet[c] THEN downRead[c] >= IV ELSE downRead[c] = 0
    /\ conn[c] \notin {"established", "down"} => upRead[c] = 0 /\ toServer[c] = <<>>
    /\ conn[c] \in {"established", "down"} /\ <<c, "R">> \notin broken =>
          HasHandshake(toServer[c], c)
    /\ conn[c] = "down" =>
          {<<c, "L">>, <<c, "R">>} \cap broken # {} \/ downRead[c] = IV + Down
    /\ ~partial =>
          /\ conn[c] = "established" /\ <<c, "R">> \notin broken => toServer[c] = SentUp(c)
          /\ <<c, "L">> \notin broken => toApp[c] = SentDown(c)

TunnelInv ==
    /\ TypeOK /\ RemainInv
    /\ \A s \in Sock : SockInv(s)
    /\ \A c \in Conn : DataInv(c)

-----------------------------------------------------------------------------
(* Bytes *)

Dir == {"head", "up", "iv", "down"}

LEMMA SequenceOf ==
    ASSUME NEW S, NEW n \in Nat, NEW r, r \in [1..n -> S]
    PROVE  r \in Seq(S) /\ Len(r) = n
<1>1. r \in Seq(S)
  BY SeqDef
<1>2. DOMAIN r = 1..n /\ Len(r) \in Nat /\ DOMAIN r = 1..Len(r)
  BY <1>1, LenProperties
<1>3. QED
  BY <1>1, <1>2

ByteOf(c, dir, n, enc) == [of |-> c, dir |-> dir, n |-> n, enc |-> enc]

\* r is n bytes of one kind, after the first a.
IsBytes(r, c, dir, a, n, enc) ==
    r \in Seq(Byte) /\ Len(r) = n /\ \A k \in 1..n : r[k] = ByteOf(c, dir, a + k, enc)

LEMMA BytesParts ==
    ASSUME NEW c \in Conn, NEW dir \in Dir, NEW a \in Nat, NEW n \in Nat, NEW enc \in 0..2,
           NEW b, b = a + n, NEW r, r = Bytes(c, dir, a, b, enc)
    PROVE  IsBytes(r, c, dir, a, n, enc)
<1>1. b - a = n
  OBVIOUS
<1>2. r = [k \in 1..n |-> ByteOf(c, dir, a + k, enc)]
  BY <1>1 DEF Bytes, ByteOf
<1>3. \A k \in 1..n : ByteOf(c, dir, a + k, enc) \in Byte
  BY DEF Byte, Dir, ByteOf
<1>4. r \in [1..n -> Byte]
  BY <1>2, <1>3
<1>5. r \in Seq(Byte) /\ Len(r) = n
  BY <1>4, SequenceOf
<1>6. QED
  BY <1>2, <1>5 DEF IsBytes

LEMMA SameBytes ==
    ASSUME NEW c, NEW dir, NEW a, NEW n, NEW enc, NEW q, NEW r,
           IsBytes(q, c, dir, a, n, enc), IsBytes(r, c, dir, a, n, enc)
    PROVE  q = r
<1>1. q \in Seq(Byte) /\ r \in Seq(Byte) /\ Len(q) = Len(r) /\ \A k \in 1..Len(q) : q[k] = r[k]
  BY DEF IsBytes
<1>2. QED
  BY <1>1, SeqEqual

Joined(x, y) == x \o y

LEMMA JoinedAssociative ==
    ASSUME NEW x \in Seq(Byte), NEW y \in Seq(Byte), NEW z \in Seq(Byte)
    PROVE  Joined(Joined(x, y), z) = Joined(x, Joined(y, z))
  BY ConcatAssociative DEF Joined

\* Bytes of one kind and the next ones.
LEMMA BytesGrow ==
    ASSUME NEW c \in Conn, NEW dir \in Dir, NEW enc \in 0..2, NEW a \in Nat, NEW n \in Nat,
           NEW m, m = a + n, NEW y, IsBytes(y, c, dir, a, n, enc),
           NEW x, x = Bytes(c, dir, 0, a, enc), NEW z, z = Bytes(c, dir, 0, m, enc)
    PROVE  Joined(x, y) = z /\ x \in Seq(Byte) /\ y \in Seq(Byte)
<1>0. /\ x \in Seq(Byte) /\ Len(x) = a /\ \A k \in 1..a : x[k] = ByteOf(c, dir, 0 + k, enc)
      /\ z \in Seq(Byte) /\ Len(z) = m /\ \A k \in 1..m : z[k] = ByteOf(c, dir, 0 + k, enc)
  <2>1. PICK w \in Nat : w = m /\ 0 + w = w /\ 0 + a = a
    OBVIOUS
  <2>2. IsBytes(x, c, dir, 0, a, enc)
    BY <2>1, BytesParts
  <2>3. IsBytes(z, c, dir, 0, w, enc)
    BY <2>1, BytesParts
  <2>4. QED
    BY <2>1, <2>2, <2>3 DEF IsBytes
<1>1. /\ x \in Seq(Byte) /\ Len(x) = a /\ \A k \in 1..a : x[k] = ByteOf(c, dir, 0 + k, enc)
      /\ y \in Seq(Byte) /\ Len(y) = n /\ \A k \in 1..n : y[k] = ByteOf(c, dir, a + k, enc)
      /\ z \in Seq(Byte) /\ Len(z) = a + n /\ \A k \in 1..(a + n) : z[k] = ByteOf(c, dir, 0 + k, enc)
  BY <1>0 DEF IsBytes
<1>2. x \o y \in Seq(Byte) /\ Len(x \o y) = a + n
      /\ \A i \in 1..(a + n) : (x \o y)[i] = IF i <= a THEN x[i] ELSE y[i - a]
  BY <1>1, ConcatProperties
<1>3. ASSUME NEW i \in 1..(a + n) PROVE (x \o y)[i] = z[i]
  <2>1. CASE i <= a
    <3>1. i \in 1..a
      BY <2>1
    <3>2. QED
      BY <1>1, <1>2, <2>1, <3>1
  <2>2. CASE ~(i <= a)
    <3>1. PICK j \in 1..n : j = i - a
      BY <2>2
    <3>2. a + j = 0 + i
      BY <3>1
    <3>3. (x \o y)[i] = y[j]
      BY <1>2, <2>2, <3>1
    <3>4. y[j] = ByteOf(c, dir, 0 + i, enc)
      BY <1>1, <3>2
    <3>5. QED
      BY <1>1, <3>3, <3>4
  <2>3. QED
    BY <2>1, <2>2
<1>4. x \o y = z
  BY <1>1, <1>2, <1>3, SeqEqual
<1>5. QED
  BY <1>1, <1>4 DEF Joined

LEMMA MinOfTwo ==
    ASSUME NEW e \in 0..2
    PROVE  /\ Min({2, e + 1}) \in 0..2
           /\ e = 0 => Min({2, e + 1}) = 1
<1>1. PICK x \in {2, e + 1} : \A y \in {2, e + 1} : x =< y
  <2>1. CASE e + 1 =< 2
    BY <2>1
  <2>2. CASE ~(e + 1 =< 2)
    BY <2>2
  <2>3. QED
    BY <2>1, <2>2
<1>2. Min({2, e + 1}) \in {2, e + 1} /\ \A y \in {2, e + 1} : Min({2, e + 1}) =< y
  BY <1>1 DEF Min
<1>3. QED
  BY <1>2

\* Encryption keeps the bytes in their places.
LEMMA beforeSendParts ==
    ASSUME NEW s, NEW bs \in Seq(Byte), NEW r, r = beforeSend(s, bs)
    PROVE  r \in Seq(Byte) /\ Len(r) = Len(bs) /\ (s[2] # "R" => r = bs)
<1>1. CASE s[2] # "R"
  BY <1>1 DEF beforeSend
<1>2. CASE s[2] = "R"
  <2>1. PICK n \in Nat : n = Len(bs) /\ DOMAIN bs = 1..n
    BY LenProperties
  <2>2. r = [k \in 1..n |-> [bs[k] EXCEPT !.enc = Min({2, @ + 1})]]
    BY <1>2, <2>1 DEF beforeSend
  <2>3. ASSUME NEW k \in 1..n PROVE [bs[k] EXCEPT !.enc = Min({2, @ + 1})] \in Byte
    <3>1. PICK x \in Byte : x = bs[k]
      BY <2>1, ElementOfSeq
    <3>2. x.enc \in 0..2
      BY DEF Byte
    <3>3. PICK e \in 0..2 : e = Min({2, x.enc + 1})
      BY <3>2, MinOfTwo
    <3>4. [x EXCEPT !.enc = e] \in Byte
      BY DEF Byte
    <3>5. QED
      BY <3>1, <3>3, <3>4
  <2>4. r \in [1..n -> Byte]
    BY <2>2, <2>3
  <2>5. QED
    BY <1>2, <2>1, <2>4, SequenceOf
<1>3. QED
  BY <1>1, <1>2

LEMMA EncryptUp ==
    ASSUME NEW s, s[2] = "R", NEW c \in Conn, NEW a \in Nat, NEW n \in Nat,
           NEW x, IsBytes(x, c, "up", a, n, 0), NEW r, r = beforeSend(s, x)
    PROVE  IsBytes(r, c, "up", a, n, 1)
<1>1. x \in Seq(Byte) /\ Len(x) = n /\ \A k \in 1..n : x[k] = ByteOf(c, "up", a + k, 0)
  BY DEF IsBytes
<1>2. r \in Seq(Byte) /\ Len(r) = n
  BY <1>1, beforeSendParts
<1>3. ASSUME NEW k \in 1..n PROVE r[k] = ByteOf(c, "up", a + k, 1)
  <2>1. DOMAIN x = 1..n
    BY <1>1, LenProperties
  <2>2. r[k] = [x[k] EXCEPT !.enc = Min({2, @ + 1})]
    BY <2>1 DEF beforeSend
  <2>3. PICK y : y = x[k] /\ y = ByteOf(c, "up", a + k, 0)
    BY <1>1
  <2>4. y.enc = 0 /\ [y EXCEPT !.enc = 1] = ByteOf(c, "up", a + k, 1)
    BY <2>3 DEF ByteOf
  <2>5. PICK o \in 0..2 : o = 0
    OBVIOUS
  <2>6. Min({2, o + 1}) = 1
    BY <2>5, MinOfTwo
  <2>7. Min({2, y.enc + 1}) = 1
    BY <2>4, <2>5, <2>6
  <2>8. QED
    BY <2>2, <2>3, <2>4, <2>7
<1>4. QED
  BY <1>2, <1>3 DEF IsBytes

LEMMA handshakeParts ==
    ASSUME NEW c \in Conn
    PROVE  handshake(c) \in Seq(Byte) /\ Len(handshake(c)) = HEADER /\ HEADER \in Nat
<1>1. HEADER \in Nat /\ HEADER = 0 + HEADER /\ 1 \in 0..2
  BY TunnelAssumption
<1>2. IsBytes(handshake(c), c, "head", 0, HEADER, 1)
  BY <1>1, BytesParts DEF handshake, Dir
<1>3. QED
  BY <1>1, <1>2 DEF IsBytes

LEMMA DownstreamParts ==
    ASSUME NEW c \in Conn
    PROVE  /\ Downstream(c) \in Seq(Byte) /\ Len(Downstream(c)) = IV + Down
           /\ \A i \in 1..Down : Downstream(c)[IV + i] = ByteOf(c, "down", i, 1)
<1>0. IV \in Nat /\ Down \in Nat /\ 0 + IV = IV /\ 0 + Down = Down
  BY TunnelAssumption
<1>1. PICK x : x = Bytes(c, "iv", 0, IV, 0)
  OBVIOUS
<1>2. PICK y : y = Bytes(c, "down", 0, Down, 1)
  OBVIOUS
<1>3. IsBytes(x, c, "iv", 0, IV, 0) /\ IsBytes(y, c, "down", 0, Down, 1)
  BY <1>0, <1>1, <1>2, BytesParts DEF Dir
<1>4. /\ x \in Seq(Byte) /\ Len(x) = IV /\ y \in Seq(Byte) /\ Len(y) = Down
      /\ \A k \in 1..Down : y[k] = ByteOf(c, "down", 0 + k, 1)
  BY <1>3 DEF IsBytes
<1>5. Downstream(c) = x \o y
  BY <1>1, <1>2 DEF Downstream
<1>6. x \o y \in Seq(Byte) /\ Len(x \o y) = IV + Down
      /\ \A i \in 1..(IV + Down) : (x \o y)[i] = IF i <= IV THEN x[i] ELSE y[i - IV]
  BY <1>4, ConcatProperties
<1>7. ASSUME NEW i \in 1..Down PROVE (x \o y)[IV + i] = ByteOf(c, "down", i, 1)
  <2>1. PICK j \in 1..(IV + Down) : j = IV + i
    BY <1>0
  <2>2. ~(j <= IV) /\ j - IV = i /\ 0 + i = i
    BY <1>0, <2>1
  <2>3. QED
    BY <1>4, <1>6, <2>1, <2>2
<1>8. QED
  BY <1>5, <1>6, <1>7

\* The places of the bytes of a read of k, of which skip are taken off, in the stream
\* of the server after d bytes, of which v are the IV.
Placed(d, k, v, w, g, skip, i) ==
    g + i \in 1..w /\ d + (i + skip) = v + (g + i) /\ i + skip \in 1..k

LEMMA Places ==
    ASSUME NEW d \in Nat, NEW k \in Nat, NEW v \in Nat, NEW w \in Nat, NEW g \in Nat, NEW n \in Nat,
           NEW skip \in Nat, d + k <= v + w, n = (d + k - v) - g, n = k - skip, d + skip = v + g,
           NEW i \in 1..n
    PROVE  Placed(d, k, v, w, g, skip, i)
  BY DEF Placed

LEMMA Ends ==
    ASSUME NEW d \in Nat, NEW k \in Nat, k > 0
    PROVE  \E lo, hi \in Int : lo = d + 1 /\ hi = d + k /\ hi - lo + 1 = k /\ lo <= hi
<1>1. d + 1 \in Int /\ d + k \in Int /\ (d + k) - (d + 1) + 1 = k /\ d + 1 <= d + k
  OBVIOUS
<1>2. QED
  BY <1>1

LEMMA Between ==
    ASSUME NEW d \in Nat, NEW k \in Nat, NEW m \in Nat, d + k <= m, NEW lo, lo = d + 1, NEW hi, hi = d + k,
           NEW i \in lo..hi
    PROVE  i \in 1..m
  OBVIOUS

ServerBytes(c, d, k) == SubSeq(Downstream(c), d + 1, d + k)

LEMMA ServerRead ==
    ASSUME NEW c \in Conn, NEW d \in Nat, NEW k \in Nat, k > 0, d + k <= IV + Down,
           NEW in, in = ServerBytes(c, d, k)
    PROVE  in \in Seq(Byte) /\ Len(in) = k /\ \A i \in 1..k : in[i] = Downstream(c)[d + i]
<1>0. IV + Down \in Nat
  BY TunnelAssumption
<1>1. PICK q \in Seq(Byte) : q = Downstream(c) /\ Len(q) = IV + Down
  BY DownstreamParts
<1>2. PICK lo \in Int, hi \in Int : lo = d + 1 /\ hi = d + k /\ hi - lo + 1 = k /\ lo <= hi
  BY Ends
<1>3. ASSUME NEW i \in lo..hi PROVE q[i] \in Byte
  <2>1. i \in 1..Len(q)
    BY <1>0, <1>1, <1>2, Between
  <2>2. QED
    BY <2>1, ElementOfSeq
<1>4. /\ SubSeq(q, lo, hi) \in Seq(Byte)
      /\ Len(SubSeq(q, lo, hi)) = (IF lo <= hi THEN hi - lo + 1 ELSE 0)
      /\ \A i \in 1..(hi - lo + 1) : SubSeq(q, lo, hi)[i] = q[lo + i - 1]
  BY <1>3, SubSeqProperties
<1>5. ASSUME NEW i \in 1..k PROVE SubSeq(q, lo, hi)[i] = q[d + i]
  <2>1. lo + i - 1 = d + i
    BY <1>2
  <2>2. QED
    BY <1>2, <1>4, <2>1
<1>6. in = SubSeq(q, lo, hi)
  BY <1>1, <1>2 DEF ServerBytes
<1>7. QED
  BY <1>1, <1>2, <1>4, <1>5, <1>6

\* What decrypt leaves of bytes in, when it takes skip off.
IsDecrypted(r, in, n, skip) == r = [i \in 1..n |-> [in[i + skip] EXCEPT !.enc = @ - 1]]

LEMMA Decrypted ==
    ASSUME NEW c \in Conn, NEW d \in Nat, NEW k \in Nat, k > 0, d + k <= IV + Down,
           NEW skip \in Nat, NEW g \in Nat, NEW n \in Nat, n = (d + k - IV) - g,
           n = k - skip, d + skip = IV + g,
           NEW in, in = ServerBytes(c, d, k),
           NEW r, IsDecrypted(r, in, n, skip)
    PROVE  IsBytes(r, c, "down", g, n, 0)
<1>0. IV \in Nat /\ Down \in Nat
  BY TunnelAssumption
<1>1. ASSUME NEW i \in 1..n PROVE r[i] = ByteOf(c, "down", g + i, 0)
  <2>1. g + i \in 1..Down /\ d + (i + skip) = IV + (g + i) /\ i + skip \in 1..k
    <3>1. Placed(d, k, IV, Down, g, skip, i)
      BY <1>0, Places
    <3>2. QED
      BY <3>1 DEF Placed
  <2>2. PICK j \in 1..Down : j = g + i
    BY <2>1
  <2>3. in[i + skip] = Downstream(c)[IV + j]
    <3>1. \A x \in 1..k : in[x] = Downstream(c)[d + x]
      BY ServerRead
    <3>2. QED
      BY <2>1, <2>2, <3>1
  <2>4. PICK y : y = in[i + skip] /\ y = ByteOf(c, "down", j, 1)
    BY <2>3, DownstreamParts
  <2>5. [y EXCEPT !.enc = @ - 1] = ByteOf(c, "down", j, 0)
    <3>1. y = [of |-> c, dir |-> "down", n |-> j, enc |-> 1]
      BY <2>4 DEF ByteOf
    <3>2. [y EXCEPT !.enc = @ - 1] = [of |-> c, dir |-> "down", n |-> j, enc |-> 1 - 1]
      BY <3>1
    <3>3. QED
      BY <3>2 DEF ByteOf
  <2>6. r[i] = [in[i + skip] EXCEPT !.enc = @ - 1]
    BY DEF IsDecrypted
  <2>7. QED
    BY <2>2, <2>4, <2>5, <2>6
<1>2. \A i \in 1..n : ByteOf(c, "down", g + i, 0) \in Byte
  BY DEF ByteOf, Byte
<1>3. r \in [1..n -> Byte]
  BY <1>1, <1>2 DEF IsDecrypted
<1>4. r \in Seq(Byte) /\ Len(r) = n
  BY <1>3, SequenceOf
<1>5. QED
  BY <1>1, <1>4 DEF IsBytes

\* What a read of the server gives the app, when the IV comes off the first of it.
LEMMA ReceivedDown ==
    ASSUME NEW c \in Conn, NEW d \in Nat, d = downRead[c], NEW k \in Nat, k > 0, d + k <= IV + Down,
           (ivSet[c] /\ d >= IV) \/ (~ivSet[c] /\ d = 0 /\ k >= IV),
           NEW g \in Nat, g = IF d < IV THEN 0 ELSE d - IV, NEW n \in Nat, n = (d + k - IV) - g,
           NEW s, s = <<c, "R">>, NEW r, r = afterReceived(s, Incoming(s, k))
    PROVE  IsBytes(r, c, "down", g, n, 0)
<1>0. IV \in Nat /\ Down \in Nat /\ IV > 0 /\ s[1] = c /\ s[2] = "R"
  BY TunnelAssumption
<1>1. PICK in : in = ServerBytes(c, d, k)
  OBVIOUS
<1>2. Len(in) = k
  BY <1>1, ServerRead
<1>4. PICK skip \in Nat : skip = IF ivSet[c] THEN 0 ELSE IV
  BY <1>0
<1>5. n = k - skip /\ d + skip = IV + g
  <2>1. CASE ivSet[c] /\ d >= IV
    BY <1>0, <1>4, <2>1
  <2>2. CASE ~ivSet[c] /\ d = 0 /\ k >= IV
    BY <1>0, <1>4, <2>2
  <2>3. QED
    BY <2>1, <2>2
<1>6. r = [i \in 1..n |-> [in[i + skip] EXCEPT !.enc = @ - 1]]
  <2>1. Incoming(s, k) = in
    BY <1>0, <1>1 DEF Incoming, ServerBytes
  <2>2. afterReceived(s, in) = [i \in 1..(Len(in) - skip) |-> [in[i + skip] EXCEPT !.enc = @ - 1]]
    BY <1>0, <1>4 DEF afterReceived
  <2>3. Len(in) - skip = n
    BY <1>2, <1>5
  <2>4. QED
    BY <2>1, <2>2, <2>3
<1>7. IsDecrypted(r, in, n, skip)
  BY <1>6 DEF IsDecrypted
<1>8. QED
  BY <1>1, <1>5, <1>7, Decrypted

\* More bytes leave the handshake in its place.
LEMMA HandshakeStays ==
    ASSUME NEW c \in Conn, NEW q \in Seq(Byte), NEW u \in Seq(Byte), HasHandshake(q, c),
           NEW r, r = q \o u
    PROVE  HasHandshake(r, c)
<1>0. HEADER \in Nat /\ Len(q) \in Nat /\ Len(u) \in Nat
  BY TunnelAssumption, LenProperties
<1>1. Len(r) = Len(q) + Len(u) /\ \A i \in 1..(Len(q) + Len(u)) :
          r[i] = IF i <= Len(q) THEN q[i] ELSE u[i - Len(q)]
  BY ConcatProperties
<1>2. HEADER <= Len(q) /\ \A i \in 1..HEADER : q[i] = handshake(c)[i]
  BY DEF HasHandshake
<1>3. ASSUME NEW i \in 1..HEADER PROVE r[i] = handshake(c)[i]
  <2>1. i \in 1..(Len(q) + Len(u)) /\ i <= Len(q)
    BY <1>0, <1>2
  <2>2. QED
    BY <1>1, <1>2, <2>1
<1>4. HEADER <= Len(r)
  BY <1>0, <1>1, <1>2
<1>5. QED
  BY <1>3, <1>4 DEF HasHandshake

LEMMA HandshakeAlone ==
    ASSUME NEW c \in Conn
    PROVE  /\ HasHandshake(handshake(c), c)
           /\ <<>> \o SubSeq(handshake(c), 1, HEADER) = handshake(c)
           /\ SubSeq(handshake(c), 1, 0) = <<>>
<1>0. HEADER \in Nat
  BY TunnelAssumption
<1>1. handshake(c) \in Seq(Byte) /\ Len(handshake(c)) = HEADER
  BY handshakeParts
<1>2. PICK h \in Seq(Byte) : h = handshake(c) /\ Len(h) = HEADER
  BY <1>1
<1>3. SubSeq(h, 1, Len(h)) = h
  BY SubSeqFull
<1>4. <<>> \o h = h
  BY ConcatEmptySeq
<1>5. SubSeq(h, 1, 0) = <<>>
  BY SubSeqEmpty
<1>6. HasHandshake(h, c)
  BY <1>0, <1>2 DEF HasHandshake
<1>7. QED
  BY <1>2, <1>3, <1>4, <1>5, <1>6

-----------------------------------------------------------------------------
(* Types *)

KeyTypes ==
    /\ interest \in [Sock -> {"none", "connect", "read", "write"}]
    /\ cancelled \subseteq {s \in Sock : interest[s] = "none"}
    /\ selected \subseteq Sock \X {"connect", "read", "write"}

BufferTypes ==
    /\ remaining.bytes \in Seq(Byte)
    /\ remaining.position \in 0..remaining.limit
    /\ remaining.limit <= BUFFER

IoTypes ==
    /\ upRead \in [Conn -> 0..Up] /\ downRead \in [Conn -> 0..IV + Down]
    /\ toServer \in [Conn -> Seq(Byte)] /\ toApp \in [Conn -> Seq(Byte)]

ConnTypes ==
    conn \in [Conn -> {"unused", "none", "idle", "connecting", "established", "down"}]

EnvTypes ==
    /\ listening \in BOOLEAN /\ datagram \in BOOLEAN
    /\ broken \subseteq Sock /\ ended \subseteq Sock

ProcessTypes == process \in {"up", "uninitialized", "cut IV", "buffer", "cancelled key"}

Parts ==
    /\ KeyTypes /\ BufferTypes /\ IoTypes /\ ConnTypes /\ EnvTypes /\ ProcessTypes
    /\ ivSet \in [Conn -> BOOLEAN] /\ partial \in BOOLEAN

LEMMA TypeParts == TypeOK <=> Parts
  BY Zenon DEF TypeOK, Parts, KeyTypes, BufferTypes, IoTypes, ConnTypes, EnvTypes, ProcessTypes

LEMMA TypePartsPrimed == TypeOK' <=> Parts'
  BY TypeParts, PTL

LEMMA SockParts ==
    ASSUME NEW s \in Sock
    PROVE  /\ s[1] \in Conn /\ s[2] \in {"L", "R"} /\ s = <<s[1], s[2]>>
           /\ Brother(s) \in Sock /\ Brother(s) # s /\ Brother(s)[1] = s[1]
           /\ Brother(s)[2] = IF s[2] = "L" THEN "R" ELSE "L"
<1>1. s[1] \in Conn /\ s[2] \in {"L", "R"} /\ s = <<s[1], s[2]>>
  BY DEF Sock
<1>2. Brother(s)[1] = s[1] /\ Brother(s)[2] = IF s[2] = "L" THEN "R" ELSE "L"
  BY DEF Brother
<1>3. Brother(s) \in Sock
  BY <1>1 DEF Brother, Sock
<1>4. Brother(s) # s
  BY <1>1, <1>2
<1>5. QED
  BY <1>1, <1>2, <1>3, <1>4

LEMMA Ends2 ==
    ASSUME NEW c \in Conn
    PROVE  <<c, "L">> \in Sock /\ <<c, "R">> \in Sock
  BY DEF Sock

-----------------------------------------------------------------------------
(* Steps that handle no key *)

SameIo == upRead' = upRead /\ downRead' = downRead /\ toServer' = toServer /\ toApp' = toApp
          /\ ivSet' = ivSet

\* A connection without input and output of its own.
LEMMA DataFrame ==
    ASSUME NEW c \in Conn, DataInv(c),
           upRead'[c] = upRead[c], downRead'[c] = downRead[c], ivSet'[c] = ivSet[c],
           toServer'[c] = toServer[c], toApp'[c] = toApp[c],
           conn'[c] = conn[c] \/ (conn[c] \notin {"established", "down"}
                                  /\ conn'[c] \notin {"established", "down"}),
           broken \subseteq broken', partial => partial', Running' => Running
    PROVE  DataInv(c)'
<1>1. SentUp(c)' = SentUp(c) /\ SentDown(c)' = SentDown(c)
  BY DEF SentUp, SentDown
<1>2. QED
  BY <1>1 DEF DataInv

LEMMA QuietKeeps ==
    ASSUME TunnelInv, UNCHANGED <<conn, keys, selected, remaining, io, partial>>,
           broken \subseteq broken', EnvTypes', ProcessTypes', Running' => Running
    PROVE  TunnelInv'
<1>0. Parts /\ RemainInv
  BY TypeParts DEF TunnelInv
<1>1. /\ conn' = conn /\ interest' = interest /\ cancelled' = cancelled /\ selected' = selected
      /\ remaining' = remaining /\ partial' = partial
      /\ upRead' = upRead /\ downRead' = downRead /\ toServer' = toServer /\ toApp' = toApp
      /\ ivSet' = ivSet
  BY DEF keys, io
<1>2. KeyTypes' /\ BufferTypes' /\ IoTypes' /\ ConnTypes'
  BY <1>0, <1>1 DEF Parts, KeyTypes, BufferTypes, IoTypes, ConnTypes
<1>3. ivSet' \in [Conn -> BOOLEAN]
  BY <1>0, <1>1 DEF Parts
<1>4. partial' \in BOOLEAN
  BY <1>0, <1>1 DEF Parts
<1>5. TypeOK'
  BY <1>2, <1>3, <1>4, TypePartsPrimed, Zenon DEF Parts
<1>6. RemainInv'
  BY <1>0, <1>1 DEF RemainInv
<1>7. ASSUME NEW s \in Sock PROVE SockInv(s)'
  <2>1. SockInv(s)
    BY DEF TunnelInv
  <2>2. QED
    BY <1>1, <2>1 DEF SockInv
<1>8. \A c \in Conn : DataInv(c)'
  BY <1>1, DataFrame DEF TunnelInv
<1>9. QED
  BY <1>5, <1>6, <1>7, <1>8 DEF TunnelInv

LEMMA AcceptKeeps ==
    ASSUME TunnelInv, NEW c \in Conn, onAcceptable(c)
    PROVE  TunnelInv'
<1>0. Parts /\ RemainInv
  BY TypeParts DEF TunnelInv
<1>1. /\ cancelled' = cancelled /\ selected' = selected /\ remaining' = remaining /\ partial' = partial
      /\ process' = process /\ broken' = broken /\ ended' = ended
      /\ listening' = listening /\ datagram' = datagram
      /\ upRead' = upRead /\ downRead' = downRead /\ toServer' = toServer /\ toApp' = toApp
      /\ ivSet' = ivSet
  BY DEF onAcceptable, io, env
<1>2. conn[c] = "none" /\ <<c, "R">> \in Sock
  BY Ends2 DEF onAcceptable
<1>3. \/ conn' = [conn EXCEPT ![c] = "idle"] /\ interest' = interest
      \/ /\ conn' = [conn EXCEPT ![c] = "connecting"]
         /\ interest' = [interest EXCEPT ![<<c, "R">>] = "connect"]
  BY DEF onAcceptable
<1>4. ConnTypes' /\ \A d \in Conn : d # c => conn'[d] = conn[d]
  BY <1>0, <1>3 DEF Parts, ConnTypes
<1>5. conn'[c] \in {"idle", "connecting"}
  BY <1>0, <1>3 DEF Parts, ConnTypes
<1>6. /\ interest' \in [Sock -> {"none", "connect", "read", "write"}]
      /\ \A s \in Sock : s[1] # c => interest'[s] = interest[s]
      /\ conn'[c] = "idle" => interest' = interest
      /\ conn'[c] = "connecting" =>
            interest'[<<c, "R">>] = "connect" /\ interest'[<<c, "L">>] = interest[<<c, "L">>]
  <2>1. <<c, "L">> \in Sock /\ <<c, "R">> # <<c, "L">>
    BY Ends2
  <2>2. conn \in [Conn -> {"unused", "none", "idle", "connecting", "established", "down"}]
        /\ interest \in [Sock -> {"none", "connect", "read", "write"}]
    BY <1>0 DEF Parts, ConnTypes, KeyTypes
  <2>3. QED
    BY <1>2, <1>3, <2>1, <2>2
<1>7. ASSUME NEW s \in Sock PROVE SockInv(s)' /\ (s \in cancelled => interest'[s] = "none")
  <2>1. SockInv(s) /\ (s \in cancelled => interest[s] = "none")
    BY <1>0 DEF TunnelInv, Parts, KeyTypes
  <2>2. CASE s[1] # c
    <3>1. conn'[s[1]] = conn[s[1]] /\ interest'[s] = interest[s]
      BY <1>4, <1>6, <2>2, SockParts
    <3>2. QED
      BY <1>1, <2>1, <3>1 DEF SockInv
  <2>3. CASE s[1] = c
    <3>1. s \notin cancelled /\ interest[s] = "none" /\ \A op : <<s, op>> \notin selected
      BY <1>2, <2>1, <2>3 DEF SockInv
    <3>2. conn'[c] = "connecting" => interest'[s] = IF s[2] = "R" THEN "connect" ELSE "none"
      BY <1>6, <2>3, <3>1, SockParts
    <3>3. conn'[c] = "idle" => interest'[s] = "none"
      BY <1>6, <3>1
    <3>4. interest'[s] # "write"
      BY <1>5, <3>2, <3>3
    <3>5. QED
      BY <1>1, <1>5, <2>3, <3>1, <3>2, <3>3, <3>4 DEF SockInv
  <2>4. QED
    BY <2>2, <2>3
<1>8. KeyTypes'
  <2>1. cancelled \subseteq Sock
    BY <1>0 DEF Parts, KeyTypes
  <2>2. cancelled' \subseteq {s \in Sock : interest'[s] = "none"}
    BY <1>1, <1>7, <2>1
  <2>3. selected' \subseteq Sock \X {"connect", "read", "write"}
    BY <1>0, <1>1 DEF Parts, KeyTypes
  <2>4. QED
    BY <1>6, <2>2, <2>3 DEF KeyTypes
<1>9. BufferTypes' /\ IoTypes' /\ ProcessTypes'
  BY <1>0, <1>1 DEF Parts, BufferTypes, IoTypes, ProcessTypes
<1>10. EnvTypes'
  BY <1>0, <1>1, Zenon DEF Parts, EnvTypes
<1>11. ivSet' \in [Conn -> BOOLEAN]
  BY <1>0, <1>1 DEF Parts
<1>12. partial' \in BOOLEAN
  BY <1>0, <1>1 DEF Parts
<1>13. TypeOK'
  BY <1>4, <1>8, <1>9, <1>10, <1>11, <1>12, TypePartsPrimed, Zenon DEF Parts
<1>14. RemainInv'
  BY <1>0, <1>1 DEF RemainInv, Running
<1>15. \A d \in Conn : DataInv(d)'
  BY <1>1, <1>2, <1>4, <1>5, DataFrame DEF TunnelInv, Running
<1>16. QED
  BY <1>7, <1>13, <1>14, <1>15 DEF TunnelInv

LEMMA SelectKeeps ==
    ASSUME TunnelInv, NEW ss \in SUBSET ReadySocks, select(ss)
    PROVE  TunnelInv'
<1>0. Parts /\ RemainInv
  BY TypeParts DEF TunnelInv
<1>1. /\ conn' = conn /\ interest' = interest /\ remaining' = remaining /\ partial' = partial
      /\ process' = process /\ broken' = broken /\ ended' = ended
      /\ listening' = listening /\ datagram' = datagram
      /\ upRead' = upRead /\ downRead' = downRead /\ toServer' = toServer /\ toApp' = toApp
      /\ ivSet' = ivSet /\ cancelled' = {}
  BY DEF select, io, env
<1>2. \A e \in selected' : \E s \in ss : e = <<s, interest[s]>>
  BY DEF select
<1>3. \A s \in ss : s \in Sock /\ interest[s] \in {"connect", "read", "write"}
  BY DEF ReadySocks, Ready
<1>4. KeyTypes'
  <2>1. selected' \subseteq Sock \X {"connect", "read", "write"}
    BY <1>2, <1>3
  <2>2. QED
    BY <1>0, <1>1, <2>1 DEF Parts, KeyTypes
<1>5. BufferTypes' /\ IoTypes' /\ ProcessTypes' /\ ConnTypes'
  BY <1>0, <1>1 DEF Parts, BufferTypes, IoTypes, ProcessTypes, ConnTypes
<1>6. EnvTypes'
  BY <1>0, <1>1, Zenon DEF Parts, EnvTypes
<1>7. ivSet' \in [Conn -> BOOLEAN]
  BY <1>0, <1>1 DEF Parts
<1>8. partial' \in BOOLEAN
  BY <1>0, <1>1 DEF Parts
<1>9. TypeOK'
  BY <1>4, <1>5, <1>6, <1>7, <1>8, TypePartsPrimed, Zenon DEF Parts
<1>10. RemainInv'
  BY <1>0, <1>1 DEF RemainInv, Running
<1>11. ASSUME NEW s \in Sock PROVE SockInv(s)'
  <2>1. SockInv(s)
    BY DEF TunnelInv
  <2>2. \A op : <<s, op>> \in selected' => op = interest[s] /\ interest[s] # "none"
    BY <1>2, <1>3
  <2>3. QED
    BY <1>1, <2>1, <2>2 DEF SockInv
<1>12. \A d \in Conn : DataInv(d)'
  BY <1>1, DataFrame DEF TunnelInv, Running
<1>13. QED
  BY <1>9, <1>10, <1>11, <1>12 DEF TunnelInv

-----------------------------------------------------------------------------
(* What a handler of connection c may do *)

On == {"established", "down"}

\* To the keys of its sockets.
KeyStep(c) ==
    /\ interest' \in [Sock -> {"none", "connect", "read", "write"}]
    /\ cancelled' \subseteq {s \in Sock : interest'[s] = "none"}
    /\ \A s \in Sock : s[1] # c => interest'[s] = interest[s] /\ (s \in cancelled' <=> s \in cancelled)
    /\ \A s \in Sock : s[1] = c => interest'[s] # "connect" /\ (~partial' => interest'[s] # "write")

ConnStep(c) ==
    /\ ConnTypes'
    /\ conn'[c] \in On
    /\ \A d \in Conn : d # c => conn'[d] = conn[d]

\* To the data of other connections: nothing.
IoStep(c) ==
    /\ IoTypes'
    /\ \A d \in Conn : d # c => /\ upRead'[d] = upRead[d] /\ downRead'[d] = downRead[d]
                                /\ ivSet'[d] = ivSet[d]
                                /\ toServer'[d] = toServer[d] /\ toApp'[d] = toApp[d]

SelectedStep(c) ==
    /\ selected' \subseteq selected
    /\ \A s \in Sock : s[1] = c => <<s, "connect">> \notin selected'

Handled(c) ==
    /\ KeyStep(c) /\ ConnStep(c) /\ IoStep(c) /\ SelectedStep(c)
    /\ UNCHANGED env
    /\ ProcessTypes' /\ BufferTypes' /\ RemainInv'
    /\ partial => partial'
    /\ DataInv(c)'

LEMMA HandledKeeps ==
    ASSUME TunnelInv, Running, NEW c \in Conn, Handled(c),
           ivSet' \in [Conn -> BOOLEAN], partial' \in BOOLEAN
    PROVE  TunnelInv'
<1>0. Parts
  BY TypeParts DEF TunnelInv
<1>1. KeyStep(c) /\ ConnStep(c) /\ IoStep(c) /\ SelectedStep(c) /\ (partial => partial')
  BY DEF Handled
<1>2. listening' = listening /\ datagram' = datagram /\ broken' = broken /\ ended' = ended
  BY DEF Handled, env
<1>3. KeyTypes'
  BY <1>0, <1>1 DEF KeyStep, SelectedStep, KeyTypes, Parts
<1>4. ConnTypes' /\ IoTypes'
  BY <1>1 DEF ConnStep, IoStep
<1>5. EnvTypes'
  BY <1>0, <1>2, Zenon DEF Parts, EnvTypes
<1>6. ProcessTypes' /\ BufferTypes' /\ RemainInv'
  BY DEF Handled
<1>7. TypeOK'
  BY <1>3, <1>4, <1>5, <1>6, TypePartsPrimed, Zenon DEF Parts
<1>8. ASSUME NEW s \in Sock PROVE SockInv(s)'
  <2>0. SockInv(s) /\ s[1] \in Conn
    BY SockParts DEF TunnelInv
  <2>1. \A op : <<s, op>> \in selected' => <<s, op>> \in selected
    BY <1>1 DEF SelectedStep
  <2>2. CASE s[1] # c
    <3>1. interest'[s] = interest[s] /\ (s \in cancelled' <=> s \in cancelled)
      BY <1>1, <2>2 DEF KeyStep
    <3>2. conn'[s[1]] = conn[s[1]]
      BY <1>1, <2>0, <2>2 DEF ConnStep
    <3>3. QED
      BY <1>1, <2>0, <2>1, <3>1, <3>2 DEF SockInv
  <2>3. CASE s[1] = c
    <3>1. interest'[s] # "connect" /\ (~partial' => interest'[s] # "write")
      BY <1>1, <2>3 DEF KeyStep
    <3>2. conn'[s[1]] \in {"established", "down"} /\ <<s, "connect">> \notin selected'
      BY <1>1, <2>3 DEF ConnStep, SelectedStep, On
    <3>3. ~partial' => <<s, "write">> \notin selected'
      BY <1>1, <2>0, <2>1 DEF SockInv
    <3>4. QED
      BY <3>1, <3>2, <3>3 DEF SockInv
  <2>4. QED
    BY <2>2, <2>3
<1>9. ASSUME NEW d \in Conn PROVE DataInv(d)'
  <2>1. CASE d = c
    BY <2>1 DEF Handled
  <2>2. CASE d # c
    <3>1. /\ upRead'[d] = upRead[d] /\ downRead'[d] = downRead[d] /\ ivSet'[d] = ivSet[d]
          /\ toServer'[d] = toServer[d] /\ toApp'[d] = toApp[d] /\ conn'[d] = conn[d]
      BY <1>1, <2>2 DEF IoStep, ConnStep
    <3>2. QED
      BY <1>1, <1>2, <3>1, DataFrame DEF TunnelInv
  <2>3. QED
    BY <2>1, <2>2
<1>10. QED
  BY <1>6, <1>7, <1>8, <1>9 DEF TunnelInv

LEMMA KeysKept ==
    ASSUME TunnelInv, NEW c \in Conn, conn[c] \in On, UNCHANGED keys, partial => partial'
    PROVE  KeyStep(c)
<1>0. KeyTypes
  BY TypeParts DEF TunnelInv, Parts
<1>1. interest' = interest /\ cancelled' = cancelled
  BY DEF keys
<1>2. \A s \in Sock : s[1] = c => interest[s] # "connect" /\ (~partial => interest[s] # "write")
  BY DEF TunnelInv, SockInv, On
<1>3. QED
  BY <1>0, <1>1, <1>2 DEF KeyTypes, KeyStep

\* One key of c is cancelled and another one of it registered for op.
LEMMA KeysMoved ==
    ASSUME TunnelInv, NEW s \in Sock, NEW t \in Sock, t[1] = s[1], t # s, t \notin cancelled,
           conn[s[1]] \in On, NEW op \in {"none", "read", "write"}, op = "write" => partial',
           partial => partial',
           interest' = [interest EXCEPT ![t] = op, ![s] = "none"],
           cancelled' = cancelled \cup {s}
    PROVE  KeyStep(s[1])
<1>0. KeyTypes
  BY TypeParts DEF TunnelInv, Parts
<1>1. /\ interest' \in [Sock -> {"none", "connect", "read", "write"}]
      /\ interest'[s] = "none" /\ interest'[t] = op
      /\ \A x \in Sock : x # s /\ x # t => interest'[x] = interest[x]
  BY <1>0 DEF KeyTypes
<1>2. \A x \in Sock : x[1] = s[1] => interest[x] # "connect" /\ (~partial => interest[x] # "write")
  BY DEF TunnelInv, SockInv, On
<1>3. \A x \in cancelled' : x \in Sock /\ interest'[x] = "none"
  BY <1>0, <1>1 DEF KeyTypes
<1>4. \A x \in Sock : x[1] # s[1] => interest'[x] = interest[x] /\ (x \in cancelled' <=> x \in cancelled)
  BY <1>1
<1>5. \A x \in Sock : x[1] = s[1] => interest'[x] # "connect" /\ (~partial' => interest'[x] # "write")
  BY <1>1, <1>2
<1>6. QED
  BY <1>1, <1>3, <1>4, <1>5 DEF KeyStep

LEMMA KeyCancelled ==
    ASSUME TunnelInv, NEW s \in Sock, conn[s[1]] \in On, Cancel(s), partial => partial'
    PROVE  KeyStep(s[1])
<1>0. KeyTypes
  BY TypeParts DEF TunnelInv, Parts
<1>1. /\ interest' \in [Sock -> {"none", "connect", "read", "write"}]
      /\ interest'[s] = "none" /\ cancelled' = cancelled \cup {s}
      /\ \A x \in Sock : x # s => interest'[x] = interest[x]
  BY <1>0 DEF KeyTypes, Cancel
<1>2. \A x \in Sock : x[1] = s[1] => interest[x] # "connect" /\ (~partial => interest[x] # "write")
  BY DEF TunnelInv, SockInv, On
<1>3. \A x \in cancelled' : x \in Sock /\ interest'[x] = "none"
  BY <1>0, <1>1 DEF KeyTypes
<1>4. QED
  BY <1>1, <1>2, <1>3 DEF KeyStep

\* dispose of a tunnel of c.
LEMMA Disposed ==
    ASSUME TunnelInv, NEW s \in Sock, conn[s[1]] \in On, dispose(s)
    PROVE  ConnStep(s[1]) /\ conn'[s[1]] = IF s[2] = "R" THEN "down" ELSE conn[s[1]]
<1>0. ConnTypes /\ s[1] \in Conn
  BY TypeParts, SockParts DEF TunnelInv, Parts
<1>1. QED
  BY <1>0 DEF dispose, ConnStep, ConnTypes, On

LEMMA ConnKept ==
    ASSUME TunnelInv, NEW c \in Conn, conn[c] \in On, conn' = conn
    PROVE  ConnStep(c)
<1>0. ConnTypes
  BY TypeParts DEF TunnelInv, Parts
<1>1. QED
  BY <1>0 DEF ConnStep, ConnTypes

LEMMA SelectedOf ==
    ASSUME TunnelInv, NEW s \in Sock, NEW op, <<s, op>> \in selected, selected' = selected \ {<<s, op>>}
    PROVE  /\ SelectedStep(s[1])
           /\ s[1] \in Conn
           /\ op = "connect" => conn[s[1]] = "connecting" /\ s = <<s[1], "R">>
           /\ op # "connect" => conn[s[1]] \in On
           /\ op = "write" => partial
<1>0. ConnTypes /\ s[1] \in Conn /\ s = <<s[1], s[2]>>
  BY TypeParts, SockParts DEF TunnelInv, Parts
<1>1. SockInv(s)
  BY DEF TunnelInv
<1>2. conn[s[1]] \in {"unused", "none", "idle", "connecting", "established", "down"}
  BY <1>0 DEF ConnTypes
<1>3. op = "connect" => conn[s[1]] = "connecting" /\ s = <<s[1], "R">>
  BY <1>0, <1>1, <1>2 DEF SockInv
<1>4. op # "connect" => conn[s[1]] \in On
  BY <1>1, <1>2 DEF SockInv, On
<1>5. op = "write" => partial
  BY <1>1 DEF SockInv
<1>6. ASSUME NEW x \in Sock, x[1] = s[1] PROVE <<x, "connect">> \notin selected'
  <2>1. SockInv(x) /\ x = <<x[1], x[2]>>
    BY SockParts DEF TunnelInv
  <2>2. CASE op = "connect"
    <3>1. <<x, "connect">> \in selected => x[2] = "R"
      BY <1>3, <1>6, <2>1, <2>2 DEF SockInv
    <3>2. x[2] = "R" => x = s
      BY <1>3, <1>6, <2>1, <2>2
    <3>3. QED
      BY <2>2, <3>1, <3>2
  <2>3. CASE op # "connect"
    BY <1>4, <1>6, <2>1, <2>3 DEF SockInv, On
  <2>4. QED
    BY <2>2, <2>3
<1>7. SelectedStep(s[1])
  BY <1>6 DEF SelectedStep
<1>8. QED
  BY <1>0, <1>3, <1>4, <1>5, <1>7

-----------------------------------------------------------------------------
(* Sockets take bytes *)

\* What a socket of connection c has taken is appended to what it had.
TakenStep(c) ==
    /\ toServer' \in [Conn -> Seq(Byte)] /\ toApp' \in [Conn -> Seq(Byte)]
    /\ \A d \in Conn : d # c => toServer'[d] = toServer[d] /\ toApp'[d] = toApp[d]
    /\ HasHandshake(toServer[c], c) => HasHandshake(toServer'[c], c)

LEMMA TakenSame ==
    ASSUME TunnelInv, NEW c \in Conn, toServer' = toServer, toApp' = toApp
    PROVE  TakenStep(c)
<1>0. IoTypes
  BY TypeParts DEF TunnelInv, Parts
<1>1. QED
  BY <1>0 DEF TakenStep, IoTypes

LEMMA TakenParts ==
    ASSUME TunnelInv, NEW s \in Sock, NEW bs \in Seq(Byte), NEW k \in 0..Len(bs), Taken(s, k, bs)
    PROVE  /\ TakenStep(s[1])
           /\ s[2] = "R" => toServer'[s[1]] = toServer[s[1]] \o SubSeq(bs, 1, k) /\ toApp' = toApp
           /\ s[2] # "R" => toApp'[s[1]] = toApp[s[1]] \o SubSeq(bs, 1, k) /\ toServer' = toServer
<1> DEFINE c == s[1]
<1>0. toServer \in [Conn -> Seq(Byte)] /\ toApp \in [Conn -> Seq(Byte)] /\ c \in Conn
  BY TypeParts, SockParts DEF TunnelInv, Parts, IoTypes
<1>1. PICK u \in Seq(Byte) : u = SubSeq(bs, 1, k)
  <2>1. Len(bs) \in Nat
    BY LenProperties
  <2>2. \A i \in 1..k : bs[i] \in Byte
    BY <2>1, ElementOfSeq
  <2>3. k \in Int
    BY <2>1
  <2>4. SubSeq(bs, 1, k) \in Seq(Byte)
    BY <2>2, <2>3, SubSeqProperties
  <2>5. QED
    BY <2>4
<1> HIDE DEF c
<1>2. CASE s[2] = "R"
  <2>1. toServer' = [toServer EXCEPT ![c] = @ \o u] /\ toApp' = toApp
    BY <1>1, <1>2 DEF Taken, c
  <2>2. PICK q \in Seq(Byte) : q = toServer[c]
    BY <1>0
  <2>3. PICK r \in Seq(Byte) : r = q \o u
    BY ConcatProperties
  <2>4. /\ toServer' \in [Conn -> Seq(Byte)] /\ toServer'[c] = r
        /\ \A d \in Conn : d # c => toServer'[d] = toServer[d]
    BY <1>0, <2>1, <2>2, <2>3
  <2>5. HasHandshake(q, c) => HasHandshake(r, c)
    BY <1>0, <2>3, HandshakeStays
  <2>6. TakenStep(c)
    BY <1>0, <2>1, <2>2, <2>4, <2>5 DEF TakenStep
  <2>7. QED
    BY <1>1, <1>2, <2>1, <2>2, <2>3, <2>4, <2>6 DEF c
<1>3. CASE s[2] # "R"
  <2>1. toApp' = [toApp EXCEPT ![c] = @ \o u] /\ toServer' = toServer
    BY <1>1, <1>3 DEF Taken, c
  <2>2. PICK q \in Seq(Byte) : q = toApp[c]
    BY <1>0
  <2>3. PICK r \in Seq(Byte) : r = q \o u
    BY ConcatProperties
  <2>4. /\ toApp' \in [Conn -> Seq(Byte)] /\ toApp'[c] = r
        /\ \A d \in Conn : d # c => toApp'[d] = toApp[d]
    BY <1>0, <2>1, <2>2, <2>3
  <2>5. TakenStep(c)
    BY <1>0, <2>1, <2>4 DEF TakenStep
  <2>6. QED
    BY <1>1, <1>3, <2>1, <2>2, <2>3, <2>4, <2>5 DEF c
<1>4. QED
  BY <1>2, <1>3

\* onConnectable.
LEMMA ConnectKeeps ==
    ASSUME TunnelInv, Running, NEW c \in Conn, conn[c] = "connecting", onConnectable(c),
           SelectedStep(c), UNCHANGED env
    PROVE  TunnelInv'
<1>0. Parts /\ RemainInv /\ DataInv(c)
  BY TypeParts DEF TunnelInv
<1>1. PICK s \in Sock : s = <<c, "R">> /\ s[1] = c /\ s[2] = "R"
  BY Ends2
<1>2. PICK t \in Sock : t = <<c, "L">> /\ t[1] = c /\ t[2] = "L"
  BY Ends2
<1>3. /\ s \notin cancelled /\ t \notin cancelled /\ interest[t] = "none" /\ interest[s] = "connect"
      /\ upRead[c] = 0 /\ toServer[c] = <<>>
  <2>1. SockInv(s) /\ SockInv(t)
    BY DEF TunnelInv
  <2>2. QED
    BY <1>0, <1>1, <1>2, <2>1 DEF SockInv, DataInv
<1>4. \A x \in Sock : x[1] = c => x = s \/ x = t
  BY <1>1, <1>2, SockParts
<1>5. /\ cancelled' = cancelled /\ remaining' = remaining /\ upRead' = upRead /\ downRead' = downRead
      /\ ivSet' = ivSet /\ process' = process /\ partial' = partial
      /\ broken' = broken
  BY DEF onConnectable, io, env
<1>6. BufferTypes' /\ RemainInv' /\ ProcessTypes' /\ (partial => partial')
  BY <1>0, <1>5 DEF Parts, BufferTypes, RemainInv, ProcessTypes, Running
<1>7. ivSet' \in [Conn -> BOOLEAN]
  BY <1>0, <1>5 DEF Parts
<1>8. partial' \in BOOLEAN
  BY <1>0, <1>5 DEF Parts
<1>9. cancelled \subseteq {x \in Sock : interest[x] = "none"}
      /\ interest \in [Sock -> {"none", "connect", "read", "write"}]
      /\ conn \in [Conn -> {"unused", "none", "idle", "connecting", "established", "down"}]
  BY <1>0 DEF Parts, KeyTypes, ConnTypes
<1>10. CASE /\ s \in broken /\ conn' = [conn EXCEPT ![c] = "down"]
            /\ interest' = [interest EXCEPT ![s] = "none"]
            /\ toServer' = toServer /\ toApp' = toApp
  <2>1. ConnStep(c) /\ conn'[c] = "down"
    BY <1>9, <1>10 DEF ConnStep, ConnTypes, On
  <2>2. /\ interest' \in [Sock -> {"none", "connect", "read", "write"}] /\ interest'[s] = "none"
        /\ \A x \in Sock : x # s => interest'[x] = interest[x]
    BY <1>9, <1>10
  <2>3. KeyStep(c)
    <3>1. \A x \in cancelled' : x \in Sock /\ interest'[x] = "none"
      BY <1>5, <1>9, <2>2
    <3>2. \A x \in Sock : x[1] = c => interest'[x] = "none"
      BY <1>3, <1>4, <2>2, <1>1, <1>2
    <3>3. \A x \in Sock : x[1] # c => interest'[x] = interest[x]
      BY <1>1, <2>2
    <3>4. QED
      BY <1>5, <2>2, <3>1, <3>2, <3>3 DEF KeyStep
  <2>4. IoStep(c)
    BY <1>0, <1>5, <1>10 DEF Parts, IoTypes, IoStep
  <2>5. DataInv(c)'
    <3>1. SentDown(c)' = SentDown(c)
      BY <1>5 DEF SentDown
    <3>2. QED
      BY <1>0, <1>1, <1>5, <1>10, <2>1, <3>1 DEF DataInv, Running
  <2>6. QED
    BY <1>6, <1>7, <1>8, <2>1, <2>3, <2>4, <2>5, HandledKeeps DEF Handled
<1>11. CASE onConnected(c)
  <2>1. conn' = [conn EXCEPT ![c] = "established"]
        /\ interest' = [interest EXCEPT ![s] = "read", ![t] = "read"]
    BY <1>1, <1>2, <1>11 DEF onConnected, onTunnelEstablished
  <2>2. ConnStep(c) /\ conn'[c] = "established"
    BY <1>9, <2>1 DEF ConnStep, ConnTypes, On
  <2>3. /\ interest' \in [Sock -> {"none", "connect", "read", "write"}]
        /\ interest'[s] = "read" /\ interest'[t] = "read"
        /\ \A x \in Sock : x # s /\ x # t => interest'[x] = interest[x]
    BY <1>1, <1>2, <1>9, <2>1
  <2>4. KeyStep(c)
    <3>1. \A x \in cancelled' : x \in Sock /\ interest'[x] = "none"
      BY <1>3, <1>5, <1>9, <2>3
    <3>2. \A x \in Sock : x[1] = c => interest'[x] = "read"
      BY <1>4, <2>3
    <3>3. \A x \in Sock : x[1] # c => interest'[x] = interest[x]
      BY <1>1, <1>2, <2>3
    <3>4. QED
      BY <1>5, <2>3, <3>1, <3>2, <3>3 DEF KeyStep
  <2>5. PICK h \in Seq(Byte) : h = handshake(c) /\ Len(h) = HEADER /\ HEADER \in Nat
    BY handshakeParts
  <2>6. PICK k \in 0..Len(h) : k = (IF s \in broken THEN 0 ELSE HEADER) /\ Taken(s, k, h)
    BY <1>1, <1>11, <2>5 DEF onConnected
  <2>7. TakenStep(c) /\ toServer'[c] = <<>> \o SubSeq(h, 1, k) /\ toApp' = toApp
    <3>1. TakenStep(s[1]) /\ toServer'[s[1]] = toServer[s[1]] \o SubSeq(h, 1, k) /\ toApp' = toApp
      BY <1>1, <2>6, TakenParts
    <3>2. QED
      BY <1>1, <1>3, <3>1
  <2>8. IoStep(c)
    BY <1>0, <1>5, <2>7 DEF Parts, IoTypes, IoStep, TakenStep
  <2>9. s \notin broken => toServer'[c] = h
    BY <2>5, <2>6, <2>7, HandshakeAlone
  <2>10. HasHandshake(h, c)
    BY <2>5, HandshakeAlone
  <2>11. SentUp(c)' = h
    <3>1. upRead'[c] = 0
      BY <1>3, <1>5
    <3>2. PICK z : z = Bytes(c, "up", 0, 0, 1)
      OBVIOUS
    <3>3. IsBytes(z, c, "up", 0, 0, 1)
      <4>1. 0 + 0 = 0 /\ 0 \in Nat /\ 1 \in 0..2
        OBVIOUS
      <4>2. QED
        BY <3>2, <4>1, BytesParts DEF Dir
    <3>4. z = <<>>
      BY <3>3, EmptySeq DEF IsBytes
    <3>5. SentUp(c)' = h \o z
      BY <2>5, <3>1, <3>2 DEF SentUp
    <3>6. QED
      BY <3>4, <3>5, ConcatEmptySeq
  <2>12. SentDown(c)' = SentDown(c)
    BY <1>5 DEF SentDown
  <2>13. DataInv(c)'
    <3>1. Running' => IF ivSet'[c] THEN downRead'[c] >= IV ELSE downRead'[c] = 0
      BY <1>0, <1>5 DEF DataInv, Running
    <3>2. <<c, "R">> \notin broken' => HasHandshake(toServer'[c], c)
      BY <1>1, <1>5, <2>9, <2>10
    <3>3. ~partial' => /\ <<c, "R">> \notin broken' => toServer'[c] = SentUp(c)'
                       /\ <<c, "L">> \notin broken' => toApp'[c] = SentDown(c)'
      BY <1>0, <1>1, <1>5, <2>7, <2>9, <2>11, <2>12 DEF DataInv
    <3>4. QED
      BY <2>2, <3>1, <3>2, <3>3 DEF DataInv
  <2>14. QED
    BY <1>6, <1>7, <1>8, <2>2, <2>4, <2>8, <2>13, HandledKeeps DEF Handled
<1>12. QED
  BY <1>1, <1>10, <1>11 DEF onConnectable, io

-----------------------------------------------------------------------------
(* Reading *)

\* The bytes read of one socket of connection c, and what is left of the others.
ReadStep(s, k) ==
    LET c == s[1] IN
    /\ upRead' \in [Conn -> 0..Up] /\ downRead' \in [Conn -> 0..IV + Down]
    /\ \A d \in Conn : d # c => upRead'[d] = upRead[d] /\ downRead'[d] = downRead[d]
                                /\ ivSet'[d] = ivSet[d]
    /\ s[2] = "L" => /\ upRead'[c] = upRead[c] + k /\ downRead'[c] = downRead[c]
                     /\ ivSet'[c] = ivSet[c]
    /\ s[2] = "R" => /\ upRead'[c] = upRead[c] /\ downRead'[c] = downRead[c] + k
                     /\ downRead[c] + k <= IV + Down /\ ivSet'[c] = TRUE

LEMMA ReadParts ==
    ASSUME TunnelInv, NEW s \in Sock, NEW k \in 1..Arrived(s), Read(s, k)
    PROVE  ReadStep(s, k) /\ ivSet' \in [Conn -> BOOLEAN] /\ k \in Nat /\ k > 0
<1>0. /\ upRead \in [Conn -> 0..Up] /\ downRead \in [Conn -> 0..IV + Down]
      /\ s[1] \in Conn /\ s[2] \in {"L", "R"}
  BY TypeParts, SockParts DEF TunnelInv, Parts, IoTypes
<1>1. ivSet \in [Conn -> BOOLEAN]
  BY TypeParts DEF TunnelInv, Parts
<1>2. IV \in Nat /\ Down \in Nat /\ Up \in Nat
  BY TunnelAssumption
<1>3. PICK c \in Conn : c = s[1]
  BY <1>0
<1>4. PICK u \in 0..Up : u = upRead[c]
  BY <1>0
<1>5. PICK d \in 0..(IV + Down) : d = downRead[c]
  BY <1>0
<1>6. CASE s[2] = "L"
  <2>1. k \in 1..(Up - u)
    BY <1>3, <1>4, <1>6 DEF Arrived
  <2>2. u + k \in 0..Up /\ k \in Nat /\ k > 0
    BY <1>2, <2>1
  <2>3. upRead' = [upRead EXCEPT ![c] = u + k] /\ downRead' = downRead /\ ivSet' = ivSet
    BY <1>3, <1>4, <1>6 DEF Read
  <2>4. ReadStep(s, k)
    BY <1>0, <1>3, <1>4, <1>6, <2>2, <2>3 DEF ReadStep
  <2>5. QED
    BY <1>1, <2>2, <2>3, <2>4
<1>7. CASE s[2] = "R"
  <2>1. k \in 1..(IV + Down - d)
    BY <1>3, <1>5, <1>7 DEF Arrived
  <2>2. d + k \in 0..(IV + Down) /\ k \in Nat /\ k > 0
    BY <1>2, <2>1
  <2>3. downRead' = [downRead EXCEPT ![c] = d + k] /\ upRead' = upRead
        /\ ivSet' = [ivSet EXCEPT ![c] = TRUE]
    BY <1>3, <1>5, <1>7 DEF Read
  <2>4. ivSet' \in [Conn -> BOOLEAN]
    BY <1>1, <2>3
  <2>5. ivSet'[c] = TRUE /\ \A x \in Conn : x # c => ivSet'[x] = ivSet[x]
    BY <1>1, <2>3
  <2>6. downRead' \in [Conn -> 0..(IV + Down)] /\ downRead'[c] = d + k
        /\ \A x \in Conn : x # c => downRead'[x] = downRead[x]
    BY <1>0, <2>2, <2>3
  <2>7. d + k <= IV + Down
    BY <1>2, <2>2
  <2>8. ReadStep(s, k)
    BY <1>0, <1>3, <1>5, <1>7, <2>3, <2>5, <2>6, <2>7 DEF ReadStep
  <2>9. QED
    BY <2>2, <2>4, <2>8
<1>8. QED
  BY <1>0, <1>6, <1>7

\* The stream of the app and the part of it that follows.
LEMMA SentUpGrows ==
    ASSUME NEW c \in Conn, NEW a \in Nat, NEW k \in Nat, NEW bs, IsBytes(bs, c, "up", a, k, 1),
           NEW m, m = a + k
    PROVE  Joined(Joined(handshake(c), Bytes(c, "up", 0, a, 1)), bs)
             = Joined(handshake(c), Bytes(c, "up", 0, m, 1))
<1>1. PICK h \in Seq(Byte) : h = handshake(c)
  BY handshakeParts
<1>2. PICK x : x = Bytes(c, "up", 0, a, 1)
  OBVIOUS
<1>3. PICK z : z = Bytes(c, "up", 0, m, 1)
  OBVIOUS
<1>4. PICK dir \in Dir : dir = "up"
  BY DEF Dir
<1>5. PICK enc \in 0..2 : enc = 1
  OBVIOUS
<1>6. IsBytes(bs, c, dir, a, k, enc) /\ x = Bytes(c, dir, 0, a, enc) /\ z = Bytes(c, dir, 0, m, enc)
  BY <1>2, <1>3, <1>4, <1>5
<1>7. Joined(x, bs) = z /\ x \in Seq(Byte) /\ bs \in Seq(Byte)
  BY <1>6, BytesGrow
<1>8. Joined(Joined(h, x), bs) = Joined(h, Joined(x, bs))
  BY <1>7, JoinedAssociative
<1>9. QED
  BY <1>1, <1>2, <1>3, <1>7, <1>8

\* The data of a connection whose local socket was read, when the remote one takes all
\* it is given, breaks, or keeps a part.
LEMMA ReadUpData ==
    ASSUME NEW c \in Conn, DataInv(c), conn[c] \in On, conn'[c] = conn[c], broken' = broken,
           downRead'[c] = downRead[c], ivSet'[c] = ivSet[c], toApp'[c] = toApp[c],
           NEW a \in Nat, a = upRead[c], NEW k \in Nat, upRead'[c] = a + k,
           NEW bs, IsBytes(bs, c, "up", a, k, 1),
           HasHandshake(toServer[c], c) => HasHandshake(toServer'[c], c),
           ~partial' /\ <<c, "R">> \notin broken => toServer'[c] = Joined(toServer[c], bs),
           partial => partial', Running' => Running
    PROVE  DataInv(c)'
<1>1. SentDown(c)' = SentDown(c)
  BY DEF SentDown
<1>2. ASSUME ~partial', conn[c] = "established", <<c, "R">> \notin broken
      PROVE  toServer'[c] = SentUp(c)'
  <2>1. toServer[c] = SentUp(c)
    BY <1>2 DEF DataInv
  <2>2. PICK m : m = a + k
    OBVIOUS
  <2>3. Joined(Joined(handshake(c), Bytes(c, "up", 0, a, 1)), bs)
          = Joined(handshake(c), Bytes(c, "up", 0, m, 1))
    BY <2>2, SentUpGrows
  <2>4. SentUp(c) = Joined(handshake(c), Bytes(c, "up", 0, a, 1))
    BY DEF SentUp, Joined
  <2>5. SentUp(c)' = Joined(handshake(c), Bytes(c, "up", 0, m, 1))
    BY <2>2 DEF SentUp, Joined
  <2>6. QED
    BY <1>2, <2>1, <2>3, <2>4, <2>5
<1>3. ~partial' /\ <<c, "L">> \notin broken => toApp'[c] = SentDown(c)'
  BY <1>1 DEF DataInv
<1>4. QED
  BY <1>2, <1>3 DEF DataInv, On

\* The same for the remote socket.
LEMMA ReadDownData ==
    ASSUME NEW c \in Conn, DataInv(c), conn[c] \in On, <<c, "R">> \notin broken, broken' = broken,
           conn'[c] = conn[c] \/ (conn'[c] = "down" /\ <<c, "L">> \in broken),
           upRead'[c] = upRead[c], toServer'[c] = toServer[c], ivSet'[c] = TRUE,
           NEW d \in Nat, d = downRead[c], NEW k \in Nat, k > 0, downRead'[c] = d + k,
           d + k <= IV + Down, Running' => d + k >= IV,
           ~partial' /\ <<c, "L">> \notin broken /\ conn[c] = "established" =>
               toApp'[c] = SentDown(c)',
           partial => partial', Running' => Running
    PROVE  DataInv(c)'
<1>0. IV \in Nat /\ Down \in Nat
  BY TunnelAssumption
<1>1. SentUp(c)' = SentUp(c)
  BY DEF SentUp
<1>2. conn[c] = "down" => <<c, "L">> \in broken
  <2>1. d # IV + Down
    BY <1>0
  <2>2. QED
    BY <2>1 DEF DataInv
<1>3. conn[c] = "established" \/ conn[c] = "down"
  BY DEF On
<1>4. QED
  BY <1>1, <1>2, <1>3 DEF DataInv, On

\* What a step does to the shared buffer.
RemainStep == BufferTypes' /\ RemainInv'

LEMMA RemainKept ==
    ASSUME TunnelInv, remaining' = remaining, partial' = partial, Running' => Running
    PROVE  RemainStep
<1>0. BufferTypes /\ RemainInv
  BY TypeParts DEF TunnelInv, Parts
<1>1. QED
  BY <1>0 DEF RemainStep, BufferTypes, RemainInv

\* The buffer keeps nothing of use when an exception ends the process.
LEMMA RemainLost ==
    ASSUME TunnelInv, remaining' = remaining, ~Running'
    PROVE  RemainStep
<1>0. BufferTypes /\ RemainInv
  BY TypeParts DEF TunnelInv, Parts
<1>1. QED
  BY <1>0 DEF RemainStep, BufferTypes, RemainInv

LEMMA ThrowsParts ==
    ASSUME TunnelInv, NEW c \in Conn, conn[c] \in On, NEW e \in {"cut IV", "buffer", "cancelled key"},
           Throws(e), partial => partial'
    PROVE  KeyStep(c) /\ ConnStep(c) /\ conn' = conn /\ ProcessTypes' /\ RemainStep /\ ~Running'
<1>1. process' = e /\ conn' = conn /\ UNCHANGED keys /\ remaining' = remaining
  BY DEF Throws
<1>2. ~Running' /\ ProcessTypes'
  BY <1>1 DEF Running, ProcessTypes
<1>3. QED
  BY <1>1, <1>2, KeysKept, ConnKept, RemainLost

\* The part of a sequence up to position p, and other bytes behind it.
LEMMA Spliced ==
    ASSUME NEW q \in Seq(Byte), NEW p \in Nat, p <= Len(q), NEW u \in Seq(Byte),
           NEW r, r = SubSeq(q, 1, p) \o u
    PROVE  r \in Seq(Byte) /\ Len(r) = p + Len(u)
<1>0. Len(q) \in Nat /\ p \in Int
  BY LenProperties
<1>1. \A i \in 1..p : q[i] \in Byte
  BY <1>0, ElementOfSeq
<1>2. SubSeq(q, 1, p) \in Seq(Byte) /\ Len(SubSeq(q, 1, p)) = p
  <2>1. /\ SubSeq(q, 1, p) \in Seq(Byte)
        /\ Len(SubSeq(q, 1, p)) = (IF 1 <= p THEN p - 1 + 1 ELSE 0)
    BY <1>0, <1>1, SubSeqProperties
  <2>2. QED
    BY <2>1
<1>3. PICK x \in Seq(Byte) : x = SubSeq(q, 1, p) /\ Len(x) = p
  BY <1>2
<1>4. QED
  BY <1>3, ConcatProperties

LEMMA ScheduleParts ==
    ASSUME TunnelInv, Running, NEW t \in Sock, conn[t[1]] \in On, NEW u \in Seq(Byte),
           partial' = TRUE, scheduleRemainWrite(t, u)
    PROVE  KeyStep(t[1]) /\ ConnStep(t[1]) /\ conn' = conn /\ ProcessTypes' /\ RemainStep
           /\ (Running' => Running)
<1>0. /\ t[1] \in Conn /\ BufferTypes /\ RemainInv /\ ProcessTypes
      /\ Brother(t) \in Sock /\ Brother(t) # t /\ Brother(t)[1] = t[1]
  BY TypeParts, SockParts DEF TunnelInv, Parts
<1>1. PICK end : end = remaining.position + Len(u)
  OBVIOUS
<1>2. CASE end > remaining.limit
  <2>1. Throws("buffer")
    BY <1>1, <1>2 DEF scheduleRemainWrite
  <2>2. QED
    BY <1>0, <2>1, ThrowsParts
<1>3. CASE ~(end > remaining.limit) /\ t \in cancelled
  <2>1. Throws("cancelled key")
    BY <1>1, <1>3 DEF scheduleRemainWrite
  <2>2. QED
    BY <1>0, <2>1, ThrowsParts
<1>4. CASE ~(end > remaining.limit) /\ t \notin cancelled
  <2>1. /\ remaining' = [bytes |-> SubSeq(remaining.bytes, 1, remaining.position) \o u,
                         position |-> 0, limit |-> end]
        /\ interest' = [interest EXCEPT ![t] = "write", ![Brother(t)] = "none"]
        /\ cancelled' = cancelled \cup {Brother(t)}
        /\ conn' = conn /\ process' = process
    BY <1>1, <1>4 DEF scheduleRemainWrite
  <2>2. KeyStep(t[1])
    <3>1. PICK s \in Sock : s = Brother(t) /\ s # t /\ s[1] = t[1]
      BY <1>0
    <3>2. interest' = [interest EXCEPT ![t] = "write", ![s] = "none"] /\ cancelled' = cancelled \cup {s}
      BY <2>1, <3>1
    <3>3. KeyStep(s[1])
      BY <1>4, <3>1, <3>2, KeysMoved
    <3>4. QED
      BY <3>1, <3>3
  <2>3. PICK q \in Seq(Byte) : q = remaining.bytes
    BY <1>0 DEF BufferTypes
  <2>4. PICK p \in Nat : p = remaining.position /\ p <= Len(q) /\ p <= remaining.limit
        /\ remaining.limit \in Nat /\ remaining.limit <= BUFFER
    BY <1>0, <2>3 DEF BufferTypes, RemainInv
  <2>5. PICK r \in Seq(Byte) : r = SubSeq(q, 1, p) \o u /\ Len(r) = p + Len(u)
    <3>1. PICK x : x = SubSeq(q, 1, p) \o u
      OBVIOUS
    <3>2. x \in Seq(Byte) /\ Len(x) = p + Len(u)
      BY <2>4, <3>1, Spliced
    <3>3. QED
      BY <3>1, <3>2
  <2>6. remaining' = [bytes |-> r, position |-> 0, limit |-> end] /\ end = Len(r)
    BY <1>1, <2>1, <2>3, <2>4, <2>5
  <2>7. end \in Nat /\ end <= BUFFER
    <3>1. Len(r) \in Nat /\ BUFFER \in Nat
      BY LenProperties, TunnelAssumption
    <3>2. QED
      BY <1>4, <2>4, <2>6, <3>1
  <2>8. RemainStep
    BY <2>6, <2>7 DEF RemainStep, BufferTypes, RemainInv
  <2>9. ProcessTypes' /\ (Running' => Running)
    BY <1>0, <2>1 DEF ProcessTypes, Running
  <2>10. ConnStep(t[1])
    BY <1>0, <2>1, ConnKept
  <2>11. QED
    BY <2>1, <2>2, <2>8, <2>9, <2>10
<1>5. QED
  BY <1>2, <1>3, <1>4

\* What becomes of the bytes bs read of a socket s: its brother b takes them all,
\* unless it is broken, a part is kept or the tunnel passes nothing on.
Passed(s, b, bs) ==
    LET c == s[1] IN
    /\ b[2] = "R" => toApp'[c] = toApp[c]
    /\ b[2] = "L" => toServer'[c] = toServer[c]
    /\ conn'[c] = conn[c] \/ (s[2] = "R" /\ conn'[c] = "down" /\ b \in broken)
    /\ ~partial' /\ b \notin broken /\ isTunnelEstablished(s) =>
          /\ b[2] = "R" => toServer'[c] = Joined(toServer[c], bs)
          /\ b[2] = "L" => toApp'[c] = Joined(toApp[c], bs)

PassStep(c) ==
    /\ KeyStep(c) /\ ConnStep(c) /\ TakenStep(c) /\ ProcessTypes' /\ RemainStep
    /\ partial => partial'
    /\ Running' => Running

LEMMA PassParts ==
    ASSUME TunnelInv, Running, NEW s \in Sock, conn[s[1]] \in On, NEW b, b = Brother(s),
           NEW bs \in Seq(Byte), Pass(s, b, bs)
    PROVE  PassStep(s[1]) /\ Passed(s, b, bs) /\ partial' \in BOOLEAN
<1>0. /\ s[1] \in Conn /\ b \in Sock /\ b[1] = s[1] /\ ProcessTypes
      /\ s[2] \in {"L", "R"} /\ b[2] = IF s[2] = "L" THEN "R" ELSE "L"
  BY TypeParts, SockParts DEF TunnelInv, Parts
<1>1. PICK c \in Conn : c = s[1]
  BY <1>0
<1>2. partial \in BOOLEAN
  BY TypeParts DEF TunnelInv, Parts
<1>3. PICK x \in Seq(Byte), y \in Seq(Byte) : x = toServer[c] /\ y = toApp[c]
  BY TypeParts DEF TunnelInv, Parts, IoTypes
<1>4. CASE /\ bs = <<>> \/ ~isTunnelEstablished(s)
           /\ UNCHANGED <<conn, keys, remaining, toServer, toApp, process, partial>>
  <2>1. PassStep(c)
    BY <1>0, <1>1, <1>4, KeysKept, ConnKept, TakenSame, RemainKept DEF PassStep, ProcessTypes, Running
  <2>2. bs = <<>> => x \o bs = x /\ y \o bs = y
    BY ConcatEmptySeq
  <2>3. Passed(s, b, bs)
    BY <1>1, <1>3, <1>4, <2>2 DEF Passed, Joined
  <2>4. QED
    BY <1>1, <1>2, <1>4, <2>1, <2>3
<1>5. CASE /\ b \in broken /\ dispose(s) /\ Cancel(s)
           /\ UNCHANGED <<remaining, toServer, toApp, process, partial>>
  <2>1. ConnStep(c) /\ conn'[c] = IF s[2] = "R" THEN "down" ELSE conn[c]
    BY <1>1, <1>5, Disposed
  <2>2. KeyStep(c)
    BY <1>1, <1>5, KeyCancelled
  <2>3. PassStep(c)
    BY <1>0, <1>1, <1>5, <2>1, <2>2, TakenSame, RemainKept DEF PassStep, ProcessTypes, Running
  <2>4. Passed(s, b, bs)
    BY <1>1, <1>5, <2>1 DEF Passed, Joined
  <2>5. QED
    BY <1>1, <1>2, <1>5, <2>3, <2>4
<1>6. CASE Taken(b, Len(bs), bs) /\ UNCHANGED <<conn, keys, remaining, process, partial>>
  <2>1. PICK k \in 0..Len(bs) : k = Len(bs)
    BY LenProperties
  <2>2. /\ TakenStep(b[1])
        /\ b[2] = "R" => toServer'[b[1]] = toServer[b[1]] \o SubSeq(bs, 1, k) /\ toApp' = toApp
        /\ b[2] # "R" => toApp'[b[1]] = toApp[b[1]] \o SubSeq(bs, 1, k) /\ toServer' = toServer
    BY <1>0, <1>6, <2>1, TakenParts
  <2>3. SubSeq(bs, 1, k) = bs
    BY <2>1, SubSeqFull
  <2>4. PassStep(c)
    BY <1>0, <1>1, <1>6, <2>2, KeysKept, ConnKept, RemainKept DEF PassStep, ProcessTypes, Running
  <2>5. Passed(s, b, bs)
    BY <1>0, <1>1, <1>6, <2>2, <2>3 DEF Passed, Joined
  <2>6. QED
    BY <1>1, <1>2, <1>6, <2>4, <2>5
<1>7. CASE \E j \in 0..(Len(bs) - 1) : /\ Taken(b, j, bs)
                                      /\ partial' = TRUE
                                      /\ scheduleRemainWrite(b, SubSeq(bs, j + 1, Len(bs)))
  <2>0. PICK n \in Nat : n = Len(bs)
    BY LenProperties
  <2>1. PICK j \in 0..(n - 1) : /\ Taken(b, j, bs)
                                /\ partial' = TRUE
                                /\ scheduleRemainWrite(b, SubSeq(bs, j + 1, n))
    BY <1>7, <2>0
  <2>2. j \in 0..Len(bs)
    BY <2>0
  <2>3. /\ TakenStep(b[1])
        /\ b[2] = "R" => toApp' = toApp
        /\ b[2] # "R" => toServer' = toServer
    BY <1>0, <2>1, <2>2, TakenParts
  <2>4. PICK u \in Seq(Byte) : u = SubSeq(bs, j + 1, n)
    <3>1. PICK lo \in Int : lo = j + 1
      OBVIOUS
    <3>2. \A i \in lo..n : i \in 1..Len(bs)
      BY <2>0, <3>1
    <3>3. \A i \in lo..n : bs[i] \in Byte
      BY <3>2, ElementOfSeq
    <3>4. n \in Int
      OBVIOUS
    <3>5. SubSeq(bs, lo, n) \in Seq(Byte)
      BY <3>3, <3>4, SubSeqProperties
    <3>6. QED
      BY <3>1, <3>5
  <2>5. KeyStep(c) /\ ConnStep(c) /\ conn' = conn /\ ProcessTypes' /\ RemainStep /\ (Running' => Running)
    <3>1. conn[b[1]] \in On /\ scheduleRemainWrite(b, u) /\ partial' = TRUE
      BY <1>0, <2>1, <2>4
    <3>2. KeyStep(b[1]) /\ ConnStep(b[1]) /\ conn' = conn /\ ProcessTypes' /\ RemainStep
          /\ (Running' => Running)
      BY <1>0, <3>1, ScheduleParts
    <3>3. QED
      BY <1>0, <1>1, <3>2
  <2>6. PassStep(c)
    BY <1>0, <1>1, <2>1, <2>3, <2>5 DEF PassStep
  <2>7. Passed(s, b, bs)
    BY <1>0, <1>1, <2>1, <2>3, <2>5 DEF Passed, Joined
  <2>8. QED
    BY <1>1, <2>1, <2>6, <2>7
<1>8. QED
  BY <1>4, <1>5, <1>6, <1>7 DEF Pass

\* What a read of a socket sends through its brother.
Outgoing(s, k) == beforeSend(Brother(s), afterReceived(s, Incoming(s, k)))

LEMMA OutgoingUp ==
    ASSUME NEW s \in Sock, s[2] = "L", NEW a \in Nat, a = upRead[s[1]], NEW k \in Nat,
           NEW bs, bs = Outgoing(s, k)
    PROVE  IsBytes(bs, s[1], "up", a, k, 1)
<1>1. PICK c \in Conn : c = s[1]
  BY SockParts
<1>2. PICK m \in Nat : m = a + k
  OBVIOUS
<1>3. PICK in : in = Bytes(c, "up", a, m, 0)
  OBVIOUS
<1>4. IsBytes(in, c, "up", a, k, 0)
  <2>1. 0 \in 0..2
    OBVIOUS
  <2>2. QED
    BY <1>2, <1>3, <2>1, BytesParts DEF Dir
<1>5. PICK b : b = Brother(s) /\ b[2] = "R"
  BY SockParts
<1>6. bs = beforeSend(b, in)
  BY <1>1, <1>2, <1>3, <1>5 DEF Outgoing, afterReceived, Incoming
<1>7. QED
  BY <1>1, <1>4, <1>5, <1>6, EncryptUp

LEMMA OutgoingDown ==
    ASSUME NEW s \in Sock, s[2] = "R", NEW d \in Nat, d = downRead[s[1]], NEW k \in Nat, k > 0,
           d + k <= IV + Down, (ivSet[s[1]] /\ d >= IV) \/ (~ivSet[s[1]] /\ d = 0 /\ k >= IV),
           NEW g \in Nat, g = IF d < IV THEN 0 ELSE d - IV, NEW n \in Nat, n = (d + k - IV) - g,
           NEW bs, bs = Outgoing(s, k)
    PROVE  IsBytes(bs, s[1], "down", g, n, 0)
<1>1. PICK c \in Conn : c = s[1] /\ s = <<c, "R">>
  BY SockParts
<1>2. PICK b : b = Brother(s) /\ b[2] # "R"
  BY SockParts
<1>3. PICK r : r = afterReceived(s, Incoming(s, k))
  OBVIOUS
<1>4. IsBytes(r, c, "down", g, n, 0)
  BY <1>1, <1>3, ReceivedDown
<1>5. bs = r
  BY <1>2, <1>3 DEF Outgoing, beforeSend
<1>6. QED
  BY <1>1, <1>4, <1>5

\* The stream of the server, decrypted, and the part of it that follows.
LEMMA DownGrows ==
    ASSUME NEW c \in Conn, NEW g \in Nat, NEW n \in Nat, NEW bs, IsBytes(bs, c, "down", g, n, 0),
           NEW m, m = g + n
    PROVE  Joined(Bytes(c, "down", 0, g, 0), bs) = Bytes(c, "down", 0, m, 0)
<1>1. PICK x : x = Bytes(c, "down", 0, g, 0)
  OBVIOUS
<1>2. PICK z : z = Bytes(c, "down", 0, m, 0)
  OBVIOUS
<1>3. PICK dir \in Dir : dir = "down"
  BY DEF Dir
<1>4. PICK enc \in 0..2 : enc = 0
  OBVIOUS
<1>5. IsBytes(bs, c, dir, g, n, enc) /\ x = Bytes(c, dir, 0, g, enc) /\ z = Bytes(c, dir, 0, m, enc)
  BY <1>1, <1>2, <1>3, <1>4
<1>6. QED
  BY <1>1, <1>2, <1>5, BytesGrow

LEMMA SentDownGrows ==
    ASSUME NEW c \in Conn, NEW d \in Nat, d = downRead[c], NEW k \in Nat, downRead'[c] = d + k,
           d + k >= IV, NEW g \in Nat, g = IF d < IV THEN 0 ELSE d - IV,
           NEW n \in Nat, n = (d + k - IV) - g, NEW bs, IsBytes(bs, c, "down", g, n, 0)
    PROVE  Joined(SentDown(c), bs) = SentDown(c)'
<1>0. IV \in Nat
  BY TunnelAssumption
<1>1. PICK m \in Nat : m = g + n /\ m = (d + k) - IV
  BY <1>0
<1>2. Joined(Bytes(c, "down", 0, g, 0), bs) = Bytes(c, "down", 0, m, 0)
  BY <1>1, DownGrows
<1>3. SentDown(c) = Bytes(c, "down", 0, g, 0)
  BY DEF SentDown
<1>4. SentDown(c)' = Bytes(c, "down", 0, m, 0)
  <2>1. ~(downRead'[c] < IV) /\ downRead'[c] - IV = m
    BY <1>0, <1>1
  <2>2. QED
    BY <2>1 DEF SentDown
<1>5. QED
  BY <1>2, <1>3, <1>4

\* Before the IV is complete the app gets nothing.
LEMMA SentDownWaits ==
    ASSUME NEW c \in Conn, NEW d, d = downRead[c], d = 0, NEW k \in Nat, downRead'[c] = d + k, k < IV
    PROVE  SentDown(c)' = SentDown(c)
<1>1. IV \in Nat /\ IV > 0
  BY TunnelAssumption
<1>2. downRead[c] < IV /\ downRead'[c] < IV
  BY <1>1
<1>3. QED
  BY <1>2 DEF SentDown

\* The end of a stream, or an error.
LEMMA FailedReadKeeps ==
    ASSUME TunnelInv, Running, NEW s \in Sock, conn[s[1]] \in On, SelectedStep(s[1]), UNCHANGED env,
           s \in broken \/ (s \in ended /\ Arrived(s) = 0), dispose(s),
           UNCHANGED <<keys, remaining, io, process, partial>>
    PROVE  TunnelInv'
<1>1. PICK c \in Conn : c = s[1]
  BY SockParts
<1>2. Parts /\ DataInv(c)
  BY TypeParts DEF TunnelInv
<1>3. /\ remaining' = remaining /\ process' = process /\ partial' = partial /\ broken' = broken
      /\ upRead' = upRead /\ downRead' = downRead /\ toServer' = toServer /\ toApp' = toApp
      /\ ivSet' = ivSet
  BY DEF io, env
<1>4. KeyStep(c)
  BY <1>1, <1>3, KeysKept
<1>5. ConnStep(c) /\ conn'[c] = IF s[2] = "R" THEN "down" ELSE conn[c]
  BY <1>1, Disposed
<1>6. IoStep(c)
  BY <1>2, <1>3 DEF Parts, IoTypes, IoStep
<1>7. RemainStep /\ ProcessTypes'
  BY <1>2, <1>3, RemainKept DEF Parts, ProcessTypes, Running
<1>8. ivSet' \in [Conn -> BOOLEAN]
  BY <1>2, <1>3 DEF Parts
<1>9. partial' \in BOOLEAN
  BY <1>2, <1>3 DEF Parts
<1>10. SentUp(c)' = SentUp(c) /\ SentDown(c)' = SentDown(c)
  BY <1>3 DEF SentUp, SentDown
<1>11. DataInv(c)'
  <2>1. CASE s[2] = "R"
    <3>1. s = <<c, "R">>
      BY <1>1, <2>1, SockParts
    <3>2. s \in broken \/ downRead[c] = IV + Down
      <4>1. PICK d \in Int : d = downRead[c]
        BY <1>2, TunnelAssumption DEF Parts, IoTypes
      <4>2. Arrived(s) = IV + Down - d
        BY <1>1, <2>1, <4>1 DEF Arrived
      <4>3. Arrived(s) = 0 => d = IV + Down
        BY <4>2, TunnelAssumption
      <4>4. QED
        BY <4>1, <4>3
    <3>3. QED
      BY <1>1, <1>2, <1>3, <1>5, <1>10, <2>1, <3>1, <3>2 DEF DataInv, On, Running
  <2>2. CASE s[2] # "R"
    <3>1. conn'[c] = conn[c]
      BY <1>5, <2>2
    <3>2. QED
      BY <1>2, <1>3, <3>1, DataFrame DEF Running
  <2>3. QED
    BY <2>1, <2>2
<1>12. QED
  BY <1>1, <1>3, <1>4, <1>5, <1>6, <1>7, <1>8, <1>9, <1>11, HandledKeeps DEF Handled, RemainStep

\* onReadable of a local tunnel, and of a remote one.
LEMMA ReadUpKeeps ==
    ASSUME TunnelInv, Running, NEW s \in Sock, s[2] = "L", conn[s[1]] \in On, SelectedStep(s[1]),
           UNCHANGED env, NEW k \in 1..Arrived(s), Read(s, k), NEW b, b = Brother(s),
           NEW bs, bs = Outgoing(s, k), Pass(s, b, bs)
    PROVE  TunnelInv'
<1>1. PICK c \in Conn : c = s[1]
  BY SockParts
<1>2. DataInv(c) /\ conn[c] \in On /\ broken' = broken
  BY <1>1 DEF TunnelInv, env
<1>3. ReadStep(s, k) /\ k \in Nat /\ k > 0
  BY ReadParts
<1>4. ivSet' \in [Conn -> BOOLEAN]
  BY ReadParts
<1>5. PICK a \in Nat : a = upRead[c]
  BY TypeParts, TunnelAssumption DEF TunnelInv, Parts, IoTypes
<1>6. IsBytes(bs, c, "up", a, k, 1)
  BY <1>1, <1>3, <1>5, OutgoingUp
<1>7. bs \in Seq(Byte)
  BY <1>6 DEF IsBytes
<1>8. PassStep(c) /\ Passed(s, b, bs)
  BY <1>1, <1>7, PassParts
<1>9. partial' \in BOOLEAN
  BY <1>7, PassParts
<1>10. b = <<c, "R">> /\ b[2] = "R"
  BY <1>1, SockParts DEF Brother
<1>11. /\ upRead'[c] = a + k /\ downRead'[c] = downRead[c] /\ ivSet'[c] = ivSet[c]
       /\ upRead' \in [Conn -> 0..Up] /\ downRead' \in [Conn -> 0..IV + Down]
       /\ \A d \in Conn : d # c => upRead'[d] = upRead[d] /\ downRead'[d] = downRead[d]
                                   /\ ivSet'[d] = ivSet[d]
  BY <1>1, <1>3, <1>5 DEF ReadStep
<1>12. IoStep(c)
  BY <1>8, <1>11 DEF IoStep, IoTypes, PassStep, TakenStep
<1>13. /\ toApp'[c] = toApp[c] /\ conn'[c] = conn[c]
       /\ ~partial' /\ <<c, "R">> \notin broken => toServer'[c] = Joined(toServer[c], bs)
  BY <1>1, <1>8, <1>10 DEF Passed, isTunnelEstablished
<1>14. DataInv(c)'
  BY <1>2, <1>3, <1>5, <1>6, <1>8, <1>11, <1>13, ReadUpData DEF PassStep, TakenStep
<1>15. QED
  BY <1>1, <1>4, <1>8, <1>9, <1>12, <1>14, HandledKeeps DEF Handled, PassStep, RemainStep

LEMMA ReadDownKeeps ==
    ASSUME TunnelInv, Running, NEW s \in Sock, s[2] = "R", conn[s[1]] \in On, s \notin broken,
           SelectedStep(s[1]), UNCHANGED env, NEW k \in 1..Arrived(s), Read(s, k),
           ivSet[s[1]] \/ k >= IV, NEW b, b = Brother(s), NEW bs, bs = Outgoing(s, k), Pass(s, b, bs)
    PROVE  TunnelInv'
<1>0. IV \in Nat /\ Down \in Nat
  BY TunnelAssumption
<1>1. PICK c \in Conn : c = s[1]
  BY SockParts
<1>2. DataInv(c) /\ conn[c] \in On /\ broken' = broken
  BY <1>1 DEF TunnelInv, env
<1>3. ReadStep(s, k) /\ k \in Nat /\ k > 0
  BY ReadParts
<1>4. ivSet' \in [Conn -> BOOLEAN]
  BY ReadParts
<1>5. PICK d \in Nat : d = downRead[c]
  BY <1>0, TypeParts DEF TunnelInv, Parts, IoTypes
<1>6. /\ downRead'[c] = d + k /\ d + k <= IV + Down /\ upRead'[c] = upRead[c] /\ ivSet'[c] = TRUE
      /\ upRead' \in [Conn -> 0..Up] /\ downRead' \in [Conn -> 0..IV + Down]
      /\ \A x \in Conn : x # c => upRead'[x] = upRead[x] /\ downRead'[x] = downRead[x]
                                  /\ ivSet'[x] = ivSet[x]
  BY <1>1, <1>3, <1>5 DEF ReadStep
<1>7. (ivSet[c] /\ d >= IV) \/ (~ivSet[c] /\ d = 0 /\ k >= IV)
  BY <1>1, <1>2, <1>5 DEF DataInv
<1>8. d + k >= IV
  BY <1>0, <1>3, <1>7
<1>9. PICK g \in Nat : g = IF d < IV THEN 0 ELSE d - IV
  <2>1. (IF d < IV THEN 0 ELSE d - IV) \in Nat
    BY <1>0
  <2>2. QED
    BY <2>1
<1>10. PICK n \in Nat : n = (d + k - IV) - g
  <2>1. (d + k - IV) - g \in Nat
    BY <1>0, <1>3, <1>8, <1>9
  <2>2. QED
    BY <2>1
<1>11. IsBytes(bs, c, "down", g, n, 0)
  BY <1>1, <1>3, <1>5, <1>6, <1>7, <1>9, <1>10, OutgoingDown
<1>12. bs \in Seq(Byte)
  BY <1>11 DEF IsBytes
<1>13. PassStep(c) /\ Passed(s, b, bs)
  BY <1>1, <1>12, PassParts
<1>14. partial' \in BOOLEAN
  BY <1>12, PassParts
<1>15. b = <<c, "L">> /\ b[2] = "L" /\ s = <<c, "R">>
  BY <1>1, SockParts DEF Brother
<1>16. IoStep(c)
  BY <1>6, <1>13 DEF IoStep, IoTypes, PassStep, TakenStep
<1>17. /\ toServer'[c] = toServer[c]
       /\ conn'[c] = conn[c] \/ (conn'[c] = "down" /\ <<c, "L">> \in broken)
       /\ ~partial' /\ <<c, "L">> \notin broken /\ conn[c] = "established" =>
             toApp'[c] = Joined(toApp[c], bs)
  BY <1>1, <1>13, <1>15 DEF Passed, isTunnelEstablished
<1>18. Joined(SentDown(c), bs) = SentDown(c)'
  BY <1>3, <1>5, <1>6, <1>8, <1>9, <1>10, <1>11, SentDownGrows
<1>19. (partial => partial') /\ (Running' => Running)
  BY <1>13 DEF PassStep
<1>20. ~partial' /\ <<c, "L">> \notin broken /\ conn[c] = "established" => toApp'[c] = SentDown(c)'
  BY <1>2, <1>17, <1>18, <1>19 DEF DataInv
<1>21. <<c, "R">> \notin broken
  BY <1>15
<1>22. DataInv(c)'
  BY <1>2, <1>3, <1>5, <1>6, <1>8, <1>17, <1>19, <1>20, <1>21, ReadDownData
<1>23. QED
  BY <1>1, <1>4, <1>13, <1>14, <1>16, <1>22, HandledKeeps DEF Handled, PassStep, RemainStep

\* A first read that is shorter than the IV ends the process.
LEMMA CutIvKeeps ==
    ASSUME TunnelInv, Running, NEW s \in Sock, s[2] = "R", conn[s[1]] \in On, s \notin broken,
           SelectedStep(s[1]), UNCHANGED env, NEW k \in 1..Arrived(s), Read(s, k),
           ~ivSet[s[1]], k < IV, Throws("cut IV"), UNCHANGED <<toServer, toApp, partial>>
    PROVE  TunnelInv'
<1>0. IV \in Nat /\ Down \in Nat
  BY TunnelAssumption
<1>1. PICK c \in Conn : c = s[1] /\ s = <<c, "R">>
  <2>1. s[1] \in Conn /\ s = <<s[1], s[2]>>
    BY SockParts
  <2>2. QED
    BY <2>1
<1>2. DataInv(c) /\ conn[c] \in On /\ broken' = broken
  BY <1>1 DEF TunnelInv, env
<1>3. ReadStep(s, k) /\ k \in Nat /\ k > 0
  BY ReadParts
<1>4. ivSet' \in [Conn -> BOOLEAN]
  BY ReadParts
<1>5. PICK d \in Nat : d = downRead[c] /\ d = 0
  BY <1>1, <1>2 DEF DataInv
<1>6. /\ downRead'[c] = d + k /\ d + k <= IV + Down /\ upRead'[c] = upRead[c] /\ ivSet'[c] = TRUE
      /\ upRead' \in [Conn -> 0..Up] /\ downRead' \in [Conn -> 0..IV + Down]
      /\ \A x \in Conn : x # c => upRead'[x] = upRead[x] /\ downRead'[x] = downRead[x]
                                  /\ ivSet'[x] = ivSet[x]
  BY <1>1, <1>3, <1>5 DEF ReadStep
<1>7. KeyStep(c) /\ ConnStep(c) /\ conn' = conn /\ ProcessTypes' /\ RemainStep /\ ~Running'
  BY <1>2, ThrowsParts
<1>8. TakenStep(c)
  BY TakenSame
<1>9. IoStep(c)
  BY <1>6, <1>8 DEF IoStep, IoTypes, TakenStep
<1>10. partial' \in BOOLEAN
  BY TypeParts DEF TunnelInv, Parts
<1>11. SentDown(c)' = SentDown(c)
  BY <1>3, <1>5, <1>6, SentDownWaits
<1>12. DataInv(c)'
  <2>1. ~partial' /\ <<c, "L">> \notin broken /\ conn[c] = "established" => toApp'[c] = SentDown(c)'
    BY <1>2, <1>11 DEF DataInv
  <2>2. <<c, "R">> \notin broken /\ toServer'[c] = toServer[c] /\ conn'[c] = conn[c]
    BY <1>1, <1>7
  <2>3. QED
    BY <1>2, <1>3, <1>5, <1>6, <1>7, <2>1, <2>2, ReadDownData
<1>13. QED
  BY <1>1, <1>4, <1>7, <1>9, <1>10, <1>12, HandledKeeps DEF Handled, RemainStep

LEMMA ReadKeeps ==
    ASSUME TunnelInv, Running, NEW s \in Sock, conn[s[1]] \in On, SelectedStep(s[1]),
           UNCHANGED env, onReadable(s)
    PROVE  TunnelInv'
<1>1. s[2] \in {"L", "R"}
  BY SockParts
<1>2. CASE /\ s \in broken \/ (s \in ended /\ Arrived(s) = 0)
           /\ dispose(s) /\ UNCHANGED <<keys, remaining, io, process, partial>>
  BY <1>2, FailedReadKeeps
<1>3. CASE /\ s \notin broken
           /\ \E k \in 1..Arrived(s) :
                 /\ k <= BUFFER
                 /\ Read(s, k)
                 /\ IF s[2] = "R" /\ ~ivSet[s[1]] /\ k < IV
                    THEN Throws("cut IV") /\ UNCHANGED <<toServer, toApp, partial>>
                    ELSE Pass(s, Brother(s), Outgoing(s, k))
  <2>1. PICK k \in 1..Arrived(s) :
            /\ Read(s, k)
            /\ IF s[2] = "R" /\ ~ivSet[s[1]] /\ k < IV
               THEN Throws("cut IV") /\ UNCHANGED <<toServer, toApp, partial>>
               ELSE Pass(s, Brother(s), Outgoing(s, k))
    BY <1>3
  <2>2. k \in Nat /\ IV \in Nat
    BY <2>1, ReadParts, TunnelAssumption
  <2>3. PICK b, bs : b = Brother(s) /\ bs = Outgoing(s, k)
    OBVIOUS
  <2>4. CASE s[2] = "R" /\ ~ivSet[s[1]] /\ k < IV
    <3>1. Throws("cut IV") /\ UNCHANGED <<toServer, toApp, partial>>
      BY <2>1, <2>4
    <3>2. QED
      BY <1>3, <2>1, <2>4, <3>1, CutIvKeeps
  <2>5. CASE s[2] = "L"
    <3>1. Pass(s, b, bs)
      BY <2>1, <2>3, <2>5
    <3>2. QED
      BY <2>1, <2>3, <2>5, <3>1, ReadUpKeeps
  <2>6. CASE s[2] = "R" /\ ~(~ivSet[s[1]] /\ k < IV)
    <3>1. Pass(s, b, bs)
      BY <2>1, <2>3, <2>6
    <3>2. ivSet[s[1]] \/ k >= IV
      BY <2>2, <2>6
    <3>3. QED
      BY <1>3, <2>1, <2>3, <2>6, <3>1, <3>2, ReadDownKeeps
  <2>7. QED
    BY <1>1, <2>4, <2>5, <2>6
<1>4. QED
  BY <1>2, <1>3 DEF onReadable, Outgoing

-----------------------------------------------------------------------------
(* Writing *)

\* The bytes that remain in the buffer and what is left of it when they are replaced.
LEMMA RestOfBuffer ==
    ASSUME NEW q \in Seq(Byte), NEW p \in Nat, p <= Len(q), NEW l, l = Len(q),
           NEW rest, rest = SubSeq(q, p + 1, l)
    PROVE  rest \in Seq(Byte) /\ Len(rest) = l - p
<1>0. l \in Nat
  BY LenProperties
<1>1. PICK lo \in Int : lo = p + 1
  OBVIOUS
<1>2. \A i \in lo..l : i \in 1..Len(q)
  BY <1>0, <1>1
<1>3. \A i \in lo..l : q[i] \in Byte
  BY <1>2, ElementOfSeq
<1>4. /\ SubSeq(q, lo, l) \in Seq(Byte)
      /\ Len(SubSeq(q, lo, l)) = (IF lo <= l THEN l - lo + 1 ELSE 0)
  BY <1>0, <1>3, SubSeqProperties
<1>5. (IF lo <= l THEN l - lo + 1 ELSE 0) = l - p
  BY <1>0, <1>1
<1>6. QED
  BY <1>1, <1>4, <1>5

LEMMA AfterWriteParts ==
    ASSUME TunnelInv, Running, NEW s \in Sock, conn[s[1]] \in On, partial, partial', NEW k, NEW r,
           AfterWrite(s, k, r)
    PROVE  KeyStep(s[1]) /\ ProcessTypes' /\ (Running' => Running)
<1>0. /\ s[1] \in Conn /\ ProcessTypes
      /\ Brother(s) \in Sock /\ Brother(s) # s /\ Brother(s)[1] = s[1]
  BY TypeParts, SockParts DEF TunnelInv, Parts
<1>1. PICK next \in Sock : /\ next = IF isTunnelEstablished(s) THEN Brother(s) ELSE s
                           /\ next[1] = s[1]
  BY <1>0
<1>2. CASE UNCHANGED keys /\ process' \in {process, "cancelled key"}
  <2>1. ProcessTypes' /\ (Running' => Running)
    BY <1>0, <1>2 DEF ProcessTypes, Running
  <2>2. QED
    BY <1>0, <1>2, <2>1, KeysKept
<1>3. CASE /\ next \notin cancelled \cup {s}
           /\ interest' = [interest EXCEPT ![s] = "none", ![next] = "read"]
           /\ cancelled' = cancelled \cup {s}
           /\ process' = process
  <2>1. interest' = [interest EXCEPT ![next] = "read", ![s] = "none"]
    <3>1. interest \in [Sock -> {"none", "connect", "read", "write"}] /\ next # s
      BY <1>3, TypeParts DEF TunnelInv, Parts, KeyTypes
    <3>2. QED
      BY <1>3, <3>1
  <2>2. KeyStep(s[1])
    BY <1>1, <1>3, <2>1, KeysMoved
  <2>3. QED
    BY <1>0, <1>3, <2>2 DEF ProcessTypes, Running
<1>4. QED
  BY <1>1, <1>2, <1>3 DEF AfterWrite

\* A write of what remains leaves the data as it has to be when a part was kept.
LEMMA WriteData ==
    ASSUME NEW c \in Conn, DataInv(c), conn[c] \in On, broken' = broken, partial',
           conn'[c] = conn[c]
             \/ (conn'[c] = "down" /\ {<<c, "L">>, <<c, "R">>} \cap broken # {}),
           downRead'[c] = downRead[c], ivSet'[c] = ivSet[c],
           HasHandshake(toServer[c], c) => HasHandshake(toServer'[c], c), Running' => Running
    PROVE  DataInv(c)'
  BY DEF DataInv, On

LEMMA WriteKeeps ==
    ASSUME TunnelInv, Running, NEW s \in Sock, conn[s[1]] \in On, SelectedStep(s[1]),
           UNCHANGED env, partial, onWritable(s)
    PROVE  TunnelInv'
<1>1. PICK c \in Conn : c = s[1] /\ s = <<c, s[2]>>
  <2>1. s[1] \in Conn /\ s = <<s[1], s[2]>>
    BY SockParts
  <2>2. QED
    BY <2>1
<1>2. Parts /\ RemainInv /\ DataInv(c) /\ conn[c] \in On /\ broken' = broken
  BY <1>1, TypeParts DEF TunnelInv, env
<1>3. upRead' = upRead /\ downRead' = downRead /\ ivSet' = ivSet /\ partial' = partial
  BY DEF onWritable, io
<1>4. ivSet' \in [Conn -> BOOLEAN]
  BY <1>2, <1>3 DEF Parts
<1>5. partial' \in BOOLEAN
  BY <1>2, <1>3 DEF Parts
<1>6. ASSUME KeyStep(c), ConnStep(c), TakenStep(c), ProcessTypes', RemainStep, Running' => Running,
             conn'[c] = conn[c] \/ (conn'[c] = "down" /\ {<<c, "L">>, <<c, "R">>} \cap broken # {})
      PROVE  TunnelInv'
  <2>1. IoStep(c)
    BY <1>2, <1>3, <1>6 DEF Parts, IoTypes, IoStep, TakenStep
  <2>2. DataInv(c)'
    BY <1>2, <1>3, <1>6, WriteData DEF TakenStep
  <2>3. QED
    BY <1>1, <1>3, <1>4, <1>5, <1>6, <2>1, <2>2, HandledKeeps DEF Handled, RemainStep
<1>7. PICK q \in Seq(Byte) : q = remaining.bytes
  BY <1>2 DEF Parts, BufferTypes
<1>8. PICK p \in Nat : p = remaining.position /\ p <= Len(q)
  BY <1>2, <1>7 DEF RemainInv
<1>9. PICK l \in Nat : l = remaining.limit /\ l = Len(q) /\ l <= BUFFER
  <2>1. Len(q) \in Nat
    BY LenProperties
  <2>2. remaining.limit = Len(q) /\ remaining.limit <= BUFFER
    BY <1>2, <1>7 DEF RemainInv, Parts, BufferTypes
  <2>3. QED
    BY <2>1, <2>2
<1>10. PICK rest \in Seq(Byte) : rest = SubSeq(q, p + 1, l) /\ Len(rest) = l - p
  <2>1. PICK x : x = SubSeq(q, p + 1, l)
    OBVIOUS
  <2>2. x \in Seq(Byte) /\ Len(x) = l - p
    BY <1>8, <1>9, <2>1, RestOfBuffer
  <2>3. QED
    BY <2>1, <2>2
<1>11. PICK r \in Seq(Byte) : r = beforeSend(s, rest) /\ Len(r) = l - p
  <2>1. PICK x : x = beforeSend(s, rest)
    OBVIOUS
  <2>2. x \in Seq(Byte) /\ Len(x) = l - p
    BY <1>10, <2>1, beforeSendParts
  <2>3. QED
    BY <2>1, <2>2
<1>12. PICK w \in Seq(Byte) : w = SubSeq(q, 1, p) \o r /\ Len(w) = l
  <2>1. PICK x : x = SubSeq(q, 1, p) \o r
    OBVIOUS
  <2>2. x \in Seq(Byte) /\ Len(x) = p + Len(r)
    BY <1>8, <2>1, Spliced
  <2>3. p + (l - p) = l
    OBVIOUS
  <2>4. QED
    BY <1>11, <2>1, <2>2, <2>3
<1>13. remaining \in [bytes : Seq(Byte), position : Nat, limit : Nat]
  BY <1>2 DEF RemainInv
<1>14. CASE Throws("buffer") /\ UNCHANGED <<io, partial>>
  <2>1. KeyStep(c) /\ ConnStep(c) /\ conn' = conn /\ ProcessTypes' /\ RemainStep /\ ~Running'
    BY <1>2, <1>14, ThrowsParts
  <2>2. TakenStep(c)
    BY <1>14, TakenSame DEF io
  <2>3. QED
    BY <1>6, <2>1, <2>2
<1>15. CASE /\ s \in broken /\ dispose(s)
            /\ remaining' = [remaining EXCEPT !.bytes = SubSeq(@, 1, remaining.position) \o r]
            /\ UNCHANGED <<keys, process, toServer, toApp>>
  <2>1. ConnStep(c) /\ conn'[c] = IF s[2] = "R" THEN "down" ELSE conn[c]
    BY <1>1, <1>15, Disposed
  <2>2. remaining' = [remaining EXCEPT !.bytes = w]
    BY <1>7, <1>8, <1>12, <1>15
  <2>3. remaining'.bytes = w /\ remaining'.position = p /\ remaining'.limit = l
        /\ remaining' \in [bytes : Seq(Byte), position : Nat, limit : Nat]
    BY <1>8, <1>9, <1>13, <2>2
  <2>4. RemainStep
    BY <1>8, <1>9, <1>12, <2>3 DEF RemainStep, BufferTypes, RemainInv
  <2>5. ProcessTypes' /\ (Running' => Running)
    BY <1>2, <1>15 DEF Parts, ProcessTypes, Running
  <2>6. KeyStep(c) /\ TakenStep(c)
    BY <1>2, <1>3, <1>15, KeysKept, TakenSame
  <2>7. s[2] = "R" => {<<c, "L">>, <<c, "R">>} \cap broken # {}
    BY <1>1, <1>15
  <2>8. QED
    BY <1>6, <2>1, <2>4, <2>5, <2>6, <2>7
<1>16. CASE \E k \in 0..Len(r) :
              /\ Taken(s, k, r)
              /\ remaining' = [remaining EXCEPT !.bytes = SubSeq(@, 1, remaining.position) \o r,
                                                !.position = @ + k]
              /\ AfterWrite(s, k, r)
              /\ UNCHANGED conn
  <2>1. PICK k \in 0..Len(r) :
              /\ Taken(s, k, r)
              /\ remaining' = [remaining EXCEPT !.bytes = SubSeq(@, 1, remaining.position) \o r,
                                                !.position = @ + k]
              /\ AfterWrite(s, k, r)
              /\ UNCHANGED conn
    BY <1>16
  <2>2. p + k \in Nat /\ p + k <= l
    BY <1>11
  <2>3. remaining' = [remaining EXCEPT !.bytes = w, !.position = p + k]
    BY <1>7, <1>8, <1>12, <2>1
  <2>4. remaining'.bytes = w /\ remaining'.position = p + k /\ remaining'.limit = l
        /\ remaining' \in [bytes : Seq(Byte), position : Nat, limit : Nat]
    BY <1>9, <1>13, <2>2, <2>3
  <2>5. RemainStep
    BY <1>9, <1>12, <2>2, <2>4 DEF RemainStep, BufferTypes, RemainInv
  <2>6. KeyStep(c) /\ ProcessTypes' /\ (Running' => Running)
    BY <1>1, <1>3, <2>1, AfterWriteParts
  <2>7. TakenStep(c)
    BY <1>1, <2>1, TakenParts
  <2>8. ConnStep(c) /\ conn'[c] = conn[c]
    BY <1>2, <2>1, ConnKept
  <2>9. QED
    BY <1>6, <2>5, <2>6, <2>7, <2>8
<1>17. r = beforeSend(s, SubSeq(remaining.bytes, remaining.position + 1, remaining.limit))
  BY <1>7, <1>8, <1>9, <1>10, <1>11
<1>18. QED
  BY <1>14, <1>15, <1>16, <1>17 DEF onWritable

-----------------------------------------------------------------------------
(* The invariant *)

\* A key that has been cancelled is only removed.
LEMMA RemovedKeeps ==
    ASSUME TunnelInv, selected' \subseteq selected,
           UNCHANGED <<conn, keys, remaining, io, process, partial>>, UNCHANGED env
    PROVE  TunnelInv'
<1>0. Parts /\ RemainInv
  BY TypeParts DEF TunnelInv
<1>1. /\ conn' = conn /\ interest' = interest /\ cancelled' = cancelled
      /\ remaining' = remaining /\ partial' = partial /\ process' = process
      /\ upRead' = upRead /\ downRead' = downRead /\ toServer' = toServer /\ toApp' = toApp
      /\ ivSet' = ivSet
  BY DEF keys, io
<1>2. broken' = broken /\ ended' = ended /\ listening' = listening /\ datagram' = datagram
  BY DEF env
<1>3. KeyTypes'
  BY <1>0, <1>1 DEF Parts, KeyTypes
<1>4. BufferTypes' /\ IoTypes' /\ ConnTypes' /\ ProcessTypes'
  BY <1>0, <1>1 DEF Parts, BufferTypes, IoTypes, ConnTypes, ProcessTypes
<1>5. EnvTypes'
  BY <1>0, <1>2, Zenon DEF Parts, EnvTypes
<1>6. ivSet' \in [Conn -> BOOLEAN]
  BY <1>0, <1>1 DEF Parts
<1>7. partial' \in BOOLEAN
  BY <1>0, <1>1 DEF Parts
<1>8. TypeOK'
  BY <1>3, <1>4, <1>5, <1>6, <1>7, TypePartsPrimed, Zenon DEF Parts
<1>9. RemainInv'
  BY <1>0, <1>1 DEF RemainInv, Running
<1>10. ASSUME NEW s \in Sock PROVE SockInv(s)'
  <2>1. SockInv(s)
    BY DEF TunnelInv
  <2>2. \A op : <<s, op>> \in selected' => <<s, op>> \in selected
    OBVIOUS
  <2>3. QED
    BY <1>1, <2>1, <2>2 DEF SockInv
<1>11. \A c \in Conn : DataInv(c)'
  BY <1>1, <1>2, DataFrame DEF TunnelInv, Running
<1>12. QED
  BY <1>8, <1>9, <1>10, <1>11 DEF TunnelInv

LEMMA HandleKeeps ==
    ASSUME TunnelInv, Running, NEW s \in Sock, NEW op \in {"connect", "read", "write"}, Handle(s, op)
    PROVE  TunnelInv'
<1>1. <<s, op>> \in selected /\ selected' = selected \ {<<s, op>>} /\ UNCHANGED env
  BY DEF Handle
<1>2. PICK c \in Conn : c = s[1]
  BY SockParts
<1>3. /\ SelectedStep(s[1])
      /\ op = "connect" => conn[s[1]] = "connecting" /\ s = <<s[1], "R">>
      /\ op # "connect" => conn[s[1]] \in On
      /\ op = "write" => partial
  BY <1>1, SelectedOf
<1>4. CASE interest[s] = "none"
  <2>1. UNCHANGED <<conn, keys, remaining, io, process, partial>>
    BY <1>4 DEF Handle
  <2>2. selected' \subseteq selected
    BY <1>1
  <2>3. QED
    BY <1>1, <2>1, <2>2, RemovedKeeps
<1>5. CASE interest[s] # "none" /\ op = "read"
  <2>1. onReadable(s)
    BY <1>5 DEF Handle
  <2>2. QED
    BY <1>1, <1>3, <1>5, <2>1, ReadKeeps
<1>6. CASE interest[s] # "none" /\ op = "write"
  <2>1. onWritable(s)
    BY <1>6 DEF Handle
  <2>2. QED
    BY <1>1, <1>3, <1>6, <2>1, WriteKeeps
<1>7. CASE interest[s] # "none" /\ op = "connect"
  <2>1. onConnectable(c)
    BY <1>2, <1>7 DEF Handle
  <2>2. QED
    BY <1>1, <1>2, <1>3, <1>7, <2>1, ConnectKeeps
<1>8. QED
  BY <1>4, <1>5, <1>6, <1>7

LEMMA TunnelInvInit == Init => TunnelInv
<1> SUFFICES ASSUME Init PROVE TunnelInv
  OBVIOUS
<1>0. {IV, BUFFER, HEADER} \subseteq Nat \ {0} /\ {Up, Down} \subseteq Nat /\ Together \subseteq SUBSET Conn
  BY TunnelAssumption
<1>1. PICK C \in Together : conn = [c \in Conn |-> IF c \in C THEN "none" ELSE "unused"]
  BY DEF Init
<1>2. /\ listening = FALSE /\ datagram = FALSE /\ partial = FALSE /\ process = "up"
      /\ interest = [s \in Sock |-> "none"] /\ cancelled = {} /\ selected = {}
      /\ remaining = [bytes |-> <<>>, position |-> 0, limit |-> BUFFER]
      /\ ivSet = [c \in Conn |-> FALSE] /\ upRead = [c \in Conn |-> 0]
      /\ downRead = [c \in Conn |-> 0] /\ toServer = [c \in Conn |-> <<>>]
      /\ toApp = [c \in Conn |-> <<>>] /\ broken = {} /\ ended = {}
  BY DEF Init
<1>3. KeyTypes
  BY <1>2 DEF KeyTypes
<1>4. <<>> \in Seq(Byte) /\ Len(<<>>) = 0
  BY EmptySeq
<1>5. BUFFER \in Nat
  BY <1>0
<1>6. BufferTypes /\ RemainInv
  BY <1>2, <1>4, <1>5 DEF BufferTypes, RemainInv
<1>7. IoTypes
  <2>1. IV \in Nat /\ Down \in Nat /\ Up \in Nat
    BY <1>0
  <2>2. 0 \in 0..Up /\ 0 \in 0..(IV + Down)
    BY <2>1
  <2>3. QED
    BY <1>2, <1>4, <2>2 DEF IoTypes
<1>8. ConnTypes /\ \A c \in Conn : conn[c] \in {"none", "unused"}
  BY <1>1 DEF ConnTypes
<1>9. ProcessTypes
  BY <1>2 DEF ProcessTypes
<1>10. EnvTypes
  <2>1. listening \in BOOLEAN
    BY <1>2
  <2>2. datagram \in BOOLEAN
    BY <1>2
  <2>3. broken \subseteq Sock /\ ended \subseteq Sock
    BY <1>2
  <2>4. QED
    BY <2>1, <2>2, <2>3, Zenon DEF EnvTypes
<1>11. ivSet \in [Conn -> BOOLEAN]
  BY <1>2
<1>12. partial \in BOOLEAN
  BY <1>2
<1>13. TypeOK
  BY <1>3, <1>6, <1>7, <1>8, <1>9, <1>10, <1>11, <1>12, TypeParts, Zenon DEF Parts
<1>14. ASSUME NEW s \in Sock PROVE SockInv(s)
  <2>1. conn[s[1]] \in {"none", "unused"} /\ interest[s] = "none"
    BY <1>2, <1>8, SockParts
  <2>2. QED
    BY <1>2, <2>1 DEF SockInv
<1>15. ASSUME NEW c \in Conn PROVE DataInv(c)
  <2>1. /\ conn[c] \in {"none", "unused"} /\ ~ivSet[c] /\ upRead[c] = 0 /\ downRead[c] = 0
        /\ toServer[c] = <<>> /\ toApp[c] = <<>>
    BY <1>2, <1>8
  <2>2. SentDown(c) = <<>>
    <3>1. PICK z : z = Bytes(c, "down", 0, 0, 0)
      OBVIOUS
    <3>2. IsBytes(z, c, "down", 0, 0, 0)
      <4>1. 0 + 0 = 0 /\ 0 \in Nat /\ 0 \in 0..2
        OBVIOUS
      <4>2. QED
        BY <3>1, <4>1, BytesParts DEF Dir
    <3>3. z = <<>>
      BY <3>2, EmptySeq DEF IsBytes
    <3>4. (IF downRead[c] < IV THEN 0 ELSE downRead[c] - IV) = 0
      BY <1>0, <2>1
    <3>5. QED
      BY <3>1, <3>3, <3>4 DEF SentDown
  <2>3. QED
    BY <2>1, <2>2 DEF DataInv
<1>16. QED
  BY <1>6, <1>13, <1>14, <1>15 DEF TunnelInv

LEMMA TunnelInvNext == TunnelInv /\ [Next]_vars => TunnelInv'
<1> SUFFICES ASSUME TunnelInv, [Next]_vars PROVE TunnelInv'
  OBVIOUS
<1>0. EnvTypes /\ ProcessTypes
  BY TypeParts DEF TunnelInv, Parts
<1>1. CASE initialize
  <2>1. UNCHANGED <<conn, keys, selected, remaining, io, partial>> /\ broken' = broken /\ ended' = ended
        /\ process' = process /\ listening' = TRUE /\ datagram' = datagram
    BY <1>1 DEF initialize
  <2>2. EnvTypes'
    <3>1. listening' \in BOOLEAN
      BY <2>1
    <3>2. datagram' \in BOOLEAN /\ broken' \subseteq Sock /\ ended' \subseteq Sock
      BY <1>0, <2>1, Zenon DEF EnvTypes
    <3>3. QED
      BY <3>1, <3>2, Zenon DEF EnvTypes
  <2>3. ProcessTypes' /\ (Running' => Running)
    BY <1>0, <2>1 DEF ProcessTypes, Running
  <2>4. QED
    BY <2>1, <2>2, <2>3, QuietKeeps
<1>2. CASE updateTunnel /\ Running
  <2>1. UNCHANGED <<conn, keys, selected, remaining, io, partial>> /\ broken' = broken /\ ended' = ended
        /\ listening' = listening
    BY <1>2 DEF updateTunnel
  <2>2. \/ datagram' = TRUE /\ process' = process
        \/ process' = "uninitialized" /\ datagram' = datagram
    BY <1>2 DEF updateTunnel
  <2>3. EnvTypes'
    <3>1. datagram' \in BOOLEAN
      BY <1>0, <2>2, Zenon DEF EnvTypes
    <3>2. listening' \in BOOLEAN /\ broken' \subseteq Sock /\ ended' \subseteq Sock
      BY <1>0, <2>1, Zenon DEF EnvTypes
    <3>3. QED
      BY <3>1, <3>2, Zenon DEF EnvTypes
  <2>4. ProcessTypes' /\ (Running' => Running)
    BY <1>0, <1>2, <2>2 DEF ProcessTypes, Running
  <2>5. QED
    BY <2>1, <2>3, <2>4, QuietKeeps
<1>3. ASSUME NEW c \in Conn, onAcceptable(c) PROVE TunnelInv'
  BY <1>3, AcceptKeeps
<1>4. ASSUME NEW s \in Sock, PeerEnds(s) \/ SocketBreaks(s) PROVE TunnelInv'
  <2>1. UNCHANGED <<conn, keys, selected, remaining, io, partial>> /\ process' = process
        /\ listening' = listening /\ datagram' = datagram
    BY <1>4 DEF PeerEnds, SocketBreaks
  <2>2. broken' \in {broken, broken \cup {s}} /\ ended' \in {ended, ended \cup {s}}
    BY <1>4 DEF PeerEnds, SocketBreaks
  <2>3. broken \subseteq Sock /\ ended \subseteq Sock
    BY <1>0, Zenon DEF EnvTypes
  <2>4. broken' \subseteq Sock /\ ended' \subseteq Sock /\ broken \subseteq broken'
    BY <2>2, <2>3
  <2>5. EnvTypes'
    BY <1>0, <2>1, <2>4, Zenon DEF EnvTypes
  <2>6. ProcessTypes' /\ (Running' => Running)
    BY <1>0, <2>1 DEF ProcessTypes, Running
  <2>7. QED
    BY <2>1, <2>4, <2>5, <2>6, QuietKeeps
<1>5. ASSUME NEW ss \in SUBSET ReadySocks, select(ss) PROVE TunnelInv'
  BY <1>5, SelectKeeps
<1>6. ASSUME Running, NEW s \in Sock, NEW op \in {"connect", "read", "write"}, Handle(s, op)
      PROVE  TunnelInv'
  BY <1>6, HandleKeeps
<1>7. CASE UNCHANGED vars
  <2>1. UNCHANGED <<conn, keys, selected, remaining, io, partial>>
        /\ broken' = broken /\ ended' = ended /\ process' = process
        /\ listening' = listening /\ datagram' = datagram
    BY <1>7 DEF vars, keys, io
  <2>2. EnvTypes'
    BY <1>0, <2>1, Zenon DEF EnvTypes
  <2>3. ProcessTypes' /\ (Running' => Running)
    BY <1>0, <2>1 DEF ProcessTypes, Running
  <2>4. QED
    BY <2>1, <2>2, <2>3, QuietKeeps
<1>8. QED
  BY <1>1, <1>2, <1>3, <1>4, <1>5, <1>6, <1>7 DEF Next

\* The invariant of the tunnels, over every handler of the selector's thread, every
\* partial write and every error of a socket (TCPProxyServer.kt:88-126).
THEOREM TunnelInvariant == Spec => []TunnelInv
<1>1. Init => TunnelInv
  BY TunnelInvInit
<1>2. TunnelInv /\ [Next]_vars => TunnelInv'
  BY TunnelInvNext
<1>3. QED
  BY <1>1, <1>2, PTL DEF Spec

\* What is read of one socket of a connection is written to the other, in order, encrypted
\* or decrypted once, as long as sockets take what they are given
\* (SocketChannelTunnel.kt:75-104).
THEOREM BytesAreWrittenAsRead == Spec => []WrittenAsRead
<1>1. TunnelInv => WrittenAsRead
  BY DEF TunnelInv, DataInv, WrittenAsRead
<1>2. QED
  BY <1>1, TunnelInvariant, PTL

\* The first bytes on a connection to ss-server are its handshake, whatever becomes of
\* what remains in the shared buffer (Socks5Tunnel.kt:22-27).
THEOREM HandshakeIsFirst == Spec => []HandshakeComesFirst
<1>1. ASSUME TunnelInv, NEW c \in Conn, <<c, "R">> \notin broken, toServer[c] # <<>>
      PROVE  IsPrefix(handshake(c), toServer[c])
  <2>1. DataInv(c)
    BY <1>1 DEF TunnelInv
  <2>2. conn[c] \in {"established", "down"}
    BY <1>1, <2>1 DEF DataInv
  <2>3. PICK q \in Seq(Byte) : q = toServer[c]
    BY <1>1, TypeParts DEF TunnelInv, Parts, IoTypes
  <2>4. HEADER <= Len(q) /\ \A i \in 1..HEADER : q[i] = handshake(c)[i]
    BY <1>1, <2>1, <2>2, <2>3 DEF DataInv, HasHandshake
  <2>5. PICK h \in Seq(Byte) : h = handshake(c) /\ Len(h) = HEADER /\ HEADER \in Nat
    BY handshakeParts
  <2>6. PICK n \in Nat : n = HEADER /\ n = Len(h)
    BY <2>5
  <2>7. \A i \in 1..n : q[i] \in Byte
    <3>1. Len(q) \in Nat /\ \A i \in 1..n : i \in 1..Len(q)
      BY <2>4, <2>6, LenProperties
    <3>2. QED
      BY <3>1, ElementOfSeq
  <2>8. PICK u \in Seq(Byte) : u = SubSeq(q, 1, n) /\ Len(u) = n /\ \A i \in 1..n : u[i] = q[i]
    <3>1. PICK x : x = SubSeq(q, 1, n)
      OBVIOUS
    <3>2. n \in Int /\ 1 \in Int /\ n - 1 + 1 = n /\ (IF 1 <= n THEN n ELSE 0) = n
      OBVIOUS
    <3>3. /\ x \in Seq(Byte)
          /\ Len(x) = (IF 1 <= n THEN n - 1 + 1 ELSE 0)
          /\ \A i \in 1..(n - 1 + 1) : x[i] = q[1 + i - 1]
      BY <2>7, <3>1, <3>2, SubSeqProperties
    <3>4. \A i \in 1..n : x[i] = q[i]
      <4>1. ASSUME NEW i \in 1..n PROVE x[i] = q[i]
        <5>1. 1 + i - 1 = i
          OBVIOUS
        <5>2. QED
          BY <3>2, <3>3, <5>1
      <4>2. QED
        BY <4>1
    <3>5. QED
      BY <3>1, <3>2, <3>3, <3>4
  <2>9. u = h
    <3>1. Len(u) = Len(h) /\ \A i \in 1..Len(u) : u[i] = h[i]
      BY <2>4, <2>5, <2>6, <2>8
    <3>2. QED
      BY <3>1, SeqEqual
  <2>10. Len(h) <= Len(q) /\ SubSeq(h, 1, Len(h)) = SubSeq(q, 1, Len(h))
    BY <2>4, <2>5, <2>6, <2>8, <2>9, SubSeqFull
  <2>11. IsPrefix(h, q)
    BY <2>10 DEF IsPrefix
  <2>12. QED
    BY <2>3, <2>5, <2>11
<1>2. TunnelInv => HandshakeComesFirst
  BY <1>1 DEF HandshakeComesFirst
<1>3. QED
  BY <1>2, TunnelInvariant, PTL
=============================================================================
