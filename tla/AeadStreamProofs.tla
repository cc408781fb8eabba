-------------------------- MODULE AeadStreamProofs --------------------------
(***************************************************************************)
(* Proofs about AeadStream: for any number of connections, any salt, tag,  *)
(* buffer and filter size, and any way of cutting the streams into pieces. *)
(***************************************************************************)
EXTENDS AeadStreamInv, TLAPS

Enc == [init : BOOLEAN, nonce : Nat, written : Nat]

Dec == [pc : {"recv", "loop", "closed"}, init : 0..2, nonce : Nat, base : Nat,
        len : Nat, plen : Nat]

LEMMA OverheadNat == Overhead \in Nat /\ Overhead > 0
  BY AeadAssumption DEF Overhead

LEMMA EntriesNat == entries \in Nat
  BY FilterAssumption DEF entries

-----------------------------------------------------------------------------
(* The sender *)

\* The end of a chunk is a natural number past its beginning.
LEMMA ChunkEndNat ==
  ASSUME NEW k \in Chunk
  PROVE  ChunkEnd(k) \in Nat /\ ChunkEnd(k) > k.off + Overhead
  BY OverheadNat, AeadAssumption DEF Chunk, ChunkEnd

\* A chunk appended by aead_encrypt continues the layout of the stream.
LEMMA SenderStep ==
  ASSUME NEW e \in Enc, NEW ch \in Seq(Chunk), SenderOK(e, ch),
         NEW plen \in 1..CHUNK_SIZE_MASK,
         NEW k, k = aead_chunk_encrypt(IF e.init THEN e.written ELSE SALT_LEN, e.nonce, plen),
         NEW f, f = [init |-> TRUE, nonce |-> k.data_nonce + 1,
                     written |-> (IF e.init THEN e.written ELSE SALT_LEN) + Overhead + plen]
  PROVE  /\ k \in Chunk
         /\ f \in Enc
         /\ SenderOK(f, Append(ch, k))
         /\ f.written > e.written
         /\ k.off >= e.written
         /\ f.written = ChunkEnd(k)
<1> DEFINE start == IF e.init THEN e.written ELSE SALT_LEN
<1>1. /\ e.init \in BOOLEAN /\ e.nonce \in Nat /\ e.written \in Nat
      /\ Len(ch) \in Nat /\ SALT_LEN \in Nat /\ Overhead \in Nat /\ plen \in Nat
      /\ CHUNK_SIZE_MASK \in Nat /\ plen > 0 /\ Overhead > 0
  BY OverheadNat, AeadAssumption DEF Enc
<1>2. start \in Nat /\ start >= e.written /\ start >= SALT_LEN
  <2>1. CASE e.init
    <3>1. Len(ch) \in 1..Len(ch) /\ ch[Len(ch)] \in Chunk
      BY <2>1, <1>1 DEF SenderOK
    <3>2. ch[Len(ch)].off >= SALT_LEN /\ e.written = ChunkEnd(ch[Len(ch)])
      BY <2>1, <3>1 DEF SenderOK
    <3>3. ChunkEnd(ch[Len(ch)]) > ch[Len(ch)].off + Overhead /\ ch[Len(ch)].off \in Nat
      BY <3>1, ChunkEndNat DEF Chunk
    <3>4. start = e.written
      BY <2>1
    <3> QED BY <3>2, <3>3, <3>4, <1>1
  <2>2. CASE ~e.init
    BY <2>2, <1>1 DEF SenderOK
  <2> QED BY <2>1, <2>2
<1>3. k = [off |-> start, plen |-> plen, len_nonce |-> e.nonce, data_nonce |-> e.nonce + 1]
  BY DEF aead_chunk_encrypt
<1>a. f = [init |-> TRUE, nonce |-> k.data_nonce + 1, written |-> start + Overhead + plen]
  OBVIOUS
<1> HIDE DEF start
<1>4. k \in Chunk
  BY <1>1, <1>2, <1>3 DEF Chunk
<1>5. /\ k.off = start /\ k.plen = plen /\ k.len_nonce = e.nonce /\ k.data_nonce = e.nonce + 1
      /\ f.init /\ f.nonce = e.nonce + 2 /\ f.written = start + Overhead + plen
  BY <1>a, <1>3, <1>1
<1>6. ChunkEnd(k) = f.written /\ f.written > e.written /\ k.off >= e.written
  BY <1>5, <1>1, <1>2 DEF ChunkEnd
<1>7. f \in Enc
  BY <1>a, <1>1, <1>2, <1>5 DEF Enc
<1> DEFINE n == Len(ch)
           nu == Append(ch, k)
<1>8. Len(nu) = n + 1 /\ nu[n + 1] = k /\ \A i \in 1..n : nu[i] = ch[i]
  BY <1>4
<1>9. \A i \in 1..n : ChunkEnd(ch[i]) <= start
  <2> SUFFICES ASSUME NEW i \in 1..n PROVE ChunkEnd(ch[i]) <= start
    OBVIOUS
  <2>1. e.init /\ n \in 1..n /\ e.written = ChunkEnd(ch[n]) /\ ch[i] \in Chunk /\ ch[n] \in Chunk
    BY <1>1 DEF SenderOK
  <2>2. i = n \/ ChunkEnd(ch[i]) <= ch[n].off
    BY <2>1 DEF SenderOK
  <2>3. ch[n].off \in Nat
    BY <2>1 DEF Chunk
  <2> QED BY <2>1, <2>2, <2>3, <1>2, <1>1, ChunkEndNat
<1>10. n > 0 => start = ChunkEnd(ch[n])
  BY DEF SenderOK, start
<1>11. n = 0 => start = SALT_LEN
  BY <1>1 DEF SenderOK, start
<1>12. f.nonce = 2 * (n + 1) /\ k.len_nonce = 2 * n /\ k.data_nonce = 2 * n + 1
  BY <1>5, <1>1 DEF SenderOK
<1>13. nu[1].off = SALT_LEN
  BY <1>11, <1>8, <1>5, <1>1 DEF SenderOK
<1>14. \A i \in 1..n + 1 : /\ nu[i].off >= SALT_LEN
                           /\ nu[i].len_nonce = 2 * (i - 1)
                           /\ nu[i].data_nonce = 2 * (i - 1) + 1
  <2> SUFFICES ASSUME NEW i \in 1..n + 1
               PROVE  /\ nu[i].off >= SALT_LEN
                      /\ nu[i].len_nonce = 2 * (i - 1)
                      /\ nu[i].data_nonce = 2 * (i - 1) + 1
    OBVIOUS
  <2>1. CASE i = n + 1
    <3>1. nu[i] = k /\ n \in Nat
      BY <2>1, <1>8, <1>1
    <3>2. k.off >= SALT_LEN
      BY <1>5, <1>2, <1>1
    <3>3. k.len_nonce = 2 * (i - 1) /\ k.data_nonce = 2 * (i - 1) + 1
      BY <2>1, <3>1, <1>12
    <3> QED BY <3>1, <3>2, <3>3
  <2>2. CASE i \in 1..n
    BY <2>2, <1>8 DEF SenderOK
  <2> QED BY <2>1, <2>2, <1>1
<1>15. \A i, j \in 1..n + 1 : i < j => ChunkEnd(nu[i]) <= nu[j].off
  <2> SUFFICES ASSUME NEW i \in 1..n + 1, NEW j \in 1..n + 1, i < j
               PROVE  ChunkEnd(nu[i]) <= nu[j].off
    OBVIOUS
  <2>1. i \in 1..n
    BY <1>1
  <2>2. CASE j = n + 1
    BY <2>1, <2>2, <1>8, <1>9, <1>5
  <2>3. CASE j \in 1..n
    BY <2>1, <2>3, <1>8 DEF SenderOK
  <2> QED BY <2>2, <2>3, <1>1
<1>16. \A i \in 1..n + 1 : i + 1 <= n + 1 => nu[i + 1].off = ChunkEnd(nu[i])
  <2> SUFFICES ASSUME NEW i \in 1..n + 1, i + 1 <= n + 1
               PROVE  nu[i + 1].off = ChunkEnd(nu[i])
    OBVIOUS
  <2>1. CASE i = n
    BY <2>1, <1>8, <1>10, <1>5, <1>1
  <2>2. CASE i + 1 <= n
    BY <2>2, <1>8, <1>1 DEF SenderOK
  <2> QED BY <2>1, <2>2, <1>1
<1> HIDE DEF n, nu
<1>17. SenderOK(f, nu)
  <2>1. Len(nu) = n + 1 /\ n \in Nat
    BY <1>8, <1>1 DEF n
  <2> QED BY <2>1, <1>5, <1>6, <1>8, <1>12, <1>13, <1>14, <1>15, <1>16 DEF SenderOK
<1> QED BY <1>4, <1>6, <1>7, <1>17 DEF nu

-----------------------------------------------------------------------------
(* The receiver *)

\* The layout as the receiver uses it: the chunk after the k-th begins where the
\* k-th ends, and the stream ends with the last chunk.
LEMMA Layout ==
  ASSUME NEW e \in Enc, NEW ch \in Seq(Chunk), SenderOK(e, ch), Len(ch) > 0,
         NEW k \in 0..Len(ch)
  PROVE  /\ Position(ch, k) \in Nat
         /\ k < Len(ch) => (ch[k + 1] \in Chunk /\ ch[k + 1].off = Position(ch, k))
         /\ k = Len(ch) => e.written = Position(ch, k)
         /\ \A i \in 1..Len(ch) : i <= k => ChunkEnd(ch[i]) <= Position(ch, k)
         /\ \A i \in 1..Len(ch) : i > k => ChunkEnd(ch[k + 1]) <= ChunkEnd(ch[i])
<1>1. Len(ch) \in Nat /\ SALT_LEN \in Nat
  BY AeadAssumption
<1>2. \A i \in 1..Len(ch) : ch[i] \in Chunk /\ ch[i].off \in Nat /\ ChunkEnd(ch[i]) \in Nat
  <2> SUFFICES ASSUME NEW i \in 1..Len(ch)
               PROVE  ch[i] \in Chunk /\ ch[i].off \in Nat /\ ChunkEnd(ch[i]) \in Nat
    OBVIOUS
  <2>1. ch[i] \in Chunk
    OBVIOUS
  <2> QED BY <2>1, ChunkEndNat DEF Chunk
<1>3. \A i \in 1..Len(ch) : ChunkEnd(ch[i]) > ch[i].off
  BY <1>2, ChunkEndNat, OverheadNat
<1>4. Position(ch, k) \in Nat
  BY <1>1, <1>2 DEF Position
<1>5. k < Len(ch) => (ch[k + 1] \in Chunk /\ ch[k + 1].off = Position(ch, k))
  <2>1. CASE k = 0
    BY <2>1, <1>1, <1>2 DEF Position, SenderOK
  <2>2. CASE k # 0
    BY <2>2, <1>1, <1>2 DEF Position, SenderOK
  <2> QED BY <2>1, <2>2
<1>6. k = Len(ch) => e.written = Position(ch, k)
  BY <1>1 DEF Position, SenderOK
<1>7. \A i \in 1..Len(ch) : i <= k => ChunkEnd(ch[i]) <= Position(ch, k)
  <2> SUFFICES ASSUME NEW i \in 1..Len(ch), i <= k
               PROVE  ChunkEnd(ch[i]) <= ChunkEnd(ch[k])
    BY DEF Position
  <2>1. CASE i = k
    BY <2>1, <1>2
  <2>2. CASE i < k
    <3>1. k \in 1..Len(ch)
      BY <2>2, <1>1
    <3>2. ChunkEnd(ch[i]) <= ch[k].off
      BY <2>2, <3>1 DEF SenderOK
    <3> QED BY <3>1, <3>2, <1>2, <1>3
  <2> QED BY <2>1, <2>2
<1>8. \A i \in 1..Len(ch) : i > k => ChunkEnd(ch[k + 1]) <= ChunkEnd(ch[i])
  <2> SUFFICES ASSUME NEW i \in 1..Len(ch), i > k
               PROVE  ChunkEnd(ch[k + 1]) <= ChunkEnd(ch[i])
    OBVIOUS
  <2>0. k + 1 \in 1..Len(ch)
    BY <1>1
  <2>1. CASE i = k + 1
    BY <2>0, <2>1, <1>2
  <2>2. CASE k + 1 < i
    <3>1. ChunkEnd(ch[k + 1]) <= ch[i].off
      BY <2>0, <2>2 DEF SenderOK
    <3> QED BY <3>1, <2>0, <1>2, <1>3
  <2> QED BY <2>1, <2>2
<1> QED BY <1>4, <1>5, <1>6, <1>7, <1>8

\* Appending a chunk leaves the receiver's invariant true.
LEMMA ReceiverKeepsOnAppend ==
  ASSUME NEW d \in Dec, NEW g \in Seq(Nat), NEW w \in Nat, NEW w2 \in Nat,
         NEW ch \in Seq(Chunk), NEW k \in Chunk, NEW b,
         ReceiverOK(d, g, w, ch, b), w2 > w, k.off >= w
  PROVE  ReceiverOK(d, g, w2, Append(ch, k), b)
<1> DEFINE nu == Append(ch, k)
<1>1. Len(ch) \in Nat /\ Len(g) \in Nat /\ d.base \in Nat /\ d.len \in Nat /\ d.nonce \in Nat
  BY DEF Dec
<1>2. Len(nu) = Len(ch) + 1 /\ nu[Len(ch) + 1] = k /\ \A i \in 1..Len(ch) : nu[i] = ch[i]
  OBVIOUS
<1>3. Len(g) <= Len(ch) /\ d.base + d.len <= w
  BY DEF ReceiverOK
<1>4. d.base + d.len < ChunkEnd(k)
  BY <1>1, <1>3, ChunkEndNat, OverheadNat DEF Chunk
<1>5. Position(nu, Len(g)) = Position(ch, Len(g))
  BY <1>1, <1>2, <1>3 DEF Position
<1>6. (d.pc = "recv" /\ d.init # 0 /\ ~b /\ Len(g) < Len(nu)) =>
          d.base + d.len < ChunkEnd(nu[Len(g) + 1])
  <2>1. CASE Len(g) = Len(ch)
    BY <2>1, <1>2, <1>4
  <2>2. CASE Len(g) < Len(ch)
    BY <2>2, <1>1, <1>2 DEF ReceiverOK
  <2> QED BY <2>1, <2>2, <1>1, <1>3
<1> HIDE DEF nu
<1>7. Len(g) <= Len(nu) /\ Len(nu) > 0 /\ d.base + d.len <= w2
  BY <1>1, <1>2, <1>3
<1> QED BY <1>5, <1>6, <1>7 DEF ReceiverOK, nu

\* The block the receiver tries is that of the next chunk.
LEMMA NextLength ==
  ASSUME NEW c \in Conn, AeadInv, dec[c].pc = "loop",
         NEW i \in LengthAt(c, dec[c].base, dec[c].nonce)
  PROVE  /\ i = Len(got[c]) + 1
         /\ i <= Len(chunks[c])
         /\ c \notin Garbled
<1>1. i \in 1..Len(chunks[c]) /\ chunks[c][i].len_nonce = dec[c].nonce /\ c \notin Garbled
  BY DEF LengthAt
<1>2. dec[c].nonce = 2 * Len(got[c]) /\ chunks[c][i].len_nonce = 2 * (i - 1)
  BY <1>1 DEF AeadInv, ConnInv, SenderOK, ReceiverOK
<1>3. Len(got[c]) \in Nat /\ Len(chunks[c]) \in Nat
  BY DEF AeadInv, TypeOK
<1> QED BY <1>1, <1>2, <1>3

-----------------------------------------------------------------------------
(* The filter *)

LEMMA OtherHalf ==
  ASSUME NEW h \in Half
  PROVE  Other(h) \in Half /\ Other(h) # h /\ Other(Other(h)) = h /\ Half = {h, Other(h)}
  BY DEF Half, Other

\* ppbloom_add keeps the latest salts in the two halves.
LEMMA RememberStep ==
  ASSUME NEW s \in Salt, NEW f \in Filter, NEW q \in Seq(Salt), Remembers(f, q),
         NEW g, g = ppbloom_add(f, s), NEW r, r = Append(q, s)
  PROVE  g \in Filter /\ r \in Seq(Salt) /\ Remembers(g, r)
<1> DEFINE h == f.current
           o == Other(h)
           B == f.bloom
           C == f.bloom_count
           n == C[h] + 1
           m == Len(q)
           A == [B EXCEPT ![h] = @ \cup {s}]
<1>1. h \in Half /\ B \in [Half -> SUBSET Salt] /\ C \in [Half -> Nat]
  BY DEF Filter
<1>2. o \in Half /\ o # h /\ Other(o) = h
  BY <1>1, OtherHalf
<1>3. m \in Nat /\ Len(r) = m + 1 /\ r[m + 1] = s /\ r \in Seq(Salt)
  OBVIOUS
<1>4. \A i \in 1..m : r[i] = q[i]
  OBVIOUS
<1>5. /\ C[h] \in Nat /\ C[h] <= m /\ (C[h] = 0 \/ C[h] < entries) /\ C[o] = 0
      /\ \A i \in 1..m : m - C[h] < i => q[i] \in B[h]
      /\ \A i \in 1..m : (m - C[h] - entries < i /\ i <= m - C[h]) => q[i] \in B[o]
  BY <1>1 DEF Remembers
<1>6. A \in [Half -> SUBSET Salt] /\ A[h] = B[h] \cup {s} /\ A[o] = B[o]
  BY <1>1, <1>2
<1>e. entries \in Nat
  BY EntriesNat
<1> HIDE DEF m
<1>7. \A i \in 1..m + 1 : (m + 1) - n < i => r[i] \in A[h]
  <2> SUFFICES ASSUME NEW i \in 1..m + 1, (m + 1) - n < i
               PROVE  r[i] \in A[h]
    OBVIOUS
  <2>1. CASE i = m + 1
    BY <2>1, <1>3, <1>6
  <2>2. CASE i \in 1..m
    BY <2>2, <1>3, <1>4, <1>5, <1>6
  <2> QED BY <2>1, <2>2, <1>3
<1>8. CASE n >= entries
  <2>1. g = [bloom |-> [A EXCEPT ![o] = {}], bloom_count |-> [C EXCEPT ![h] = 0],
                    current |-> o]
    BY <1>8 DEF ppbloom_add
  <2> HIDE DEF A, B, C, h, o
  <2>a. /\ [A EXCEPT ![o] = {}][h] = A[h] /\ [A EXCEPT ![o] = {}][o] = {}
        /\ [C EXCEPT ![h] = 0][h] = 0 /\ [C EXCEPT ![h] = 0][o] = 0
    BY <1>1, <1>2, <1>5, <1>6
  <2>2. /\ g.current = o /\ g.bloom_count[o] = 0 /\ g.bloom_count[h] = 0
        /\ g.bloom[h] = A[h] /\ g.bloom[o] = {}
    BY <2>1, <2>a
  <2>3. g \in Filter
    <3>1. [A EXCEPT ![o] = {}] \in [Half -> SUBSET Salt] /\ [C EXCEPT ![h] = 0] \in [Half -> Nat]
      BY <1>1, <1>2, <1>6
    <3> QED BY <3>1, <2>1, <1>2 DEF Filter
  <2>4. \A i \in 1..m + 1 : ((m + 1) - 0 - entries < i /\ i <= (m + 1) - 0) =>
            r[i] \in g.bloom[h]
    BY <1>3, <1>5, <1>7, <1>8, <1>e, <2>2
  <2>5. Remembers(g, r)
    BY <2>2, <2>4, <1>2, <1>3 DEF Remembers
  <2> QED BY <2>3, <2>5, <1>3
<1>9. CASE ~(n >= entries)
  <2>1. g = [f EXCEPT !.bloom = A, !.bloom_count[h] = n]
    BY <1>9 DEF ppbloom_add
  <2>2. g = [bloom |-> A, bloom_count |-> [C EXCEPT ![h] = n], current |-> h]
    BY <2>1 DEF Filter
  <2>3. /\ g.current = h /\ g.bloom_count[h] = n /\ g.bloom_count[o] = 0
        /\ g.bloom[h] = A[h] /\ g.bloom[o] = B[o]
    BY <2>2, <1>1, <1>2, <1>5, <1>6
  <2>4. g \in Filter
    <3>1. [C EXCEPT ![h] = n] \in [Half -> Nat]
      BY <1>1, <1>5
    <3> QED BY <3>1, <2>2, <1>1, <1>6 DEF Filter
  <2>5. \A i \in 1..m + 1 : ((m + 1) - n - entries < i /\ i <= (m + 1) - n) =>
            r[i] \in B[o]
    <3> HIDE DEF B, o, C
    <3> SUFFICES ASSUME NEW i \in 1..m + 1, (m + 1) - n - entries < i, i <= (m + 1) - n
                 PROVE  r[i] \in B[o]
      OBVIOUS
    <3>1. i \in 1..m /\ m - C[h] - entries < i /\ i <= m - C[h]
      BY <1>3, <1>5, <1>e
    <3> QED BY <3>1, <1>4, <1>5
  <2>6. n <= m + 1 /\ (n = 0 \/ n < entries)
    BY <1>3, <1>5, <1>9, <1>e
  <2>7. Remembers(g, r)
    BY <2>3, <2>5, <2>6, <1>7, <1>3 DEF Remembers
  <2> QED BY <2>4, <2>7, <1>3
<1> QED BY <1>8, <1>9

LEMMA FilterStep ==
  ASSUME NEW s \in Salt, ppbloom \in Filter, adds \in Seq(Salt), FilterInv,
         ppbloom' = ppbloom_add(ppbloom, s), adds' = Append(adds, s)
  PROVE  ppbloom' \in Filter /\ adds' \in Seq(Salt) /\ FilterInv'
  BY RememberStep DEF FilterInv

\* The latest `entries` salts are found.
LEMMA RecentIsFound ==
  ASSUME ppbloom \in Filter, adds \in Seq(Salt), FilterInv,
         NEW i \in 1..Len(adds), Len(adds) - i < entries
  PROVE  ppbloom_check(ppbloom, adds[i]) = {TRUE}
<1>1. ppbloom.current \in Half /\ ppbloom.bloom_count[ppbloom.current] \in Nat
  BY DEF Filter
<1>2. adds[i] \in ppbloom.bloom[ppbloom.current] \/ adds[i] \in ppbloom.bloom[Other(ppbloom.current)]
  BY <1>1, EntriesNat DEF FilterInv, Remembers
<1>3. adds[i] \in ppbloom.bloom["PING"] \/ adds[i] \in ppbloom.bloom["PONG"]
  BY <1>1, <1>2 DEF Half, Other
<1> QED BY <1>3 DEF ppbloom_check, bloom_check

-----------------------------------------------------------------------------
(* What a step leaves alone *)

LEMMA OnlyOneConn ==
  ASSUME AeadInv, NEW c \in Conn, ConnInv(c)',
         \A d \in Conn \ {c} : /\ enc'[d] = enc[d] /\ chunks'[d] = chunks[d]
                               /\ dec'[d] = dec[d] /\ got'[d] = got[d]
  PROVE  \A d \in Conn : ConnInv(d)'
<1> SUFFICES ASSUME NEW d \in Conn, d # c PROVE ConnInv(d)'
  OBVIOUS
<1>1. ConnInv(d)
  BY DEF AeadInv
<1> QED BY <1>1 DEF ConnInv

LEMMA FilterUntouched ==
  ASSUME AeadInv, UNCHANGED <<ppbloom, adds, hist>>,
         \A d \in Conn : dec[d].pc = "closed" => dec'[d].pc = "closed"
  PROVE  FilterInv' /\ HistInv' /\ RecentSaltIsRefused'
<1>1. FilterInv /\ HistInv /\ RecentSaltIsRefused
  BY DEF AeadInv
<1>2. FilterInv'
  BY <1>1 DEF FilterInv, Remembers
<1>3. HistInv'
  BY <1>1 DEF HistInv
<1>4. RecentSaltIsRefused'
  BY <1>1 DEF RecentSaltIsRefused
<1> QED BY <1>2, <1>3, <1>4

-----------------------------------------------------------------------------
(* The steps *)

LEMMA ConnTypes ==
  ASSUME TypeOK, NEW c \in Conn
  PROVE  /\ enc[c] \in Enc /\ chunks[c] \in Seq(Chunk) /\ dec[c] \in Dec
         /\ got[c] \in Seq(Nat) /\ SaltOf[c] \in Salt
  BY AeadAssumption DEF TypeOK, Enc, Dec

LEMMA EncryptStep ==
  ASSUME AeadInv, NEW c \in Conn, NEW plen \in 1..CHUNK_SIZE_MASK, aead_encrypt(c, plen)
  PROVE  AeadInv'
<1> DEFINE e == enc[c]
           start == IF e.init THEN e.written ELSE SALT_LEN
           k == aead_chunk_encrypt(start, e.nonce, plen)
           f == [init |-> TRUE, nonce |-> k.data_nonce + 1, written |-> start + Overhead + plen]
<1>1. TypeOK /\ ConnInv(c)
  BY DEF AeadInv
<1>2. e \in Enc /\ chunks[c] \in Seq(Chunk) /\ dec[c] \in Dec /\ got[c] \in Seq(Nat)
  BY <1>1, ConnTypes
<1>3. /\ chunks' = [chunks EXCEPT ![c] = Append(@, k)]
      /\ enc' = [enc EXCEPT ![c] = f]
      /\ UNCHANGED <<dec, got, ppbloom, adds, hist>>
  BY DEF aead_encrypt
<1>4. SenderOK(e, chunks[c])
  BY <1>1 DEF ConnInv
<1>5. /\ k \in Chunk /\ f \in Enc /\ SenderOK(f, Append(chunks[c], k))
      /\ f.written > e.written /\ k.off >= e.written
  BY <1>2, <1>4, SenderStep
<1> HIDE DEF f, k, e, start
<1>6. enc'[c] = f /\ chunks'[c] = Append(chunks[c], k)
  BY <1>3, <1>1 DEF TypeOK
<1>7. \A d \in Conn \ {c} : enc'[d] = enc[d] /\ chunks'[d] = chunks[d]
  BY <1>3, <1>1 DEF TypeOK
<1>8. TypeOK'
  <2>1. enc' \in [Conn -> Enc]
    BY <1>1, <1>3, <1>5 DEF TypeOK, Enc
  <2>2. Append(chunks[c], k) \in Seq(Chunk)
    BY <1>2, <1>5
  <2>3. chunks' \in [Conn -> Seq(Chunk)]
    BY <2>2, <1>1, <1>3 DEF TypeOK
  <2> QED BY <2>1, <2>3, <1>1, <1>3 DEF TypeOK, Enc
<1>9. ConnInv(c)'
  <2>1. e.written \in Nat /\ f.written \in Nat
    BY <1>2, <1>5 DEF Enc
  <2>2. ReceiverOK(dec[c], got[c], e.written, chunks[c], c \in Garbled)
    BY <1>1 DEF ConnInv, e
  <2>3. ReceiverOK(dec[c], got[c], f.written, Append(chunks[c], k), c \in Garbled)
    BY <2>1, <2>2, <1>2, <1>5, ReceiverKeepsOnAppend
  <2> QED BY <2>3, <1>3, <1>5, <1>6 DEF ConnInv
<1>10. \A d \in Conn : ConnInv(d)'
  BY <1>3, <1>7, <1>9, OnlyOneConn
<1>11. FilterInv' /\ HistInv' /\ RecentSaltIsRefused'
  BY <1>3, FilterUntouched
<1> QED BY <1>8, <1>10, <1>11 DEF AeadInv

\* The parts of a step that changes the receiver of c alone, to d.
LEMMA ReceiverStep ==
  ASSUME AeadInv, NEW c \in Conn, NEW d \in Dec, NEW g \in Seq(Nat),
         dec' = [dec EXCEPT ![c] = d], got' = [got EXCEPT ![c] = g],
         UNCHANGED <<enc, chunks>>,
         ReceiverOK(d, g, enc[c].written, chunks[c], c \in Garbled)
  PROVE  /\ dec' \in [Conn -> Dec]
         /\ got' \in [Conn -> Seq(Nat)]
         /\ dec'[c] = d
         /\ \A b \in Conn \ {c} : dec'[b] = dec[b]
         /\ \A b \in Conn : ConnInv(b)'
<1>1. TypeOK /\ ConnInv(c)
  BY DEF AeadInv
<1>2. dec \in [Conn -> Dec] /\ got \in [Conn -> Seq(Nat)]
  BY <1>1 DEF TypeOK, Dec
<1>3. dec' \in [Conn -> Dec] /\ dec'[c] = d /\ \A b \in Conn \ {c} : dec'[b] = dec[b]
  BY <1>2
<1>4. got' \in [Conn -> Seq(Nat)] /\ got'[c] = g /\ \A b \in Conn \ {c} : got'[b] = got[b]
  BY <1>2
<1>5. SenderOK(enc[c], chunks[c])
  BY <1>1 DEF ConnInv
<1>6. ConnInv(c)'
  BY <1>3, <1>4, <1>5 DEF ConnInv
<1> QED BY <1>3, <1>4, <1>6, OnlyOneConn

\* recv: more bytes, and the salt once it is complete.
LEMMA DecryptStep ==
  ASSUME AeadInv, NEW c \in Conn, NEW n \in 1..BUF_SIZE, aead_decrypt(c, n)
  PROVE  AeadInv'
<1> DEFINE d == dec[c]
           len == d.len + n
<1>1. TypeOK /\ ConnInv(c) /\ HistInv /\ FilterInv /\ RecentSaltIsRefused
  BY DEF AeadInv
<1>2. d \in Dec /\ got[c] \in Seq(Nat) /\ enc[c] \in Enc /\ chunks[c] \in Seq(Chunk)
  BY <1>1, ConnTypes
<1>3. /\ d.pc = "recv" /\ d.base + len <= enc[c].written
      /\ UNCHANGED <<enc, chunks, got, ppbloom, adds>>
  BY DEF aead_decrypt
<1>a. /\ d.base \in Nat /\ d.len \in Nat /\ d.init \in 0..2 /\ d.nonce \in Nat
      /\ enc[c].written \in Nat
  BY <1>2 DEF Dec, Enc
<1>b. n \in Nat /\ n > 0 /\ SALT_LEN \in Nat /\ SALT_LEN > 0
  BY AeadAssumption
<1>4. /\ d.base \in Nat /\ d.len \in Nat /\ n \in Nat /\ n > 0 /\ len \in Nat
      /\ d.init \in 0..2 /\ d.nonce \in Nat /\ enc[c].written \in Nat /\ SALT_LEN \in Nat
      /\ SALT_LEN > 0
  BY <1>a, <1>b
<1>5. ReceiverOK(d, got[c], enc[c].written, chunks[c], c \in Garbled)
  BY <1>1 DEF ConnInv
<1>6. got' = [got EXCEPT ![c] = got[c]]
  BY <1>1, <1>3 DEF TypeOK
<1>7. CASE d.init # 0
  <2> DEFINE D == [d EXCEPT !.pc = "loop", !.len = len, !.plen = 0]
  <2>1. dec' = [dec EXCEPT ![c] = D] /\ UNCHANGED hist
    BY <1>7, <1>1 DEF aead_decrypt, TypeOK
  <2>2. /\ D \in Dec /\ D.pc = "loop" /\ D.len = len /\ D.plen = 0 /\ D.base = d.base
        /\ D.nonce = d.nonce /\ D.init = d.init
    BY <1>2, <1>4 DEF Dec
  <2> HIDE DEF D, len
  <2>3. len > 0
    BY <1>4 DEF len
  <2>4. ReceiverOK(D, got[c], enc[c].written, chunks[c], c \in Garbled)
    BY <2>2, <2>3, <1>3, <1>4, <1>5, <1>7 DEF ReceiverOK
  <2>5. /\ dec' \in [Conn -> Dec] /\ dec'[c] = D /\ (\A b \in Conn \ {c} : dec'[b] = dec[b])
        /\ \A b \in Conn : ConnInv(b)'
    BY <2>1, <2>2, <2>4, <1>2, <1>3, <1>6, ReceiverStep
  <2>6. FilterInv' /\ HistInv' /\ RecentSaltIsRefused'
    BY <2>1, <2>5, <1>3, FilterUntouched
  <2>7. TypeOK'
    BY <2>1, <2>5, <1>1, <1>3 DEF TypeOK, Dec
  <2> QED BY <2>5, <2>6, <2>7 DEF AeadInv
<1>8. CASE d.init = 0 /\ NeedSalt(len)
  <2> DEFINE D == [d EXCEPT !.len = len]
  <2>1. dec' = [dec EXCEPT ![c] = D] /\ UNCHANGED hist
    BY <1>8, <1>1 DEF aead_decrypt, TypeOK
  <2>2. /\ D \in Dec /\ D.pc = "recv" /\ D.len = len /\ D.plen = d.plen /\ D.base = d.base
        /\ D.nonce = d.nonce /\ D.init = 0
    BY <1>2, <1>3, <1>4, <1>8 DEF Dec
  <2> HIDE DEF D, len
  <2>4. ReceiverOK(D, got[c], enc[c].written, chunks[c], c \in Garbled)
    BY <2>2, <1>3, <1>4, <1>5, <1>8 DEF ReceiverOK
  <2>5. /\ dec' \in [Conn -> Dec] /\ dec'[c] = D /\ (\A b \in Conn \ {c} : dec'[b] = dec[b])
        /\ \A b \in Conn : ConnInv(b)'
    BY <2>1, <2>2, <2>4, <1>2, <1>3, <1>6, ReceiverStep
  <2>6. FilterInv' /\ HistInv' /\ RecentSaltIsRefused'
    BY <2>1, <2>5, <1>3, FilterUntouched
  <2>7. TypeOK'
    BY <2>1, <2>5, <1>1, <1>3 DEF TypeOK, Dec
  <2> QED BY <2>5, <2>6, <2>7 DEF AeadInv
<1>9. CASE d.init = 0 /\ ~NeedSalt(len)
  <2> DEFINE DF == [d EXCEPT !.pc = "closed", !.len = len]
             DN == [pc |-> "loop", init |-> 1, nonce |-> d.nonce, base |-> SALT_LEN,
                    len |-> len - SALT_LEN, plen |-> 0]
  <2>1. PICK found \in ppbloom_check(ppbloom, SaltOf[c]) :
            dec' = [dec EXCEPT ![c] = IF found THEN DF ELSE DN]
    BY <1>9 DEF aead_decrypt
  <2>2. hist' = [hist EXCEPT ![c].checked = Len(adds)]
    BY <1>9 DEF aead_decrypt
  <2> DEFINE D == IF found THEN DF ELSE DN
  <2>3. dec' = [dec EXCEPT ![c] = D]
    BY <2>1
  <2>4. DF \in Dec /\ DF.pc = "closed" /\ DF.len = len /\ DF.base = d.base
        /\ DF.nonce = d.nonce /\ DF.init = 0
    BY <1>2, <1>4, <1>9 DEF Dec
  <2>5. len > SALT_LEN
    BY <1>4, <1>9 DEF NeedSalt
  <2>6. /\ DN \in Dec /\ DN.pc = "loop" /\ DN.len = len - SALT_LEN /\ DN.base = SALT_LEN
        /\ DN.nonce = d.nonce /\ DN.init = 1 /\ DN.plen = 0
    <3>1. len - SALT_LEN \in Nat
      BY <1>4, <2>5
    <3> HIDE DEF len
    <3> QED BY <3>1, <1>4 DEF Dec
  <2>7. d.base = 0 /\ Len(got[c]) = 0 /\ d.nonce = 0
    BY <1>5, <1>9 DEF ReceiverOK
  <2>8. Len(chunks[c]) > 0
    <3>1. enc[c].written > 0
      BY <2>5, <2>7, <1>3, <1>4
    <3>2. Len(chunks[c]) \in Nat /\ (Len(chunks[c]) = 0 => enc[c].written = 0)
      BY <1>1, <1>2 DEF ConnInv, SenderOK
    <3> QED BY <3>1, <3>2
  <2> HIDE DEF DF, DN, len
  <2>9. D \in Dec /\ ReceiverOK(D, got[c], enc[c].written, chunks[c], c \in Garbled)
    <3>1. ReceiverOK(DF, got[c], enc[c].written, chunks[c], c \in Garbled)
      BY <2>4, <1>3, <1>4, <1>5, <1>9 DEF ReceiverOK
    <3>2. len \in Nat /\ SALT_LEN + (len - SALT_LEN) = len /\ len - SALT_LEN > 0
      BY <1>4, <2>5
    <3>3. ReceiverOK(DN, got[c], enc[c].written, chunks[c], c \in Garbled)
      <4>1. DN.base + DN.len <= enc[c].written
        BY <2>6, <2>7, <3>2, <1>3, <1>4
      <4> QED BY <4>1, <2>6, <2>7, <2>8, <3>2, <1>5 DEF ReceiverOK, Position
    <3> QED BY <3>1, <3>3, <2>4, <2>6
  <2> HIDE DEF D
  <2>10. /\ dec' \in [Conn -> Dec] /\ dec'[c] = D /\ (\A b \in Conn \ {c} : dec'[b] = dec[b])
         /\ \A b \in Conn : ConnInv(b)'
    BY <2>3, <2>9, <1>2, <1>3, <1>6, ReceiverStep
  <2>11. Len(adds) \in Nat
    BY <1>1 DEF TypeOK
  <2>12. /\ hist'[c].checked = Len(adds) /\ hist'[c].added = hist[c].added
         /\ \A b \in Conn \ {c} : hist'[b] = hist[b]
    BY <2>2, <1>1 DEF TypeOK
  <2>13. TypeOK'
    <3>1. hist' \in [Conn -> [checked : Int, added : Int]]
      <4>1. hist \in [Conn -> [checked : Int, added : Int]] /\ Len(adds) \in Int
        BY <2>11, <1>1 DEF TypeOK
      <4> DEFINE H == [hist[c] EXCEPT !.checked = Len(adds)]
      <4>2. hist' = [hist EXCEPT ![c] = H]
        BY <2>2
      <4>3. hist[c] \in [checked : Int, added : Int]
        BY <4>1
      <4>4. H \in [checked : Int, added : Int]
        BY <4>1, <4>3
      <4> HIDE DEF H
      <4> QED BY <4>1, <4>2, <4>4
    <3> QED BY <3>1, <2>10, <1>1, <1>3 DEF TypeOK, Dec
  <2>14. FilterInv'
    BY <1>1, <1>3 DEF FilterInv, Remembers
  <2>15. HistInv'
    BY <2>11, <2>12, <1>1, <1>3 DEF HistInv
  <2>16. RecentSaltIsRefused'
    <3> SUFFICES ASSUME NEW a \in Conn, NEW b \in Conn, a # b, SaltOf[a] = SaltOf[b],
                        hist'[a].added # -1, hist'[a].added <= hist'[b].checked,
                        hist'[b].checked - hist'[a].added < entries
                 PROVE  dec'[b].pc = "closed"
      BY DEF RecentSaltIsRefused
    <3>1. hist'[a].added = hist[a].added
      BY <2>12
    <3>2. CASE b = c
      <4>1. hist[a].added \in 1..Len(adds) /\ adds[hist[a].added] = SaltOf[c]
        BY <3>1, <3>2, <1>1 DEF HistInv
      <4>2. ppbloom_check(ppbloom, SaltOf[c]) = {TRUE}
        BY <4>1, <3>1, <3>2, <2>12, <1>1, RecentIsFound DEF TypeOK
      <4> QED BY <4>2, <3>2, <2>1, <2>4, <2>10 DEF D
    <3>3. CASE b # c
      BY <3>1, <3>3, <2>10, <2>12, <1>1 DEF RecentSaltIsRefused
    <3> QED BY <3>2, <3>3
  <2> QED BY <2>10, <2>13, <2>14, <2>15, <2>16 DEF AeadInv
<1> QED BY <1>7, <1>8, <1>9

\* Back to recv with CRYPTO_OK: data were decrypted, and the next chunk, if any,
\* is incomplete.
LEMMA ReturnStep ==
  ASSUME AeadInv, NEW c \in Conn, dec[c].pc = "loop", dec[c].plen > 0,
         Return(c, dec[c]), UNCHANGED <<enc, chunks, got>>,
         (c \notin Garbled /\ Len(got[c]) < Len(chunks[c])) =>
            dec[c].base + dec[c].len < ChunkEnd(chunks[c][Len(got[c]) + 1])
  PROVE  AeadInv'
<1> DEFINE d == dec[c]
<1>1. TypeOK /\ ConnInv(c) /\ HistInv /\ FilterInv /\ RecentSaltIsRefused
  BY DEF AeadInv
<1>2. d \in Dec /\ got[c] \in Seq(Nat) /\ SaltOf[c] \in Salt
  BY <1>1, ConnTypes
<1>3. ReceiverOK(d, got[c], enc[c].written, chunks[c], c \in Garbled)
  BY <1>1 DEF ConnInv
<1>4. got' = [got EXCEPT ![c] = got[c]]
  BY <1>1 DEF TypeOK
<1>5. CASE d.init = 1
  <2> DEFINE D == [d EXCEPT !.pc = "recv", !.init = 2]
  <2>1. /\ dec' = [dec EXCEPT ![c] = D]
        /\ ppbloom' = ppbloom_add(ppbloom, SaltOf[c])
        /\ adds' = Append(adds, SaltOf[c])
        /\ hist' = [hist EXCEPT ![c].added = Len(adds) + 1]
    BY <1>5 DEF Return
  <2>2. /\ D \in Dec /\ D.pc = "recv" /\ D.init = 2 /\ D.nonce = d.nonce /\ D.base = d.base
        /\ D.len = d.len
    <3> HIDE DEF d
    <3>1. 2 \in 0..2 /\ "recv" \in {"recv", "loop", "closed"}
      OBVIOUS
    <3> QED BY <3>1, <1>2 DEF Dec
  <2> HIDE DEF D
  <2>3. ReceiverOK(D, got[c], enc[c].written, chunks[c], c \in Garbled)
    BY <2>2, <1>3, <1>5 DEF ReceiverOK
  <2>4. /\ dec' \in [Conn -> Dec] /\ dec'[c] = D /\ (\A b \in Conn \ {c} : dec'[b] = dec[b])
        /\ got' \in [Conn -> Seq(Nat)] /\ \A b \in Conn : ConnInv(b)'
    BY <2>1, <2>2, <2>3, <1>2, <1>4, ReceiverStep
  <2>5. ppbloom' \in Filter /\ adds' \in Seq(Salt) /\ FilterInv'
    BY <2>1, <1>1, <1>2, FilterStep DEF TypeOK
  <2>6. /\ Len(adds) \in Nat /\ Len(adds') = Len(adds) + 1
        /\ adds'[Len(adds) + 1] = SaltOf[c]
        /\ \A i \in 1..Len(adds) : adds'[i] = adds[i]
    BY <2>1, <1>1, <1>2 DEF TypeOK
  <2>7. /\ hist'[c].added = Len(adds) + 1 /\ hist'[c].checked = hist[c].checked
        /\ \A b \in Conn \ {c} : hist'[b] = hist[b]
    BY <2>1, <1>1 DEF TypeOK
  <2>8. hist' \in [Conn -> [checked : Int, added : Int]]
    <3> DEFINE H == [hist[c] EXCEPT !.added = Len(adds) + 1]
    <3>1. hist' = [hist EXCEPT ![c] = H]
      BY <2>1
    <3>2. hist \in [Conn -> [checked : Int, added : Int]] /\ Len(adds) + 1 \in Int
      BY <2>6, <1>1 DEF TypeOK
    <3>3. hist[c] \in [checked : Int, added : Int]
      BY <3>2
    <3>4. H \in [checked : Int, added : Int]
      BY <3>2, <3>3
    <3> HIDE DEF H
    <3> QED BY <3>1, <3>2, <3>4
  <2>9. TypeOK'
    BY <2>4, <2>5, <2>8, <1>1 DEF TypeOK, Dec
  <2>10. \A b \in Conn : hist[b].checked \in Int /\ hist[b].added \in Int
    BY <1>1 DEF TypeOK
  <2>11. HistInv'
    <3> SUFFICES ASSUME NEW b \in Conn
                 PROVE  /\ hist'[b].checked <= Len(adds')
                        /\ hist'[b].added # -1 =>
                            (hist'[b].added \in 1..Len(adds') /\ adds'[hist'[b].added] = SaltOf[b])
      BY DEF HistInv
    <3>1. /\ hist[b].checked <= Len(adds)
          /\ hist[b].added # -1 =>
                (hist[b].added \in 1..Len(adds) /\ adds[hist[b].added] = SaltOf[b])
      BY <1>1 DEF HistInv
    <3>2. CASE b = c
      BY <3>1, <3>2, <2>6, <2>7, <2>10
    <3>3. CASE b # c
      BY <3>1, <3>3, <2>6, <2>7, <2>10
    <3> QED BY <3>2, <3>3
  <2>12. RecentSaltIsRefused'
    <3> SUFFICES ASSUME NEW a \in Conn, NEW b \in Conn, a # b, SaltOf[a] = SaltOf[b],
                        hist'[a].added # -1, hist'[a].added <= hist'[b].checked,
                        hist'[b].checked - hist'[a].added < entries
                 PROVE  dec'[b].pc = "closed"
      BY DEF RecentSaltIsRefused
    <3>1. hist'[b].checked = hist[b].checked /\ hist[b].checked <= Len(adds)
      BY <2>7, <1>1 DEF HistInv
    <3>2. a # c
      BY <3>1, <2>6, <2>7, <2>10
    <3>3. dec[b].pc = "closed"
      BY <3>1, <3>2, <2>7, <1>1 DEF RecentSaltIsRefused
    <3> QED BY <3>3, <2>4
  <2> QED BY <2>4, <2>5, <2>9, <2>11, <2>12 DEF AeadInv
<1>6. CASE d.init # 1
  <2> DEFINE D == [d EXCEPT !.pc = "recv"]
  <2>1. dec' = [dec EXCEPT ![c] = D] /\ UNCHANGED <<ppbloom, adds, hist>>
    BY <1>6 DEF Return
  <2>2. /\ D \in Dec /\ D.pc = "recv" /\ D.init = d.init /\ D.nonce = d.nonce /\ D.base = d.base
        /\ D.len = d.len
    BY <1>2 DEF Dec
  <2> HIDE DEF D
  <2>3. ReceiverOK(D, got[c], enc[c].written, chunks[c], c \in Garbled)
    BY <2>2, <1>3, <1>6 DEF ReceiverOK
  <2>4. /\ dec' \in [Conn -> Dec] /\ dec'[c] = D /\ (\A b \in Conn \ {c} : dec'[b] = dec[b])
        /\ \A b \in Conn : ConnInv(b)'
    BY <2>1, <2>2, <2>3, <1>2, <1>4, ReceiverStep
  <2>5. FilterInv' /\ HistInv' /\ RecentSaltIsRefused'
    BY <2>1, <2>4, FilterUntouched
  <2>6. TypeOK'
    BY <2>1, <2>4, <1>1 DEF TypeOK, Dec
  <2> QED BY <2>4, <2>5, <2>6 DEF AeadInv
<1> QED BY <1>5, <1>6

\* CRYPTO_NEED_MORE from aead_chunk_decrypt.
LEMMA NeedMoreStep ==
  ASSUME AeadInv, NEW c \in Conn, dec[c].pc = "loop", NeedMore(c),
         UNCHANGED <<enc, chunks, got>>,
         (c \notin Garbled /\ Len(got[c]) < Len(chunks[c])) =>
            dec[c].base + dec[c].len < ChunkEnd(chunks[c][Len(got[c]) + 1])
  PROVE  AeadInv'
<1>1. TypeOK /\ ConnInv(c)
  BY DEF AeadInv
<1>2. dec[c] \in Dec /\ got[c] \in Seq(Nat)
  BY <1>1, ConnTypes
<1>3. CASE dec[c].plen = 0
  <2> DEFINE D == [dec[c] EXCEPT !.pc = "recv"]
  <2>1. dec' = [dec EXCEPT ![c] = D] /\ UNCHANGED <<ppbloom, adds, hist>>
    BY <1>3, <1>1 DEF NeedMore, TypeOK
  <2>2. /\ D \in Dec /\ D.pc = "recv" /\ D.init = dec[c].init /\ D.nonce = dec[c].nonce
        /\ D.base = dec[c].base /\ D.len = dec[c].len
    BY <1>2 DEF Dec
  <2> HIDE DEF D
  <2>3. ReceiverOK(D, got[c], enc[c].written, chunks[c], c \in Garbled)
    BY <2>2, <1>1 DEF ConnInv, ReceiverOK
  <2>4. got' = [got EXCEPT ![c] = got[c]]
    BY <1>1 DEF TypeOK
  <2>5. /\ dec' \in [Conn -> Dec] /\ dec'[c] = D /\ (\A b \in Conn \ {c} : dec'[b] = dec[b])
        /\ \A b \in Conn : ConnInv(b)'
    BY <2>1, <2>2, <2>3, <2>4, <1>2, ReceiverStep
  <2>6. FilterInv' /\ HistInv' /\ RecentSaltIsRefused'
    BY <2>1, <2>5, FilterUntouched
  <2>7. TypeOK'
    BY <2>1, <2>5, <1>1 DEF TypeOK, Dec
  <2> QED BY <2>5, <2>6, <2>7 DEF AeadInv
<1>4. CASE dec[c].plen # 0
  <2>1. dec[c].plen > 0
    BY <1>2, <1>4 DEF Dec
  <2> QED BY <2>1, <1>4, ReturnStep DEF NeedMore
<1> QED BY <1>3, <1>4

\* Fewer bytes than any chunk has.
LEMMA ShortStep ==
  ASSUME AeadInv, NEW c \in Conn, aead_chunk_decrypt_Short(c)
  PROVE  AeadInv'
<1>1. dec[c].pc = "loop" /\ dec[c].len <= Overhead /\ NeedMore(c) /\ UNCHANGED <<enc, chunks, got>>
  BY DEF aead_chunk_decrypt_Short
<1>2. TypeOK /\ ConnInv(c)
  BY DEF AeadInv
<1>3. enc[c] \in Enc /\ chunks[c] \in Seq(Chunk) /\ dec[c] \in Dec /\ got[c] \in Seq(Nat)
  BY <1>2, ConnTypes
<1>4. Len(got[c]) \in Nat /\ Len(chunks[c]) \in Nat /\ dec[c].base \in Nat /\ dec[c].len \in Nat
  BY <1>3 DEF Dec
<1>5. /\ SenderOK(enc[c], chunks[c]) /\ dec[c].base = Position(chunks[c], Len(got[c]))
      /\ Len(chunks[c]) > 0 /\ Len(got[c]) <= Len(chunks[c])
  BY <1>1, <1>2 DEF ConnInv, ReceiverOK
<1>6. ASSUME Len(got[c]) < Len(chunks[c])
      PROVE  dec[c].base + dec[c].len < ChunkEnd(chunks[c][Len(got[c]) + 1])
  <2>0. Len(got[c]) \in 0..Len(chunks[c])
    BY <1>4, <1>5
  <2>1. /\ chunks[c][Len(got[c]) + 1] \in Chunk
        /\ chunks[c][Len(got[c]) + 1].off = dec[c].base
    BY <2>0, <1>3, <1>5, <1>6, Layout
  <2>2. /\ ChunkEnd(chunks[c][Len(got[c]) + 1]) > dec[c].base + Overhead
        /\ ChunkEnd(chunks[c][Len(got[c]) + 1]) \in Nat
    BY <2>1, ChunkEndNat
  <2> QED BY <2>2, <1>1, <1>4, OverheadNat
<1> QED BY <1>1, <1>6, NeedMoreStep

\* The payload is not all there.
LEMMA PartialStep ==
  ASSUME AeadInv, NEW c \in Conn, aead_chunk_decrypt_Partial(c)
  PROVE  AeadInv'
<1>1. dec[c].pc = "loop" /\ NeedMore(c) /\ UNCHANGED <<enc, chunks, got>>
  BY DEF aead_chunk_decrypt_Partial
<1>2. PICK i \in LengthAt(c, dec[c].base, dec[c].nonce) :
          dec[c].len < Overhead + chunks[c][i].plen
  BY DEF aead_chunk_decrypt_Partial
<1>3. i = Len(got[c]) + 1
  BY <1>1, NextLength
<1>4. i \in 1..Len(chunks[c]) /\ chunks[c][i].off = dec[c].base
  BY DEF LengthAt
<1>5. TypeOK
  BY DEF AeadInv
<1>6. chunks[c] \in Seq(Chunk) /\ dec[c] \in Dec
  BY <1>5, ConnTypes
<1>7. chunks[c][i] \in Chunk
  BY <1>4, <1>6
<1>8. dec[c].base \in Nat /\ dec[c].len \in Nat /\ chunks[c][i].plen \in Nat
  <2>1. dec[c].base \in Nat /\ dec[c].len \in Nat
    BY <1>6 DEF Dec
  <2>2. chunks[c][i].plen \in 1..CHUNK_SIZE_MASK
    BY <1>7 DEF Chunk
  <2> QED BY <2>1, <2>2, AeadAssumption
<1>9. dec[c].base + dec[c].len < ChunkEnd(chunks[c][i])
  <2> DEFINE base == dec[c].base
             len  == dec[c].len
             plen == chunks[c][i].plen
  <2>1. ChunkEnd(chunks[c][i]) = base + Overhead + plen
    BY <1>4 DEF ChunkEnd
  <2>2. base \in Nat /\ len \in Nat /\ plen \in Nat /\ len < Overhead + plen
    BY <1>2, <1>8
  <2> HIDE DEF base, len, plen
  <2>3. base + len < base + Overhead + plen
    BY <2>2, OverheadNat
  <2> QED BY <2>1, <2>3 DEF base, len
<1> QED BY <1>1, <1>3, <1>9, NeedMoreStep

\* ctx->chunk is empty.
LEMMA DoneStep ==
  ASSUME AeadInv, NEW c \in Conn, aead_decrypt_Done(c)
  PROVE  AeadInv'
<1>1. dec[c].pc = "loop" /\ dec[c].len = 0 /\ Return(c, dec[c]) /\ UNCHANGED <<enc, chunks, got>>
  BY DEF aead_decrypt_Done
<1>2. TypeOK /\ ConnInv(c)
  BY DEF AeadInv
<1>3. enc[c] \in Enc /\ chunks[c] \in Seq(Chunk) /\ dec[c] \in Dec /\ got[c] \in Seq(Nat)
  BY <1>2, ConnTypes
<1>4. Len(got[c]) \in Nat /\ Len(chunks[c]) \in Nat /\ dec[c].base \in Nat
  BY <1>3 DEF Dec
<1>5. /\ SenderOK(enc[c], chunks[c]) /\ dec[c].base = Position(chunks[c], Len(got[c]))
      /\ Len(chunks[c]) > 0 /\ Len(got[c]) <= Len(chunks[c]) /\ dec[c].plen > 0
  BY <1>1, <1>2 DEF ConnInv, ReceiverOK
<1>6. ASSUME Len(got[c]) < Len(chunks[c])
      PROVE  dec[c].base + dec[c].len < ChunkEnd(chunks[c][Len(got[c]) + 1])
  <2>0. Len(got[c]) \in 0..Len(chunks[c])
    BY <1>4, <1>5
  <2>1. /\ chunks[c][Len(got[c]) + 1] \in Chunk
        /\ chunks[c][Len(got[c]) + 1].off = dec[c].base
    BY <2>0, <1>3, <1>5, <1>6, Layout
  <2>2. /\ ChunkEnd(chunks[c][Len(got[c]) + 1]) > dec[c].base + Overhead
        /\ ChunkEnd(chunks[c][Len(got[c]) + 1]) \in Nat
    BY <2>1, ChunkEndNat
  <2> QED BY <2>2, <1>1, <1>4, OverheadNat
<1> QED BY <1>1, <1>5, <1>6, ReturnStep

\* What cutting a chunk off ctx->chunk makes of the receiver.
LEMMA CutOff ==
  ASSUME NEW d \in Dec, NEW mlen \in Nat, mlen > 0, d.len >= Overhead + mlen,
         NEW D, D = [d EXCEPT !.nonce = @ + 2, !.base = @ + Overhead + mlen,
                              !.len = @ - (Overhead + mlen), !.plen = @ + mlen]
  PROVE  /\ D \in Dec
         /\ D.pc = d.pc /\ D.init = d.init /\ D.nonce = d.nonce + 2
         /\ D.base = d.base + Overhead + mlen
         /\ D.base + D.len = d.base + d.len
         /\ D.plen > 0
<1>1. d.nonce \in Nat /\ d.base \in Nat /\ d.len \in Nat /\ d.plen \in Nat /\ Overhead \in Nat
  BY OverheadNat DEF Dec
<1> DEFINE nonce == d.nonce + 2
           base == d.base + Overhead + mlen
           len == d.len - (Overhead + mlen)
           plen == d.plen + mlen
<1>2. /\ nonce \in Nat /\ base \in Nat /\ len \in Nat /\ plen \in Nat /\ plen > 0
      /\ base + len = d.base + d.len
  BY <1>1
<1>3. D = [d EXCEPT !.nonce = nonce, !.base = base, !.len = len, !.plen = plen]
  OBVIOUS
<1>a. base = d.base + Overhead + mlen /\ nonce = d.nonce + 2
  OBVIOUS
<1> HIDE DEF nonce, base, len, plen
<1>4. /\ D.pc = d.pc /\ D.init = d.init /\ D.nonce = nonce /\ D.base = base /\ D.len = len
      /\ D.plen = plen
  BY <1>3 DEF Dec
<1>5. D \in Dec
  <2>1. \A x \in Dec, y \in Nat : [x EXCEPT !.nonce = y] \in Dec
    BY DEF Dec
  <2>2. \A x \in Dec, y \in Nat : [x EXCEPT !.base = y] \in Dec
    BY DEF Dec
  <2>3. \A x \in Dec, y \in Nat : [x EXCEPT !.len = y] \in Dec
    BY DEF Dec
  <2>4. \A x \in Dec, y \in Nat : [x EXCEPT !.plen = y] \in Dec
    BY DEF Dec
  <2> DEFINE D1 == [d EXCEPT !.nonce = nonce]
             D2 == [D1 EXCEPT !.base = base]
             D3 == [D2 EXCEPT !.len = len]
  <2>5. D = [D3 EXCEPT !.plen = plen]
    BY <1>3
  <2>6. D1 \in Dec
    BY <2>1, <1>2
  <2> HIDE DEF D1
  <2>7. D2 \in Dec
    BY <2>2, <2>6, <1>2
  <2> HIDE DEF D2
  <2>8. D3 \in Dec
    BY <2>3, <2>7, <1>2
  <2> HIDE DEF D3
  <2> QED BY <2>4, <2>5, <2>8, <1>2
<1> QED BY <1>2, <1>4, <1>5, <1>a

\* A complete chunk is taken out of ctx->chunk.
LEMMA WholeStep ==
  ASSUME AeadInv, NEW c \in Conn, aead_chunk_decrypt_Whole(c)
  PROVE  AeadInv'
<1> DEFINE d == dec[c]
           g == got[c]
           ch == chunks[c]
<1>1. d.pc = "loop" /\ UNCHANGED <<enc, chunks, ppbloom, adds, hist>>
  BY DEF aead_chunk_decrypt_Whole
<1>2. TypeOK /\ ConnInv(c)
  BY DEF AeadInv
<1>3. enc[c] \in Enc /\ ch \in Seq(Chunk) /\ d \in Dec /\ g \in Seq(Nat)
  BY <1>2, ConnTypes
<1>4. PICK i \in LengthAt(c, d.base, d.nonce) :
          /\ d.len >= Overhead + ch[i].plen
          /\ \E j \in PayloadAt(c, d.base, ch[i].plen, d.nonce + 1) :
                /\ dec' = [dec EXCEPT ![c].nonce = @ + 2,
                                      ![c].base = @ + Overhead + ch[i].plen,
                                      ![c].len = @ - (Overhead + ch[i].plen),
                                      ![c].plen = @ + ch[i].plen]
                /\ got' = [got EXCEPT ![c] = Append(@, j)]
  BY DEF aead_chunk_decrypt_Whole
<1>5. PICK j \in PayloadAt(c, d.base, ch[i].plen, d.nonce + 1) :
          /\ dec' = [dec EXCEPT ![c].nonce = @ + 2,
                                ![c].base = @ + Overhead + ch[i].plen,
                                ![c].len = @ - (Overhead + ch[i].plen),
                                ![c].plen = @ + ch[i].plen]
          /\ got' = [got EXCEPT ![c] = Append(@, j)]
  BY <1>4
<1>6. i = Len(g) + 1 /\ i <= Len(ch) /\ c \notin Garbled
  BY <1>1, NextLength
<1>7. i \in 1..Len(ch) /\ ch[i].off = d.base
  BY DEF LengthAt
<1>8. SenderOK(enc[c], ch) /\ ReceiverOK(d, g, enc[c].written, ch, c \in Garbled)
  BY <1>2 DEF ConnInv
<1>9. Len(g) \in Nat /\ Len(ch) \in Nat /\ d.base \in Nat /\ d.len \in Nat /\ d.nonce \in Nat
      /\ d.plen \in Nat /\ d.init \in 0..2 /\ enc[c].written \in Nat
  BY <1>3 DEF Dec, Enc
<1>10. ch[i] \in Chunk /\ ch[i].plen \in Nat /\ ch[i].plen > 0
  <2>1. ch[i] \in Chunk
    BY <1>3, <1>7
  <2>2. ch[i].plen \in 1..CHUNK_SIZE_MASK
    BY <2>1 DEF Chunk
  <2> QED BY <2>1, <2>2, AeadAssumption
<1>11. j = i
  <2>1. j \in 1..Len(ch) /\ ch[j].data_nonce = d.nonce + 1
    BY DEF PayloadAt
  <2>2. ch[j].data_nonce = 2 * (j - 1) + 1 /\ d.nonce = 2 * Len(g)
    BY <2>1, <1>8 DEF SenderOK, ReceiverOK
  <2> QED BY <2>1, <2>2, <1>6, <1>9
<1> DEFINE mlen == ch[i].plen
           D == [d EXCEPT !.nonce = @ + 2, !.base = @ + Overhead + mlen,
                          !.len = @ - (Overhead + mlen), !.plen = @ + mlen]
           G == Append(g, i)
<1>12. dec' = [dec EXCEPT ![c] = D]
  BY <1>5, <1>2 DEF TypeOK
<1>13. got' = [got EXCEPT ![c] = G]
  BY <1>5, <1>11
<1>14. d.len >= Overhead + mlen
  BY <1>4
<1> HIDE DEF d, g, ch
<1>15. /\ D \in Dec
       /\ D.pc = d.pc /\ D.init = d.init /\ D.nonce = d.nonce + 2
       /\ D.base = d.base + Overhead + mlen
       /\ D.base + D.len = d.base + d.len
       /\ D.plen > 0
  BY <1>3, <1>10, <1>14, CutOff
<1> HIDE DEF mlen
<1>17. G \in Seq(Nat) /\ Len(G) = Len(g) + 1 /\ G[Len(g) + 1] = i /\ \A k \in 1..Len(g) : G[k] = g[k]
  BY <1>3, <1>6, <1>9
<1> HIDE DEF D, G
<1>18. ReceiverOK(D, G, enc[c].written, ch, c \in Garbled)
  <2>1. Len(G) <= Len(ch) /\ Len(G) > 0 /\ Len(G) = i
    BY <1>6, <1>9, <1>17
  <2>2. D.nonce = 2 * Len(G)
    BY <1>8, <1>9, <1>15, <1>17 DEF ReceiverOK
  <2>3. \A k \in 1..Len(G) : G[k] = k
    <3>1. \A k \in 1..Len(g) : g[k] = k
      BY <1>8 DEF ReceiverOK
    <3>2. \A k \in 1..Len(g) + 1 : k \in 1..Len(g) \/ k = Len(g) + 1
      BY <1>9
    <3> QED BY <3>1, <3>2, <1>6, <1>17
  <2>4. D.base + D.len <= enc[c].written
    <3>1. d.base + d.len <= enc[c].written
      BY <1>8 DEF ReceiverOK
    <3> QED BY <3>1, <1>15
  <2>5. d.pc = "loop" /\ d.init # 0
    BY <1>1, <1>8 DEF ReceiverOK, d
  <2>6. D.base = Position(ch, Len(G))
    <3>1. ChunkEnd(ch[i]) = d.base + Overhead + mlen
      BY <1>7 DEF ChunkEnd, mlen
    <3> QED BY <3>1, <2>1, <1>15 DEF Position
  <2>7. D.plen > 0
    BY <1>15
  <2> QED BY <2>1, <2>2, <2>3, <2>4, <2>5, <2>6, <2>7, <1>6, <1>8, <1>15 DEF ReceiverOK
<1>19. /\ dec' \in [Conn -> Dec] /\ dec'[c] = D /\ (\A b \in Conn \ {c} : dec'[b] = dec[b])
       /\ got' \in [Conn -> Seq(Nat)] /\ \A b \in Conn : ConnInv(b)'
  BY <1>1, <1>12, <1>13, <1>15, <1>17, <1>18, ReceiverStep DEF ch
<1>20. FilterInv' /\ HistInv' /\ RecentSaltIsRefused'
  <2>1. dec[c].pc # "closed"
    BY <1>1 DEF d
  <2> QED BY <2>1, <1>1, <1>19, FilterUntouched
<1>21. TypeOK'
  BY <1>1, <1>2, <1>19 DEF TypeOK, Dec
<1> QED BY <1>19, <1>20, <1>21 DEF AeadInv

\* A tag fails only for a peer without the key.
LEMMA ErrorStep ==
  ASSUME AeadInv, NEW c \in Conn, aead_chunk_decrypt_Error(c)
  PROVE  AeadInv'
<1> DEFINE d == dec[c]
           ch == chunks[c]
           k == Len(got[c])
<1>1. /\ d.pc = "loop" /\ d.len > Overhead /\ dec' = [dec EXCEPT ![c].pc = "closed"]
      /\ UNCHANGED <<enc, chunks, got, ppbloom, adds, hist>>
  BY DEF aead_chunk_decrypt_Error
<1>2. TypeOK /\ ConnInv(c)
  BY DEF AeadInv
<1>3. enc[c] \in Enc /\ ch \in Seq(Chunk) /\ d \in Dec /\ got[c] \in Seq(Nat)
  BY <1>2, ConnTypes
<1>4. SenderOK(enc[c], ch) /\ ReceiverOK(d, got[c], enc[c].written, ch, c \in Garbled)
  BY <1>2 DEF ConnInv
<1>5. c \in Garbled
  <2> SUFFICES ASSUME c \notin Garbled PROVE FALSE
    OBVIOUS
  <2>1. k \in Nat /\ Len(ch) \in Nat /\ d.base \in Nat /\ d.len \in Nat /\ enc[c].written \in Nat
    BY <1>3 DEF Dec, Enc
  <2>2. /\ k <= Len(ch) /\ Len(ch) > 0 /\ d.base = Position(ch, k) /\ d.nonce = 2 * k
        /\ d.base + d.len <= enc[c].written
    BY <1>1, <1>4 DEF ReceiverOK
  <2>3. k \in 0..Len(ch)
    BY <2>1, <2>2
  <2>4. k # Len(ch)
    <3>1. k = Len(ch) => enc[c].written = d.base
      BY <2>2, <2>3, <1>3, <1>4, Layout
    <3> QED BY <3>1, <2>1, <2>2, <1>1, OverheadNat
  <2>5. k + 1 \in 1..Len(ch) /\ ch[k + 1].off = d.base
    <3>1. ch[k + 1].off = d.base
      BY <2>1, <2>2, <2>3, <2>4, <1>3, <1>4, Layout
    <3> QED BY <3>1, <2>1, <2>2, <2>4
  <2>6. ch[k + 1].len_nonce = d.nonce /\ ch[k + 1].data_nonce = d.nonce + 1
    BY <2>1, <2>2, <2>5, <1>4 DEF SenderOK
  <2>7. k + 1 \in LengthAt(c, d.base, d.nonce)
    BY <2>5, <2>6 DEF LengthAt
  <2>8. k + 1 \in PayloadAt(c, d.base, ch[k + 1].plen, d.nonce + 1)
    BY <2>5, <2>6 DEF PayloadAt
  <2> QED BY <2>7, <2>8 DEF aead_chunk_decrypt_Error
<1> DEFINE D == [d EXCEPT !.pc = "closed"]
<1>6. dec' = [dec EXCEPT ![c] = D] /\ got' = [got EXCEPT ![c] = got[c]]
  BY <1>1, <1>2 DEF TypeOK
<1>7. /\ D \in Dec /\ D.pc = "closed" /\ D.init = d.init /\ D.nonce = d.nonce /\ D.base = d.base
      /\ D.len = d.len
  BY <1>3 DEF Dec
<1> HIDE DEF D
<1>8. ReceiverOK(D, got[c], enc[c].written, ch, c \in Garbled)
  BY <1>1, <1>4, <1>5, <1>7 DEF ReceiverOK
<1>9. /\ dec' \in [Conn -> Dec] /\ dec'[c] = D /\ (\A b \in Conn \ {c} : dec'[b] = dec[b])
      /\ \A b \in Conn : ConnInv(b)'
  BY <1>1, <1>3, <1>6, <1>7, <1>8, ReceiverStep
<1>10. FilterInv' /\ HistInv' /\ RecentSaltIsRefused'
  BY <1>1, <1>7, <1>9, FilterUntouched
<1>11. TypeOK'
  BY <1>1, <1>2, <1>9 DEF TypeOK, Dec
<1> QED BY <1>9, <1>10, <1>11 DEF AeadInv

-----------------------------------------------------------------------------
(* The theorems *)

LEMMA AeadInitially == Init => AeadInv
<1> SUFFICES ASSUME Init PROVE AeadInv
  OBVIOUS
<1>1. 0 \in 0..2 /\ -1 \in Int /\ <<>> \in Seq(Chunk) /\ <<>> \in Seq(Nat) /\ <<>> \in Seq(Salt)
  OBVIOUS
<1>2. ppbloom \in Filter
  BY DEF Init, ppbloom_init, Filter, Half
<1>3. TypeOK
  BY <1>1, <1>2 DEF Init, TypeOK
<1>4. ASSUME NEW c \in Conn PROVE ConnInv(c)
  <2>1. /\ enc[c] = [init |-> FALSE, nonce |-> 0, written |-> 0]
        /\ chunks[c] = <<>> /\ got[c] = <<>>
        /\ dec[c] = [pc |-> "recv", init |-> 0, nonce |-> 0, base |-> 0, len |-> 0, plen |-> 0]
    BY DEF Init
  <2>2. SenderOK(enc[c], chunks[c])
    BY <2>1 DEF SenderOK
  <2>3. ReceiverOK(dec[c], got[c], enc[c].written, chunks[c], c \in Garbled)
    BY <2>1 DEF ReceiverOK
  <2> QED BY <2>2, <2>3 DEF ConnInv
<1>5. FilterInv
  BY EntriesNat DEF Init, FilterInv, Remembers, ppbloom_init, Half, Other
<1>6. HistInv
  BY DEF Init, HistInv
<1>7. RecentSaltIsRefused
  BY DEF Init, RecentSaltIsRefused
<1> QED BY <1>3, <1>4, <1>5, <1>6, <1>7 DEF AeadInv

LEMMA AeadStutter == AeadInv /\ UNCHANGED vars => AeadInv'
<1> SUFFICES ASSUME AeadInv, UNCHANGED vars PROVE AeadInv'
  OBVIOUS
<1>1. TypeOK'
  BY DEF AeadInv, TypeOK, vars
<1>2. \A c \in Conn : ConnInv(c)'
  BY DEF AeadInv, ConnInv, vars
<1>3. FilterInv' /\ HistInv' /\ RecentSaltIsRefused'
  BY FilterUntouched DEF vars
<1> QED BY <1>1, <1>2, <1>3 DEF AeadInv

\* The inductive invariant: the receiver always stands at the first chunk it has
\* not handed over, with that chunk's nonce; and the halves of the filter hold
\* the latest salts.
THEOREM AeadInvariant == Spec => []AeadInv
<1>1. AeadInv /\ [Next]_vars => AeadInv'
  <2> SUFFICES ASSUME AeadInv, [Next]_vars PROVE AeadInv'
    OBVIOUS
  <2>1. ASSUME NEW c \in Conn, NEW plen \in 1..CHUNK_SIZE_MASK, aead_encrypt(c, plen)
        PROVE  AeadInv'
    BY <2>1, EncryptStep
  <2>2. ASSUME NEW c \in Conn, NEW n \in 1..BUF_SIZE, aead_decrypt(c, n) PROVE AeadInv'
    BY <2>2, DecryptStep
  <2>3. ASSUME NEW c \in Conn, aead_chunk_decrypt_Short(c) PROVE AeadInv'
    BY <2>3, ShortStep
  <2>4. ASSUME NEW c \in Conn, aead_chunk_decrypt_Partial(c) PROVE AeadInv'
    BY <2>4, PartialStep
  <2>5. ASSUME NEW c \in Conn, aead_chunk_decrypt_Whole(c) PROVE AeadInv'
    BY <2>5, WholeStep
  <2>6. ASSUME NEW c \in Conn, aead_chunk_decrypt_Error(c) PROVE AeadInv'
    BY <2>6, ErrorStep
  <2>7. ASSUME NEW c \in Conn, aead_decrypt_Done(c) PROVE AeadInv'
    BY <2>7, DoneStep
  <2>8. CASE UNCHANGED vars
    BY <2>8, AeadStutter
  <2> QED BY <2>1, <2>2, <2>3, <2>4, <2>5, <2>6, <2>7, <2>8 DEF Next
<1> QED BY <1>1, AeadInitially, PTL DEF Spec

\* Type correctness of the sender, the receiver and the filter.
THEOREM AeadTypes == Spec => []TypeOK
<1>1. AeadInv => TypeOK
  BY DEF AeadInv
<1> QED BY <1>1, AeadInvariant, PTL

\* No tag fails on the stream of a peer with the key (aead.c:546, 565), for
\* every way recv may cut the stream.
THEOREM ChunksNeverFail == Spec => []NoChunkFails
<1>1. AeadInv => NoChunkFails
  BY DEF AeadInv, ConnInv, ReceiverOK, NoChunkFails
<1> QED BY <1>1, AeadInvariant, PTL

\* The receiver hands over exactly the chunks that have arrived in full, in order
\* (aead.c:542, 560, 627-644).
THEOREM HandsOverExactly == Spec => []HandsOverWhatArrived
<1>1. AeadInv => HandsOverWhatArrived
  <2> SUFFICES ASSUME AeadInv, NEW c \in Conn \ Garbled, dec[c].pc = "recv", dec[c].init # 0
               PROVE  /\ \A i \in 1..Len(got[c]) : got[c][i] = i
                      /\ \A i \in 1..Len(chunks[c]) :
                            i <= Len(got[c]) <=>
                            chunks[c][i].off + Overhead + chunks[c][i].plen <= dec[c].base + dec[c].len
    BY DEF HandsOverWhatArrived
  <2> DEFINE ch == chunks[c]
             k == Len(got[c])
  <2>1. TypeOK /\ ConnInv(c)
    BY DEF AeadInv
  <2>2. enc[c] \in Enc /\ ch \in Seq(Chunk) /\ dec[c] \in Dec /\ got[c] \in Seq(Nat)
    BY <2>1, ConnTypes
  <2>3. k \in Nat /\ Len(ch) \in Nat /\ dec[c].base \in Nat /\ dec[c].len \in Nat
    BY <2>2 DEF Dec
  <2>4. /\ SenderOK(enc[c], ch) /\ dec[c].base = Position(ch, k) /\ Len(ch) > 0 /\ k <= Len(ch)
        /\ k < Len(ch) => dec[c].base + dec[c].len < ChunkEnd(ch[k + 1])
        /\ \A i \in 1..k : got[c][i] = i
    BY <2>1 DEF ConnInv, ReceiverOK
  <2>5. k \in 0..Len(ch)
    BY <2>3, <2>4
  <2>6. /\ \A i \in 1..Len(ch) : i <= k => ChunkEnd(ch[i]) <= dec[c].base
        /\ \A i \in 1..Len(ch) : i > k => ChunkEnd(ch[k + 1]) <= ChunkEnd(ch[i])
    BY <2>2, <2>4, <2>5, Layout
  <2>7. \A i \in 1..Len(ch) : ChunkEnd(ch[i]) \in Nat
    <3>1. \A i \in 1..Len(ch) : ch[i] \in Chunk
      BY <2>2
    <3> QED BY <3>1, ChunkEndNat
  <2>8. ASSUME NEW i \in 1..Len(ch)
        PROVE  i <= k <=> ChunkEnd(ch[i]) <= dec[c].base + dec[c].len
    <3>1. CASE i <= k
      BY <3>1, <2>3, <2>6, <2>7
    <3>2. CASE i > k
      <4>1. k + 1 \in 1..Len(ch) /\ k < Len(ch)
        BY <3>2, <2>3
      <4>2. dec[c].base + dec[c].len < ChunkEnd(ch[k + 1]) /\ ChunkEnd(ch[k + 1]) <= ChunkEnd(ch[i])
        BY <3>2, <4>1, <2>4, <2>6
      <4>3. ChunkEnd(ch[k + 1]) \in Nat /\ ChunkEnd(ch[i]) \in Nat
        BY <4>1, <2>7
      <4>4. ~(i <= k)
        BY <3>2, <2>3
      <4> HIDE DEF ch, k
      <4>5. ~(ChunkEnd(ch[i]) <= dec[c].base + dec[c].len)
        BY <4>2, <4>3, <2>3
      <4> QED BY <4>4, <4>5
    <3> QED BY <3>1, <3>2, <2>3
  <2> QED BY <2>4, <2>8 DEF ChunkEnd
<1> QED BY <1>1, AeadInvariant, PTL

\* Under one key no nonce is used for two blocks (aead.c:469, 479).
THEOREM NoncesAreUsedOnce == Spec => []NonceUsedOnce
<1>1. AeadInv => NonceUsedOnce
  <2> SUFFICES ASSUME AeadInv, NEW c \in Conn,
                      NEW i \in 1..Len(chunks[c]), NEW j \in 1..Len(chunks[c])
               PROVE  /\ chunks[c][i].len_nonce # chunks[c][j].data_nonce
                      /\ i # j => chunks[c][i].len_nonce # chunks[c][j].len_nonce
                      /\ i # j => chunks[c][i].data_nonce # chunks[c][j].data_nonce
    BY DEF NonceUsedOnce
  <2>1. SenderOK(enc[c], chunks[c])
    BY DEF AeadInv, ConnInv
  <2>2. /\ chunks[c][i].len_nonce = 2 * (i - 1) /\ chunks[c][i].data_nonce = 2 * (i - 1) + 1
        /\ chunks[c][j].len_nonce = 2 * (j - 1) /\ chunks[c][j].data_nonce = 2 * (j - 1) + 1
    BY <2>1 DEF SenderOK
  <2>3. i \in Int /\ j \in Int
    OBVIOUS
  <2> QED BY <2>2, <2>3
<1> QED BY <1>1, AeadInvariant, PTL

\* Only the salt of a peer that has proved to have the key is remembered
\* (aead.c:636-641, 652-655).
THEOREM SaltsAreProven == Spec => []OnlyProvenSaltsAreAdded
<1>1. AeadInv => OnlyProvenSaltsAreAdded
  <2> SUFFICES ASSUME AeadInv, NEW c \in Conn, dec[c].init = 2
               PROVE  got[c] # <<>> /\ c \notin Garbled
    BY DEF OnlyProvenSaltsAreAdded
  <2>1. ConnInv(c)
    BY DEF AeadInv
  <2>2. Len(got[c]) > 0 /\ (c \in Garbled => Len(got[c]) = 0)
    BY <2>1 DEF ConnInv, ReceiverOK
  <2> QED BY <2>2
<1> QED BY <1>1, AeadInvariant, PTL

\* A salt that comes again before half of FILTER_ENTRIES others is refused
\* (ppbloom.c:62-96, aead.c:614-617).
THEOREM RepeatedSaltsAreRefused == Spec => []RecentSaltIsRefused
<1>1. AeadInv => RecentSaltIsRefused
  BY DEF AeadInv
<1> QED BY <1>1, AeadInvariant, PTL

-----------------------------------------------------------------------------
(* Datagrams *)

\* Both use the same filter.
LEMMA SameFilter ==
  /\ Datagrams!Filter = Filter /\ Datagrams!Half = Half
  /\ Datagrams!entries = entries /\ Datagrams!ppbloom_init = ppbloom_init
  /\ \A f \in Filter, s \in Salt : Datagrams!ppbloom_add(f, s) = ppbloom_add(f, s)
<1>1. Datagrams!Half = Half
  BY DEF Datagrams!Half, Half
<1>2. Datagrams!Filter = Filter
  BY <1>1 DEF Datagrams!Filter, Filter
<1>3. Datagrams!entries = entries
  BY DEF Datagrams!entries, entries
<1>4. Datagrams!ppbloom_init = ppbloom_init
  BY <1>1 DEF Datagrams!ppbloom_init, ppbloom_init
<1>5. ASSUME NEW f \in Filter, NEW s \in Salt
      PROVE  Datagrams!ppbloom_add(f, s) = ppbloom_add(f, s)
  <2>1. Datagrams!Other(f.current) = Other(f.current)
    BY DEF Datagrams!Other, Other
  <2>2. QED
    BY <1>3, <2>1 DEF Datagrams!ppbloom_add, ppbloom_add
<1>6. QED
  BY <1>1, <1>2, <1>3, <1>4, <1>5

\* The filter has nothing but what was added to it.
LEMMA AddsOnlyIt ==
  ASSUME NEW f \in Filter, NEW s \in Salt, NEW g, g = ppbloom_add(f, s), NEW h \in Half
  PROVE  g.bloom[h] \subseteq f.bloom[h] \cup {s}
<1> DEFINE k == f.current
           A == [f.bloom EXCEPT ![k] = @ \cup {s}]
<1>1. k \in Half /\ Other(k) \in Half /\ f.bloom \in [Half -> SUBSET Salt]
  BY OtherHalf DEF Filter
<1>2. A \in [Half -> SUBSET Salt] /\ A[h] \subseteq f.bloom[h] \cup {s}
  BY <1>1
<1>3. g.bloom = A \/ g.bloom = [A EXCEPT ![Other(k)] = {}]
  BY DEF ppbloom_add, Filter
<1> HIDE DEF A, k
<1>4. QED
  BY <1>1, <1>2, <1>3

Accepted == [salt : Salt, state : {"whole", "damaged"}]

SaltsOf(q) == [i \in 1..Len(q) |-> q[i].salt]

LEMMA SaltsOfParts ==
  ASSUME NEW q \in Seq(Accepted), NEW d \in Accepted, NEW r, r = Append(q, d)
  PROVE  SaltsOf(q) \in Seq(Salt) /\ Len(SaltsOf(q)) = Len(q)
         /\ SaltsOf(r) = Append(SaltsOf(q), d.salt)
<1>1. PICK n \in Nat : n = Len(q) /\ \A i \in 1..n : q[i] \in Accepted
  OBVIOUS
<1>2. \A i \in 1..n : q[i].salt \in Salt
  BY <1>1 DEF Accepted
<1>3. PICK x : x = SaltsOf(q) /\ x = [i \in 1..n |-> q[i].salt]
  BY <1>1 DEF SaltsOf
<1>4. x \in Seq(Salt) /\ Len(x) = n
  BY <1>2, <1>3
<1>5. Len(r) = n + 1 /\ r[n + 1] = d /\ \A i \in 1..n : r[i] = q[i]
  BY <1>1
<1>6. PICK y : y = SaltsOf(r) /\ y = [i \in 1..(n + 1) |-> r[i].salt]
  BY <1>5 DEF SaltsOf
<1>7. d.salt \in Salt
  BY DEF Accepted
<1>8. PICK z : z = Append(x, d.salt)
  OBVIOUS
<1>9. /\ z \in Seq(Salt) /\ Len(z) = n + 1 /\ z[n + 1] = d.salt
      /\ \A i \in 1..n : z[i] = x[i]
  BY <1>4, <1>7, <1>8
<1>10. \A i \in 1..(n + 1) : y[i] = z[i]
  <2>1. ASSUME NEW i \in 1..(n + 1) PROVE y[i] = z[i]
    <3>1. CASE i \in 1..n
      BY <1>3, <1>5, <1>6, <1>9, <3>1
    <3>2. CASE i = n + 1
      BY <1>5, <1>6, <1>9, <3>2
    <3>3. QED
      BY <3>1, <3>2
  <2>2. QED
    BY <2>1
<1>11. z = [i \in 1..(n + 1) |-> z[i]]
  BY <1>9
<1>12. y = z
  BY <1>6, <1>10, <1>11
<1>13. QED
  BY <1>1, <1>3, <1>4, <1>6, <1>8, <1>12

\* The latest salts accepted are in the filter, and under an AEAD cipher nothing else is.
DatagramInv ==
  /\ Datagrams!TypeOK
  /\ Remembers(filter, SaltsOf(delivered))
  /\ Datagrams!RepeatsNeedAFullHalf
  /\ Datagrams!DamageIsNotRemembered

LEMMA DatagramInitially == Datagrams!Init => DatagramInv
<1> SUFFICES ASSUME Datagrams!Init PROVE DatagramInv
  OBVIOUS
<1>1. cipher \in Cipher /\ net = {} /\ delivered = <<>> /\ filter = ppbloom_init
  BY SameFilter DEF Datagrams!Init
<1>2. filter \in Filter /\ \A h \in Half : filter.bloom[h] = {}
  BY <1>1 DEF ppbloom_init, Filter, Half
<1>3. Datagrams!TypeOK
  BY <1>1, <1>2, SameFilter DEF Datagrams!TypeOK
<1>4. Len(SaltsOf(delivered)) = 0
  BY <1>1 DEF SaltsOf
<1>5. Remembers(filter, SaltsOf(delivered))
  BY <1>1, <1>4, EntriesNat DEF Remembers, ppbloom_init, Half, Other
<1>6. Datagrams!RepeatsNeedAFullHalf
  BY <1>1 DEF Datagrams!RepeatsNeedAFullHalf
<1>7. Datagrams!DamageIsNotRemembered
  BY <1>1, <1>2, <1>3, SameFilter DEF Datagrams!DamageIsNotRemembered
<1>8. QED
  BY <1>3, <1>5, <1>6, <1>7 DEF DatagramInv

\* A salt that the filter does not find was accepted long ago, or never.
LEMMA UnfoundIsOld ==
  ASSUME NEW f \in Filter, NEW q \in Seq(Salt), Remembers(f, q), NEW i \in 1..Len(q),
         q[i] \notin f.bloom["PING"] \cup f.bloom["PONG"]
  PROVE  (Len(q) + 1) - i > entries
<1>1. PICK n \in Nat, m \in Nat : n = f.bloom_count[f.current] /\ m = Len(q)
  BY DEF Filter
<1>2. f.current \in Half /\ Other(f.current) \in Half /\ entries \in Nat
  BY OtherHalf, EntriesNat DEF Filter
<1>3. q[i] \notin f.bloom[f.current] /\ q[i] \notin f.bloom[Other(f.current)]
  BY <1>2 DEF Half
<1>4. /\ i \in 1..m /\ n <= m
      /\ m - n < i => q[i] \in f.bloom[f.current]
      /\ (m - n - entries < i /\ i <= m - n) => q[i] \in f.bloom[Other(f.current)]
  BY <1>1 DEF Remembers
<1>5. ~(m - n < i) /\ ~(m - n - entries < i /\ i <= m - n)
  BY <1>3, <1>4
<1>6. QED
  BY <1>1, <1>2, <1>4, <1>5

LEMMA AcceptKeeps ==
  ASSUME DatagramInv, NEW d \in Datagrams!Datagram, Datagrams!Accept(d), d.state # "short",
         d.salt \notin filter.bloom["PING"] \cup filter.bloom["PONG"],
         cipher = "aead" => d.state = "whole", d.state = "whole" => d.salt \in net,
         cipher' = cipher, net' = net
  PROVE  DatagramInv'
<1>0. /\ cipher \in Cipher /\ net \subseteq Salt /\ filter \in Filter /\ delivered \in Seq(Accepted)
      /\ Remembers(filter, SaltsOf(delivered))
      /\ Datagrams!RepeatsNeedAFullHalf /\ Datagrams!DamageIsNotRemembered
  BY SameFilter DEF DatagramInv, Datagrams!TypeOK, Accepted
<1>1. d \in Accepted /\ d.salt \in Salt
  BY DEF Datagrams!Datagram, Accepted
<1>2. PICK s \in Salt : s = d.salt
  BY <1>1
<1>3. filter' = ppbloom_add(filter, s) /\ delivered' = Append(delivered, d)
  BY <1>0, <1>2, SameFilter DEF Datagrams!Accept
<1>4. PICK q \in Seq(Salt) : q = SaltsOf(delivered) /\ Len(q) = Len(delivered)
                             /\ SaltsOf(delivered') = Append(q, s)
  BY <1>0, <1>1, <1>2, <1>3, SaltsOfParts
<1>5. filter' \in Filter /\ Remembers(filter', SaltsOf(delivered'))
  <2>1. PICK r : r = Append(q, s)
    OBVIOUS
  <2>2. PICK g : g = ppbloom_add(filter, s)
    OBVIOUS
  <2>3. g \in Filter /\ Remembers(g, r)
    BY <1>0, <1>4, <2>1, <2>2, RememberStep
  <2>4. QED
    BY <1>3, <1>4, <2>1, <2>2, <2>3
<1>6. PICK m \in Nat : m = Len(delivered)
  BY <1>0
<1>7. /\ Len(delivered') = m + 1 /\ delivered'[m + 1] = d
      /\ \A i \in 1..m : delivered'[i] = delivered[i]
      /\ delivered' \in Seq(Accepted)
  BY <1>0, <1>1, <1>3, <1>6
<1>8. Datagrams!TypeOK'
  BY <1>0, <1>5, <1>7, SameFilter DEF Datagrams!TypeOK, Accepted
<1>9. Datagrams!RepeatsNeedAFullHalf'
  <2>1. ASSUME NEW i \in 1..(m + 1), NEW j \in 1..(m + 1), i < j,
               delivered'[i].salt = delivered'[j].salt
        PROVE  j - i > entries
    <3>1. CASE j = m + 1
      <4>1. i \in 1..m
        BY <2>1, <3>1
      <4>2. q[i] = s
        BY <1>2, <1>4, <1>6, <1>7, <2>1, <3>1, <4>1 DEF SaltsOf
      <4>3. (m + 1) - i > entries
        BY <1>0, <1>2, <1>4, <1>6, <4>1, <4>2, UnfoundIsOld
      <4>4. QED
        BY <3>1, <4>3
    <3>2. CASE j # m + 1
      <4>1. i \in 1..m /\ j \in 1..m
        BY <2>1, <3>2
      <4>2. delivered[i].salt = delivered[j].salt
        BY <1>7, <2>1, <4>1
      <4>3. QED
        BY <1>0, <1>6, <2>1, <4>1, <4>2, SameFilter DEF Datagrams!RepeatsNeedAFullHalf
    <3>3. QED
      BY <3>1, <3>2
  <2>2. QED
    BY <1>7, <2>1, SameFilter DEF Datagrams!RepeatsNeedAFullHalf
<1>10. Datagrams!DamageIsNotRemembered'
  <2>1. ASSUME cipher = "aead" PROVE \A i \in 1..(m + 1) : delivered'[i].state = "whole"
    <3>1. \A i \in 1..m : delivered[i].state = "whole"
      BY <1>0, <1>6, <2>1 DEF Datagrams!DamageIsNotRemembered
    <3>2. ASSUME NEW i \in 1..(m + 1) PROVE delivered'[i].state = "whole"
      <4>1. CASE i \in 1..m
        BY <1>7, <3>1, <4>1
      <4>2. CASE i = m + 1
        BY <1>7, <2>1, <4>2
      <4>3. QED
        BY <4>1, <4>2
    <3>3. QED
      BY <3>2
  <2>2. ASSUME cipher = "aead", NEW h \in Half, NEW x \in filter'.bloom[h]
        PROVE  x \in {delivered'[i].salt : i \in 1..(m + 1)} \cap net
    <3>1. x \in filter.bloom[h] \cup {s}
      BY <1>0, <1>3, <2>2, AddsOnlyIt
    <3>2. CASE x = s
      BY <1>2, <1>7, <2>2, <3>2
    <3>3. CASE x \in filter.bloom[h]
      <4>1. x \in {delivered[i].salt : i \in 1..m} \cap net
        BY <1>0, <1>6, <2>2, <3>3, SameFilter DEF Datagrams!DamageIsNotRemembered
      <4>2. PICK i \in 1..m : x = delivered[i].salt
        BY <4>1
      <4>3. i \in 1..(m + 1) /\ x = delivered'[i].salt
        BY <1>7, <4>2
      <4>4. QED
        BY <4>1, <4>3
    <3>4. QED
      BY <3>1, <3>2, <3>3
  <2>3. QED
    BY <1>7, <1>8, <2>1, <2>2, SameFilter DEF Datagrams!DamageIsNotRemembered
<1>11. QED
  BY <1>5, <1>8, <1>9, <1>10 DEF DatagramInv

LEMMA NothingAccepted ==
  ASSUME DatagramInv, net \subseteq net', net' \subseteq Salt,
         UNCHANGED <<cipher, filter, delivered>>
  PROVE  DatagramInv'
<1>1. Datagrams!TypeOK' /\ Remembers(filter', SaltsOf(delivered'))
  BY DEF DatagramInv, Datagrams!TypeOK
<1>2. Datagrams!RepeatsNeedAFullHalf'
  BY DEF DatagramInv, Datagrams!RepeatsNeedAFullHalf
<1>3. Datagrams!DamageIsNotRemembered'
  BY <1>1 DEF DatagramInv, Datagrams!DamageIsNotRemembered
<1>4. QED
  BY <1>1, <1>2, <1>3 DEF DatagramInv

LEMMA DatagramStep == DatagramInv /\ [Datagrams!Next]_Datagrams!vars => DatagramInv'
<1> SUFFICES ASSUME DatagramInv, [Datagrams!Next]_Datagrams!vars PROVE DatagramInv'
  OBVIOUS
<1>0. net \subseteq Salt
  BY DEF DatagramInv, Datagrams!TypeOK
<1>1. CASE Datagrams!encrypt_all
  <2>1. net \subseteq net' /\ net' \subseteq Salt
    BY <1>0, <1>1 DEF Datagrams!encrypt_all, Datagrams!rand_bytes
  <2>2. QED
    BY <1>1, <2>1, NothingAccepted DEF Datagrams!encrypt_all
<1>2. ASSUME NEW d \in Datagrams!Datagram, d.state = "whole" => d.salt \in net, Datagrams!decrypt_all(d)
      PROVE  DatagramInv'
  <2>1. cipher' = cipher /\ net' = net
    BY <1>2 DEF Datagrams!decrypt_all
  <2>2. CASE Datagrams!Refuse
    BY <1>0, <2>1, <2>2, NothingAccepted DEF Datagrams!Refuse
  <2>3. CASE ~Datagrams!Refuse
    <3>1. Datagrams!Accept(d) /\ d.state # "short" /\ (cipher = "aead" => d.state = "whole")
          /\ FALSE \in Datagrams!ppbloom_check(filter, d.salt)
      <4>1. CASE cipher = "aead" /\ Datagrams!aead_decrypt_all(d)
        BY <2>3, <4>1 DEF Datagrams!aead_decrypt_all, Datagrams!aead_cipher_decrypt,
            Datagrams!ppbloom_check, Datagrams!bloom_check
      <4>2. CASE cipher = "stream" /\ Datagrams!stream_decrypt_all(d)
        BY <2>3, <4>2 DEF Datagrams!stream_decrypt_all, Datagrams!ppbloom_check, Datagrams!bloom_check
      <4>3. QED
        BY <1>2, <4>1, <4>2 DEF Datagrams!decrypt_all
    <3>2. d.salt \notin filter.bloom["PING"] \cup filter.bloom["PONG"]
      BY <3>1 DEF Datagrams!ppbloom_check, Datagrams!bloom_check
    <3>3. QED
      BY <1>2, <2>1, <3>1, <3>2, AcceptKeeps
  <2>4. QED
    BY <2>2, <2>3
<1>3. CASE UNCHANGED Datagrams!vars
  BY <1>0, <1>3, NothingAccepted DEF Datagrams!vars
<1>4. QED
  BY <1>1, <1>2, <1>3 DEF Datagrams!Next

\* The invariant of the datagrams, in whatever order they arrive and however often.
THEOREM DatagramInvariant == Datagrams!Spec => []DatagramInv
<1>1. Datagrams!Init => DatagramInv
  BY DatagramInitially
<1>2. DatagramInv /\ [Datagrams!Next]_Datagrams!vars => DatagramInv'
  BY DatagramStep
<1>3. QED
  BY <1>1, <1>2, PTL DEF Datagrams!Spec

\* For any size of the filter, a datagram's salt is accepted again only after as many
\* others as one half of the filter takes (ppbloom.c:86-93).
THEOREM RepeatsAreRefused == Datagrams!Spec => []RepeatsNeedAFullHalf
<1>1. DatagramInv => RepeatsNeedAFullHalf
  BY DEF DatagramInv, RepeatsNeedAFullHalf
<1>2. QED
  BY <1>1, DatagramInvariant, PTL

\* A damaged datagram is never accepted under an AEAD cipher, and never keeps another one
\* out: its salt is not remembered (aead.c:437).
THEOREM DamageIsForgotten == Datagrams!Spec => []DamageIsNotRemembered
<1>1. DatagramInv => DamageIsNotRemembered
  BY DEF DatagramInv, DamageIsNotRemembered
<1>2. QED
  BY <1>1, DatagramInvariant, PTL
=============================================================================
