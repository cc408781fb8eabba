---------------------------- MODULE AeadStreamInv ----------------------------
(***************************************************************************)
(* The inductive invariant of AeadStream, and beside it the datagrams of   *)
(* AeadDatagram, whose filter is the same.                                 *)
(***************************************************************************)
EXTENDS AeadStream

ChunkEnd(k) == k.off + Overhead + k.plen

\* The stream so far: chunk after chunk, two nonces each.
SenderOK(e, ch) ==
    LET n == Len(ch)
    IN  /\ e.nonce = 2 * n
        /\ e.init <=> n > 0
        /\ n = 0 => e.written = 0
        /\ n > 0 => (e.written = ChunkEnd(ch[n]) /\ ch[1].off = SALT_LEN)
        /\ \A i \in 1..n :
            /\ ch[i].off >= SALT_LEN
            /\ ch[i].len_nonce = 2 * (i - 1)
            /\ ch[i].data_nonce = 2 * (i - 1) + 1
        /\ \A i, j \in 1..n : i < j => ChunkEnd(ch[i]) <= ch[j].off
        /\ \A i \in 1..n : i + 1 <= n => ch[i + 1].off = ChunkEnd(ch[i])

\* Where the receiver has got to when it has decrypted k chunks.
Position(ch, k) == IF k = 0 THEN SALT_LEN ELSE ChunkEnd(ch[k])

\* The receiver stands at the beginning of the chunk after those it has handed
\* over, and that chunk is incomplete when it goes back to recv.
ReceiverOK(d, g, written, ch, garbled) ==
    LET k == Len(g)
    IN  /\ k <= Len(ch)
        /\ d.nonce = 2 * k
        /\ \A i \in 1..k : g[i] = i
        /\ d.base + d.len <= written
        /\ d.init = 0 => (d.base = 0 /\ k = 0 /\ d.pc # "loop")
        /\ d.init # 0 => (Len(ch) > 0 /\ d.base = Position(ch, k))
        /\ d.init = 2 => k > 0
        /\ garbled => k = 0
        /\ d.pc = "loop" => ((d.len = 0 => d.plen > 0) /\ (d.plen > 0 => k > 0))
        /\ (d.pc = "recv" /\ d.init # 0 /\ ~garbled /\ k < Len(ch)) =>
                d.base + d.len < ChunkEnd(ch[k + 1])
        /\ (d.pc = "closed" /\ ~garbled) => d.init = 0

ConnInv(c) ==
    /\ SenderOK(enc[c], chunks[c])
    /\ ReceiverOK(dec[c], got[c], enc[c].written, chunks[c], c \in Garbled)

\* A filter f to which the salts q were added, in this order: the half being filled has
\* the latest bloom_count of them, the other half the `entries` before those.
Remembers(f, q) ==
    LET cur == f.current
        n   == f.bloom_count[cur]
        m   == Len(q)
    IN  /\ n <= m
        /\ n = 0 \/ n < entries
        /\ f.bloom_count[Other(cur)] = 0
        /\ \A i \in 1..m : m - n < i => q[i] \in f.bloom[cur]
        /\ \A i \in 1..m : (m - n - entries < i /\ i <= m - n) =>
                q[i] \in f.bloom[Other(cur)]

FilterInv == Remembers(ppbloom, adds)

HistInv ==
    \A c \in Conn :
        /\ hist[c].checked <= Len(adds)
        /\ hist[c].added # -1 =>
            (hist[c].added \in 1..Len(adds) /\ adds[hist[c].added] = SaltOf[c])

AeadInv ==
    /\ TypeOK
    /\ \A c \in Conn : ConnInv(c)
    /\ FilterInv
    /\ HistInv
    /\ RecentSaltIsRefused

-----------------------------------------------------------------------------
(* Datagrams *)

CONSTANTS Cipher, MaxDelivered

VARIABLES cipher, net, filter, delivered

Datagrams == INSTANCE AeadDatagram

\* A salt is accepted again only after as many others as a half of the filter
\* takes, in whatever order copies of datagrams arrive (ppbloom.c:86-93).
RepeatsNeedAFullHalf == Datagrams!RepeatsNeedAFullHalf

\* A damaged datagram is not accepted under an AEAD cipher, and its salt is not
\* remembered (aead.c:437 comes after the tag has been verified).
DamageIsNotRemembered == Datagrams!DamageIsNotRemembered
==============================================================================
