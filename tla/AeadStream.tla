----------------------------- MODULE AeadStream -----------------------------
(***************************************************************************)
(* The AEAD framing of a TCP stream (aead.c): the sender puts a salt       *)
(* first, then one chunk per aead_encrypt: an encrypted length with its    *)
(* tag and an encrypted payload with its tag.  The receiver gets the bytes *)
(* in whatever pieces recv returns, collects them in ctx->chunk, and takes *)
(* every complete chunk out of it.  All connections share the filter of    *)
(* past salts.                                                             *)
(*                                                                         *)
(* TCP neither loses nor changes bytes, so the stream is its chunks, with  *)
(* the offset at which each begins; a block decrypts when key, offset,     *)
(* length and nonce are those it was encrypted with.                       *)
(***************************************************************************)
EXTENDS SaltFilter

CONSTANTS
    Conn,             \* connections
    SaltOf,           \* the salt of each, from rand_bytes
    Garbled,          \* connections whose peer does not have the key
    SALT_LEN,         \* cipher->key_len
    TAG_LEN,          \* cipher->tag_len
    CHUNK_SIZE_LEN,   \* aead.c:55
    CHUNK_SIZE_MASK,  \* aead.c:56, the longest payload
    BUF_SIZE,         \* server.c:70, the most one recv returns
    MaxChunks         \* bound: chunks of each connection

ASSUME AeadAssumption ==
    /\ SaltOf \in [Conn -> Salt]
    /\ Garbled \subseteq Conn
    /\ SALT_LEN \in Nat \ {0}
    /\ TAG_LEN \in Nat \ {0}
    /\ CHUNK_SIZE_LEN \in Nat \ {0}
    /\ CHUNK_SIZE_MASK \in Nat \ {0}
    /\ BUF_SIZE \in Nat \ {0}
    /\ MaxChunks \in [Conn -> Nat]

VARIABLES
    enc,      \* the sender's cipher_ctx, and how many bytes it has written
    chunks,   \* the chunks it has written
    dec,      \* the receiver's cipher_ctx, and what aead_decrypt is doing
    got,      \* the chunks the receiver has decrypted, in order
    ppbloom,  \* ppbloom.c
    adds,     \* history: the salts added to it
    hist      \* history: Len(adds) when a salt was checked, and when added

vars == <<enc, chunks, dec, got, ppbloom, adds, hist>>

Chunk == [off : Nat, plen : 1..CHUNK_SIZE_MASK, len_nonce : Nat, data_nonce : Nat]

TypeOK ==
    /\ enc \in [Conn -> [init : BOOLEAN, nonce : Nat, written : Nat]]
    /\ chunks \in [Conn -> Seq(Chunk)]
    /\ dec \in [Conn -> [pc : {"recv", "loop", "closed"}, init : 0..2, nonce : Nat,
                         base : Nat, len : Nat, plen : Nat]]
    /\ got \in [Conn -> Seq(Nat)]
    /\ ppbloom \in Filter
    /\ adds \in Seq(Salt)
    /\ hist \in [Conn -> [checked : Int, added : Int]]

Init ==
    /\ enc = [c \in Conn |-> [init |-> FALSE, nonce |-> 0, written |-> 0]]
    /\ chunks = [c \in Conn |-> <<>>]
    /\ dec = [c \in Conn |-> [pc |-> "recv", init |-> 0, nonce |-> 0, base |-> 0,
                              len |-> 0, plen |-> 0]]
    /\ got = [c \in Conn |-> <<>>]
    /\ ppbloom = ppbloom_init
    /\ adds = <<>>
    /\ hist = [c \in Conn |-> [checked |-> -1, added |-> -1]]

Overhead == 2 * TAG_LEN + CHUNK_SIZE_LEN

-----------------------------------------------------------------------------
(* The sender *)

\* Mutant: the payload reuses the nonce of its length.
aead_chunk_encrypt_OneIncrement(off, n, plen) ==
    [off |-> off, plen |-> plen, len_nonce |-> n, data_nonce |-> n]

aead_chunk_encrypt(off, n, plen) ==
    [off |-> off, plen |-> plen, len_nonce |-> n, data_nonce |-> n + 1]

aead_encrypt(c, plen) ==
    LET start == IF enc[c].init THEN enc[c].written ELSE SALT_LEN
        chunk == aead_chunk_encrypt(start, enc[c].nonce, plen)
    IN  /\ Len(chunks[c]) < MaxChunks[c]
        /\ chunks' = [chunks EXCEPT ![c] = Append(@, chunk)]
        /\ enc' = [enc EXCEPT ![c] = [init    |-> TRUE,
                                      nonce   |-> chunk.data_nonce + 1,
                                      written |-> start + Overhead + plen]]
        /\ UNCHANGED <<dec, got, ppbloom, adds, hist>>

-----------------------------------------------------------------------------
(* The receiver *)

\* The salt is complete but nothing follows it yet.
NeedSalt(len) == len <= SALT_LEN

\* aead_decrypt up to its loop: the n bytes that recv returned are appended to
\* ctx->chunk, and a complete salt is looked up and cut off.
aead_decrypt(c, n) ==
    LET d   == dec[c]
        len == d.len + n
    IN  /\ d.pc = "recv"
        /\ n <= BUF_SIZE
        /\ d.base + len <= enc[c].written
        /\ \/ /\ d.init # 0
              /\ dec' = [dec EXCEPT ![c].pc = "loop", ![c].len = len, ![c].plen = 0]
              /\ UNCHANGED hist
           \/ /\ d.init = 0
              /\ NeedSalt(len)
              /\ dec' = [dec EXCEPT ![c].len = len]
              /\ UNCHANGED hist
           \/ /\ d.init = 0
              /\ ~NeedSalt(len)
              /\ \E found \in ppbloom_check(ppbloom, SaltOf[c]) :
                    dec' = [dec EXCEPT ![c] =
                        IF found THEN [d EXCEPT !.pc = "closed", !.len = len]
                        ELSE [pc |-> "loop", init |-> 1, nonce |-> d.nonce,
                              base |-> SALT_LEN, len |-> len - SALT_LEN, plen |-> 0]]
              /\ hist' = [hist EXCEPT ![c].checked = Len(adds)]
        /\ UNCHANGED <<enc, chunks, got, ppbloom, adds>>

\* aead_cipher_decrypt of the length and of the payload at an offset.  A sender
\* with the key never sends the length 0 (aead.c:491).
LengthAt(c, off, n) == {i \in 1..Len(chunks[c]) :
    /\ c \notin Garbled
    /\ chunks[c][i].off = off
    /\ chunks[c][i].len_nonce = n}

PayloadAt(c, off, mlen, n) == {i \in 1..Len(chunks[c]) :
    /\ chunks[c][i].off = off
    /\ chunks[c][i].plen = mlen
    /\ chunks[c][i].data_nonce = n}

\* Mutant: the proven salt is noted in the context but not in the filter.
Return_NotAdded(c, d) ==
    IF d.init = 1
    THEN /\ dec' = [dec EXCEPT ![c] = [d EXCEPT !.pc = "recv", !.init = 2]]
         /\ adds' = Append(adds, SaltOf[c])
         /\ hist' = [hist EXCEPT ![c].added = Len(adds) + 1]
         /\ UNCHANGED ppbloom
    ELSE /\ dec' = [dec EXCEPT ![c] = [d EXCEPT !.pc = "recv"]]
         /\ UNCHANGED <<ppbloom, adds, hist>>

\* The end of aead_decrypt, with CRYPTO_OK: a salt that has proved good is added.
Return(c, d) ==
    IF d.init = 1
    THEN /\ dec' = [dec EXCEPT ![c] = [d EXCEPT !.pc = "recv", !.init = 2]]
         /\ ppbloom' = ppbloom_add(ppbloom, SaltOf[c])
         /\ adds' = Append(adds, SaltOf[c])
         /\ hist' = [hist EXCEPT ![c].added = Len(adds) + 1]
    ELSE /\ dec' = [dec EXCEPT ![c] = [d EXCEPT !.pc = "recv"]]
         /\ UNCHANGED <<ppbloom, adds, hist>>

\* Mutant: the call returns CRYPTO_OK although nothing was decrypted.
NeedMore_Breaks(c) == Return(c, dec[c])

\* CRYPTO_NEED_MORE from aead_chunk_decrypt: nothing to return yet, or what the
\* earlier chunks of this call gave.
NeedMore(c) ==
    IF dec[c].plen = 0
    THEN dec' = [dec EXCEPT ![c].pc = "recv"] /\ UNCHANGED <<ppbloom, adds, hist>>
    ELSE Return(c, dec[c])

\* aead_chunk_decrypt, when fewer bytes are there than any chunk has.
aead_chunk_decrypt_Short(c) ==
    /\ dec[c].pc = "loop"
    /\ dec[c].len > 0
    /\ dec[c].len <= Overhead
    /\ NeedMore(c)
    /\ UNCHANGED <<enc, chunks, got>>

\* Mutant: the nonce moves on although the payload is still missing.
aead_chunk_decrypt_Partial_Increments(c) ==
    LET d == dec[c]
    IN  /\ d.pc = "loop"
        /\ d.len > Overhead
        /\ \E i \in LengthAt(c, d.base, d.nonce) : d.len < Overhead + chunks[c][i].plen
        /\ dec' = [dec EXCEPT ![c].pc = "recv", ![c].nonce = @ + 1]
        /\ UNCHANGED <<enc, chunks, got, ppbloom, adds, hist>>

\* Mutant: a chunk that ends with the bytes at hand is not taken.
aead_chunk_decrypt_Partial_Exact(c) ==
    LET d == dec[c]
    IN  /\ d.pc = "loop"
        /\ d.len > Overhead
        /\ \E i \in LengthAt(c, d.base, d.nonce) : d.len <= Overhead + chunks[c][i].plen
        /\ NeedMore(c)
        /\ UNCHANGED <<enc, chunks, got>>

\* ... when the length decrypts and says that the payload is not all there: the
\* nonce stays where it is, and the length is decrypted again next time.
aead_chunk_decrypt_Partial(c) ==
    LET d == dec[c]
    IN  /\ d.pc = "loop"
        /\ d.len > Overhead
        /\ \E i \in LengthAt(c, d.base, d.nonce) : d.len < Overhead + chunks[c][i].plen
        /\ NeedMore(c)
        /\ UNCHANGED <<enc, chunks, got>>

\* ... when the chunk is complete: it is cut off ctx->chunk.
aead_chunk_decrypt_Whole(c) ==
    LET d == dec[c]
    IN  /\ d.pc = "loop"
        /\ d.len > Overhead
        /\ \E i \in LengthAt(c, d.base, d.nonce) :
             LET mlen == chunks[c][i].plen
             IN  /\ d.len >= Overhead + mlen
                 /\ \E j \in PayloadAt(c, d.base, mlen, d.nonce + 1) :
                      /\ dec' = [dec EXCEPT ![c].nonce = @ + 2,
                                            ![c].base = @ + Overhead + mlen,
                                            ![c].len = @ - (Overhead + mlen),
                                            ![c].plen = @ + mlen]
                      /\ got' = [got EXCEPT ![c] = Append(@, j)]
        /\ UNCHANGED <<enc, chunks, ppbloom, adds, hist>>

\* ... when a tag does not match: CRYPTO_ERROR, and the server closes.
aead_chunk_decrypt_Error(c) ==
    LET d == dec[c]
    IN  /\ d.pc = "loop"
        /\ d.len > Overhead
        /\ \A i \in LengthAt(c, d.base, d.nonce) :
            /\ d.len >= Overhead + chunks[c][i].plen
            /\ PayloadAt(c, d.base, chunks[c][i].plen, d.nonce + 1) = {}
        /\ dec' = [dec EXCEPT ![c].pc = "closed"]
        /\ UNCHANGED <<enc, chunks, got, ppbloom, adds, hist>>

\* The loop ends because ctx->chunk is empty.
aead_decrypt_Done(c) ==
    /\ dec[c].pc = "loop"
    /\ dec[c].len = 0
    /\ Return(c, dec[c])
    /\ UNCHANGED <<enc, chunks, got>>

Next ==
    \E c \in Conn :
        \/ \E plen \in 1..CHUNK_SIZE_MASK : aead_encrypt(c, plen)
        \/ \E n \in 1..BUF_SIZE : aead_decrypt(c, n)
        \/ aead_chunk_decrypt_Short(c)
        \/ aead_chunk_decrypt_Partial(c)
        \/ aead_chunk_decrypt_Whole(c)
        \/ aead_chunk_decrypt_Error(c)
        \/ aead_decrypt_Done(c)

Spec == Init /\ [][Next]_vars

-----------------------------------------------------------------------------
(* Properties *)

\* However recv cuts the stream of a peer with the key into pieces, no tag ever
\* fails: the receiver's nonce and position are those of the block it tries
\* (aead.c:546, 565).
NoChunkFails ==
    \A c \in Conn \ Garbled : dec[c].pc = "closed" => dec[c].init = 0

\* Between two calls the receiver has handed over exactly the chunks that have
\* arrived in full, in order: none twice, none early, none held back
\* (aead.c:542, 560, 573-576, 627-644).
HandsOverWhatArrived ==
    \A c \in Conn \ Garbled : (dec[c].pc = "recv" /\ dec[c].init # 0) =>
        /\ \A i \in 1..Len(got[c]) : got[c][i] = i
        /\ \A i \in 1..Len(chunks[c]) :
            LET end == chunks[c][i].off + Overhead + chunks[c][i].plen
            IN  i <= Len(got[c]) <=> end <= dec[c].base + dec[c].len

\* Under one key no nonce is used for two blocks (aead.c:469, 479).
NonceUsedOnce ==
    \A c \in Conn : \A i, j \in 1..Len(chunks[c]) :
        /\ chunks[c][i].len_nonce # chunks[c][j].data_nonce
        /\ i # j => chunks[c][i].len_nonce # chunks[c][j].len_nonce
        /\ i # j => chunks[c][i].data_nonce # chunks[c][j].data_nonce

\* CRYPTO_OK always comes with data, so a salt is added only once a chunk has
\* proved that its sender has the key (aead.c:636-641, 652-655).
OnlyProvenSaltsAreAdded ==
    \A c \in Conn : dec[c].init = 2 => (got[c] # <<>> /\ c \notin Garbled)

\* A salt is found for as long as fewer than half of FILTER_ENTRIES salts have
\* been added after it (ppbloom.c:88-93): a connection whose salt was checked in
\* that time is refused (aead.c:614-617).
RecentSaltIsRefused ==
    \A c, d \in Conn :
        (/\ c # d
         /\ SaltOf[c] = SaltOf[d]
         /\ hist[c].added # -1
         /\ hist[c].added <= hist[d].checked
         /\ hist[d].checked - hist[c].added < entries)
        => dec[d].pc = "closed"
=============================================================================
