----------------------------- MODULE AeadDatagram -----------------------------
(***************************************************************************)
(* Datagrams of the UDP relay under their ciphers: aead_encrypt_all and    *)
(* aead_decrypt_all (aead.c), stream_encrypt_all and stream_decrypt_all    *)
(* (stream.c).  Each datagram begins with a salt (a nonce, for a stream    *)
(* cipher) of its own, and the receiver refuses the salts it remembers in  *)
(* the filter of ppbloom.c.                                                *)
(*                                                                         *)
(* The network may lose, repeat, reorder, damage and cut datagrams.        *)
(***************************************************************************)
EXTENDS SaltFilter

CONSTANTS
    Cipher,       \* the kinds of cipher tried: "aead", "stream"
    MaxDelivered  \* bound: datagrams accepted

VARIABLES
    cipher,     \* the kind of cipher both ends use
    net,        \* the datagrams ever sent: what may arrive, any number of times
    filter,     \* the receiver's filter
    delivered   \* history: what was accepted, in order

vars == <<cipher, net, filter, delivered>>

\* A datagram is whole, or its payload was damaged, or it is cut so short that
\* nothing follows the salt (and the tag).
Datagram == [salt : Salt, state : {"whole", "damaged", "short"}]

TypeOK ==
    /\ cipher \in Cipher
    /\ net \subseteq Salt
    /\ filter \in Filter
    /\ delivered \in Seq([salt : Salt, state : {"whole", "damaged"}])

Init ==
    /\ cipher \in Cipher
    /\ net = {} /\ delivered = <<>>
    /\ filter = ppbloom_init

\* External: rand_bytes gives every datagram a salt that was not used before.
rand_bytes == Salt \ net

encrypt_all ==
    /\ \E s \in rand_bytes : net' = net \cup {s}
    /\ UNCHANGED <<cipher, filter, delivered>>

Accept(d) ==
    /\ filter' = ppbloom_add(filter, d.salt)
    /\ delivered' = Append(delivered, d)

Refuse == UNCHANGED <<filter, delivered>>

\* A damaged payload fails the tag.
aead_cipher_decrypt(d) == d.state = "whole"

\* Mutant: the salt is remembered before the payload has been verified.
aead_decrypt_all_AddFirst(d) ==
    \/ d.state = "short" /\ Refuse
    \/ /\ d.state # "short"
       /\ \E repeated \in ppbloom_check(filter, d.salt) :
            IF repeated THEN Refuse
            ELSE IF aead_cipher_decrypt(d) THEN Accept(d)
            ELSE filter' = ppbloom_add(filter, d.salt) /\ UNCHANGED delivered

\* Too short, or a salt that the filter finds, or a payload that does not
\* decrypt: an error, and nothing is remembered.
aead_decrypt_all(d) ==
    \/ d.state = "short" /\ Refuse
    \/ /\ d.state # "short"
       /\ \E repeated \in ppbloom_check(filter, d.salt) :
            IF repeated \/ ~aead_cipher_decrypt(d) THEN Refuse ELSE Accept(d)

\* Mutant: only the half that is being filled is asked.
stream_decrypt_all_CurrentHalf(d) ==
    \/ d.state = "short" /\ Refuse
    \/ /\ d.state # "short"
       /\ \E repeated \in bloom_check(filter.bloom[filter.current], d.salt) :
            IF repeated THEN Refuse ELSE Accept(d)

\* A stream cipher decrypts whatever it is given.
stream_decrypt_all(d) ==
    \/ d.state = "short" /\ Refuse
    \/ /\ d.state # "short"
       /\ \E repeated \in ppbloom_check(filter, d.salt) :
            IF repeated THEN Refuse ELSE Accept(d)

decrypt_all(d) ==
    /\ \/ cipher = "aead" /\ aead_decrypt_all(d)
       \/ cipher = "stream" /\ stream_decrypt_all(d)
    /\ UNCHANGED <<cipher, net>>

\* The network delivers what was sent, or what it has made of it; the salt of
\* a damaged datagram may be damaged too.
Next ==
    \/ encrypt_all
    \/ /\ Len(delivered) < MaxDelivered
       /\ \E d \in Datagram : (d.state = "whole" => d.salt \in net) /\ decrypt_all(d)

Spec == Init /\ [][Next]_vars

-----------------------------------------------------------------------------
(* Properties *)

\* A salt accepted once is accepted again only after as many others as one half
\* of the filter takes (ppbloom_add, ppbloom.c:90, empties the older half only
\* when the younger is full), in whatever order copies of datagrams arrive.
RepeatsNeedAFullHalf ==
    \A i, j \in 1..Len(delivered) :
        (i < j /\ delivered[i].salt = delivered[j].salt) => j - i > entries

\* Nothing without a payload is accepted (TypeOK).  With an AEAD cipher, a
\* damaged datagram is never accepted either, and never keeps a
\* whole one with the same salt out: the filter remembers only salts of
\* datagrams that were sent and accepted (aead.c:437 comes after the tag has
\* been verified).
DamageIsNotRemembered ==
    /\ TypeOK
    /\ cipher = "aead" =>
        /\ \A i \in 1..Len(delivered) : delivered[i].state = "whole"
        /\ \A h \in Half : filter.bloom[h] \subseteq
             {delivered[i].salt : i \in 1..Len(delivered)} \cap net
==============================================================================
