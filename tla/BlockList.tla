------------------------------ MODULE BlockList ------------------------------
(***************************************************************************)
(* The list of misbehaving peers that ss-server refuses (acl.c), kept in   *)
(* the cache of cache.c.                                                   *)
(*                                                                         *)
(* A cache is the sequence of its entries in uthash order: HASH_ADD puts   *)
(* an entry last, and a lookup deletes an entry and adds it again, so the  *)
(* first entry is the one touched least recently.  Both also set the       *)
(* entry's ts to the current time, so the sequence is sorted by ts and     *)
(* "older than an age" always selects a prefix of it.                      *)
(***************************************************************************)
EXTENDS Integers, Sequences

CONSTANTS
    Addr,         \* peer addresses, as get_peer_name prints them
    MAX_TRIES,    \* acl.h:29
    MALICIOUS,    \* acl.h:30
    MALFORMED,    \* acl.h:33
    MAX_ENTRIES   \* the capacity given to cache_create by init_block_list

ASSUME BlockListAssumption ==
    /\ MAX_TRIES \in Nat
    /\ MALICIOUS \in Nat \ {0}
    /\ MALFORMED \in Nat \ {0}
    /\ MAX_ENTRIES \in Nat \ {0}

Entry == [addr : Addr, count : Nat]

Level == {MALICIOUS, MALFORMED}

-----------------------------------------------------------------------------
(* cache.c *)

\* The positions at which HASH_FIND finds a key: at most one.
Find(cache, a) == {i \in 1..Len(cache) : cache[i].addr = a}

cache_key_exist(cache, a) == Find(cache, a) # {}

Position(cache, a) == CHOOSE i \in Find(cache, a) : TRUE

Without(cache, i) == SubSeq(cache, 1, i - 1) \o SubSeq(cache, i + 1, Len(cache))

cache_remove(cache, a) ==
    IF cache_key_exist(cache, a) THEN Without(cache, Position(cache, a)) ELSE cache

\* A lookup moves the entry found to the end of the list.
Touch(cache, a) ==
    IF cache_key_exist(cache, a)
    THEN Append(Without(cache, Position(cache, a)), cache[Position(cache, a)])
    ELSE cache

\* The new entry is added first; the head goes if the cache is then full.
cache_insert(cache, a, n) ==
    LET added == Append(cache, [addr |-> a, count |-> n])
    IN  IF Len(added) >= MAX_ENTRIES THEN Tail(added) ELSE added

\* cache_clear: what is left when the entries older than some age are removed.
Cleared(cache) == {SubSeq(cache, k, Len(cache)) : k \in 1..Len(cache) + 1}

-----------------------------------------------------------------------------
(* acl.c *)

Blocked(cache, a) ==
    /\ cache_key_exist(cache, a)
    /\ cache[Position(cache, a)].count > MAX_TRIES

\* check_block_list answers Blocked(cache, a) and leaves Touch(cache, a).
check_block_list(cache, a) == Touch(cache, a)

\* Mutant: a blocked peer is counted on.
update_block_list_NoCap(cache, a, level) ==
    LET touched == Touch(cache, a)
        last    == Len(touched)
    IN  IF ~cache_key_exist(cache, a) THEN cache_insert(cache, a, 1)
        ELSE [touched EXCEPT ![last] =
                [addr |-> a, count |-> touched[last].count + level]]

\* Mutant: a new entry is counted on as well.
update_block_list_FallThrough(cache, a, level) ==
    IF ~cache_key_exist(cache, a) THEN cache_insert(cache, a, 1 + level)
    ELSE Touch(cache, a)

update_block_list(cache, a, level) ==
    LET touched == Touch(cache, a)
        last    == Len(touched)
    IN  IF ~cache_key_exist(cache, a) THEN cache_insert(cache, a, 1)
        ELSE IF Blocked(cache, a) THEN touched
        ELSE [touched EXCEPT ![last] =
                [addr |-> a, count |-> touched[last].count + level]]

remove_from_block_list(cache, a) == cache_remove(cache, a)
==============================================================================
