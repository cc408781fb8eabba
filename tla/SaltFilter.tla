----------------------------- MODULE SaltFilter -----------------------------
(***************************************************************************)
(* The filter that remembers the salts (and nonces) of past connections    *)
(* (ppbloom.c): two Bloom filters, of which one is filled and the other    *)
(* holds what was added before it; when the first is full the other is     *)
(* emptied and filled next.                                                *)
(*                                                                         *)
(* A Bloom filter is the set of what was added to it.  It finds every      *)
(* member of that set and may find something else (libbloom, external).    *)
(***************************************************************************)
EXTENDS Integers, Sequences, FiniteSets

CONSTANTS
    Salt,            \* the salts that connections may begin with
    FILTER_ENTRIES   \* crypto.h:70, the n of ppbloom_init

ASSUME FilterAssumption == FILTER_ENTRIES \in Nat

Half == {"PING", "PONG"}

entries == FILTER_ENTRIES \div 2

Filter == [bloom : [Half -> SUBSET Salt], bloom_count : [Half -> Nat], current : Half]

ppbloom_init ==
    [bloom       |-> [h \in Half |-> {}],
     bloom_count |-> [h \in Half |-> 0],
     current     |-> "PING"]

\* The answers a Bloom filter that holds S may give for s.
bloom_check(S, s) == IF s \in S THEN {TRUE} ELSE BOOLEAN

ppbloom_check(f, s) == bloom_check(f.bloom["PING"] \cup f.bloom["PONG"], s)

Other(h) == IF h = "PING" THEN "PONG" ELSE "PING"

ppbloom_add(f, s) ==
    LET h     == f.current
        added == [f.bloom EXCEPT ![h] = @ \cup {s}]
        n     == f.bloom_count[h] + 1
    IN  IF n >= entries
        THEN [bloom       |-> [added EXCEPT ![Other(h)] = {}],
              bloom_count |-> [f.bloom_count EXCEPT ![h] = 0],
              current     |-> Other(h)]
        ELSE [f EXCEPT !.bloom = added, !.bloom_count[h] = n]
=============================================================================
