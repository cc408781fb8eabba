---------------------------- MODULE UdpRelayProofs ----------------------------
(***************************************************************************)
(* Proofs about UdpRelay: for any clients, families and addresses, and for *)
(* a cache of any capacity.                                                *)
(*                                                                         *)
(* The cache and the remotes it owns are related by Owns, which speaks of  *)
(* a sequence and a function, so that what a lookup, an insertion and a    *)
(* removal do to it are lemmas about those.  A waiting query whose remote  *)
(* is in use knows every entry younger than it: Waits.                     *)
(***************************************************************************)
EXTENDS UdpRelay, FiniteSetTheorems, SequenceTheorems, TLAPS

Cached == [addr : Key, count : Remote]

RemoteCtx == [af : AF, src : Client]

QueryCtx == [id : 1..MaxDatagrams, src : Client, remote : Remote \cup {NULL},
             freed : {"no", "evicted", "timeout"}, touched : SUBSET Key]

\* The keys and the remotes of the entries of s are pairwise distinct.
Distinct(s) ==
    \A i, j \in 1..Len(s) :
        i # j => s[i].addr # s[j].addr /\ s[i].count # s[j].count

\* Every entry of s owns a remote in use, under the key of that remote.
Keyed(s, rem) ==
    \A i \in 1..Len(s) :
        /\ rem[s[i].count] \in RemoteCtx
        /\ s[i].addr = hash_key(rem[s[i].count].af, rem[s[i].count].src)

\* Every remote in use has an entry in s.
Complete(s, rem) ==
    \A r \in Remote : rem[r] # NULL => \E i \in 1..Len(s) : s[i].count = r

Owns(s, rem) ==
    /\ s \in Seq(Cached)
    /\ Len(s) < MAX_ENTRIES
    /\ Distinct(s)
    /\ Keyed(s, rem)
    /\ Complete(s, rem)

\* A remote a query points to is in the cache, under the query's key, as long
\* as it has not been freed; what is younger was used since the query began.
InCache(q, s) ==
    \E p \in 1..Len(s) :
        /\ s[p].count = q.remote
        /\ s[p].addr = hash_key("unspec", q.src)
        /\ \A j \in p + 1..Len(s) : s[j].addr \in q.touched

Waits(q, s) ==
    /\ q \in QueryCtx
    /\ IsFiniteSet(q.touched)
    /\ q.remote # NULL /\ q.freed = "no" => InCache(q, s)
    /\ q.freed = "evicted" => Cardinality(q.touched) >= MAX_ENTRIES - 1

Sent(o, rem) ==
    /\ o \in [src : Client, remote : Remote, stale : BOOLEAN]
    /\ rem[o.remote] # NULL
    /\ o.stale \/ rem[o.remote].src = o.src

PhaseOK ==
    /\ phase \in {"run", "cancel", "gone", "undefined", "fatal"}
    /\ phase = "gone" => conn_cache = <<>> /\ query = {}

ReplyOK ==
    reply # NULL => /\ reply \in [src : Client, to : Client, stale : BOOLEAN]
                    /\ reply.stale \/ reply.to = reply.src

Inv ==
    /\ DOMAIN remote = Remote
    /\ Owns(conn_cache, remote)
    /\ \A q \in query : Waits(q, conn_cache)
    /\ \A o \in outside : Sent(o, remote)
    /\ ReplyOK
    /\ PhaseOK
    /\ datagrams \in 0..MaxDatagrams

-----------------------------------------------------------------------------
(* The operations of cache.c on a sequence *)

LEMMA Constants ==
    /\ MAX_ENTRIES \in Nat /\ MAX_ENTRIES > 1 /\ MaxDatagrams \in Nat
    /\ NULL \notin Remote /\ NULL \notin RemoteCtx
  BY UdpAssumption DEF RemoteCtx, AF

LEMMA PositionFinds ==
    ASSUME NEW s, NEW k, Cache!cache_key_exist(s, k)
    PROVE  Cache!Position(s, k) \in 1..Len(s) /\ s[Cache!Position(s, k)].addr = k
  BY DEF Cache!cache_key_exist, Cache!Position, Cache!Find

\* Leaving out entry i moves the later ones down.
LEMMA WithoutShape ==
    ASSUME NEW S, NEW s \in Seq(S), NEW i \in 1..Len(s)
    PROVE  LET t == Cache!Without(s, i) IN
           /\ t \in Seq(S) /\ Len(t) = Len(s) - 1
           /\ \A j \in 1..Len(t) : t[j] = IF j < i THEN s[j] ELSE s[j + 1]
  <1> DEFINE a == SubSeq(s, 1, i - 1)
             b == SubSeq(s, i + 1, Len(s))
  <1>0. Len(s) \in Nat /\ i \in Nat
    OBVIOUS
  <1>1. a \in Seq(S) /\ Len(a) = i - 1 /\ \A j \in 1..i - 1 : a[j] = s[j]
    BY <1>0
  <1>2. b \in Seq(S) /\ Len(b) = Len(s) - i /\ \A j \in 1..Len(s) - i : b[j] = s[i + j]
    BY <1>0
  <1>3. Cache!Without(s, i) = a \o b
    BY DEF Cache!Without
  <1> HIDE DEF a, b
  <1>4. a \o b \in Seq(S) /\ Len(a \o b) = Len(s) - 1
    <2>1. a \o b \in Seq(S) /\ Len(a \o b) = Len(a) + Len(b)
      BY <1>1, <1>2, ConcatProperties
    <2>2. (i - 1) + (Len(s) - i) = Len(s) - 1
      BY <1>0
    <2> QED
      BY <1>1, <1>2, <2>1, <2>2
  <1>5. ASSUME NEW j \in 1..Len(s) - 1
        PROVE  (a \o b)[j] = IF j < i THEN s[j] ELSE s[j + 1]
    <2>1. CASE j < i
      BY <1>0, <1>1, <1>2, <2>1
    <2>2. CASE ~(j < i)
      <3>1. (a \o b)[j] = b[j - (i - 1)]
        BY <1>0, <1>1, <1>2, <2>2
      <3>2. j - (i - 1) \in 1..Len(s) - i /\ i + (j - (i - 1)) = j + 1
        BY <1>0, <2>2
      <3> QED
        BY <1>2, <2>2, <3>1, <3>2
    <2> QED
      BY <2>1, <2>2
  <1> QED
    BY <1>3, <1>4, <1>5

\* A lookup that finds entry i moves the later ones down and puts it last.
LEMMA TouchShape ==
    ASSUME NEW S, NEW s \in Seq(S), NEW k, Cache!cache_key_exist(s, k)
    PROVE  LET t == Cache!Touch(s, k)
               i == Cache!Position(s, k) IN
           /\ t \in Seq(S) /\ Len(t) = Len(s)
           /\ \A j \in 1..Len(s) :
                t[j] = IF j < i THEN s[j] ELSE IF j < Len(s) THEN s[j + 1] ELSE s[i]
  <1> DEFINE i == Cache!Position(s, k)
             w == Cache!Without(s, i)
  <1>1. i \in 1..Len(s)
    BY PositionFinds
  <1>2. /\ w \in Seq(S) /\ Len(w) = Len(s) - 1
        /\ \A j \in 1..Len(w) : w[j] = IF j < i THEN s[j] ELSE s[j + 1]
    BY <1>1, WithoutShape
  <1>3. Cache!Touch(s, k) = Append(w, s[i])
    BY DEF Cache!Touch
  <1>4. s[i] \in S /\ Len(s) \in Nat
    BY <1>1
  <1> HIDE DEF i, w
  <1>5. Append(w, s[i]) \in Seq(S) /\ Len(Append(w, s[i])) = Len(s)
    BY <1>2, <1>4
  <1>6. ASSUME NEW j \in 1..Len(s)
        PROVE  Append(w, s[i])[j] =
                 IF j < i THEN s[j] ELSE IF j < Len(s) THEN s[j + 1] ELSE s[i]
    BY <1>1, <1>2, <1>4
  <1> QED
    BY <1>3, <1>5, <1>6 DEF i

\* An insertion into a full cache moves all entries down.
LEMMA InsertShape ==
    ASSUME NEW S, NEW s \in Seq(S), NEW k, NEW r, Len(s) < MAX_ENTRIES,
           [addr |-> k, count |-> r] \in S
    PROVE  LET t == Cache!cache_insert(s, k, r)
               e == [addr |-> k, count |-> r]
               n == Len(s) IN
           /\ t \in Seq(S)
           /\ IF n + 1 = MAX_ENTRIES
              THEN /\ n >= 1 /\ Len(t) = n
                   /\ \A j \in 1..n : t[j] = IF j < n THEN s[j + 1] ELSE e
              ELSE /\ Len(t) = n + 1 /\ n + 1 < MAX_ENTRIES
                   /\ \A j \in 1..n + 1 : t[j] = IF j <= n THEN s[j] ELSE e
  <1> DEFINE e == [addr |-> k, count |-> r]
             a == Append(s, e)
  <1>0. Len(s) \in Nat /\ MAX_ENTRIES \in Nat /\ MAX_ENTRIES > 1
    BY Constants
  <1>1. /\ a \in Seq(S) /\ Len(a) = Len(s) + 1
        /\ \A j \in 1..Len(s) + 1 : a[j] = IF j <= Len(s) THEN s[j] ELSE e
    BY <1>0
  <1>2. Cache!cache_insert(s, k, r) = IF Len(a) >= MAX_ENTRIES THEN Tail(a) ELSE a
    BY DEF Cache!cache_insert
  <1> HIDE DEF e, a
  <1>3. CASE Len(s) + 1 = MAX_ENTRIES
    <2>1. Cache!cache_insert(s, k, r) = Tail(a)
      BY <1>0, <1>1, <1>2, <1>3
    <2>2. Tail(a) \in Seq(S) /\ Len(Tail(a)) = Len(s)
      BY <1>0, <1>1
    <2>3. \A j \in 1..Len(s) : Tail(a)[j] = a[j + 1]
      BY <1>0, <1>1
    <2>4. \A j \in 1..Len(s) : a[j + 1] = IF j < Len(s) THEN s[j + 1] ELSE e
      BY <1>0, <1>1
    <2> QED
      BY <1>0, <1>3, <2>1, <2>2, <2>3, <2>4 DEF e
  <1>4. CASE Len(s) + 1 # MAX_ENTRIES
    BY <1>0, <1>1, <1>2, <1>4 DEF e
  <1> QED
    BY <1>3, <1>4
-----------------------------------------------------------------------------
(* What they do to the entries, the remotes and the waiting queries *)

LEMMA EntryType ==
    ASSUME NEW s \in Seq(Cached), NEW i \in 1..Len(s)
    PROVE  s[i] \in Cached /\ s[i].addr \in Key /\ s[i].count \in Remote
  <1>1. s[i] \in Cached
    OBVIOUS
  <1> QED
    BY <1>1 DEF Cached

\* A key is at one position only.
LEMMA OnePosition ==
    ASSUME NEW s, Distinct(s), NEW i \in 1..Len(s)
    PROVE  Cache!cache_key_exist(s, s[i].addr) /\ Cache!Position(s, s[i].addr) = i
  <1>1. i \in Cache!Find(s, s[i].addr)
    BY DEF Cache!Find
  <1>2. \A j \in Cache!Find(s, s[i].addr) : j = i
    BY DEF Cache!Find, Distinct
  <1> QED
    BY <1>1, <1>2 DEF Cache!cache_key_exist, Cache!Position

LEMMA TouchOwns ==
    ASSUME NEW s, NEW rem, Owns(s, rem), NEW k, Cache!cache_key_exist(s, k)
    PROVE  Owns(Cache!Touch(s, k), rem)
  <1> DEFINE i == Cache!Position(s, k)
             from == [j \in 1..Len(s) |-> IF j < i THEN j ELSE IF j < Len(s) THEN j + 1 ELSE i]
  <1>1. s \in Seq(Cached) /\ Len(s) \in Nat /\ i \in 1..Len(s)
    BY PositionFinds DEF Owns
  <1>2. PICK t : t = Cache!Touch(s, k)
    OBVIOUS
  <1>3. /\ t \in Seq(Cached) /\ Len(t) = Len(s)
        /\ \A j \in 1..Len(s) :
             t[j] = IF j < i THEN s[j] ELSE IF j < Len(s) THEN s[j + 1] ELSE s[i]
    BY <1>1, <1>2, TouchShape
  <1> HIDE DEF i
  <1>4. \A j \in 1..Len(s) : from[j] \in 1..Len(s) /\ t[j] = s[from[j]]
    BY <1>1, <1>3
  <1>5. \A j, l \in 1..Len(s) : j # l => from[j] # from[l]
    BY <1>1
  <1>6. \A l \in 1..Len(s) : \E j \in 1..Len(s) : from[j] = l
    <2> SUFFICES ASSUME NEW l \in 1..Len(s)
                 PROVE  \E j \in 1..Len(s) : from[j] = l
      OBVIOUS
    <2>1. CASE l < i
      <3>1. from[l] = l
        BY <2>1
      <3> QED
        BY <3>1
    <2>2. CASE l = i
      <3>1. Len(s) \in 1..Len(s) /\ from[Len(s)] = l
        BY <1>1, <2>2
      <3> QED
        BY <3>1
    <2>3. CASE l > i
      <3>1. l - 1 \in 1..Len(s) /\ from[l - 1] = l
        BY <1>1, <2>3
      <3> QED
        BY <3>1
    <2> QED
      BY <1>1, <2>1, <2>2, <2>3
  <1> HIDE DEF from
  <1>7. Distinct(t)
    <2> SUFFICES ASSUME NEW j \in 1..Len(s), NEW l \in 1..Len(s), j # l
                 PROVE  t[j].addr # t[l].addr /\ t[j].count # t[l].count
      BY <1>3 DEF Distinct
    <2>1. PICK u \in 1..Len(s), v \in 1..Len(s) : u # v /\ t[j] = s[u] /\ t[l] = s[v]
      BY <1>4, <1>5
    <2> QED
      BY <2>1 DEF Distinct, Owns
  <1>8. Keyed(t, rem)
    BY <1>3, <1>4 DEF Keyed, Owns
  <1>9. Complete(t, rem)
    <2> SUFFICES ASSUME NEW r \in Remote, rem[r] # NULL
                 PROVE  \E j \in 1..Len(t) : t[j].count = r
      BY DEF Complete
    <2>1. PICK l \in 1..Len(s) : s[l].count = r
      BY DEF Owns, Complete
    <2>2. PICK j \in 1..Len(s) : from[j] = l
      BY <1>6
    <2> QED
      BY <1>3, <1>4, <2>1, <2>2
  <1> QED
    BY <1>2, <1>3, <1>7, <1>8, <1>9 DEF Owns

\* A query sees a key become younger (Noted, for one query).
Seen(q, k) == [q EXCEPT !.touched = @ \cup ({k} \ {hash_key("unspec", q.src)})]

LEMMA SeenFields ==
    ASSUME NEW q \in QueryCtx, NEW k \in Key, IsFiniteSet(q.touched)
    PROVE  LET n == Seen(q, k) IN
           /\ n \in QueryCtx /\ IsFiniteSet(n.touched)
           /\ n.id = q.id /\ n.src = q.src /\ n.remote = q.remote /\ n.freed = q.freed
           /\ q.touched \subseteq n.touched
           /\ k # hash_key("unspec", q.src) => k \in n.touched
           /\ Cardinality(n.touched) >= Cardinality(q.touched)
  <1> DEFINE more == {k} \ {hash_key("unspec", q.src)}
             n == Seen(q, k)
  <1>1. /\ n.touched = q.touched \cup more /\ n.id = q.id /\ n.src = q.src
        /\ n.remote = q.remote /\ n.freed = q.freed
    BY DEF Seen, QueryCtx
  <1>2. q.touched \subseteq Key
    BY DEF QueryCtx
  <1>3. n \in QueryCtx
    BY <1>2 DEF Seen, QueryCtx
  <1>4. IsFiniteSet(n.touched)
    <2>1. CASE more = {}
      BY <1>1, <2>1
    <2>2. CASE more = {k}
      <3>1. IsFiniteSet(q.touched \cup {k})
        BY FS_AddElement
      <3> QED
        BY <1>1, <2>2, <3>1
    <2> QED
      BY <2>1, <2>2
  <1>5. Cardinality(q.touched) <= Cardinality(n.touched)
    BY <1>1, <1>4, FS_Subset
  <1>6. Cardinality(q.touched) \in Nat /\ Cardinality(n.touched) \in Nat
    BY <1>4, FS_CardinalityType
  <1> QED
    BY <1>1, <1>3, <1>4, <1>5, <1>6

LEMMA TouchWaits ==
    ASSUME NEW s \in Seq(Cached), Distinct(s), NEW k \in Key, Cache!cache_key_exist(s, k),
           NEW q, Waits(q, s)
    PROVE  Waits(Seen(q, k), Cache!Touch(s, k))
  <1> DEFINE i == Cache!Position(s, k)
             n == Seen(q, k)
  <1>1. Len(s) \in Nat /\ i \in 1..Len(s) /\ s[i].addr = k
    BY PositionFinds
  <1>2. PICK t : t = Cache!Touch(s, k)
    OBVIOUS
  <1>3. /\ Len(t) = Len(s)
        /\ \A j \in 1..Len(s) :
             t[j] = IF j < i THEN s[j] ELSE IF j < Len(s) THEN s[j + 1] ELSE s[i]
    BY <1>2, TouchShape
  <1>4. /\ n \in QueryCtx /\ IsFiniteSet(n.touched)
        /\ n.src = q.src /\ n.remote = q.remote /\ n.freed = q.freed
        /\ q.touched \subseteq n.touched
        /\ k # hash_key("unspec", q.src) => k \in n.touched
        /\ Cardinality(n.touched) >= Cardinality(q.touched)
    BY SeenFields DEF Waits
  <1>5. Cardinality(q.touched) \in Nat /\ Cardinality(n.touched) \in Nat /\ MAX_ENTRIES \in Nat
    BY <1>4, FS_CardinalityType, Constants DEF Waits
  <1> HIDE DEF i, n
  <1>6. n.freed = "evicted" => Cardinality(n.touched) >= MAX_ENTRIES - 1
    BY <1>4, <1>5 DEF Waits
  <1>7. ASSUME InCache(q, s)
        PROVE  InCache(n, t)
    <2>1. PICK p \in 1..Len(s) : /\ s[p].count = q.remote
                                 /\ s[p].addr = hash_key("unspec", q.src)
                                 /\ \A j \in p + 1..Len(s) : s[j].addr \in q.touched
      BY <1>7 DEF InCache
    <2>2. CASE p = i
      <3>1. Len(s) \in 1..Len(t) /\ t[Len(s)] = s[i]
        BY <1>1, <1>3
      <3>2. \A j \in Len(s) + 1..Len(t) : t[j].addr \in n.touched
        BY <1>1, <1>3
      <3> QED
        BY <1>4, <2>1, <2>2, <3>1, <3>2 DEF InCache
    <2>3. CASE p < i
      <3>1. p \in 1..Len(t) /\ t[p] = s[p]
        BY <1>1, <1>3, <2>3
      <3>2. k \in n.touched
        BY <1>1, <1>4, <2>1, <2>3 DEF Distinct
      <3>3. ASSUME NEW j \in p + 1..Len(t)
            PROVE  t[j].addr \in n.touched
        <4>1. \/ t[j] = s[j] \/ (j + 1 \in p + 1..Len(s) /\ t[j] = s[j + 1]) \/ t[j] = s[i]
          BY <1>1, <1>3
        <4> QED
          BY <1>1, <1>3, <1>4, <2>1, <3>2, <4>1
      <3> QED
        BY <1>4, <2>1, <3>1, <3>3 DEF InCache
    <2>4. CASE p > i
      <3>1. p - 1 \in 1..Len(t) /\ t[p - 1] = s[p]
        BY <1>1, <1>3, <2>4
      <3>2. k \in n.touched
        BY <1>1, <1>4, <2>1, <2>4 DEF Distinct
      <3>3. ASSUME NEW j \in (p - 1) + 1..Len(t)
            PROVE  t[j].addr \in n.touched
        <4>1. (j + 1 \in p + 1..Len(s) /\ t[j] = s[j + 1]) \/ t[j] = s[i]
          BY <1>1, <1>3, <2>4
        <4> QED
          BY <1>1, <1>3, <1>4, <2>1, <3>2, <4>1
      <3> QED
        BY <1>4, <2>1, <3>1, <3>3 DEF InCache
    <2> QED
      BY <1>1, <2>2, <2>3, <2>4
  <1> QED
    BY <1>2, <1>4, <1>6, <1>7 DEF Waits, n

\* What an insertion into s leaves out: the first remote, if the cache is full.
LEMMA InsertDrops ==
    ASSUME NEW s, NEW rem, Owns(s, rem), NEW k, NEW r \in Remote, rem[r] = NULL,
           [addr |-> k, count |-> r] \in Cached
    PROVE  Owned(s) \ Owned(Cache!cache_insert(s, k, r)) =
               IF Len(s) + 1 = MAX_ENTRIES THEN {s[1].count} ELSE {}
  <1> DEFINE n == Len(s)
  <1>0. s \in Seq(Cached) /\ n \in Nat /\ n < MAX_ENTRIES /\ MAX_ENTRIES \in Nat
    BY Constants DEF Owns
  <1>1. PICK t : t = Cache!cache_insert(s, k, r)
    OBVIOUS
  <1>2. IF n + 1 = MAX_ENTRIES
        THEN /\ n >= 1 /\ Len(t) = n
             /\ \A j \in 1..n : t[j] = IF j < n THEN s[j + 1] ELSE [addr |-> k, count |-> r]
        ELSE /\ Len(t) = n + 1
             /\ \A j \in 1..n + 1 : t[j] = IF j <= n THEN s[j] ELSE [addr |-> k, count |-> r]
    BY <1>0, <1>1, InsertShape
  <1>3. \A i \in 1..n : s[i].count # r
    BY Constants DEF Owns, Keyed
  <1>4. \A i, j \in 1..n : i # j => s[i].count # s[j].count
    BY DEF Owns, Distinct
  <1> HIDE DEF n
  <1>5. CASE n + 1 = MAX_ENTRIES
    <2>1. s[1].count \in Owned(s)
      BY <1>0, <1>2, <1>5 DEF Owned, n
    <2>2. s[1].count \notin Owned(t)
      <3> SUFFICES ASSUME NEW j \in 1..n
                   PROVE  t[j].count # s[1].count
        BY <1>2, <1>5 DEF Owned
      <3>1. CASE j < n
        <4>1. j + 1 \in 1..n /\ 1 \in 1..n /\ j + 1 # 1
          BY <1>0, <3>1
        <4> QED
          BY <1>2, <1>4, <1>5, <3>1, <4>1
      <3>2. CASE ~(j < n)
        <4>1. 1 \in 1..n
          BY <1>0, <1>2, <1>5
        <4> QED
          BY <1>2, <1>3, <1>5, <3>2, <4>1
      <3> QED
        BY <3>1, <3>2
    <2>3. ASSUME NEW x \in Owned(s), x # s[1].count
          PROVE  x \in Owned(t)
      <3>1. PICK i \in 1..n : x = s[i].count
        BY <2>3 DEF Owned, n
      <3>2. i - 1 \in 1..n /\ i - 1 < n /\ (i - 1) + 1 = i
        BY <1>0, <2>3, <3>1
      <3>3. t[i - 1] = s[i]
        BY <1>2, <1>5, <3>2
      <3> QED
        BY <1>2, <1>5, <3>1, <3>2, <3>3 DEF Owned
    <2> QED
      BY <1>1, <1>5, <2>1, <2>2, <2>3 DEF n
  <1>6. CASE n + 1 # MAX_ENTRIES
    <2>1. ASSUME NEW x \in Owned(s)
          PROVE  x \in Owned(t)
      <3>1. PICK i \in 1..n : x = s[i].count
        BY <2>1 DEF Owned, n
      <3>2. i \in 1..Len(t) /\ t[i] = s[i]
        BY <1>0, <1>2, <1>6
      <3> QED
        BY <3>1, <3>2 DEF Owned
    <2> QED
      BY <1>1, <1>6, <2>1 DEF n
  <1> QED
    BY <1>5, <1>6

LEMMA InsertOwns ==
    ASSUME NEW s, NEW rem, NEW new, Owns(s, rem), NEW af \in AF, NEW c \in Client,
           ~Cache!cache_key_exist(s, hash_key(af, c)), NEW r \in Remote, rem[r] = NULL,
           \A x \in Remote : new[x] =
               IF x = r THEN [af |-> af, src |-> c]
               ELSE IF x \in Owned(s) \ Owned(Cache!cache_insert(s, hash_key(af, c), r))
               THEN NULL ELSE rem[x]
    PROVE  Owns(Cache!cache_insert(s, hash_key(af, c), r), new)
  <1> DEFINE n == Len(s)
             k == hash_key(af, c)
             e == [addr |-> k, count |-> r]
             full == n + 1 = MAX_ENTRIES
  <1>0. s \in Seq(Cached) /\ n \in Nat /\ n < MAX_ENTRIES /\ MAX_ENTRIES \in Nat
    BY Constants DEF Owns
  <1>1. k \in Key /\ e \in Cached /\ e.addr = k /\ e.count = r
    BY DEF hash_key, Key, Cached
  <1>2. PICK t : t = Cache!cache_insert(s, k, r)
    OBVIOUS
  <1>3. /\ t \in Seq(Cached)
        /\ IF full
           THEN /\ n >= 1 /\ Len(t) = n
                /\ \A j \in 1..n : t[j] = IF j < n THEN s[j + 1] ELSE e
           ELSE /\ Len(t) = n + 1 /\ n + 1 < MAX_ENTRIES
                /\ \A j \in 1..n + 1 : t[j] = IF j <= n THEN s[j] ELSE e
    BY <1>0, <1>1, <1>2, InsertShape
  <1>4. Owned(s) \ Owned(t) = IF full THEN {s[1].count} ELSE {}
    BY <1>1, <1>2, InsertDrops
  <1>5. \A x \in Remote : new[x] = IF x = r THEN [af |-> af, src |-> c]
                                   ELSE IF full /\ x = s[1].count THEN NULL ELSE rem[x]
    BY <1>2, <1>4
  <1>6. \A i \in 1..n : s[i].addr # k
    BY DEF Cache!cache_key_exist, Cache!Find
  <1>7. \A i \in 1..n : s[i].count # r /\ s[i].count \in Remote
    BY <1>0, EntryType, Constants DEF Owns, Keyed
  <1>8. \A i, j \in 1..n : i # j => s[i].addr # s[j].addr /\ s[i].count # s[j].count
    BY DEF Owns, Distinct
  <1>9. new[r] = [af |-> af, src |-> c] /\ new[r] \in RemoteCtx /\ k = hash_key(new[r].af, new[r].src)
    BY <1>5 DEF RemoteCtx
  <1> DEFINE d == IF full THEN 1 ELSE 0
  <1>10. /\ Len(t) = n + 1 - d /\ Len(t) >= 1 /\ Len(t) < MAX_ENTRIES /\ t[Len(t)] = e
         /\ \A j \in 1..Len(t) - 1 : j + d \in 1..n /\ t[j] = s[j + d]
         /\ d \in Nat /\ d <= 1
    BY <1>0, <1>3
  <1> HIDE DEF n, k, e
  <1>11. Distinct(t)
    <2> SUFFICES ASSUME NEW i \in 1..Len(t), NEW j \in 1..Len(t), i < j
                 PROVE  t[i].addr # t[j].addr /\ t[i].count # t[j].count
      BY <1>0, <1>10 DEF Distinct
    <2>1. i \in 1..Len(t) - 1 /\ t[i] = s[i + d] /\ i + d \in 1..n
      BY <1>0, <1>10
    <2>2. CASE j = Len(t)
      BY <1>1, <1>6, <1>7, <1>10, <2>1, <2>2
    <2>3. CASE j # Len(t)
      <3>1. t[j] = s[j + d] /\ j + d \in 1..n /\ i + d # j + d
        BY <1>0, <1>10, <2>3
      <3> QED
        BY <1>8, <2>1, <3>1
    <2> QED
      BY <2>2, <2>3
  <1>12. Keyed(t, new)
    <2> SUFFICES ASSUME NEW i \in 1..Len(t)
                 PROVE  /\ new[t[i].count] \in RemoteCtx
                        /\ t[i].addr = hash_key(new[t[i].count].af, new[t[i].count].src)
      BY DEF Keyed
    <2>1. CASE i = Len(t)
      BY <1>1, <1>9, <1>10, <2>1
    <2>2. CASE i # Len(t)
      <3>1. t[i] = s[i + d] /\ i + d \in 1..n
        BY <1>0, <1>10, <2>2
      <3>2. full => 1 \in 1..n /\ i + d # 1
        BY <1>0, <1>3, <1>10
      <3>3. new[t[i].count] = rem[s[i + d].count]
        BY <1>5, <1>7, <1>8, <3>1, <3>2
      <3> QED
        BY <3>1, <3>3 DEF Owns, Keyed, n
    <2> QED
      BY <2>1, <2>2
  <1>13. Complete(t, new)
    <2> SUFFICES ASSUME NEW x \in Remote, new[x] # NULL
                 PROVE  \E i \in 1..Len(t) : t[i].count = x
      BY DEF Complete
    <2>1. CASE x = r
      BY <1>0, <1>1, <1>10, <2>1
    <2>2. CASE x # r
      <3>1. rem[x] # NULL /\ ~(full /\ x = s[1].count)
        BY <1>5, <2>2
      <3>2. PICK i \in 1..n : s[i].count = x
        BY <3>1 DEF Owns, Complete, n
      <3>3. i - d \in 1..Len(t) - 1 /\ i - d + d = i
        BY <1>0, <1>10, <3>1, <3>2
      <3>4. t[i - d] = s[i] /\ i - d \in 1..Len(t)
        BY <1>0, <1>10, <3>3
      <3> QED
        BY <3>2, <3>4
    <2> QED
      BY <2>1, <2>2
  <1> QED
    BY <1>2, <1>3, <1>10, <1>11, <1>12, <1>13 DEF Owns, k

\* A removal leaves out the remote of its entry and no other.
LEMMA RemoveDrops ==
    ASSUME NEW s \in Seq(Cached), Distinct(s), NEW i \in 1..Len(s)
    PROVE  Owned(s) \ Owned(Cache!Without(s, i)) = {s[i].count}
  <1> DEFINE n == Len(s)
  <1>0. n \in Nat /\ i \in 1..n
    OBVIOUS
  <1>1. PICK t : t = Cache!Without(s, i)
    OBVIOUS
  <1>2. /\ Len(t) = n - 1
        /\ \A j \in 1..n - 1 : t[j] = IF j < i THEN s[j] ELSE s[j + 1]
    BY <1>1, WithoutShape
  <1>3. \A j \in 1..n : j # i => s[j].count # s[i].count
    BY DEF Distinct
  <1> HIDE DEF n
  <1>4. s[i].count \in Owned(s)
    BY DEF Owned
  <1>5. s[i].count \notin Owned(t)
    <2> SUFFICES ASSUME NEW j \in 1..n - 1
                 PROVE  t[j].count # s[i].count
      BY <1>2 DEF Owned
    <2>1. \E l \in 1..n : l # i /\ t[j] = s[l]
      BY <1>0, <1>2
    <2> QED
      BY <1>3, <2>1
  <1>6. ASSUME NEW x \in Owned(s), x # s[i].count
        PROVE  x \in Owned(t)
    <2>1. PICK l \in 1..n : x = s[l].count
      BY <1>6 DEF Owned, n
    <2>2. \E j \in 1..n - 1 : t[j] = s[l]
      <3>1. CASE l < i
        <4>1. l \in 1..n - 1 /\ t[l] = s[l]
          BY <1>0, <1>2, <3>1
        <4> QED
          BY <4>1
      <3>2. CASE l > i
        <4>1. l - 1 \in 1..n - 1 /\ t[l - 1] = s[l]
          BY <1>0, <1>2, <3>2
        <4> QED
          BY <4>1
      <3> QED
        BY <1>0, <1>6, <2>1, <3>1, <3>2
    <2> QED
      BY <1>2, <2>1, <2>2 DEF Owned
  <1> QED
    BY <1>1, <1>4, <1>5, <1>6

LEMMA RemoveOwns ==
    ASSUME NEW s, NEW rem, NEW new, Owns(s, rem), NEW i \in 1..Len(s),
           \A x \in Remote : new[x] = IF x = s[i].count THEN NULL ELSE rem[x]
    PROVE  Owns(Cache!Without(s, i), new)
  <1> DEFINE n == Len(s)
             from == [j \in 1..n - 1 |-> IF j < i THEN j ELSE j + 1]
  <1>0. s \in Seq(Cached) /\ n \in Nat /\ i \in 1..n /\ n < MAX_ENTRIES /\ MAX_ENTRIES \in Nat
    BY Constants DEF Owns
  <1>1. PICK t : t = Cache!Without(s, i)
    OBVIOUS
  <1>2. /\ t \in Seq(Cached) /\ Len(t) = n - 1
        /\ \A j \in 1..n - 1 : t[j] = IF j < i THEN s[j] ELSE s[j + 1]
    <2>1. s \in Seq(Cached)
      BY <1>0
    <2> QED
      BY <1>1, <2>1, WithoutShape
  <1>3. \A j, l \in 1..n : j # l => s[j].addr # s[l].addr /\ s[j].count # s[l].count
    BY DEF Owns, Distinct
  <1> HIDE DEF n
  <1>4. /\ \A j \in 1..n - 1 : from[j] \in 1..n /\ from[j] # i /\ t[j] = s[from[j]]
        /\ \A j, l \in 1..n - 1 : j # l => from[j] # from[l]
    <2>1. ASSUME NEW j \in 1..n - 1
          PROVE  from[j] \in 1..n /\ from[j] # i /\ t[j] = s[from[j]]
      BY <1>0, <1>2
    <2>2. ASSUME NEW j \in 1..n - 1, NEW l \in 1..n - 1, j # l
          PROVE  from[j] # from[l]
      BY <1>0, <2>2
    <2> QED
      BY <2>1, <2>2
  <1> HIDE DEF from
  <1>8. Distinct(t)
    <2> SUFFICES ASSUME NEW j \in 1..n - 1, NEW l \in 1..n - 1, j # l
                 PROVE  t[j].addr # t[l].addr /\ t[j].count # t[l].count
      BY <1>2 DEF Distinct
    <2>1. \E u, v \in 1..n : u # v /\ t[j] = s[u] /\ t[l] = s[v]
      BY <1>4
    <2> QED
      BY <1>3, <2>1
  <1>5. Keyed(t, new)
    <2> SUFFICES ASSUME NEW j \in 1..n - 1
                 PROVE  /\ new[t[j].count] \in RemoteCtx
                        /\ t[j].addr = hash_key(new[t[j].count].af, new[t[j].count].src)
      BY <1>2 DEF Keyed
    <2>1. PICK u \in 1..n : u # i /\ t[j] = s[u]
      BY <1>4
    <2>2. new[s[u].count] = rem[s[u].count]
      BY <1>0, <1>3, <2>1, EntryType DEF n
    <2> QED
      BY <2>1, <2>2 DEF Owns, Keyed, n
  <1>6. Complete(t, new)
    <2> SUFFICES ASSUME NEW x \in Remote, new[x] # NULL
                 PROVE  \E j \in 1..Len(t) : t[j].count = x
      BY DEF Complete
    <2>1. rem[x] # NULL /\ x # s[i].count
      OBVIOUS
    <2>2. PICK l \in 1..n : s[l].count = x
      BY <2>1 DEF Owns, Complete, n
    <2>3. CASE l < i
      <3>1. l \in 1..Len(t) /\ t[l] = s[l]
        BY <1>0, <1>2, <2>3
      <3> QED
        BY <2>2, <3>1
    <2>4. CASE l > i
      <3>1. l - 1 \in 1..Len(t) /\ t[l - 1] = s[l]
        BY <1>0, <1>2, <2>4
      <3> QED
        BY <2>2, <3>1
    <2> QED
      BY <1>0, <2>1, <2>2, <2>3, <2>4
  <1>7. Len(t) < MAX_ENTRIES
    BY <1>0, <1>2
  <1> QED
    BY <1>1, <1>2, <1>5, <1>6, <1>7, <1>8 DEF Owns

\* The remote of q is freed (Dangling, for one query).
Freeing(q, rs, how) == IF q.remote \in rs /\ q.freed = "no" THEN [q EXCEPT !.freed = how] ELSE q

LEMMA FreeingFields ==
    ASSUME NEW q \in QueryCtx, NEW rs, NEW how \in {"evicted", "timeout"}
    PROVE  LET n == Freeing(q, rs, how) IN
           /\ n \in QueryCtx
           /\ n.src = q.src /\ n.remote = q.remote /\ n.touched = q.touched
           /\ n.freed = IF q.remote \in rs /\ q.freed = "no" THEN how ELSE q.freed
  BY DEF Freeing, QueryCtx

LEMMA RemoveWaits ==
    ASSUME NEW s \in Seq(Cached), Distinct(s), NEW i \in 1..Len(s), NEW q, Waits(q, s)
    PROVE  Waits(Freeing(q, {s[i].count}, "timeout"), Cache!Without(s, i))
  <1> DEFINE n == Len(s)
             m == Freeing(q, {s[i].count}, "timeout")
  <1>0. n \in Nat /\ i \in 1..n
    OBVIOUS
  <1>1. PICK t : t = Cache!Without(s, i)
    OBVIOUS
  <1>2. /\ Len(t) = n - 1
        /\ \A j \in 1..n - 1 : t[j] = IF j < i THEN s[j] ELSE s[j + 1]
    BY <1>1, WithoutShape
  <1>3. /\ m \in QueryCtx
        /\ m.src = q.src /\ m.remote = q.remote /\ m.touched = q.touched
        /\ m.freed = IF q.remote = s[i].count /\ q.freed = "no" THEN "timeout" ELSE q.freed
    BY FreeingFields DEF Waits
  <1> HIDE DEF m
  <1>4. ASSUME m.remote # NULL, m.freed = "no"
        PROVE  InCache(m, t)
    <2>1. q.freed = "no" /\ q.remote # s[i].count /\ InCache(q, s)
      BY <1>3, <1>4 DEF Waits
    <2>2. PICK p \in 1..n : /\ s[p].count = q.remote
                            /\ s[p].addr = hash_key("unspec", q.src)
                            /\ \A j \in p + 1..n : s[j].addr \in q.touched
      BY <2>1 DEF InCache
    <2> HIDE DEF n
    <2>3. CASE p < i
      <3>1. p \in 1..Len(t) /\ t[p] = s[p]
        BY <1>0, <1>2, <2>3
      <3>2. ASSUME NEW j \in p + 1..Len(t)
            PROVE  t[j].addr \in m.touched
        <4>1. \E l \in p + 1..n : t[j] = s[l]
          BY <1>0, <1>2
        <4> QED
          BY <1>3, <2>2, <4>1
      <3> QED
        BY <1>3, <2>2, <3>1, <3>2 DEF InCache
    <2>4. CASE p > i
      <3>1. p - 1 \in 1..Len(t) /\ t[p - 1] = s[p]
        BY <1>0, <1>2, <2>4
      <3>2. ASSUME NEW j \in (p - 1) + 1..Len(t)
            PROVE  t[j].addr \in m.touched
        <4>1. j + 1 \in p + 1..n /\ t[j] = s[j + 1]
          BY <1>0, <1>2, <2>4
        <4> QED
          BY <1>3, <2>2, <4>1
      <3> QED
        BY <1>3, <2>2, <3>1, <3>2 DEF InCache
    <2> QED
      BY <1>0, <2>1, <2>2, <2>3, <2>4
  <1> QED
    BY <1>1, <1>3, <1>4 DEF Waits, m

\* The entries after the first, and a new one, have n different keys.
LEMMA FullRound ==
    ASSUME NEW s \in Seq(Cached), Distinct(s), NEW k, \A i \in 1..Len(s) : s[i].addr # k,
           Len(s) >= 1, NEW T, IsFiniteSet(T), k \in T,
           \A j \in 2..Len(s) : s[j].addr \in T
    PROVE  Cardinality(T) >= Len(s)
  <1> DEFINE n == Len(s)
             f == [j \in 1..n |-> IF j = 1 THEN k ELSE s[j].addr]
  <1>0. n \in Nat /\ n >= 1
    OBVIOUS
  <1>1. f \in [1..n -> T]
    BY <1>0
  <1>2. \A i, j \in 1..n : f[i] = f[j] => i = j
    <2> SUFFICES ASSUME NEW i \in 1..n, NEW j \in 1..n, i # j
                 PROVE  f[i] # f[j]
      OBVIOUS
    <2>1. s[i].addr # s[j].addr
      BY DEF Distinct
    <2>2. s[i].addr # k /\ s[j].addr # k
      OBVIOUS
    <2> QED
      BY <2>1, <2>2
  <1>3. f \in Injection(1..n, T)
    BY <1>1, <1>2 DEF Injection, IsInjective
  <1>4. Cardinality(1..n) <= Cardinality(T)
    BY <1>3, FS_Injection
  <1>5. Cardinality(1..n) = n
    BY <1>0, FS_Interval
  <1>6. Cardinality(T) \in Nat
    BY FS_CardinalityType
  <1> QED
    BY <1>0, <1>4, <1>5, <1>6

LEMMA InsertWaits ==
    ASSUME NEW s, NEW rem, Owns(s, rem), NEW k \in Key, ~Cache!cache_key_exist(s, k),
           NEW r \in Remote, rem[r] = NULL, NEW q, Waits(q, s)
    PROVE  LET t == Cache!cache_insert(s, k, r)
           IN  Waits(Freeing(Seen(q, k), Owned(s) \ Owned(t), "evicted"), t)
  <1> DEFINE n == Len(s)
             e == [addr |-> k, count |-> r]
             full == n + 1 = MAX_ENTRIES
             old == IF full THEN {s[1].count} ELSE {}
             v == Seen(q, k)
             m == Freeing(v, old, "evicted")
  <1>0. /\ s \in Seq(Cached) /\ Distinct(s) /\ n \in Nat /\ n < MAX_ENTRIES
        /\ MAX_ENTRIES \in Nat
    BY Constants DEF Owns
  <1>1. e \in Cached /\ e.addr = k
    BY DEF Cached
  <1>2. PICK t : t = Cache!cache_insert(s, k, r)
    OBVIOUS
  <1>3. IF full
        THEN /\ n >= 1 /\ Len(t) = n
             /\ \A j \in 1..n : t[j] = IF j < n THEN s[j + 1] ELSE e
        ELSE /\ Len(t) = n + 1 /\ n + 1 < MAX_ENTRIES
             /\ \A j \in 1..n + 1 : t[j] = IF j <= n THEN s[j] ELSE e
    BY <1>0, <1>1, <1>2, InsertShape
  <1>4. Owned(s) \ Owned(t) = old
    BY <1>1, <1>2, InsertDrops
  <1>5. /\ v \in QueryCtx /\ IsFiniteSet(v.touched)
        /\ v.src = q.src /\ v.remote = q.remote /\ v.freed = q.freed
        /\ q.touched \subseteq v.touched
        /\ k # hash_key("unspec", q.src) => k \in v.touched
        /\ Cardinality(v.touched) >= Cardinality(q.touched)
    BY SeenFields DEF Waits
  <1>6. /\ m \in QueryCtx
        /\ m.src = v.src /\ m.remote = v.remote /\ m.touched = v.touched
        /\ m.freed = IF v.remote \in old /\ v.freed = "no" THEN "evicted" ELSE v.freed
    BY <1>5, FreeingFields
  <1>7. Cardinality(q.touched) \in Nat /\ Cardinality(v.touched) \in Nat
    BY <1>5, FS_CardinalityType DEF Waits
  <1>8. \A i \in 1..n : s[i].addr # k
    BY DEF Cache!cache_key_exist, Cache!Find
  <1>9. ASSUME NEW p \in 1..n, s[p].addr = hash_key("unspec", q.src)
        PROVE  k \in v.touched
    BY <1>5, <1>8, <1>9
  <1>10. old # {} => n >= 1 /\ full /\ s[1].count \in Remote /\ s[1].count # NULL
    BY <1>0, <1>3, EntryType, Constants
  <1> HIDE DEF n, e, v, m, old
  <1>11. ASSUME m.freed = "evicted"
         PROVE  Cardinality(m.touched) >= MAX_ENTRIES - 1
    <2>1. CASE q.freed = "evicted"
      <3>1. Cardinality(q.touched) >= MAX_ENTRIES - 1
        BY <2>1 DEF Waits
      <3> QED
        BY <1>0, <1>5, <1>6, <1>7, <3>1
    <2>2. CASE q.freed # "evicted"
      <3>1. q.freed = "no" /\ q.remote \in old
        BY <1>5, <1>6, <1>11, <2>2
      <3>2. n >= 1 /\ full /\ q.remote = s[1].count /\ q.remote # NULL
        BY <1>10, <3>1 DEF old
      <3>3. PICK p \in 1..n : /\ s[p].count = q.remote
                              /\ s[p].addr = hash_key("unspec", q.src)
                              /\ \A j \in p + 1..n : s[j].addr \in q.touched
        BY <3>1, <3>2 DEF Waits, InCache, n
      <3>4. p = 1
        BY <1>0, <3>2, <3>3 DEF Distinct, n
      <3>5. k \in v.touched /\ \A j \in 2..n : s[j].addr \in v.touched
        BY <1>5, <1>9, <3>3, <3>4
      <3>6. Cardinality(v.touched) >= n
        BY <1>0, <1>5, <1>8, <3>2, <3>5, FullRound DEF n
      <3> QED
        BY <1>0, <1>6, <1>7, <3>2, <3>6
    <2> QED
      BY <2>1, <2>2
  <1>12. ASSUME m.remote # NULL, m.freed = "no"
         PROVE  InCache(m, t)
    <2>1. q.freed = "no" /\ q.remote # NULL /\ q.remote \notin old
      BY <1>5, <1>6, <1>12
    <2>2. PICK p \in 1..n : /\ s[p].count = q.remote
                            /\ s[p].addr = hash_key("unspec", q.src)
                            /\ \A j \in p + 1..n : s[j].addr \in q.touched
      BY <2>1 DEF Waits, InCache, n
    <2>3. k \in v.touched
      BY <1>9, <2>2
    <2>4. CASE full
      <3>1. p # 1
        BY <2>1, <2>2, <2>4 DEF old
      <3>2. p - 1 \in 1..Len(t) /\ t[p - 1] = s[p]
        BY <1>0, <1>3, <2>4, <3>1
      <3>3. ASSUME NEW j \in (p - 1) + 1..Len(t)
            PROVE  t[j].addr \in m.touched
        <4>1. (j + 1 \in p + 1..n /\ t[j] = s[j + 1]) \/ t[j] = e
          BY <1>0, <1>3, <2>4, <3>1
        <4> QED
          BY <1>1, <1>5, <1>6, <2>2, <2>3, <4>1
      <3> QED
        BY <1>5, <1>6, <2>2, <3>2, <3>3 DEF InCache
    <2>5. CASE ~full
      <3>1. p \in 1..Len(t) /\ t[p] = s[p]
        BY <1>0, <1>3, <2>5
      <3>2. ASSUME NEW j \in p + 1..Len(t)
            PROVE  t[j].addr \in m.touched
        <4>1. (j \in p + 1..n /\ t[j] = s[j]) \/ t[j] = e
          BY <1>0, <1>3, <2>5
        <4> QED
          BY <1>1, <1>5, <1>6, <2>2, <2>3, <4>1
      <3> QED
        BY <1>5, <1>6, <2>2, <3>1, <3>2 DEF InCache
    <2> QED
      BY <2>4, <2>5
  <1> QED
    BY <1>2, <1>4, <1>5, <1>6, <1>11, <1>12 DEF Waits, m, v

-----------------------------------------------------------------------------
(* The actions *)

\* The part of the invariant that relates the cache to what points into it.
Core ==
    /\ DOMAIN remote = Remote
    /\ Owns(conn_cache, remote)
    /\ \A q \in query : Waits(q, conn_cache)
    /\ \A o \in outside : Sent(o, remote)

\* The remote a lookup finds is in use and belongs to the client looked up.
LEMMA FoundRemote ==
    ASSUME NEW s, NEW rem, Owns(s, rem), NEW af \in AF, NEW c \in Client,
           Cache!cache_key_exist(s, hash_key(af, c))
    PROVE  LET r == s[Cache!Position(s, hash_key(af, c))].count
           IN  r \in Remote /\ rem[r] # NULL /\ rem[r].src = c
  <1> DEFINE i == Cache!Position(s, hash_key(af, c))
  <1>1. i \in 1..Len(s) /\ s[i].addr = hash_key(af, c)
    BY PositionFinds
  <1> HIDE DEF i
  <1>2. s[i].count \in Remote
    BY <1>1, EntryType DEF Owns
  <1>3. rem[s[i].count] \in RemoteCtx /\ s[i].addr = hash_key(rem[s[i].count].af, rem[s[i].count].src)
    BY <1>1 DEF Owns, Keyed
  <1> QED
    BY <1>1, <1>2, <1>3, Constants DEF hash_key, i

LEMMA SendToSent ==
    ASSUME \A o \in outside : Sent(o, remote), NEW c \in Client, NEW r \in Remote,
           NEW stale \in BOOLEAN, remote[r] # NULL, stale \/ remote[r].src = c,
           SendTo(c, r, stale), UNCHANGED remote
    PROVE  \A o \in outside' : Sent(o, remote')
  <1> DEFINE o == [src |-> c, remote |-> r, stale |-> stale]
  <1>1. Sent(o, remote)
    BY DEF Sent
  <1>2. \A x \in outside' : x \in outside \/ x = o
    BY DEF SendTo
  <1> QED
    BY <1>1, <1>2

\* A lookup that finds key k, on behalf of a query that is done or of none.
LEMMA LookupCore ==
    ASSUME Core, NEW k \in Key, Cache!cache_key_exist(conn_cache, k),
           NEW qs \in SUBSET query
    PROVE  /\ Owns(cache_lookup(k), remote)
           /\ \A q \in Noted(qs, k) : Waits(q, cache_lookup(k))
  <1>1. conn_cache \in Seq(Cached) /\ Distinct(conn_cache)
    BY DEF Core, Owns
  <1>2. Owns(cache_lookup(k), remote)
    BY TouchOwns DEF Core, cache_lookup
  <1>3. ASSUME NEW q \in Noted(qs, k)
        PROVE  Waits(q, cache_lookup(k))
    <2>1. PICK u \in qs : q = Seen(u, k)
      BY DEF Noted, Seen
    <2> QED
      BY <1>1, <2>1, TouchWaits DEF Core, cache_lookup
  <1> QED
    BY <1>2, <1>3

LEMMA NewRemoteCore ==
    ASSUME Core, NEW c \in Client, NEW af \in AF, NEW qs \in SUBSET query,
           ~Cache!cache_key_exist(conn_cache, hash_key(af, c)), new_remote(c, af, qs)
    PROVE  Core' /\ (phase' = phase \/ phase' = "fatal")
  <1> DEFINE k == hash_key(af, c)
  <1>0. k \in Key
    BY DEF hash_key, Key
  <1>1. CASE query' = qs /\ UNCHANGED <<conn_cache, remote, outside>>
    BY <1>1 DEF Core, new_remote
  <1>2. ASSUME NEW r \in Remote \ Live, cache_insert(k, r, af, c, qs)
        PROVE  Core'
    <2> DEFINE new == Cache!cache_insert(conn_cache, k, r)
               old == Owned(conn_cache) \ Owned(new)
    <2>1. /\ conn_cache' = new
          /\ remote' = [Freed(old) EXCEPT ![r] = [af |-> af, src |-> c]]
          /\ outside' = Closed(old) \cup {[src |-> c, remote |-> r, stale |-> FALSE]}
          /\ query' = Dangling(Noted(qs, k), old, "evicted")
      BY <1>2 DEF cache_insert
    <2>2. r \in Remote /\ remote[r] = NULL
      BY DEF Live
    <2>3. /\ DOMAIN remote' = Remote
          /\ \A x \in Remote : remote'[x] = IF x = r THEN [af |-> af, src |-> c]
                                            ELSE IF x \in old THEN NULL ELSE remote[x]
      BY <2>1, <2>2 DEF Freed
    <2>4. PICK rem : rem = remote'
      OBVIOUS
    <2>5. \A x \in Remote : rem[x] = IF x = r THEN [af |-> af, src |-> c]
                                     ELSE IF x \in old THEN NULL ELSE remote[x]
      BY <2>3, <2>4
    <2>6. Owns(new, rem)
      BY <2>2, <2>5, InsertOwns DEF Core
    <2>7. ASSUME NEW q \in query'
          PROVE  Waits(q, new)
      <3>1. PICK v \in Noted(qs, k) : q = Freeing(v, old, "evicted")
        BY <2>1 DEF Dangling, Freeing
      <3>2. PICK u \in qs : v = Seen(u, k)
        BY DEF Noted, Seen
      <3>3. Waits(u, conn_cache)
        BY DEF Core
      <3> HIDE DEF k
      <3> QED
        BY <1>0, <2>2, <3>1, <3>2, <3>3, InsertWaits DEF Core, k
    <2>8. ASSUME NEW o \in outside'
          PROVE  Sent(o, rem)
      <3> HIDE DEF old
      <3>1. CASE o = [src |-> c, remote |-> r, stale |-> FALSE]
        <4>1. rem[r] = [af |-> af, src |-> c] /\ [af |-> af, src |-> c] \in RemoteCtx
          BY <2>2, <2>5 DEF RemoteCtx
        <4> QED
          BY <2>2, <3>1, <4>1, Constants DEF Sent
      <3>2. CASE o \in outside /\ o.remote \notin old
        <4>1. Sent(o, remote) /\ o.remote \in Remote /\ o.remote # r
          BY <2>2, <3>2 DEF Core, Sent
        <4>2. rem[o.remote] = remote[o.remote]
          BY <2>5, <3>2, <4>1
        <4> QED
          BY <4>1, <4>2 DEF Sent
      <3> QED
        BY <2>1, <3>1, <3>2 DEF Closed
    <2> QED
      BY <2>1, <2>3, <2>4, <2>6, <2>7, <2>8 DEF Core
  <1> QED
    BY <1>1, <1>2 DEF new_remote

LEMMA UnspecKey ==
    ASSUME NEW c \in Client
    PROVE  "unspec" \in AF /\ hash_key("unspec", c) \in Key
  BY DEF AF, Key, hash_key

\* A query is made with the remote the lookup has just put last.
LEMMA NewQueryWaits ==
    ASSUME Core, NEW c \in Client, datagrams' \in 1..MaxDatagrams
    PROVE  Waits(new_query_ctx(c), cache_lookup(hash_key("unspec", c)))
  <1> DEFINE k == hash_key("unspec", c)
             i == Cache!Position(conn_cache, k)
             q == new_query_ctx(c)
             found == Cache!cache_key_exist(conn_cache, k)
  <1>1. conn_cache \in Seq(Cached) /\ Len(conn_cache) \in Nat
    BY DEF Core, Owns
  <1>2. /\ q.id = datagrams' /\ q.src = c /\ q.freed = "no" /\ q.touched = {}
        /\ q.remote = IF found THEN conn_cache[i].count ELSE NULL
    BY DEF new_query_ctx
  <1>3. found => i \in 1..Len(conn_cache) /\ conn_cache[i].addr = k /\ conn_cache[i].count \in Remote
    BY <1>1, PositionFinds, EntryType
  <1>4. q \in QueryCtx
    BY <1>3 DEF new_query_ctx, QueryCtx
  <1>5. IsFiniteSet(q.touched)
    BY <1>2, FS_EmptySet
  <1>6. ASSUME q.remote # NULL
        PROVE  InCache(q, cache_lookup(k))
    <2>0. found
      BY <1>2, <1>6
    <2>1. PICK t : t = cache_lookup(k)
      OBVIOUS
    <2>2. /\ Len(t) = Len(conn_cache)
          /\ \A j \in 1..Len(conn_cache) :
               t[j] = IF j < i THEN conn_cache[j]
                      ELSE IF j < Len(conn_cache) THEN conn_cache[j + 1] ELSE conn_cache[i]
      BY <1>1, <2>0, <2>1, TouchShape DEF cache_lookup
    <2> HIDE DEF i, k, q
    <2>3. Len(t) \in 1..Len(t) /\ t[Len(t)] = conn_cache[i]
      BY <1>1, <1>3, <2>0, <2>2
    <2>4. \A j \in Len(t) + 1..Len(t) : t[j].addr \in q.touched
      BY <1>1, <2>2
    <2> QED
      BY <1>2, <1>3, <2>0, <2>1, <2>3, <2>4 DEF InCache, k
  <1> HIDE DEF q, k
  <1> QED
    BY <1>2, <1>4, <1>5, <1>6 DEF Waits, q, k

LEMMA InvIsCore == Inv <=> Core /\ ReplyOK /\ PhaseOK /\ datagrams \in 0..MaxDatagrams
  BY DEF Inv, Core

LEMMA RunPhase ==
    ASSUME PhaseOK, phase \in {"run", "cancel"}, phase' \in {phase, "fatal", "undefined"}
    PROVE  PhaseOK'
  BY DEF PhaseOK

LEMMA RecvInv ==
    ASSUME Inv, NEW c \in Client, NEW d \in Family \cup {"domain"}, server_recv_cb(c, d)
    PROVE  Inv'
  <1>1. /\ Core /\ phase = "run" /\ datagrams \in 0..MaxDatagrams /\ datagrams < MaxDatagrams
        /\ datagrams' = datagrams + 1 /\ UNCHANGED reply /\ MaxDatagrams \in Nat
    BY InvIsCore, Constants DEF server_recv_cb
  <1>2. datagrams' \in 1..MaxDatagrams /\ datagrams' \in 0..MaxDatagrams
    BY <1>1
  <1>3. ASSUME RecvDomain(c)
        PROVE  Core' /\ phase' = "run"
    <2> DEFINE k == hash_key("unspec", c)
    <2>1. k \in Key
      BY UnspecKey
    <2>2. /\ conn_cache' = cache_lookup(k) /\ UNCHANGED <<remote, outside, phase>>
          /\ query' = (IF Cache!cache_key_exist(conn_cache, k) THEN Noted(query, k) ELSE query)
                          \cup {new_query_ctx(c)}
      BY <1>3 DEF RecvDomain
    <2>3. Waits(new_query_ctx(c), cache_lookup(k))
      BY <1>1, <1>2, NewQueryWaits
    <2> HIDE DEF k
    <2>4. CASE Cache!cache_key_exist(conn_cache, k)
      <3>1. /\ Owns(cache_lookup(k), remote)
            /\ \A q \in Noted(query, k) : Waits(q, cache_lookup(k))
        BY <1>1, <2>1, <2>4, LookupCore
      <3>2. \A q \in query' : Waits(q, cache_lookup(k))
        BY <2>2, <2>3, <2>4, <3>1
      <3> QED
        BY <1>1, <2>2, <3>1, <3>2 DEF Core
    <2>5. CASE ~Cache!cache_key_exist(conn_cache, k)
      <3>1. cache_lookup(k) = conn_cache
        BY <2>5 DEF cache_lookup, Cache!Touch
      <3>2. \A q \in query' : Waits(q, conn_cache)
        BY <1>1, <2>2, <2>3, <2>5, <3>1 DEF Core
      <3> QED
        BY <1>1, <2>2, <3>1, <3>2 DEF Core
    <2> QED
      BY <2>4, <2>5
  <1>4. ASSUME d \in Family, RecvAddress(c, d)
        PROVE  Core' /\ phase' \in {"run", "fatal"}
    <2> DEFINE k == hash_key(d, c)
               r == conn_cache[Cache!Position(conn_cache, k)].count
    <2>1. d \in AF /\ k \in Key
      BY <1>4 DEF AF, Key, hash_key
    <2>2. CASE Cache!cache_key_exist(conn_cache, k)
      <3>1. /\ conn_cache' = cache_lookup(k) /\ query' = Noted(query, k)
            /\ SendTo(c, r, FALSE) /\ UNCHANGED <<remote, phase>>
        BY <1>4, <2>2 DEF RecvAddress
      <3>2. r \in Remote /\ remote[r] # NULL /\ remote[r].src = c
        BY <1>1, <2>1, <2>2, FoundRemote DEF Core
      <3>3. \A o \in outside' : Sent(o, remote')
        BY <1>1, <3>1, <3>2, SendToSent DEF Core
      <3>4. /\ Owns(cache_lookup(k), remote)
            /\ \A q \in Noted(query, k) : Waits(q, cache_lookup(k))
        BY <1>1, <2>1, <2>2, LookupCore
      <3> QED
        BY <1>1, <3>1, <3>3, <3>4 DEF Core
    <2>3. CASE ~Cache!cache_key_exist(conn_cache, k)
      <3>1. new_remote(c, d, query)
        BY <1>4, <2>3 DEF RecvAddress
      <3> QED
        BY <1>1, <2>1, <2>3, <3>1, NewRemoteCore
    <2> QED
      BY <2>2, <2>3
  <1>5. Core' /\ phase' \in {"run", "fatal"}
    BY <1>3, <1>4 DEF server_recv_cb
  <1>6. PhaseOK' /\ ReplyOK'
    BY <1>1, <1>5, InvIsCore, RunPhase DEF ReplyOK
  <1> QED
    BY <1>2, <1>5, <1>6, InvIsCore DEF Inv, Core

LEMMA ResolvInv ==
    ASSUME Inv, NEW q \in query, NEW resolved \in BOOLEAN, resolv_cb(q, resolved)
    PROVE  Inv'
  <1> DEFINE k == hash_key("unspec", q.src)
             left == query \ {q}
             r == conn_cache[Cache!Position(conn_cache, k)].count
  <1>1. /\ Core /\ phase \in {"run", "cancel"} /\ datagrams \in 0..MaxDatagrams
        /\ UNCHANGED <<reply, datagrams>>
    BY InvIsCore DEF resolv_cb
  <1>2. /\ Waits(q, conn_cache) /\ q.src \in Client /\ q.remote \in Remote \cup {NULL}
        /\ (q.freed # "no") \in BOOLEAN
    BY <1>1 DEF Core, Waits, QueryCtx
  <1>3. k \in Key /\ "unspec" \in AF
    BY <1>2, UnspecKey
  <1>4. \A u \in left : Waits(u, conn_cache)
    BY <1>1 DEF Core
  <1>5. CASE query' = left /\ UNCHANGED <<conn_cache, remote, outside, phase>>
    <2>1. Core'
      BY <1>1, <1>4, <1>5 DEF Core
    <2> QED
      BY <1>1, <1>5, <2>1, InvIsCore, RunPhase DEF Inv, Core, ReplyOK
  <1>6. CASE /\ q.remote \in Live /\ query' = left
             /\ SendTo(q.src, q.remote, q.freed # "no")
             /\ UNCHANGED <<conn_cache, remote, phase>>
    <2>1. q.remote \in Remote /\ remote[q.remote] # NULL /\ q.remote # NULL
      BY <1>6, Constants DEF Live
    <2>2. q.freed # "no" \/ remote[q.remote].src = q.src
      <3>1. SUFFICES ASSUME q.freed = "no" PROVE remote[q.remote].src = q.src
        OBVIOUS
      <3>2. PICK p \in 1..Len(conn_cache) :
                conn_cache[p].count = q.remote /\ conn_cache[p].addr = hash_key("unspec", q.src)
        BY <1>2, <2>1, <3>1 DEF Waits, InCache
      <3>3. conn_cache[p].addr = hash_key(remote[q.remote].af, remote[q.remote].src)
        BY <1>1, <3>2 DEF Core, Owns, Keyed
      <3> QED
        BY <3>2, <3>3 DEF hash_key
    <2>3. \A o \in outside' : Sent(o, remote')
      BY <1>1, <1>2, <1>6, <2>1, <2>2, SendToSent DEF Core
    <2>4. Core'
      BY <1>1, <1>4, <1>6, <2>3 DEF Core
    <2> QED
      BY <1>1, <1>6, <2>4, InvIsCore, RunPhase DEF Inv, Core, ReplyOK
  <1>7. CASE /\ q.remote \in Remote \ Live /\ query' = left /\ UseAfterFree(q)
             /\ UNCHANGED <<conn_cache, remote>>
    <2>1. \A o \in outside' : Sent(o, remote')
      <3>1. ASSUME NEW x \in Live
            PROVE  Sent([src |-> q.src, remote |-> x, stale |-> TRUE], remote)
        BY <1>2 DEF Live, Sent
      <3> QED
        BY <1>1, <1>7, <3>1 DEF UseAfterFree, Core
    <2>2. Core'
      BY <1>1, <1>4, <1>7, <2>1 DEF Core
    <2>3. phase' \in {phase, "undefined"}
      BY <1>1, <1>7 DEF UseAfterFree
    <2> QED
      BY <1>1, <2>2, <2>3, InvIsCore, RunPhase DEF Inv, Core, ReplyOK
  <1>8. CASE /\ Cache!cache_key_exist(conn_cache, k)
             /\ query' = Noted(left, k) /\ conn_cache' = cache_lookup(k)
             /\ SendTo(q.src, r, FALSE)
             /\ UNCHANGED <<remote, phase>>
    <2>1. r \in Remote /\ remote[r] # NULL /\ remote[r].src = q.src
      BY <1>1, <1>2, <1>3, <1>8, FoundRemote DEF Core
    <2>2. \A o \in outside' : Sent(o, remote')
      BY <1>1, <1>2, <1>8, <2>1, SendToSent DEF Core
    <2>3. /\ Owns(cache_lookup(k), remote)
          /\ \A u \in Noted(left, k) : Waits(u, cache_lookup(k))
      BY <1>1, <1>3, <1>8, LookupCore
    <2>4. Core'
      BY <1>1, <1>8, <2>2, <2>3 DEF Core
    <2> QED
      BY <1>1, <1>8, <2>4, InvIsCore, RunPhase DEF Inv, Core, ReplyOK
  <1>9. CASE ~Cache!cache_key_exist(conn_cache, k) /\ new_remote(q.src, "unspec", left)
    <2>1. Core' /\ (phase' = phase \/ phase' = "fatal")
      BY <1>1, <1>2, <1>3, <1>9, NewRemoteCore
    <2> QED
      BY <1>1, <2>1, InvIsCore, RunPhase DEF Inv, Core, ReplyOK
  <1> HIDE DEF k, left, r
  <1> QED
    BY <1>5, <1>6, <1>7, <1>8, <1>9 DEF resolv_cb, k, left, r

LEMMA RemoteRecvInv ==
    ASSUME Inv, NEW o \in outside, remote_recv_cb(o)
    PROVE  Inv'
  <1>1. Sent(o, remote) /\ o.remote \in Remote
    BY DEF Inv, Sent
  <1>2. remote[o.remote] \in RemoteCtx
    BY <1>1 DEF Inv, Sent, Owns, Keyed, Complete
  <1>3. reply' = [src |-> o.src, to |-> remote[o.remote].src, stale |-> o.stale]
    BY DEF remote_recv_cb
  <1>4. /\ reply' \in [src : Client, to : Client, stale : BOOLEAN]
        /\ reply'.stale \/ reply'.to = reply'.src
    BY <1>1, <1>2, <1>3 DEF Sent, RemoteCtx
  <1> QED
    BY <1>4 DEF Inv, remote_recv_cb, ReplyOK, PhaseOK

LEMMA TimeoutInv ==
    ASSUME Inv, NEW r \in Live, remote_timeout_cb(r)
    PROVE  Inv'
  <1> DEFINE k == hash_key(remote[r].af, remote[r].src)
  <1>1. Core /\ conn_cache \in Seq(Cached) /\ Distinct(conn_cache)
    BY InvIsCore DEF Core, Owns
  <1>2. r \in Remote /\ remote[r] # NULL
    BY DEF Live
  <1>3. PICK i \in 1..Len(conn_cache) : conn_cache[i].count = r
    BY <1>1, <1>2 DEF Core, Owns, Complete
  <1>4. conn_cache[i].addr = k
    BY <1>1, <1>3 DEF Core, Owns, Keyed
  <1>5. Cache!cache_remove(conn_cache, k) = Cache!Without(conn_cache, i)
    BY <1>1, <1>3, <1>4, OnePosition DEF Cache!cache_remove
  <1>6. Owned(conn_cache) \ Owned(Cache!Without(conn_cache, i)) = {r}
    BY <1>1, <1>3, RemoveDrops
  <1>7. /\ phase = "run" /\ conn_cache' = Cache!Without(conn_cache, i)
        /\ remote' = Freed({r}) /\ query' = Dangling(query, {r}, "timeout")
        /\ outside' = Closed({r}) /\ UNCHANGED <<reply, phase, datagrams>>
    BY <1>5, <1>6 DEF remote_timeout_cb
  <1>8. PICK rem : rem = remote'
    OBVIOUS
  <1>9. DOMAIN rem = Remote /\ \A x \in Remote : rem[x] = IF x = r THEN NULL ELSE remote[x]
    BY <1>7, <1>8 DEF Freed
  <1>10. Owns(Cache!Without(conn_cache, i), rem)
    BY <1>1, <1>3, <1>9, RemoveOwns DEF Core
  <1>11. ASSUME NEW q \in query'
         PROVE  Waits(q, Cache!Without(conn_cache, i))
    <2>1. PICK u \in query : q = Freeing(u, {r}, "timeout")
      BY <1>7 DEF Dangling, Freeing
    <2> QED
      BY <1>1, <1>3, <2>1, RemoveWaits DEF Core
  <1>12. ASSUME NEW o \in outside'
         PROVE  Sent(o, rem)
    <2>1. o \in outside /\ o.remote # r
      BY <1>7 DEF Closed
    <2> QED
      BY <1>1, <1>9, <2>1 DEF Core, Sent
  <1>13. Core'
    BY <1>7, <1>8, <1>9, <1>10, <1>11, <1>12 DEF Core
  <1> QED
    BY <1>7, <1>13, InvIsCore, RunPhase DEF Inv, Core, ReplyOK

LEMMA ExitInv ==
    ASSUME Inv, resolv_shutdown \/ free_udprelay
    PROVE  Inv'
  <1>1. CASE resolv_shutdown
    BY <1>1 DEF Inv, resolv_shutdown, PhaseOK, ReplyOK
  <1>2. CASE free_udprelay
    <2>1. /\ phase = "cancel" /\ phase' = "gone" /\ conn_cache' = <<>>
          /\ remote' = Freed(Owned(conn_cache)) /\ outside' = Closed(Owned(conn_cache))
          /\ UNCHANGED <<query, reply, datagrams>> /\ query = {}
      BY <1>2 DEF free_udprelay
    <2>2. \A x \in Remote : remote[x] # NULL => x \in Owned(conn_cache)
      BY DEF Inv, Owns, Complete, Owned
    <2>3. DOMAIN remote' = Remote /\ \A x \in Remote : remote'[x] = NULL
      BY <2>1, <2>2 DEF Freed
    <2>4. outside' = {}
      BY <2>1, <2>2 DEF Closed, Inv, Sent
    <2>5. Owns(<<>>, remote')
      BY <2>3, Constants DEF Owns, Distinct, Keyed, Complete
    <2> QED
      BY <2>1, <2>3, <2>4, <2>5 DEF Inv, PhaseOK, ReplyOK
  <1> QED
    BY <1>1, <1>2

LEMMA InvInit == init_udprelay => Inv
  <1> SUFFICES ASSUME init_udprelay PROVE Inv
    OBVIOUS
  <1>1. Owns(conn_cache, remote)
    BY Constants DEF init_udprelay, Owns, Distinct, Keyed, Complete
  <1> QED
    BY <1>1, Constants DEF init_udprelay, Inv, ReplyOK, PhaseOK

LEMMA InvNext == Inv /\ [Next]_vars => Inv'
  <1> SUFFICES ASSUME Inv, [Next]_vars PROVE Inv'
    OBVIOUS
  <1>1. CASE UNCHANGED vars
    BY <1>1 DEF vars, Inv, ReplyOK, PhaseOK
  <1>2. CASE Next
    BY <1>2, RecvInv, ResolvInv, RemoteRecvInv, TimeoutInv, ExitInv DEF Next
  <1> QED
    BY <1>1, <1>2

-----------------------------------------------------------------------------
(* The theorems *)

\* The invariant: the cache owns exactly the remotes in use, each under the key its
\* timeout computes again (udprelay.c:571), and every query that waits for resolv_cb
\* with a remote not freed finds it in the cache, older than what it has seen used.
THEOREM UdpInvariant == Spec => []Inv
  BY InvInit, InvNext, PTL DEF Spec

\* No remote_ctx is freed twice, lost or left over, for a cache of any capacity:
\* cache_insert (cache.c:270) evicts, remote_timeout_cb (udprelay.c:561) removes, and
\* free_udprelay (udprelay.c:1366) frees exactly what the cache owns, also after the
\* queries that ares_cancel ended have inserted remotes (resolv.c:182-189).
THEOREM CacheOwnsItsRemotes == Spec => []CacheOwnsRemotes
  <1>1. Inv => CacheOwnsRemotes
    <2> SUFFICES ASSUME Inv PROVE CacheOwnsRemotes
      OBVIOUS
    <2>1. \A r \in Live : r \in Owned(conn_cache) /\ remote[r] \in RemoteCtx
      BY DEF Inv, Owns, Complete, Keyed, Owned, Live
    <2>2. \A i \in 1..Len(conn_cache) : conn_cache[i].count \in Live
      BY EntryType, Constants DEF Inv, Owns, Keyed, Live
    <2>3. Live = Owned(conn_cache)
      BY <2>1, <2>2 DEF Owned
    <2>4. TypeOK
      BY <2>1 DEF TypeOK, Inv, Owns, Cached, RemoteCtx, Waits, QueryCtx, Sent, ReplyOK, PhaseOK
    <2>5. phase = "gone" => Live = {} /\ query = {} /\ outside = {}
      <3> SUFFICES ASSUME phase = "gone" PROVE Live = {} /\ query = {} /\ outside = {}
        OBVIOUS
      <3>1. conn_cache = <<>> /\ query = {}
        BY DEF Inv, PhaseOK
      <3>2. Live = {}
        BY <2>3, <3>1 DEF Owned
      <3> QED
        BY <3>1, <3>2 DEF Inv, Sent, Live
    <2> QED
      BY <2>3, <2>4, <2>5 DEF CacheOwnsRemotes, Inv, Owns, Distinct, Keyed
  <1> QED
    BY <1>1, UdpInvariant, PTL

\* An answer goes to the client whose datagram was sent (udprelay.c:820), although
\* sockets and addresses are used again, unless the remote of a waiting query was
\* freed under it (udprelay.c:592).
THEOREM AnswersReach == Spec => []AnswersReachTheirClient
  <1>1. Inv => AnswersReachTheirClient
    BY DEF Inv, AnswersReachTheirClient, Sent, ReplyOK, Live
  <1> QED
    BY <1>1, UdpInvariant, PTL

\* The LRU order of the cache (cache_lookup and cache_insert, cache.c) protects the
\* remote of a waiting query: before it is evicted, all other places of the cache
\* have been given to remotes used since the query began.
THEOREM EvictionIsLate == Spec => []EvictionNeedsAFullRound
  <1>1. Inv => EvictionNeedsAFullRound
    BY DEF Inv, Waits, EvictionNeedsAFullRound
  <1> QED
    BY <1>1, UdpInvariant, PTL
==============================================================================
