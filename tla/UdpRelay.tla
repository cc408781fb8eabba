------------------------------- MODULE UdpRelay -------------------------------
(***************************************************************************)
(* The UDP relay of ss-server (udprelay.c, built with MODULE_REMOTE).  A   *)
(* remote_ctx is a socket that carries the datagrams of one client; the    *)
(* connection cache owns it and frees it on eviction, on timeout and at    *)
(* exit.  A datagram for a domain name waits for the resolver in a         *)
(* query_ctx, which may hold a pointer to the client's remote_ctx.         *)
(*                                                                         *)
(* A remote_ctx is known by its address, and a freed address may be given  *)
(* to the next one.  Timers keep no time: a remote may time out at any     *)
(* moment.  The resolver may be slower than that (two tries of 3 s and 6 s *)
(* for every nameserver, and MIN_UDP_TIMEOUT is 10 s).                     *)
(***************************************************************************)
EXTENDS Naturals, Sequences, FiniteSets

CONSTANTS
    Client,       \* addresses datagrams come from
    Family,       \* address families of numeric destinations
    Remote,       \* addresses malloc returns for a remote_ctx
    NULL,
    MAX_ENTRIES,  \* MAX_UDP_CONN_NUM
    MaxDatagrams  \* bound: datagrams received from clients

ASSUME UdpAssumption ==
    /\ MAX_ENTRIES \in Nat \ {0, 1}
    /\ MaxDatagrams \in Nat
    /\ NULL \notin Remote
    /\ NULL \notin [af : {"unspec"} \cup Family, src : Client]
    /\ "unspec" \notin Family

VARIABLES
    conn_cache,  \* the cache of cache.c: an entry's count is the remote_ctx it owns
    remote,      \* the af and src_addr of the remote_ctx at each address, or NULL
    query,       \* the queries at the resolver, with what befell them since
    outside,     \* datagrams sent that may still be answered on their socket
    reply,       \* the last reply given to a client
    phase,       \* "run", the exit ("cancel", "gone"), or "undefined" and "fatal"
    datagrams

vars == <<conn_cache, remote, query, outside, reply, phase, datagrams>>

\* The lookups, insertions and removals of cache.c, with their LRU order.
Cache == INSTANCE BlockList WITH
    Addr <- ({"unspec"} \cup Family) \X Client,
    MAX_TRIES <- 0, MALICIOUS <- 1, MALFORMED <- 1

\* The key under which a client's remote is kept; a domain has family AF_UNSPEC.
hash_key(af, c) == <<af, c>>

AF == {"unspec"} \cup Family

Key == AF \X Client

Live == {r \in Remote : remote[r] # NULL}

Owned(cache) == {cache[i].count : i \in 1..Len(cache)}

TypeOK ==
    /\ conn_cache \in Seq([addr : Key, count : Remote])
    /\ DOMAIN remote = Remote /\ \A r \in Live : remote[r] \in [af : AF, src : Client]
    /\ \A q \in query :
         /\ q.id \in 1..MaxDatagrams /\ q.src \in Client /\ q.remote \in Remote \cup {NULL}
         /\ q.freed \in {"no", "evicted", "timeout"} /\ q.touched \subseteq Key
    /\ outside \subseteq [src : Client, remote : Remote, stale : BOOLEAN]
    /\ reply = NULL \/ reply \in [src : Client, to : Client, stale : BOOLEAN]
    /\ phase \in {"run", "cancel", "gone", "undefined", "fatal"}
    /\ datagrams \in 0..MaxDatagrams

init_udprelay ==
    /\ conn_cache = <<>> /\ remote = [r \in Remote |-> NULL]
    /\ query = {} /\ outside = {} /\ reply = NULL
    /\ phase = "run" /\ datagrams = 0

-----------------------------------------------------------------------------
(* Helpers *)

\* A lookup of key k that finds it: every waiting query sees k become younger.
Noted(qs, k) ==
    {[q EXCEPT !.touched = @ \cup ({k} \ {hash_key("unspec", q.src)})] : q \in qs}

\* close_and_free_remote, for the remotes rs.
Freed(rs) == [r \in Remote |-> IF r \in rs THEN NULL ELSE remote[r]]

\* The queries when the remotes rs are freed: some now hold a dangling pointer.
Dangling(qs, rs, how) ==
    {IF q.remote \in rs /\ q.freed = "no" THEN [q EXCEPT !.freed = how] ELSE q : q \in qs}

\* A closed socket receives nothing more.
Closed(rs) == {o \in outside : o.remote \notin rs}

\* sendto for client c on the socket of r fails or succeeds.
SendTo(c, r, stale) ==
    \/ UNCHANGED outside
    \/ outside' = outside \cup {[src |-> c, remote |-> r, stale |-> stale]}

\* The new remote r, which has sent its first datagram, enters the cache; the
\* free_cb of the remote that has to leave frees it.
cache_insert(k, r, af, c, qs) ==
    LET new == Cache!cache_insert(conn_cache, k, r)
        old == Owned(conn_cache) \ Owned(new)
    IN  /\ conn_cache' = new
        /\ remote' = [Freed(old) EXCEPT ![r] = [af |-> af, src |-> c]]
        /\ outside' = Closed(old) \cup {[src |-> c, remote |-> r, stale |-> FALSE]}
        /\ query' = Dangling(Noted(qs, k), old, "evicted")

\* A miss: a socket cannot be made, or its first sendto fails and the new
\* remote is freed, or it is inserted with the family it is given.  A bind that
\* fails ends the process.
new_remote(c, af, qs) ==
    \/ /\ query' = qs
       /\ UNCHANGED <<conn_cache, remote, outside, phase>>
    \/ /\ phase' = "fatal" /\ query' = qs
       /\ UNCHANGED <<conn_cache, remote, outside>>
    \/ /\ UNCHANGED phase
       /\ \E r \in Remote \ Live : cache_insert(hash_key(af, c), r, af, c, qs)

-----------------------------------------------------------------------------
(* The callbacks of the event loop *)

\* Mutant: a query takes the remote of any client that has asked for a name.
new_query_ctx_AnyClient(c) ==
    LET mine == {i \in 1..Len(conn_cache) : conn_cache[i].addr[1] = "unspec"}
    IN  [id |-> datagrams', src |-> c, freed |-> "no", touched |-> {},
         remote |-> IF mine # {} THEN conn_cache[CHOOSE i \in mine : TRUE].count ELSE NULL]

\* A query carries the remote that the lookup found, if it found one.
new_query_ctx(c) ==
    LET k == hash_key("unspec", c)
    IN  [id |-> datagrams', src |-> c, freed |-> "no", touched |-> {},
         remote |-> IF Cache!cache_key_exist(conn_cache, k)
                    THEN conn_cache[Cache!Position(conn_cache, k)].count ELSE NULL]

\* Mutant: a lookup leaves the entry where it is.
cache_lookup_NoTouch(k) == conn_cache

\* What a lookup leaves: the entry found is now the youngest.
cache_lookup(k) == Cache!Touch(conn_cache, k)

\* Mutant: the remote is kept under the family new_remote gave it.
RecvAddress_Unspec(c, d) ==
    LET k == hash_key(d, c)
    IN  IF Cache!cache_key_exist(conn_cache, k)
        THEN /\ conn_cache' = cache_lookup(k)
             /\ query' = Noted(query, k)
             /\ SendTo(c, conn_cache[Cache!Position(conn_cache, k)].count, FALSE)
             /\ UNCHANGED <<remote, phase>>
        ELSE new_remote(c, "unspec", query)

\* A datagram for a numeric destination goes out at once, on the client's
\* remote of that family.
RecvAddress(c, d) ==
    LET k == hash_key(d, c)
    IN  IF Cache!cache_key_exist(conn_cache, k)
        THEN /\ conn_cache' = cache_lookup(k)
             /\ query' = Noted(query, k)
             /\ SendTo(c, conn_cache[Cache!Position(conn_cache, k)].count, FALSE)
             /\ UNCHANGED <<remote, phase>>
        ELSE new_remote(c, d, query)

\* A datagram for a domain name waits for resolv_cb.
RecvDomain(c) ==
    LET k == hash_key("unspec", c)
    IN  /\ conn_cache' = cache_lookup(k)
        /\ query' = (IF Cache!cache_key_exist(conn_cache, k) THEN Noted(query, k) ELSE query)
                        \cup {new_query_ctx(c)}
        /\ UNCHANGED <<remote, outside, phase>>

server_recv_cb(c, d) ==
    /\ phase = "run" /\ datagrams < MaxDatagrams
    /\ datagrams' = datagrams + 1
    /\ IF d = "domain" THEN RecvDomain(c) ELSE RecvAddress(c, d)
    /\ UNCHANGED reply

\* Undefined behaviour: the remote_ctx of q has been freed.  Its fd is closed
\* and sendto fails, or the number belongs to another socket by now, or the
\* memory is gone.
UseAfterFree(q) ==
    \/ UNCHANGED <<outside, phase>>
    \/ /\ \E r \in Live : outside' = outside \cup {[src |-> q.src, remote |-> r, stale |-> TRUE]}
       /\ UNCHANGED phase
    \/ phase' = "undefined" /\ UNCHANGED outside

\* Without an address the query ends.  With one, its datagram is sent through
\* the remote it holds, else through the one in the cache, else a new one.  A
\* cancelled query has an address if only the request for the other family was
\* still open; as any query may be in that state, resolved is open there too.
resolv_cb(q, resolved) ==
    LET k    == hash_key("unspec", q.src)
        left == query \ {q}
    IN  /\ phase \in {"run", "cancel"}
        /\ \/ /\ ~resolved /\ query' = left
              /\ UNCHANGED <<conn_cache, remote, outside, phase>>
           \/ /\ resolved /\ q.remote \in Live
              /\ query' = left /\ SendTo(q.src, q.remote, q.freed # "no")
              /\ UNCHANGED <<conn_cache, remote, phase>>
           \/ /\ resolved /\ q.remote \in Remote \ Live
              /\ query' = left /\ UseAfterFree(q)
              /\ UNCHANGED <<conn_cache, remote>>
           \/ /\ resolved /\ q.remote = NULL /\ Cache!cache_key_exist(conn_cache, k)
              /\ query' = Noted(left, k) /\ conn_cache' = cache_lookup(k)
              /\ SendTo(q.src, conn_cache[Cache!Position(conn_cache, k)].count, FALSE)
              /\ UNCHANGED <<remote, phase>>
           \/ /\ resolved /\ q.remote = NULL /\ ~Cache!cache_key_exist(conn_cache, k)
              /\ new_remote(q.src, "unspec", left)
        /\ UNCHANGED <<reply, datagrams>>

\* An answer on the socket of o goes to the client of its remote_ctx.
remote_recv_cb(o) ==
    /\ phase = "run"
    /\ outside' = outside \ {o}
    /\ reply' = [src |-> o.src, to |-> remote[o.remote].src, stale |-> o.stale]
    /\ UNCHANGED <<conn_cache, remote, query, phase, datagrams>>

\* The entry under the key of r goes, and its free_cb frees what the entry owns.
remote_timeout_cb(r) ==
    LET new == Cache!cache_remove(conn_cache, hash_key(remote[r].af, remote[r].src))
        old == Owned(conn_cache) \ Owned(new)
    IN  /\ phase = "run"
        /\ conn_cache' = new
        /\ remote' = Freed(old)
        /\ query' = Dangling(query, old, "timeout")
        /\ outside' = Closed(old)
        /\ UNCHANGED <<reply, phase, datagrams>>

\* The loop has ended.  ares_cancel ends the open requests, and so calls
\* resolv_cb for one query after the other.
resolv_shutdown ==
    /\ phase = "run" /\ phase' = "cancel"
    /\ UNCHANGED <<conn_cache, remote, query, outside, reply, datagrams>>

\* All queries have ended.  cache_delete frees what the cache owns, and the
\* server_ctx goes.
free_udprelay ==
    /\ phase = "cancel" /\ query = {} /\ phase' = "gone"
    /\ conn_cache' = <<>>
    /\ remote' = Freed(Owned(conn_cache))
    /\ outside' = Closed(Owned(conn_cache))
    /\ UNCHANGED <<query, reply, datagrams>>

Next ==
    \/ \E c \in Client, d \in Family \cup {"domain"} : server_recv_cb(c, d)
    \/ \E q \in query, resolved \in BOOLEAN : resolv_cb(q, resolved)
    \/ \E o \in outside : remote_recv_cb(o)
    \/ \E r \in Live : remote_timeout_cb(r)
    \/ resolv_shutdown
    \/ free_udprelay

Spec == init_udprelay /\ [][Next]_vars

-----------------------------------------------------------------------------
(* Properties *)

\* Every remote_ctx in use has exactly one entry in the cache, under the very
\* key its timeout removes (udprelay.c:571 computes it again from af and
\* src_addr), every entry owns a remote_ctx in use, no key occurs twice although
\* cache_insert does not look, and the cache stays below its capacity.  So a
\* timeout frees its own remote, once, and after the exit nothing is left, though
\* cancelled queries may still insert and evict remotes when the loop has ended
\* (resolv.c:276-280, udprelay.c:605-659).
\* All variables have their types; a query has a remote or NULL.
CacheOwnsRemotes ==
    /\ TypeOK
    /\ Live = Owned(conn_cache)
    /\ Len(conn_cache) < MAX_ENTRIES
    /\ \A i, j \in 1..Len(conn_cache) :
         i # j => /\ conn_cache[i].addr # conn_cache[j].addr
                  /\ conn_cache[i].count # conn_cache[j].count
    /\ \A i \in 1..Len(conn_cache) :
         LET r == remote[conn_cache[i].count] IN conn_cache[i].addr = hash_key(r.af, r.src)
    /\ phase = "gone" => Live = {} /\ query = {} /\ outside = {}

\* What comes back is given to the client whose datagram was sent
\* (remote_recv_cb, udprelay.c:820), across evictions, timeouts and reuse of
\* addresses, unless the query had waited for the resolver while the remote it
\* points to (udprelay.c:592) was freed.
AnswersReachTheirClient ==
    /\ \A o \in outside : o.stale \/ (o.remote \in Live /\ remote[o.remote].src = o.src)
    /\ reply # NULL => (reply.stale \/ reply.to = reply.src)

\* The order of the cache protects a waiting query: the remote it points to is
\* evicted only when the other places of the cache have all been given to
\* remotes used since the query began (cache_lookup moves an entry to the end,
\* cache_insert takes the first).
EvictionNeedsAFullRound ==
    \A q \in query : q.freed = "evicted" => Cardinality(q.touched) >= MAX_ENTRIES - 1
==============================================================================
