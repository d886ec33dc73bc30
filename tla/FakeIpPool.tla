------------------------------ MODULE FakeIpPool ------------------------------
(***************************************************************************)
(* The fake-ip pool of the core (component/fakeip), its two stores and its *)
(* replacement when a configuration is applied (hub/executor).             *)
(*                                                                         *)
(* A lookup holds the pool's mutex, but flushing (REST), cloning into the  *)
(* pool of a new configuration and the persistent bucket, which all pools  *)
(* share, do not take it.  A lookup is therefore several steps, each of    *)
(* them one group of calls of the store, and reads p.offset anew in each.  *)
(*                                                                         *)
(* Addresses are numbers; First - 1 is where a new pool's offset stands.   *)
(* kind is the maximal size of the memory store, or Bolt for the bucket.   *)
(***************************************************************************)
EXTENDS Integers, Sequences, FiniteSets

CONSTANTS
    Hosts, NoHost,
    Queries,        \* goroutines that answer DNS queries
    First, Last,    \* the pool's range: First is handed out, Last is not
    Sizes,          \* possible sizes of the memory store
    MaxOps,         \* bound: lookups and look-backs
    MaxEvents       \* bound: flushes, reloads and kills

ASSUME PoolAssumption ==
    /\ NoHost \notin Hosts
    /\ First \in Nat /\ Last \in Nat /\ 0 < First /\ First < Last
    /\ Sizes \subseteq Nat \ {0}
    /\ MaxOps \in Nat /\ MaxEvents \in Nat

Bolt == 0
Pools == 1..(MaxEvents + 1)
Addresses == First..(Last - 1)

VARIABLES
    kind,
    cur,                  \* the pool of resolver.DefaultHostMapper
    offset, cycle,        \* per pool
    cacheIP, cacheHost,   \* per store: sequences of <<key, value>>, least recent first
    query,                \* per goroutine: where its lookup is, for which pool and host
    flush, reload,        \* where a flush and the application of a configuration are
    ops, events,
    suspect,              \* stores an unlocked step has touched during an operation
    saved, answer         \* history: the table when the operation began, the last answer

vars == <<kind, cur, offset, cycle, cacheIP, cacheHost, query, flush, reload, ops, events,
          suspect, saved, answer>>

persistent == kind = Bolt

\* All pools share the bucket; a memory store belongs to its pool.
Store(p) == IF persistent THEN 1 ELSE p

NoFlush == [pc |-> "none", pool |-> 1]
Idle == [pc |-> "idle", pool |-> 1, host |-> NoHost]

Queried(s) == {q \in Queries : query[q].pc # "idle" /\ Store(query[q].pool) = s}

\* The pool's mutex is not held.
Unlocked(p) == \A q \in Queries : query[q].pc # "idle" => query[q].pool # p

-----------------------------------------------------------------------------
(* lrucache.go, and the bucket, which keeps no order and has no limit *)

Keys(c) == {c[i][1] : i \in DOMAIN c}
Place(c, k) == CHOOSE i \in DOMAIN c : c[i][1] = k
Value(c, k) == c[Place(c, k)][2]
Pairs(c) == {c[i] : i \in DOMAIN c}

Delete(c, k) ==
    IF k \notin Keys(c) THEN c
    ELSE [i \in 1..(Len(c) - 1) |-> IF i < Place(c, k) THEN c[i] ELSE c[i + 1]]

Get(c, k) ==
    IF k \in Keys(c) /\ ~persistent THEN Append(Delete(c, k), <<k, Value(c, k)>>) ELSE c

Set(c, k, v) ==
    LET d == Append(Delete(c, k), <<k, v>>)
    IN  IF ~persistent /\ Len(d) > kind THEN Tail(d) ELSE d

-----------------------------------------------------------------------------
(* memory.go and cachefile.go; s is a store *)

GetByHost(s, h) ==
    /\ cacheIP' = [cacheIP EXCEPT ![s] = Get(@, h)]
    /\ cacheHost' = [cacheHost EXCEPT ![s] = Get(@, Value(cacheIP[s], h))]

\* Mutant: the other cache's order is left alone.
GetByIP_OneSided(s, ip) ==
    /\ cacheHost' = [cacheHost EXCEPT ![s] = Get(@, ip)]
    /\ UNCHANGED cacheIP

GetByIP(s, ip) ==
    /\ cacheHost' = [cacheHost EXCEPT ![s] = Get(@, ip)]
    /\ cacheIP' = IF ip \in Keys(cacheHost[s])
                    THEN [cacheIP EXCEPT ![s] = Get(@, Value(cacheHost[s], ip))]
                    ELSE cacheIP

DelByIP(s, ip) ==
    /\ cacheHost' = [cacheHost EXCEPT ![s] = Delete(@, ip)]
    /\ cacheIP' = IF ip \in Keys(cacheHost[s])
                    THEN [cacheIP EXCEPT ![s] = Delete(@, Value(cacheHost[s], ip))]
                    ELSE cacheIP

-----------------------------------------------------------------------------
(* Pool.Lookup and Pool.LookBack *)

\* What becomes suspect when an operation on pool p begins or ends now: its own store if a
\* flush or, through the bucket, another pool is at work on it; the pool being cloned,
\* whose copy may miss the operation; and the current store when p has been replaced,
\* because the client gets an answer that store does not know.
Overlapped(p, others) ==
    {s \in Pools :
        \/ s = Store(p) /\ others # {}
        \/ s = Store(p) /\ flush.pc # "none" /\ Store(flush.pool) = s
        \/ s = cur + 1 /\ ~persistent /\ reload \in {"cloning", "cloned"}
        \/ s = cur /\ ~persistent /\ p # cur}

\* The lock is taken and the host is searched.
Lookup(q, h) ==
    LET s == Store(cur) IN
    /\ query[q].pc = "idle" /\ ops < MaxOps /\ Unlocked(cur)
    /\ ops' = ops + 1
    /\ suspect' = suspect \cup Overlapped(cur, Queried(s))
    /\ IF h \in Keys(cacheIP[s])
         THEN /\ GetByHost(s, h)
              /\ answer' = <<h, Value(cacheIP[s], h)>>
              /\ UNCHANGED <<query, saved>>
         ELSE /\ query' = [query EXCEPT ![q] = [pc |-> "get", pool |-> cur, host |-> h]]
              /\ saved' = Pairs(cacheIP[s])
              /\ UNCHANGED <<cacheIP, cacheHost, answer>>
    /\ UNCHANGED <<kind, cur, offset, cycle, flush, reload, events>>

\* The ring is at its end.
Advance(o) == o + 1 >= Last

\* Mutant: an address is only freed once the ring has been around.
Reuses_Cycle(p, o) == cycle'[p]

\* The address to be handed out may belong to a host.
Reuses(p, o) == cycle'[p] \/ o \in Keys(cacheHost[Store(p)])

\* get: the next address of the ring, taken from whoever has it.
LookupGet(q) ==
    LET p == query[q].pool
        o == IF Advance(offset[p]) THEN First ELSE offset[p] + 1
    IN  /\ query[q].pc = "get"
        /\ query' = [query EXCEPT ![q].pc = "putIP"]
        /\ offset' = [offset EXCEPT ![p] = o]
        /\ cycle' = [cycle EXCEPT ![p] = @ \/ Advance(offset[p])]
        /\ IF Reuses(p, o) THEN DelByIP(Store(p), o) ELSE UNCHANGED <<cacheIP, cacheHost>>
        /\ UNCHANGED <<kind, cur, flush, reload, ops, events, suspect, saved, answer>>

LookupPutIP(q) ==
    LET p == query[q].pool IN
    /\ query[q].pc = "putIP"
    /\ query' = [query EXCEPT ![q].pc = "putHost"]
    /\ cacheHost' = [cacheHost EXCEPT ![Store(p)] = Set(@, offset[p], query[q].host)]
    /\ UNCHANGED <<kind, cur, offset, cycle, cacheIP, flush, reload, ops, events,
                   suspect, saved, answer>>

\* The address is p.offset once more; the lock is released.
LookupPutHost(q) ==
    LET p == query[q].pool
        h == query[q].host
    IN  /\ query[q].pc = "putHost"
        /\ query' = [query EXCEPT ![q] = Idle]
        /\ cacheIP' = [cacheIP EXCEPT ![Store(p)] = Set(@, h, offset[p])]
        /\ answer' = <<h, offset[p]>>
        /\ suspect' = suspect \cup Overlapped(p, Queried(Store(p)) \ {q})
        /\ UNCHANGED <<kind, cur, offset, cycle, cacheHost, flush, reload, ops, events, saved>>

\* FindHostByIP of the tunnel.
LookBack(ip) ==
    LET s == Store(cur) IN
    /\ ops < MaxOps /\ Unlocked(cur)
    /\ ops' = ops + 1
    /\ GetByIP(s, ip)
    /\ answer' = <<IF ip \in Keys(cacheHost[s]) THEN Value(cacheHost[s], ip) ELSE NoHost, ip>>
    /\ suspect' = suspect \cup Overlapped(cur, Queried(s))
    /\ UNCHANGED <<kind, cur, offset, cycle, query, flush, reload, events, saved>>

-----------------------------------------------------------------------------
(* Pool.FlushFakeIP, called without the pool's mutex *)

EventBudget == events < MaxEvents /\ events' = events + 1

\* The bucket is dropped in one transaction, the two caches are cleared one by one.
FlushBegin ==
    LET s == Store(cur) IN
    /\ flush.pc = "none" /\ EventBudget
    /\ flush' = [pc |-> IF persistent THEN "offset" ELSE "host", pool |-> cur]
    /\ cacheIP' = [cacheIP EXCEPT ![s] = <<>>]
    /\ cacheHost' = IF persistent THEN [cacheHost EXCEPT ![s] = <<>>] ELSE cacheHost
    /\ suspect' = (suspect \ {s}) \cup Overlapped(cur, Queried(s))
    /\ answer' = <<NoHost, 0>>
    /\ UNCHANGED <<kind, cur, offset, cycle, query, reload, ops, saved>>

FlushHost ==
    /\ flush.pc = "host" /\ flush' = [flush EXCEPT !.pc = "offset"]
    /\ cacheHost' = [cacheHost EXCEPT ![flush.pool] = <<>>]
    /\ UNCHANGED <<kind, cur, offset, cycle, cacheIP, query, reload, ops, events, suspect,
                   saved, answer>>

FlushOffset ==
    /\ flush.pc = "offset" /\ flush' = NoFlush
    /\ cycle' = [cycle EXCEPT ![flush.pool] = FALSE]
    /\ offset' = [offset EXCEPT ![flush.pool] = First - 1]
    /\ UNCHANGED <<kind, cur, cacheIP, cacheHost, query, reload, ops, events, suspect,
                   saved, answer>>

-----------------------------------------------------------------------------
(* A configuration is applied: New and restoreState when it is parsed, PatchFrom and *)
(* the new DefaultHostMapper in updateDNS                                             *)

\* restoreState drops a bucket that has entries but, as no state is ever stored, no offset.
Restores == persistent /\ First \in Keys(cacheHost[1])

ReloadParse ==
    /\ reload = "none" /\ EventBudget /\ reload' = "parsed"
    /\ IF Restores
         THEN /\ cacheIP' = [cacheIP EXCEPT ![1] = <<>>]
              /\ cacheHost' = [cacheHost EXCEPT ![1] = <<>>]
              /\ suspect' = (suspect \ {1}) \cup Overlapped(cur, Queried(1))
              /\ answer' = <<NoHost, 0>>
         ELSE UNCHANGED <<cacheIP, cacheHost, suspect, answer>>
    /\ UNCHANGED <<kind, cur, offset, cycle, query, flush, ops, saved>>

\* A later part of the configuration is refused.
ReloadFails ==
    /\ reload = "parsed" /\ reload' = "none"
    /\ UNCHANGED <<kind, cur, offset, cycle, cacheIP, cacheHost, query, flush, ops, events,
                   suspect, saved, answer>>

\* CloneTo copies the caches one by one, without the old pool's mutex.
CloneIP ==
    /\ reload = "parsed" /\ reload' = "cloning"
    /\ IF persistent THEN UNCHANGED <<cacheIP, suspect>>
       ELSE /\ cacheIP' = [cacheIP EXCEPT ![cur + 1] = cacheIP[cur]]
            /\ suspect' = IF cur \in suspect \/ Queried(cur) # {} \/ flush.pc # "none"
                             THEN suspect \cup {cur + 1} ELSE suspect
    /\ UNCHANGED <<kind, cur, offset, cycle, cacheHost, query, flush, ops, events, saved, answer>>

CloneHost ==
    /\ reload = "cloning" /\ reload' = "cloned"
    /\ cacheHost' = IF persistent THEN cacheHost
                      ELSE [cacheHost EXCEPT ![cur + 1] = cacheHost[cur]]
    /\ UNCHANGED <<kind, cur, offset, cycle, cacheIP, query, flush, ops, events, suspect,
                   saved, answer>>

Publish ==
    /\ reload = "cloned" /\ reload' = "none" /\ cur' = cur + 1
    /\ UNCHANGED <<kind, offset, cycle, cacheIP, cacheHost, query, flush, ops, events, suspect,
                   saved, answer>>

\* The process ends; the next one has the bucket only, with half a pair if a lookup was
\* under way and restoreState keeps it.
Kill ==
    /\ EventBudget
    /\ cur' = 1 /\ flush' = NoFlush /\ reload' = "none"
    /\ offset' = [p \in Pools |-> First - 1] /\ cycle' = [p \in Pools |-> FALSE]
    /\ query' = [q \in Queries |-> Idle]
    /\ IF persistent /\ ~Restores
         THEN /\ suspect' = suspect \cup (IF Queried(1) = {} THEN {} ELSE {1})
              /\ UNCHANGED <<cacheIP, cacheHost>>
         ELSE /\ cacheIP' = [p \in Pools |-> <<>>] /\ cacheHost' = [p \in Pools |-> <<>>]
              /\ suspect' = {}
    /\ answer' = <<NoHost, 0>>
    /\ UNCHANGED <<kind, ops, saved>>

-----------------------------------------------------------------------------
(* Specification *)

Init ==
    /\ kind \in Sizes \cup {Bolt}
    /\ cur = 1 /\ flush = NoFlush /\ reload = "none"
    /\ offset = [p \in Pools |-> First - 1] /\ cycle = [p \in Pools |-> FALSE]
    /\ cacheIP = [p \in Pools |-> <<>>] /\ cacheHost = [p \in Pools |-> <<>>]
    /\ query = [q \in Queries |-> Idle]
    /\ ops = 0 /\ events = 0 /\ suspect = {} /\ saved = {} /\ answer = <<NoHost, 0>>

Next ==
    \/ \E q \in Queries :
          \/ \E h \in Hosts : Lookup(q, h)
          \/ LookupGet(q) \/ LookupPutIP(q) \/ LookupPutHost(q)
    \/ \E ip \in (First - 1)..Last : LookBack(ip)
    \/ FlushBegin \/ FlushHost \/ FlushOffset
    \/ ReloadParse \/ ReloadFails \/ CloneIP \/ CloneHost \/ Publish
    \/ Kill

Spec == Init /\ [][Next]_vars

-----------------------------------------------------------------------------
(* Properties *)

Mirror(c) == [i \in DOMAIN c |-> <<c[i][2], c[i][1]>>]

Quiet == Queried(Store(cur)) = {} /\ Store(cur) \notin suspect

\* Cursor, caches and operations are what the code stores in them; no cache outgrows its size.
TypeOK ==
    /\ kind \in Sizes \cup {Bolt} /\ cur \in Pools
    /\ offset \in [Pools -> (First - 1)..Last] /\ cycle \in [Pools -> BOOLEAN]
    /\ cacheIP \in [Pools -> Seq(Hosts \X ((First - 1)..Last))]
    /\ cacheHost \in [Pools -> Seq(((First - 1)..Last) \X Hosts)]
    /\ ~persistent => \A p \in Pools : Len(cacheIP[p]) <= kind /\ Len(cacheHost[p]) <= kind
    /\ query \in [Queries -> [pc: {"idle", "get", "putIP", "putHost"}, pool: Pools,
                              host: Hosts \cup {NoHost}]]
    /\ flush \in [pc: {"none", "host", "offset"}, pool: Pools]
    /\ reload \in {"none", "parsed", "cloning", "cloned"}
    /\ ops \in Nat /\ events \in Nat /\ suspect \subseteq Pools

\* Between operations the two caches of memoryStore list the same pairs in the same order, so
\* that eviction, which each does on its own, drops the two halves of one pair.
Mirrored ==
    Quiet /\ flush.pc = "none" => cacheHost[Store(cur)] = Mirror(cacheIP[Store(cur)])

Table == INSTANCE FakeIpMap WITH
    map <- IF Queried(Store(cur)) # {} THEN saved ELSE Pairs(cacheIP[Store(cur)]),
    valid <- Store(cur) \notin suspect

\* The pool is the one to one table of FakeIpMap: a lookup is a single step of it, an address
\* leads back to the host it was handed out for last, through eviction, the ring's turn,
\* flushes, reloads and restarts, unless an unlocked step overlaps an operation.
PoolIsTable == Table!Spec

=============================================================================
