----------------------------- MODULE SpecCache -----------------------------
(***************************************************************************)
(* The LRU cache of ClientHelloSpecs, LRUCache in                          *)
(* internal/util/fingerprint (Get, Set, Clear, ResetMetrics), used by      *)
(* several goroutines at once.                                             *)
(*                                                                         *)
(* Every critical section of c.mu holds the lock for one call into the     *)
(* golang-lru list plus counter updates, so it is one atomic step here:    *)
(* the lock acquire and release move to the ends of the section.  What     *)
(* stays visible is every point where c.mu is NOT held: the window Get     *)
(* opens on an expired entry between RUnlock (line 1245) and Lock (line    *)
(* 1246), and again between Unlock and RLock (1248-1249), and the three    *)
(* separate atomic stores of ResetMetrics, which takes no lock at all.     *)
(*                                                                         *)
(* The lru list is `recency`, least recently used first, and the lru map   *)
(* is `entry`.  Time is an integer clock; a cacheEntry records the tick    *)
(* at which Set created it.                                                *)
(***************************************************************************)
EXTENDS Naturals, Sequences, SequencesExt, FiniteSets

CONSTANTS
    Threads,        \* goroutines calling into the cache
    Resetters,      \* those of them that call ResetMetrics
    Clearers,       \* those of them that call Clear
    Keys,           \* cache keys (CacheKeyFor... strings)
    Specs,          \* non-nil *ClientHelloSpec values a caller may Set
    MaxSize,        \* config.MaxSize, the capacity of the lru list
    TTL,            \* config.TTL in ticks; 0 means no expiry
    MetricsEnabled, \* config.MetricsEnabled
    MaxTime,        \* bound on the clock
    CounterCap,     \* bound on each metrics counter
    NoEntry,        \* the lru map has no entry for the key
    Miss            \* Get returned (nil, false)

ASSUME Resetters \subseteq Threads /\ Clearers \subseteq Threads
ASSUME MaxSize \in Nat \ {0} /\ TTL \in Nat /\ MetricsEnabled \in BOOLEAN

Entry == [spec : Specs, created : 0..MaxTime]

VARIABLES
    recency,    \* the lru list, least recently used first
    entry,      \* entry[k]: the *cacheEntry stored under k, or NoEntry
    pc,         \* pc[t]: where goroutine t is
    key,        \* key[t]: the key argument of t's current call
    seen,       \* seen[t]: the expired entry t's Get found (line 1235)
    result,     \* result[t]: what t's last Get returned
    hits, misses, evictions,  \* the atomic.Uint64 metrics counters
    now,        \* the clock read by time.Now / time.Since
    removed     \* ghost: entries actually taken out of the lru since reset

vars == <<recency, entry, pc, key, seen, result, hits, misses, evictions,
          now, removed>>

Pc == {"idle", "get_lock", "get_count", "reset_misses", "reset_evictions"}

(***************************************************************************)
(* The golang-lru operations called under c.mu.                            *)
(***************************************************************************)
Present == {k \in Keys : entry[k] # NoEntry}

\* Bug: moving a key to the front without unlinking it first.
TouchNoUnlink(k) == Append(recency, k)

\* lru.Get and lru.Add of an existing key move it to the front of the list.
Touch(k) == Append(Remove(recency, k), k)

\* c.config.TTL > 0 && time.Since(entry.createdAt) > c.config.TTL
Expired(e) == TTL > 0 /\ now - e.created > TTL

\* A metrics counter increment: c.<counter>.Add(1) under MetricsEnabled.
Count(c) == IF MetricsEnabled THEN c + 1 ELSE c

\* The largest value a counter reaches: CanStart lets a call start below
\* CounterCap, and each goroutine inside Get adds at most one more.
CounterTop == CounterCap + Cardinality(Threads)

CanStart == hits < CounterCap /\ misses < CounterCap /\ evictions < CounterCap

(***************************************************************************)
(* NewLRUCache: an empty list and zeroed counters.                         *)
(***************************************************************************)
Init ==
    /\ recency = <<>>
    /\ entry = [k \in Keys |-> NoEntry]
    /\ pc = [t \in Threads |-> "idle"]
    /\ key = [t \in Threads |-> CHOOSE k \in Keys : TRUE]
    /\ seen = [t \in Threads |-> NoEntry]
    /\ result = [t \in Threads |-> Miss]
    /\ hits = 0 /\ misses = 0 /\ evictions = 0
    /\ now = 0
    /\ removed = 0

\* Bug: a hit that does not move the key to the front.
GetLookupNoTouch(t, k) ==
    /\ pc[t] = "idle" /\ CanStart
    /\ key' = [key EXCEPT ![t] = k]
    /\ \/ /\ entry[k] = NoEntry
          /\ misses' = Count(misses)
          /\ result' = [result EXCEPT ![t] = Miss]
          /\ UNCHANGED <<recency, pc, seen, hits>>
       \/ /\ entry[k] # NoEntry /\ ~Expired(entry[k])
          /\ hits' = Count(hits)
          /\ result' = [result EXCEPT ![t] = entry[k].spec]
          /\ UNCHANGED <<recency, pc, seen, misses>>
       \/ /\ entry[k] # NoEntry /\ Expired(entry[k])
          /\ recency' = Touch(k)
          /\ seen' = [seen EXCEPT ![t] = entry[k]]
          /\ pc' = [pc EXCEPT ![t] = "get_lock"]
          /\ UNCHANGED <<result, hits, misses>>
    /\ UNCHANGED <<entry, evictions, now, removed>>

(***************************************************************************)
(* Get, lines 1232-1242 and 1258-1262: under the read lock, look the key   *)
(* up (moving it to the front), and return a miss or a hit.  On an expired *)
(* entry it gives the read lock up (1245) and goes on to Lock.             *)
(***************************************************************************)
GetLookup(t, k) ==
    /\ pc[t] = "idle" /\ CanStart
    /\ key' = [key EXCEPT ![t] = k]
    /\ \/ /\ entry[k] = NoEntry
          /\ misses' = Count(misses)
          /\ result' = [result EXCEPT ![t] = Miss]
          /\ UNCHANGED <<recency, pc, seen, hits>>
       \/ /\ entry[k] # NoEntry /\ ~Expired(entry[k])
          /\ recency' = Touch(k)
          /\ hits' = Count(hits)
          /\ result' = [result EXCEPT ![t] = entry[k].spec]
          /\ UNCHANGED <<pc, seen, misses>>
       \/ /\ entry[k] # NoEntry /\ Expired(entry[k])
          /\ recency' = Touch(k)
          /\ seen' = [seen EXCEPT ![t] = entry[k]]
          /\ pc' = [pc EXCEPT ![t] = "get_lock"]
          /\ UNCHANGED <<result, hits, misses>>
    /\ UNCHANGED <<entry, evictions, now, removed>>

(***************************************************************************)
(* Get, lines 1246-1248: under the write lock, c.cache.Remove(key).  It    *)
(* removes whatever entry is under the key now, not the one found expired. *)
(***************************************************************************)
GetRemove(t) ==
    /\ pc[t] = "get_lock"
    /\ LET k == key[t] IN
         /\ entry' = [entry EXCEPT ![k] = NoEntry]
         /\ recency' = Remove(recency, k)
         /\ removed' = IF entry[k] # NoEntry THEN Count(removed) ELSE removed
    /\ pc' = [pc EXCEPT ![t] = "get_count"]
    /\ UNCHANGED <<key, seen, result, hits, misses, evictions, now>>

(***************************************************************************)
(* Get, lines 1249-1255: read lock again, count a miss and an eviction,    *)
(* return (nil, false) and release the lock in the deferred RUnlock.       *)
(***************************************************************************)
GetCount(t) ==
    /\ pc[t] = "get_count"
    /\ misses' = Count(misses)
    /\ evictions' = Count(evictions)
    /\ result' = [result EXCEPT ![t] = Miss]
    /\ seen' = [seen EXCEPT ![t] = NoEntry]
    /\ pc' = [pc EXCEPT ![t] = "idle"]
    /\ UNCHANGED <<recency, entry, key, hits, now, removed>>

(***************************************************************************)
(* Set, lines 1266-1283, all under the write lock.  lru.Add updates an     *)
(* existing key in place and moves it to the front; a new key goes to the  *)
(* front and, when the list is then longer than MaxSize, the least         *)
(* recently used entry is evicted and Add returns true.                    *)
(***************************************************************************)
Set(t, k, s) ==
    /\ pc[t] = "idle" /\ CanStart
    /\ LET fresh  == [spec |-> s, created |-> now]
           added  == Touch(k)
           evict  == entry[k] = NoEntry /\ Len(added) > MaxSize
           victim == Head(added)
       IN /\ recency' = IF evict THEN Tail(added) ELSE added
          /\ entry' = IF evict
                      THEN [entry EXCEPT ![k] = fresh, ![victim] = NoEntry]
                      ELSE [entry EXCEPT ![k] = fresh]
          /\ evictions' = IF evict THEN Count(evictions) ELSE evictions
          /\ removed' = IF evict THEN Count(removed) ELSE removed
    /\ key' = [key EXCEPT ![t] = k]
    /\ UNCHANGED <<pc, seen, result, hits, misses, now>>

(***************************************************************************)
(* Clear, lines 1286-1290: c.cache.Purge() under the write lock.           *)
(***************************************************************************)
Clear(t) ==
    /\ pc[t] = "idle" /\ t \in Clearers
    /\ recency' = <<>>
    /\ entry' = [k \in Keys |-> NoEntry]
    /\ UNCHANGED <<pc, key, seen, result, hits, misses, evictions, now,
                   removed>>

(***************************************************************************)
(* ResetMetrics, lines 1314-1319: three separate atomic stores, no lock.   *)
(***************************************************************************)
ResetHits(t) ==
    /\ pc[t] = "idle" /\ t \in Resetters
    /\ hits' = 0
    /\ pc' = [pc EXCEPT ![t] = "reset_misses"]
    /\ UNCHANGED <<recency, entry, key, seen, result, misses, evictions,
                   now, removed>>

ResetMisses(t) ==
    /\ pc[t] = "reset_misses"
    /\ misses' = 0
    /\ pc' = [pc EXCEPT ![t] = "reset_evictions"]
    /\ UNCHANGED <<recency, entry, key, seen, result, hits, evictions,
                   now, removed>>

\* c.evictions.Store(0) and c.metricsResetAt = time.Now(); `removed` is
\* the ghost that restarts with the eviction counter.
ResetEvictions(t) ==
    /\ pc[t] = "reset_evictions"
    /\ evictions' = 0
    /\ removed' = 0
    /\ pc' = [pc EXCEPT ![t] = "idle"]
    /\ UNCHANGED <<recency, entry, key, seen, result, hits, misses, now>>

\* Time passes.
Tick ==
    /\ now < MaxTime
    /\ now' = now + 1
    /\ UNCHANGED <<recency, entry, pc, key, seen, result, hits, misses,
                   evictions, removed>>

\* The bounds are spent: no call may start, the clock is at MaxTime and no
\* goroutine is inside a call.  The cache itself never stops; this step
\* keeps the bound from being reported as a deadlock.
Done ==
    /\ ~CanStart /\ now = MaxTime
    /\ \A t \in Threads : pc[t] = "idle"
    /\ UNCHANGED vars

Next ==
    \/ \E t \in Threads :
         \/ \E k \in Keys : GetLookup(t, k)
         \/ GetRemove(t)
         \/ GetCount(t)
         \/ \E k \in Keys, s \in Specs : Set(t, k, s)
         \/ Clear(t)
         \/ ResetHits(t)
         \/ ResetMisses(t)
         \/ ResetEvictions(t)
    \/ Tick
    \/ Done

Spec == Init /\ [][Next]_vars

-----------------------------------------------------------------------------
(***************************************************************************)
(* Properties.                                                             *)
(***************************************************************************)

\* The lru list and map agree: the list holds each present key exactly
\* once and never more than MaxSize of them.
TypeOK ==
    /\ recency \in Seq(Keys)
    /\ entry \in [Keys -> Entry \cup {NoEntry}]
    /\ pc \in [Threads -> Pc]
    /\ key \in [Threads -> Keys]
    /\ seen \in [Threads -> Entry \cup {NoEntry}]
    /\ result \in [Threads -> Specs \cup {Miss}]
    /\ {hits, misses, evictions, removed} \subseteq 0..CounterTop
    /\ now \in 0..MaxTime
    /\ Len(recency) = Cardinality(Present)
    /\ ToSet(recency) = Present
    /\ Len(recency) <= MaxSize

\* The eviction counter that Metrics reports counts entries the cache
\* really lost (spec 4.6: a lookup of an expired entry removes it and counts
\* one eviction; filling past MaxSize counts exactly one per victim): Set
\* counts an Add that evicted, and Get counts its TTL Remove.  Whenever
\* every goroutine is between calls the two agree.
EvictionCountExact ==
    (\A t \in Threads : pc[t] = "idle") => evictions = removed

\* The cache behaves as an atomic LRU map: see AbstractSpecCache.
Hidden(k) ==
    \E t \in Threads : /\ pc[t] = "get_lock" /\ key[t] = k
                       /\ entry[k] # NoEntry /\ entry[k] = seen[t]

Abstract == INSTANCE AbstractSpecCache WITH
    content <- [k \in Keys |-> IF Hidden(k) THEN NoEntry ELSE entry[k]],
    order <- SelectSeq(recency, LAMBDA k : ~Hidden(k)),
    reply <- [t \in Threads |-> IF pc[t] \in {"get_lock", "get_count"}
                                THEN Miss ELSE result[t]],
    Clients <- Threads

\* Every behaviour of the concurrent cache is one of the atomic cache's.
CacheRefinement == Abstract!Spec
=============================================================================
