----------------------------- MODULE QueryCache -----------------------------
(***************************************************************************)
(* The query result cache of fuse-engine (crates/fuse-engine/src/cache.rs):*)
(* a map from cache keys to results with a TTL, an LRU order, a limit on   *)
(* the number of entries and a budget on the estimated bytes.              *)
(*                                                                         *)
(* Every method of QueryCache holds the write lock of `inner` from its     *)
(* first access to its last, so every method is one step.  The hit, miss   *)
(* and eviction counters are only reported, never read back, and are left  *)
(* out.                                                                    *)
(***************************************************************************)
EXTENDS Integers, FiniteSets, SequencesExt

CONSTANTS Keys,       \* cache keys (u64 hashes)
          Batches,    \* results a connector can return
          SizeOf,     \* batches_bytes: estimated bytes of a result
          Ttls,       \* the TTLs callers pass to put
          MaxEntries, \* CacheInner::max_entries
          MaxBytes,   \* CacheInner::max_bytes
          MaxTime     \* bound on the clock, for model checking only

ASSUME LimitsAssumption == MaxEntries \in Nat \ {0} /\ MaxBytes \in Nat \ {0}
ASSUME SizesAssumption == SizeOf \in [Batches -> Nat] /\ Ttls \subseteq Nat

VARIABLES entries,     \* key -> CachedResult, for the keys that are present
          lru,         \* keys, oldest access first
          total_bytes, \* running total of the estimated bytes
          now,         \* Instant::now()
          newer        \* history: <<j, k>> iff j was used after k was

cacheVars == <<entries, lru, total_bytes>>
vars == <<cacheVars, now, newer>>

CachedResult == [batches: Batches, created: 0..MaxTime, ttl: Ttls, bytes: Nat]

IsExpired(e) == now - e.created > e.ttl

Live(k) == k \in DOMAIN entries /\ ~IsExpired(entries[k])

Without(f, S) == Restrict(f, DOMAIN f \ S)

SaturatingSub(a, b) == IF a > b THEN a - b ELSE 0

\* The part of CacheInner that eviction works on.
Inner == [entries |-> entries, lru |-> lru, bytes |-> total_bytes, stuck |-> FALSE]

\* CacheInner::touch
Touch(s, k) == Append(Remove(s, k), k)

\* CacheInner::evict_one_lru: pops the front of the LRU order; `stuck` is its
\* result FALSE, given when the order is empty or names a key with no entry.
EvictOneLru(c) ==
    IF c.lru = <<>> THEN [c EXCEPT !.stuck = TRUE]
    ELSE LET oldest == Head(c.lru)
         IN  IF oldest \in DOMAIN c.entries
             THEN [entries |-> Without(c.entries, {oldest}),
                   lru     |-> Tail(c.lru),
                   bytes   |-> SaturatingSub(c.bytes, c.entries[oldest].bytes),
                   stuck   |-> FALSE]
             ELSE [c EXCEPT !.lru = Tail(c.lru), !.stuck = TRUE]

\* A `while more { if !evict_one_lru() { break } }` loop.  Each turn pops the
\* order, so it takes at most one turn more than the order is long.
EvictWhile(more(_), c) ==
    LET turn[n \in 0..Len(c.lru) + 1] ==
            IF n = 0 THEN [c EXCEPT !.stuck = FALSE]
            ELSE IF more(turn[n - 1]) /\ ~turn[n - 1].stuck
                 THEN EvictOneLru(turn[n - 1])
                 ELSE turn[n - 1]
    IN  turn[Len(c.lru) + 1]

\* Mutant of EvictUntilFits: the budget is compared without the new result.
EvictUntilFitsIgnoringNew(c, newBytes) ==
    LET full(d) == Cardinality(DOMAIN d.entries) >= MaxEntries
        over(d) == d.bytes > MaxBytes /\ DOMAIN d.entries # {}
    IN  EvictWhile(over, EvictWhile(full, c))

\* CacheInner::evict_until_fits: first for the entry count, then for the budget.
EvictUntilFits(c, newBytes) ==
    LET full(d) == Cardinality(DOMAIN d.entries) >= MaxEntries
        over(d) == d.bytes + newBytes > MaxBytes /\ DOMAIN d.entries # {}
    IN  EvictWhile(over, EvictWhile(full, c))

\* History: k has just been used, so it is newer than every other key.
Used(k) == newer' = {p \in newer : p[2] # k /\ p[1] # k} \cup ({k} \X (Keys \ {k}))

Init ==
    /\ entries = <<>>
    /\ lru = <<>>
    /\ total_bytes = 0
    /\ now = 0
    /\ newer = {}

\* Mutant of GetHit: a hit does not touch the LRU order.
GetHitUntouched(k) ==
    /\ Live(k)
    /\ Used(k)
    /\ UNCHANGED <<entries, lru, total_bytes, now>>

\* QueryCache::get of a live entry.
GetHit(k) ==
    /\ Live(k)
    /\ lru' = Touch(lru, k)
    /\ Used(k)
    /\ UNCHANGED <<entries, total_bytes, now>>

\* Mutant of GetExpired: the bytes of the entry stay counted.
GetExpiredKeepsBytes(k) ==
    /\ k \in DOMAIN entries
    /\ IsExpired(entries[k])
    /\ entries' = Without(entries, {k})
    /\ lru' = Remove(lru, k)
    /\ UNCHANGED <<total_bytes, now, newer>>

\* QueryCache::get of an entry that has expired: it is dropped.
GetExpired(k) ==
    /\ k \in DOMAIN entries
    /\ IsExpired(entries[k])
    /\ entries' = Without(entries, {k})
    /\ total_bytes' = SaturatingSub(total_bytes, entries[k].bytes)
    /\ lru' = Remove(lru, k)
    /\ UNCHANGED <<now, newer>>

\* QueryCache::get of a key that is not there: only the miss counter moves.
GetMiss(k) ==
    /\ k \notin DOMAIN entries
    /\ UNCHANGED vars

\* Mutant of Put: an overwrite frees the bytes of the old entry twice.
PutFreesTwice(k, b, ttl) ==
    LET over == k \in DOMAIN entries
        old  == IF over THEN entries[k].bytes ELSE 0
        base == IF over
                THEN [Inner EXCEPT !.entries = Without(entries, {k}),
                                   !.bytes = SaturatingSub(total_bytes, old)]
                ELSE EvictUntilFits(Inner, SizeOf[b])
        new  == [batches |-> b, created |-> now, ttl |-> ttl, bytes |-> SizeOf[b]]
    IN  /\ entries' = (k :> new) @@ base.entries
        /\ total_bytes' = base.bytes + SizeOf[b] - old
        /\ lru' = Touch(base.lru, k)
        /\ Used(k)
        /\ UNCHANGED now

\* QueryCache::put.  An overwrite frees the old entry and skips eviction.
Put(k, b, ttl) ==
    LET base == IF k \in DOMAIN entries
                THEN [Inner EXCEPT !.entries = Without(entries, {k}),
                                   !.bytes = SaturatingSub(total_bytes, entries[k].bytes)]
                ELSE EvictUntilFits(Inner, SizeOf[b])
        new  == [batches |-> b, created |-> now, ttl |-> ttl, bytes |-> SizeOf[b]]
    IN  /\ entries' = (k :> new) @@ base.entries
        /\ total_bytes' = base.bytes + SizeOf[b]
        /\ lru' = Touch(base.lru, k)
        /\ Used(k)
        /\ UNCHANGED now

\* QueryCache::evict_expired
EvictExpired ==
    LET expired == {k \in DOMAIN entries : IsExpired(entries[k])}
    IN  /\ entries' = Without(entries, expired)
        /\ total_bytes' = FoldLeft(LAMBDA acc, k : SaturatingSub(acc, entries[k].bytes),
                                   total_bytes, SetToSeq(expired))
        /\ lru' = SelectSeq(lru, LAMBDA k : k \notin expired)
        /\ UNCHANGED <<now, newer>>

\* QueryCache::clear
Clear ==
    /\ entries' = <<>>
    /\ lru' = <<>>
    /\ total_bytes' = 0
    /\ UNCHANGED <<now, newer>>

Tick ==
    /\ now < MaxTime
    /\ now' = now + 1
    /\ UNCHANGED <<cacheVars, newer>>

Next ==
    \/ \E k \in Keys : GetHit(k) \/ GetExpired(k) \/ GetMiss(k)
    \/ \E k \in Keys, b \in Batches, ttl \in Ttls : Put(k, b, ttl)
    \/ EvictExpired
    \/ Clear
    \/ Tick

Spec == Init /\ [][Next]_vars

-----------------------------------------------------------------------------

TypeOK ==
    /\ DOMAIN entries \subseteq Keys
    /\ \A k \in DOMAIN entries : entries[k] \in CachedResult
    /\ lru \in Seq(Keys)
    /\ total_bytes \in Nat
    /\ now \in 0..MaxTime
    /\ newer \subseteq Keys \X Keys

\* The three structures agree, whatever mix of overwrites, evictions and expiries
\* led here.  The LRU order names each present key exactly once and nothing else:
\* were it to name a key that is gone, evict_one_lru would report failure and
\* evict_until_fits would stop with the cache still full.  The running total is the
\* sum over the entries: no saturating_sub ever hid a miscount.
StructuresAgree ==
    /\ IsInjective(lru)
    /\ Range(lru) = DOMAIN entries
    /\ total_bytes = MapThenSumSet(LAMBDA k : entries[k].bytes, DOMAIN entries)

\* An entry leaves the cache only because it expired, because everything was
\* cleared, or as the victim of a put; a victim of a put was used before every
\* entry that was there and stays.  Recency is the history `newer`, kept
\* independently of the LRU list.
EvictsLeastRecentlyUsed ==
    [][\A k \in DOMAIN entries \ DOMAIN entries' :
          \/ IsExpired(entries[k])
          \/ \A j \in DOMAIN entries \cap DOMAIN entries' : <<j, k>> \in newer]_vars

\* put "evicts LRU entries if at capacity or over memory budget" (cache.rs): a
\* result under a new key is admitted within both limits, or alone when it is over
\* the budget by itself.  An overwrite skips the eviction, and may take the cache
\* over its budget.
NewResultsFit ==
    [][DOMAIN entries' \ DOMAIN entries # {} =>
          /\ Cardinality(DOMAIN entries') <= MaxEntries
          /\ total_bytes' <= MaxBytes \/ Cardinality(DOMAIN entries') = 1]_vars
=============================================================================
