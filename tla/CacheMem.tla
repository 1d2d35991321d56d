------------------------------ MODULE CacheMem ------------------------------
(***************************************************************************)
(* The memory tier of the HTTP cache (src/src/cache.odin): a map from      *)
(* cache keys to entries, the bytes it holds, and the LRU list of keys.    *)
(* The operations are operators on a record of these three, so that the    *)
(* whole cache (module HttpCache) can chain them as the code does; this    *)
(* module also runs them on their own, in any order.                       *)
(***************************************************************************)
EXTENDS Integers, Sequences, FiniteSets, SequencesExt

CONSTANTS Key,       \* cache keys: scheme://host[:port]/path?query
          Entry,     \* cache entries; of an entry this module reads .size
          MemMax,    \* MEM_CACHE_MAX
          SmallMax   \* MEM_CACHE_MAX / 4: larger bodies stay on disk

ASSUME EntrySizeAssumption == \A e \in Entry : e.size \in Nat
ASSUME MemBoundAssumption == /\ MemMax \in Nat
                             /\ SmallMax \in Nat
                             /\ SmallMax <= MemMax

VARIABLE cache       \* [mem, mem_use, order]; order is oldest first

Small(e) == e.size <= SmallMax

EmptyMem == [mem |-> <<>>, mem_use |-> 0, order |-> <<>>]

(* The bytes of the entries of mem whose keys are in K. *)
SizeOfKeys(mem, K) == MapThenSumSet(LAMBDA k : mem[k].size, K \cap DOMAIN mem)

----------------------------------------------------------------------------
(* Faults of a touch: the old position is kept; the old end is used. *)
TouchKeepsOld(order, key) == Append(order, key)
TouchOldEnd(order, key) == <<key>> \o RemoveFirst(order, key)

(* The key moves to, or joins, the young end of the LRU list. *)
cache_touch(order, key) == Append(RemoveFirst(order, key), key)

(* mem_use once the n oldest keys of the list are gone. *)
UseWithout(c, n) == c.mem_use - SizeOfKeys(c.mem, Range(SubSeq(c.order, 1, n)))

(* The loop pops the oldest key until the bytes fit or the list is empty.  *)
EvictCount(c) ==
  CHOOSE n \in 0..Len(c.order) :
    /\ UseWithout(c, n) <= MemMax \/ n = Len(c.order)
    /\ \A i \in 0..(n - 1) : ~ (UseWithout(c, i) <= MemMax)

cache_mem_evict(c) ==
  LET n == EvictCount(c)
      popped == Range(SubSeq(c.order, 1, n))
  IN [mem     |-> Restrict(c.mem, DOMAIN c.mem \ popped),
      mem_use |-> UseWithout(c, n),
      order   |-> SubSeq(c.order, n + 1, Len(c.order))]

(* Fault of a put: the bytes of the replaced entry stay counted. *)
PutCountsTwice(c, key, e) ==
  cache_mem_evict(
    [mem     |-> [k \in DOMAIN c.mem \cup {key} |-> IF k = key THEN e ELSE c.mem[k]],
     mem_use |-> c.mem_use + e.size,
     order   |-> cache_touch(c.order, key)])

(* Replace any entry of the key, count the bytes, touch, evict. *)
cache_mem_put(c, key, e) ==
  LET kept == DOMAIN c.mem \ {key}
  IN cache_mem_evict(
       [mem     |-> [k \in kept \cup {key} |-> IF k = key THEN e ELSE c.mem[k]],
        mem_use |-> c.mem_use - SizeOfKeys(c.mem, {key}) + e.size,
        order   |-> cache_touch(c.order, key)])

(* A hit makes the key the youngest; a miss changes nothing. *)
cache_mem_get(c, key) ==
  IF key \in DOMAIN c.mem
    THEN [c EXCEPT !.order = cache_touch(c.order, key)]
    ELSE c

(* cache_refresh_entry touches the key of an entry served from disk, so    *)
(* the list also holds keys that memory does not.                          *)
TouchAbsent(c, key) ==
  IF key \in DOMAIN c.mem
    THEN c
    ELSE [c EXCEPT !.order = cache_touch(c.order, key)]

----------------------------------------------------------------------------
MemInit == cache = EmptyMem

Put(key, e) == /\ Small(e)
               /\ cache' = cache_mem_put(cache, key, e)

Get(key) == /\ key \in DOMAIN cache.mem
            /\ cache' = cache_mem_get(cache, key)

Refresh(key) == cache' = TouchAbsent(cache, key)

MemNext == \E key \in Key : \/ \E e \in Entry : Put(key, e)
                            \/ Get(key)
                            \/ Refresh(key)

MemSpec == MemInit /\ [][MemNext]_cache

----------------------------------------------------------------------------

(* Every resident key is in the LRU list, and no key is there twice: an    *)
(* entry missing from the list could never be evicted, and a key listed    *)
(* twice would be evicted while it is still young.                         *)
LruCovers == /\ IsInjective(cache.order)
             /\ DOMAIN cache.mem \subseteq Range(cache.order)

(* The tier never holds more than its bound once an operation returns, and *)
(* mem_use, which is only ever adjusted by differences, is the sum of the  *)
(* resident sizes, through every replacement and eviction.                 *)
MemBounded == cache.mem_use = SizeOfKeys(cache.mem, Key) /\ cache.mem_use <= MemMax

(* A put never evicts the entry it has just stored: cache_disk_load hands  *)
(* out the entry it promoted right after the put.                          *)
PutSurvives ==
  [][cache' # cache =>
       \A key \in Key : \A e \in Entry :
         Put(key, e) => key \in DOMAIN cache'.mem /\ cache'.mem[key] = e]_cache

=============================================================================
