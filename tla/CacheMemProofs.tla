--------------------------- MODULE CacheMemProofs ---------------------------
(***************************************************************************)
(* Theorems about the memory tier of the cache, for any keys, entries and  *)
(* bounds: the LRU list stays a duplicate-free list of keys that covers    *)
(* every resident entry.                                                   *)
(***************************************************************************)
EXTENDS CacheMem, WellFoundedInduction, TLAPS

(* What the LRU list must satisfy, as a predicate of a list and a domain.  *)
Lru(order, keys) == /\ order \in Seq(Key)
                    /\ IsInjective(order)
                    /\ keys \subseteq Range(order)

(* The inductive invariant: the parts of the type invariant the list needs *)
(* together with LruCovers.                                                *)
LruInv == /\ cache = [mem |-> cache.mem, mem_use |-> cache.mem_use, order |-> cache.order]
          /\ DOMAIN cache.mem \subseteq Key
          /\ Lru(cache.order, DOMAIN cache.mem)

----------------------------------------------------------------------------
(* Every non-empty set of naturals has a least element. *)
LEMMA LeastNatural ==
  ASSUME NEW T \in SUBSET Nat, T # {}
  PROVE  \E m \in T : \A n \in T : m <= n
<1> DEFINE R == OpToRel(<, Nat)
<1>1. IsWellFoundedOn(R, Nat)
  BY NatLessThanWellFounded
<1>2. \A m, n \in Nat : n < m => <<n, m>> \in R
  BY DEF OpToRel
<1> HIDE DEF R
<1>3. PICK m \in T : \A n \in T : ~ (<<n, m>> \in R)
  BY <1>1, WFMin
<1>4. \A n \in T : ~ (n < m)
  BY <1>2, <1>3
<1>5. \A n \in T : m <= n
  BY <1>4
<1>6. QED
  BY <1>5

(* A new key at the end of a duplicate-free list. *)
LEMMA AppendLemma ==
  ASSUME NEW s \in Seq(Key), IsInjective(s), NEW key \in Key, key \notin Range(s)
  PROVE  /\ Append(s, key) \in Seq(Key)
         /\ IsInjective(Append(s, key))
         /\ Range(Append(s, key)) = Range(s) \cup {key}
<1> DEFINE t == Append(s, key)
<1>1. /\ t \in Seq(Key) /\ Len(s) \in Nat /\ DOMAIN s = 1..Len(s)
      /\ DOMAIN t = 1..(Len(s) + 1)
      /\ \A j \in 1..Len(s) : t[j] = s[j]
      /\ t[Len(s) + 1] = key
  OBVIOUS
<1> HIDE DEF t
<1>2. \A j \in 1..Len(s) : s[j] # key
  BY <1>1 DEF Range
<1>3. IsInjective(t)
  <2>1. SUFFICES ASSUME NEW a \in DOMAIN t, NEW b \in DOMAIN t, t[a] = t[b]
                 PROVE  a = b
    BY DEF IsInjective
  <2>2. \A p, q \in 1..Len(s) : s[p] = s[q] => p = q
    BY <1>1 DEF IsInjective
  <2>3. QED
    BY <1>1, <1>2, <2>1, <2>2
<1>4. Range(t) = Range(s) \cup {key}
  <2>1. \A v : v \in Range(t) => v \in Range(s) \cup {key}
    BY <1>1 DEF Range
  <2>2. Range(s) \subseteq Range(t)
    BY <1>1 DEF Range
  <2>3. key \in Range(t)
    BY <1>1 DEF Range
  <2>4. QED
    BY <2>1, <2>2, <2>3
<1>5. QED
  BY <1>1, <1>3, <1>4 DEF t

(* Removing the element at a position of a duplicate-free list. *)
LEMMA RemoveAtLemma ==
  ASSUME NEW s \in Seq(Key), IsInjective(s), NEW i \in 1..Len(s)
  PROVE  /\ RemoveAt(s, i) \in Seq(Key)
         /\ IsInjective(RemoveAt(s, i))
         /\ Range(RemoveAt(s, i)) = Range(s) \ {s[i]}
<1> DEFINE a == SubSeq(s, 1, i - 1)
           b == SubSeq(s, i + 1, Len(s))
           r == RemoveAt(s, i)
<1>1. a \in Seq(Key) /\ Len(a) = i - 1 /\ \A j \in 1..(i - 1) : a[j] = s[j]
  OBVIOUS
<1>2. b \in Seq(Key) /\ Len(b) = Len(s) - i /\ \A j \in 1..(Len(s) - i) : b[j] = s[i + j]
  OBVIOUS
<1>3. r = a \o b
  BY DEF RemoveAt
<1> HIDE DEF a, b, r
<1>4. r \in Seq(Key) /\ DOMAIN r = 1..(Len(s) - 1) /\ DOMAIN s = 1..Len(s) /\ Len(s) \in Nat
  BY <1>1, <1>2, <1>3
<1>5. \A j \in 1..(i - 1) : r[j] = s[j]
  BY <1>1, <1>2, <1>3
<1>6. \A j \in i..(Len(s) - 1) : r[j] = s[j + 1]
  <2>1. TAKE j \in i..(Len(s) - 1)
  <2>2. r[j] = b[j - (i - 1)]
    BY <1>1, <1>2, <1>3
  <2>3. QED
    BY <1>2, <2>2
<1>7. \A p, q \in 1..Len(s) : s[p] = s[q] => p = q
  BY <1>4 DEF IsInjective
<1>8. IsInjective(r)
  <2>1. SUFFICES ASSUME NEW p \in 1..(Len(s) - 1), NEW q \in 1..(Len(s) - 1), r[p] = r[q]
                 PROVE  p = q
    BY <1>4 DEF IsInjective
  <2> DEFINE pos(j) == IF j < i THEN j ELSE j + 1
  <2>2. s[pos(p)] = r[p] /\ s[pos(q)] = r[q] /\ pos(p) \in 1..Len(s) /\ pos(q) \in 1..Len(s)
    BY <1>4, <1>5, <1>6
  <2>3. pos(p) = pos(q)
    BY <1>7, <2>1, <2>2
  <2>4. QED
    BY <2>3
<1>9. Range(r) \subseteq Range(s) \ {s[i]}
  <2>1. SUFFICES ASSUME NEW p \in 1..(Len(s) - 1) PROVE r[p] \in Range(s) \ {s[i]}
    BY <1>4 DEF Range
  <2> DEFINE pos == IF p < i THEN p ELSE p + 1
  <2>2. pos \in 1..Len(s) /\ pos # i /\ r[p] = s[pos]
    BY <1>4, <1>5, <1>6
  <2>3. QED
    BY <1>4, <1>7, <2>2 DEF Range
<1>10. Range(s) \ {s[i]} \subseteq Range(r)
  <2>1. SUFFICES ASSUME NEW p \in 1..Len(s), p # i PROVE s[p] \in Range(r)
    BY <1>4 DEF Range
  <2> DEFINE pos == IF p < i THEN p ELSE p - 1
  <2>2. pos \in 1..(Len(s) - 1) /\ r[pos] = s[p]
    BY <1>4, <1>5, <1>6, <2>1
  <2>3. QED
    BY <1>4, <2>2 DEF Range
<1>11. QED
  BY <1>4, <1>8, <1>9, <1>10 DEF r

(* Touching a key in a duplicate-free list leaves a duplicate-free list of *)
(* the same keys and the key touched.                                      *)
LEMMA TouchLemma ==
  ASSUME NEW order \in Seq(Key), IsInjective(order), NEW key \in Key
  PROVE  /\ cache_touch(order, key) \in Seq(Key)
         /\ IsInjective(cache_touch(order, key))
         /\ Range(cache_touch(order, key)) = Range(order) \cup {key}
<1>1. CASE \E i \in 1..Len(order) : order[i] = key
  <2>1. PICK i \in 1..Len(order) : order[i] = key
    BY <1>1
  <2>2. {j \in 1..Len(order) : order[j] = key} = {i}
    BY <2>1 DEF IsInjective
  <2>3. Min({i}) = i
    BY <2>1 DEF Min
  <2>4. RemoveFirst(order, key) = RemoveAt(order, i)
    BY <1>1, <2>2, <2>3 DEF RemoveFirst, SelectInSeq
  <2>5. key \in Range(order)
    BY <2>1 DEF Range
  <2>6. QED
    BY <2>1, <2>4, <2>5, RemoveAtLemma, AppendLemma DEF cache_touch
<1>2. CASE ~ \E i \in 1..Len(order) : order[i] = key
  <2>1. cache_touch(order, key) = Append(order, key)
    BY <1>2 DEF cache_touch, RemoveFirst
  <2>2. key \notin Range(order)
    BY <1>2 DEF Range
  <2>3. QED
    BY <2>1, <2>2, AppendLemma
<1>3. QED
  BY <1>1, <1>2

(* Eviction pops a prefix of the list, between none and all of its keys. *)
LEMMA EvictCountLemma ==
  ASSUME NEW c, c.order \in Seq(Key)
  PROVE  EvictCount(c) \in 0..Len(c.order)
<1> DEFINE Stop(n) == UseWithout(c, n) <= MemMax \/ n = Len(c.order)
           T == {n \in 0..Len(c.order) : Stop(n)}
<1>1. T \in SUBSET Nat /\ T # {}
  <2>1. Len(c.order) \in T
    OBVIOUS
  <2>2. QED
    BY <2>1
<1>2. PICK m \in T : \A n \in T : m <= n
  BY <1>1, LeastNatural
<1>3. \A i \in 0..(m - 1) : ~ (UseWithout(c, i) <= MemMax)
  BY <1>2
<1>4. QED
  BY <1>2, <1>3 DEF EvictCount

(* Eviction keeps the list duplicate-free and covering what is left. *)
LEMMA EvictLemma ==
  ASSUME NEW c, Lru(c.order, DOMAIN c.mem), DOMAIN c.mem \subseteq Key
  PROVE  LET d == cache_mem_evict(c)
         IN /\ d = [mem |-> d.mem, mem_use |-> d.mem_use, order |-> d.order]
            /\ DOMAIN d.mem \subseteq DOMAIN c.mem
            /\ Lru(d.order, DOMAIN d.mem)
<1> DEFINE n == EvictCount(c)
           popped == Range(SubSeq(c.order, 1, n))
           rest == SubSeq(c.order, n + 1, Len(c.order))
           d == cache_mem_evict(c)
<1>1. c.order \in Seq(Key) /\ Len(c.order) \in Nat /\ DOMAIN c.order = 1..Len(c.order)
  BY DEF Lru
<1>2. n \in 0..Len(c.order)
  BY <1>1, EvictCountLemma
<1>3. /\ d = [mem |-> d.mem, mem_use |-> d.mem_use, order |-> d.order]
      /\ DOMAIN d.mem = DOMAIN c.mem \ popped
      /\ d.order = rest
  BY DEF cache_mem_evict, Restrict
<1> HIDE DEF n, d
<1>4. /\ rest \in Seq(Key) /\ DOMAIN rest = 1..(Len(c.order) - n)
      /\ \A j \in 1..(Len(c.order) - n) : rest[j] = c.order[n + j]
  BY <1>1, <1>2
<1>5. \A j \in 1..n : c.order[j] \in popped
  <2>1. /\ DOMAIN SubSeq(c.order, 1, n) = 1..n
        /\ \A j \in 1..n : SubSeq(c.order, 1, n)[j] = c.order[j]
    BY <1>1, <1>2
  <2>2. QED
    BY <2>1 DEF Range
<1> HIDE DEF rest, popped
<1>6. IsInjective(rest)
  <2>1. \A p, q \in 1..Len(c.order) : c.order[p] = c.order[q] => p = q
    BY <1>1 DEF Lru, IsInjective
  <2>2. SUFFICES ASSUME NEW p \in 1..(Len(c.order) - n), NEW q \in 1..(Len(c.order) - n),
                        rest[p] = rest[q]
                 PROVE  p = q
    BY <1>4 DEF IsInjective
  <2>3. n + p = n + q
    BY <1>1, <1>2, <1>4, <2>1, <2>2
  <2>4. QED
    BY <1>1, <1>2, <2>3
<1>7. DOMAIN c.mem \ popped \subseteq Range(rest)
  <2>1. SUFFICES ASSUME NEW k \in DOMAIN c.mem, k \notin popped PROVE k \in Range(rest)
    OBVIOUS
  <2>2. PICK i \in 1..Len(c.order) : c.order[i] = k
    BY <1>1 DEF Lru, Range
  <2>3. i > n
    BY <1>1, <1>2, <1>5, <2>1, <2>2
  <2>4. i - n \in DOMAIN rest /\ rest[i - n] = k
    BY <1>1, <1>2, <1>4, <2>2, <2>3
  <2>5. QED
    BY <2>4 DEF Range
<1>8. Lru(d.order, DOMAIN d.mem)
  BY <1>3, <1>4, <1>6, <1>7 DEF Lru
<1>9. QED
  BY <1>3, <1>8 DEF d

----------------------------------------------------------------------------
(* The LRU list of the memory tier never holds a key twice and never loses *)
(* a resident entry, whatever the keys, entries and bounds.                *)
THEOREM LruInvariant == MemSpec => []LruCovers
<1>1. MemInit => LruInv
  BY DEF MemInit, EmptyMem, LruInv, Lru, IsInjective, Range
<1>2. ASSUME LruInv, [MemNext]_cache PROVE LruInv'
  <2>1. CASE UNCHANGED cache
    BY <1>2, <2>1 DEF LruInv, Lru, IsInjective, Range
  <2>2. ASSUME NEW key \in Key, NEW e \in Entry, Put(key, e) PROVE LruInv'
    <3> DEFINE c == [mem     |-> [k \in (DOMAIN cache.mem \ {key}) \cup {key} |->
                                    IF k = key THEN e ELSE cache.mem[k]],
                     mem_use |-> cache.mem_use - SizeOfKeys(cache.mem, {key}) + e.size,
                     order   |-> cache_touch(cache.order, key)]
    <3>1. cache' = cache_mem_evict(c)
      BY <2>2 DEF Put, cache_mem_put
    <3>2. Lru(c.order, DOMAIN c.mem) /\ DOMAIN c.mem \subseteq Key
      BY <1>2, TouchLemma DEF LruInv, Lru
    <3> HIDE DEF c
    <3>3. QED
      BY <3>1, <3>2, EvictLemma DEF LruInv
  <2>3. ASSUME NEW key \in Key, Get(key) PROVE LruInv'
    <3>1. cache' = [mem |-> cache.mem, mem_use |-> cache.mem_use, order |-> cache_touch(cache.order, key)]
      BY <1>2, <2>3 DEF Get, cache_mem_get, LruInv
    <3>2. QED
      BY <1>2, <3>1, TouchLemma DEF LruInv, Lru
  <2>4. ASSUME NEW key \in Key, Refresh(key) PROVE LruInv'
    <3>1. CASE key \in DOMAIN cache.mem
      BY <1>2, <2>4, <3>1 DEF Refresh, TouchAbsent, LruInv, Lru
    <3>2. CASE key \notin DOMAIN cache.mem
      <4>1. cache' = [mem |-> cache.mem, mem_use |-> cache.mem_use, order |-> cache_touch(cache.order, key)]
        BY <1>2, <2>4, <3>2 DEF Refresh, TouchAbsent, LruInv
      <4>2. QED
        BY <1>2, <4>1, TouchLemma DEF LruInv, Lru
    <3>3. QED
      BY <3>1, <3>2
  <2>5. QED
    BY <1>2, <2>1, <2>2, <2>3, <2>4 DEF MemNext
<1>3. LruInv => LruCovers
  BY DEF LruInv, Lru, LruCovers
<1>4. QED
  BY <1>1, <1>2, <1>3, PTL DEF MemSpec
=============================================================================
