-------------------------- MODULE HttpCacheProofs --------------------------
(***************************************************************************)
(* Theorems about the whole cache, for any keys, documents and bounds:     *)
(* what a 304 makes the cache serve is what the origin has, and what it    *)
(* serves without asking is what the origin last vouched for.              *)
(***************************************************************************)
EXTENDS HttpCache, TLAPS

(* An entry whose body is the one its validator names. *)
Fields == {"body", "meta", "headers", "size", "fetched_at", "max_age", "req_vary"}
Named(e) == /\ e = [f \in Fields |-> e[f]]
            /\ e.meta.id = e.body

IsMem(c) == c = [mem |-> c.mem, mem_use |-> c.mem_use, order |-> c.order]

(* The inductive invariant: validator and body go together in both tiers. *)
NamedInv == /\ IsMem(cache)
            /\ \A k \in DOMAIN cache.mem : Named(cache.mem[k])
            /\ \A k \in DOMAIN disk : Named(disk[k])
CurrentInv == NamedInv /\ RevalidatedIsCurrent

(* A lookup in memory moves keys, never entries. *)
LEMMA GetKeepsEntries ==
  ASSUME NEW c, IsMem(c), NEW k
  PROVE  IsMem(cache_mem_get(c, k)) /\ cache_mem_get(c, k).mem = c.mem
  BY DEF IsMem, cache_mem_get

(* A put adds its own entry and no other. *)
LEMMA PutAddsEntry ==
  ASSUME NEW c, IsMem(c), NEW k, NEW e
  PROVE  /\ IsMem(cache_mem_put(c, k, e))
         /\ \A j \in DOMAIN cache_mem_put(c, k, e).mem :
              cache_mem_put(c, k, e).mem[j] = IF j = k THEN e ELSE c.mem[j]
         /\ DOMAIN cache_mem_put(c, k, e).mem \subseteq DOMAIN c.mem \cup {k}
<1> DEFINE b == [mem     |-> [j \in (DOMAIN c.mem \ {k}) \cup {k} |->
                                IF j = k THEN e ELSE c.mem[j]],
                 mem_use |-> c.mem_use - SizeOfKeys(c.mem, {k}) + e.size,
                 order   |-> cache_touch(c.order, k)]
           gone == Range(SubSeq(b.order, 1, EvictCount(b)))
           r == cache_mem_put(c, k, e)
<1>1. r = cache_mem_evict(b)
  BY DEF cache_mem_put
<1>2. /\ b.mem = [j \in (DOMAIN c.mem \ {k}) \cup {k} |-> IF j = k THEN e ELSE c.mem[j]]
  OBVIOUS
<1> HIDE DEF b
<1>3. /\ IsMem(r)
      /\ r.mem = [j \in DOMAIN b.mem \ gone |-> b.mem[j]]
  BY <1>1 DEF cache_mem_evict, Restrict, IsMem
<1> HIDE DEF gone, r
<1>4. QED
  BY <1>2, <1>3 DEF r

(* Looking a key up, promotion from disk included, keeps entries named. *)
LEMMA LookupKeepsNamed ==
  ASSUME NamedInv, NEW k
  PROVE  /\ IsMem(MemAfterLookup(k))
         /\ \A j \in DOMAIN MemAfterLookup(k).mem : Named(MemAfterLookup(k).mem[j])
<1>1. CASE k \in DOMAIN cache.mem
  BY <1>1, GetKeepsEntries DEF MemAfterLookup, NamedInv
<1>2. CASE k \notin DOMAIN cache.mem
  <2> DEFINE c == cache_disk_load(cache, k)
  <2>1. IsMem(c) /\ \A j \in DOMAIN c.mem : Named(c.mem[j])
    <3>1. CASE k \in DOMAIN disk /\ Small(disk[k])
      <4> DEFINE d == cache_mem_put(cache, k, disk[k])
      <4>1. IsMem(d) /\ \A j \in DOMAIN d.mem : Named(d.mem[j])
        <5>1. /\ IsMem(d)
              /\ \A j \in DOMAIN d.mem : d.mem[j] = IF j = k THEN disk[k] ELSE cache.mem[j]
              /\ DOMAIN d.mem \subseteq DOMAIN cache.mem \cup {k}
          BY PutAddsEntry DEF NamedInv
        <5> HIDE DEF d
        <5>2. QED BY <3>1, <5>1 DEF NamedInv
      <4> HIDE DEF d
      <4>2. c = cache_mem_get(d, k)
        BY <3>1 DEF cache_disk_load, d
      <4> HIDE DEF c
      <4>3. QED BY <4>1, <4>2, GetKeepsEntries
    <3>2. CASE ~ (k \in DOMAIN disk /\ Small(disk[k]))
      BY <3>2 DEF cache_disk_load, NamedInv
    <3>3. QED BY <3>1, <3>2
  <2>2. MemAfterLookup(k) = cache_mem_get(c, k)
    BY <1>2 DEF MemAfterLookup
  <2> HIDE DEF c
  <2>3. QED BY <2>1, <2>2, GetKeepsEntries
<1>3. QED BY <1>1, <1>2

(* A lookup finds a named entry. *)
LEMMA FoundIsNamed ==
  ASSUME NamedInv, NEW k, Known(k)
  PROVE  Named(EntryOf(k))
  BY DEF NamedInv, Known, EntryOf

(* What a 304 changes of an entry or a row leaves validator and body. *)
LEMMA RefreshKeepsNamed ==
  ASSUME NEW e, Named(e)
  PROVE  /\ \A d : Named(Refreshed(e, d)) /\ Refreshed(e, d).body = e.body
         /\ \A f : Named(RowRefreshed(e, f))
  BY DEF Named, Fields, Refreshed, RowRefreshed

(* A new entry is named. *)
LEMMA NewIsNamed ==
  ASSUME NEW d, NEW x
  PROVE  Named(EntryFor(d, x))
  BY DEF Named, Fields, EntryFor

(* Storing an answer keeps entries named. *)
LEMMA StoreKeepsNamed ==
  ASSUME NamedInv, NEW c, IsMem(c), \A j \in DOMAIN c.mem : Named(c.mem[j]),
         NEW k, NEW d, NEW x, maybe_store(c, k, d, x)
  PROVE  NamedInv'
<1> DEFINE e == EntryFor(d, x)
           rows == [j \in DOMAIN disk \cup {k} |-> IF j = k THEN e ELSE disk[j]]
<1>1. CASE d.cc = "no-store"
  BY <1>1 DEF maybe_store, NamedInv
<1>2. CASE d.cc # "no-store"
  <2>1. cache' = (IF Small(e) THEN cache_mem_put(c, k, e) ELSE c)
    BY <1>2 DEF maybe_store
  <2>2. PICK kept \in SUBSET DOMAIN rows : disk' = Restrict(rows, kept)
    BY <1>2 DEF maybe_store
  <2>3. Named(e)
    BY NewIsNamed
  <2>4. \A j \in DOMAIN disk' : Named(disk'[j])
    BY <2>2, <2>3 DEF Restrict, NamedInv
  <2> HIDE DEF e, rows
  <2>5. IsMem(cache') /\ \A j \in DOMAIN cache'.mem : Named(cache'.mem[j])
    <3>1. CASE Small(e)
      <4>1. /\ IsMem(cache')
            /\ \A j \in DOMAIN cache'.mem : cache'.mem[j] = IF j = k THEN e ELSE c.mem[j]
            /\ DOMAIN cache'.mem \subseteq DOMAIN c.mem \cup {k}
        BY <2>1, <3>1, PutAddsEntry
      <4>2. QED BY <2>3, <4>1
    <3>2. CASE ~ Small(e)
      BY <2>1, <3>2
    <3>3. QED BY <3>1, <3>2
  <2>6. QED BY <2>4, <2>5 DEF NamedInv, IsMem
<1>3. QED BY <1>1, <1>2

(* Each path of cached_fetch keeps the invariant. *)
LEMMA FetchStep ==
  ASSUME CurrentInv, NEW k \in Key, NEW x \in Variant, cached_fetch(k, x)
  PROVE  CurrentInv'
<1> DEFINE c == MemAfterLookup(k)
<1>0. /\ NamedInv
      /\ IsMem(c) /\ \A j \in DOMAIN c.mem : Named(c.mem[j])
      /\ site' = site
  BY LookupKeepsNamed DEF CurrentInv, cached_fetch
<1>1. CASE FetchFresh(k, x)
  <2>1. NamedInv'
    BY <1>0, <1>1 DEF FetchFresh, NamedInv, IsMem
  <2>2. RevalidatedIsCurrent'
    BY <1>1 DEF FetchFresh, RevalidatedIsCurrent, Returned
  <2>3. QED BY <2>1, <2>2 DEF CurrentInv
<1>2. CASE FetchNotModified(k, x)
  <2> DEFINE e == Refreshed(EntryOf(k), Reply(k))
  <2>1. /\ Named(e) /\ e.body = EntryOf(k).body
        /\ EntryOf(k).body = Reply(k).id
    <3>1. Known(k) /\ Reply(k).id = EntryOf(k).meta.id
      BY <1>2 DEF FetchNotModified, Validator, Conditional, Hit
    <3>2. Named(EntryOf(k))
      BY <1>0, <3>1, FoundIsNamed
    <3>3. QED BY <3>1, <3>2, RefreshKeepsNamed DEF Named
  <2>2. /\ cache' = IF k \in DOMAIN c.mem THEN [c EXCEPT !.mem[k] = e] ELSE TouchAbsent(c, k)
        /\ disk' = IF k \in DOMAIN disk THEN [disk EXCEPT ![k] = RowRefreshed(@, e)] ELSE disk
        /\ answer' = Returned(k, "revalidated", e.body, e)
    BY <1>2 DEF FetchNotModified, Validator
  <2> HIDE DEF e, c
  <2>3. IsMem(cache') /\ \A j \in DOMAIN cache'.mem : Named(cache'.mem[j])
    <3>1. CASE k \in DOMAIN c.mem
      <4>1. /\ cache' = [mem |-> [c.mem EXCEPT ![k] = e], mem_use |-> c.mem_use,
                         order |-> c.order]
        BY <1>0, <2>2, <3>1 DEF IsMem
      <4>2. QED BY <1>0, <2>1, <4>1 DEF IsMem
    <3>2. CASE k \notin DOMAIN c.mem
      BY <1>0, <2>2, <3>2 DEF TouchAbsent, IsMem
    <3>3. QED BY <3>1, <3>2
  <2>4. \A j \in DOMAIN disk' : Named(disk'[j])
    BY <1>0, <2>2, RefreshKeepsNamed DEF NamedInv
  <2>5. RevalidatedIsCurrent'
    <3>1. answer'.key = k /\ answer'.body = e.body
      BY <2>2 DEF Returned
    <3>2. Reply(k)' = Reply(k)
      BY <1>0 DEF Reply, EndOf
    <3>3. QED BY <2>1, <3>1, <3>2 DEF RevalidatedIsCurrent, Reply, EndOf
  <2>6. QED BY <2>3, <2>4, <2>5 DEF CurrentInv, NamedInv, IsMem
<1>3. CASE FetchAnswered(k, x)
  <2>1. NamedInv'
    <3>1. CASE maybe_store(c, k, Reply(k), x)
      BY <1>0, <3>1, StoreKeepsNamed
    <3>2. CASE cache' = c /\ disk' = disk
      BY <1>0, <3>2 DEF NamedInv, IsMem
    <3>3. QED BY <1>3, <3>1, <3>2 DEF FetchAnswered
  <2>2. RevalidatedIsCurrent'
    BY <1>3 DEF FetchAnswered, RevalidatedIsCurrent, Returned
  <2>3. QED BY <2>1, <2>2 DEF CurrentInv
<1>4. CASE FetchFails(k, x)
  <2>1. NamedInv'
    BY <1>0, <1>4 DEF FetchFails, NamedInv, IsMem
  <2>2. RevalidatedIsCurrent'
    BY <1>4 DEF FetchFails, RevalidatedIsCurrent, NoAnswer, None
  <2>3. QED BY <2>1, <2>2 DEF CurrentInv
<1>5. QED
  BY <1>1, <1>2, <1>3, <1>4 DEF cached_fetch

(* A body served after a 304 is the content the origin has now, whichever  *)
(* tier it came from and whatever was stored, evicted, refreshed or        *)
(* restarted before: the row keeps its etag when a refresh rewrites its    *)
(* headers (cache_refresh_entry), so etag and body never part.             *)
THEOREM RevalidationTheorem == HttpSpec => []RevalidatedIsCurrent
<1>1. HttpInit => CurrentInv
  BY DEF HttpInit, CurrentInv, NamedInv, IsMem, EmptyMem, RevalidatedIsCurrent, NoAnswer, None
<1>2. CurrentInv /\ [HttpNext]_hvars => CurrentInv'
  <2> SUFFICES ASSUME CurrentInv, [HttpNext]_hvars PROVE CurrentInv'
    OBVIOUS
  <2>1. CASE UNCHANGED hvars
    BY <2>1 DEF hvars, CurrentInv, NamedInv, IsMem, RevalidatedIsCurrent, Reply, EndOf
  <2>2. CASE Restart
    BY <2>2 DEF Restart, CurrentInv, NamedInv, IsMem, EmptyMem, RevalidatedIsCurrent,
                NoAnswer, None
  <2>3. CASE Tick \/ \E k \in Key : Publish(k)
    BY <2>3 DEF Tick, Publish, CurrentInv, NamedInv, IsMem,
                RevalidatedIsCurrent, NoAnswer, None
  <2>4. QED
    BY <2>1, <2>2, <2>3, FetchStep DEF HttpNext
<1>3. CurrentInv => RevalidatedIsCurrent
  BY DEF CurrentInv
<1>4. QED
  BY <1>1, <1>2, <1>3, PTL DEF HttpSpec

----------------------------------------------------------------------------
(* What is served without asking.                                          *)

(* The types that freshness and the record of what was heard need. *)
Timed(e) == /\ e = [f \in Fields |-> e[f]]
            /\ e.fetched_at \in Int /\ e.max_age \in Int
            /\ e.req_vary \in Variant

(* An entry that could be served for the variant it was stored for: it is  *)
(* fresh, and it does not vary with everything, which no request matches.  *)
Servable(e, now) == /\ e.max_age >= 0 /\ now < e.fetched_at + e.max_age
                    /\ e.meta.vary # "star"

(* A small one has the content last vouched for. *)
Confirmed(k, e, now, h) ==
  Timed(e) /\ (Small(e) /\ Servable(e, now) => e.body = h[k][e.req_vary])

(* Two copies of one stored answer; their headers may differ. *)
Same(e, r) == /\ e.body = r.body /\ e.meta = r.meta /\ e.req_vary = r.req_vary
              /\ e.fetched_at = r.fetched_at /\ e.max_age = r.max_age

(* Entries m in memory and rows d: all are confirmed, and they agree on    *)
(* every small row.  A 304 for the entry in memory renews the row as well, *)
(* so the row must be of the same answer.                                  *)
Tiers(m, d, now, h) ==
  /\ DOMAIN m \subseteq Key /\ DOMAIN d \subseteq Key
  /\ \A k \in DOMAIN m : Confirmed(k, m[k], now, h)
  /\ \A k \in DOMAIN d : Confirmed(k, d[k], now, h)
  /\ \A k \in DOMAIN m \cap DOMAIN d : Small(d[k]) => Same(m[k], d[k])

IsRecord(h) == /\ h = [k \in Key |-> h[k]]
               /\ \A k \in Key : h[k] = [x \in Variant |-> h[k][x]]

(* The record after the origin says v of k and x. *)
Told(h, k, x, v) == [h EXCEPT ![k][x] = v]

(* The inductive invariant. *)
ConfirmedInv == /\ IsMem(cache) /\ clock \in Int /\ IsRecord(heard)
                /\ Tiers(cache.mem, disk, clock, heard)

(* Each entry that a lookup leaves in memory is the one it would find. *)
LEMMA LookupKeepsEntries ==
  ASSUME IsMem(cache), NEW k
  PROVE  /\ IsMem(MemAfterLookup(k))
         /\ \A j \in DOMAIN MemAfterLookup(k).mem :
              Known(j) /\ MemAfterLookup(k).mem[j] = EntryOf(j)
<1>1. CASE k \in DOMAIN cache.mem
  BY <1>1, GetKeepsEntries DEF MemAfterLookup, Known, EntryOf
<1>2. CASE k \notin DOMAIN cache.mem
  <2> DEFINE c == cache_disk_load(cache, k)
  <2>1. IsMem(c) /\ \A j \in DOMAIN c.mem : Known(j) /\ c.mem[j] = EntryOf(j)
    <3>1. CASE k \in DOMAIN disk /\ Small(disk[k])
      <4> DEFINE d == cache_mem_put(cache, k, disk[k])
      <4>1. /\ IsMem(d)
            /\ \A j \in DOMAIN d.mem : d.mem[j] = IF j = k THEN disk[k] ELSE cache.mem[j]
            /\ DOMAIN d.mem \subseteq DOMAIN cache.mem \cup {k}
        BY PutAddsEntry
      <4>2. c = cache_mem_get(d, k)
        BY <3>1 DEF cache_disk_load
      <4> HIDE DEF c, d
      <4>3. IsMem(c) /\ c.mem = d.mem
        BY <4>1, <4>2, GetKeepsEntries
      <4>4. \A j \in DOMAIN d.mem : Known(j) /\ d.mem[j] = EntryOf(j)
        BY <1>2, <3>1, <4>1 DEF Known, EntryOf
      <4>5. QED BY <4>3, <4>4
    <3>2. CASE ~ (k \in DOMAIN disk /\ Small(disk[k]))
      BY <3>2 DEF cache_disk_load, Known, EntryOf
    <3>3. QED BY <3>1, <3>2
  <2>2. MemAfterLookup(k) = cache_mem_get(c, k)
    BY <1>2 DEF MemAfterLookup
  <2> HIDE DEF c
  <2>3. QED BY <2>1, <2>2, GetKeepsEntries
<1>3. QED BY <1>1, <1>2

(* What the invariant says of the entry a lookup finds. *)
LEMMA FoundFacts ==
  ASSUME ConfirmedInv, NEW j, Known(j)
  PROVE  /\ j \in Key /\ Confirmed(j, EntryOf(j), clock, heard)
         /\ j \in DOMAIN disk /\ Small(disk[j]) => Same(EntryOf(j), disk[j])
BY DEF ConfirmedInv, Tiers, Known, EntryOf, Same

(* A lookup keeps the tiers agreeing: memory then holds what it held or    *)
(* what the disk holds.                                                    *)
LEMMA LookupKeepsTiers ==
  ASSUME ConfirmedInv, NEW k
  PROVE  Tiers(MemAfterLookup(k).mem, disk, clock, heard)
<1> DEFINE m == MemAfterLookup(k).mem
<1>1. \A j \in DOMAIN m : Known(j) /\ m[j] = EntryOf(j)
  BY LookupKeepsEntries DEF ConfirmedInv
<1> HIDE DEF m
<1>2. \A j \in DOMAIN m :
        /\ j \in Key /\ Confirmed(j, m[j], clock, heard)
        /\ j \in DOMAIN disk /\ Small(disk[j]) => Same(m[j], disk[j])
  BY <1>1, FoundFacts
<1>3. QED
  BY <1>2 DEF ConfirmedInv, Tiers, m

(* What the origin says of k and x changes the record there alone. *)
LEMMA RecordFields ==
  ASSUME NEW h, IsRecord(h), NEW k \in Key, NEW x \in Variant, NEW v
  PROVE  /\ IsRecord(Told(h, k, x, v)) /\ Told(h, k, x, v)[k][x] = v
         /\ \A j \in Key, y \in Variant :
              j # k \/ y # x => Told(h, k, x, v)[j][y] = h[j][y]
BY DEF IsRecord, Told

(* A new word of the origin about k and x, when nothing that k has for x   *)
(* could be served.                                                        *)
LEMMA StaleKeepsTiers ==
  ASSUME NEW m, NEW d, NEW now, NEW h, Tiers(m, d, now, h), IsRecord(h),
         NEW k \in Key, NEW x \in Variant, NEW v,
         k \in DOMAIN m /\ m[k].req_vary = x => ~ Servable(m[k], now),
         k \in DOMAIN d /\ Small(d[k]) /\ d[k].req_vary = x => ~ Servable(d[k], now)
  PROVE  Tiers(m, d, now, Told(h, k, x, v))
<1> DEFINE g == Told(h, k, x, v)
<1>1. \A j \in Key, y \in Variant : j # k \/ y # x => g[j][y] = h[j][y]
  BY RecordFields
<1> HIDE DEF g
<1>2. ASSUME NEW j \in Key, NEW e, Confirmed(j, e, now, h),
             j = k /\ Small(e) /\ e.req_vary = x => ~ Servable(e, now)
      PROVE  Confirmed(j, e, now, g)
  BY <1>1, <1>2 DEF Confirmed, Timed
<1>3. Tiers(m, d, now, g)
  BY <1>2 DEF Tiers
<1>4. QED
  BY <1>3 DEF g

(* A direct 200 is stored for k and x, in both tiers if it is small and    *)
(* otherwise on disk alone; either tier may lose what it held.             *)
LEMMA StoredKeepsTiers ==
  ASSUME NEW m, NEW d, NEW now, NEW h, Tiers(m, d, now, h),
         NEW k \in Key, NEW n, Confirmed(k, n, now, h),
         NEW mm, NEW dd,
         DOMAIN mm \subseteq DOMAIN m \cup {k}, DOMAIN dd \subseteq DOMAIN d \cup {k},
         \A j \in DOMAIN dd : dd[j] = IF j = k THEN n ELSE d[j],
         \/ Small(n) /\ \A j \in DOMAIN mm : mm[j] = IF j = k THEN n ELSE m[j]
         \/ ~ Small(n) /\ mm = m
  PROVE  Tiers(mm, dd, now, h)
<1>1. DOMAIN mm \subseteq Key /\ DOMAIN dd \subseteq Key
  BY DEF Tiers
<1>2. \A j \in DOMAIN dd : Confirmed(j, dd[j], now, h)
  BY DEF Tiers
<1>3. \A j \in DOMAIN mm : Confirmed(j, mm[j], now, h)
  BY DEF Tiers
<1>4. ASSUME NEW j \in DOMAIN mm \cap DOMAIN dd, Small(dd[j])
      PROVE  Same(mm[j], dd[j])
  <2>1. CASE j = k
    <3>1. dd[j] = n /\ Small(n) /\ mm[j] = n
      BY <1>4, <2>1
    <3>2. QED BY <3>1 DEF Same
  <2>2. CASE j # k
    <3>1. dd[j] = d[j] /\ mm[j] = m[j] /\ j \in DOMAIN m \cap DOMAIN d
      BY <1>4, <2>2
    <3>2. QED BY <1>4, <3>1 DEF Tiers
  <2>3. QED BY <2>1, <2>2
<1>5. QED
  BY <1>1, <1>2, <1>3, <1>4 DEF Tiers

(* A 304 renews the entry of k and the row of k; a row that is small is of *)
(* the same answer.                                                        *)
LEMMA RenewedKeepsTiers ==
  ASSUME NEW m, NEW d, NEW now, NEW h, Tiers(m, d, now, h), IsRecord(h),
         NEW k \in Key, NEW e, Timed(e), NEW r, Timed(r),
         NEW mm, NEW dd,
         k \in DOMAIN d /\ Small(r) => Same(e, r),
         DOMAIN mm = DOMAIN m, \A j \in DOMAIN m : mm[j] = IF j = k THEN e ELSE m[j],
         DOMAIN dd = DOMAIN d, \A j \in DOMAIN d : dd[j] = IF j = k THEN r ELSE d[j]
  PROVE  Tiers(mm, dd, now, Told(h, k, e.req_vary, e.body))
<1> DEFINE g == Told(h, k, e.req_vary, e.body)
<1>1. e.req_vary \in Variant
  BY DEF Timed
<1>2. /\ g[k][e.req_vary] = e.body
      /\ \A j \in Key, y \in Variant : j # k \/ y # e.req_vary => g[j][y] = h[j][y]
  BY <1>1, RecordFields
<1> HIDE DEF g
<1>3. \A j \in Key : \A f : j # k /\ Confirmed(j, f, now, h) => Confirmed(j, f, now, g)
  BY <1>2 DEF Confirmed, Timed
<1>4. Confirmed(k, e, now, g)
  BY <1>2 DEF Confirmed
<1>5. k \in DOMAIN d => Confirmed(k, r, now, g)
  BY <1>2 DEF Confirmed, Same
<1>6. Tiers(mm, dd, now, g)
  BY <1>3, <1>4, <1>5 DEF Tiers
<1>7. QED
  BY <1>6 DEF g

(* Nothing that k has for variant x could be served when its lookup missed *)
(* or found it stale.                                                      *)
LEMMA MissedIsStale ==
  ASSUME ConfirmedInv, NEW k, NEW x, ~ FreshHit(k, x)
  PROVE  LET m == MemAfterLookup(k).mem
         IN /\ k \in DOMAIN m /\ m[k].req_vary = x => ~ Servable(m[k], clock)
            /\ k \in DOMAIN disk /\ Small(disk[k]) /\ disk[k].req_vary = x
                 => ~ Servable(disk[k], clock)
<1>1. Known(k) /\ EntryOf(k).req_vary = x => ~ Servable(EntryOf(k), clock)
  BY DEF FreshHit, Hit, VaryMatches, cache_is_fresh, Servable
<1>2. k \in DOMAIN MemAfterLookup(k).mem
        => Known(k) /\ MemAfterLookup(k).mem[k] = EntryOf(k)
  BY LookupKeepsEntries DEF ConfirmedInv
<1>3. k \in DOMAIN disk /\ Small(disk[k]) => Known(k) /\ Same(EntryOf(k), disk[k])
  BY FoundFacts DEF Known
<1>4. QED
  BY <1>1, <1>2, <1>3 DEF Same, Servable

(* A new entry, field by field. *)
LEMMA NewEntry ==
  ASSUME NEW d \in Doc, NEW x \in Variant, clock \in Int
  PROVE  LET e == EntryFor(d, x)
         IN Timed(e) /\ e.body = d.id /\ e.req_vary = x
BY DocAssumption DEF EntryFor, Timed, Fields

(* A renewed entry, field by field. *)
LEMMA RenewedEntry ==
  ASSUME NEW e, Timed(e), NEW d \in Doc, clock \in Int
  PROVE  LET f == Refreshed(e, d)
         IN /\ Timed(f) /\ f.body = e.body /\ f.req_vary = e.req_vary
            /\ f.meta = e.meta
BY DocAssumption DEF Refreshed, Timed, Fields

(* A renewed row, field by field. *)
LEMMA RenewedRow ==
  ASSUME NEW r, Timed(r), NEW e, Timed(e)
  PROVE  LET f == RowRefreshed(r, e)
         IN /\ Timed(f) /\ f.body = r.body /\ f.req_vary = r.req_vary
            /\ f.meta = r.meta /\ f.size = r.size
            /\ f.fetched_at = e.fetched_at /\ f.max_age = e.max_age
BY DEF RowRefreshed, Timed, Fields

(* A fresh hit and a failed fetch change nothing but memory. *)
LEMMA LookupConfirmed ==
  ASSUME ConfirmedInv, NEW k, cache' = MemAfterLookup(k),
         disk' = disk, heard' = heard, clock' = clock
  PROVE  ConfirmedInv'
<1>1. IsMem(cache')
  BY LookupKeepsEntries DEF ConfirmedInv
<1>2. Tiers(cache'.mem, disk', clock', heard')
  BY LookupKeepsTiers
<1>3. QED
  BY <1>1, <1>2 DEF ConfirmedInv

(* A 304. *)
LEMMA NotModifiedConfirmed ==
  ASSUME ConfirmedInv, NamedInv, NEW k \in Key, NEW x \in Variant,
         FetchNotModified(k, x), clock' = clock
  PROVE  ConfirmedInv'
<1> DEFINE o == EntryOf(k)
           e == Refreshed(o, Reply(k))
           c == MemAfterLookup(k)
           r == RowRefreshed(disk[k], e)
<1>1. /\ Known(k) /\ Reply(k) \in Doc /\ Reply(k).id = o.meta.id
      /\ cache' = IF k \in DOMAIN c.mem THEN [c EXCEPT !.mem[k] = e] ELSE TouchAbsent(c, k)
      /\ disk' = IF k \in DOMAIN disk THEN [disk EXCEPT ![k] = RowRefreshed(@, e)] ELSE disk
      /\ heard' = Told(heard, k, e.req_vary, Reply(k).id)
  BY DEF FetchNotModified, Validator, Conditional, Hit, IsDoc, Told
<1>2. clock \in Int /\ IsRecord(heard)
  BY DEF ConfirmedInv
<1>3. /\ Timed(o) /\ o.body = Reply(k).id
      /\ k \in DOMAIN disk => Timed(disk[k])
      /\ k \in DOMAIN disk /\ Small(disk[k]) => Same(o, disk[k])
  BY <1>1, FoundFacts, FoundIsNamed DEF Confirmed, Named, ConfirmedInv, Tiers
<1>4. Timed(e) /\ e.body = o.body /\ e.req_vary = o.req_vary /\ e.meta = o.meta
  BY <1>1, <1>2, <1>3, RenewedEntry
<1>5. IsMem(c) /\ Tiers(c.mem, disk, clock, heard)
  BY LookupKeepsTiers, LookupKeepsEntries DEF ConfirmedInv
<1> HIDE DEF o, e, c
<1>6. /\ IsMem(cache') /\ DOMAIN cache'.mem = DOMAIN c.mem
      /\ \A j \in DOMAIN c.mem : cache'.mem[j] = IF j = k THEN e ELSE c.mem[j]
  <2>1. CASE k \in DOMAIN c.mem
    <3>1. cache' = [mem |-> [c.mem EXCEPT ![k] = e], mem_use |-> c.mem_use,
                    order |-> c.order]
      BY <1>1, <1>5, <2>1 DEF IsMem
    <3>2. QED BY <3>1 DEF IsMem
  <2>2. CASE k \notin DOMAIN c.mem
    <3>1. cache' = [c EXCEPT !.order = cache_touch(c.order, k)]
      BY <1>1, <2>2 DEF TouchAbsent
    <3>2. IsMem(cache') /\ cache'.mem = c.mem
      BY <1>5, <3>1 DEF IsMem
    <3>3. QED BY <2>2, <3>2
  <2>3. QED BY <2>1, <2>2
<1>7. /\ DOMAIN disk' = DOMAIN disk
      /\ \A j \in DOMAIN disk : disk'[j] = IF j = k THEN r ELSE disk[j]
  BY <1>1
<1>8. CASE k \in DOMAIN disk
  <2>1. /\ Timed(r) /\ r.body = disk[k].body /\ r.req_vary = disk[k].req_vary
        /\ r.meta = disk[k].meta /\ r.size = disk[k].size
        /\ r.fetched_at = e.fetched_at /\ r.max_age = e.max_age
    BY <1>3, <1>4, <1>8, RenewedRow
  <2> HIDE DEF r
  <2>2. Small(r) => Same(e, r)
    BY <1>3, <1>4, <1>8, <2>1 DEF Small, Same
  <2>3. Tiers(cache'.mem, disk', clock, Told(heard, k, e.req_vary, e.body))
    BY <1>2, <1>4, <1>5, <1>6, <1>7, <2>1, <2>2, RenewedKeepsTiers
  <2>4. heard' = Told(heard, k, e.req_vary, e.body)
    BY <1>1, <1>3, <1>4
  <2>5. IsRecord(heard')
    BY <1>2, <1>4, <2>4, RecordFields DEF Timed
  <2>6. QED BY <1>2, <1>6, <2>3, <2>4, <2>5 DEF ConfirmedInv
<1>9. CASE k \notin DOMAIN disk
  <2>1. \A j \in DOMAIN disk : disk'[j] = IF j = k THEN e ELSE disk[j]
    BY <1>7, <1>9
  <2>2. Tiers(cache'.mem, disk', clock, Told(heard, k, e.req_vary, e.body))
    BY <1>2, <1>4, <1>5, <1>6, <1>7, <1>9, <2>1, RenewedKeepsTiers
  <2>3. heard' = Told(heard, k, e.req_vary, e.body)
    BY <1>1, <1>3, <1>4
  <2>4. IsRecord(heard')
    BY <1>2, <1>4, <2>3, RecordFields DEF Timed
  <2>5. QED BY <1>2, <1>6, <2>2, <2>3, <2>4 DEF ConfirmedInv
<1>10. QED BY <1>8, <1>9

(* A full answer: stored, not to be stored, or of another URL. *)
LEMMA AnsweredConfirmed ==
  ASSUME ConfirmedInv, NEW k \in Key, NEW x \in Variant,
         FetchAnswered(k, x), clock' = clock
  PROVE  ConfirmedInv'
<1> DEFINE c == MemAfterLookup(k)
           r == Reply(k)
           v == IF IsDoc(r) /\ EndOf(k) = k THEN r.id ELSE None
           g == Told(heard, k, x, v)
           n == EntryFor(r, x)
           rows == [j \in DOMAIN disk \cup {k} |-> IF j = k THEN n ELSE disk[j]]
<1>1. /\ ~ FreshHit(k, x) /\ heard' = g
      /\ \/ IsDoc(r) /\ EndOf(k) = k /\ maybe_store(c, k, r, x)
         \/ cache' = c /\ disk' = disk
  BY DEF FetchAnswered, Told
<1>2. clock \in Int /\ IsRecord(heard) /\ IsMem(c)
  BY LookupKeepsEntries DEF ConfirmedInv
<1>3. IsRecord(g) /\ g[k][x] = v
  BY <1>2, RecordFields
<1>4. Tiers(c.mem, disk, clock, g)
  <2>1. Tiers(c.mem, disk, clock, heard)
    BY LookupKeepsTiers
  <2>2. /\ k \in DOMAIN c.mem /\ c.mem[k].req_vary = x => ~ Servable(c.mem[k], clock)
        /\ k \in DOMAIN disk /\ Small(disk[k]) /\ disk[k].req_vary = x
             => ~ Servable(disk[k], clock)
    BY <1>1, MissedIsStale
  <2> HIDE DEF c, v
  <2>3. QED BY <1>2, <2>1, <2>2, StaleKeepsTiers
<1>5. CASE cache' = c /\ disk' = disk
  BY <1>1, <1>2, <1>3, <1>4, <1>5 DEF ConfirmedInv
<1>6. CASE IsDoc(r) /\ EndOf(k) = k /\ maybe_store(c, k, r, x) /\ r.cc # "no-store"
  <2>1. Timed(n) /\ n.body = v /\ n.req_vary = x
    BY <1>2, <1>6, NewEntry DEF IsDoc
  <2>2. PICK kept \in SUBSET DOMAIN rows : disk' = Restrict(rows, kept)
    BY <1>6 DEF maybe_store
  <2>3. cache' = IF Small(n) THEN cache_mem_put(c, k, n) ELSE c
    BY <1>6 DEF maybe_store
  <2>4. /\ DOMAIN disk' \subseteq DOMAIN disk \cup {k}
        /\ \A j \in DOMAIN disk' : disk'[j] = IF j = k THEN n ELSE disk[j]
    BY <2>2 DEF Restrict
  <2> HIDE DEF c, v, n, g, rows
  <2>5. Confirmed(k, n, clock, g)
    BY <1>3, <2>1 DEF Confirmed
  <2>6. /\ IsMem(cache') /\ DOMAIN cache'.mem \subseteq DOMAIN c.mem \cup {k}
        /\ \/ Small(n) /\ \A j \in DOMAIN cache'.mem :
                            cache'.mem[j] = IF j = k THEN n ELSE c.mem[j]
           \/ ~ Small(n) /\ cache'.mem = c.mem
    BY <1>2, <2>3, PutAddsEntry
  <2>7. Tiers(cache'.mem, disk', clock, g)
    BY <1>4, <2>4, <2>5, <2>6, StoredKeepsTiers
  <2>8. QED BY <1>1, <1>2, <1>3, <2>6, <2>7 DEF ConfirmedInv
<1>7. QED
  BY <1>1, <1>5, <1>6 DEF maybe_store

(* Time makes entries stale, never fresh. *)
LEMMA TickConfirmed ==
  ASSUME ConfirmedInv, Tick
  PROVE  ConfirmedInv'
<1>1. /\ clock \in Int /\ clock' = clock + 1
      /\ cache' = cache /\ disk' = disk /\ heard' = heard
  BY DEF Tick, ConfirmedInv
<1>2. ASSUME NEW k, NEW e, Confirmed(k, e, clock, heard)
      PROVE  Confirmed(k, e, clock + 1, heard)
  BY <1>1, <1>2 DEF Confirmed, Timed, Servable
<1>3. Tiers(cache.mem, disk, clock + 1, heard)
  BY <1>2 DEF ConfirmedInv, Tiers
<1>4. QED
  BY <1>1, <1>3 DEF ConfirmedInv

(* The invariant holds throughout, beside that of the validators. *)
LEMMA ConfirmedAlways == HttpSpec => [](CurrentInv /\ ConfirmedInv)
<1>1. HttpInit => CurrentInv /\ ConfirmedInv
  <2> SUFFICES ASSUME HttpInit PROVE CurrentInv /\ ConfirmedInv
    OBVIOUS
  <2>1. CurrentInv
    BY DEF HttpInit, CurrentInv, NamedInv, IsMem, EmptyMem, RevalidatedIsCurrent,
           NoAnswer, None
  <2>2. IsMem(cache) /\ clock \in Int /\ IsRecord(heard)
    BY DEF HttpInit, IsMem, EmptyMem, IsRecord
  <2>3. DOMAIN cache.mem = {} /\ DOMAIN disk = {}
    BY DEF HttpInit, EmptyMem
  <2>4. Tiers(cache.mem, disk, clock, heard)
    BY <2>3 DEF Tiers
  <2>5. QED BY <2>1, <2>2, <2>4 DEF ConfirmedInv
<1>2. CurrentInv /\ ConfirmedInv /\ [HttpNext]_hvars => CurrentInv' /\ ConfirmedInv'
  <2> SUFFICES ASSUME CurrentInv, ConfirmedInv, [HttpNext]_hvars
               PROVE  CurrentInv' /\ ConfirmedInv'
    OBVIOUS
  <2>1. ASSUME NEW k \in Key, NEW x \in Variant, cached_fetch(k, x)
        PROVE  CurrentInv' /\ ConfirmedInv'
    <3>1. NamedInv /\ clock' = clock
      BY <2>1 DEF CurrentInv, cached_fetch
    <3>2. CASE FetchFresh(k, x) \/ FetchFails(k, x)
      BY <3>1, <3>2, LookupConfirmed, <2>1, FetchStep DEF FetchFresh, FetchFails
    <3>3. CASE FetchNotModified(k, x)
      BY <3>1, <3>3, NotModifiedConfirmed, <2>1, FetchStep
    <3>4. CASE FetchAnswered(k, x)
      BY <3>1, <3>4, AnsweredConfirmed, <2>1, FetchStep
    <3>5. QED BY <2>1, <3>2, <3>3, <3>4 DEF cached_fetch
  <2>2. CASE Restart
    <3>1. CurrentInv'
      BY <2>2 DEF Restart, CurrentInv, NamedInv, IsMem, EmptyMem,
                  RevalidatedIsCurrent, NoAnswer, None
    <3>2. /\ IsMem(cache') /\ DOMAIN cache'.mem = {}
          /\ disk' = disk /\ clock' = clock /\ heard' = heard
      BY <2>2 DEF Restart, EmptyMem, IsMem
    <3>3. QED BY <3>1, <3>2 DEF ConfirmedInv, Tiers
  <2>3. CASE \E k \in Key : Publish(k)
    BY <2>3 DEF Publish, CurrentInv, NamedInv, IsMem, RevalidatedIsCurrent,
                NoAnswer, None, ConfirmedInv
  <2>4. CASE Tick
    <3>1. CurrentInv'
      BY <2>4 DEF Tick, CurrentInv, NamedInv, IsMem, RevalidatedIsCurrent, NoAnswer, None
    <3>2. QED BY <2>4, <3>1, TickConfirmed
  <2>5. CASE UNCHANGED hvars
    BY <2>5 DEF hvars, CurrentInv, NamedInv, IsMem, RevalidatedIsCurrent, Reply, EndOf,
                ConfirmedInv
  <2>6. QED
    BY <2>1, <2>2, <2>3, <2>4, <2>5 DEF HttpNext
<1>3. QED
  BY <1>1, <1>2, PTL DEF HttpSpec

(* What is served without asking is the content the origin vouched for     *)
(* when it was last asked for that variant, by a direct 200 or a 304,      *)
(* through redirects, restarts, evictions in either tier, and answers that *)
(* are not to be stored (cached_fetch and maybe_store); entries too large  *)
(* for memory apart.                                                       *)
THEOREM FreshTheorem == HttpSpec => []FreshIsConfirmed
<1>1. HttpInit => FreshIsConfirmed
  BY DEF HttpInit, FreshIsConfirmed, NoAnswer, None
<1>2. ConfirmedInv /\ FreshIsConfirmed /\ [HttpNext]_hvars => FreshIsConfirmed'
  <2> SUFFICES ASSUME ConfirmedInv, FreshIsConfirmed, [HttpNext]_hvars
               PROVE  FreshIsConfirmed'
    OBVIOUS
  <2>1. ASSUME NEW k \in Key, NEW x \in Variant, FetchFresh(k, x)
        PROVE  FreshIsConfirmed'
    <3>1. /\ Known(k) /\ VaryMatches(EntryOf(k), x) /\ cache_is_fresh(EntryOf(k))
          /\ answer' = Returned(k, "cache", EntryOf(k).body, EntryOf(k))
          /\ heard' = heard
      BY <2>1 DEF FetchFresh, FreshHit, Hit
    <3>2. Servable(EntryOf(k), clock)
      BY <3>1 DEF VaryMatches, cache_is_fresh, Servable
    <3>3. Small(EntryOf(k)) => EntryOf(k).body = heard[k][EntryOf(k).req_vary]
      BY <3>1, <3>2, FoundFacts DEF Confirmed
    <3>4. /\ answer'.key = k /\ answer'.body = EntryOf(k).body
          /\ answer'.entry = EntryOf(k)
      BY <3>1 DEF Returned
    <3>5. QED BY <3>1, <3>3, <3>4 DEF FreshIsConfirmed
  <2>2. CASE answer' = NoAnswer
    BY <2>2 DEF FreshIsConfirmed, NoAnswer, None
  <2>3. ASSUME NEW k, NEW x, FetchNotModified(k, x) \/ FetchAnswered(k, x)
        PROVE  FreshIsConfirmed'
    BY <2>3 DEF FetchNotModified, FetchAnswered, Returned, FreshIsConfirmed
  <2>4. CASE UNCHANGED hvars
    BY <2>4 DEF hvars, FreshIsConfirmed
  <2>5. QED
    BY <2>1, <2>2, <2>3, <2>4
    DEF HttpNext, cached_fetch, FetchFails, Publish, Restart, Tick
<1>3. QED
  BY <1>1, <1>2, ConfirmedAlways, PTL DEF HttpSpec
=============================================================================
