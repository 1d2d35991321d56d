----------------------------- MODULE HttpCache -----------------------------
(***************************************************************************)
(* The HTTP cache as its callers see it (cached_fetch in                   *)
(* src/src/cache.odin): the memory tier of module CacheMem over a disk     *)
(* tier whose operations are atomic here (module CacheDisk takes them      *)
(* apart), the origin servers, the clock and a restart of the program.     *)
(* A fetch blocks the program, so one call of cached_fetch is one step.    *)
(***************************************************************************)
EXTENDS CacheMem

CONSTANTS Doc,       \* what an origin may answer: [id, size, etag, cc, max_age, vary]
          Variant,   \* values of the one request header in extra
          MaxClock   \* bound on the clock, in seconds

(* id names the content; etag says whether the answer has a validator (the *)
(* content's id); cc is a cache-control directive, of which maybe_store    *)
(* heeds no-store and nothing heeds no-cache; max_age is what              *)
(* cache_computable_age makes of the headers, -1 for none; vary names the  *)
(* request header the answer depends on.                                   *)
ASSUME DocAssumption ==
  \A d \in Doc : /\ d.size \in Nat
                 /\ d.max_age \in Int
                 /\ d.etag \in BOOLEAN
                 /\ d.cc \in {"none", "no-store", "no-cache"}
                 /\ d.vary \in {"none", "extra", "star"}

VARIABLES disk,    \* key -> entry: the row of the key with its body
          site,    \* key -> what its origin answers: a document, Moved or Broken
          clock,   \* seconds
          answer,  \* what the last cached_fetch returned
          heard    \* key, variant -> the content the origin last vouched for

hvars == <<cache, disk, site, clock, answer, heard>>

None == "none"
Moved(k) == [moved |-> k]      \* redirected, over one or more hops, to k
Broken == [broken |-> TRUE]    \* a status other than 200 and 304
IsDoc(s) == s \in Doc

NoAnswer == [from |-> None]

(* A cache entry.  headers, meta (etag, last-modified, vary) and body each *)
(* name the document they came from.                                       *)
EntryFor(d, x) ==
  [body |-> d.id, meta |-> d, headers |-> d, size |-> d.size, fetched_at |-> clock,
   max_age |-> d.max_age, req_vary |-> x]

----------------------------------------------------------------------------
cache_is_fresh(e) == e.max_age >= 0 /\ clock < e.fetched_at + e.max_age

(* vary_key_of compares the headers the caller passed in extra; the Cookie *)
(* header is added later, by fetch_url, and is never among them.           *)
VaryMatches(e, x) ==
  CASE e.meta.vary = "star"  -> FALSE
    [] e.meta.vary = "extra" -> e.req_vary = x
    [] OTHER                 -> TRUE

(* cache_lookup and cache_disk_load: memory first, then disk; a small      *)
(* entry found on disk is promoted.                                        *)
Known(k) == k \in DOMAIN cache.mem \cup DOMAIN disk
EntryOf(k) == IF k \in DOMAIN cache.mem THEN cache.mem[k] ELSE disk[k]
cache_disk_load(c, k) ==
  IF k \in DOMAIN disk /\ Small(disk[k])
    THEN cache_mem_get(cache_mem_put(c, k, disk[k]), k)
    ELSE c
MemAfterLookup(k) ==
  IF k \in DOMAIN cache.mem THEN cache_mem_get(cache, k)
                            ELSE cache_mem_get(cache_disk_load(cache, k), k)
Hit(k, x) == Known(k) /\ VaryMatches(EntryOf(k), x)
FreshHit(k, x) == Hit(k, x) /\ cache_is_fresh(EntryOf(k))
Conditional(k, x) == Hit(k, x) /\ EntryOf(k).meta.etag

----------------------------------------------------------------------------
(* Where a request for k ends, and what is there.  A chain of redirects    *)
(* that does not end in an answer fails.                                   *)
EndOf(k) == IF "moved" \in DOMAIN site[k] THEN site[k].moved ELSE k
Reply(k) == site[EndOf(k)]
Answers(k) == "moved" \notin DOMAIN Reply(k)

Returned(k, from, body, entry) ==
  [from |-> from, key |-> k, body |-> body, entry |-> entry]

(* maybe_store and cache_disk_store.  Enforcing the cap of the disk tier   *)
(* may remove any rows, the new one included.                              *)
maybe_store(c, k, d, x) ==
  IF d.cc = "no-store"
    THEN cache' = c /\ disk' = disk
    ELSE LET e == EntryFor(d, x)
             rows == [j \in DOMAIN disk \cup {k} |-> IF j = k THEN e ELSE disk[j]]
         IN /\ cache' = IF Small(e) THEN cache_mem_put(c, k, e) ELSE c
            /\ \E kept \in SUBSET DOMAIN rows : disk' = Restrict(rows, kept)

----------------------------------------------------------------------------
(* The paths of cached_fetch for GET. *)

(* A fresh entry is served as it is. *)
FetchFresh(k, x) ==
  /\ FreshHit(k, x)
  /\ cache' = MemAfterLookup(k)
  /\ answer' = Returned(k, "cache", EntryOf(k).body, EntryOf(k))
  /\ UNCHANGED <<disk, heard>>

(* An entry that a 304 refreshes: the new lifetime if the answer has one,  *)
(* and its headers.                                                        *)
Refreshed(e, d) ==
  [e EXCEPT !.max_age = IF d.max_age < 0 THEN e.max_age ELSE d.max_age,
            !.fetched_at = clock,
            !.headers = d]

(* The columns of the row that cache_refresh_entry updates. *)
RowRefreshed(r, e) ==
  [r EXCEPT !.headers = e.headers, !.fetched_at = e.fetched_at, !.max_age = e.max_age]

(* Fault of a conditional request: the validator is that of the row. *)
ValidatorOfRow(k) ==
  IF k \in DOMAIN disk THEN disk[k].meta.id ELSE EntryOf(k).meta.id

(* If-None-Match: the validator stored with the entry. *)
Validator(k) == EntryOf(k).meta.id

(* A stale entry with a validator, which the origin confirms. *)
FetchNotModified(k, x) ==
  /\ Conditional(k, x) /\ ~ FreshHit(k, x)
  /\ Answers(k) /\ IsDoc(Reply(k)) /\ Reply(k).etag
  /\ Reply(k).id = Validator(k)
  /\ LET e == Refreshed(EntryOf(k), Reply(k))
         c == MemAfterLookup(k)
     IN /\ cache' = IF k \in DOMAIN c.mem THEN [c EXCEPT !.mem[k] = e] ELSE TouchAbsent(c, k)
        /\ disk' = IF k \in DOMAIN disk THEN [disk EXCEPT ![k] = RowRefreshed(@, e)] ELSE disk
        /\ answer' = Returned(k, "revalidated", e.body, e)
        /\ heard' = [heard EXCEPT ![k][e.req_vary] = Reply(k).id]

(* Fault of the store path: a redirected body is stored under the key that *)
(* was asked for.                                                          *)
AnsweredStoresRedirect(k, x) ==
  /\ ~ FreshHit(k, x)
  /\ Answers(k)
  /\ LET c == MemAfterLookup(k)
         r == Reply(k)
     IN /\ IF IsDoc(r) THEN maybe_store(c, k, r, x) ELSE cache' = c /\ disk' = disk
        /\ answer' = Returned(k, "network", IF IsDoc(r) THEN r.id ELSE None, None)
        /\ heard' = [heard EXCEPT ![k][x] = IF IsDoc(r) /\ EndOf(k) = k THEN r.id ELSE None]

(* The origin answers in full.  Only a direct 200 is stored. *)
FetchAnswered(k, x) ==
  /\ ~ FreshHit(k, x)
  /\ Answers(k)
  /\ LET c == MemAfterLookup(k)
         r == Reply(k)
     IN /\ IF IsDoc(r) /\ EndOf(k) = k THEN maybe_store(c, k, r, x)
                                       ELSE cache' = c /\ disk' = disk
        /\ answer' = Returned(k, "network", IF IsDoc(r) THEN r.id ELSE None, None)
        /\ heard' = [heard EXCEPT ![k][x] = IF IsDoc(r) /\ EndOf(k) = k THEN r.id ELSE None]

(* The transfer fails: an error, too many hops or a redirect loop. *)
FetchFails(k, x) ==
  /\ ~ FreshHit(k, x)
  /\ cache' = MemAfterLookup(k)
  /\ answer' = NoAnswer
  /\ UNCHANGED <<disk, heard>>

cached_fetch(k, x) ==
  /\ \/ FetchFresh(k, x) \/ FetchNotModified(k, x)
     \/ FetchAnswered(k, x) \/ FetchFails(k, x)
  /\ UNCHANGED <<site, clock>>

----------------------------------------------------------------------------
(* The program ends and starts again: memory is lost, the disk is kept.    *)
Restart ==
  /\ cache' = EmptyMem
  /\ answer' = NoAnswer
  /\ UNCHANGED <<disk, site, clock, heard>>

(* The origins change and time passes. *)
Sites == Doc \cup {Moved(k) : k \in Key} \cup {Broken}
Publish(k) ==
  /\ \E s \in Sites : s # Moved(k) /\ site' = [site EXCEPT ![k] = s]
  /\ answer' = NoAnswer
  /\ UNCHANGED <<cache, disk, clock, heard>>

Tick ==
  /\ clock < MaxClock
  /\ clock' = clock + 1
  /\ answer' = NoAnswer
  /\ UNCHANGED <<cache, disk, site, heard>>

HttpInit ==
  /\ cache = EmptyMem
  /\ disk = <<>>
  /\ site = [k \in Key |-> Broken]
  /\ clock = 0
  /\ answer = NoAnswer
  /\ heard = [k \in Key |-> [x \in Variant |-> None]]

HttpNext ==
  \/ \E k \in Key : Publish(k) \/ \E x \in Variant : cached_fetch(k, x)
  \/ Restart \/ Tick

HttpSpec == HttpInit /\ [][HttpNext]_hvars

----------------------------------------------------------------------------

(* Without asking the origin, the cache serves only the content the origin *)
(* vouched for when it was last asked for that variant of the key, by a    *)
(* direct 200 or by a 304.  Entries too large for memory are excepted: a   *)
(* 304 for a small entry still in memory refreshes the row of its larger   *)
(* successor.                                                              *)
FreshIsConfirmed ==
  answer.from = "cache" /\ Small(answer.entry)
    => answer.body = heard[answer.key][answer.entry.req_vary]

(* What a 304 confirms is what is served: the stored body is the content   *)
(* the origin has now, whichever tier it came from.                        *)
RevalidatedIsCurrent == answer.from = "revalidated" => answer.body = Reply(answer.key).id

=============================================================================
