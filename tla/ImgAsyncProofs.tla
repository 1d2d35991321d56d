--------------------------- MODULE ImgAsyncProofs ---------------------------
(***************************************************************************)
(* No image of an earlier document lands on a page, curl never runs more   *)
(* than IMG_CONCURRENT image transfers, and none waits while a slot is     *)
(* free, for every value of the constants, whatever curl refuses and       *)
(* wherever redirects lead.                                                *)
(***************************************************************************)
EXTENDS ImgAsync, FiniteSetTheorems, NaturalsInduction, WellFoundedInduction, TLAPS

(* A nonempty set of references has a last one. *)
LEMMA LastRef ==
  ASSUME NEW S \in SUBSET Ref, S # {}
  PROVE  \E m \in S : \A n \in S : n <= m
<1> DEFINE R == OpToRel(<, Nat)
           T == {MAX_PAGE_IMAGES - n : n \in S}
<1>1. MAX_PAGE_IMAGES \in Nat
  BY ImgAssumption
<1>2. T \in SUBSET Nat /\ T # {}
  <2>1. \A n \in S : n \in Int /\ n <= MAX_PAGE_IMAGES
    BY <1>1 DEF Ref
  <2>2. \A n \in S : MAX_PAGE_IMAGES - n \in Nat
    BY <1>1, <2>1
  <2>3. QED
    BY <2>2
<1>3. IsWellFoundedOn(R, Nat)
  BY NatLessThanWellFounded
<1>4. \A m, n \in Nat : n < m => <<n, m>> \in R
  BY DEF OpToRel
<1> HIDE DEF R
<1>5. PICK k \in T : \A j \in T : ~ (<<j, k>> \in R)
  BY <1>2, <1>3, WFMin
<1>6. \A j \in T : ~ (j < k)
  BY <1>2, <1>4, <1>5
<1>7. PICK m \in S : k = MAX_PAGE_IMAGES - m
  BY <1>5
<1>8. \A n \in S : n <= m
  <2> SUFFICES ASSUME NEW n \in S PROVE n <= m
    OBVIOUS
  <2>1. n \in Int /\ m \in Int
    BY DEF Ref
  <2>2. ~ (MAX_PAGE_IMAGES - n < MAX_PAGE_IMAGES - m)
    BY <1>6, <1>7
  <2>3. QED
    BY <1>1, <2>1, <2>2
<1>9. QED
  BY <1>8

(* What holds of every queue between and inside polls. *)
Sound(q, d) ==
  /\ DOMAIN q \subseteq Ref
  /\ \A r \in DOMAIN q : q[r].doc = d
  /\ \A r \in DOMAIN q : q[r].multi => q[r].easy
  /\ Cardinality({r \in DOMAIN q : q[r].multi}) <= IMG_CONCURRENT

(* A started transfer, field by field. *)
LEMMA StartedFields ==
  ASSUME NEW tr, NEW s
  PROVE  /\ Started(tr, s).doc = tr.doc
         /\ Started(tr, s).multi <=> s = "ok"
         /\ Started(tr, s).easy <=> s # "init"
BY DEF Started

(* The pump starts no more transfers than there are free slots: the last   *)
(* one it starts found fewer than IMG_CONCURRENT handles attached or       *)
(* started before it, and all others it starts come before that one.       *)
LEMMA PumpSound ==
  ASSUME NEW q, NEW start, NEW d, Sound(q, d)
  PROVE  Sound(Pumped(q, start), d)
<1> DEFINE p == Pumped(q, start)
           a == Attempted(q, start)
           M == {r \in DOMAIN q : q[r].multi}
           T == {r \in Tried(q, start) : start[r] = "ok"}
           A == Attached(q)
           N == {r \in DOMAIN p : p[r].multi}
<1>1. /\ DOMAIN a = DOMAIN q
      /\ \A r \in DOMAIN q : a[r] = IF r \in Tried(q, start)
                                    THEN Started(q[r], start[r]) ELSE q[r]
  BY DEF Attempted
<1>2. /\ DOMAIN p \subseteq DOMAIN q
      /\ \A r \in DOMAIN p : p[r] = a[r]
  BY <1>1 DEF Pumped, Restrict
<1> HIDE DEF p, a
<1>3. \A r \in DOMAIN p : p[r].doc = d /\ (p[r].multi => p[r].easy)
  BY <1>1, <1>2, StartedFields DEF Sound
<1>4. N \subseteq M \cup T
  <2> SUFFICES ASSUME NEW r \in N, r \notin M PROVE r \in T
    OBVIOUS
  <2>1. r \in Tried(q, start) /\ p[r] = Started(q[r], start[r])
    BY <1>1, <1>2
  <2>2. QED
    BY <2>1, StartedFields
<1>5. IsFiniteSet(DOMAIN q) /\ DOMAIN q \subseteq Ref
  <2>1. IsFiniteSet(Ref)
    BY ImgAssumption, FS_Interval DEF Ref
  <2>2. DOMAIN q \subseteq Ref
    BY DEF Sound
  <2>3. QED
    BY <2>1, <2>2, FS_Subset
<1>6. M \subseteq A /\ A \subseteq DOMAIN q /\ IsFiniteSet(A) /\ IsFiniteSet(M)
  <2>1. M \subseteq A /\ A \subseteq DOMAIN q
    BY DEF Sound, Attached
  <2>2. QED
    BY <1>5, <2>1, FS_Subset
<1>7. T \subseteq DOMAIN q
  BY DEF Tried
<1>8. Cardinality(N) <= IMG_CONCURRENT
  <2>1. CASE T = {}
    <3>1. N \subseteq M
      BY <1>4, <2>1
    <3>2. Cardinality(N) <= Cardinality(M) /\ IsFiniteSet(N)
      BY <1>6, <3>1, FS_Subset
    <3>3. Cardinality(N) \in Nat /\ Cardinality(M) \in Nat
      BY <1>6, <3>2, FS_CardinalityType
    <3>4. Cardinality(M) <= IMG_CONCURRENT
      BY DEF Sound
    <3>5. QED
      BY <3>2, <3>3, <3>4, ImgAssumption
  <2>2. CASE T # {}
    <3>1. PICK t \in T : \A s \in T : s <= t
      BY <1>5, <1>7, <2>2, LastRef
    <3> DEFINE B == {s \in DOMAIN q : s < t /\ ~ q[s].easy /\ start[s] = "ok"}
    <3>2. Cardinality(A) + Cardinality(B) < IMG_CONCURRENT
      BY <3>1 DEF Tried, ActiveAt
    <3>3. T \subseteq B \cup {t}
      <4> SUFFICES ASSUME NEW s \in T, s # t PROVE s \in B
        OBVIOUS
      <4>1. s \in Int /\ t \in Int /\ s <= t
        BY <1>5, <1>7, <3>1 DEF Ref
      <4>2. s < t
        BY <4>1
      <4>3. QED
        BY <4>2 DEF Tried
    <3>4. IsFiniteSet(B)
      BY <1>5, FS_Subset
    <3> HIDE DEF B, T
    <3>5. /\ IsFiniteSet(A \cup B)
          /\ Cardinality(A \cup B) = Cardinality(A) + Cardinality(B) - Cardinality(A \cap B)
      BY <1>6, <3>4, FS_Union
    <3>6. IsFiniteSet(A \cap B)
      BY <1>6, FS_Subset
    <3>7. /\ Cardinality(A) \in Nat /\ Cardinality(B) \in Nat
          /\ Cardinality(A \cap B) \in Nat /\ Cardinality(A \cup B) \in Nat
      BY <1>6, <3>4, <3>5, <3>6, FS_CardinalityType
    <3>8. /\ IsFiniteSet((A \cup B) \cup {t})
          /\ \/ Cardinality((A \cup B) \cup {t}) = Cardinality(A \cup B)
             \/ Cardinality((A \cup B) \cup {t}) = Cardinality(A \cup B) + 1
      BY <3>5, FS_AddElement
    <3>9. N \subseteq (A \cup B) \cup {t}
      BY <1>4, <1>6, <3>3
    <3>10. Cardinality(N) <= Cardinality((A \cup B) \cup {t}) /\ IsFiniteSet(N)
      BY <3>8, <3>9, FS_Subset
    <3>11. Cardinality(N) \in Nat
      BY <3>10, FS_CardinalityType
    <3>12. QED
      BY <3>2, <3>5, <3>7, <3>8, <3>10, <3>11, ImgAssumption
  <2>3. QED
    BY <2>1, <2>2
<1>9. QED
  BY <1>2, <1>3, <1>5, <1>8 DEF Sound, p

(* The same for img_async_pump_starts, whatever curl answers. *)
LEMMA PumpStartsSound ==
  ASSUME NEW q, NEW d, Sound(q, d), NEW p \in PumpStarts(q)
  PROVE  Sound(p, d)
BY PumpSound DEF PumpStarts

(* Fewer transfers, with the rest as they were. *)
LEMMA RestrictSound ==
  ASSUME NEW q, NEW d, Sound(q, d), NEW S \in SUBSET DOMAIN q
  PROVE  Sound(Restrict(q, S), d)
<1> DEFINE p == Restrict(q, S)
           M == {r \in DOMAIN q : q[r].multi}
           N == {r \in DOMAIN p : p[r].multi}
<1>1. DOMAIN p = S /\ \A r \in S : p[r] = q[r]
  BY DEF Restrict
<1> HIDE DEF p
<1>2. N \subseteq M
  BY <1>1
<1>3. IsFiniteSet(M)
  <2>1. IsFiniteSet(Ref)
    BY ImgAssumption, FS_Interval DEF Ref
  <2>2. M \subseteq Ref
    BY DEF Sound
  <2>3. QED
    BY <2>1, <2>2, FS_Subset
<1>4. Cardinality(N) <= Cardinality(M) /\ IsFiniteSet(N)
  BY <1>2, <1>3, FS_Subset
<1>5. Cardinality(N) \in Nat /\ Cardinality(M) \in Nat
  BY <1>3, <1>4, FS_CardinalityType
<1>6. Cardinality(N) <= IMG_CONCURRENT
  BY <1>4, <1>5, ImgAssumption DEF Sound
<1>7. QED
  BY <1>1, <1>6 DEF Sound, p

(* One transfer replaced by an unstarted one of the same document. *)
LEMMA RequeueSound ==
  ASSUME NEW q, NEW d, Sound(q, d), NEW r \in DOMAIN q, NEW tr,
         tr.doc = d, ~ tr.multi
  PROVE  Sound([q EXCEPT ![r] = tr], d)
<1> DEFINE p == [q EXCEPT ![r] = tr]
           M == {s \in DOMAIN q : q[s].multi}
           N == {s \in DOMAIN p : p[s].multi}
<1>1. DOMAIN p = DOMAIN q /\ p[r] = tr /\ \A s \in DOMAIN q : s # r => p[s] = q[s]
  OBVIOUS
<1> HIDE DEF p
<1>2. N \subseteq M
  BY <1>1
<1>3. IsFiniteSet(M)
  <2>1. IsFiniteSet(Ref)
    BY ImgAssumption, FS_Interval DEF Ref
  <2>2. M \subseteq Ref
    BY DEF Sound
  <2>3. QED
    BY <2>1, <2>2, FS_Subset
<1>4. Cardinality(N) <= Cardinality(M) /\ IsFiniteSet(N)
  BY <1>2, <1>3, FS_Subset
<1>5. Cardinality(N) \in Nat /\ Cardinality(M) \in Nat
  BY <1>3, <1>4, FS_CardinalityType
<1>6. Cardinality(N) <= IMG_CONCURRENT
  BY <1>4, <1>5, ImgAssumption DEF Sound
<1>7. DOMAIN p \subseteq Ref /\ \A s \in DOMAIN p : p[s].doc = d /\ (p[s].multi => p[s].easy)
  BY <1>1 DEF Sound
<1>8. QED
  BY <1>6, <1>7 DEF Sound, p

(* A queue with nothing running. *)
LEMMA UnstartedSound ==
  ASSUME NEW q, NEW d, DOMAIN q \subseteq Ref,
         \A r \in DOMAIN q : q[r].doc = d /\ ~ q[r].multi
  PROVE  Sound(q, d)
<1>1. {r \in DOMAIN q : q[r].multi} = {}
  OBVIOUS
<1>2. Cardinality({r \in DOMAIN q : q[r].multi}) <= IMG_CONCURRENT
  BY <1>1, FS_EmptySet, ImgAssumption
<1>3. QED
  BY <1>2 DEF Sound

(* The queue of a document that arrives: img_async_abandon left nothing    *)
(* of the earlier one.                                                     *)
LEMMA BeginSound ==
  ASSUME NEW got \in CacheAnswers, NEW d
  PROVE  Sound(Enqueued(got, d, Abandoned), d)
<1> DEFINE new == Misses(got, d)
           q == Enqueued(got, d, Abandoned)
<1>1. DOMAIN Abandoned = {}
  BY DEF Abandoned, Restrict
<1>2. DOMAIN q = DOMAIN new /\ \A r \in DOMAIN new : q[r] = new[r]
  BY <1>1 DEF Enqueued
<1>3. DOMAIN new \subseteq Taken(got) /\ \A r \in DOMAIN new : new[r] = Queued(d)
  BY DEF Misses
<1>4. Taken(got) \subseteq Ref
  <2>1. PICK n \in 0..MAX_PAGE_IMAGES : got \in [1..n -> Pixels \cup {Miss}]
    BY DEF CacheAnswers
  <2>2. DOMAIN got = 1..n
    BY <2>1
  <2>3. DOMAIN got \subseteq Ref
    BY <2>2, ImgAssumption DEF Ref
  <2>4. Taken(got) \subseteq DOMAIN got
    BY DEF Taken
  <2>5. QED
    BY <2>3, <2>4
<1>5. Queued(d).doc = d /\ ~ Queued(d).multi
  BY DEF Queued
<1>6. DOMAIN q \subseteq Ref /\ \A r \in DOMAIN q : q[r].doc = d /\ ~ q[r].multi
  BY <1>2, <1>3, <1>4, <1>5
<1>7. QED
  BY <1>6, UnstartedSound

(* The inductive invariant: images and queue belong to the document shown, *)
(* a running transfer has a handle, and the running ones fit the slots.    *)
ImgInv == Sound(queue, doc) /\ \A r \in DOMAIN images : images[r].doc = doc

(* At the start nothing is queued. *)
LEMMA InitInv == ImgInit => ImgInv
<1> SUFFICES ASSUME ImgInit PROVE ImgInv
  OBVIOUS
<1>1. DOMAIN queue = {} /\ DOMAIN images = {}
  BY DEF ImgInit
<1>2. Sound(queue, doc)
  BY <1>1, UnstartedSound
<1>3. QED
  BY <1>1, <1>2 DEF ImgInv

(* A completion leaves the document and removes or requeues its transfer;  *)
(* an image that joins the page carries the document of its transfer.      *)
LEMMA HarvestInv ==
  ASSUME ImgInv, NEW r \in Ref, Harvest(r)
  PROVE  ImgInv'
<1>1. /\ r \in DOMAIN queue /\ queue[r].doc = doc
      /\ Sound(queue, doc) /\ doc' = doc
  BY DEF ImgInv, Sound, Harvest, HarvestDropped, HarvestRedirect, HarvestImage, Running
<1>2. Sound(Restrict(queue, DOMAIN queue \ {r}), doc)
  BY <1>1, RestrictSound
<1>3. CASE HarvestDropped(r)
  <2>1. queue' = Restrict(queue, DOMAIN queue \ {r}) /\ images' = images
    BY <1>3 DEF HarvestDropped, Dequeue
  <2>2. Sound(queue', doc')
    BY <1>1, <1>2, <2>1
  <2>3. QED
    BY <1>1, <2>1, <2>2 DEF ImgInv, Sound
<1>4. CASE HarvestRedirect(r)
  <2> DEFINE tr == [doc |-> queue[r].doc, hops |-> queue[r].hops + 1,
                    easy |-> FALSE, multi |-> FALSE]
  <2>1. queue' = [queue EXCEPT ![r] = tr] /\ images' = images
    BY <1>4 DEF HarvestRedirect
  <2>2. tr.doc = doc /\ ~ tr.multi
    BY <1>1
  <2> HIDE DEF tr
  <2>3. Sound([queue EXCEPT ![r] = tr], doc)
    BY <1>1, <2>2, RequeueSound
  <2>4. Sound(queue', doc')
    BY <1>1, <2>1, <2>3
  <2>5. QED
    BY <1>1, <2>1, <2>4 DEF ImgInv, Sound
<1>5. ASSUME NEW px \in Pixels, HarvestImage(r, px) PROVE ImgInv'
  <2>1. queue' = Restrict(queue, DOMAIN queue \ {r})
    BY <1>5 DEF HarvestImage, Dequeue
  <2>2. Sound(queue', doc')
    BY <1>1, <1>2, <2>1
  <2>3. \A s \in DOMAIN images' : images'[s].doc = doc
    <3>1. \/ images' = images
          \/ images' = [s \in DOMAIN images \cup {r} |->
                 IF s = r THEN [doc |-> queue[r].doc, px |-> px]
                 ELSE images[s]]
      BY <1>5, Zenon DEF HarvestImage
    <3>2. QED
      BY <1>1, <3>1 DEF ImgInv
  <2>4. QED
    BY <1>1, <2>2, <2>3 DEF ImgInv, Sound
<1>6. QED
  BY <1>3, <1>4, <1>5 DEF Harvest

(* Every step keeps the invariant. *)
LEMMA StepInv == ImgInv /\ [ImgNext]_ivars => ImgInv'
<1> SUFFICES ASSUME ImgInv, [ImgNext]_ivars PROVE ImgInv'
  OBVIOUS
<1>1. ASSUME NEW got \in CacheAnswers, Load(got) PROVE ImgInv'
  <2>1. /\ doc' = doc + 1
        /\ images' = ReadyImages(got, doc + 1)
        /\ queue' \in PumpStarts(Enqueued(got, doc + 1, Abandoned))
    BY <1>1 DEF Load
  <2>2. Sound(queue', doc')
    BY <2>1, BeginSound, PumpStartsSound
  <2>3. \A r \in DOMAIN images' : images'[r].doc = doc'
    BY <2>1 DEF ReadyImages
  <2>4. QED
    BY <2>2, <2>3 DEF ImgInv, Sound
<1>2. CASE LoadFails
  <2>1. DOMAIN queue' = {} /\ DOMAIN images' = {}
    BY <1>2 DEF LoadFails, Abandoned, Restrict
  <2>2. Sound(queue', doc')
    BY <2>1, UnstartedSound
  <2>3. QED
    BY <2>1, <2>2 DEF ImgInv, Sound
<1>3. CASE PollBegin
  BY <1>3 DEF PollBegin, ImgInv, Sound
<1>4. CASE PollEnd
  <2>1. queue' \in PumpStarts(queue) /\ doc' = doc /\ images' = images
    BY <1>4 DEF PollEnd
  <2>2. Sound(queue', doc')
    BY <2>1, PumpStartsSound DEF ImgInv
  <2>3. QED
    BY <2>1, <2>2 DEF ImgInv, Sound
<1>5. ASSUME NEW r \in Ref, Harvest(r) PROVE ImgInv'
  BY <1>5, HarvestInv
<1>6. CASE ImgClose
  <2>1. DOMAIN queue' = {} /\ images' = images /\ doc' = doc
    BY <1>6 DEF ImgClose, Abandoned, Restrict
  <2>2. Sound(queue', doc')
    BY <2>1, UnstartedSound
  <2>3. QED
    BY <2>1, <2>2 DEF ImgInv, Sound
<1>7. CASE UNCHANGED ivars
  BY <1>7 DEF ivars, ImgInv, Sound
<1>8. QED
  BY <1>1, <1>2, <1>3, <1>4, <1>5, <1>6, <1>7 DEF ImgNext, Poll

(* The invariant holds in every behaviour. *)
LEMMA InvHolds == ImgSpec => []ImgInv
BY InitInv, StepInv, PTL DEF ImgSpec

(* img_async.odin's claim that no generations are needed: no image of an   *)
(* earlier document is ever on the page or on its way, for every number of *)
(* references, slots and redirects and every failure of curl.              *)
THEOREM StaleLandingTheorem == ImgSpec => []NoStaleLanding
<1>1. ImgInv => NoStaleLanding
  BY DEF ImgInv, Sound, NoStaleLanding
<1>2. QED
  BY <1>1, InvHolds, PTL

(* pump_starts never exceeds IMG_CONCURRENT, with failed starts, requeued  *)
(* redirects and handles that a failed start left attached.                *)
THEOREM ConcurrencyTheorem == ImgSpec => []ConcurrencyBound
<1>1. ImgInv => ConcurrencyBound
  BY DEF ImgInv, Sound, ConcurrencyBound
<1>2. QED
  BY <1>1, InvHolds, PTL

----------------------------------------------------------------------------
(* A nonempty set of references has a first one. *)
LEMMA FirstRef ==
  ASSUME NEW S \in SUBSET Ref, S # {}
  PROVE  \E m \in S : \A n \in S : m <= n
<1> DEFINE R == OpToRel(<, Nat)
<1>1. S \in SUBSET Nat
  BY ImgAssumption DEF Ref
<1>2. IsWellFoundedOn(R, Nat)
  BY NatLessThanWellFounded
<1>3. \A m, n \in Nat : n < m => <<n, m>> \in R
  BY DEF OpToRel
<1> HIDE DEF R
<1>4. PICK m \in S : \A n \in S : ~ (<<n, m>> \in R)
  BY <1>1, <1>2, WFMin
<1>5. \A n \in S : ~ (n < m)
  BY <1>1, <1>3, <1>4
<1>6. \A n \in S : m <= n
  BY <1>1, <1>5
<1>7. QED
  BY <1>6

(* The pump leaves a transfer without a handle only when the slots are     *)
(* taken.  If its loop ran to the end, it tried all of them, and those it  *)
(* could not start were dropped.  If it was cut short, the first reference *)
(* at which that happens has only tried ones before it.                    *)
LEMMA PumpFills ==
  ASSUME NEW q, DOMAIN q \subseteq Ref, NEW start \in [DOMAIN q -> Starts],
         NEW r \in DOMAIN Pumped(q, start), ~ Pumped(q, start)[r].easy
  PROVE  Cardinality(Attached(Pumped(q, start))) >= IMG_CONCURRENT
<1> DEFINE p == Pumped(q, start)
           a == Attempted(q, start)
           A == Attached(q)
<1>1. /\ DOMAIN a = DOMAIN q
      /\ \A s \in DOMAIN q : a[s] = IF s \in Tried(q, start)
                                    THEN Started(q[s], start[s]) ELSE q[s]
  BY DEF Attempted
<1>2. IsFiniteSet(DOMAIN q)
  <2>1. IsFiniteSet(Ref)
    BY ImgAssumption, FS_Interval DEF Ref
  <2>2. QED
    BY <2>1, FS_Subset
<1>3. CutShort(q, start)
  <2> SUFFICES ASSUME ~ CutShort(q, start) PROVE FALSE
    OBVIOUS
  <2>1. p = Restrict(a, {s \in DOMAIN a : a[s].easy \/ a[s].hops <= IMG_REDIRECT_MAX})
    BY DEF Pumped
  <2>2. r \in DOMAIN q /\ ~ a[r].easy /\ a[r].hops <= IMG_REDIRECT_MAX
    BY <1>1, <2>1 DEF Restrict
  <2>3. ActiveAt(q, start, r) < IMG_CONCURRENT
    <3>1. ~ (ActiveAt(q, start, r) >= IMG_CONCURRENT)
      BY <2>2 DEF CutShort
    <3>2. ActiveAt(q, start, r) \in Nat
      <4>1. /\ IsFiniteSet(A)
            /\ IsFiniteSet({s \in DOMAIN q : s < r /\ ~ q[s].easy /\ start[s] = "ok"})
        BY <1>2, FS_Subset DEF Attached
      <4>2. QED
        BY <4>1, FS_CardinalityType DEF ActiveAt
    <3>3. QED
      BY <3>1, <3>2, ImgAssumption
  <2>4. r \in Tried(q, start)
    <3>1. CASE r \notin Tried(q, start)
      BY <1>1, <2>2, <2>3, <3>1 DEF Tried
    <3>2. QED
      BY <3>1
  <2>5. a[r] = Started(q[r], start[r])
    BY <1>1, <2>2, <2>4
  <2>6. start[r] = "init"
    BY <2>2, <2>5, StartedFields
  <2>7. a[r].hops = IMG_REDIRECT_MAX + 1
    BY <2>5, <2>6 DEF Started
  <2>8. QED
    BY <2>2, <2>7, ImgAssumption
<1>4. p = a
  BY <1>3 DEF Pumped
<1> HIDE DEF p, a
<1> DEFINE Late == {s \in DOMAIN q : ActiveAt(q, start, s) >= IMG_CONCURRENT}
<1>5. PICK t \in Late : \A s \in Late : t <= s
  <2>1. Late \in SUBSET Ref /\ Late # {}
    BY <1>3 DEF CutShort
  <2>2. QED
    BY <2>1, FirstRef
<1> DEFINE B == {s \in DOMAIN q : s < t /\ ~ q[s].easy /\ start[s] = "ok"}
<1>6. IsFiniteSet(A) /\ IsFiniteSet(B)
  BY <1>2, FS_Subset DEF Attached
<1>7. Cardinality(A) + Cardinality(B) >= IMG_CONCURRENT
  BY <1>5 DEF ActiveAt
<1>8. B \subseteq Attached(p)
  <2> SUFFICES ASSUME NEW s \in B PROVE s \in Attached(p)
    OBVIOUS
  <2>1. s \notin Late
    <3>1. s \in Int /\ t \in Int /\ s < t
      BY ImgAssumption DEF Ref
    <3>2. ~ (t <= s)
      BY <3>1
    <3>3. QED
      BY <1>5, <3>2
  <2>2. ActiveAt(q, start, s) < IMG_CONCURRENT
    <3>1. ActiveAt(q, start, s) \in Nat
      <4>1. IsFiniteSet({v \in DOMAIN q : v < s /\ ~ q[v].easy /\ start[v] = "ok"})
        BY <1>2, FS_Subset
      <4>2. QED
        BY <1>6, <4>1, FS_CardinalityType DEF ActiveAt
    <3>2. QED
      BY <2>1, <3>1, ImgAssumption
  <2>3. s \in Tried(q, start)
    BY <2>2 DEF Tried
  <2>4. a[s] = Started(q[s], start[s]) /\ start[s] = "ok"
    BY <1>1, <2>3
  <2>5. a[s].easy
    BY <2>4, StartedFields
  <2>6. QED
    BY <1>1, <1>4, <2>5 DEF Attached
<1>9. A \subseteq Attached(p)
  <2> SUFFICES ASSUME NEW s \in A PROVE s \in Attached(p)
    OBVIOUS
  <2>1. s \in DOMAIN q /\ q[s].easy /\ s \notin Tried(q, start)
    BY DEF Attached, Tried
  <2>2. a[s].easy
    BY <1>1, <2>1
  <2>3. QED
    BY <1>1, <1>4, <2>1, <2>2 DEF Attached
<1>10. A \cap B = {}
  BY DEF Attached
<1>11. Attached(p) \subseteq DOMAIN q
  BY <1>1, <1>4 DEF Attached
<1> HIDE DEF A, B
<1>12. /\ IsFiniteSet(A \cup B)
       /\ Cardinality(A \cup B) = Cardinality(A) + Cardinality(B) - Cardinality(A \cap B)
  BY <1>6, FS_Union
<1>13. Cardinality(A \cap B) = 0
  BY <1>10, FS_EmptySet
<1>14. IsFiniteSet(Attached(p))
  BY <1>2, <1>11, FS_Subset
<1>15. Cardinality(A \cup B) <= Cardinality(Attached(p))
  BY <1>8, <1>9, <1>14, FS_Subset
<1>16. /\ Cardinality(A) \in Nat /\ Cardinality(B) \in Nat
       /\ Cardinality(A \cup B) \in Nat /\ Cardinality(Attached(p)) \in Nat
  BY <1>6, <1>12, <1>14, FS_CardinalityType
<1>17. Cardinality(Attached(p)) >= IMG_CONCURRENT
  BY <1>7, <1>12, <1>13, <1>15, <1>16, ImgAssumption
<1>18. QED
  BY <1>17 DEF p

(* Every slot is taken while a transfer waits between polls, for every     *)
(* number of references and slots and every failure of curl: the pump      *)
(* (img_async_pump_starts) runs after every change that can free a slot or *)
(* put a transfer back.                                                    *)
THEOREM SlotsTheorem == ImgSpec => []SlotsFilled
<1>1. ImgInit => SlotsFilled
  BY DEF ImgInit, SlotsFilled
<1>2. ImgInv /\ SlotsFilled /\ [ImgNext]_ivars => SlotsFilled'
  <2> SUFFICES ASSUME ImgInv, SlotsFilled, [ImgNext]_ivars,
                      poll' = "idle", img_multi', NEW r \in DOMAIN queue', ~ queue'[r].easy
               PROVE  Cardinality(Attached(queue')) >= IMG_CONCURRENT
    BY DEF SlotsFilled, Attached
  <2>1. ASSUME NEW q, DOMAIN q \subseteq Ref, queue' \in PumpStarts(q), img_multi
        PROVE  Cardinality(Attached(queue')) >= IMG_CONCURRENT
    <3>1. PICK start \in [DOMAIN q -> Starts] : queue' = Pumped(q, start)
      BY <2>1 DEF PumpStarts
    <3>2. QED
      BY <2>1, <3>1, PumpFills
  <2>2. ASSUME NEW got \in CacheAnswers, Load(got)
        PROVE  Cardinality(Attached(queue')) >= IMG_CONCURRENT
    <3>1. DOMAIN Enqueued(got, doc + 1, Abandoned) \subseteq Ref
      BY BeginSound DEF Sound
    <3>2. QED
      BY <2>1, <2>2, <3>1 DEF Load
  <2>3. CASE PollEnd
    <3>1. DOMAIN queue \subseteq Ref
      BY DEF ImgInv, Sound
    <3>2. QED
      BY <2>1, <2>3, <3>1 DEF PollEnd
  <2>4. CASE LoadFails
    BY <2>4 DEF LoadFails, Abandoned, Restrict
  <2>5. CASE PollBegin
    BY <2>5 DEF PollBegin
  <2>6. CASE \E s \in Ref : Harvest(s)
    BY <2>6 DEF Harvest, HarvestDropped, HarvestRedirect, HarvestImage, Running
  <2>7. CASE ImgClose
    BY <2>7 DEF ImgClose
  <2>8. CASE UNCHANGED ivars
    BY <2>8 DEF ivars, SlotsFilled, Attached
  <2>9. QED
    BY <2>2, <2>3, <2>4, <2>5, <2>6, <2>7, <2>8 DEF ImgNext, Poll
<1>3. QED
  BY <1>1, <1>2, InvHolds, PTL DEF ImgSpec
=============================================================================
