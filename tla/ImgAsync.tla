------------------------------ MODULE ImgAsync ------------------------------
(***************************************************************************)
(* Background image loading (src/src/img_async.odin).  A document's image  *)
(* references are numbered in document order.  A reference is decoded at   *)
(* once from the cache or queued; queued transfers are started while fewer *)
(* than IMG_CONCURRENT are active, and every tick of the terminal loop     *)
(* polls curl, harvests what has finished and starts more.                 *)
(*                                                                         *)
(* The queue is a function from reference numbers to transfers: the code's *)
(* array holds them in this order, and ordered_remove keeps it.            *)
(***************************************************************************)
EXTENDS Integers, FiniteSets, FiniteSetsExt, Functions

CONSTANTS IMG_CONCURRENT, IMG_REDIRECT_MAX, MAX_PAGE_IMAGES, MAX_IMAGE_TOTAL,
          Pixels,     \* sizes of decoded images
          MaxDoc,     \* bound on the documents visited
          ImgFaults   \* subset of {"multi", "init", "add"}: what curl refuses

ASSUME ImgAssumption ==
  /\ IMG_CONCURRENT \in Nat \ {0}
  /\ IMG_REDIRECT_MAX \in Nat
  /\ MAX_PAGE_IMAGES \in Nat
  /\ MAX_IMAGE_TOTAL \in Nat
  /\ Pixels \subseteq Nat \ {0}
  /\ MaxDoc \in Nat
  /\ ImgFaults \subseteq {"multi", "init", "add"}

VARIABLES doc,      \* the document shown; counts full navigations
          images,   \* the page's images: reference -> [doc, px]
          queue,    \* reference -> transfer
          img_multi,\* the curl multi handle exists
          poll      \* "idle", "harvest" (inside img_async_poll), "closed"

ivars == <<doc, images, queue, img_multi, poll>>

Ref == 1..MAX_PAGE_IMAGES

Queued(d) == [doc |-> d, hops |-> 0, easy |-> FALSE, multi |-> FALSE]

Total(f) == MapThenSumSet(LAMBDA r : f[r].px, DOMAIN f)

----------------------------------------------------------------------------
(* img_async_pump_starts on queue q, where start[r] is what img_async_start*)
(* would return for r: "ok", "init" (easy_init fails, nothing is attached) *)
(* or "add" (multi_add_handle fails, the easy handle stays attached).      *)
Starts == {"ok"} \cup (ImgFaults \cap {"init", "add"})

Attached(q) == {r \in DOMAIN q : q[r].easy}

(* The handles attached when the loop reaches r. *)
ActiveAt(q, start, r) ==
  Cardinality(Attached(q))
    + Cardinality({s \in DOMAIN q : s < r /\ ~ q[s].easy /\ start[s] = "ok"})

(* Fault: a start does not take a slot until the next tick. *)
TriedUncounted(q, start) ==
  {r \in DOMAIN q : ~ q[r].easy /\ Cardinality(Attached(q)) < IMG_CONCURRENT}

Tried(q, start) ==
  {r \in DOMAIN q : ~ q[r].easy /\ ActiveAt(q, start, r) < IMG_CONCURRENT}

(* The loop finds the slots taken and returns before the drop loop. *)
CutShort(q, start) == \E r \in DOMAIN q : ActiveAt(q, start, r) >= IMG_CONCURRENT

Started(tr, s) ==
  [doc |-> tr.doc,
   hops |-> IF s = "ok" THEN tr.hops ELSE IMG_REDIRECT_MAX + 1,
   easy |-> s # "init", multi |-> s = "ok"]

Attempted(q, start) ==
  [r \in DOMAIN q |-> IF r \in Tried(q, start) THEN Started(q[r], start[r]) ELSE q[r]]

Pumped(q, start) ==
  LET a == Attempted(q, start)
  IN IF CutShort(q, start) THEN a
     ELSE Restrict(a, {r \in DOMAIN a : a[r].easy \/ a[r].hops <= IMG_REDIRECT_MAX})

(* Pumped for every way the starts may go; nothing without a multi handle. *)
PumpStarts(q) ==
  IF ~ img_multi THEN {q} ELSE {Pumped(q, start) : start \in [DOMAIN q -> Starts]}

----------------------------------------------------------------------------
(* img_async_begin for n references: got[r] is the size decoded from a     *)
(* fresh cache entry, or Miss.  Images and queue together never reach      *)
(* the page's limit before r does, and the total only grows, so the        *)
(* references taken are those before the total reaches MAX_IMAGE_TOTAL.    *)
Miss == 0

Hits(got) == {r \in DOMAIN got : got[r] # Miss}

Taken(got) ==
  {r \in DOMAIN got :
     /\ r <= MAX_PAGE_IMAGES
     /\ MapThenSumSet(LAMBDA s : got[s], {s \in Hits(got) : s < r}) < MAX_IMAGE_TOTAL}

ReadyImages(got, d) ==
  [r \in Taken(got) \cap Hits(got) |-> [doc |-> d, px |-> got[r]]]

Misses(got, d) == [r \in Taken(got) \ Hits(got) |-> Queued(d)]

(* The misses appended to what the queue holds. *)
Enqueued(got, d, q) ==
  LET new == Misses(got, d)
  IN [r \in DOMAIN new \cup DOMAIN q |-> IF r \in DOMAIN new THEN new[r] ELSE q[r]]

(* Fault of img_async_abandon: active transfers are left in the queue. *)
AbandonKeepsActive == Restrict(queue, Attached(queue))

(* img_async_abandon: what is left of the queue. *)
Abandoned == Restrict(queue, {})

(* browse_navigate_request when a document arrives: the pending transfers  *)
(* are dropped, the new document's images are begun, the page is replaced. *)
Load(got) ==
  /\ poll = "idle" /\ doc < MaxDoc
  /\ doc' = doc + 1
  /\ images' = ReadyImages(got, doc + 1)
  /\ queue' \in PumpStarts(Enqueued(got, doc + 1, Abandoned))
  /\ UNCHANGED <<img_multi, poll>>

(* browse_navigate_request when it ends in an error page. *)
LoadFails ==
  /\ poll = "idle" /\ doc < MaxDoc
  /\ doc' = doc + 1
  /\ images' = Restrict(images, {})
  /\ queue' = Abandoned
  /\ UNCHANGED <<img_multi, poll>>

----------------------------------------------------------------------------
(* img_async_poll: multi_perform, one Harvest for each completion that     *)
(* curl reports, then img_async_pump_starts.                               *)
PollBegin ==
  /\ poll = "idle" /\ img_multi /\ DOMAIN queue # {}
  /\ poll' = "harvest"
  /\ UNCHANGED <<doc, images, queue, img_multi>>

Running(r) == poll = "harvest" /\ r \in DOMAIN queue /\ queue[r].multi

Dequeue(r) == queue' = Restrict(queue, DOMAIN queue \ {r})

(* The transfer failed or timed out, the status is not 200, the body is    *)
(* not an image, or a redirect leads nowhere or is one too many.           *)
HarvestDropped(r) ==
  /\ Running(r)
  /\ Dequeue(r)
  /\ UNCHANGED <<doc, images, img_multi, poll>>

(* Fault: the redirected transfer goes on without counting the hop. *)
RedirectUncounted(r) ==
  /\ Running(r)
  /\ queue[r].hops < IMG_REDIRECT_MAX
  /\ queue' = [queue EXCEPT ![r] = [doc |-> queue[r].doc, hops |-> queue[r].hops,
                                    easy |-> FALSE, multi |-> FALSE]]
  /\ UNCHANGED <<doc, images, img_multi, poll>>

(* A redirect: the transfer stays at its place in the queue, unstarted. *)
HarvestRedirect(r) ==
  /\ Running(r)
  /\ queue[r].hops < IMG_REDIRECT_MAX
  /\ queue' = [queue EXCEPT ![r] = [doc |-> queue[r].doc, hops |-> queue[r].hops + 1,
                                    easy |-> FALSE, multi |-> FALSE]]
  /\ UNCHANGED <<doc, images, img_multi, poll>>

(* An image of px bytes arrived: it joins the page if the page's total     *)
(* stays within the budget.                                                *)
HarvestImage(r, px) ==
  /\ Running(r)
  /\ Dequeue(r)
  /\ images' = IF px + Total(images) > MAX_IMAGE_TOTAL THEN images
               ELSE [s \in DOMAIN images \cup {r} |->
                       IF s = r THEN [doc |-> queue[r].doc, px |-> px]
                       ELSE images[s]]
  /\ UNCHANGED <<doc, img_multi, poll>>

(* Fault: the freed slots are not filled. *)
PollEndIdle ==
  /\ poll = "harvest"
  /\ poll' = "idle"
  /\ UNCHANGED <<doc, images, queue, img_multi>>

PollEnd ==
  /\ poll = "harvest"
  /\ poll' = "idle"
  /\ queue' \in PumpStarts(queue)
  /\ UNCHANGED <<doc, images, img_multi>>

(* img_async_close, when the session ends. *)
ImgClose ==
  /\ poll = "idle"
  /\ poll' = "closed"
  /\ queue' = Abandoned
  /\ img_multi' = FALSE
  /\ UNCHANGED <<doc, images>>

Harvest(r) ==
  \/ HarvestDropped(r)
  \/ HarvestRedirect(r)
  \/ \E px \in Pixels : HarvestImage(r, px)

Poll == PollBegin \/ PollEnd \/ \E r \in Ref : Harvest(r)

(* What the cache holds for the images of a document with up to            *)
(* MAX_PAGE_IMAGES references (collect_image_urls).                        *)
CacheAnswers == UNION {[1..n -> Pixels \cup {Miss}] : n \in 0..MAX_PAGE_IMAGES}

(* img_async_open, then no document yet. *)
ImgInit ==
  /\ doc = 0
  /\ images = [r \in {} |-> 0]
  /\ queue = [r \in {} |-> 0]
  /\ img_multi \in {TRUE} \cup (IF "multi" \in ImgFaults THEN {FALSE} ELSE {})
  /\ poll = "idle"

ImgNext ==
  \/ \E got \in CacheAnswers : Load(got)
  \/ LoadFails
  \/ Poll
  \/ ImgClose

ImgSpec == ImgInit /\ [][ImgNext]_ivars

----------------------------------------------------------------------------

(* img_async_abandon runs before every fetch of a document, so no image    *)
(* asked for by an earlier document is ever on the page, and none is still *)
(* being fetched, through polls, redirects and failed navigations.         *)
NoStaleLanding ==
  /\ \A r \in DOMAIN images : images[r].doc = doc
  /\ \A r \in DOMAIN queue : queue[r].doc = doc

(* curl never runs more than IMG_CONCURRENT image transfers, whatever      *)
(* starts fail and whatever is put back for a redirect.                    *)
ConcurrencyBound ==
  Cardinality({r \in DOMAIN queue : queue[r].multi}) <= IMG_CONCURRENT

(* Between ticks a transfer waits only while every slot is taken: the pump *)
(* after a harvest refills the slots that completions and redirects freed. *)
SlotsFilled ==
  poll = "idle" /\ img_multi /\ (\E r \in DOMAIN queue : ~ queue[r].easy)
    => Cardinality(Attached(queue)) >= IMG_CONCURRENT

=============================================================================
