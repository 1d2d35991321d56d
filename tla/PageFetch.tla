----------------------------- MODULE PageFetch -----------------------------
(***************************************************************************)
(* fetch() and XMLHttpRequest of one realm (the archived Rust engine,      *)
(* crates/vixen-engine/src/script/webapi.rs): the realm's table of active  *)
(* fetches, a page-fetch thread per request that checks the policy, waits  *)
(* for its transport thread and commits the profile effects, and the       *)
(* stream of response, chunks and terminal record to the page.  The        *)
(* interrupt generation of module ScriptDeadline is a counter here.        *)
(***************************************************************************)
EXTENDS Integers, Sequences, FiniteSets

CONSTANTS Fetch,                         \* the fetches a page may start
          FetchKind,                     \* what each asks: [live, needs]
          MAX_ACTIVE_FETCHES,
          FETCH_BODY_CHANNEL_CAPACITY,
          MaxChunks,                     \* bound on the chunks of a body
          MaxFetchInterrupts             \* bound on the interrupts of the runtime

ASSUME FetchAssumption ==
  /\ MAX_ACTIVE_FETCHES \in Nat \ {0} /\ FETCH_BODY_CHANNEL_CAPACITY \in Nat \ {0}
  /\ MaxChunks \in Nat /\ MaxFetchInterrupts \in Nat

VARIABLES realm,             \* whether the WebApiHost still exists
          fetch_generation,  \* the interrupt generation of the runtime
          table,             \* ActiveFetchState.requests
          w                  \* fetch -> its thread, its channels and its cancellation

fvars == <<realm, fetch_generation, table, w>>

(* at: where the page-fetch thread is.  net: where its transport thread    *)
(* is, or how perform_fetch ended.  kind: what is asked (live: the body is *)
(* streamed; needs: the effects it has to commit).  of, cancelled: its     *)
(* FetchCancellation.  aborted: by the page.  reply, body: the channels.   *)
(* expose: expose_body.  reading: a read awaits body.  came, kept: chunks  *)
(* that arrived and those that were sent on.  did: the effects committed.  *)
(* seen: what the page was told, in order.                                 *)
NotStarted == [at |-> "none", net |-> "none", kind |-> [live |-> FALSE, needs |-> {}], of |-> 0,
         cancelled |-> FALSE, aborted |-> FALSE, reply |-> "none", expose |-> FALSE,
         body |-> <<>>, reading |-> FALSE, came |-> 0, kept |-> 0, did |-> {}, seen |-> <<>>]

Becomes(f, new) == w' = [w EXCEPT ![f] = new]
Goes(r, there) == [r EXCEPT !.at = there]

is_cancelled(r) == r.cancelled \/ r.of # fetch_generation

(* The operation that awaits the response holds its receiver; that of the  *)
(* body is in the table and in a pending read.                             *)
BodyHeard(f) == realm /\ (f \in table \/ w[f].reading)

(* FetchStreamOutput::send_response: once.                                 *)
response_sent(r) == r.reply # "none"
Replied(r, what) ==
  IF response_sent(r) THEN r ELSE [r EXCEPT !.reply = IF realm THEN what ELSE "unheard"]

----------------------------------------------------------------------------

(* fetch(): op_vixen_fetch_start, and op_vixen_fetch_finish takes the      *)
(* receiver of the response in the same turn.                              *)
Starts(f) ==
  /\ realm /\ w[f].at = "none"
  /\ Cardinality(table) < MAX_ACTIVE_FETCHES
  /\ table' = table \cup {f}
  /\ Becomes(f, [NotStarted EXCEPT !.at = "policy", !.kind = FetchKind[f], !.of = fetch_generation])
  /\ UNCHANGED <<realm, fetch_generation>>

Says(r, what) == [r EXCEPT !.seen = Append(@, what)]
HasHead(r) == r.seen # <<>> /\ r.seen[1] = "head"

(* op_vixen_fetch_finish returns; only a streamed response, and one that   *)
(* was not aborted meanwhile, stays in the table.                          *)
HearsReply(f) ==
  /\ realm /\ w[f].reply \in {"head", "whole", "failure"}
  /\ Becomes(f, Says([w[f] EXCEPT !.reply = "heard"],
                    IF w[f].aborted THEN "aborted" ELSE w[f].reply))
  /\ table' = IF w[f].reply = "head" /\ ~w[f].aborted THEN table ELSE table \ {f}
  /\ UNCHANGED <<realm, fetch_generation>>

(* op_vixen_fetch_read; a chunk, the terminal record, or the end of a      *)
(* channel whose thread is gone.                                           *)
Reads(f) ==
  /\ realm /\ f \in table /\ HasHead(w[f]) /\ ~w[f].reading
  /\ Becomes(f, [w[f] EXCEPT !.reading = TRUE])
  /\ UNCHANGED <<realm, fetch_generation, table>>

HearsBody(f) ==
  /\ realm /\ w[f].reading /\ (w[f].body # <<>> \/ w[f].at = "ended")
  /\ LET what == IF w[f].body = <<>> THEN "closed" ELSE Head(w[f].body)
     IN /\ Becomes(f, Says([w[f] EXCEPT !.reading = FALSE,
                                       !.body = IF @ = <<>> THEN @ ELSE Tail(@)], what))
        /\ table' = IF what = "chunk" THEN table ELSE table \ {f}
  /\ UNCHANGED <<realm, fetch_generation>>

(* FetchCancellation::cancel waits for an effect that is being committed.  *)
Cancellable(f) == w[f].at \notin {"committing preflight", "committing cookies",
                                  "committing cache"}

(* An AbortSignal, or cancel() of the body: op_vixen_fetch_cancel, and     *)
(* op_vixen_fetch_discard once the response is there.                      *)
Aborts(f) ==
  /\ realm /\ f \in table /\ Cancellable(f) /\ ~w[f].aborted
  /\ Becomes(f, [w[f] EXCEPT !.aborted = TRUE, !.cancelled = TRUE])
  /\ table' = IF HasHead(w[f]) THEN table \ {f} ELSE table
  /\ UNCHANGED <<realm, fetch_generation>>

(* Drop of WebApiHost: cancel_all takes the table, then cancels one by     *)
(* one; the operations that awaited go with the realm.                     *)
RealmEnds ==
  /\ realm /\ \A f \in table : Cancellable(f)
  /\ realm' = FALSE /\ table' = {}
  /\ w' = [f \in Fetch |-> IF f \in table THEN [w[f] EXCEPT !.cancelled = TRUE] ELSE w[f]]
  /\ UNCHANGED fetch_generation

(* interrupt_fetches of the runtime (stop, navigation, shutdown, deadline) *)
(* waits for the fetch_effect_gate.                                        *)
Interrupts ==
  /\ fetch_generation < MaxFetchInterrupts /\ \A f \in Fetch : Cancellable(f)
  /\ fetch_generation' = fetch_generation + 1
  /\ UNCHANGED <<realm, table, w>>

----------------------------------------------------------------------------
(* perform_fetch up to the preflight, and from there to the transport: a   *)
(* refusal by the policy, a fresh answer from the cache, or a request.     *)
FetchEnds(r, how) == [Goes(r, "completing") EXCEPT !.net = how]

PassesPolicy(f) ==
  /\ w[f].at = "policy"
  /\ \/ Becomes(f, FetchEnds(w[f], "failed"))
     \/ /\ "preflight" \in w[f].kind.needs
        /\ Becomes(f, [Goes(w[f], "preflight") EXCEPT !.net = "sending"])
     \/ Becomes(f, Goes(w[f], "looking up"))
  /\ UNCHANGED <<realm, fetch_generation, table>>

LooksUp(f) ==
  /\ w[f].at = "looking up"
  /\ \/ Becomes(f, FetchEnds(w[f], "failed"))
     \/ Becomes(f, FetchEnds(w[f], "whole"))
     \/ Becomes(f, [Goes(w[f], "waiting") EXCEPT !.net = "sending"])
  /\ UNCHANGED <<realm, fetch_generation, table>>

(* wait_for_host_worker: a cancelled wait signals the transport and joins  *)
(* it; a result is used only if the fetch is not cancelled even then.      *)
AwaitsHost(r) == r.at \in {"preflight", "waiting"}

StopsWaiting(f) ==
  /\ AwaitsHost(w[f]) /\ is_cancelled(w[f])
  /\ w[f].net \notin {"head", "redirect", "full"}
  /\ Becomes(f, FetchEnds(w[f], "failed"))
  /\ UNCHANGED <<realm, fetch_generation, table>>

(* The effects that are still to come, in the order of perform_fetch.      *)
AfterTransport(r) == IF "cookies" \in r.kind.needs \ r.did THEN Goes(r, "commit cookies")
                     ELSE IF "cache" \in r.kind.needs \ r.did THEN Goes(r, "commit cache")
                     ELSE FetchEnds(r, "whole")

TakesResult(f) ==
  /\ AwaitsHost(w[f]) /\ w[f].net \in {"ok", "error"}
  /\ Becomes(f, IF w[f].net = "error" \/ is_cancelled(w[f]) THEN FetchEnds(w[f], "failed")
                ELSE IF w[f].at = "preflight" THEN Goes(w[f], "commit preflight")
                ELSE AfterTransport(w[f]))
  /\ UNCHANGED <<realm, fetch_generation, table>>

(* commit_host_effect: under the fetch's effect_gate and the runtime's     *)
(* fetch_effect_gate.                                                      *)
EffectOf(r) == CASE r.at \in {"commit preflight", "committing preflight"} -> "preflight"
                 [] r.at \in {"commit cookies", "committing cookies"}     -> "cookies"
                 [] r.at \in {"commit cache", "committing cache"}         -> "cache"
                 [] OTHER                                                 -> "none"

(* Mutant: the cancellation is not looked at under the gates.              *)
CommitsAnyway(f) ==
  /\ w[f].at \in {"commit preflight", "commit cookies", "commit cache"}
  /\ \A g \in Fetch : Cancellable(g)
  /\ Becomes(f, Goes(w[f], CASE EffectOf(w[f]) = "preflight" -> "committing preflight"
                            [] EffectOf(w[f]) = "cookies"   -> "committing cookies"
                            [] OTHER                        -> "committing cache"))
  /\ UNCHANGED <<realm, fetch_generation, table>>

CommitsEffect(f) ==
  /\ w[f].at \in {"commit preflight", "commit cookies", "commit cache"}
  /\ \A g \in Fetch : Cancellable(g)
  /\ Becomes(f, IF is_cancelled(w[f]) THEN FetchEnds(w[f], "failed")
               ELSE Goes(w[f], CASE EffectOf(w[f]) = "preflight" -> "committing preflight"
                                 [] EffectOf(w[f]) = "cookies"   -> "committing cookies"
                                 [] OTHER                        -> "committing cache"))
  /\ UNCHANGED <<realm, fetch_generation, table>>

(* The write itself, or a check after it, may fail.                        *)
Committed(f) ==
  /\ ~Cancellable(f)
  /\ LET r == [w[f] EXCEPT !.did = @ \cup {EffectOf(w[f])}]
     IN \/ Becomes(f, FetchEnds(w[f], "failed"))
        \/ Becomes(f, FetchEnds(r, "failed"))
        \/ Becomes(f, IF EffectOf(r) = "preflight" THEN Goes(r, "looking up")
                     ELSE AfterTransport(r))
  /\ UNCHANGED <<realm, fetch_generation, table>>

----------------------------------------------------------------------------
(* The transport thread: LiveFetchBridge::receive_redirect, which refuses  *)
(* a target the policy blocks, then cancels the fetch.                     *)
Sending(f) == AwaitsHost(w[f]) /\ w[f].net = "sending"
Streaming(f) == Sending(f) /\ w[f].at = "waiting" /\ w[f].kind.live

RedirectBlocked(f) ==
  /\ Streaming(f) /\ ~response_sent(w[f])
  /\ Becomes(f, [Replied(w[f], "failure") EXCEPT !.net = "redirect"])
  /\ UNCHANGED <<realm, fetch_generation, table>>

SelfCancels(f) ==
  /\ AwaitsHost(w[f]) /\ w[f].net \in {"redirect", "head"}
  /\ Becomes(f, [w[f] EXCEPT !.cancelled = TRUE,
                            !.net = IF @ = "redirect" THEN "error" ELSE "sending"])
  /\ UNCHANGED <<realm, fetch_generation, table>>

(* receive_response: the head is shown to the page, or refused by CORS.    *)
(* net = "head" is the moment before the cancellation of the fetch.        *)
HeadArrives(f) ==
  /\ Streaming(f) /\ ~is_cancelled(w[f]) /\ ~response_sent(w[f])
  /\ \/ Becomes(f, [Replied(w[f], "head") EXCEPT !.expose = TRUE,
                                                 !.net = IF realm THEN @ ELSE "head"])
     \/ Becomes(f, [Replied(w[f], "failure") EXCEPT !.net = "head"])
  /\ UNCHANGED <<realm, fetch_generation, table>>

(* FetchStreamOutput::send_chunk: dropped when the fetch is cancelled or   *)
(* the channel closed, and tried again every millisecond while it is full. *)
ChunkArrives(f) ==
  /\ Streaming(f) /\ w[f].expose /\ w[f].came < MaxChunks
  /\ Becomes(f, [w[f] EXCEPT !.net = "full", !.came = @ + 1])
  /\ UNCHANGED <<realm, fetch_generation, table>>

SendsChunk(f) ==
  /\ AwaitsHost(w[f]) /\ w[f].net = "full"
  /\ BodyHeard(f) /\ Len(w[f].body) < FETCH_BODY_CHANNEL_CAPACITY
  /\ Becomes(f, [w[f] EXCEPT !.net = "sending", !.body = Append(@, "chunk"), !.kept = @ + 1])
  /\ UNCHANGED <<realm, fetch_generation, table>>

(* Mutant: a chunk that finds the channel full is lost.                    *)
DropsWhenFull(f) ==
  /\ AwaitsHost(w[f]) /\ w[f].net = "full"
  /\ is_cancelled(w[f]) \/ ~BodyHeard(f) \/ Len(w[f].body) = FETCH_BODY_CHANNEL_CAPACITY
  /\ Becomes(f, [w[f] EXCEPT !.net = "sending"])
  /\ UNCHANGED <<realm, fetch_generation, table>>

(* Mutant: only a closed channel ends the wait for room.                   *)
DropsIfClosed(f) ==
  /\ AwaitsHost(w[f]) /\ w[f].net = "full" /\ ~BodyHeard(f)
  /\ Becomes(f, [w[f] EXCEPT !.net = "sending", !.cancelled = TRUE])
  /\ UNCHANGED <<realm, fetch_generation, table>>

DropsChunk(f) ==
  /\ AwaitsHost(w[f]) /\ w[f].net = "full" /\ (is_cancelled(w[f]) \/ ~BodyHeard(f))
  /\ Becomes(f, [w[f] EXCEPT !.net = "sending",
                            !.cancelled = @ \/ ~is_cancelled(w[f])])
  /\ UNCHANGED <<realm, fetch_generation, table>>

(* The transport succeeds or fails; a preflight is also validated.         *)
TransportEnds(f) ==
  /\ Sending(f)
  /\ \/ Becomes(f, [w[f] EXCEPT !.net = "error"])
     \/ Becomes(f, [w[f] EXCEPT !.net = "ok"])
  /\ UNCHANGED <<realm, fetch_generation, table>>

----------------------------------------------------------------------------
(* FetchStreamOutput::complete and send_terminal.                          *)
LastItem(r) == IF r.net = "whole" THEN "done" ELSE "broken"

Answers(f) ==
  /\ w[f].at = "completing" /\ ~response_sent(w[f])
  /\ Becomes(f, Goes(Replied(w[f], IF w[f].net = "whole" THEN "whole" ELSE "failure"), "ended"))
  /\ UNCHANGED <<realm, fetch_generation, table>>

SendsTerminal(f) ==
  /\ w[f].at = "completing" /\ response_sent(w[f])
  /\ BodyHeard(f) /\ Len(w[f].body) < FETCH_BODY_CHANNEL_CAPACITY
  /\ Becomes(f, [Goes(w[f], "ended") EXCEPT !.body = Append(@, LastItem(w[f]))])
  /\ UNCHANGED <<realm, fetch_generation, table>>

DropsTerminal(f) ==
  /\ w[f].at = "completing" /\ response_sent(w[f])
  /\ \/ ~BodyHeard(f)
     \/ is_cancelled(w[f]) /\ Len(w[f].body) >= FETCH_BODY_CHANNEL_CAPACITY
  /\ Becomes(f, Goes(w[f], "ended"))
  /\ UNCHANGED <<realm, fetch_generation, table>>

----------------------------------------------------------------------------
FetchInit ==
  /\ realm = TRUE /\ fetch_generation = 0 /\ table = {} /\ w = [f \in Fetch |-> NotStarted]

(* What the two threads of a fetch do by themselves.                       *)
ThreadSteps(f) ==
  \/ PassesPolicy(f) \/ LooksUp(f) \/ StopsWaiting(f) \/ TakesResult(f) \/ CommitsEffect(f)
  \/ Committed(f) \/ SelfCancels(f) \/ SendsChunk(f) \/ DropsChunk(f)
  \/ Answers(f) \/ SendsTerminal(f) \/ DropsTerminal(f)

NetworkSteps(f) == RedirectBlocked(f) \/ HeadArrives(f) \/ ChunkArrives(f) \/ TransportEnds(f)

PageSteps(f) ==
  Starts(f) \/ HearsReply(f) \/ Reads(f) \/ HearsBody(f) \/ Aborts(f)

FetchNext ==
  \/ \E f \in Fetch : ThreadSteps(f) \/ NetworkSteps(f) \/ PageSteps(f)
  \/ RealmEnds \/ Interrupts

(* Threads run; the page and the servers owe nothing.                      *)
FetchSpec ==
  FetchInit /\ [][FetchNext]_fvars /\ \A f \in Fetch : WF_fvars(ThreadSteps(f))

----------------------------------------------------------------------------
Told(r) == r.seen \o r.body
Final == {"whole", "failure", "aborted", "done", "broken", "closed"}

(* Once an abort, a body cancellation, the end of the realm or an          *)
(* interrupt has returned, the fetch writes no cookie, no cached response  *)
(* and no preflight result, even if its answer was already there.          *)
NoEffectAfterCancel == \A f \in Fetch : ~Cancellable(f) => ~is_cancelled(w[f])

(* A body that ends well is whole and settled: every chunk that arrived    *)
(* was passed on, also when the channel was full or the fetch cancelled    *)
(* meanwhile, and the profile effects were committed before.  The page     *)
(* hears one response, chunks only after its head, and one last word with  *)
(* nothing after it.                                                       *)
DoneMeansWhole ==
  \A f \in Fetch :
    /\ "done" \in {Told(w[f])[n] : n \in DOMAIN Told(w[f])}
         => w[f].kept = w[f].came /\ w[f].kind.needs \ {"preflight"} \subseteq w[f].did
    /\ LET s == w[f].seen
       IN \A n \in DOMAIN s : /\ s[n] = "head" <=> n = 1 /\ s[1] \notin Final
                              /\ s[n] \in Final => n = Len(s)

(* No thread is left behind: one whose fetch was cancelled, interrupted or *)
(* dropped from the table ends, even if it waits for a silent server or    *)
(* for room in a channel nobody reads.                                     *)
ThreadsEnd ==
  <>[](\A f \in Fetch : w[f].at # "none" /\ (is_cancelled(w[f]) \/ f \notin table)
                            => w[f].at = "ended")

============================================================================
