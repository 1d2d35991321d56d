--------------------------- MODULE ScriptDeadline ---------------------------
(***************************************************************************)
(* One JavaScript runtime and the threads that stop it (the archived Rust  *)
(* engine, crates/vixen-engine/src/script/runtime.rs): the owner thread    *)
(* runs evaluations one after another, each under a RuntimeDeadline whose  *)
(* watchdog thread terminates V8 when time is up; other threads interrupt  *)
(* through the RuntimeInterruptHandle, and fetch workers apply their       *)
(* effects through its gate.  Every lock and every atomic access that      *)
(* another thread can observe is a step.                                   *)
(***************************************************************************)
EXTENDS Integers, FiniteSets

CONSTANTS Interrupter,    \* threads that call interrupt_layout
          Fetcher,        \* fetch workers
          MaxRuns,        \* bound on the evaluations
          MaxInterrupts   \* bound on the calls of interrupt_layout

NoOne == "no one"

ASSUME DeadlineAssumption ==
  /\ MaxRuns \in Nat \ {0} /\ MaxInterrupts \in Nat
  /\ NoOne \notin Interrupter \cup Fetcher

VARIABLES owner,         \* where the owner thread is
          run,           \* the evaluation it is in, 0 before the first
          active,        \* RuntimeInterruptHandle.active: an evaluation, or 0
          holder,        \* who holds the lock of active across steps
          complete, timed_out, interrupted,   \* evaluations with the flag set
          terminating,   \* V8's termination request
          waker,         \* DeadlineState.waker: none, set, or woken
          watchdog,      \* where the watchdog of the evaluation is
          layout,        \* layout_cancellation
          generation,    \* fetch_generation
          gate,          \* the fetch worker inside fetch_effect_gate
          caller,        \* interrupter -> where it is
          struck,        \* evaluations some interrupt() returned true for
          fetch,         \* fetch worker -> what it does, for which generation
          result,        \* evaluation -> how it ended
          calls          \* calls of interrupt_layout so far

dvars == <<owner, run, active, holder, complete, timed_out, interrupted, terminating,
           waker, watchdog, layout, generation, gate, caller, struck, fetch, result, calls>>

Run == 1 .. MaxRuns
NoReason == "none"
InJs == owner = "js"

(* The guard the watchdog holds from its time-out to its end.              *)
WaitLocked == watchdog \in {"expired", "layout", "fetches", "terminate", "wake"}

----------------------------------------------------------------------------

(* RuntimeDeadline::start.                                                 *)
ClearsLayout ==
  /\ owner = "idle" /\ run < MaxRuns
  /\ owner' = "starting" /\ run' = run + 1 /\ layout' = NoReason /\ waker' = "none"
  /\ UNCHANGED <<active, holder, complete, timed_out, interrupted, terminating, watchdog,
                 generation, gate, caller, struck, fetch, result, calls>>

Installs ==
  /\ owner = "starting" /\ holder = NoOne
  /\ owner' = "installed" /\ active' = run
  /\ UNCHANGED <<run, holder, complete, timed_out, interrupted, terminating, waker, watchdog,
                 layout, generation, gate, caller, struck, fetch, result, calls>>

SpawnsWatchdog ==
  /\ owner = "installed"
  /\ owner' = "js" /\ watchdog' = "waiting"
  /\ UNCHANGED <<run, active, holder, complete, timed_out, interrupted, terminating, waker,
                 layout, generation, gate, caller, struck, fetch, result, calls>>

(* execute_script, execute_module and execute_script_immediate.  The page  *)
(* code may return, throw, await or never come back; once termination is   *)
(* requested it still may, until V8 looks and makes it throw.              *)
JsEnds(how) ==
  /\ InJs
  /\ owner' = "ending" /\ result' = [result EXCEPT ![run] = how]
  /\ UNCHANGED <<run, active, holder, complete, timed_out, interrupted, terminating, waker,
                 watchdog, layout, generation, gate, caller, struck, fetch, calls>>

JsAwaits ==
  /\ InJs
  /\ owner' = "polling"
  /\ UNCHANGED <<run, active, holder, complete, timed_out, interrupted, terminating, waker,
                 watchdog, layout, generation, gate, caller, struck, fetch, result, calls>>

(* ActiveFetches::start: FetchCancellation::new notes the generation.      *)
JsFetches(f) ==
  /\ InJs /\ fetch[f].at = "none"
  /\ fetch' = [fetch EXCEPT ![f] = [at |-> "loading", of |-> generation]]
  /\ UNCHANGED <<owner, run, active, holder, complete, timed_out, interrupted, terminating,
                 waker, watchdog, layout, generation, gate, caller, struck, result, calls>>

(* Mutant: the waker is stored without a look at the flags.                *)
PollsBlindly ==
  /\ owner = "polling"
  /\ owner' = "parked" /\ waker' = "set"
  /\ UNCHANGED <<run, active, holder, complete, timed_out, interrupted, terminating,
                 watchdog, layout, generation, gate, caller, struck, fetch, result, calls>>

(* DeadlineFuture::poll, under the lock of waker.                          *)
PollsDeadline ==
  /\ owner = "polling"
  /\ IF run \in timed_out \cup interrupted
     THEN owner' = "ending" /\ result' = [result EXCEPT ![run] = "timeout"] /\ UNCHANGED waker
     ELSE owner' = "parked" /\ waker' = "set" /\ UNCHANGED result
  /\ UNCHANGED <<run, active, holder, complete, timed_out, interrupted, terminating,
                 watchdog, layout, generation, gate, caller, struck, fetch, calls>>

(* The promise or an operation the event loop waits for is ready.          *)
IoReady ==
  /\ owner = "parked"
  /\ owner' = "js"
  /\ UNCHANGED <<run, active, holder, complete, timed_out, interrupted, terminating, waker,
                 watchdog, layout, generation, gate, caller, struck, fetch, result, calls>>

(* The task was woken: select polls the event loop, which has nothing to   *)
(* do, and then the deadline.                                              *)
Unparks ==
  /\ owner = "parked" /\ waker = "woken"
  /\ owner' = "polling" /\ waker' = "none"
  /\ UNCHANGED <<run, active, holder, complete, timed_out, interrupted, terminating,
                 watchdog, layout, generation, gate, caller, struck, fetch, result, calls>>

(* RuntimeDeadline::finish: complete under wait_lock, then the handle, the *)
(* join, and last the flags.                                               *)
Completes ==
  /\ owner = "ending" /\ ~WaitLocked
  /\ owner' = "completed" /\ complete' = complete \cup {run}
  /\ UNCHANGED <<run, active, holder, timed_out, interrupted, terminating, waker, watchdog,
                 layout, generation, gate, caller, struck, fetch, result, calls>>

Uninstalls ==
  /\ owner = "completed" /\ holder = NoOne
  /\ owner' = "uninstalled" /\ active' = IF active = run THEN 0 ELSE active
  /\ UNCHANGED <<run, holder, complete, timed_out, interrupted, terminating, waker, watchdog,
                 layout, generation, gate, caller, struck, fetch, result, calls>>

Joins ==
  /\ owner = "uninstalled" /\ watchdog = "done"
  /\ owner' = "joined" /\ watchdog' = "none"
  /\ UNCHANGED <<run, active, holder, complete, timed_out, interrupted, terminating, waker,
                 layout, generation, gate, caller, struck, fetch, result, calls>>

(* Mutant: a timeout hides the interrupt that came with it.                *)
TimeoutFirst(value) == IF run \in timed_out THEN "timeout"
                       ELSE IF run \in interrupted THEN "interrupted" ELSE value

Reason(value) == IF run \in interrupted THEN "interrupted"
                 ELSE IF run \in timed_out THEN "timeout" ELSE value

(* Mutant: only a timeout makes finish cancel the termination.             *)
ForgetsInterrupt ==
  /\ owner = "joined"
  /\ owner' = "idle"
  /\ terminating' = (terminating /\ run \notin timed_out)
  /\ result' = [result EXCEPT ![run] = Reason(result[run])]
  /\ UNCHANGED <<run, active, holder, complete, timed_out, interrupted, waker, watchdog,
                 layout, generation, gate, caller, struck, fetch, calls>>

ReadsFlags ==
  /\ owner = "joined"
  /\ owner' = "idle"
  /\ terminating' = (terminating /\ run \notin timed_out \cup interrupted)
  /\ result' = [result EXCEPT ![run] = Reason(result[run])]
  /\ UNCHANGED <<run, active, holder, complete, timed_out, interrupted, waker, watchdog,
                 layout, generation, gate, caller, struck, fetch, calls>>

----------------------------------------------------------------------------
(* The watchdog thread of RuntimeDeadline::start.                          *)
Expires ==
  /\ watchdog = "waiting" /\ run \notin complete
  /\ watchdog' = "expired"
  /\ UNCHANGED <<owner, run, active, holder, complete, timed_out, interrupted, terminating,
                 waker, layout, generation, gate, caller, struck, fetch, result, calls>>

IsNotified ==
  /\ watchdog = "waiting" /\ run \in complete
  /\ watchdog' = "done"
  /\ UNCHANGED <<owner, run, active, holder, complete, timed_out, interrupted, terminating,
                 waker, layout, generation, gate, caller, struck, fetch, result, calls>>

MarksTimedOut ==
  /\ watchdog = "expired"
  /\ watchdog' = "layout" /\ timed_out' = timed_out \cup {run}
  /\ UNCHANGED <<owner, run, active, holder, complete, interrupted, terminating, waker,
                 layout, generation, gate, caller, struck, fetch, result, calls>>

(* RenderLayoutCancellation::cancel keeps the first reason.                *)
LayoutCancelled(reason) == IF layout = NoReason THEN reason ELSE layout

DeadlineCancelsLayout ==
  /\ watchdog = "layout"
  /\ watchdog' = "fetches" /\ layout' = LayoutCancelled("deadline")
  /\ UNCHANGED <<owner, run, active, holder, complete, timed_out, interrupted, terminating,
                 waker, generation, gate, caller, struck, fetch, result, calls>>

DeadlineCancelsFetches ==
  /\ watchdog = "fetches" /\ gate = NoOne
  /\ watchdog' = "terminate" /\ generation' = generation + 1
  /\ UNCHANGED <<owner, run, active, holder, complete, timed_out, interrupted, terminating,
                 waker, layout, gate, caller, struck, fetch, result, calls>>

DeadlineTerminates ==
  /\ watchdog = "terminate"
  /\ watchdog' = "wake" /\ terminating' = TRUE
  /\ UNCHANGED <<owner, run, active, holder, complete, timed_out, interrupted, waker, layout,
                 generation, gate, caller, struck, fetch, result, calls>>

(* DeadlineState::wake takes the waker, if there is one.                   *)
Woken == IF waker = "set" THEN "woken" ELSE waker

DeadlineWakes ==
  /\ watchdog = "wake"
  /\ watchdog' = "done" /\ waker' = Woken
  /\ UNCHANGED <<owner, run, active, holder, complete, timed_out, interrupted, terminating,
                 layout, generation, gate, caller, struck, fetch, result, calls>>

----------------------------------------------------------------------------
(* RuntimeInterruptHandle::interrupt_layout and interrupt.                 *)
At(i, there) == caller' = [caller EXCEPT ![i] = there]

CancelsLayout(i) ==
  /\ caller[i] = "out" /\ calls < MaxInterrupts
  /\ At(i, "fetches") /\ layout' = LayoutCancelled("navigation") /\ calls' = calls + 1
  /\ UNCHANGED <<owner, run, active, holder, complete, timed_out, interrupted, terminating,
                 waker, watchdog, generation, gate, struck, fetch, result>>

CancelsFetches(i) ==
  /\ caller[i] = "fetches" /\ gate = NoOne
  /\ At(i, "active") /\ generation' = generation + 1
  /\ UNCHANGED <<owner, run, active, holder, complete, timed_out, interrupted, terminating,
                 waker, watchdog, layout, gate, struck, fetch, result, calls>>

(* The lock of active is held from here to the wake.                       *)
LooksAtActive(i) ==
  /\ caller[i] = "active" /\ holder = NoOne
  /\ IF active = 0 \/ active \in complete
     THEN At(i, "out") /\ UNCHANGED holder
     ELSE At(i, "mark") /\ holder' = i
  /\ UNCHANGED <<owner, run, active, complete, timed_out, interrupted, terminating, waker,
                 watchdog, layout, generation, gate, struck, fetch, result, calls>>

Marks(i) ==
  /\ caller[i] = "mark"
  /\ At(i, "terminate") /\ interrupted' = interrupted \cup {active}
  /\ UNCHANGED <<owner, run, active, holder, complete, timed_out, terminating, waker,
                 watchdog, layout, generation, gate, struck, fetch, result, calls>>

Terminates(i) ==
  /\ caller[i] = "terminate"
  /\ At(i, "wake") /\ terminating' = TRUE
  /\ UNCHANGED <<owner, run, active, holder, complete, timed_out, interrupted, waker,
                 watchdog, layout, generation, gate, struck, fetch, result, calls>>

Wakes(i) ==
  /\ caller[i] = "wake"
  /\ At(i, "out") /\ waker' = Woken /\ holder' = NoOne /\ struck' = struck \cup {active}
  /\ UNCHANGED <<owner, run, active, complete, timed_out, interrupted, terminating, watchdog,
                 layout, generation, gate, fetch, result, calls>>

----------------------------------------------------------------------------
(* commit_host_effect: with_fetch_generation compares the generation and   *)
(* runs the operation (the writes to the cookie jar, the HTTP cache or the *)
(* preflight cache) without letting go of the gate.                        *)
EntersGate(f) ==
  /\ fetch[f].at = "loading" /\ gate = NoOne
  /\ IF generation = fetch[f].of
     THEN gate' = f /\ fetch' = [fetch EXCEPT ![f].at = "applying"]
     ELSE fetch' = [fetch EXCEPT ![f].at = "refused"] /\ UNCHANGED gate
  /\ UNCHANGED <<owner, run, active, holder, complete, timed_out, interrupted, terminating,
                 waker, watchdog, layout, generation, caller, struck, result, calls>>

LeavesGate(f) ==
  /\ fetch[f].at = "applying"
  /\ gate' = NoOne /\ fetch' = [fetch EXCEPT ![f].at = "applied"]
  /\ UNCHANGED <<owner, run, active, holder, complete, timed_out, interrupted, terminating,
                 waker, watchdog, layout, generation, caller, struck, result, calls>>

----------------------------------------------------------------------------
DeadlineInit ==
  /\ owner = "idle" /\ run = 0 /\ active = 0 /\ holder = NoOne
  /\ complete = {} /\ timed_out = {} /\ interrupted = {} /\ terminating = FALSE
  /\ waker = "none" /\ watchdog = "none" /\ layout = NoReason
  /\ generation = 0 /\ gate = NoOne
  /\ caller = [i \in Interrupter |-> "out"] /\ struck = {}
  /\ fetch = [f \in Fetcher |-> [at |-> "none", of |-> 0]]
  /\ result = [n \in Run |-> "none"] /\ calls = 0

(* What the owner thread does whatever the page code does.                 *)
OwnerSteps ==
  \/ ClearsLayout \/ Installs \/ SpawnsWatchdog \/ PollsDeadline \/ Unparks
  \/ Completes \/ Uninstalls \/ Joins \/ ReadsFlags
  \/ terminating /\ JsEnds("error")

WatchdogSteps ==
  \/ Expires \/ IsNotified \/ MarksTimedOut \/ DeadlineCancelsLayout
  \/ DeadlineCancelsFetches \/ DeadlineTerminates \/ DeadlineWakes

InterrupterSteps(i) ==
  CancelsFetches(i) \/ LooksAtActive(i) \/ Marks(i) \/ Terminates(i) \/ Wakes(i)

FetcherSteps(f) == EntersGate(f) \/ LeavesGate(f)

DeadlineNext ==
  \/ OwnerSteps \/ WatchdogSteps
  \/ JsEnds("value") \/ JsEnds("error") \/ JsAwaits \/ IoReady
  \/ \E i \in Interrupter : CancelsLayout(i) \/ InterrupterSteps(i)
  \/ \E f \in Fetcher : JsFetches(f) \/ FetcherSteps(f)

(* Threads run; page code and the network owe nothing.                     *)
DeadlineFairness ==
  /\ WF_dvars(OwnerSteps) /\ WF_dvars(WatchdogSteps)
  /\ \A i \in Interrupter : WF_dvars(InterrupterSteps(i))
  /\ \A f \in Fetcher : WF_dvars(FetcherSteps(f))

DeadlineSpec == DeadlineInit /\ [][DeadlineNext]_dvars /\ DeadlineFairness

----------------------------------------------------------------------------
(* The variables have their types; the lock of active is held exactly by   *)
(* an interrupter between its look and its wake, and the gate exactly by   *)
(* a worker that applies its effect.                                       *)
DeadlineTypeOK ==
  /\ owner \in {"idle", "starting", "installed", "js", "polling", "parked", "ending",
                "completed", "uninstalled", "joined"}
  /\ run \in 0 .. MaxRuns /\ active \in {0, run} /\ calls \in 0 .. MaxInterrupts
  /\ complete \subseteq 1 .. run /\ timed_out \subseteq 1 .. run
  /\ interrupted \subseteq 1 .. run /\ struck \subseteq interrupted
  /\ terminating \in BOOLEAN /\ waker \in {"none", "set", "woken"}
  /\ watchdog \in {"none", "waiting", "expired", "layout", "fetches", "terminate", "wake",
                   "done"}
  /\ layout \in {NoReason, "deadline", "navigation"}
  /\ generation \in Nat
  /\ result \in [Run -> {"none", "value", "error", "timeout", "interrupted"}]
  /\ \A i \in Interrupter : (holder = i) <=> caller[i] \in {"mark", "terminate", "wake"}
  /\ \A f \in Fetcher : (gate = f) <=> fetch[f].at = "applying"

(* A late timeout or interrupt cannot poison the next evaluation: V8 is    *)
(* being terminated only inside an evaluation that was itself timed out or *)
(* interrupted, whatever the watchdogs and callers of earlier ones do.     *)
TerminationIsOwn ==
  terminating => /\ run \in timed_out \cup interrupted
                 /\ owner \notin {"idle", "starting"}

(* interrupt() that returned true was heard: the evaluation it struck has  *)
(* ended, or will end, as interrupted, also when it was completing or      *)
(* timing out in the same instant.                                         *)
InterruptsAreHeard ==
  \A n \in struck : (n < run \/ owner = "idle") => result[n] = "interrupted"

(* The deadline reason in layout_cancellation is this evaluation's own: a  *)
(* layout request is never refused for the timeout of an earlier script.   *)
DeadlineIsOwn == layout = "deadline" /\ owner # "idle" => run \in timed_out

(* The effects of a fetch (cookies, cached responses) are applied only in  *)
(* the generation the fetch was started in: once interrupt() or a timeout  *)
(* has cancelled the fetches, none of the earlier ones writes anything,    *)
(* even after the termination state has been cleared.                      *)
EffectsInGeneration == \A f \in Fetcher : fetch[f].at = "applying" => fetch[f].of = generation

(* Every evaluation ends, within its deadline, whatever the page code does *)
(* and however it waits: no wake-up of the parked owner is lost, and the   *)
(* owner, the watchdog and the interrupters never wait for each other.     *)
EvaluationsEnd == <>[](owner = "idle" /\ \A i \in Interrupter : caller[i] = "out")

=============================================================================
