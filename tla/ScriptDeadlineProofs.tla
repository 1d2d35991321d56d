------------------------ MODULE ScriptDeadlineProofs ------------------------
(***************************************************************************)
(* The safety of deadlines and interrupts for any number of evaluations,   *)
(* interrupters and fetch workers.  One inductive invariant, Protocol,     *)
(* carries all of it: it says where the owner thread is when a watchdog    *)
(* runs, when the lock of active is held, and which flags are set by then. *)
(***************************************************************************)
EXTENDS ScriptDeadline, TLAPS

Installed == {"installed", "js", "polling", "parked", "ending", "completed"}
Evaluating == {"js", "polling", "parked", "ending"}
Finishing == {"completed", "uninstalled", "joined"}
Striking == {"mark", "terminate", "wake"}
FetchRecord == [at : {"none", "loading", "applying", "applied", "refused"}, of : Nat]

(* The types that DeadlineTypeOK leaves to the shape of the actions. *)
Types ==
  /\ DeadlineTypeOK
  /\ caller \in [Interrupter -> {"out", "fetches", "active"} \cup Striking]
  /\ fetch \in [Fetcher -> FetchRecord]
  /\ holder \in Interrupter \cup {NoOne} /\ gate \in Fetcher \cup {NoOne}

(* The handle names the evaluation from install to clear, and an           *)
(* interrupter that holds its lock keeps the owner from clearing it; the   *)
(* watchdog lives from the start of the script to the join, and acts only  *)
(* before the evaluation is complete.                                      *)
Protocol ==
  /\ active = (IF owner \in Installed THEN run ELSE 0)
  /\ owner # "idle" => run > 0
  /\ holder # NoOne => owner \in Installed
  /\ owner \in {"idle", "starting", "installed", "joined"} => watchdog = "none"
  /\ owner \in Evaluating => watchdog # "none" /\ run \notin complete
  /\ owner \in {"starting", "installed"} => run \notin complete
  /\ owner \in {"completed", "uninstalled"} => watchdog \in {"waiting", "done"}
  /\ owner \in Finishing => run \in complete
  /\ watchdog \in {"layout", "fetches", "terminate", "wake"} => run \in timed_out
  /\ \A i \in Interrupter : caller[i] \in {"terminate", "wake"} => run \in interrupted

(* The inductive invariant. *)
DeadlineInv ==
  /\ Types /\ Protocol
  /\ TerminationIsOwn /\ InterruptsAreHeard /\ DeadlineIsOwn /\ EffectsInGeneration

(* Every step of every thread keeps the invariant. *)
LEMMA DeadlineStep == DeadlineInv /\ [DeadlineNext]_dvars => DeadlineInv'
<1> SUFFICES ASSUME DeadlineInv, [DeadlineNext]_dvars PROVE DeadlineInv'
  OBVIOUS
<1> USE DeadlineAssumption
    DEF DeadlineInv, Types, DeadlineTypeOK, Run, NoReason, Protocol, Installed, Evaluating,
        Finishing, Striking, FetchRecord, TerminationIsOwn, InterruptsAreHeard, DeadlineIsOwn,
        EffectsInGeneration
<1>1. CASE ClearsLayout
  BY <1>1 DEF ClearsLayout
<1>2. CASE Installs
  BY <1>2 DEF Installs
<1>3. CASE SpawnsWatchdog
  BY <1>3 DEF SpawnsWatchdog
<1>4. CASE PollsDeadline
  BY <1>4 DEF PollsDeadline
<1>5. CASE Unparks
  BY <1>5 DEF Unparks
<1>6. CASE Completes
  BY <1>6 DEF Completes, WaitLocked
<1>7. CASE Uninstalls
  BY <1>7 DEF Uninstalls
<1>8. CASE Joins
  BY <1>8 DEF Joins
<1>9. CASE ReadsFlags
  <2>1. ~ terminating'
    BY <1>9, Zenon DEF ReadsFlags
  <2>2. result' = [result EXCEPT ![run] = Reason(result[run])]
    BY <1>9 DEF ReadsFlags
  <2>3. Reason(result[run]) \in {"none", "value", "error", "timeout", "interrupted"}
    BY <1>9 DEF ReadsFlags, Reason
  <2>4. run \in interrupted => Reason(result[run]) = "interrupted"
    BY DEF Reason
  <2>5. QED
    BY <1>9, <2>1, <2>2, <2>3, <2>4 DEF ReadsFlags
<1>10. ASSUME NEW how \in {"value", "error"}, JsEnds(how) PROVE DeadlineInv'
  BY <1>10 DEF JsEnds, InJs
<1>11. CASE JsAwaits
  BY <1>11 DEF JsAwaits, InJs
<1>12. CASE IoReady
  BY <1>12 DEF IoReady
<1>13. CASE Expires
  BY <1>13 DEF Expires
<1>14. CASE IsNotified
  BY <1>14 DEF IsNotified
<1>15. CASE MarksTimedOut
  BY <1>15 DEF MarksTimedOut
<1>16. CASE DeadlineCancelsLayout
  BY <1>16 DEF DeadlineCancelsLayout, LayoutCancelled
<1>17. CASE DeadlineCancelsFetches
  BY <1>17 DEF DeadlineCancelsFetches
<1>18. CASE DeadlineTerminates
  BY <1>18 DEF DeadlineTerminates
<1>19. CASE DeadlineWakes
  BY <1>19 DEF DeadlineWakes, Woken
<1>20. ASSUME NEW i \in Interrupter, CancelsLayout(i) PROVE DeadlineInv'
  BY <1>20 DEF CancelsLayout, At, LayoutCancelled
<1>21. ASSUME NEW i \in Interrupter, CancelsFetches(i) PROVE DeadlineInv'
  BY <1>21 DEF CancelsFetches, At
<1>22. ASSUME NEW i \in Interrupter, LooksAtActive(i) PROVE DeadlineInv'
  BY <1>22 DEF LooksAtActive, At
<1>23. ASSUME NEW i \in Interrupter, Marks(i) PROVE DeadlineInv'
  BY <1>23 DEF Marks, At
<1>24. ASSUME NEW i \in Interrupter, Terminates(i) PROVE DeadlineInv'
  BY <1>24 DEF Terminates, At
<1>25. ASSUME NEW i \in Interrupter, Wakes(i) PROVE DeadlineInv'
  BY <1>25 DEF Wakes, At, Woken
<1>26. ASSUME NEW f \in Fetcher, JsFetches(f) PROVE DeadlineInv'
  BY <1>26 DEF JsFetches, InJs
<1>27. ASSUME NEW f \in Fetcher, EntersGate(f) PROVE DeadlineInv'
  <2>1. CASE generation = fetch[f].of
    <3>1. gate = NoOne /\ gate' = f /\ fetch' = [fetch EXCEPT ![f].at = "applying"]
      BY <1>27, <2>1 DEF EntersGate
    <3>2. fetch[f] \in FetchRecord
      OBVIOUS
    <3>3. /\ fetch'[f].at = "applying" /\ fetch'[f].of = fetch[f].of
          /\ \A g \in Fetcher \ {f} : fetch'[g] = fetch[g]
          /\ fetch' \in [Fetcher -> FetchRecord]
      BY <3>1, <3>2
    <3>4. \A g \in Fetcher : fetch'[g].at = "applying" <=> g = f
      BY <3>1, <3>3
    <3>5. QED
      BY <1>27, <2>1, <3>1, <3>3, <3>4 DEF EntersGate
  <2>2. CASE generation # fetch[f].of
    <3>1. gate = NoOne /\ gate' = NoOne /\ fetch' = [fetch EXCEPT ![f].at = "refused"]
      BY <1>27, <2>2 DEF EntersGate
    <3>2. fetch[f] \in FetchRecord
      OBVIOUS
    <3>3. /\ fetch'[f].at = "refused" /\ fetch'[f].of = fetch[f].of
          /\ \A g \in Fetcher \ {f} : fetch'[g] = fetch[g]
          /\ fetch' \in [Fetcher -> FetchRecord]
      BY <3>1, <3>2
    <3>4. \A g \in Fetcher : fetch'[g].at # "applying"
      BY <3>1, <3>3
    <3>5. QED
      BY <1>27, <3>1, <3>3, <3>4 DEF EntersGate
  <2>3. QED
    BY <2>1, <2>2
<1>28. ASSUME NEW f \in Fetcher, LeavesGate(f) PROVE DeadlineInv'
  BY <1>28 DEF LeavesGate
<1>29. CASE UNCHANGED dvars
  BY <1>29 DEF dvars
<1>30. QED
  <2> HIDE DEF DeadlineInv
  <2>1. QED
    BY <1>1, <1>2, <1>3, <1>4, <1>5, <1>6, <1>7, <1>8, <1>9, <1>10,
       <1>11, <1>12, <1>13, <1>14, <1>15, <1>16, <1>17, <1>18, <1>19,
       <1>20, <1>21, <1>22, <1>23, <1>24, <1>25, <1>26, <1>27, <1>28, <1>29
       DEF DeadlineNext, OwnerSteps, WatchdogSteps, InterrupterSteps, FetcherSteps

(* The invariant holds from the start. *)
LEMMA DeadlineStart == DeadlineInit => DeadlineInv
<1> SUFFICES ASSUME DeadlineInit PROVE DeadlineInv
  OBVIOUS
<1>1. Types
  <2>1. terminating \in BOOLEAN
    BY Zenon DEF DeadlineInit
  <2>2. /\ run \in 0 .. MaxRuns /\ active \in {0, run} /\ calls \in 0 .. MaxInterrupts
        /\ complete \subseteq 1 .. run /\ timed_out \subseteq 1 .. run
        /\ interrupted \subseteq 1 .. run /\ struck \subseteq interrupted
        /\ layout \in {NoReason, "deadline", "navigation"} /\ generation \in Nat
    BY DeadlineAssumption DEF DeadlineInit
  <2>3. result \in [Run -> {"none", "value", "error", "timeout", "interrupted"}]
    BY DEF DeadlineInit
  <2>4. /\ \A i \in Interrupter : (holder = i) <=> caller[i] \in {"mark", "terminate", "wake"}
        /\ \A f \in Fetcher : (gate = f) <=> fetch[f].at = "applying"
    BY DeadlineAssumption DEF DeadlineInit
  <2>5. DeadlineTypeOK
    BY <2>1, <2>2, <2>3, <2>4 DEF DeadlineInit, DeadlineTypeOK
  <2>6. QED
    BY <2>5 DEF DeadlineInit, Types, Striking, FetchRecord
<1>2. Protocol
  BY DeadlineAssumption
     DEF DeadlineInit, Protocol, Installed, Evaluating, Finishing, NoReason
<1>3. TerminationIsOwn /\ InterruptsAreHeard /\ DeadlineIsOwn /\ EffectsInGeneration
  BY DEF DeadlineInit, TerminationIsOwn, InterruptsAreHeard, DeadlineIsOwn,
         EffectsInGeneration, NoReason
<1>4. QED
  BY <1>1, <1>2, <1>3 DEF DeadlineInv

LEMMA DeadlineAlways == DeadlineSpec => []DeadlineInv
BY DeadlineStart, DeadlineStep, PTL DEF DeadlineSpec

(* The variables keep their types, the lock of active is held exactly      *)
(* between the look and the wake of interrupt(), and fetch_effect_gate     *)
(* exactly while an effect is applied.                                     *)
THEOREM DeadlineTypes == DeadlineSpec => []DeadlineTypeOK
BY DeadlineAlways, PTL DEF DeadlineInv, Types

(* finish() clears V8's termination whenever its own evaluation was the    *)
(* target, and no watchdog or interrupter can request it later: however    *)
(* many threads interrupt, the next evaluation starts unterminated.        *)
THEOREM TerminationTheorem == DeadlineSpec => []TerminationIsOwn
BY DeadlineAlways, PTL DEF DeadlineInv

(* Whenever interrupt() returned true, the evaluation it struck ends as    *)
(* interrupted, also when its watchdog fired at the same time.             *)
THEOREM InterruptTheorem == DeadlineSpec => []InterruptsAreHeard
BY DeadlineAlways, PTL DEF DeadlineInv

(* A layout request is refused for a deadline only by the watchdog of the  *)
(* evaluation that makes it.                                               *)
THEOREM DeadlineTheorem == DeadlineSpec => []DeadlineIsOwn
BY DeadlineAlways, PTL DEF DeadlineInv

(* with_fetch_generation applies no effect of a fetch that an interrupt or *)
(* a timeout has cancelled.                                                *)
THEOREM GenerationTheorem == DeadlineSpec => []EffectsInGeneration
BY DeadlineAlways, PTL DEF DeadlineInv
=============================================================================
