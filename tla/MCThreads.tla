----------------------------- MODULE MCThreads -----------------------------
(* The parts of the archived Rust browser in which threads meet, checked   *)
(* one at a time in one run: a behaviour steps the component in focus and  *)
(* leaves the others where they start.                                     *)
(*   cdp       two sockets, of which one navigates, creates and stops and  *)
(*             the other evaluates, closes, enables and disconnects;       *)
(*             room for one operation per socket and for two outcomes.     *)
(*   broker    two requesters and a queue of one message: one request can  *)
(*             be given up and answered late while the other waits for     *)
(*             room; two subjects make a wrong answer possible.            *)
(*   deadline  two evaluations, an interrupter that strikes twice and a    *)
(*             fetch worker (the theorems are for any number of each).     *)
(*   fetch     a streamed fetch with all its effects, and a buffered one   *)
(*             that needs a preflight; a table and a channel of one.       *)
EXTENDS CdpNav, RenderBroker, ScriptDeadline, PageFetch

CONSTANTS c1, c2, f1, f2

MCOps == c1 :> {"page", "create", "stop"} @@ c2 :> {"evaluate", "close", "enable", "disconnect"}

MCFetchKind == (f1 :> [live |-> TRUE, needs |-> {"cookies", "cache"}]) @@
               (f2 :> [live |-> FALSE, needs |-> {"preflight"}])

VARIABLE focus

threads == <<focus, vars, bvars, dvars, fvars>>

ThreadsInit ==
  /\ focus \in {"cdp", "broker", "deadline", "fetch"}
  /\ CdpInit /\ BrokerInit /\ DeadlineInit /\ FetchInit

ThreadsNext ==
  /\ UNCHANGED focus
  /\ \/ focus = "cdp" /\ CdpNext /\ UNCHANGED <<bvars, dvars, fvars>>
     \/ focus = "broker" /\ BrokerNext /\ UNCHANGED <<vars, dvars, fvars>>
     \/ focus = "deadline" /\ DeadlineNext /\ UNCHANGED <<vars, bvars, fvars>>
     \/ focus = "fetch" /\ FetchNext /\ UNCHANGED <<vars, bvars, dvars>>

(* The fairness of the four specifications, each for the behaviours that   *)
(* step its component.                                                     *)
ThreadsFairness ==
  /\ []<>~(focus = "cdp" /\ Loading) \/ []<><<focus = "cdp" /\ EngineStep>>_vars
  /\ \A c \in Conn : \/ <>[]~(focus = "cdp" /\ Ticking(c))
                      \/ []<><<focus = "cdp" /\ Polls(c)>>_vars
  /\ []<>(turn = Idle) \/ []<><<focus = "cdp" /\ PollStep>>_vars
  /\ \A t \in Requester : /\ WF_bvars(focus = "broker" /\ SeesDeadline(t))
                           /\ WF_bvars(focus = "broker" /\ Receives(t))
  /\ \A i \in Id : WF_bvars(focus = "broker" /\ \E x \in sending : x.id = i /\ Send(x))
  /\ WF_dvars(focus = "deadline" /\ OwnerSteps)
  /\ WF_dvars(focus = "deadline" /\ WatchdogSteps)
  /\ \A i \in Interrupter : WF_dvars(focus = "deadline" /\ InterrupterSteps(i))
  /\ \A f \in Fetcher : WF_dvars(focus = "deadline" /\ FetcherSteps(f))
  /\ \A f \in Fetch : WF_fvars(focus = "fetch" /\ ThreadSteps(f))

ThreadsSpec == ThreadsInit /\ [][ThreadsNext]_threads /\ ThreadsFairness
=============================================================================
