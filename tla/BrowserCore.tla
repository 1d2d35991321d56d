---------------------------- MODULE BrowserCore ----------------------------
(***************************************************************************)
(* The browser core of vixen-engine/src/browser.rs: one owner thread that  *)
(* takes messages from a bounded channel and, when the channel is empty,   *)
(* advances navigations one quantum at a time; workers that load documents *)
(* and their resources and answer on the same channel; clients that send   *)
(* commands and may interrupt the script the owner is running.             *)
(*                                                                         *)
(* The owner's state is the record k, and each method of BrowserCore is an *)
(* operator from k to k.  A document and its runtime are allocated         *)
(* together and share one identifier here.  What a document contains       *)
(* beyond its markup is at most one item, named by todo: an external sheet,*)
(* image or script, or an inline script.  Events are recorded by what they *)
(* say of a navigation: committed, ended, or anything said after its end.  *)
(***************************************************************************)
EXTENDS Integers, Sequences, SequencesExt, FiniteSets, Functions

CONSTANTS Client, Ops,            \* the commands each client may send
          max_contexts, MAX_RUNTIME_SLOTS, command_capacity,
          MaxContext, MaxNav,     \* bounds on contexts and navigations ever made
          MaxCommands,            \* bound on commands
          Items,                  \* what a document may contain besides markup
          LoadsFail               \* BOOLEAN: loads, parses and scripts may fail

ASSUME CoreAssumption ==
  /\ {max_contexts, MAX_RUNTIME_SLOTS, command_capacity, MaxContext, MaxNav,
      MaxCommands} \subseteq Nat
  /\ LoadsFail \in BOOLEAN /\ Items \subseteq {"none", "sheet", "image", "script", "inline"}
  /\ Ops \in [Client -> SUBSET {"create", "close", "activate", "navigate", "traverse",
                                "stop", "oversized", "evaluate"}]

VARIABLES k,        \* BrowserCore, its control registry and the event log
          queue,    \* the command channel
          workers,  \* tasks of the network runtime
          owner,    \* what the owner thread is doing
          clients,  \* callers of dispatch_command
          sent,     \* commands so far
          host      \* the owning handle: up, dropping, gone

cvars == <<k, queue, workers, owner, clients, sent, host>>

Ctx == 1..MaxContext
Nav == 1..MaxNav
Doc == 1..(MaxContext + MaxNav)
External == {"sheet", "image", "script"}

Ending == {"navigate", "stop", "close"}
(* Mutant of Interrupting: history traversal interrupts too. *)
InterruptingTraversal == Ending \cup {"oversized", "traverse"}

(* The commands that command_interrupt and navigate_html interrupt for. *)
Interrupting == Ending \cup {"oversized"}

NoNav == [id |-> 0, todo |-> "none", work |-> "none", pend |-> "none", wants |-> FALSE]
NoRun == [ctx |-> 0, doc |-> 0, nav |-> 0, kind |-> "none", hit |-> "none", who |-> 0]
NoClient == [at |-> "idle", op |-> "none", ctx |-> 0, doc |-> 0, target |-> 0,
             made |-> 0, done |-> FALSE]

(* A client that has its answer is idle again, unless it has still to      *)
(* deliver its interrupt.                                                  *)
Answered(x, made) ==
  IF x.at = "sent" THEN [x EXCEPT !.done = TRUE, !.made = made] ELSE NoClient

Live == DOMAIN k.contexts

(* Bound: navigations made, wanted by scripts and asked for by clients. *)
Promised ==
  k.navs + Cardinality({c \in Live : k.contexts[c].nav.wants})
         + Cardinality({u \in Client : /\ clients[u].op \in {"navigate", "traverse"}
                                      /\ ~clients[u].done})
Active(s, c, n) == c \in DOMAIN s.contexts /\ n # 0 /\ s.contexts[c].nav.id = n

----------------------------------------------------------------------------
(* Events.  A navigation's phases and other events are Says; its terminal   *)
(* event is counted.                                                        *)
Says(s, n) == [s EXCEPT !.late = IF s.ended[n] > 0 THEN @ \cup {n} ELSE @]

(* finish_navigation.  The active navigation is taken out of its context,   *)
(* the registry forgets it and its terminal event goes out.                 *)
Finish(s, c) ==
  LET n == s.contexts[c].nav.id IN
  [s EXCEPT !.contexts[c].nav = NoNav, !.control[c].nav = 0, !.ended[n] = @ + 1]

(* A cancelled navigation's task is aborted.  A task that already has its   *)
(* result is past the last point where it can be stopped, and its message   *)
(* still comes.                                                             *)
Without(ws, n) ==
  {{w \in ws : w.nav # n}, {w \in ws : w.nav # n \/ w.at = "loading"}}

(* cancel_active_navigation *)
Cancel(s, c) == IF s.contexts[c].nav.id = 0 THEN s ELSE Finish(s, c)
Cancelled(s, c) == IF c \in DOMAIN s.contexts THEN s.contexts[c].nav.id ELSE 0

(* begin_navigation.  The worker it spawns is held until the owner has     *)
(* answered the command: start_pending_loads lets it go.                   *)
Begin(s, c) ==
  LET n == s.navs + 1
  IN [Cancel(s, c) EXCEPT !.navs = n,
        !.contexts[c].nav = [NoNav EXCEPT !.id = n],
        !.control[c].nav = n,
        !.starts = @ \cup {n}]

SourceWorker(c, n) == [ctx |-> c, nav |-> n, doc |-> 0, kind |-> "source", at |-> "held",
                       moved |-> FALSE]

(* start_pending_loads *)
Started(s) == [s EXCEPT !.starts = {}]
Release(ws, s) ==
  {IF w.nav \in s.starts /\ w.at = "held" THEN [w EXCEPT !.at = "loading"] ELSE w : w \in ws}

(* restore_navigation_work *)
Restore(s, c, n, stage) ==
  IF Active(s, c, n) /\ s.contexts[c].nav.work = "none"
  THEN [s EXCEPT !.contexts[c].nav.work = stage, !.pending = Append(@, <<c, n>>)]
  ELSE s

Fail(s, c, n) == IF Active(s, c, n) THEN Finish(s, c) ELSE s

----------------------------------------------------------------------------
(* Contexts and runtime slots. *)
Slot(d) == [doc |-> d, active |-> TRUE]

CanCreate(s) == Cardinality(DOMAIN s.contexts) < max_contexts

(* create_context.  The new runtime takes a slot of the arena. *)
Create(s) ==
  LET c == s.ctxs + 1
      d == s.docs + 1
  IN [s EXCEPT !.ctxs = c, !.docs = d,
        !.slots = Append(@, Slot(d)),
        !.contexts = (c :> [doc |-> d, slot |-> Len(s.slots) + 1, nav |-> NoNav,
                            applied |-> {}]) @@ @,
        !.control = (c :> [doc |-> d, nav |-> 0]) @@ @,
        !.active = IF @ = 0 THEN c ELSE @]

(* prune_runtime_slots: only a run of inactive slots at the end is freed. *)
Prune(slots) ==
  LET keep == {i \in DOMAIN slots : slots[i].active}
  IN SubSeq(slots, 1, IF keep = {} THEN 0 ELSE Max(keep))

(* close_context *)
Close(s, c) ==
  LET j == Cancel(s, c)
      rest == DOMAIN s.contexts \ {c}
  IN [j EXCEPT !.contexts = Restrict(@, rest),
        !.control = Restrict(@, rest),
        !.slots = Prune([@ EXCEPT ![s.contexts[c].slot].active = FALSE]),
        !.active = IF @ # c THEN @ ELSE IF rest = {} THEN 0 ELSE Min(rest)]

(* commit_parsed_navigation, when nothing in it fails: the visit is        *)
(* recorded, the new runtime installed and the old one retired.            *)
Commit(s, c, n, todo) ==
  LET d == s.docs + 1
      old == s.contexts[c].slot
  IN [Says(s, n) EXCEPT !.docs = d,
        !.slots = Append([@ EXCEPT ![old].active = FALSE], Slot(d)),
        !.control[c].doc = d,
        !.contexts[c] = [doc |-> d, slot |-> Len(s.slots) + 1, applied |-> {},
                         nav |-> [@.nav EXCEPT !.work = "sheets", !.todo = todo]],
        !.pending = Append(@, <<c, n>>)]

----------------------------------------------------------------------------
(* The owner's quanta.  A quantum that runs script leaves the owner in     *)
(* script until the script ends; meanwhile a client may interrupt it.      *)
Looping == owner.at = "loop"
Quiet == queue = <<>> /\ k.pending # <<>>

Popped == [k EXCEPT !.pending = Tail(@)]

(* advance_navigation_work takes the first pending entry; one that no      *)
(* longer names an active navigation with work is dropped.                 *)
AdvanceStale ==
  LET c == Head(k.pending)[1]
      n == Head(k.pending)[2]
  IN /\ Looping /\ Quiet
     /\ ~(Active(k, c, n) /\ k.contexts[c].nav.work # "none")
     /\ k' = Popped
     /\ UNCHANGED <<queue, workers, owner, clients, sent, host>>

Taken(c) == [Popped EXCEPT !.contexts[c].nav.work = "none"]

Quantum(c, n, stage) ==
  /\ Looping /\ Quiet
  /\ Head(k.pending) = <<c, n>> /\ Active(k, c, n) /\ k.contexts[c].nav.work = stage

Runs(c, n, kind, who) ==
  owner' = [at |-> "script",
            run |-> [ctx |-> c, doc |-> k.contexts[c].doc, nav |-> n, kind |-> kind,
                     hit |-> "none", who |-> who]]

(* The parser has the whole document: the navigation commits, or fails on  *)
(* a parse error, at the slot limit, when the runtime cannot be built or   *)
(* when the visit cannot be written.                                       *)
AdvanceParse(c, n) ==
  /\ Quantum(c, n, "parse")
  /\ \/ /\ Len(k.slots) < MAX_RUNTIME_SLOTS
        /\ \E todo \in Items : k' = Commit(Taken(c), c, n, todo)
     \/ /\ Len(k.slots) >= MAX_RUNTIME_SLOTS \/ LoadsFail
        /\ k' = Fail(Taken(c), c, n)
  /\ UNCHANGED <<queue, workers, owner, clients, sent, host>>

(* advance_stylesheet_work, advance_image_work and advance_script_work     *)
(* start an external load; the navigation's work waits with the request.   *)
StageOf == [sheet |-> "sheets", image |-> "images", script |-> "scripts"]
AdvanceExternal(c, n, kind) ==
  /\ Quantum(c, n, StageOf[kind]) /\ k.contexts[c].nav.todo = kind
  /\ k' = [Taken(c) EXCEPT !.contexts[c].nav.todo = "none", !.contexts[c].nav.pend = kind]
  /\ workers' = workers \cup {[ctx |-> c, nav |-> n, doc |-> k.contexts[c].doc,
                               kind |-> kind, at |-> "loading", moved |-> TRUE]}
  /\ UNCHANGED <<queue, owner, clients, sent, host>>

(* The last sheet is in: the hosts are refreshed by a script. *)
AdvanceHosts(c, n) ==
  /\ Quantum(c, n, "sheets") /\ k.contexts[c].nav.todo # "sheet"
  /\ k' = Taken(c)
  /\ Runs(c, n, "hosts", 0)
  /\ UNCHANGED <<queue, workers, clients, sent, host>>

AdvanceImages(c, n) ==
  /\ Quantum(c, n, "images") /\ k.contexts[c].nav.todo # "image"
  /\ k' = Restore(Taken(c), c, n, "scripts")
  /\ UNCHANGED <<queue, workers, owner, clients, sent, host>>

AdvanceInline(c, n) ==
  /\ Quantum(c, n, "scripts") /\ k.contexts[c].nav.todo = "inline"
  /\ k' = [Taken(c) EXCEPT !.contexts[c].nav.todo = "none"]
  /\ Runs(c, n, "script", 0)
  /\ UNCHANGED <<queue, workers, clients, sent, host>>

AdvanceScripted(c, n) ==
  /\ Quantum(c, n, "scripts") /\ k.contexts[c].nav.todo \notin {"script", "inline"}
  /\ k' = Restore(Taken(c), c, n, "dcl")
  /\ UNCHANGED <<queue, workers, owner, clients, sent, host>>

(* advance_lifecycle: DOMContentLoaded and load are events; settling runs  *)
(* the document's tasks.                                                   *)
AdvanceLifecycle(c, n) ==
  /\ \/ /\ Quantum(c, n, "dcl")
        /\ k' = Restore(Says(Taken(c), n), c, n, "load")
     \/ /\ Quantum(c, n, "load")
        /\ k' = Restore(Says(Taken(c), n), c, n, "settle")
  /\ UNCHANGED <<queue, workers, owner, clients, sent, host>>

AdvanceSettle(c, n) ==
  /\ Quantum(c, n, "settle")
  /\ k' = Taken(c)
  /\ Runs(c, n, "settle", 0)
  /\ UNCHANGED <<queue, workers, clients, sent, host>>

(* A script of a navigation ends.  Interrupted, the host refresh fails the *)
(* navigation, a page script is abandoned and the next quantum follows,    *)
(* and the settling quantum leaves everything as it is: the command that   *)
(* interrupted it is expected to end the navigation.                       *)
HostsEnd(c, n) ==
  /\ k' = IF owner.run.hit = "none" THEN Restore(k, c, n, "images") ELSE Fail(k, c, n)
  /\ UNCHANGED workers

ScriptEnds(c, n) ==
  \E wants \in BOOLEAN :
     /\ wants => owner.run.hit = "none" /\ Promised < MaxNav
     /\ k' = Restore([k EXCEPT !.contexts[c].nav.wants = @ \/ wants], c, n, "scripts")
     /\ UNCHANGED workers

SettleEnds(c, n) ==
  LET settled == Finish(k, c)
      next == k.navs + 1
  IN IF owner.run.hit # "none"
     THEN k' = [k EXCEPT !.parked = @ \cup {<<n, owner.run.hit>>}] /\ UNCHANGED workers
     ELSE IF k.contexts[c].nav.wants
     THEN k' = Begin(settled, c) /\ workers' = workers \cup {SourceWorker(c, next)}
     ELSE k' = settled /\ UNCHANGED workers

(* automation_evaluation returns.  Outputs of an interrupted evaluation are *)
(* discarded; otherwise a navigation the script asked for begins.  The      *)
(* reply goes out and held workers are let go.                              *)
Replies(u, made) == clients' = [clients EXCEPT ![u] = Answered(@, made)]

EvaluationEnds(c, u) ==
  \/ /\ k' = Started(k) /\ workers' = Release(workers, k)
     /\ Replies(u, 0)
  \/ /\ owner.run.hit = "none" /\ Promised < MaxNav
     /\ k' = Started(Begin(k, c))
     /\ \E ws \in Without(workers, Cancelled(k, c)) :
          workers' = Release(ws \cup {SourceWorker(c, k.navs + 1)}, Begin(k, c))
     /\ Replies(u, k.navs + 1)

(* A script may also leave its realm beyond recovery, which fails the       *)
(* navigation (recover_cancelled_module_realm).                             *)
OwnerScriptEnds ==
  LET r == owner.run IN
  /\ owner.at = "script"
  /\ owner' = [at |-> "loop", run |-> NoRun]
  /\ \/ r.kind = "hosts" /\ HostsEnd(r.ctx, r.nav) /\ UNCHANGED clients
     \/ r.kind = "script" /\ ScriptEnds(r.ctx, r.nav) /\ UNCHANGED clients
     \/ r.kind = "settle" /\ SettleEnds(r.ctx, r.nav) /\ UNCHANGED clients
     \/ /\ r.nav # 0 /\ LoadsFail
        /\ k' = Fail(k, r.ctx, r.nav) /\ UNCHANGED <<workers, clients>>
     \/ r.kind = "eval" /\ EvaluationEnds(r.ctx, r.who)
  /\ UNCHANGED <<queue, sent, host>>

----------------------------------------------------------------------------
(* Messages. *)
Message(type) == Looping /\ queue # <<>> /\ Head(queue).type = type /\ queue' = Tail(queue)

(* complete_navigation *)
CompleteSource(m) ==
  IF ~Active(k, m.ctx, m.nav) THEN k
  ELSE IF ~m.ok THEN Fail(k, m.ctx, m.nav)
  ELSE [Says(k, m.nav) EXCEPT !.contexts[m.ctx].nav.work = "parse",
                              !.pending = Append(@, <<m.ctx, m.nav>>)]

SourceLoaded ==
  /\ Message("source")
  /\ k' = Started(CompleteSource(Head(queue)))
  /\ workers' = Release(workers, k)
  /\ UNCHANGED <<owner, clients, sent, host>>

(* Mutant of SourceProgress: the generation is not checked. *)
ProgressUnchecked ==
  /\ Message("progress")
  /\ k' = Says(k, Head(queue).nav)
  /\ UNCHANGED <<workers, owner, clients, sent, host>>

(* progress_navigation: a redirect is announced. *)
SourceProgress ==
  LET m == Head(queue) IN
  /\ Message("progress")
  /\ k' = IF Active(k, m.ctx, m.nav) THEN Says(k, m.nav) ELSE k
  /\ UNCHANGED <<workers, owner, clients, sent, host>>

(* Mutant of Expected: only the kind of the pending request is compared. *)
ExpectedKind(m) == m.ctx \in Live /\ k.contexts[m.ctx].nav.pend = m.type

(* The keys a resource completion must match. *)
Expected(m) ==
  /\ Active(k, m.ctx, m.nav)
  /\ k.contexts[m.ctx].doc = m.doc
  /\ k.contexts[m.ctx].nav.pend = m.type

Arrived(m) == [k EXCEPT !.contexts[m.ctx].nav.pend = "none"]

Applied(s, m) ==
  [s EXCEPT !.contexts[m.ctx].applied = @ \cup {m.doc}]

(* complete_external_stylesheet and complete_external_image *)
ResourceLoaded ==
  LET m == Head(queue) IN
  /\ Looping /\ queue # <<>> /\ m.type \in {"sheet", "image"} /\ queue' = Tail(queue)
  /\ k' = IF ~Expected(m) THEN k
          ELSE Restore(IF m.ok THEN Applied(Arrived(m), m) ELSE Arrived(m),
                       m.ctx, m.nav, StageOf[m.type])
  /\ UNCHANGED <<workers, owner, clients, sent, host>>

(* complete_external_script runs the script it was given. *)
ExternalScriptLoaded ==
  LET m == Head(queue) IN
  /\ Message("script")
  /\ \/ /\ ~Expected(m) /\ k' = k /\ UNCHANGED owner
     \/ /\ Expected(m) /\ ~m.ok
        /\ k' = Restore(Arrived(m), m.ctx, m.nav, "scripts") /\ UNCHANGED owner
     \/ /\ Expected(m) /\ m.ok
        /\ k' = Applied(Arrived(m), m) /\ Runs(m.ctx, m.nav, "script", 0)
  /\ UNCHANGED <<workers, clients, sent, host>>

----------------------------------------------------------------------------
(* Commands.  A command other than an evaluation is done in one step; the  *)
(* answer goes out and then held workers are let go.                       *)
Answer(u, j, kept, made) ==
  /\ k' = Started(j)
  /\ \E ws \in kept : workers' = Release(ws, j)
  /\ Replies(u, made)
  /\ UNCHANGED <<owner, sent, host>>

Refuse(u) == Answer(u, k, {workers}, 0)

Aborted(c) == Without(workers, Cancelled(k, c))

DispatchCreate(u) ==
  /\ Message("command") /\ Head(queue).who = u /\ Head(queue).op = "create"
  /\ IF CanCreate(k) THEN Answer(u, Create(k), {workers}, 0) ELSE Refuse(u)

DispatchNavigate(u, c) ==
  /\ Message("command") /\ Head(queue).who = u /\ Head(queue).ctx = c
  /\ Head(queue).op \in {"navigate", "traverse"}
  /\ IF c \in Live
     THEN Answer(u, Begin(k, c), {ws \cup {SourceWorker(c, k.navs + 1)} : ws \in Aborted(c)},
                 k.navs + 1)
     ELSE Refuse(u)

(* TraverseHistory past either end is accepted and does nothing. *)
DispatchNowhere(u) ==
  /\ Message("command") /\ Head(queue).who = u /\ Head(queue).op = "traverse"
  /\ Refuse(u)

DispatchStop(u, c) ==
  /\ Message("command") /\ Head(queue).who = u /\ Head(queue).ctx = c
  /\ Head(queue).op = "stop"
  /\ IF c \in Live THEN Answer(u, Cancel(k, c), Aborted(c), 0) ELSE Refuse(u)

DispatchClose(u, c) ==
  /\ Message("command") /\ Head(queue).who = u /\ Head(queue).ctx = c
  /\ Head(queue).op = "close"
  /\ IF c \in Live THEN Answer(u, Close(k, c), Aborted(c), 0) ELSE Refuse(u)

DispatchActivate(u, c) ==
  /\ Message("command") /\ Head(queue).who = u /\ Head(queue).ctx = c
  /\ Head(queue).op = "activate"
  /\ IF c \in Live THEN Answer(u, [k EXCEPT !.active = c], {workers}, 0) ELSE Refuse(u)

(* navigate_injected refuses a document over the body limit. *)
DispatchOversized(u) ==
  /\ Message("command") /\ Head(queue).who = u /\ Head(queue).op = "oversized"
  /\ Refuse(u)

DispatchEvaluate(u, c) ==
  LET m == Head(queue) IN
  /\ Message("command") /\ m.who = u /\ m.ctx = c /\ m.op = "evaluate"
  /\ IF c \in Live /\ k.contexts[c].doc = m.doc
     THEN Runs(c, 0, "eval", u) /\ UNCHANGED <<k, workers, clients, sent, host>>
     ELSE Refuse(u)

Dispatch(u) ==
  \/ DispatchCreate(u) \/ DispatchOversized(u) \/ DispatchNowhere(u)
  \/ \E c \in Ctx : \/ DispatchNavigate(u, c) \/ DispatchStop(u, c) \/ DispatchClose(u, c)
                    \/ DispatchActivate(u, c) \/ DispatchEvaluate(u, c)

(* The owner leaves: every navigation still active is cancelled, the tasks  *)
(* go with the network runtime and the channel closes, so that every        *)
(* command without an answer fails.                                         *)
CancelAll(s) ==
  [s EXCEPT !.contexts = [c \in DOMAIN @ |-> [@[c] EXCEPT !.nav = NoNav]],
            !.control = [c \in DOMAIN @ |-> [@[c] EXCEPT !.nav = 0]],
            !.ended = [n \in DOMAIN @ |->
                         IF \E c \in DOMAIN s.contexts : s.contexts[c].nav.id = n
                         THEN @[n] + 1 ELSE @[n]],
            !.starts = {}]

(* Mutant of OwnerExits: the replies of waiting commands are kept alive. *)
OwnerExitsSilently ==
  /\ Looping /\ queue # <<>> /\ Head(queue).type = "shutdown"
  /\ k' = CancelAll(k)
  /\ queue' = <<>> /\ workers' = {}
  /\ owner' = [at |-> "exit", run |-> NoRun]
  /\ host' = "gone" /\ UNCHANGED <<clients, sent>>

OwnerExits ==
  /\ Looping /\ queue # <<>> /\ Head(queue).type = "shutdown"
  /\ k' = CancelAll(k)
  /\ queue' = <<>> /\ workers' = {}
  /\ owner' = [at |-> "exit", run |-> NoRun]
  /\ clients' = [u \in Client |->
        IF clients[u].at \in {"sent", "waiting"} THEN Answered(clients[u], clients[u].made)
        ELSE clients[u]]
  /\ host' = "gone" /\ UNCHANGED sent

----------------------------------------------------------------------------
(* Clients.  dispatch_command looks up the runtime to interrupt, sends the  *)
(* command without blocking, interrupts, and waits for the answer.          *)
Target(op, c) == IF op \in Interrupting /\ c \in DOMAIN k.control THEN k.control[c].doc ELSE 0

Sent(u, x) ==
  IF Len(queue) < command_capacity /\ owner.at # "exit"
  THEN /\ queue' = Append(queue, [type |-> "command", who |-> u, op |-> x.op,
                                  ctx |-> x.ctx, doc |-> x.doc])
       /\ clients' = [clients EXCEPT ![u] =
            [x EXCEPT !.at = IF x.target = 0 THEN "waiting" ELSE "sent",
                      !.ctx = 0, !.doc = 0]]
  ELSE /\ clients' = [clients EXCEPT ![u] = NoClient]
       /\ UNCHANGED queue

ClientAims(u, op) ==
  /\ clients[u].at = "idle" /\ sent < MaxCommands /\ sent' = sent + 1
  /\ op \in {"navigate", "traverse"} => Promised < MaxNav
  /\ op = "create" => k.ctxs + Cardinality({v \in Client : clients[v].op = "create"}) < MaxContext
  /\ \E c \in IF op = "create" THEN {0} ELSE 1..k.ctxs :
       \E d \in IF op = "evaluate" THEN 1..k.docs ELSE {0} :
         LET x == [at |-> "aimed", op |-> op, ctx |-> c, doc |-> d,
                   target |-> Target(op, c), made |-> 0, done |-> FALSE]
         IN IF x.target = 0 THEN Sent(u, x)
            ELSE clients' = [clients EXCEPT ![u] = x] /\ UNCHANGED queue
  /\ UNCHANGED <<k, workers, owner, host>>

ClientSends(u) ==
  /\ clients[u].at = "aimed"
  /\ Sent(u, clients[u])
  /\ UNCHANGED <<k, workers, owner, sent, host>>

(* Mutant of ClientInterrupts: whatever script runs is stopped. *)
InterruptsAnything(u) ==
  LET x == clients[u] IN
  /\ x.at = "sent"
  /\ owner' = IF owner.at = "script" /\ owner.run.hit = "none"
              THEN [owner EXCEPT !.run.hit = x.op] ELSE owner
  /\ clients' = [clients EXCEPT ![u] =
                   IF x.done THEN NoClient ELSE [x EXCEPT !.at = "waiting", !.target = 0]]
  /\ UNCHANGED <<k, queue, workers, sent, host>>

(* RuntimeInterruptHandle::interrupt stops the script its runtime is       *)
(* running; with none running it does nothing.                             *)
ClientInterrupts(u) ==
  LET x == clients[u] IN
  /\ x.at = "sent"
  /\ owner' = IF owner.at = "script" /\ owner.run.doc = x.target /\ owner.run.hit = "none"
              THEN [owner EXCEPT !.run.hit = x.op] ELSE owner
  /\ clients' = [clients EXCEPT ![u] =
                   IF x.done THEN NoClient ELSE [x EXCEPT !.at = "waiting", !.target = 0]]
  /\ UNCHANGED <<k, queue, workers, sent, host>>

(* The owning handle is dropped: every runtime is interrupted and then a    *)
(* shutdown message is sent, waiting for room.                              *)
HostInterrupts ==
  /\ host = "up" /\ host' = "dropping"
  /\ owner' = IF owner.at = "script" /\ owner.run.hit = "none"
              THEN [owner EXCEPT !.run.hit = "shutdown"] ELSE owner
  /\ UNCHANGED <<k, queue, workers, clients, sent>>

HostSends ==
  /\ host = "dropping" /\ host' = "joining"
  /\ Len(queue) < command_capacity
  /\ queue' = Append(queue, [type |-> "shutdown"])
  /\ UNCHANGED <<k, workers, owner, clients, sent>>

----------------------------------------------------------------------------
(* Workers.  A source load may announce redirects while it runs; a result  *)
(* is sent when the channel has room.                                      *)
WorkerRedirects(w) ==
  /\ w.at = "loading" /\ w.kind = "source" /\ ~w.moved
  /\ Len(queue) < command_capacity
  /\ queue' = Append(queue, [type |-> "progress", ctx |-> w.ctx, nav |-> w.nav])
  /\ workers' = (workers \ {w}) \cup {[w EXCEPT !.moved = TRUE]}
  /\ UNCHANGED <<k, owner, clients, sent, host>>

WorkerSends(w) ==
  /\ w.at = "loading" /\ Len(queue) < command_capacity
  /\ \E ok \in {TRUE, ~LoadsFail} :
       queue' = Append(queue, [type |-> w.kind, ctx |-> w.ctx, nav |-> w.nav,
                               doc |-> w.doc, ok |-> ok])
  /\ workers' = workers \ {w}
  /\ UNCHANGED <<k, owner, clients, sent, host>>

----------------------------------------------------------------------------
CoreInit ==
  /\ k = [contexts |-> <<>>, control |-> <<>>, slots |-> <<>>, active |-> 0,
          pending |-> <<>>, starts |-> {}, ctxs |-> 0, docs |-> 0, navs |-> 0,
          parked |-> {},
          ended |-> [n \in Nav |-> 0], late |-> {}]
  /\ queue = <<>> /\ workers = {}
  /\ owner = [at |-> "loop", run |-> NoRun]
  /\ clients = [u \in Client |-> NoClient]
  /\ sent = 0 /\ host = "up"

Advance(c, n) ==
  \/ AdvanceParse(c, n) \/ AdvanceHosts(c, n) \/ AdvanceImages(c, n)
  \/ AdvanceInline(c, n) \/ AdvanceScripted(c, n) \/ AdvanceLifecycle(c, n)
  \/ AdvanceSettle(c, n)
  \/ \E kind \in External : AdvanceExternal(c, n, kind)

OwnerStep ==
  \/ AdvanceStale \/ SourceLoaded \/ SourceProgress \/ ResourceLoaded
  \/ ExternalScriptLoaded \/ OwnerExits
  \/ \E u \in Client : Dispatch(u)
  \/ \E c \in Ctx, n \in Nav : Advance(c, n)

CoreNext ==
  \/ OwnerStep \/ OwnerScriptEnds
  \/ \E u \in Client : \/ \E op \in Ops[u] : ClientAims(u, op)
                       \/ ClientSends(u) \/ ClientInterrupts(u)
  \/ HostInterrupts \/ HostSends
  \/ \E w \in workers : WorkerRedirects(w) \/ WorkerSends(w)

(* The owner thread runs.  Scripts end because a five-second watchdog ends  *)
(* them, loads because the network has a thirty-second timeout; a client    *)
(* that began a dispatch, or the handle's drop, goes on with it.  Nobody is *)
(* bound to send a command.                                                 *)
CoreFairness ==
  /\ WF_cvars(OwnerStep \/ OwnerScriptEnds)
  /\ WF_cvars(\E w \in workers : WorkerSends(w))
  /\ WF_cvars(HostSends \/ \E u \in Client : ClientSends(u) \/ ClientInterrupts(u))

CoreSpec == CoreInit /\ [][CoreNext]_cvars /\ CoreFairness

----------------------------------------------------------------------------

(* Every navigation the core accepted ends exactly once: while it is the    *)
(* active one of its context it has no terminal event, afterwards it has    *)
(* one, and nothing is said of it after that (finish_navigation and the     *)
(* generation checks before every event).                                   *)
OneTerminal ==
  /\ k.late = {}
  /\ \A n \in 1..k.navs :
       k.ended[n] = IF \E c \in Live : k.contexts[c].nav.id = n THEN 0 ELSE 1

(* An active navigation never waits for nothing.  A worker loads for it, or *)
(* its result is queued, or it has work queued, or its script runs, or the  *)
(* command that interrupted its last quantum is queued and will end it.     *)
(* The one exception is a document over the body limit, which interrupts    *)
(* and is then refused.                                                     *)
NotStranded ==
  \A c \in Live :
    LET n == k.contexts[c].nav.id IN
    n # 0 =>
      \/ \E w \in workers : w.nav = n
      \/ \E m \in ToSet(queue) :
           \/ m.type \in {"source"} \cup External /\ m.nav = n
           \/ m.type = "command" /\ m.op \in Ending /\ m.ctx = c
           \/ m.type = "shutdown"
      \/ k.contexts[c].nav.work # "none" /\ <<c, n>> \in ToSet(k.pending)
      \/ owner.run.nav = n
      \/ host = "dropping"
      \/ <<n, "oversized">> \in k.parked

(* What a document shows was loaded for it: a sheet, image or script that   *)
(* arrives late, for a replaced document or a superseded navigation, is not *)
(* applied (the keys checked on completion).  Its runtime is the one in its *)
(* slot, that slot is active and no other is, and the registry clients      *)
(* interrupt through names the same runtime and navigation (create, commit, *)
(* close and prune).                                                        *)
AppliedToOwn ==
  /\ DOMAIN k.control = Live
  /\ \A c \in Live :
       LET x == k.contexts[c] IN
       /\ x.applied \subseteq {x.doc}
       /\ x.slot \in DOMAIN k.slots
       /\ k.slots[x.slot] = [doc |-> x.doc, active |-> TRUE]
       /\ k.control[c] = [doc |-> x.doc, nav |-> x.nav.id]
  /\ Cardinality({i \in DOMAIN k.slots : k.slots[i].active}) = Cardinality(Live)

(* The interrupt of a command never stops a script of the navigation that   *)
(* the command itself began: the runtime is looked up before the command is *)
(* queued (dispatch_command).                                               *)
StrikesOwn(u) ==
  /\ clients[u].at = "sent" /\ clients'[u].at # "sent"
  /\ owner.run.hit = "none" /\ owner'.run.hit # "none"
  /\ owner.run.nav # 0 /\ owner.run.nav = clients[u].made
OwnWorkSurvives == [][\A u \in Client : ~StrikesOwn(u)]_cvars

(* Once clients stop sending, every command has been answered, also across  *)
(* a shutdown, and every accepted navigation has ended.  Two exceptions are *)
(* real: a navigation that a script asked for begins in the settling        *)
(* quantum, which lets no worker go, so it waits for the next command or    *)
(* document; and one whose last quantum was interrupted by a refused        *)
(* command.                                                                 *)
EverythingEnds ==
  <>[](/\ \A u \in Client : clients[u] = NoClient
       /\ \A n \in 1..k.navs : \/ k.ended[n] > 0 \/ n \in k.starts
                                \/ <<n, "oversized">> \in k.parked)
=============================================================================
