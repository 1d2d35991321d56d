------------------------------- MODULE CdpNav -------------------------------
(***************************************************************************)
(* The automation server of vixen-cdp: socket connections whose requests   *)
(* start navigations of the engine, and the bookkeeping that decides which *)
(* navigation's outcome answers which request.                             *)
(*                                                                         *)
(* All connections share one CdpState on one thread; they take turns at    *)
(* the awaits of handle_connection.  The engine runs on its own thread and *)
(* tells the server what happened through a bounded queue of events, which *)
(* drops the oldest event when it is full and says so once.                *)
(*                                                                         *)
(* `s' is the engine as the server sees it together with the CdpState,     *)
(* `conns' the sockets with their pending operations, `turn' the poll that *)
(* is under way.                                                           *)
(***************************************************************************)
EXTENDS Integers, FiniteSets, Sequences, SequencesExt, TLC

CONSTANTS
    Conn,                           \* socket connections
    Ops,                            \* the requests each of them sends
    MAX_PENDING_CORE_NAVIGATIONS,   \* outcomes kept
    MAX_PENDING_SOCKET_NAVIGATIONS, \* operations of one connection
    EventCapacity,                  \* of the event queue
    MaxContext, MaxNav, MaxRequests \* bounds of the model

ASSUME CdpAssumption ==
    /\ MAX_PENDING_CORE_NAVIGATIONS \in Nat \ {0}
    /\ MAX_PENDING_SOCKET_NAVIGATIONS \in Nat \ {0}
    /\ EventCapacity \in Nat \ {0}
    /\ MaxContext \in Nat \ {0} /\ MaxNav \in Nat
    /\ MaxRequests \in Nat

VARIABLES s, conns, turn, asked

vars == <<s, conns, turn, asked>>

Context == 1 .. MaxContext
NavId == 1 .. MaxNav
Over == {"settled", "failed", "cancelled"}

-----------------------------------------------------------------------------
(* The engine: events, navigations, commands.                              *)

Event(kind, c, n, p) == [kind |-> kind, ctx |-> c, nav |-> n, pred |-> p]

(* A full queue drops its oldest event and remembers that it did.          *)
Push(t, e) ==
    IF Len(t.events) = EventCapacity
    THEN [t EXCEPT !.events = Append(Tail(@), e), !.lagged = TRUE, !.lost = TRUE]
    ELSE [t EXCEPT !.events = Append(@, e)]

Ends(t, n, how) ==
    LET c == t.nav[n].ctx
    IN  Push([t EXCEPT !.nav[n].stage = how, !.active[c] = 0, !.held = @ \ {n}],
             Event(how, c, n, 0))

CancelActive(t, c) ==
    IF t.active[c] = 0 THEN t ELSE Ends(t, t.active[c], "cancelled")

(* A navigation begun supersedes the one under way.  Its load is held back *)
(* until the engine has handled the message it belongs to.                 *)
Begin(t, c, pred) ==
    LET u == CancelActive(t, c)
        n == Len(u.nav) + 1
    IN  Push([u EXCEPT !.nav = Append(@, [ctx |-> c, pred |-> pred,
                                          stage |-> "loading", committed |-> FALSE]),
                       !.active[c] = n, !.held = @ \cup {n}],
             Event("requested", c, n, pred))

(* The navigations a script asked for, each naming the one before it.      *)
Actions(t, c, pred, count) ==
    IF count = 0 THEN t
    ELSE LET u == Begin(t, c, pred)
         IN  IF count = 1 THEN u ELSE Begin(u, c, Len(u.nav))

Release(t) == [t EXCEPT !.held = {}]

(* A command the engine refuses still releases what was held back.         *)
Stop(t, c) == Release(IF c \in t.open THEN CancelActive(t, c) ELSE t)

Close(t, c) ==
    Release(IF c \in t.open
            THEN [CancelActive(t, c) EXCEPT !.open = @ \ {c}] ELSE t)

Created(t) == t.made + 1

Create(t) ==
    Release([t EXCEPT !.made = @ + 1, !.open = @ \cup {Created(t)}])

RoomFor(count) == Len(s.nav) + count <= MaxNav

Commits(n) ==
    /\ s.nav[n].stage = "loading" /\ n \notin s.held
    /\ s' = Release(Push([s EXCEPT !.nav[n].stage = "committed",
                                   !.nav[n].committed = TRUE],
                         Event("committed", s.nav[n].ctx, n, 0)))

Fails(n) ==
    /\ s.nav[n].stage \in {"loading", "committed"} /\ n \notin s.held
    /\ s' = Release(Ends(s, n, "failed"))

(* Lifecycle scripts run last: the navigation settles, and what they asked *)
(* for begins without being released.                                      *)
Settles(n, count) ==
    /\ s.nav[n].stage = "committed"
    /\ RoomFor(count)
    /\ s' = Actions(Ends(s, n, "settled"), s.nav[n].ctx, n, count)

EngineStep ==
    /\ \E n \in DOMAIN s.nav :
         \/ Commits(n)
         \/ Fails(n)
         \/ \E count \in 0 .. 2 : Settles(n, count)
    /\ UNCHANGED <<conns, turn, asked>>

(* The embedding host drives the same engine through its own handle.       *)
HostActs(c) ==
    /\ c \in s.open
    /\ asked < MaxRequests /\ asked' = asked + 1
    /\ UNCHANGED <<conns, turn>>

HostNavigates(c) == HostActs(c) /\ RoomFor(1) /\ s' = Release(Begin(s, c, 0))

HostCloses(c) == HostActs(c) /\ s' = Close(s, c)

-----------------------------------------------------------------------------
(* What the server records of the events.                                  *)

Entry(p, e) ==
    IF e.nav \in DOMAIN p THEN p[e.nav]
    ELSE [ctx |-> e.ctx, pred |-> 0, committed |-> FALSE, terminal |-> "none",
          claimed |-> FALSE, abandoned |-> FALSE]

With(p, n, entry) == (n :> entry) @@ p

Restricted(p, keep) == [n \in DOMAIN p \cap keep |-> p[n]]

Prunable(p) ==
    {n \in DOMAIN p : /\ p[n].terminal # "none"
                      /\ ~p[n].claimed \/ p[n].abandoned}

Prune(p) ==
    LET over == Cardinality(DOMAIN p) - MAX_PENDING_CORE_NAVIGATIONS
        gone == {n \in Prunable(p) :
                   Cardinality({m \in Prunable(p) : m <= n}) <= over}
    IN  Restricted(p, DOMAIN p \ gone)

Recorded(p, e) ==
    LET entry == Entry(p, e)
    IN  With(p, e.nav,
             CASE e.kind = "requested" -> [entry EXCEPT !.pred = e.pred]
               [] e.kind = "committed" -> [entry EXCEPT !.committed = TRUE]
               [] e.kind = "settled"   -> [entry EXCEPT !.terminal = "ok"]
               [] OTHER                -> [entry EXCEPT !.terminal = "err"])

Record(t, e) == [t EXCEPT !.pending = Prune(Recorded(t.pending, e))]

(* The pump reads every event, or finds that some were dropped and reads   *)
(* none.                                                                   *)
Pump(t) ==
    IF t.lagged THEN [t EXCEPT !.lagged = FALSE]
    ELSE [FoldLeft(Record, t, t.events) EXCEPT !.events = <<>>]

-----------------------------------------------------------------------------
(* Presentations and targets.  The settings of the context being served    *)
(* are in the server itself (`setting' stands for all of them), those of   *)
(* the others in `presented'.                                              *)

Store(t) ==
    IF t.shown = 0 THEN t
    ELSE [t EXCEPT !.presented = With(@, t.shown, t.setting)]

Load(t, c) ==
    LET u == Store(t)
        own == IF c \in DOMAIN u.presented THEN u.presented[c] ELSE FALSE
    IN  [u EXCEPT !.presented = With(@, c, own), !.setting = own, !.shown = c]

Prepare(t, c) == [Load(t, c) EXCEPT !.at = c]

FirstTarget(targets) ==
    IF targets = {} THEN 0 ELSE CHOOSE c \in targets : \A d \in targets : c <= d

(* A target whose first navigation failed is closed and forgotten, with    *)
(* every outcome recorded for its context.                                 *)
RemoveFailed(t, c) ==
    LET u == Pump(Close(t, c))
        left == u.targets \ {c}
        v == [u EXCEPT
                !.targets = left,
                !.presented = Restricted(@, DOMAIN @ \ {c}),
                !.pending = Restricted(@, {n \in DOMAIN u.pending : u.pending[n].ctx # c}),
                !.at = IF @ \in {0, c} THEN FirstTarget(left) ELSE @,
                !.shown = IF @ = c THEN 0 ELSE @]
    IN  IF v.shown = 0 /\ v.at # 0 THEN Load(v, v.at) ELSE v

-----------------------------------------------------------------------------
(* Operations.                                                             *)

Operation(c, ids, what) == [ctx |-> c, ids |-> ids, what |-> what]

Claim(p, n, c) ==
    With(p, n, [Entry(p, Event("claim", c, n, 0)) EXCEPT !.claimed = TRUE])

Claims(t, ids, c) ==
    [t EXCEPT !.pending = Prune(FoldLeft(LAMBDA p, n : Claim(p, n, c), @, ids))]

Terminal(p, n) == n \in DOMAIN p /\ p[n].terminal # "none"

Successors(p, c, before) ==
    {n \in DOMAIN p : p[n].ctx = c /\ p[n].pred \in before}

ChainOfContext(p, c, n) ==
    LET free == {k \in DOMAIN p : k > n /\ p[k].ctx = c /\ ~p[k].claimed}
    IN  IF free = {} THEN <<>>
        ELSE <<CHOOSE k \in free : \A j \in free : k <= j>>

(* The unclaimed successors of n, up to the first that is still under way. *)
Chain(p, c, n) ==
    LET next[m \in NavId] ==
          LET after == {k \in Successors(p, c, {m}) : k > m}
              k == CHOOSE k \in after : \A j \in after : k <= j
          IN  IF after = {} THEN <<>>
              ELSE IF p[k].claimed THEN <<>>
              ELSE IF Terminal(p, k) THEN <<k>> \o next[k] ELSE <<k>>
    IN  next[n]

AdoptQuietly(t, op) ==
    LET over == \A i \in DOMAIN op.ids : Terminal(t.pending, op.ids[i])
        chain == IF over THEN Chain(t.pending, op.ctx, Last(op.ids)) ELSE <<>>
        room == MAX_PENDING_CORE_NAVIGATIONS - Len(op.ids)
        ids == IF Len(chain) <= room THEN chain
               ELSE SubSeq(chain, 1, IF room < 0 THEN 0 ELSE room)
        u == [t EXCEPT !.pending = FoldLeft(LAMBDA p, n : Claim(p, n, op.ctx), @, ids)]
    IN  [s |-> u,
         op |-> [op EXCEPT !.ids = @ \o ids],
         err |-> Len(ids) < Len(chain)]

(* An operation whose navigations are all over goes on with the one the    *)
(* last of them led to.  A successor still held back is released by asking *)
(* the engine anything.                                                    *)
Adopt(t, op) ==
    LET over == \A i \in DOMAIN op.ids : Terminal(t.pending, op.ids[i])
        chain == IF over THEN Chain(t.pending, op.ctx, Last(op.ids)) ELSE <<>>
        room == MAX_PENDING_CORE_NAVIGATIONS - Len(op.ids)
        ids == IF Len(chain) <= room THEN chain
               ELSE SubSeq(chain, 1, IF room < 0 THEN 0 ELSE room)
        u == [t EXCEPT !.pending = FoldLeft(LAMBDA p, n : Claim(p, n, op.ctx), @, ids)]
        waits == ids # <<>> /\ ~Terminal(t.pending, Last(ids))
    IN  [s |-> IF waits THEN Release(u) ELSE u,
         op |-> [op EXCEPT !.ids = @ \o ids],
         err |-> Len(ids) < Len(chain)]

AbandonOrDrop(p, n) ==
    IF n \notin DOMAIN p THEN p
    ELSE IF Terminal(p, n) THEN Restricted(p, DOMAIN p \ {n})
    ELSE IF p[n].claimed THEN With(p, n, [p[n] EXCEPT !.abandoned = TRUE]) ELSE p

(* Giving up: stop the context, claim what the operation led to, drop the  *)
(* outcomes that are in and leave a claimed tombstone for the others.      *)
CancelAndConsume(t, op) ==
    LET u == Pump(Stop(t, op.ctx))
        p == u.pending
        own == {op.ids[i] : i \in DOMAIN op.ids}
        led[n \in NavId] == \/ n \in own
                            \/ /\ n \in DOMAIN p
                               /\ p[n].ctx = op.ctx /\ ~p[n].claimed
                               /\ p[n].pred \in NavId /\ p[n].pred < n
                               /\ led[p[n].pred]
        ids == SetToSortSeq({n \in NavId : led[n]}, <)
        v == [u EXCEPT !.pending =
                FoldLeft(LAMBDA q, n : AbandonOrDrop(q, n),
                         FoldLeft(LAMBDA q, n : IF n \in DOMAIN q /\ n \notin own
                                                THEN Claim(q, n, op.ctx) ELSE q,
                                  p, ids),
                         ids)]
        w == IF op.what = "create" THEN RemoveFailed(v, op.ctx) ELSE v
    IN  [w EXCEPT !.pending = Prune(@)]

-----------------------------------------------------------------------------
(* Requests.  Each is handled whole; the connection polls before it reads  *)
(* its next message.                                                       *)

Idle ==
    [conn |-> "none", left |-> 0, error |-> FALSE, at |-> "idle",
     ok |-> FALSE, committed |-> FALSE, taken |-> FALSE]

ReceivesRequest(c, what) ==
    /\ turn = Idle /\ conns[c].open /\ ~conns[c].polls
    /\ what \in Ops[c]
    /\ asked < MaxRequests /\ asked' = asked + 1
    /\ UNCHANGED turn

Refuses(c, t) ==
    /\ s' = t
    /\ conns' = [conns EXCEPT ![c].polls = TRUE]

(* An operation started when the connection has too many of them has       *)
(* already navigated; it is cancelled again.                               *)
Started(c, t, op) ==
    LET u == Store(Claims(t, op.ids, op.ctx))
    IN  IF Len(conns[c].ops) >= MAX_PENDING_SOCKET_NAVIGATIONS
        THEN Refuses(c, CancelAndConsume(u, op))
        ELSE /\ s' = u
             /\ conns' = [conns EXCEPT ![c].ops = Append(@, op), ![c].polls = TRUE]

(* Page.navigate, Page.reload, Page.navigateToHistoryEntry.                *)
PageNavigates(c, target) ==
    /\ ReceivesRequest(c, "page")
    /\ target \in s.targets
    /\ LET t == Prepare(s, target)
           u == Begin(Pump(Release(t)), target, 0)
       IN  IF target \notin s.open THEN Refuses(c, Release(t))
           ELSE /\ RoomFor(1)
                /\ Started(c, Release(u), Operation(target, <<Len(u.nav)>>, "page"))

(* Runtime.evaluate and the input and DOM methods: the script's own        *)
(* navigations are those of the operation.                                 *)
Evaluates(c, target, count) ==
    /\ ReceivesRequest(c, "evaluate")
    /\ target \in s.targets
    /\ LET t == Release(Prepare(s, target))
           u == Release(Actions(t, target, 0, count))
           ids == [i \in 1 .. count |-> Len(t.nav) + i]
       IN  IF target \notin s.open THEN Refuses(c, Store(t))
           ELSE /\ RoomFor(count)
                /\ IF count = 0 THEN Refuses(c, Store(u))
                   ELSE Started(c, u, Operation(target, ids, "evaluate"))

(* Target.createTarget.  A blank target is answered at once; one whose URL *)
(* the engine refuses is removed again.                                    *)
CreatesTarget(c, url) ==
    /\ ReceivesRequest(c, "create")
    /\ s.made < MaxContext
    /\ LET n == Created(s)
           first == FirstTarget(s.targets)
           t == Create(IF first = 0 THEN s ELSE Prepare(s, first))
           u == Pump(Prepare([t EXCEPT !.targets = @ \cup {n},
                                       !.presented = With(@, n, FALSE)], n))
           v == Begin(u, n, 0)
       IN  \/ url = "blank" /\ Refuses(c, Store(u))
           \/ url = "refused" /\ Refuses(c, RemoveFailed(u, n))
           \/ /\ url = "page" /\ RoomFor(1)
              /\ Started(c, Release(v), Operation(n, <<Len(v.nav)>>, "create"))

(* Target.closeTarget: the events of the close are read before the         *)
(* presentation goes.                                                      *)
Forgotten(t, target) ==
    [t EXCEPT !.targets = @ \ {target}, 
              !.presented = Restricted(@, DOMAIN @ \ {target}),
              !.shown = IF @ = target THEN 0 ELSE @]

ClosedTarget(t, target) == Forgotten(Pump(Close(t, target)), target)

ClosesTarget(c, target) ==
    /\ ReceivesRequest(c, "close")
    /\ target \in s.targets
    /\ LET first == FirstTarget(s.targets)
           t == Prepare(s, first)
       IN  Refuses(c, Store(IF target \in s.open THEN ClosedTarget(t, target)
                            ELSE Release(t)))

(* Runtime.enable and the other requests that change a setting.            *)
Enables(c, target) ==
    /\ ReceivesRequest(c, "enable")
    /\ target \in s.targets
    /\ Refuses(c, Store([Prepare(s, target) EXCEPT !.setting = TRUE,
                                                   !.wanted = @ \cup {target}]))

(* Page.stopLoading.                                                       *)
StopsLoading(c, target) ==
    /\ ReceivesRequest(c, "stop")
    /\ target \in s.targets
    /\ Refuses(c, Store(Stop(Prepare(s, target), target)))

-----------------------------------------------------------------------------
(* Polling the operations of a connection, after a message or on the tick. *)

Polls(c) ==
    /\ turn = Idle /\ conns[c].open
    /\ conns[c].polls \/ conns[c].ops # <<>>
    /\ s' = Pump(s)
    /\ conns' = [conns EXCEPT ![c].polls = FALSE]
    /\ turn' = IF conns[c].ops = <<>> THEN Idle
               ELSE [Idle EXCEPT !.conn = c, !.left = Len(conns[c].ops),
                                 !.error = s.lagged, !.at = "look"]
    /\ UNCHANGED asked

AllTerminal(p, ids) ==
    \A i \in DOMAIN ids : Terminal(p, ids[i]) /\ p[ids[i]].claimed

OutcomeOfFirst(p, ids) == p[Head(ids)]

(* The outcome of the last navigation is the operation's.                  *)
Outcome(p, ids) == p[Last(ids)]

Taken(p, ids) == Restricted(p, DOMAIN p \ {ids[i] : i \in DOMAIN ids})

(* What becomes of the operation: given up, answered with its last         *)
(* navigation's outcome, given up at its deadline (`late': its              *)
(* NAVIGATION_WAIT_TIMEOUT may be over at any poll), or kept.              *)
Decides(t, op, err, late) ==
    LET c == turn.conn
        rest == Tail(conns[c].ops)
        finish == [turn EXCEPT !.at = "finish"]
    IN  IF ~err /\ AllTerminal(t.pending, op.ids)
        THEN /\ s' = [t EXCEPT !.pending = Taken(@, op.ids)]
             /\ conns' = [conns EXCEPT ![c].ops = <<op>> \o rest]
             /\ turn' = [finish EXCEPT !.ok = Outcome(t.pending, op.ids).terminal = "ok",
                                       !.committed = Outcome(t.pending, op.ids).committed,
                                       !.taken = TRUE]
        ELSE IF err \/ late
        THEN /\ s' = CancelAndConsume(t, op)
             /\ conns' = [conns EXCEPT ![c].ops = <<op>> \o rest]
             /\ turn' = [finish EXCEPT !.ok = FALSE, !.committed = FALSE, !.taken = FALSE]
        ELSE /\ s' = t
             /\ conns' = [conns EXCEPT ![c].ops = Append(rest, op)]
             /\ turn' = IF turn.left = 1 THEN Idle
                        ELSE [turn EXCEPT !.left = @ - 1, !.at = "look"]

Looks ==
    /\ turn.at = "look"
    /\ LET a == Adopt(s, Head(conns[turn.conn].ops))
       IN  IF ~turn.error /\ ~a.err /\ AllTerminal(a.s.pending, a.op.ids)
           THEN /\ s' = a.s
                /\ conns' = [conns EXCEPT ![turn.conn].ops = <<a.op>> \o Tail(@)]
                /\ turn' = [turn EXCEPT !.at = "confirm"]
           ELSE \E late \in BOOLEAN : Decides(a.s, a.op, turn.error \/ a.err, late)
    /\ UNCHANGED asked

(* Before an outcome is taken the engine is asked for the context's state: *)
(* whatever it did by then is in the events read next.                     *)
Confirms ==
    /\ turn.at = "confirm"
    /\ LET op == Head(conns[turn.conn].ops)
           t == Pump(Release(s))
           a == Adopt(t, op)
       IN  IF op.ctx \notin s.open THEN Decides(Release(s), op, TRUE, FALSE)
           ELSE IF s.lagged THEN Decides(t, op, TRUE, FALSE)
           ELSE \E late \in BOOLEAN : Decides(a.s, a.op, a.err, late)
    /\ UNCHANGED asked

(* finish_page_navigate and its kin render the answer.                     *)
Finishes ==
    /\ turn.at = "finish"
    /\ LET c == turn.conn
           op == Head(conns[c].ops)
           t == IF op.ctx \in DOMAIN s.presented THEN Prepare(s, op.ctx) ELSE s
           alive == op.ctx \in s.open
           ok == turn.ok /\ (alive \/ op.what = "evaluate")
           u == IF op.what = "create" /\ ~ok THEN RemoveFailed(t, op.ctx) ELSE Release(t)
       IN  /\ s' = Store(u)
           /\ conns' = [conns EXCEPT ![c].ops = Tail(@)]
           /\ turn' = IF turn.left = 1 THEN Idle
                      ELSE [turn EXCEPT !.left = @ - 1, !.at = "look",
                                        !.ok = FALSE, !.committed = FALSE, !.taken = FALSE]
    /\ UNCHANGED asked

PollStep == Looks \/ Confirms \/ Finishes

(* A connection that ends gives up all its operations.                     *)
GivesUp(t, op) ==
    LET a == Adopt(t, op) IN CancelAndConsume(a.s, a.op)

Disconnects(c) ==
    /\ turn = Idle /\ conns[c].open
    /\ "disconnect" \in Ops[c]
    /\ s' = Pump(FoldLeft(GivesUp, Pump(s), conns[c].ops))
    /\ conns' = [conns EXCEPT ![c] = [open |-> FALSE, polls |-> FALSE, ops |-> <<>>]]
    /\ UNCHANGED <<turn, asked>>

-----------------------------------------------------------------------------
CdpInit ==
    /\ s = [open |-> {1}, made |-> 1, active |-> [c \in Context |-> 0], nav |-> <<>>,
            held |-> {}, events |-> <<>>, lagged |-> FALSE, lost |-> FALSE,
            pending |-> <<>>, targets |-> {1}, presented |-> <<FALSE>>, shown |-> 1, at |-> 1,
            setting |-> FALSE, wanted |-> {}]
    /\ conns = [c \in Conn |-> [open |-> TRUE, polls |-> FALSE, ops |-> <<>>]]
    /\ turn = Idle
    /\ asked = 0

Requests(c) ==
    \/ \E target \in Context :
         \/ PageNavigates(c, target)
         \/ \E count \in 0 .. 2 : Evaluates(c, target, count)
         \/ ClosesTarget(c, target)
         \/ StopsLoading(c, target)
         \/ Enables(c, target)
    \/ \E url \in {"blank", "refused", "page"} : CreatesTarget(c, url)

CdpNext ==
    \/ EngineStep
    \/ \E c \in Context : HostNavigates(c) \/ HostCloses(c)
    \/ \E c \in Conn : Requests(c) \/ Polls(c) \/ Disconnects(c)
    \/ PollStep

(* The engine works through what it loads, the poll of every connection    *)
(* gets its turn (the tasks of one thread are scheduled in order, so this  *)
(* is strong fairness), and a poll that has begun does not wait.  No       *)
(* deadline is promised to pass.  The enabling conditions are written out. *)
Loading == \E n \in DOMAIN s.nav : s.nav[n].stage \notin Over /\ n \notin s.held

Ticking(c) == turn = Idle /\ conns[c].open /\ (conns[c].polls \/ conns[c].ops # <<>>)

CdpFairness ==
    /\ []<>~Loading \/ []<><<EngineStep>>_vars
    /\ \A c \in Conn : <>[]~Ticking(c) \/ []<><<Polls(c)>>_vars
    /\ []<>(turn = Idle) \/ []<><<PollStep>>_vars

CdpSpec == CdpInit /\ [][CdpNext]_vars /\ CdpFairness

-----------------------------------------------------------------------------

(* The operations whose outcome is not decided yet.                        *)
Live ==
    UNION {{<<c, i>> : i \in {j \in DOMAIN conns[c].ops :
                                ~(turn.at = "finish" /\ turn.conn = c /\ j = 1)}} :
           c \in Conn}

OpAt(x) == conns[x[1]].ops[x[2]]

Ids(op) == {op.ids[i] : i \in DOMAIN op.ids}

(* An operation follows only navigations it led to: those its command      *)
(* began, and then the successor of each, never one the host or another    *)
(* connection began in the same context.  No navigation answers two        *)
(* requests: operations hold disjoint sets of navigations, and those still *)
(* recorded are not given up and, unless events were lost, claimed.  A     *)
(* setting made for one target holds for that target and no other, however *)
(* the requests and answers of the connections alternate.                  *)
FollowsItsOwn ==
    /\ \A x \in Live :
         LET op == OpAt(x)
         IN  \A i \in 2 .. Len(op.ids) : s.nav[op.ids[i]].pred = op.ids[i - 1]
    /\ \A x, y \in Live : x # y => Ids(OpAt(x)) \cap Ids(OpAt(y)) = {}
    /\ \A x \in Live : \A n \in Ids(OpAt(x)) \cap DOMAIN s.pending :
         ~s.pending[n].abandoned /\ (s.pending[n].claimed \/ s.lost)
    /\ \A c \in s.targets :
         LET own == IF s.shown = c THEN s.setting
                    ELSE IF c \in DOMAIN s.presented THEN s.presented[c] ELSE FALSE
         IN  own <=> c \in s.wanted

(* An answer tells what the engine did to the operation's last navigation: *)
(* success only if it settled, failure only if it did not, and a document  *)
(* reported as new only if it was committed (with no event lost: exactly   *)
(* if it was).  A target whose creation succeeded is still one of the      *)
(* targets, though other connections may close targets: the lookup that    *)
(* would otherwise end the server finds it.                                *)
AnswersAreTrue ==
    turn.at = "finish" =>
      LET op == Head(conns[turn.conn].ops)
          n  == s.nav[Last(op.ids)]
      IN  /\ turn.taken => /\ turn.ok <=> n.stage = "settled"
                           /\ turn.committed => n.committed
                           /\ n.committed => turn.committed \/ s.lost
          /\ turn.ok /\ op.what = "create" => op.ctx \in s.targets

(* A request is answered without waiting for its deadline, unless events   *)
(* were lost or its context was removed with the outcomes recorded for it. *)
AnsweredInTime ==
    <>[](\/ s.lost
         \/ \A x \in Live : \E n \in Ids(OpAt(x)) : n \notin DOMAIN s.pending)
=============================================================================
