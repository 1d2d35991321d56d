----------------------------- MODULE RenderSync -----------------------------
(***************************************************************************)
(* How a page's source becomes a displayed frame and how layout answers    *)
(* come back (crates/vixen-ffi/src/{sync_renderer,c_abi,cdp_host}.rs,      *)
(* crates/vixen-api/src/render/{source,commit}.rs and the renderer in      *)
(* vixen_shell/lib/src/renderer).  The engine thread asks for a layout of  *)
(* its current source and waits; the shell's command thread publishes      *)
(* snapshots and drains what the renderer submitted; the automation thread *)
(* may reset the renderer; the renderer stages, submits and presents       *)
(* commits.  They meet in the broker and in one RendererState behind a     *)
(* mutex.                                                                  *)
(*                                                                         *)
(* A section under that mutex is one step: meanwhile the renderer can only *)
(* poll or submit, which commutes with the section, and a shutdown makes   *)
(* every later call fail.  A revision is a document and one generation for *)
(* the four of the code, which rise together or alone but never fall; the  *)
(* state a revision names is the revision.                                 *)
(***************************************************************************)
EXTENDS Integers, Sequences, SequencesExt, FiniteSets

CONSTANTS Capacity, MAX_RECOVERY_ATTEMPTS,
          MaxDoc, MaxCommit, MaxId,   \* bounds
          MaxGen,         \* bound on source generations, one less per document
          MaxWork,        \* bound on shell commands, resets and reveals
          RenderFaults    \* subset of {"stage", "invalid", "deadline"}

ASSUME SyncAssumption ==
  /\ {MAX_RECOVERY_ATTEMPTS, MaxDoc, MaxGen, MaxCommit, MaxWork} \subseteq Nat
  /\ RenderFaults \subseteq {"stage", "invalid", "deadline"}

VARIABLES closed, outbound, pending, submissions, next_request_id, expired,
          sending, answer, call,
          page,    \* the revision of the engine's current source
          rs,      \* RendererState
          core,    \* the engine thread inside ensure_layout or query_text
          shell,   \* the shell's command thread inside vixen_command
          dart,    \* the formatter and its coordinator
          work,    \* shell commands, resets and reveals so far
          calm     \* nothing failed and nobody interfered in core's last call

broker == <<closed, outbound, pending, submissions, next_request_id, expired,
            sending, answer, call>>
svars == <<broker, page, rs, core, shell, dart, work, calm>>

Rev == [doc : 1..MaxDoc, gen : 1..MaxGen]
NoRev == [doc |-> 0, gen |-> 0]
Commit == [id : 1..MaxCommit, rev : Rev, valid : BOOLEAN]
NoCommit == [id |-> 0, rev |-> NoRev, valid |-> TRUE]

Snapshot(r) == [type |-> "full", rev |-> r]
Batch(b, r) == [type |-> "batch", base |-> b, rev |-> r]
Release(c) == [type |-> "release", id |-> c.id]

RenderUpdate ==
  [type : {"full"}, rev : Rev] \cup [type : {"batch"}, base : Rev, rev : Rev]
    \cup [type : {"release"}, id : 1..MaxCommit]
Submitted ==
  [type : {"commit", "presented"}, c : Commit] \cup [type : {"resync"}, c : {NoCommit}]

INSTANCE RenderBroker WITH
  Requester <- {"core", "cdp"}, Kind <- {"layout", "text", "reset"},
  Subject <- Rev \cup Commit, Update <- RenderUpdate, Submission <- Submitted

----------------------------------------------------------------------------
(* RenderCommitState on a RendererState s.                                 *)
Same(a, b) == a.rev.doc = b.rev.doc

(* accept_commit refuses with STALE (the checks of RenderCommit::validate  *)
(* on revision and viewport, then the order of commits).                   *)
StaleCommit(s, c) ==
  \/ s.replica # c.rev
  \/ s.accepted # NoCommit /\ Same(s.accepted, c) /\ c.id <= s.accepted.id

Replaces(s, c) == s.accepted # NoCommit /\ ~ Same(s.accepted, c)


(* What accept_commit releases: both commits of a replaced document, else  *)
(* an accepted commit that was never presented.                            *)
CommitReleases(s, c) ==
  IF Replaces(s, c)
  THEN <<Release(s.accepted)>> \o
       (IF s.presented \in {NoCommit, s.accepted} THEN <<>> ELSE <<Release(s.presented)>>)
  ELSE IF s.accepted \notin {NoCommit, s.presented} THEN <<Release(s.accepted)>> ELSE <<>>

Accepted(s, c) ==
  [s EXCEPT !.accepted = c, !.presented = IF Replaces(s, c) THEN NoCommit ELSE @]

(* accept_presented. *)
StalePresented(s, c) == s.accepted = NoCommit \/ c # s.accepted \/ s.replica # c.rev

PresentedReleases(s) ==
  IF s.presented \in {NoCommit, s.accepted} THEN <<>> ELSE <<Release(s.presented)>>

(* drain_renderer_submissions, one submission: what it queues, the state   *)
(* after it, the commit it accepts, and whether draining goes on.          *)
Handled(s, sub) ==
  CASE sub.type = "commit" /\ StaleCommit(s, sub.c) ->
         [out |-> <<Release(sub.c)>>, s |-> s, got |-> <<>>, bad |-> FALSE]
    [] sub.type = "commit" /\ ~ StaleCommit(s, sub.c) /\ ~ sub.c.valid ->
         [out |-> <<Release(sub.c)>>, s |-> s, got |-> <<>>, bad |-> TRUE]
    [] sub.type = "commit" /\ ~ StaleCommit(s, sub.c) /\ sub.c.valid ->
         [out |-> CommitReleases(s, sub.c), s |-> Accepted(s, sub.c),
          got |-> <<sub.c>>, bad |-> FALSE]
    [] sub.type = "presented" /\ StalePresented(s, sub.c) ->
         [out |-> <<>>, s |-> s, got |-> <<>>, bad |-> FALSE]
    [] sub.type = "presented" /\ ~ StalePresented(s, sub.c) ->
         [out |-> PresentedReleases(s), s |-> [s EXCEPT !.presented = s.accepted],
          got |-> <<>>, bad |-> FALSE]
    [] sub.type = "resync" ->
         [out |-> <<>>, got |-> <<>>, bad |-> FALSE,
          s |-> [s EXCEPT !.needs_resync = TRUE, !.accepted = NoCommit,
                          !.presented = NoCommit]]

AsUpdates(us) == [k \in 1..Len(us) |-> AsUpdate(us[k])]

DrainStep(acc, sub) ==
  LET h == Handled(acc.s, sub)
  IN IF acc.err THEN acc
     ELSE IF ~ UpdatesFit(acc.out, Len(h.out)) THEN [acc EXCEPT !.err = TRUE]
     ELSE [s |-> h.s, out |-> acc.out \o AsUpdates(h.out), n |-> acc.n + 1,
           got |-> acc.got \o h.got, err |-> h.bad]

Drain ==
  IF closed THEN [s |-> rs, out |-> outbound, n |-> 0, got |-> <<>>, err |-> TRUE]
  ELSE FoldLeft(DrainStep,
                [s |-> rs, out |-> outbound, n |-> 0, got |-> <<>>, err |-> FALSE],
                submissions)

Undrained(d) == SubSeq(submissions, d.n + 1, Len(submissions))

----------------------------------------------------------------------------
(* RenderReplica: accept_full_snapshot refuses to fall back within a       *)
(* document.                                                               *)
Regresses(s, r) == s.replica.doc = r.doc /\ r.gen < s.replica.gen

(* publish_renderer_source: the update to queue, or none when the renderer *)
(* has this source.  A batch needs the replica at the last source.         *)
Update(s, r, force) ==
  IF ~ force /\ s.source.doc = r.doc /\ s.source.gen < r.gen /\ s.replica = s.source
  THEN Batch(s.source, r) ELSE Snapshot(r)

Published(s, out, r, force) ==
  LET f == force \/ s.needs_resync
      u == Update(s, r, f)
  IN IF ~ f /\ s.source = r THEN [s |-> [s EXCEPT !.needs_resync = FALSE], out |-> out, err |-> FALSE]
     ELSE IF u.type = "full" /\ Regresses(s, r) THEN [s |-> s, out |-> out, err |-> TRUE]
     ELSE IF closed \/ ~ UpdatesFit(out, 1) THEN [s |-> s, out |-> out, err |-> TRUE]
     ELSE [s |-> [s EXCEPT !.replica = r, !.source = r, !.needs_resync = FALSE],
           out |-> Append(out, AsUpdate(u)), err |-> FALSE]

----------------------------------------------------------------------------
(* The engine.  Scripts change the source and ask for layouts of it; a     *)
(* navigation replaces the document.  Both happen on the engine thread.    *)
CoreIdle == [at |-> "idle", snap |-> NoRev, tries |-> 0, force |-> FALSE,
             commit |-> NoCommit, out |-> "none"]

Mutate ==
  /\ core.at = "idle" /\ page.doc + page.gen <= MaxGen
  /\ page' = [page EXCEPT !.gen = @ + 1]
  /\ UNCHANGED <<broker, rs, core, shell, dart, work, calm>>

Navigate ==
  /\ core.at = "idle" /\ page.doc < MaxDoc
  /\ page' = [doc |-> page.doc + 1, gen |-> 1]
  /\ UNCHANGED <<broker, rs, core, shell, dart, work, calm>>

(* ensure_layout is entered. *)
LayoutBegins ==
  /\ core.at = "idle"
  /\ core' = [CoreIdle EXCEPT !.at = "publish", !.snap = page]
  /\ calm' = TRUE
  /\ UNCHANGED <<broker, page, rs, shell, dart, work>>

Returns(o, c) ==
  core' = [CoreIdle EXCEPT !.out = o, !.commit = c,
                           !.snap = IF o = "error" THEN NoRev ELSE core.snap]

(* Fault: there is no second attempt. *)
RetriesNever ==
  Returns("recovery-failed", NoCommit)

(* The next attempt sends a full snapshot; after the last one ensure_layout*)
(* gives up.                                                               *)
Retries ==
  IF core.tries + 1 >= MAX_RECOVERY_ATTEMPTS
  THEN Returns("recovery-failed", NoCommit)
  ELSE core' = [core EXCEPT !.at = "publish", !.tries = @ + 1, !.force = TRUE]

(* The first locked section of an attempt: drain, return the accepted      *)
(* commit if it is the one wanted, else publish the source.                *)
CorePublishes ==
  LET d == Drain
      f == core.force \/ d.s.needs_resync
      p == Published(d.s, d.out, core.snap, f)
      found == ~ d.s.needs_resync /\ d.s.accepted.rev = core.snap
  IN /\ core.at = "publish"
     /\ submissions' = Undrained(d)
     /\ IF d.err \/ found
        THEN /\ rs' = d.s /\ outbound' = d.out
             /\ IF d.err THEN Returns("error", NoCommit) ELSE Returns("layout", d.s.accepted)
        ELSE /\ rs' = p.s /\ outbound' = p.out
             /\ IF p.err THEN Returns("error", NoCommit)
                ELSE core' = [core EXCEPT !.at = "ask", !.force = f]
     /\ UNCHANGED <<closed, pending, next_request_id, expired, sending, answer,
                    call, page, shell, dart, work, calm>>

CoreAsks ==
  /\ core.at = "ask"
  /\ Register("core", [kind |-> "layout", of |-> core.snap])
  /\ IF call'["core"] = Nobody THEN Returns("error", NoCommit)
     ELSE core' = [core EXCEPT !.at = "wait"]
  /\ UNCHANGED <<page, rs, shell, dart, work, calm>>

CoreReceives ==
  /\ core.at = "wait" /\ Receives("core")
  /\ LET r == answer[call["core"].id]
     IN CASE r.kind = "layout" -> core' = [core EXCEPT !.at = "compare", !.commit = r.commit]
          [] r.kind = "failed" -> Retries
          [] r.kind = "cancelled" -> Returns("cancelled", NoCommit)
  /\ UNCHANGED <<page, rs, shell, dart, work, calm>>

CoreTimesOut ==
  /\ core.at = "wait" /\ SeesDeadline("core") /\ Retries
  /\ UNCHANGED <<page, rs, shell, dart, work, calm>>

(* A command for this page interrupts the script that waits. *)
CoreCancelled ==
  /\ core.at \in {"wait", "text"} /\ SeesCancellation("core")
  /\ Returns("cancelled", NoCommit)
  /\ UNCHANGED <<page, rs, shell, dart, work, calm>>

(* Fault: the answer is believed without looking at the accepted commit. *)
CoreBelieves ==
  LET d == Drain
  IN /\ core.at = "compare"
     /\ submissions' = Undrained(d) /\ rs' = d.s /\ outbound' = d.out
     /\ IF d.err THEN Retries ELSE Returns("layout", core.commit)
     /\ UNCHANGED <<closed, pending, next_request_id, expired, sending, answer,
                    call, page, shell, dart, work, calm>>

(* The second locked section: the answer counts only if it is the commit   *)
(* accepted now.                                                           *)
CoreCompares ==
  LET d == Drain
  IN /\ core.at = "compare"
     /\ submissions' = Undrained(d) /\ rs' = d.s /\ outbound' = d.out
     /\ IF d.err \/ d.s.accepted # core.commit THEN Retries
        ELSE Returns("layout", core.commit)
     /\ UNCHANGED <<closed, pending, next_request_id, expired, sending, answer,
                    call, page, shell, dart, work, calm>>

(* query_text of the commit laid out last: validate_text_query, the        *)
(* request, validate_text_query_result.                                    *)
TextValid(s, c) == s.accepted = c /\ s.replica = c.rev

TextBegins ==
  LET d == Drain
  IN /\ core.at = "idle" /\ core.out = "layout"
     /\ submissions' = Undrained(d) /\ rs' = d.s /\ outbound' = d.out
     /\ IF d.err \/ ~ TextValid(d.s, core.commit) THEN Returns("error", NoCommit)
        ELSE core' = [core EXCEPT !.at = "asktext"]
     /\ UNCHANGED <<closed, pending, next_request_id, expired, sending, answer,
                    call, page, shell, dart, work, calm>>

TextAsks ==
  /\ core.at = "asktext"
  /\ Register("core", [kind |-> "text", of |-> core.commit])
  /\ IF call'["core"] = Nobody THEN Returns("error", NoCommit)
     ELSE core' = [core EXCEPT !.at = "text"]
  /\ UNCHANGED <<page, rs, shell, dart, work, calm>>

TextEnds ==
  /\ core.at = "text"
  /\ \/ /\ Receives("core")
        /\ LET r == answer[call["core"].id]
           IN IF r.kind = "text" /\ TextValid(rs, core.commit) THEN Returns("text", core.commit)
              ELSE Returns("error", NoCommit)
     \/ SeesDeadline("core") /\ Returns("error", NoCommit)
  /\ UNCHANGED <<page, rs, shell, dart, work, calm>>

----------------------------------------------------------------------------
ShellIdle == [at |-> "idle", kind |-> "none", got |-> <<>>, snap |-> NoRev]

(* vixen_command: every command first drains, under the lock.              *)
ShellDrains(kind) ==
  LET d == Drain
  IN /\ shell.at = "idle" /\ work < MaxWork /\ work' = work + 1
     /\ submissions' = Undrained(d) /\ rs' = d.s /\ outbound' = d.out
     /\ shell' = IF d.err THEN shell ELSE [ShellIdle EXCEPT !.at = "apply", !.kind = kind, !.got = d.got]
     /\ UNCHANGED <<closed, pending, next_request_id, expired, sending, answer,
                    call, page, core, dart, calm>>

(* The accepted commits are dispatched to the engine, which answers when   *)
(* no script runs; one that no longer matches its source ends the command. *)
ShellApplies ==
  /\ shell.at = "apply" /\ shell.got # <<>> /\ core.at = "idle"
  /\ shell' = IF Head(shell.got).rev = page THEN [shell EXCEPT !.got = Tail(@)] ELSE ShellIdle
  /\ UNCHANGED <<broker, page, rs, core, dart, work, calm>>

ShellDispatches ==
  /\ shell.at = "apply" /\ shell.got = <<>> /\ core.at = "idle"
  /\ shell' = IF shell.kind = "publish" THEN [shell EXCEPT !.at = "publish", !.snap = page]
              ELSE ShellIdle
  /\ UNCHANGED <<broker, page, rs, core, dart, work, calm>>

(* publish_renderer_source of the snapshot taken, under the lock again. *)
ShellPublishes ==
  LET p == Published(rs, outbound, shell.snap, FALSE)
  IN /\ shell.at = "publish"
     /\ rs' = p.s /\ outbound' = p.out /\ shell' = ShellIdle
     /\ calm' = FALSE
     /\ UNCHANGED <<closed, pending, submissions, next_request_id, expired,
                    sending, answer, call, page, core, dart, work>>

(* reset_renderer of the automation host. *)
CdpAsks ==
  /\ work < MaxWork /\ work' = work + 1
  /\ Register("cdp", [kind |-> "reset", of |-> page])
  /\ calm' = FALSE
  /\ UNCHANGED <<page, rs, core, shell, dart>>

CdpEnds ==
  /\ \/ /\ Receives("cdp")
        /\ rs' = IF answer[call["cdp"].id].kind = "reset"
                 THEN [rs EXCEPT !.replica = NoRev, !.accepted = NoCommit,
                                 !.presented = NoCommit, !.needs_resync = TRUE]
                 ELSE rs
     \/ SeesDeadline("cdp") /\ UNCHANGED rs
  /\ calm' = FALSE
  /\ UNCHANGED <<page, core, shell, dart, work>>

----------------------------------------------------------------------------
(* The renderer.  source, staged and shown are the formatter's _source,    *)
(* _staged and _presented; msg is the message being serviced; ack is the   *)
(* commit whose presentation has been submitted.                           *)
NoMsg == [type |-> "none"]

DartPolls ==
  /\ dart.msg = NoMsg /\ Poll
  /\ dart' = [dart EXCEPT !.msg =
       IF \A k \in 1..Len(outbound) : Dead(outbound[k]) THEN NoMsg
       ELSE LET m == outbound[FirstLive]
            IN IF m.type = "update" THEN m.u
               ELSE [type |-> "request", id |-> m.id, q |-> pending[m.id]]]
  /\ UNCHANGED <<page, rs, core, shell, work, calm>>

(* acceptFullSnapshot of a revision it has, or of an older one: no commit. *)
DartIgnores ==
  /\ dart.msg.type = "full"
  /\ dart.msg.rev = dart.source
       \/ (dart.msg.rev.doc = dart.source.doc /\ dart.msg.rev.gen < dart.source.gen)
  /\ dart' = [dart EXCEPT !.msg = NoMsg]
  /\ UNCHANGED <<broker, page, rs, core, shell, work, calm>>

Stageable ==
  \/ dart.msg.type = "batch" /\ dart.msg.base = dart.source
  \/ /\ dart.msg.type = "full"
     /\ dart.msg.rev.doc = dart.source.doc => dart.msg.rev.gen > dart.source.gen

(* _stageAndPublish: the commit is submitted before it becomes the staged  *)
(* one; when staging or the submission fails nothing changes.              *)
DartStages ==
  /\ Stageable /\ dart.next <= MaxCommit
  /\ \E v \in {TRUE} \cup {FALSE : f \in RenderFaults \cap {"invalid"}} :
       LET c == [id |-> dart.next, rev |-> dart.msg.rev, valid |-> v]
       IN /\ Submit([type |-> "commit", c |-> c])
          /\ dart' = [dart EXCEPT !.source = c.rev, !.staged = c, !.next = @ + 1, !.msg = NoMsg]
          /\ calm' = (v /\ calm)
  /\ UNCHANGED <<page, rs, core, shell, work>>

DartStageFails ==
  /\ Stageable
  /\ "stage" \in RenderFaults \/ closed \/ Len(submissions) >= Capacity
  /\ dart' = [dart EXCEPT !.msg = NoMsg]
  /\ calm' = FALSE
  /\ UNCHANGED <<broker, page, rs, core, shell, work>>

(* applyMutationBatch on another base: the renderer asks for a snapshot. *)
DartResyncs ==
  /\ dart.msg.type = "batch" /\ dart.msg.base # dart.source
  /\ \/ Submit([type |-> "resync", c |-> NoCommit]) /\ UNCHANGED calm
     \/ /\ closed \/ Len(submissions) >= Capacity
        /\ calm' = FALSE /\ UNCHANGED broker
  /\ dart' = [dart EXCEPT !.msg = NoMsg]
  /\ UNCHANGED <<page, rs, core, shell, work>>

Without(c, id) == IF c.id = id THEN NoCommit ELSE c

DartReleases ==
  /\ dart.msg.type = "release"
  /\ dart' = [dart EXCEPT !.staged = Without(@, dart.msg.id),
                          !.shown = Without(@, dart.msg.id), !.msg = NoMsg]
  /\ UNCHANGED <<broker, page, rs, core, shell, work, calm>>

(* The answers of serviceNext. *)
DartAnswer(q) ==
  CASE q.kind = "layout" /\ dart.staged.rev = q.of ->
         [kind |-> "layout", of |-> q.of, commit |-> dart.staged]
    [] q.kind = "text" /\ dart.staged = q.of -> [kind |-> "text", of |-> q.of]
    [] q.kind = "reset" -> [kind |-> "reset", of |-> q.of]
    [] OTHER -> Failed

DartAnswers ==
  /\ dart.msg.type = "request"
  /\ IF dart.msg.id \in DOMAIN pending \ expired
     THEN Respond(dart.msg.id, DartAnswer(dart.msg.q))
     ELSE UNCHANGED broker
  /\ dart' = IF dart.msg.q.kind = "reset"
             THEN [dart EXCEPT !.source = NoRev, !.staged = NoCommit,
                               !.shown = NoCommit, !.msg = NoMsg]
             ELSE [dart EXCEPT !.msg = NoMsg]
  /\ UNCHANGED <<page, rs, core, shell, work, calm>>

(* rendererCommitPresented: the acknowledgement is submitted, and after    *)
(* the shell has flushed it the formatter presents the commit.             *)
DartAcks ==
  /\ dart.staged \notin {NoCommit, dart.shown} /\ dart.ack = NoCommit
  /\ Submit([type |-> "presented", c |-> dart.staged])
  /\ dart' = [dart EXCEPT !.ack = dart.staged]
  /\ UNCHANGED <<page, rs, core, shell, work, calm>>

DartPresents ==
  /\ dart.ack # NoCommit
  /\ dart' = [dart EXCEPT !.ack = NoCommit,
                          !.shown = IF dart.staged = dart.ack THEN dart.ack ELSE @]
  /\ UNCHANGED <<broker, page, rs, core, shell, work, calm>>

(* revealTextMatch: the same source at another scroll offset. *)
DartReveals ==
  /\ dart.staged # NoCommit /\ dart.staged = dart.shown
  /\ dart.next <= MaxCommit /\ work < MaxWork /\ work' = work + 1
  /\ LET c == [dart.staged EXCEPT !.id = dart.next]
     IN /\ Submit([type |-> "commit", c |-> c])
        /\ dart' = [dart EXCEPT !.staged = c, !.next = @ + 1]
  /\ calm' = FALSE
  /\ UNCHANGED <<page, rs, core, shell>>

----------------------------------------------------------------------------
(* The sends outside the broker's lock, the clock, and vixen_destroy.      *)
Delivers ==
  /\ \E s \in sending : Send(s)
  /\ UNCHANGED <<page, rs, core, shell, dart, work, calm>>

Expires ==
  /\ "deadline" \in RenderFaults
  /\ \E t \in {"core", "cdp"} : DeadlinePasses(t)
  /\ calm' = FALSE
  /\ UNCHANGED <<page, rs, core, shell, dart, work>>

Closes ==
  /\ Shutdown /\ calm' = FALSE
  /\ UNCHANGED <<page, rs, core, shell, dart, work>>

SyncInit ==
  /\ BrokerInit
  /\ page = [doc |-> 1, gen |-> 1]
  /\ rs = [replica |-> NoRev, source |-> NoRev, needs_resync |-> FALSE,
           accepted |-> NoCommit, presented |-> NoCommit]
  /\ core = CoreIdle /\ shell = ShellIdle
  /\ dart = [source |-> NoRev, staged |-> NoCommit, shown |-> NoCommit, next |-> 1,
             msg |-> NoMsg, ack |-> NoCommit]
  /\ work = 0 /\ calm = TRUE

CoreSteps ==
  \/ CorePublishes \/ CoreAsks \/ CoreReceives \/ CoreTimesOut \/ CoreCompares
  \/ TextAsks \/ TextEnds
DartSteps ==
  \/ DartPolls \/ DartIgnores \/ DartStages \/ DartStageFails \/ DartResyncs
  \/ DartReleases \/ DartAnswers

SyncNext ==
  \/ Mutate \/ Navigate \/ LayoutBegins \/ TextBegins \/ CoreCancelled
  \/ CoreSteps
  \/ \E k \in {"flush", "publish"} : ShellDrains(k)
  \/ ShellApplies \/ ShellDispatches \/ ShellPublishes
  \/ CdpAsks \/ CdpEnds
  \/ DartSteps \/ DartAcks \/ DartPresents \/ DartReveals
  \/ Delivers \/ Expires \/ Closes

SyncSpec == SyncInit /\ [][SyncNext]_svars

----------------------------------------------------------------------------
(* Types of the shared state, and the bound on the updates queued by
   draining and publishing. *)

(* ensure_layout against commits of other threads' revisions, resyncs,     *)
(* resets and reveals: when it returns a layout, that is of exactly the    *)
(* revision the script asked for, and it is the commit that text queries   *)
(* and presentation will be checked against.                               *)
LayoutExact ==
  [][core.at \in {"publish", "compare"} /\ core'.out = "layout" =>
       core'.commit.rev = core.snap /\ core'.commit = rs'.accepted]_svars

Releasing ==
  {outbound[k].u.id : k \in {j \in 1..Len(outbound) :
     outbound[j].type = "update" /\ outbound[j].u.type = "release"}}
  \cup (IF dart.msg.type = "release" THEN {dart.msg.id} ELSE {})


(* MAX_RECOVERY_ATTEMPTS is enough, whatever earlier failures left behind: *)
(* when nothing fails and nobody else publishes, resets or reveals during  *)
(* the call, ensure_layout gives up only on a renderer that already has    *)
(* the revision but whose commit of it the bridge does not hold.  A full   *)
(* snapshot of a revision it has makes the renderer submit nothing.        *)
RecoversUnlessOrphaned ==
  core.at = "idle" /\ core.out = "recovery-failed" /\ calm =>
    dart.source = core.snap /\ (dart.staged = NoCommit \/ dart.staged # rs.accepted)

=============================================================================
