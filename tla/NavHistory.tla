---------------------------- MODULE NavHistory ----------------------------
(* The session history of a browsing context and the document it shows     *)
(* (history.rs, and the commands and script actions of browser.rs that     *)
(* change it).  A load carries the history it will install: none of its    *)
(* own (push, replace) or a copy taken when it was asked for (preserve).   *)
(* Script asks for several changes in one job; they are prepared against a *)
(* simulated history and applied together when all of them are legal.      *)
(* Titles, state blobs and scroll offsets are left out; an entry says      *)
(* whether it has a state blob, which is what traversal looks at.          *)
EXTENDS Integers, Sequences, SequencesExt

CONSTANTS
    Url,         \* URLs, without "about:blank"
    OriginOf,    \* URL -> origin
    MaxBatch,    \* bound: history and navigation actions of one script job
    MaxEntries,  \* bound: length of the history
    MaxDocs      \* bound: documents loaded

ASSUME HistoryAssumption == "about:blank" \notin Url

VARIABLES
    doc,       \* the document: its number and the URL it was loaded from
    url,       \* the page's URL
    history,   \* [entries, cursor]; entries count from 1
    active     \* the navigation in progress, or NoLoad

hvars == <<doc, url, history, active>>

OriginAt(u) == IF u = "about:blank" THEN u ELSE OriginOf[u]

NoLoad == [update |-> "none"]

Entry(u, state) == [url |-> u, state |-> state]
Current(h) == h.entries[h.cursor]

push(h, e) == [entries |-> Append(SubSeq(h.entries, 1, h.cursor), e), cursor |-> h.cursor + 1]
replace(h, e) == [entries |-> [h.entries EXCEPT ![h.cursor] = e], cursor |-> h.cursor]
CanGo(h, delta) == h.cursor + delta \in 1..Len(h.entries)
go(h, delta) == [entries |-> h.entries, cursor |-> h.cursor + delta]

----------------------------------------------------------------------------
(* Loads. *)

\* Only a load that preserves carries a history.
Loading(update, u)   == [update |-> update, url |-> u, injected |-> FALSE]
Preserving(h)        == [update |-> "preserve", url |-> Current(h).url, injected |-> FALSE, history |-> h]
Injecting(h)         == [Preserving(h) EXCEPT !.injected = TRUE]

HostNavigates(u) ==
    /\ active' = Loading("push", u)
    /\ UNCHANGED <<doc, url, history>>

Reload ==
    /\ active' = Preserving(history)
    /\ UNCHANGED <<doc, url, history>>

TraverseHistory(delta) ==
    /\ CanGo(history, delta)
    /\ active' = Preserving(go(history, delta))
    /\ UNCHANGED <<doc, url, history>>

\* Stop, and a load that fails before its commit.
Abandoned ==
    /\ active # NoLoad
    /\ active' = NoLoad
    /\ UNCHANGED <<doc, url, history>>

\* What a load that ended at URL u does with the history it starts from.
Disposition(load, u) ==
    CASE load.update = "push" ->
            IF Len(history.entries) = 1 /\ Current(history).url = "about:blank"
            THEN "replace" ELSE "push"
      [] load.update = "replace"  -> "replace"
      [] load.update = "preserve" -> IF Current(load.history).url = u THEN "keep" ELSE "replace"

\* The URLs a load may end at: a redirect leads anywhere, injected content
\* and "about:blank" nowhere else.
FinalUrls(load) ==
    IF load.injected \/ load.url = "about:blank" THEN {load.url} ELSE Url

\* commit_parsed_navigation: u is the URL after redirects.
Committed(load, u) ==
    LET from == IF load.update = "preserve" THEN load.history ELSE history
    IN  CASE Disposition(load, u) = "push"    -> push(from, Entry(u, FALSE))
          [] Disposition(load, u) = "replace" -> replace(from, Entry(u, FALSE))
          [] Disposition(load, u) = "keep"    -> from

CommitsLoad ==
    /\ active # NoLoad /\ doc.number < MaxDocs
    /\ \E u \in FinalUrls(active) :
          /\ Len(Committed(active, u).entries) <= MaxEntries
          /\ history' = Committed(active, u)
          /\ url' = Current(history').url
          /\ doc' = [number |-> doc.number + 1, url |-> u]
    /\ active' = NoLoad

----------------------------------------------------------------------------
(* Script. *)

ScriptActions ==
    [op : {"navigate", "replace_location", "push_state", "replace_state"}, url : Url]
        \cup [op : {"traverse"}, delta : {-1, 0, 1}]
        \cup [op : {"set_content"}]

\* One action prepared against the simulated history: what applies it, and
\* the history the next one sees.  Nothing is applied when one is illegal.
SameDocument(sim)           == [sim |-> sim, step |-> <<[same |-> TRUE, history |-> sim]>>]
CrossDocument(sim, load)    == [sim |-> sim, step |-> <<[same |-> FALSE, load |-> load]>>]
Nothing(sim)        == [sim |-> sim, step |-> <<>>]

ensure_same_origin_history_url(sim, u) == OriginAt(Current(sim).url) = OriginAt(u)

Legal(sim, a) ==
    a.op \in {"push_state", "replace_state"} => ensure_same_origin_history_url(sim, a.url)

\* Variant: every entry is taken for one of the current document.
TraversedInPlace(sim, delta) ==
    IF CanGo(sim, delta) THEN SameDocument(go(sim, delta)) ELSE Nothing(sim)

\* An entry with a state blob is taken for one of the current document.
Traversed(sim, delta) ==
    LET to == go(sim, delta)
    IN  IF ~CanGo(sim, delta) THEN Nothing(sim)
        ELSE IF Current(to).state THEN IF delta = 0 THEN Nothing(sim) ELSE SameDocument(to)
        ELSE CrossDocument(sim, Preserving(to))

Prepared(sim, a) ==
    CASE a.op = "navigate"         -> CrossDocument(sim, Loading("push", a.url))
      [] a.op = "replace_location" -> CrossDocument(sim, Loading("replace", a.url))
      [] a.op = "set_content"      -> CrossDocument(sim, Injecting(sim))
      [] a.op = "push_state"       -> SameDocument(push(sim, Entry(a.url, TRUE)))
      [] a.op = "replace_state"    -> SameDocument(replace(sim, Entry(a.url, TRUE)))
      [] a.op = "traverse"         -> Traversed(sim, a.delta)

\* prepare_navigation_actions over the whole batch.
PreparedBatch(actions) ==
    FoldLeft(LAMBDA acc, a :
                IF acc.legal /\ Legal(acc.sim, a)
                THEN LET p == Prepared(acc.sim, a)
                     IN  [legal |-> TRUE, sim |-> p.sim, steps |-> acc.steps \o p.step]
                ELSE [legal |-> FALSE, sim |-> acc.sim, steps |-> <<>>],
             [legal |-> TRUE, sim |-> history, steps |-> <<>>], actions)

\* apply_navigation_actions: the last same-document step gives the history
\* and the page's URL, the last cross-document one the load.
Applied(steps) ==
    FoldLeft(LAMBDA acc, s : IF s.same THEN [history |-> s.history, active |-> acc.active]
                             ELSE [history |-> acc.history, active |-> s.load],
             [history |-> history, active |-> active], steps)

Script(actions) ==
    LET b == PreparedBatch(actions)
        r == Applied(b.steps)
    IN  /\ b.legal
        /\ Len(b.sim.entries) <= MaxEntries
        /\ history' = r.history
        /\ url' = Current(r.history).url
        /\ active' = r.active
        /\ UNCHANGED doc

----------------------------------------------------------------------------

NavInit ==
    /\ doc = [number |-> 0, url |-> "about:blank"]
    /\ url = "about:blank"
    /\ history = [entries |-> <<Entry("about:blank", FALSE)>>, cursor |-> 1]
    /\ active = NoLoad

Batches == UNION {[1..n -> ScriptActions] : n \in 1..MaxBatch}

NavNext ==
    \/ \E u \in Url : HostNavigates(u)
    \/ Reload \/ Abandoned \/ CommitsLoad
    \/ \E delta \in {-1, 1} : TraverseHistory(delta)
    \/ \E actions \in Batches : Script(actions)

NavSpec == NavInit /\ [][NavNext]_hvars

----------------------------------------------------------------------------

\* When the current entry has no state blob, the document on show is the one
\* loaded for it: script traversal never lands on such an entry without a
\* load, and a load never installs the entry of another URL
\* (prepare_navigation_actions, commit_parsed_navigation).
StatelessIsLoaded == ~Current(history).state => doc.url = url

===========================================================================
