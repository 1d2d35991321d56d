------------------------------ MODULE Session ------------------------------
(***************************************************************************)
(* The browsing session (src/src/browser.odin, scroll.odin): one live      *)
(* page, two stacks of history entries, the reading anchor that the        *)
(* terminal front end saves before and restores after a navigation         *)
(* (src/src/tui.odin).  A navigation blocks the program, so each is one    *)
(* step; the server's answer is chosen freely.                             *)
(***************************************************************************)
EXTENDS Integers, Sequences, SequencesExt

CONSTANTS Doc,        \* URLs without their fragment
          Frag,       \* fragments; NoFrag is the missing one
          NoFrag,
          Offset,     \* character offsets; 0 is the top
          Width,      \* layout widths
          MaxHistory, \* bound on the history stacks
          CanFail     \* whether a fetch may end in an error page

ASSUME SessionAssumption == /\ NoFrag \in Frag
                            /\ 0 \in Offset
                            /\ CanFail \in BOOLEAN

VARIABLES sess,   \* [has, page, back, fwd, cur_anchor, page_rebuilt, width]
          pos     \* the character offset of the top visible line

svars == <<sess, pos>>

Url == [doc : Doc, frag : Frag]
NoPage == [url |-> "none", is_error |-> FALSE, width |-> 0]

LeftPage(s) == [url |-> s.page.url, anchor |-> s.cur_anchor]

----------------------------------------------------------------------------
(* The outcomes of browse_navigate_request, as functions of the session.   *)

(* Fault: only the fragments are compared. *)
SameFragmentOnly(s, u) == s.has /\ s.page.url.frag # u.frag

(* url_same_document: the page shown, under another fragment. *)
SameDocument(s, u) == s.has /\ s.page.url.doc = u.doc /\ s.page.url.frag # u.frag

(* Fault: a visit to a fragment keeps the forward stack. *)
FragmentKeepsForward(s, u, push) ==
  [s EXCEPT !.back = IF push THEN Append(@, LeftPage(s)) ELSE @,
            !.page.url = u,
            !.page_rebuilt = FALSE]

(* A fragment of the page shown: no fetch, no layout. *)
NavigateFragment(s, u, push) ==
  [s EXCEPT !.back = IF push THEN Append(@, LeftPage(s)) ELSE @,
            !.fwd = IF push THEN <<>> ELSE @,
            !.page.url = u,
            !.page_rebuilt = FALSE]

(* A document arrived under its final URL. *)
NavigateLoaded(s, final, push) ==
  [s EXCEPT !.back = IF push /\ s.has THEN Append(@, LeftPage(s)) ELSE @,
            !.fwd = IF push /\ s.has THEN <<>> ELSE @,
            !.page = [url |-> final, is_error |-> FALSE, width |-> s.width],
            !.has = TRUE,
            !.page_rebuilt = TRUE,
            !.cur_anchor = IF push THEN 0 ELSE @]

(* browse_error_page, whoever asked for the page. *)
NavigateError(s, u) ==
  [s EXCEPT !.back = IF s.has THEN Append(@, LeftPage(s)) ELSE @,
            !.page = [url |-> u, is_error |-> TRUE, width |-> s.width],
            !.has = TRUE,
            !.page_rebuilt = TRUE,
            !.cur_anchor = 0]

(* Where a request for u may end: redirects change the document, and the   *)
(* fragment is the requested one unless a redirect brings its own.         *)
Finals(u) == {u} \cup {v \in Url : v.doc # u.doc}

Navigated(s, u, push) ==
  IF SameDocument(s, u) THEN {NavigateFragment(s, u, push)}
  ELSE {NavigateLoaded(s, f, push) : f \in Finals(u)}
       \cup {NavigateError(s, f) : f \in IF CanFail THEN Finals(u) ELSE {}}

(* The bound on the history, as a guard of every navigation. *)
Bounded == Len(sess'.back) + Len(sess'.fwd) <= MaxHistory

(* A form sent with POST is never taken for a fragment of the page. *)
Posted(s, u) ==
  {NavigateLoaded(s, f, TRUE) : f \in Finals(u)}
  \cup {NavigateError(s, f) : f \in IF CanFail THEN Finals(u) ELSE {}}

----------------------------------------------------------------------------
(* tui_save_anchor, the navigation, then the new reading position: the top *)
(* or a fragment's target after a visit, the restored anchor after back,   *)
(* forward and reload.                                                     *)
Saved == [sess EXCEPT !.cur_anchor = IF sess.has THEN pos ELSE 0]

(* tui_follow_url, tui_navigate_bar and browse_submit with GET.  A         *)
(* fragment that the page does not have leaves the position unchanged.     *)
Visit(u) ==
  /\ sess' \in Navigated(Saved, u, TRUE)
  /\ pos' \in IF sess'.page.url.frag = NoFrag THEN {0} ELSE Offset
  /\ Bounded

Post(u) ==
  /\ sess' \in Posted(Saved, u)
  /\ pos' = 0
  /\ Bounded

(* Fault of going back: the page left is not pushed on the other stack. *)
BackForgets ==
  /\ sess.back # <<>>
  /\ LET target == Last(sess.back)
         popped == [Saved EXCEPT !.back = Front(@)]
     IN /\ sess' \in {[s EXCEPT !.cur_anchor = target.anchor] :
                        s \in Navigated(popped, target.url, FALSE)}
        /\ pos' = target.anchor
  /\ Bounded

(* browse_back and tui_go_back. *)
GoBack ==
  /\ sess.back # <<>>
  /\ LET target == Last(sess.back)
         popped == [Saved EXCEPT !.back = Front(@), !.fwd = Append(@, LeftPage(Saved))]
     IN /\ sess' \in {[s EXCEPT !.cur_anchor = target.anchor] :
                        s \in Navigated(popped, target.url, FALSE)}
        /\ pos' = target.anchor
  /\ Bounded

(* browse_forward and tui_go_forward. *)
GoForward ==
  /\ sess.fwd # <<>>
  /\ LET target == Last(sess.fwd)
         popped == [Saved EXCEPT !.fwd = Front(@), !.back = Append(@, LeftPage(Saved))]
     IN /\ sess' \in {[s EXCEPT !.cur_anchor = target.anchor] :
                        s \in Navigated(popped, target.url, FALSE)}
        /\ pos' = target.anchor
  /\ Bounded

(* browse_reload and tui_reload. *)
DoReload ==
  /\ sess.has
  /\ sess' \in Navigated(Saved, sess.page.url, FALSE)
  /\ pos' = sess'.cur_anchor
  /\ Bounded

(* browse_relayout: an error page has no source to lay out again.  The     *)
(* reading position is carried over by its character offset.               *)
Relayout(w) ==
  /\ sess.has /\ w # sess.width /\ ~ sess.page.is_error
  /\ sess' = [sess EXCEPT !.page.width = w, !.width = w]
  /\ pos' = pos

Scroll ==
  /\ sess.has
  /\ pos' \in Offset
  /\ sess' = sess

----------------------------------------------------------------------------
SessionInit ==
  /\ sess \in [has : {FALSE}, page : {NoPage}, back : {<<>>}, fwd : {<<>>},
               cur_anchor : {0}, page_rebuilt : {FALSE}, width : Width]
  /\ pos = 0

Navigation ==
  \/ \E u \in Url : Visit(u) \/ Post(u)
  \/ GoBack \/ GoForward \/ DoReload

SessionNext ==
  \/ Navigation
  \/ \E w \in Width : Relayout(w)
  \/ Scroll

SessionSpec == SessionInit /\ [][SessionNext]_svars

----------------------------------------------------------------------------
(* The history that the two stacks and the live page stand for. *)
Shown == [url |-> sess.page.url, pos |-> pos]
Trail ==
  LET entry(e) == [url |-> e.url, pos |-> e.anchor]
      n == Len(sess.back)
      m == Len(sess.fwd)
  IN IF ~ sess.has THEN <<>>
     ELSE [i \in 1..(n + 1 + m) |->
             IF i <= n THEN entry(sess.back[i])
             ELSE IF i = n + 1 THEN Shown
             ELSE entry(sess.fwd[n + m + 2 - i])]
Cursor == IF sess.has THEN Len(sess.back) + 1 ELSE 0

H == INSTANCE History WITH trail <- Trail, cursor <- Cursor, reading <- pos

(* The session keeps a browsing history: browse_navigate_request, back,    *)
(* forward and reload, with fragments, redirects, saved and restored       *)
(* anchors, do to the two stacks what the list with a cursor promises.     *)
KeepsHistory == H!HistorySpec

(* Leaving a page never loses it: unless the page is only reloaded, its    *)
(* URL and the reading position at which it was left are on one of the     *)
(* stacks afterwards, also when the fetch ends in an error page.           *)
LeftPageKept ==
  [][sess.has /\ sess'.page.url # sess.page.url /\ ~ DoReload
     => [url |-> sess.page.url, anchor |-> pos] \in Range(sess'.back) \cup Range(sess'.fwd)]_svars
=============================================================================
