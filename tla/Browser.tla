------------------------------ MODULE Browser ------------------------------
(***************************************************************************)
(* The session and its background images together: a navigation that       *)
(* rebuilds the page abandons the images of the page left and begins those *)
(* of the new one; a navigation to a fragment, a scroll and a relayout     *)
(* leave the queue alone; the images arrive between the reader's actions.  *)
(***************************************************************************)
EXTENDS Session, ImgAsync

VARIABLE owner   \* history variable: the URL document of each page built

bvars == <<svars, ivars, owner>>

Rebuilt == /\ sess'.page_rebuilt
           /\ owner' = Append(owner, sess'.page.url.doc)

(* browse_navigate_request with a document at the end. *)
NavigateToPage ==
  /\ Navigation
  /\ Rebuilt /\ ~ sess'.page.is_error
  /\ \E got \in CacheAnswers : Load(got)

(* browse_navigate_request with an error page at the end. *)
NavigateToError ==
  /\ Navigation
  /\ Rebuilt /\ sess'.page.is_error
  /\ LoadFails

(* browse_navigate_request within the page shown. *)
NavigateWithin ==
  /\ poll = "idle"
  /\ Navigation
  /\ ~ sess'.page_rebuilt
  /\ UNCHANGED <<ivars, owner>>

(* Reading: relayout keeps the images and the queue. *)
ReadPage ==
  /\ poll = "idle"
  /\ Scroll \/ \E w \in Width : Relayout(w)
  /\ UNCHANGED <<ivars, owner>>

(* A tick of the terminal loop. *)
Tick == Poll /\ UNCHANGED <<svars, owner>>

BrowserInit == SessionInit /\ ImgInit /\ owner = <<>>

BrowserNext ==
  NavigateToPage \/ NavigateToError \/ NavigateWithin \/ ReadPage \/ Tick

BrowserSpec == BrowserInit /\ [][BrowserNext]_bvars

(* The terminal loop polls at every tick, and curl ends every transfer by  *)
(* IMG_TIMEOUT_MS at the latest, so that a running transfer cannot be      *)
(* passed over by every poll.                                              *)
BrowserFairSpec ==
  /\ BrowserSpec
  /\ WF_bvars(PollBegin /\ UNCHANGED <<svars, owner>>)
  /\ WF_bvars(PollEnd /\ UNCHANGED <<svars, owner>>)
  /\ \A r \in Ref : SF_bvars(Harvest(r) /\ UNCHANGED <<svars, owner>>)

----------------------------------------------------------------------------
(* The images on the page and those still coming were asked for by the     *)
(* document whose URL the session shows, never by an error page: the       *)
(* fragment test of browse_navigate_request keeps the queue exactly when   *)
(* the page stays, through back, forward, redirects and errors.            *)
ImagesOfPage ==
  \A r \in DOMAIN images \cup DOMAIN queue :
    LET d == IF r \in DOMAIN images THEN images[r].doc ELSE queue[r].doc
    IN owner[d] = sess.page.url.doc /\ ~ sess.page.is_error

(* The images of a page that the reader stays on, following its fragments  *)
(* and scrolling, are all settled in the end.  (The pages built are        *)
(* bounded by MaxDoc, so that every behaviour stays on one in the end.)    *)
PageSettles == <>[](DOMAIN queue = {})
=============================================================================
