--------------------------- MODULE SessionProofs ---------------------------
(***************************************************************************)
(* Proofs about the session: with fetches that succeed the two stacks, the *)
(* live page and the anchors implement the history of module History, and  *)
(* whatever fetches do, a page that is left stays on one of the stacks.    *)
(***************************************************************************)
EXTENDS Session, TLAPS

Place == [url : Url, anchor : Offset]
Stop  == [url : Url, pos : Offset]

Sessions ==
  [has : BOOLEAN,
   page : [url : Url \cup {"none"}, is_error : BOOLEAN, width : Width \cup {0}],
   back : Seq(Place), fwd : Seq(Place), cur_anchor : Offset,
   page_rebuilt : BOOLEAN, width : Width]

(* Before the first page nothing has been left. *)
Sound(s) == /\ s \in Sessions
            /\ s.has => s.page.url \in Url
            /\ ~ s.has => s.back = <<>> /\ s.fwd = <<>>

(* Types of the session, and what a session without a page looks like:     *)
(* back and forward look at the stacks only, and their abstract            *)
(* counterparts need a page.                                               *)
SessionInv == Sound(sess) /\ pos \in Offset

----------------------------------------------------------------------------
(* What browse_navigate_request does to the stacks.                        *)

(* A navigation that succeeds. *)
Moved(s, r, push) ==
  /\ r.back = IF push /\ s.has THEN Append(s.back, LeftPage(s)) ELSE s.back
  /\ r.fwd = IF push /\ s.has THEN <<>> ELSE s.fwd
  /\ ~ push => r.cur_anchor = s.cur_anchor

(* One that ends in an error page. *)
Failed(s, r) ==
  /\ r.back = IF s.has THEN Append(s.back, LeftPage(s)) ELSE s.back
  /\ r.fwd = s.fwd

(* The page left is an entry of the history. *)
LEMMA LeftIsPlace ==
  ASSUME NEW s, Sound(s), s.has
  PROVE  LeftPage(s) \in Place
BY DEF Sound, Sessions, LeftPage, Place

(* The fields of a session. *)
Names == {"has", "page", "back", "fwd", "cur_anchor", "page_rebuilt", "width"}
Pages == [url : Url \cup {"none"}, is_error : BOOLEAN, width : Width \cup {0}]

(* A session, field by field. *)
LEMMA Whole ==
  ASSUME NEW s \in Sessions
  PROVE  /\ s = [f \in Names |-> s[f]]
         /\ s.has \in BOOLEAN /\ s.back \in Seq(Place) /\ s.fwd \in Seq(Place)
         /\ s.page \in Pages /\ s.width \in Width
         /\ s.cur_anchor \in Offset /\ s.page_rebuilt \in BOOLEAN
BY DEF Sessions, Names, Pages

(* The other way. *)
LEMMA Made ==
  ASSUME NEW s, s = [f \in Names |-> s[f]],
         s.has \in BOOLEAN, s.back \in Seq(Place), s.fwd \in Seq(Place),
         s.page \in Pages, s.width \in Width,
         s.cur_anchor \in Offset, s.page_rebuilt \in BOOLEAN
  PROVE  s \in Sessions
BY DEF Sessions, Names, Pages

(* A document that arrived, of whatever URL. *)
LEMMA LoadedFields ==
  ASSUME NEW s, Sound(s), NEW f \in Url, NEW push \in BOOLEAN
  PROVE  /\ Sound(NavigateLoaded(s, f, push))
         /\ NavigateLoaded(s, f, push).has
         /\ Moved(s, NavigateLoaded(s, f, push), push)
<1> DEFINE r == NavigateLoaded(s, f, push)
<1>1. /\ s = [g \in Names |-> s[g]]
      /\ s.back \in Seq(Place) /\ s.fwd \in Seq(Place) /\ s.width \in Width
      /\ s.cur_anchor \in Offset
  BY Whole DEF Sound
<1>2. s.has => LeftPage(s) \in Place
  BY LeftIsPlace
<1>3. /\ r.back = IF push /\ s.has THEN Append(s.back, LeftPage(s)) ELSE s.back
      /\ r.fwd = IF push /\ s.has THEN <<>> ELSE s.fwd
      /\ r.page = [url |-> f, is_error |-> FALSE, width |-> s.width]
      /\ r.has = TRUE /\ r.page_rebuilt = TRUE /\ r.width = s.width
      /\ r.cur_anchor = IF push THEN 0 ELSE s.cur_anchor
      /\ r = [g \in Names |-> r[g]]
  BY <1>1 DEF NavigateLoaded, Names
<1> HIDE DEF r
<1>4. r.back \in Seq(Place) /\ r.fwd \in Seq(Place) /\ r.cur_anchor \in Offset
  BY <1>1, <1>2, <1>3, SessionAssumption
<1>5. r.page \in Pages /\ r.page.url = f
  BY <1>1, <1>3 DEF Pages
<1>6. r \in Sessions
  BY <1>1, <1>3, <1>4, <1>5, Made
<1> QED
  BY <1>3, <1>5, <1>6 DEF Sound, Moved, r

(* A fragment of the page shown. *)
LEMMA FragmentFields ==
  ASSUME NEW s, Sound(s), NEW u \in Url, NEW push \in BOOLEAN, s.has
  PROVE  /\ Sound(NavigateFragment(s, u, push))
         /\ NavigateFragment(s, u, push).has
         /\ Moved(s, NavigateFragment(s, u, push), push)
<1> DEFINE r == NavigateFragment(s, u, push)
<1>1. /\ s = [g \in Names |-> s[g]] /\ s.page \in Pages
      /\ s.back \in Seq(Place) /\ s.fwd \in Seq(Place) /\ s.width \in Width
      /\ s.cur_anchor \in Offset /\ s.has \in BOOLEAN
  BY Whole DEF Sound
<1>2. LeftPage(s) \in Place
  BY LeftIsPlace
<1>3. /\ r.back = IF push THEN Append(s.back, LeftPage(s)) ELSE s.back
      /\ r.fwd = IF push THEN <<>> ELSE s.fwd
      /\ r.page = [s.page EXCEPT !.url = u]
      /\ r.has = s.has /\ r.page_rebuilt = FALSE /\ r.width = s.width
      /\ r.cur_anchor = s.cur_anchor
      /\ r = [g \in Names |-> r[g]]
  BY <1>1 DEF NavigateFragment, Names
<1> HIDE DEF r
<1>4. r.back \in Seq(Place) /\ r.fwd \in Seq(Place)
  BY <1>1, <1>2, <1>3
<1>5. r.page \in Pages /\ r.page.url = u
  BY <1>1, <1>3 DEF Pages
<1>6. r \in Sessions
  BY <1>1, <1>3, <1>4, <1>5, Made
<1> QED
  BY <1>3, <1>5, <1>6 DEF Sound, Moved, r

(* An error page. *)
LEMMA ErrorFields ==
  ASSUME NEW s, Sound(s), NEW u \in Url
  PROVE  /\ Sound(NavigateError(s, u))
         /\ NavigateError(s, u).has
         /\ Failed(s, NavigateError(s, u))
<1> DEFINE r == NavigateError(s, u)
<1>1. /\ s = [g \in Names |-> s[g]]
      /\ s.back \in Seq(Place) /\ s.fwd \in Seq(Place) /\ s.width \in Width
  BY Whole DEF Sound
<1>2. s.has => LeftPage(s) \in Place
  BY LeftIsPlace
<1>3. /\ r.back = IF s.has THEN Append(s.back, LeftPage(s)) ELSE s.back
      /\ r.fwd = s.fwd
      /\ r.page = [url |-> u, is_error |-> TRUE, width |-> s.width]
      /\ r.has = TRUE /\ r.page_rebuilt = TRUE /\ r.width = s.width
      /\ r.cur_anchor = 0
      /\ r = [g \in Names |-> r[g]]
  BY <1>1 DEF NavigateError, Names
<1> HIDE DEF r
<1>4. r.back \in Seq(Place) /\ r.fwd \in Seq(Place) /\ r.cur_anchor \in Offset
  BY <1>1, <1>2, <1>3, SessionAssumption
<1>5. r.page \in Pages /\ r.page.url = u
  BY <1>1, <1>3 DEF Pages
<1>6. r \in Sessions
  BY <1>1, <1>3, <1>4, <1>5, Made
<1> QED
  BY <1>3, <1>5, <1>6 DEF Sound, Failed, r

(* Redirects end at URLs. *)
LEMMA FinalsAreUrls ==
  ASSUME NEW u \in Url
  PROVE  Finals(u) \subseteq Url
BY DEF Finals

(* Any outcome of browse_navigate_request. *)
LEMMA Outcomes ==
  ASSUME NEW s, Sound(s), NEW u \in Url, NEW push \in BOOLEAN,
         NEW r \in Navigated(s, u, push)
  PROVE  /\ Sound(r) /\ r.has
         /\ Moved(s, r, push) \/ Failed(s, r)
         /\ ~ CanFail => Moved(s, r, push)
<1>1. CASE SameDocument(s, u)
  BY <1>1, FragmentFields DEF Navigated, SameDocument
<1>2. CASE ~ SameDocument(s, u)
  <2>1. CASE \E f \in Finals(u) : r = NavigateLoaded(s, f, push)
    BY <2>1, LoadedFields, FinalsAreUrls
  <2>2. CASE CanFail /\ \E f \in Finals(u) : r = NavigateError(s, f)
    BY <2>2, ErrorFields, FinalsAreUrls
  <2> QED
    BY <1>2, <2>1, <2>2 DEF Navigated
<1> QED
  BY <1>1, <1>2

(* Any outcome of a form sent with POST. *)
LEMMA PostOutcomes ==
  ASSUME NEW s, Sound(s), NEW u \in Url, NEW r \in Posted(s, u)
  PROVE  /\ Sound(r) /\ r.has
         /\ Moved(s, r, TRUE) \/ Failed(s, r)
         /\ ~ CanFail => Moved(s, r, TRUE)
<1>1. CASE \E f \in Finals(u) : r = NavigateLoaded(s, f, TRUE)
  BY <1>1, LoadedFields, FinalsAreUrls
<1>2. CASE CanFail /\ \E f \in Finals(u) : r = NavigateError(s, f)
  BY <1>2, ErrorFields, FinalsAreUrls
<1> QED
  BY <1>1, <1>2 DEF Posted

----------------------------------------------------------------------------
(* What each command does to the session.                                  *)

(* The entry that leaving the page shown would push. *)
Here == [url |-> sess.page.url, anchor |-> pos]

(* tui_save_anchor changes the anchor alone. *)
LEMMA SavedFields ==
  ASSUME SessionInv
  PROVE  /\ Sound(Saved)
         /\ Saved.has = sess.has /\ Saved.page = sess.page
         /\ Saved.back = sess.back /\ Saved.fwd = sess.fwd
         /\ sess.has => LeftPage(Saved) = Here /\ Saved.cur_anchor = pos
BY SessionAssumption DEF SessionInv, Sound, Sessions, Saved, LeftPage, Here

(* Setting the anchor leaves a sound session sound. *)
LEMMA AnchorFields ==
  ASSUME NEW s, Sound(s), NEW a \in Offset
  PROVE  LET r == [s EXCEPT !.cur_anchor = a]
         IN /\ Sound(r) /\ r.has = s.has /\ r.page = s.page
            /\ r.back = s.back /\ r.fwd = s.fwd
BY DEF Sound, Sessions

(* Popping a stack. *)
LEMMA FrontFields ==
  ASSUME NEW S, NEW q \in Seq(S), q # <<>>
  PROVE  /\ Len(q) \in Nat /\ Len(q) > 0
         /\ Front(q) \in Seq(S)
         /\ Len(Front(q)) = Len(q) - 1
         /\ \A i \in 1..(Len(q) - 1) : Front(q)[i] = q[i]
         /\ Last(q) = q[Len(q)] /\ Last(q) \in S
<1>1. Len(q) \in Nat /\ Len(q) > 0 /\ \A i \in 1..Len(q) : q[i] \in S
  OBVIOUS
<1>2. Front(q) \in Seq(S)
  BY <1>1 DEF Front
<1>3. Len(Front(q)) = Len(q) - 1
  BY <1>1 DEF Front
<1>4. \A i \in 1..(Len(q) - 1) : Front(q)[i] = q[i]
  BY <1>1 DEF Front
<1> QED
  BY <1>1, <1>2, <1>3, <1>4 DEF Last

(* A stack holds what was pushed on it. *)
LEMMA PushedIsThere ==
  ASSUME NEW S, NEW q \in Seq(S), NEW e \in S
  PROVE  e \in Range(Append(q, e))
<1>1. Len(q) + 1 \in DOMAIN Append(q, e) /\ Append(q, e)[Len(q) + 1] = e
  OBVIOUS
<1> QED
  BY <1>1 DEF Range

(* The session from which browse_back navigates. *)
LEMMA PoppedBack ==
  ASSUME SessionInv, sess.back # <<>>
  PROVE  LET r == [Saved EXCEPT !.back = Front(@), !.fwd = Append(@, LeftPage(Saved))]
         IN /\ sess.has /\ Sound(r) /\ r.has
            /\ r.back = Front(sess.back) /\ r.fwd = Append(sess.fwd, Here)
<1> DEFINE r == [Saved EXCEPT !.back = Front(@), !.fwd = Append(@, LeftPage(Saved))]
<1>1. sess.has /\ sess.back \in Seq(Place) /\ sess.fwd \in Seq(Place)
  BY DEF SessionInv, Sound, Sessions
<1>2. Here \in Place
  BY <1>1, LeftIsPlace, SavedFields
<1>3. Front(sess.back) \in Seq(Place)
  BY <1>1, FrontFields
<1>4. Append(sess.fwd, Here) \in Seq(Place)
  BY <1>1, <1>2
<1>5. /\ r.back = Front(sess.back) /\ r.fwd = Append(sess.fwd, Here)
      /\ r.has = sess.has /\ r.page = sess.page
  BY <1>1, SavedFields DEF Sound, Sessions
<1>6. r \in Sessions
  BY <1>1, <1>3, <1>4, SavedFields DEF Sound, Sessions
<1> QED
  BY <1>1, <1>5, <1>6, SavedFields DEF Sound

(* The session from which browse_forward navigates. *)
LEMMA PoppedForward ==
  ASSUME SessionInv, sess.fwd # <<>>
  PROVE  LET r == [Saved EXCEPT !.fwd = Front(@), !.back = Append(@, LeftPage(Saved))]
         IN /\ sess.has /\ Sound(r) /\ r.has
            /\ r.fwd = Front(sess.fwd) /\ r.back = Append(sess.back, Here)
<1> DEFINE r == [Saved EXCEPT !.fwd = Front(@), !.back = Append(@, LeftPage(Saved))]
<1>1. sess.has /\ sess.back \in Seq(Place) /\ sess.fwd \in Seq(Place)
  BY DEF SessionInv, Sound, Sessions
<1>2. Here \in Place
  BY <1>1, LeftIsPlace, SavedFields
<1>3. Front(sess.fwd) \in Seq(Place)
  BY <1>1, FrontFields
<1>4. Append(sess.back, Here) \in Seq(Place)
  BY <1>1, <1>2
<1>5. /\ r.fwd = Front(sess.fwd) /\ r.back = Append(sess.back, Here)
      /\ r.has = sess.has /\ r.page = sess.page
  BY <1>1, SavedFields DEF Sound, Sessions
<1>6. r \in Sessions
  BY <1>1, <1>3, <1>4, SavedFields DEF Sound, Sessions
<1> QED
  BY <1>1, <1>5, <1>6, SavedFields DEF Sound

(* Following a link, the URL bar, or sending a form. *)
LEMMA VisitStep ==
  ASSUME SessionInv, NEW u \in Url, Visit(u) \/ Post(u)
  PROVE  /\ SessionInv' /\ sess'.has
         /\ sess.has => Here \in Range(sess'.back)
         /\ ~ CanFail => /\ sess'.fwd = <<>>
                         /\ sess'.back = IF sess.has THEN Append(sess.back, Here)
                                                     ELSE <<>>
<1>1. /\ Sound(sess') /\ sess'.has
      /\ Moved(Saved, sess', TRUE) \/ Failed(Saved, sess')
      /\ ~ CanFail => Moved(Saved, sess', TRUE)
  BY SavedFields, Outcomes, PostOutcomes DEF Visit, Post
<1>2. pos' \in Offset
  BY SessionAssumption DEF Visit, Post
<1>3. /\ sess.back \in Seq(Place) /\ (sess.has => Here \in Place)
      /\ ~ sess.has => sess.back = <<>> /\ sess.fwd = <<>>
  BY LeftIsPlace, SavedFields DEF SessionInv, Sound, Sessions
<1>4. sess.has => sess'.back = Append(sess.back, Here)
  BY <1>1, SavedFields DEF Moved, Failed
<1> QED
  BY <1>1, <1>2, <1>3, <1>4, SavedFields, PushedIsThere DEF SessionInv, Moved

(* Going back. *)
LEMMA BackStep ==
  ASSUME SessionInv, GoBack
  PROVE  /\ SessionInv' /\ sess'.has /\ sess.has
         /\ Here \in Range(sess'.fwd)
         /\ ~ CanFail => /\ sess'.back = Front(sess.back)
                         /\ sess'.fwd = Append(sess.fwd, Here)
                         /\ pos' = Last(sess.back).anchor
<1> DEFINE p == [Saved EXCEPT !.back = Front(@), !.fwd = Append(@, LeftPage(Saved))]
           target == Last(sess.back)
<1>1. /\ sess.has /\ Sound(p) /\ p.has
      /\ p.back = Front(sess.back) /\ p.fwd = Append(sess.fwd, Here)
  BY PoppedBack DEF GoBack
<1>2. target.anchor \in Offset /\ target.url \in Url /\ pos' = target.anchor
  <2>1. target \in Place
    BY FrontFields DEF GoBack, SessionInv, Sound, Sessions
  <2> QED
    BY <2>1 DEF GoBack, Place
<1> HIDE DEF p, target
<1>3. PICK r \in Navigated(p, target.url, FALSE) :
        sess' = [r EXCEPT !.cur_anchor = target.anchor]
  BY DEF GoBack, p, target
<1>4. /\ Sound(r) /\ r.has
      /\ Moved(p, r, FALSE) \/ Failed(p, r)
      /\ ~ CanFail => Moved(p, r, FALSE)
  BY <1>1, <1>2, Outcomes
<1>5. Sound(sess') /\ sess'.has /\ sess'.back = r.back /\ sess'.fwd = r.fwd
  BY <1>2, <1>3, <1>4, AnchorFields
<1>6. sess'.fwd = Append(sess.fwd, Here)
  BY <1>1, <1>4, <1>5 DEF Moved, Failed
<1>7. sess.fwd \in Seq(Place) /\ Here \in Place
  BY <1>1, LeftIsPlace, SavedFields DEF SessionInv, Sound, Sessions
<1>8. Here \in Range(sess'.fwd)
  BY <1>6, <1>7, PushedIsThere
<1>9. ~ CanFail => sess'.back = Front(sess.back)
  BY <1>1, <1>4, <1>5 DEF Moved
<1> QED
  BY <1>1, <1>2, <1>5, <1>6, <1>8, <1>9 DEF SessionInv, target

(* Going forward. *)
LEMMA ForwardStep ==
  ASSUME SessionInv, GoForward
  PROVE  /\ SessionInv' /\ sess'.has /\ sess.has
         /\ Here \in Range(sess'.back) \cup Range(sess'.fwd)
         /\ ~ CanFail => /\ sess'.fwd = Front(sess.fwd)
                         /\ sess'.back = Append(sess.back, Here)
                         /\ pos' = Last(sess.fwd).anchor
<1> DEFINE p == [Saved EXCEPT !.fwd = Front(@), !.back = Append(@, LeftPage(Saved))]
           target == Last(sess.fwd)
<1>1. /\ sess.has /\ Sound(p) /\ p.has
      /\ p.fwd = Front(sess.fwd) /\ p.back = Append(sess.back, Here)
  BY PoppedForward DEF GoForward
<1>2. target.anchor \in Offset /\ target.url \in Url /\ pos' = target.anchor
  <2>1. target \in Place
    BY FrontFields DEF GoForward, SessionInv, Sound, Sessions
  <2> QED
    BY <2>1 DEF GoForward, Place
<1> HIDE DEF p, target
<1>3. PICK r \in Navigated(p, target.url, FALSE) :
        sess' = [r EXCEPT !.cur_anchor = target.anchor]
  BY DEF GoForward, p, target
<1>4. /\ Sound(r) /\ r.has
      /\ Moved(p, r, FALSE) \/ Failed(p, r)
      /\ ~ CanFail => Moved(p, r, FALSE)
  BY <1>1, <1>2, Outcomes
<1>5. Sound(sess') /\ sess'.has /\ sess'.back = r.back /\ sess'.fwd = r.fwd
  BY <1>2, <1>3, <1>4, AnchorFields
<1>6. sess.back \in Seq(Place) /\ Here \in Place
  BY <1>1, LeftIsPlace, SavedFields DEF SessionInv, Sound, Sessions
<1>7. Here \in Range(sess'.back)
  <2>1. Here \in Range(p.back)
    BY <1>1, <1>6, PushedIsThere
  <2>2. CASE sess'.back = p.back
    BY <2>1, <2>2
  <2>3. CASE sess'.back = Append(p.back, LeftPage(p))
    <3>1. p.back \in Seq(Place) /\ LeftPage(p) \in Place
      BY <1>1, LeftIsPlace DEF Sound, Sessions
    <3>2. p.back = Append(sess.back, Here) /\ Len(sess.back) + 1 \in 1..Len(p.back)
          /\ p.back[Len(sess.back) + 1] = Here
      BY <1>1, <1>6
    <3>3. /\ Len(sess.back) + 1 \in DOMAIN Append(p.back, LeftPage(p))
          /\ Append(p.back, LeftPage(p))[Len(sess.back) + 1] = Here
      BY <3>1, <3>2
    <3> QED
      BY <2>3, <3>3 DEF Range
  <2> QED
    BY <1>1, <1>4, <1>5, <2>2, <2>3 DEF Moved, Failed
<1>8. ~ CanFail => sess'.back = Append(sess.back, Here) /\ sess'.fwd = Front(sess.fwd)
  BY <1>1, <1>4, <1>5 DEF Moved
<1> QED
  BY <1>1, <1>2, <1>5, <1>7, <1>8 DEF SessionInv, target

(* Reloading. *)
LEMMA ReloadStep ==
  ASSUME SessionInv, DoReload
  PROVE  /\ SessionInv' /\ sess'.has /\ sess.has
         /\ ~ CanFail => sess'.back = sess.back /\ sess'.fwd = sess.fwd /\ pos' = pos
<1>1. sess.has /\ sess.page.url \in Url
  BY DEF DoReload, SessionInv, Sound
<1>2. /\ Sound(sess') /\ sess'.has
      /\ ~ CanFail => Moved(Saved, sess', FALSE)
  BY <1>1, SavedFields, Outcomes DEF DoReload
<1>3. pos' = sess'.cur_anchor
  BY DEF DoReload
<1> QED
  BY <1>1, <1>2, <1>3, SavedFields DEF SessionInv, Moved, Sound, Sessions

(* A new width. *)
LEMMA RelayoutStep ==
  ASSUME SessionInv, NEW w \in Width, Relayout(w)
  PROVE  /\ SessionInv' /\ sess.has /\ sess'.has
         /\ sess'.page.url = sess.page.url
         /\ sess'.back = sess.back /\ sess'.fwd = sess.fwd /\ pos' = pos
BY DEF SessionInv, Sound, Sessions, Relayout

(* The invariant holds throughout. *)
LEMMA SessionAlways == SessionSpec => []SessionInv
<1>1. SessionInit => SessionInv
  <2> SUFFICES ASSUME SessionInit PROVE SessionInv
    OBVIOUS
  <2>1. /\ sess = [f \in Names |-> sess[f]] /\ sess.width \in Width
        /\ sess.has = FALSE /\ sess.page = NoPage /\ sess.cur_anchor = 0
        /\ sess.back = <<>> /\ sess.fwd = <<>> /\ sess.page_rebuilt = FALSE
    BY DEF SessionInit, Names
  <2>2. NoPage \in Pages /\ <<>> \in Seq(Place)
    BY DEF NoPage, Pages
  <2>3. sess.page \in Pages
    BY <2>1, <2>2, Zenon
  <2>4. sess.back \in Seq(Place) /\ sess.fwd \in Seq(Place)
    BY <2>1, <2>2, Zenon
  <2>5. sess \in Sessions
    BY <2>1, <2>3, <2>4, SessionAssumption, Made
  <2> QED
    BY <2>1, <2>5, SessionAssumption DEF SessionInit, SessionInv, Sound
<1>2. SessionInv /\ [SessionNext]_svars => SessionInv'
  <2> SUFFICES ASSUME SessionInv, [SessionNext]_svars PROVE SessionInv'
    OBVIOUS
  <2>1. CASE Scroll
    BY <2>1 DEF Scroll, SessionInv
  <2>2. CASE UNCHANGED svars
    BY <2>2 DEF svars, SessionInv
  <2> QED
    BY <2>1, <2>2, VisitStep, BackStep, ForwardStep, ReloadStep, RelayoutStep
    DEF SessionNext, Navigation
<1> QED
  BY <1>1, <1>2, PTL DEF SessionSpec

(* Leaving a page never loses it (LeftPageKept): browse_navigate_request,  *)
(* browse_back and browse_forward push the page left with its reading      *)
(* position before anything can fail, also when the fetch ends in an error *)
(* page.                                                                   *)
THEOREM LeftPageTheorem == SessionSpec => LeftPageKept
<1>1. SessionInv /\ [SessionNext]_svars
      => [sess.has /\ sess'.page.url # sess.page.url /\ ~ DoReload
          => [url |-> sess.page.url, anchor |-> pos]
               \in Range(sess'.back) \cup Range(sess'.fwd)]_svars
  <2> SUFFICES ASSUME SessionInv, SessionNext, sess.has,
                      sess'.page.url # sess.page.url, ~ DoReload
               PROVE  Here \in Range(sess'.back) \cup Range(sess'.fwd)
    BY DEF Here
  <2>1. CASE \E u \in Url : Visit(u) \/ Post(u)
    BY <2>1, VisitStep
  <2>2. CASE GoBack
    BY <2>2, BackStep
  <2>3. CASE GoForward
    BY <2>3, ForwardStep
  <2>4. CASE \E w \in Width : Relayout(w)
    BY <2>4, RelayoutStep
  <2>5. CASE Scroll
    BY <2>5 DEF Scroll
  <2> QED
    BY <2>1, <2>2, <2>3, <2>4, <2>5 DEF SessionNext, Navigation
<1> QED
  BY <1>1, SessionAlways, PTL DEF SessionSpec, LeftPageKept

----------------------------------------------------------------------------
(* The list of History that two stacks and a page stand for, as a function *)
(* of the three, and what the commands do to it.                           *)

Entry(e) == [url |-> e.url, pos |-> e.anchor]

Listed(b, p, f) ==
  [i \in 1..(Len(b) + 1 + Len(f)) |->
     IF i <= Len(b) THEN Entry(b[i])
     ELSE IF i = Len(b) + 1 THEN p
     ELSE Entry(f[Len(b) + Len(f) + 2 - i])]

(* The list l, entry by entry: n entries behind p and m ahead of it. *)
Spells(l, b, n, p, f, m) ==
  /\ l \in Seq(Stop) /\ Len(l) = n + 1 + m
  /\ \A i \in 1..n : l[i] = Entry(b[i])
  /\ l[n + 1] = p
  /\ \A i \in (n + 2)..(n + 1 + m) : l[i] = Entry(f[n + m + 2 - i])

(* It is a list. *)
LEMMA ListedType ==
  ASSUME NEW b \in Seq(Place), NEW p \in Stop, NEW f \in Seq(Place),
         NEW n, n = Len(b), NEW m, m = Len(f)
  PROVE  Spells(Listed(b, p, f), b, n, p, f, m)
<1>1. Len(b) \in Nat /\ Len(f) \in Nat
  OBVIOUS
<1>2. \A e \in Place : Entry(e) \in Stop
  BY DEF Place, Stop, Entry
<1>3. ASSUME NEW i \in 1..(Len(b) + 1 + Len(f))
      PROVE  Listed(b, p, f)[i] \in Stop
  <2>1. CASE i <= Len(b)
    <3>1. b[i] \in Place
      BY <1>1, <2>1
    <3> QED
      BY <1>2, <2>1, <3>1 DEF Listed
  <2>2. CASE i = Len(b) + 1
    BY <1>1, <2>2 DEF Listed
  <2>3. CASE i > Len(b) + 1
    <3>1. Len(b) + Len(f) + 2 - i \in 1..Len(f)
      BY <1>1, <2>3
    <3>2. f[Len(b) + Len(f) + 2 - i] \in Place
      BY <3>1
    <3> QED
      BY <1>1, <1>2, <2>3, <3>2 DEF Listed
  <2> QED
    BY <1>1, <2>1, <2>2, <2>3
<1>4. Listed(b, p, f) \in [1..(Len(b) + 1 + Len(f)) -> Stop]
  BY <1>3 DEF Listed
<1>5. Len(b) + 1 + Len(f) \in Nat
  BY <1>1
<1>6. Listed(b, p, f) \in Seq(Stop) /\ Len(Listed(b, p, f)) = Len(b) + 1 + Len(f)
  BY <1>4, <1>5
<1>7. \A i \in 1..Len(b) : Listed(b, p, f)[i] = Entry(b[i])
  BY <1>1 DEF Listed
<1>8. Listed(b, p, f)[Len(b) + 1] = p
  BY <1>1 DEF Listed
<1>9. \A i \in (Len(b) + 2)..(Len(b) + 1 + Len(f)) :
        Listed(b, p, f)[i] = Entry(f[Len(b) + Len(f) + 2 - i])
  BY <1>1 DEF Listed
<1> QED
  BY <1>6, <1>7, <1>8, <1>9 DEF Spells

(* Lists of the same length with the same entries are the same. *)
LEMMA SameList ==
  ASSUME NEW S, NEW x \in Seq(S), NEW y \in Seq(S), Len(x) = Len(y),
         \A i \in 1..Len(x) : x[i] = y[i]
  PROVE  x = y
OBVIOUS

(* Writing back what was there changes nothing. *)
LEMMA Rewritten ==
  ASSUME NEW S, NEW x \in Seq(S), NEW i
  PROVE  [x EXCEPT ![i] = x[i]] = x
<1>1. x = [j \in DOMAIN x |-> x[j]]
  OBVIOUS
<1> QED
  BY <1>1

(* A visit cuts off what lies ahead. *)
LEMMA ListedVisit ==
  ASSUME NEW b \in Seq(Place), NEW e \in Place, NEW f \in Seq(Place), NEW q \in Stop
  PROVE  Listed(Append(b, e), q, <<>>)
           = Append(SubSeq(Listed(b, Entry(e), f), 1, Len(b) + 1), q)
<1> DEFINE old == Listed(b, Entry(e), f)
           new == Listed(Append(b, e), q, <<>>)
           cut == SubSeq(old, 1, Len(b) + 1)
<1>1. /\ Len(b) \in Nat /\ Len(f) \in Nat
      /\ Append(b, e) \in Seq(Place) /\ Len(Append(b, e)) = Len(b) + 1
      /\ \A i \in 1..Len(b) : Append(b, e)[i] = b[i]
      /\ Append(b, e)[Len(b) + 1] = e
      /\ <<>> \in Seq(Place) /\ Len(<<>>) = 0
  OBVIOUS
<1>2. Entry(e) \in Stop
  BY DEF Entry, Place, Stop
<1>3. Spells(old, b, Len(b), Entry(e), f, Len(f))
  BY <1>2, ListedType
<1>4. Spells(new, Append(b, e), Len(b) + 1, q, <<>>, 0)
  BY <1>1, ListedType
<1> HIDE DEF old, new
<1>5. /\ old \in Seq(Stop) /\ Len(old) = Len(b) + 1 + Len(f)
      /\ \A i \in 1..Len(b) : old[i] = Entry(b[i])
      /\ old[Len(b) + 1] = Entry(e)
  BY <1>3 DEF Spells
<1>6. /\ new \in Seq(Stop) /\ Len(new) = Len(b) + 2
       /\ \A i \in 1..(Len(b) + 1) : new[i] = Entry(Append(b, e)[i])
       /\ new[Len(b) + 2] = q
  BY <1>1, <1>4 DEF Spells
<1>7. /\ cut \in Seq(Stop) /\ Len(cut) = Len(b) + 1
      /\ \A i \in 1..(Len(b) + 1) : cut[i] = old[i]
  BY <1>1, <1>5
<1> HIDE DEF cut
<1>8. /\ Append(cut, q) \in Seq(Stop) /\ Len(Append(cut, q)) = Len(b) + 2
      /\ \A i \in 1..(Len(b) + 1) : Append(cut, q)[i] = cut[i]
      /\ Append(cut, q)[Len(b) + 2] = q
  BY <1>1, <1>7
<1>9. \A i \in 1..Len(new) : new[i] = Append(cut, q)[i]
  <2> SUFFICES ASSUME NEW i \in 1..(Len(b) + 2) PROVE new[i] = Append(cut, q)[i]
    BY <1>6
  <2>1. CASE i \in 1..Len(b)
    BY <1>1, <1>5, <1>6, <1>7, <1>8, <2>1
  <2>2. CASE i = Len(b) + 1
    BY <1>1, <1>5, <1>6, <1>7, <1>8, <2>2
  <2>3. CASE i = Len(b) + 2
    BY <1>6, <1>8, <2>3
  <2>4. Len(b) \in Nat
    OBVIOUS
  <2>5. i \in 1..Len(b) \/ i = Len(b) + 1 \/ i = Len(b) + 2
    BY <2>4
  <2> QED
    BY <2>1, <2>2, <2>3, <2>5
<1>10. new = Append(cut, q)
  BY <1>6, <1>8, <1>9, SameList
<1> QED
  BY <1>10 DEF old, new, cut

(* Another page in the same place. *)
LEMMA ListedSame ==
  ASSUME NEW b \in Seq(Place), NEW p \in Stop, NEW q \in Stop, NEW f \in Seq(Place)
  PROVE  Listed(b, q, f) = [Listed(b, p, f) EXCEPT ![Len(b) + 1] = q]
<1>1. Len(b) \in Nat /\ Len(f) \in Nat
  OBVIOUS
<1>2. DOMAIN Listed(b, q, f) = DOMAIN Listed(b, p, f)
  BY DEF Listed
<1>3. \A i \in DOMAIN Listed(b, p, f) :
        Listed(b, q, f)[i] = IF i = Len(b) + 1 THEN q ELSE Listed(b, p, f)[i]
  BY <1>1 DEF Listed
<1>4. Listed(b, q, f) = [i \in DOMAIN Listed(b, q, f) |-> Listed(b, q, f)[i]]
  BY DEF Listed
<1> QED
  BY <1>2, <1>3, <1>4

(* Moving the page left from the end of one stack to that of the other. *)
LEMMA ListedBack ==
  ASSUME NEW b \in Seq(Place), b # <<>>, NEW e \in Place, NEW f \in Seq(Place),
         NEW q \in Stop
  PROVE  Listed(Front(b), q, Append(f, e))
           = [Listed(b, Entry(e), f) EXCEPT ![Len(b)] = q]
<1> DEFINE n == Len(b)
           m == Len(f)
           old == Listed(b, Entry(e), f)
           new == Listed(Front(b), q, Append(f, e))
<1>1. /\ n \in Nat /\ n > 0 /\ Front(b) \in Seq(Place) /\ Len(Front(b)) = n - 1
      /\ \A i \in 1..(n - 1) : Front(b)[i] = b[i]
  BY FrontFields
<1>2. /\ m \in Nat /\ Append(f, e) \in Seq(Place) /\ Len(Append(f, e)) = m + 1
      /\ \A i \in 1..m : Append(f, e)[i] = f[i]
      /\ Append(f, e)[m + 1] = e
  OBVIOUS
<1>3. Entry(e) \in Stop
  BY DEF Entry, Place, Stop
<1>4. Spells(old, b, n, Entry(e), f, m)
  BY <1>3, ListedType
<1>5. Spells(new, Front(b), n - 1, q, Append(f, e), m + 1)
  BY <1>1, <1>2, ListedType
<1> HIDE DEF old, new
<1>6. /\ old \in Seq(Stop) /\ Len(old) = n + 1 + m
      /\ \A i \in 1..n : old[i] = Entry(b[i])
      /\ old[n + 1] = Entry(e)
      /\ \A i \in (n + 2)..(n + 1 + m) : old[i] = Entry(f[n + m + 2 - i])
  BY <1>4 DEF Spells
<1>7. /\ new \in Seq(Stop) /\ Len(new) = n + 1 + m
      /\ \A i \in 1..(n - 1) : new[i] = Entry(Front(b)[i])
      /\ new[n] = q
      /\ \A i \in (n + 1)..(n + 1 + m) : new[i] = Entry(Append(f, e)[n + m + 2 - i])
  <2>1. /\ new \in Seq(Stop) /\ Len(new) = n - 1 + 1 + (m + 1)
        /\ \A i \in 1..(n - 1) : new[i] = Entry(Front(b)[i])
        /\ new[n - 1 + 1] = q
        /\ \A i \in (n - 1 + 2)..(n - 1 + 1 + (m + 1)) :
             new[i] = Entry(Append(f, e)[n - 1 + (m + 1) + 2 - i])
    BY <1>5 DEF Spells
  <2>2. n \in Nat /\ m \in Nat
    BY <1>1, <1>2
  <2> HIDE DEF n, m
  <2>3. n - 1 + 1 + (m + 1) = n + 1 + m /\ n - 1 + 1 = n
    BY <2>2
  <2>4. ASSUME NEW i \in (n + 1)..(n + 1 + m)
        PROVE  new[i] = Entry(Append(f, e)[n + m + 2 - i])
    <3>1. /\ i \in (n - 1 + 2)..(n - 1 + 1 + (m + 1))
          /\ n - 1 + (m + 1) + 2 - i = n + m + 2 - i
      BY <2>2
    <3> QED
      BY <2>1, <3>1
  <2> QED
    BY <2>1, <2>3, <2>4
<1>8. /\ [old EXCEPT ![n] = q] \in Seq(Stop)
      /\ Len([old EXCEPT ![n] = q]) = n + 1 + m
      /\ \A i \in 1..(n + 1 + m) :
           [old EXCEPT ![n] = q][i] = IF i = n THEN q ELSE old[i]
  BY <1>1, <1>2, <1>6
<1>9. ASSUME NEW i \in 1..(n + 1 + m)
      PROVE  new[i] = IF i = n THEN q ELSE old[i]
  <2>1. CASE i \in 1..(n - 1)
    BY <1>1, <1>6, <1>7, <2>1
  <2>2. CASE i = n
    BY <1>7, <2>2
  <2>3. CASE i = n + 1
    <3>1. i \in (n + 1)..(n + 1 + m) /\ n + m + 2 - i = m + 1 /\ i # n
      BY <1>1, <1>2, <2>3
    <3> QED
      BY <1>2, <1>6, <1>7, <2>3, <3>1
  <2>4. CASE i \in (n + 2)..(n + 1 + m)
    <3>1. i \in (n + 1)..(n + 1 + m) /\ n + m + 2 - i \in 1..m /\ i # n
      BY <1>1, <1>2, <2>4
    <3> QED
      BY <1>2, <1>6, <1>7, <2>4, <3>1
  <2> QED
    BY <1>1, <1>2, <2>1, <2>2, <2>3, <2>4
<1>10. new = [old EXCEPT ![n] = q]
  BY <1>7, <1>8, <1>9, SameList
<1> QED
  BY <1>10 DEF old, new

(* And back again. *)
LEMMA ListedForward ==
  ASSUME NEW b \in Seq(Place), NEW e \in Place, NEW f \in Seq(Place), f # <<>>,
         NEW q \in Stop
  PROVE  Listed(Append(b, e), q, Front(f))
           = [Listed(b, Entry(e), f) EXCEPT ![Len(b) + 2] = q]
<1> DEFINE n == Len(b)
           m == Len(f)
           old == Listed(b, Entry(e), f)
           new == Listed(Append(b, e), q, Front(f))
<1>1. /\ m \in Nat /\ m > 0 /\ Front(f) \in Seq(Place) /\ Len(Front(f)) = m - 1
      /\ \A i \in 1..(m - 1) : Front(f)[i] = f[i]
  BY FrontFields
<1>2. /\ n \in Nat /\ Append(b, e) \in Seq(Place) /\ Len(Append(b, e)) = n + 1
      /\ \A i \in 1..n : Append(b, e)[i] = b[i]
      /\ Append(b, e)[n + 1] = e
  OBVIOUS
<1>3. Entry(e) \in Stop
  BY DEF Entry, Place, Stop
<1>4. Spells(old, b, n, Entry(e), f, m)
  BY <1>3, ListedType
<1>5. Spells(new, Append(b, e), n + 1, q, Front(f), m - 1)
  BY <1>1, <1>2, ListedType
<1> HIDE DEF old, new
<1>6. /\ old \in Seq(Stop) /\ Len(old) = n + 1 + m
      /\ \A i \in 1..n : old[i] = Entry(b[i])
      /\ old[n + 1] = Entry(e)
      /\ \A i \in (n + 2)..(n + 1 + m) : old[i] = Entry(f[n + m + 2 - i])
  BY <1>4 DEF Spells
<1>7. /\ new \in Seq(Stop) /\ Len(new) = n + 1 + m
      /\ \A i \in 1..(n + 1) : new[i] = Entry(Append(b, e)[i])
      /\ new[n + 2] = q
      /\ \A i \in (n + 3)..(n + 1 + m) : new[i] = Entry(Front(f)[n + m + 2 - i])
  <2>1. /\ new \in Seq(Stop) /\ Len(new) = n + 1 + 1 + (m - 1)
        /\ \A i \in 1..(n + 1) : new[i] = Entry(Append(b, e)[i])
        /\ new[n + 1 + 1] = q
        /\ \A i \in (n + 1 + 2)..(n + 1 + 1 + (m - 1)) :
             new[i] = Entry(Front(f)[n + 1 + (m - 1) + 2 - i])
    BY <1>5 DEF Spells
  <2>2. n \in Nat /\ m \in Nat
    BY <1>1, <1>2
  <2> HIDE DEF n, m
  <2>3. n + 1 + 1 + (m - 1) = n + 1 + m /\ n + 1 + 1 = n + 2
    BY <2>2
  <2>4. ASSUME NEW i \in (n + 3)..(n + 1 + m)
        PROVE  new[i] = Entry(Front(f)[n + m + 2 - i])
    <3>1. /\ i \in (n + 1 + 2)..(n + 1 + 1 + (m - 1))
          /\ n + 1 + (m - 1) + 2 - i = n + m + 2 - i
      BY <2>2
    <3> QED
      BY <2>1, <3>1
  <2> QED
    BY <2>1, <2>3, <2>4
<1>8. /\ [old EXCEPT ![n + 2] = q] \in Seq(Stop)
      /\ Len([old EXCEPT ![n + 2] = q]) = n + 1 + m
      /\ \A i \in 1..(n + 1 + m) :
           [old EXCEPT ![n + 2] = q][i] = IF i = n + 2 THEN q ELSE old[i]
  BY <1>1, <1>2, <1>6
<1>9. ASSUME NEW i \in 1..(n + 1 + m)
      PROVE  new[i] = IF i = n + 2 THEN q ELSE old[i]
  <2>1. CASE i \in 1..n
    <3>1. i # n + 2 /\ i \in 1..(n + 1)
      BY <1>2, <2>1
    <3> QED
      BY <1>2, <1>6, <1>7, <2>1, <3>1
  <2>2. CASE i = n + 1
    <3>1. i # n + 2 /\ i \in 1..(n + 1)
      BY <1>2, <2>2
    <3> QED
      BY <1>2, <1>6, <1>7, <2>2, <3>1
  <2>3. CASE i = n + 2
    BY <1>7, <2>3
  <2>4. CASE i \in (n + 3)..(n + 1 + m)
    <3>1. i \in (n + 2)..(n + 1 + m) /\ n + m + 2 - i \in 1..(m - 1) /\ i # n + 2
      BY <1>1, <1>2, <2>4
    <3> QED
      BY <1>1, <1>6, <1>7, <2>4, <3>1
  <2> QED
    BY <1>1, <1>2, <2>1, <2>2, <2>3, <2>4
<1>10. new = [old EXCEPT ![n + 2] = q]
  BY <1>7, <1>8, <1>9, SameList
<1> QED
  BY <1>10 DEF old, new

----------------------------------------------------------------------------
(* The refinement, command by command.                                     *)

(* What the mapping makes of a session that shows a page. *)
LEMMA Mapped ==
  ASSUME SessionInv, sess.has
  PROVE  /\ sess.back \in Seq(Place) /\ sess.fwd \in Seq(Place)
         /\ Shown \in Stop /\ Here \in Place /\ Entry(Here) = Shown
         /\ Shown.url = sess.page.url /\ Shown.pos = pos
         /\ Trail = Listed(sess.back, Shown, sess.fwd)
         /\ Spells(Trail, sess.back, Len(sess.back), Shown, sess.fwd, Len(sess.fwd))
         /\ Cursor = Len(sess.back) + 1
         /\ H!Left = Trail
<1>1. sess.back \in Seq(Place) /\ sess.fwd \in Seq(Place) /\ sess.page.url \in Url
      /\ pos \in Offset
  BY DEF SessionInv, Sound, Sessions
<1>2. /\ Shown \in Stop /\ Here \in Place /\ Entry(Here) = Shown
      /\ Shown.url = sess.page.url /\ Shown.pos = pos
  BY <1>1 DEF Shown, Stop, Here, Place, Entry
<1>3. Trail = Listed(sess.back, Shown, sess.fwd)
  BY DEF Trail, Listed, Entry
<1>4. Cursor = Len(sess.back) + 1
  BY DEF Cursor
<1>5. Spells(Trail, sess.back, Len(sess.back), Shown, sess.fwd, Len(sess.fwd))
  BY <1>1, <1>2, <1>3, ListedType
<1>6. H!Left = Trail
  <2>1. /\ Trail \in Seq(Stop) /\ Len(Trail) = Len(sess.back) + 1 + Len(sess.fwd)
        /\ Trail[Len(sess.back) + 1] = Shown
    BY <1>5 DEF Spells
  <2>2. Len(sess.back) \in Nat /\ Len(sess.fwd) \in Nat
    BY <1>1
  <2>3. H!Left = [Trail EXCEPT ![Cursor].pos = pos]
    BY <1>4, <2>2 DEF H!Left
  <2>4. [Trail[Cursor] EXCEPT !.pos = pos] = Trail[Cursor]
    BY <1>1, <1>2, <1>4, <2>1 DEF Stop
  <2>5. [Trail EXCEPT ![Cursor].pos = pos] = [Trail EXCEPT ![Cursor] = Trail[Cursor]]
    BY <2>4
  <2>6. [Trail EXCEPT ![Cursor] = Trail[Cursor]] = Trail
    BY <2>1, Rewritten
  <2> QED
    BY <2>3, <2>5, <2>6
<1> QED
  BY <1>1, <1>2, <1>3, <1>4, <1>6, <1>5

(* The same of the next state. *)
LEMMA MappedNext ==
  ASSUME SessionInv', sess'.has
  PROVE  /\ sess'.back \in Seq(Place) /\ sess'.fwd \in Seq(Place)
         /\ Shown' \in Stop /\ Shown' = [url |-> sess'.page.url, pos |-> pos']
         /\ sess'.page.url \in Url /\ pos' \in Offset
         /\ Trail' = Listed(sess'.back, Shown', sess'.fwd)
         /\ Cursor' = Len(sess'.back) + 1
<1>1. sess'.back \in Seq(Place) /\ sess'.fwd \in Seq(Place) /\ sess'.page.url \in Url
      /\ pos' \in Offset
  BY DEF SessionInv, Sound, Sessions
<1>2. Shown' \in Stop /\ Shown' = [url |-> sess'.page.url, pos |-> pos']
  BY <1>1 DEF Shown, Stop
<1>3. Trail' = Listed(sess'.back, Shown', sess'.fwd)
  BY DEF Trail, Listed, Entry
<1>4. Cursor' = Len(sess'.back) + 1
  BY DEF Cursor
<1> QED
  BY <1>1, <1>2, <1>3, <1>4

(* Visit and Post are visits. *)
LEMMA VisitMaps ==
  ASSUME ~ CanFail, SessionInv, NEW u \in Url, Visit(u) \/ Post(u)
  PROVE  H!Visit
<1>1. /\ SessionInv' /\ sess'.has /\ sess'.fwd = <<>>
      /\ sess'.back = IF sess.has THEN Append(sess.back, Here) ELSE <<>>
  BY VisitStep
<1>2. SUFFICES /\ Trail' = Append(SubSeq(H!Left, 1, Cursor), Shown')
               /\ Cursor' = Cursor + 1
  BY <1>1, <1>2, MappedNext DEF H!Visit
<1>3. CASE sess.has
  <2>1. Cursor' = Cursor + 1
    <3>1. sess.back \in Seq(Place) /\ Cursor = Len(sess.back) + 1
      BY <1>3, Mapped
    <3>2. Cursor' = Len(Append(sess.back, Here)) + 1
      BY <1>1, <1>3, MappedNext
    <3>3. Len(Append(sess.back, Here)) = Len(sess.back) + 1
      BY <3>1
    <3> QED
      BY <3>1, <3>2, <3>3
  <2>2. Trail' = Listed(Append(sess.back, Here), Shown', <<>>)
    BY <1>1, <1>3, MappedNext
  <2>3. Listed(Append(sess.back, Here), Shown', <<>>)
          = Append(SubSeq(Listed(sess.back, Entry(Here), sess.fwd), 1,
                          Len(sess.back) + 1), Shown')
    BY <1>1, <1>3, Mapped, MappedNext, ListedVisit
  <2> QED
    BY <1>3, <2>1, <2>2, <2>3, Mapped
<1>4. CASE ~ sess.has
  <2>1. Trail = <<>> /\ Cursor = 0
    BY <1>4 DEF Trail, Cursor
  <2>2. H!Left = <<>>
    BY <2>1 DEF H!Left
  <2>3. Trail' = Listed(<<>>, Shown', <<>>) /\ Cursor' = 1
    BY <1>1, <1>4, MappedNext
  <2>4. Listed(<<>>, Shown', <<>>) = <<Shown'>>
    <3> DEFINE q == Shown'
    <3>1. q \in Stop
      BY <1>1, MappedNext
    <3>2. <<>> \in Seq(Place) /\ Len(<<>>) = 0
      OBVIOUS
    <3>3. Spells(Listed(<<>>, q, <<>>), <<>>, 0, q, <<>>, 0)
      BY <3>1, <3>2, ListedType
    <3> HIDE DEF q
    <3>4. /\ Listed(<<>>, q, <<>>) \in Seq(Stop) /\ Len(Listed(<<>>, q, <<>>)) = 1
          /\ Listed(<<>>, q, <<>>)[1] = q
      BY <3>3 DEF Spells
    <3>5. <<q>> \in Seq(Stop) /\ Len(<<q>>) = 1 /\ <<q>>[1] = q
      BY <3>1
    <3>6. Listed(<<>>, q, <<>>) = <<q>>
      BY <3>4, <3>5, SameList
    <3> QED
      BY <3>6 DEF q
  <2>5. Append(SubSeq(<<>>, 1, 0), Shown') = <<Shown'>>
    <3>1. SubSeq(<<>>, 1, 0) = <<>>
      OBVIOUS
    <3>2. \A q : Append(<<>>, q) = <<q>>
      OBVIOUS
    <3> QED
      BY <3>1, <3>2
  <2> QED
    BY <2>1, <2>2, <2>3, <2>4, <2>5
<1> QED
  BY <1>3, <1>4

(* Returning to entry i: the list with that entry replaced. *)
LEMMA ReturnMaps ==
  ASSUME SessionInv, sess.has, SessionInv', sess'.has, NEW i \in 1..Len(Trail),
         Cursor' = i, pos' = Trail[i].pos,
         Trail' = [Trail EXCEPT ![i] = Shown']
  PROVE  H!Return(i)
<1>1. Trail \in Seq(Stop) /\ H!Left = Trail
  BY Mapped DEF Spells
<1>2. Shown' = [url |-> sess'.page.url, pos |-> pos'] /\ sess'.page.url \in Url
  BY MappedNext
<1>3. Trail[i] \in Stop
  BY <1>1
<1>4. [Trail[i] EXCEPT !.url = sess'.page.url] = Shown'
  BY <1>2, <1>3 DEF Stop
<1>5. [Trail EXCEPT ![i].url = sess'.page.url] = [Trail EXCEPT ![i] = Shown']
  BY <1>4
<1> QED
  BY <1>1, <1>2, <1>5 DEF H!Return

(* GoBack is a step back. *)
LEMMA BackMaps ==
  ASSUME ~ CanFail, SessionInv, GoBack
  PROVE  H!Back
<1> DEFINE n == Len(sess.back)
<1>1. /\ SessionInv' /\ sess'.has /\ sess.has
      /\ sess'.back = Front(sess.back) /\ sess'.fwd = Append(sess.fwd, Here)
      /\ pos' = Last(sess.back).anchor
  BY BackStep
<1>2. /\ sess.back \in Seq(Place) /\ sess.back # <<>> /\ sess.fwd \in Seq(Place)
      /\ Here \in Place /\ Shown \in Stop /\ Entry(Here) = Shown
      /\ Trail = Listed(sess.back, Shown, sess.fwd) /\ Cursor = n + 1
  BY <1>1, Mapped DEF GoBack
<1>3. /\ n \in Nat /\ n > 0 /\ Len(Front(sess.back)) = n - 1
      /\ Last(sess.back) = sess.back[n]
  BY <1>2, FrontFields
<1>4. /\ Trail' = Listed(Front(sess.back), Shown', Append(sess.fwd, Here))
      /\ Cursor' = n - 1 + 1 /\ Shown' \in Stop
  BY <1>1, <1>3, MappedNext
<1>5. Trail' = [Trail EXCEPT ![n] = Shown']
  BY <1>2, <1>4, ListedBack
<1>6. Trail[n] = Entry(sess.back[n]) /\ n \in 1..Len(Trail) /\ n \in 1..Len(sess.back)
  <2> DEFINE m == Len(sess.fwd)
  <2>1. Spells(Trail, sess.back, n, Shown, sess.fwd, m)
    BY <1>1, Mapped
  <2>2. m \in Nat /\ n \in Nat /\ n > 0 /\ n = Len(sess.back)
    BY <1>2, <1>3
  <2> HIDE DEF n, m
  <2>3. Len(Trail) = n + 1 + m /\ \A i \in 1..n : Trail[i] = Entry(sess.back[i])
    BY <2>1 DEF Spells
  <2>4. n \in 1..n /\ n \in 1..(n + 1 + m)
    BY <2>2
  <2> QED
    BY <2>2, <2>3, <2>4
<1>7. pos' = Trail[n].pos
  BY <1>1, <1>3, <1>6 DEF Entry
<1>8. Cursor' = n
  BY <1>3, <1>4
<1>9. H!Return(n)
  BY <1>1, <1>5, <1>6, <1>7, <1>8, ReturnMaps
<1>10. Cursor > 1 /\ Cursor - 1 = n
  BY <1>2, <1>3
<1> HIDE DEF n
<1> QED
  BY <1>9, <1>10 DEF H!Back

(* GoForward is a step forward. *)
LEMMA ForwardMaps ==
  ASSUME ~ CanFail, SessionInv, GoForward
  PROVE  H!Forward
<1> DEFINE n == Len(sess.back)
           m == Len(sess.fwd)
<1>1. /\ SessionInv' /\ sess'.has /\ sess.has
      /\ sess'.fwd = Front(sess.fwd) /\ sess'.back = Append(sess.back, Here)
      /\ pos' = Last(sess.fwd).anchor
  BY ForwardStep
<1>2. /\ sess.back \in Seq(Place) /\ sess.fwd # <<>> /\ sess.fwd \in Seq(Place)
      /\ Here \in Place /\ Shown \in Stop /\ Entry(Here) = Shown
      /\ Trail = Listed(sess.back, Shown, sess.fwd) /\ Cursor = n + 1
  BY <1>1, Mapped DEF GoForward
<1>3. /\ n \in Nat /\ m \in Nat /\ m > 0 /\ Last(sess.fwd) = sess.fwd[m]
      /\ Len(Append(sess.back, Here)) = n + 1
  <2>1. m \in Nat /\ m > 0 /\ Last(sess.fwd) = sess.fwd[m]
    BY <1>2, FrontFields
  <2>2. n \in Nat /\ Len(Append(sess.back, Here)) = n + 1
    BY <1>2
  <2> QED
    BY <2>1, <2>2
<1>4. /\ Trail' = Listed(Append(sess.back, Here), Shown', Front(sess.fwd))
      /\ Cursor' = n + 1 + 1 /\ Shown' \in Stop
  BY <1>1, <1>3, MappedNext
<1>5. Trail' = [Trail EXCEPT ![n + 2] = Shown']
  BY <1>2, <1>4, ListedForward
<1>6. Trail[n + 2] = Entry(sess.fwd[m]) /\ n + 2 \in 1..Len(Trail)
      /\ Cursor < Len(Trail)
  <2>1. Spells(Trail, sess.back, n, Shown, sess.fwd, m)
    BY <1>1, Mapped
  <2> HIDE DEF n, m
  <2>2. /\ Len(Trail) = n + 1 + m
        /\ \A i \in (n + 2)..(n + 1 + m) : Trail[i] = Entry(sess.fwd[n + m + 2 - i])
    BY <2>1 DEF Spells
  <2>3. /\ n + 2 \in (n + 2)..(n + 1 + m) /\ n + m + 2 - (n + 2) = m
        /\ n + 2 \in 1..(n + 1 + m) /\ n + 1 < n + 1 + m
    BY <1>3
  <2>4. Trail[n + 2] = Entry(sess.fwd[n + m + 2 - (n + 2)])
    BY <2>2, <2>3
  <2> QED
    BY <1>2, <2>2, <2>3, <2>4
<1>7. pos' = Trail[n + 2].pos
  BY <1>1, <1>3, <1>6 DEF Entry
<1>8. Cursor' = n + 2
  BY <1>3, <1>4
<1>9. H!Return(n + 2)
  BY <1>1, <1>5, <1>6, <1>7, <1>8, ReturnMaps
<1>10. Cursor + 1 = n + 2
  BY <1>2, <1>3
<1> HIDE DEF n
<1> QED
  BY <1>6, <1>9, <1>10 DEF H!Forward

(* DoReload is a reload. *)
LEMMA ReloadMaps ==
  ASSUME ~ CanFail, SessionInv, DoReload
  PROVE  H!Reload
<1> DEFINE n == Len(sess.back)
<1>1. /\ SessionInv' /\ sess'.has /\ sess.has
      /\ sess'.fwd = sess.fwd /\ sess'.back = sess.back /\ pos' = pos
  BY ReloadStep
<1>2. /\ sess.back \in Seq(Place) /\ sess.fwd \in Seq(Place)
      /\ Shown \in Stop /\ Shown.pos = pos
      /\ Trail = Listed(sess.back, Shown, sess.fwd) /\ Cursor = n + 1
  BY <1>1, Mapped
<1>3. /\ Trail' = Listed(sess.back, Shown', sess.fwd) /\ Cursor' = n + 1
      /\ Shown' \in Stop
  BY <1>1, MappedNext
<1>4. Trail' = [Trail EXCEPT ![n + 1] = Shown']
  BY <1>2, <1>3, ListedSame
<1>5. n \in Nat /\ Trail[n + 1] = Shown /\ n + 1 \in 1..Len(Trail)
  <2> DEFINE m == Len(sess.fwd)
  <2>1. n \in Nat /\ m \in Nat
    BY <1>2
  <2>2. Spells(Trail, sess.back, n, Shown, sess.fwd, m)
    BY <1>1, Mapped
  <2> HIDE DEF n, m
  <2>3. Len(Trail) = n + 1 + m /\ Trail[n + 1] = Shown
    BY <2>2 DEF Spells
  <2>4. n + 1 \in 1..(n + 1 + m)
    BY <2>1
  <2> QED
    BY <2>1, <2>3, <2>4
<1>6. H!Return(n + 1)
  BY <1>1, <1>2, <1>3, <1>4, <1>5, ReturnMaps
<1> HIDE DEF n
<1> QED
  BY <1>2, <1>5, <1>6 DEF H!Reload

(* Scrolling is reading. *)
LEMMA ScrollMaps ==
  ASSUME SessionInv, Scroll
  PROVE  H!Read
<1> DEFINE n == Len(sess.back)
<1>1. sess.has /\ sess' = sess /\ pos' \in Offset /\ SessionInv'
  BY DEF Scroll, SessionInv
<1>2. /\ sess.back \in Seq(Place) /\ sess.fwd \in Seq(Place)
      /\ Shown \in Stop /\ Shown.url = sess.page.url
      /\ Trail = Listed(sess.back, Shown, sess.fwd) /\ Cursor = n + 1
  BY <1>1, Mapped
<1>3. /\ Trail' = Listed(sess.back, Shown', sess.fwd) /\ Cursor' = n + 1
      /\ Shown' \in Stop /\ Shown' = [url |-> sess.page.url, pos |-> pos']
  BY <1>1, MappedNext
<1>4. Trail' = [Trail EXCEPT ![n + 1] = Shown']
  BY <1>2, <1>3, ListedSame
<1>5. n \in Nat /\ Trail[n + 1] = Shown
  <2>1. Trail[n + 1] = Shown
    BY <1>1, Mapped DEF Spells
  <2> QED
    BY <1>2, <2>1
<1>6. [Trail[n + 1] EXCEPT !.pos = pos'] = Shown'
  BY <1>2, <1>3, <1>5 DEF Stop
<1>7. [Trail EXCEPT ![n + 1].pos = pos'] = [Trail EXCEPT ![n + 1] = Shown']
  BY <1>6
<1>8. Cursor # 0
  BY <1>2, <1>5
<1> HIDE DEF n
<1> QED
  BY <1>1, <1>2, <1>3, <1>4, <1>7, <1>8 DEF H!Read

(* The refinement (KeepsHistory), for any documents, fragments, positions, *)
(* widths and length of history, when no fetch ends in an error page:      *)
(* browse_navigate_request, browse_back, browse_forward, browse_reload and *)
(* browse_relayout with the anchors that the front end saves and restores  *)
(* do to two stacks and a page what History does to one list.              *)
THEOREM HistoryTheorem ==
  ASSUME CanFail = FALSE
  PROVE  SessionSpec => KeepsHistory
<1>1. SessionInit => H!HistoryInit
  BY SessionAssumption DEF SessionInit, H!HistoryInit, Trail, Cursor
<1>2. SessionInv /\ [SessionNext]_svars => [H!HistoryNext]_(H!historyVars)
  <2> SUFFICES ASSUME SessionInv, [SessionNext]_svars
               PROVE  [H!HistoryNext]_(H!historyVars)
    OBVIOUS
  <2>1. CASE \E u \in Url : Visit(u) \/ Post(u)
    BY <2>1, VisitMaps DEF H!HistoryNext
  <2>2. CASE GoBack
    BY <2>2, BackMaps DEF H!HistoryNext
  <2>3. CASE GoForward
    BY <2>3, ForwardMaps DEF H!HistoryNext
  <2>4. CASE DoReload
    BY <2>4, ReloadMaps DEF H!HistoryNext
  <2>5. CASE Scroll
    BY <2>5, ScrollMaps DEF H!HistoryNext
  <2>6. CASE \E w \in Width : Relayout(w)
    <3>1. /\ sess.has /\ sess'.has /\ sess'.page.url = sess.page.url
          /\ sess'.back = sess.back /\ sess'.fwd = sess.fwd /\ pos' = pos
      BY <2>6, RelayoutStep
    <3>2. Trail' = Trail /\ Cursor' = Cursor
      BY <3>1 DEF Trail, Cursor, Shown
    <3> QED
      BY <3>1, <3>2 DEF H!historyVars
  <2>7. CASE UNCHANGED svars
    <3>1. sess' = sess /\ pos' = pos
      BY <2>7 DEF svars
    <3>2. Trail' = Trail /\ Cursor' = Cursor
      BY <3>1 DEF Trail, Cursor, Shown
    <3> QED
      BY <3>1, <3>2 DEF H!historyVars
  <2> QED
    BY <2>1, <2>2, <2>3, <2>4, <2>5, <2>6, <2>7 DEF SessionNext, Navigation
<1> QED
  BY <1>1, <1>2, SessionAlways, PTL DEF SessionSpec, KeepsHistory, H!HistorySpec
=============================================================================
