-------------------------------- MODULE Tui --------------------------------
(***************************************************************************)
(* The terminal front end (src/src/tui.odin, tui_runtime.odin,             *)
(* tui_find.odin, tui_mouse.odin).  One pass of tui_loop handles every     *)
(* event that one read delivered, lays the page out again after a resize,  *)
(* takes in the images that arrived and draws.  The page may be replaced   *)
(* several times before the next draw; what the front end keeps about it   *)
(* (hint numbers, field editors, find matches, pixels) must follow.        *)
(*                                                                         *)
(* A key stands for all keys that the handler treats alike.  Scrolling     *)
(* only asks for a redraw here; which links a viewport shows is free.      *)
(***************************************************************************)
EXTENDS Integers, Sequences, SequencesExt

CONSTANTS MaxLinks,    \* links on a page: 0..MaxLinks
          FieldLists,  \* the lists of field kinds that a page may have
          MaxLayout    \* bound on the layouts made

ASSUME TuiAssumption == MaxLinks \in Nat /\ MaxLayout \in Nat

VARIABLES page,    \* sess.page: [born, links, fields]; born is its first layout
          layout,  \* the number of the layout that page holds now
          t,       \* the Tui struct
          shown,   \* the layout that the terminal shows, 0 for a blank page
          at       \* "input", "resize", "poll", "draw"; "quit", "abort"

tvars == <<page, layout, t, shown, at>>

NoHint == -1
NoMatches == [layout |-> 0, n |-> 0]
Blank == 0

(* The fields that have an editor: all but the hidden ones. *)
EditsOf(pg) == SelectSeq([i \in 1..Len(pg.fields) |-> i],
                         LAMBDA i : pg.fields[i] # "hidden")

Kind == page.fields[t.edits[t.focus]]

Mode == IF t.url_active THEN "url"
        ELSE IF t.find_active THEN "find"
        ELSE IF t.focus > 0 THEN "field" ELSE "page"

----------------------------------------------------------------------------
(* Pieces of the handlers, as functions of the Tui struct. *)

ClearFind(tt) == [tt EXCEPT !.find_active = FALSE, !.query = FALSE,
                            !.matches = NoMatches, !.current = 0,
                            !.page_dirty = TRUE]

tui_sync_fields(tt, pg) ==
  [ClearFind(tt) EXCEPT !.edits = EditsOf(pg), !.focus = 0]

(* The end of tui_handle_key: a moved focus asks for a redraw. *)
Handled(tt) == [tt EXCEPT !.page_dirty = @ \/ tt.focus # t.focus]

(* tui_find_update on layout l: n matches, at most one of them kept. *)
FindUpdate(tt, q, l, n, keep) ==
  [tt EXCEPT !.query = q,
             !.matches = IF q /\ n > 0 THEN [layout |-> l, n |-> n] ELSE NoMatches,
             !.current = IF ~ q \/ n = 0 THEN 0 ELSE IF keep \in 1..n THEN keep ELSE 1,
             !.page_dirty = TRUE]

FindNext(tt, dir) ==
  LET n == tt.matches.n
  IN [tt EXCEPT !.current = ((@ - 1 + dir + n) % n) + 1, !.page_dirty = TRUE]

(* A navigation that rebuilds the page, with what each caller does next. *)
Rebuild(tt) ==
  /\ layout < MaxLayout
  /\ layout' = layout + 1
  /\ \E k \in 0..MaxLinks, fs \in FieldLists :
       page' = [born |-> layout + 1, links |-> k, fields |-> fs]
  /\ t' = tui_sync_fields(tt, page')
  /\ UNCHANGED <<shown, at>>

(* A navigation within the page. *)
Stay(tt) ==
  /\ t' = [tt EXCEPT !.page_dirty = TRUE]
  /\ UNCHANGED <<page, layout, shown, at>>

Update(tt) == t' = Handled(tt) /\ UNCHANGED <<page, layout, shown, at>>

Leave == at' = "quit" /\ UNCHANGED <<page, layout, t, shown>>

----------------------------------------------------------------------------
KeyIn(mode) == at = "input" /\ ~ t.pasting /\ Mode = mode

(* tui_handle_key with no editor open. *)
TypeHint ==
  /\ KeyIn("page")
  /\ \E n \in 0..MaxLinks + 1 : Update([t EXCEPT !.hint = n])

ClearHint == KeyIn("page") /\ Update([t EXCEPT !.hint = NoHint])

(* tui_follow_hint; an index past the links of the page stops the program. *)
FollowHint ==
  /\ KeyIn("page") /\ t.hint # NoHint
  /\ LET cleared == [t EXCEPT !.hint = NoHint]
     IN \/ /\ t.hint \notin 1..Len(t.vis)
           /\ Update(cleared)
        \/ /\ t.hint \in 1..Len(t.vis) /\ t.vis[t.hint] > page.links
           /\ at' = "abort"
           /\ UNCHANGED <<page, layout, t, shown>>
        \/ /\ t.hint \in 1..Len(t.vis) /\ t.vis[t.hint] <= page.links
           /\ Rebuild(cleared) \/ Stay(cleared)

(* Back and forward; nothing happens at the end of the history. *)
HistoryKey == KeyIn("page") /\ (Rebuild(t) \/ Stay(t))
ReloadKey == KeyIn("page") /\ Rebuild(t)
ScrollKey == KeyIn("page") /\ Update([t EXCEPT !.page_dirty = TRUE])

OpenUrlBar == KeyIn("page") /\ Update([t EXCEPT !.url_active = TRUE])
FindNextKey ==
  KeyIn("page") /\ t.matches.n > 0 /\ \E dir \in {1, -1} : Update(FindNext(t, dir))

tui_find_start ==
  /\ KeyIn("page")
  /\ Update([t EXCEPT !.find_active = TRUE, !.query = FALSE,
                      !.matches = NoMatches, !.current = 0])

(* tui_focus_move, from the page or from a field. *)
FocusMove ==
  /\ KeyIn("page") \/ KeyIn("field")
  /\ t.edits # <<>>
  /\ \E dir \in {1, -1} :
       LET n == Len(t.edits)
       IN Update([t EXCEPT !.focus = IF @ = 0 THEN (IF dir > 0 THEN 1 ELSE n)
                                     ELSE ((@ - 1 + dir + n) % n) + 1])

(* q with no editor open, Ctrl-C and Ctrl-D everywhere. *)
QuitKey == at = "input" /\ ~ t.pasting /\ Leave

(* tui_url_key: Esc, or Enter on an empty bar; Enter on a URL. *)
CloseUrlBar == KeyIn("url") /\ Update([t EXCEPT !.url_active = FALSE])

(* Fault of tui_navigate_bar: the field editors are not rebuilt. *)
CommitWithoutSync ==
  /\ KeyIn("url") /\ layout < MaxLayout
  /\ layout' = layout + 1
  /\ \E k \in 0..MaxLinks, fs \in FieldLists :
       page' = [born |-> layout + 1, links |-> k, fields |-> fs]
  /\ t' = ClearFind([t EXCEPT !.url_active = FALSE, !.hint = NoHint])
  /\ UNCHANGED <<shown, at>>

CommitUrl ==
  /\ KeyIn("url")
  /\ LET closed == [t EXCEPT !.url_active = FALSE, !.hint = NoHint]
     IN Rebuild(closed) \/ Stay(closed)

(* tui_find_key. *)
FindTyped ==
  \E q \in BOOLEAN, n \in 0..2 : Update(FindUpdate(t, q, layout, n, 0))
FindType == KeyIn("find") /\ FindTyped
FindClose == KeyIn("find") /\ Update([t EXCEPT !.find_active = FALSE])
FindEscape == KeyIn("find") /\ Update(ClearFind(t))
FindStep ==
  KeyIn("find") /\ t.matches.n > 0 /\ \E dir \in {1, -1} : Update(FindNext(t, dir))

(* tui_press_button: nothing to submit, a submission that stays on the     *)
(* page, or one that leads to another.                                     *)
PressButton(tt) ==
  LET pressed == [tt EXCEPT !.focus = 0]
  IN \/ t' = pressed /\ UNCHANGED <<page, layout, shown, at>>
     \/ t' = tui_sync_fields(pressed, page) /\ UNCHANGED <<page, layout, shown, at>>
     \/ Rebuild(pressed)

(* tui_field_key. *)
FieldType == KeyIn("field") /\ Kind \in {"text", "area"} /\ Update([t EXCEPT !.page_dirty = TRUE])
FieldEnter == KeyIn("field") /\ Kind # "area" /\ PressButton([t EXCEPT !.page_dirty = TRUE])
FieldBlur == KeyIn("field") /\ Update([t EXCEPT !.focus = 0])

(* tui_handle_mouse: a left press closes an open bar; else it acts on what *)
(* the page has there: a field, a link or nothing.                         *)
Click == at = "input" /\ ~ t.pasting
ClickBar ==
  /\ Click /\ Mode \in {"url", "find"}
  /\ Update([t EXCEPT !.url_active = FALSE,
                      !.find_active = IF Mode = "find" THEN FALSE ELSE @])
OnPage == Click /\ t.drawable /\ Mode \in {"page", "field"}
ClickField ==
  /\ OnPage
  /\ \E e \in 1..Len(t.edits) :
       LET focused == [t EXCEPT !.focus = e]
       IN IF page.fields[t.edits[e]] = "submit" THEN PressButton(focused)
          ELSE Update(focused)
ClickLink == OnPage /\ page.links > 0 /\ (Rebuild(t) \/ Stay(t))
ClickBlank == OnPage /\ Update([t EXCEPT !.focus = 0])
Wheel == Click /\ Update([t EXCEPT !.page_dirty = TRUE])

(* Bracketed paste: Enter and Tab become text, other special keys and all  *)
(* input without an open editor are dropped.                               *)
PasteMark == at = "input" /\ Update([t EXCEPT !.pasting = ~ @])

PastedKey ==
  /\ at = "input" /\ t.pasting
  /\ \/ Mode = "find" /\ \E n \in 0..2 : Update(FindUpdate(t, TRUE, layout, n, 0))
     \/ Mode = "field" /\ Kind \in {"text", "area"} /\ Update([t EXCEPT !.page_dirty = TRUE])

----------------------------------------------------------------------------
(* The rest of a pass of tui_loop. *)
(* While the cell size is unknown the loop reads on, at "input", without   *)
(* drawing.                                                                *)
EndInput == at = "input" /\ at' = "resize" /\ UNCHANGED <<page, layout, t, shown>>

SameSize == at = "resize" /\ at' = "poll" /\ UNCHANGED <<page, layout, t, shown>>

(* Another geometry without a layout: the viewport cannot be drawn, or the *)
(* width is the same, or the page is an error page.                        *)
ResizeOnly ==
  /\ at = "resize" /\ at' = "poll"
  /\ \E d \in BOOLEAN : t' = [t EXCEPT !.drawable = d, !.page_dirty = TRUE]
  /\ UNCHANGED <<page, layout, shown>>

(* browse_relayout at another width; find is computed again. *)
ResizeRelayout ==
  /\ at = "resize" /\ at' = "poll" /\ layout < MaxLayout
  /\ layout' = layout + 1
  /\ \E n \in 0..2 :
       t' = FindUpdate([t EXCEPT !.drawable = TRUE], t.query, layout + 1, n, t.current)
  /\ UNCHANGED <<page, shown>>

NoImages == at = "poll" /\ at' = "draw" /\ UNCHANGED <<page, layout, t, shown>>

(* Fault: the refreshed page is not drawn. *)
ImageRefreshQuiet ==
  /\ at = "poll" /\ at' = "draw" /\ layout < MaxLayout
  /\ layout' = layout + 1
  /\ UNCHANGED <<page, t, shown>>

(* img_async_poll installed something: browse_relayout at the same width.  *)
ImageRefresh ==
  /\ at = "poll" /\ at' = "draw" /\ layout < MaxLayout
  /\ layout' = layout + 1
  /\ t' = [t EXCEPT !.page_dirty = TRUE]
  /\ UNCHANGED <<page, shown>>

(* tui_draw: the pixels and the hint numbers of the links in view. *)
Draw ==
  /\ at = "draw" /\ at' = "input"
  /\ IF t.page_dirty /\ t.drawable
     THEN \E lo \in 1..page.links + 1, hi \in 0..page.links :
            /\ t' = [t EXCEPT !.vis = [i \in 1..(hi - lo + 1) |-> lo + i - 1],
                              !.page_dirty = FALSE]
            /\ shown' = layout
     ELSE IF t.page_dirty
     THEN t' = [t EXCEPT !.vis = <<>>, !.page_dirty = FALSE] /\ shown' = Blank
     ELSE UNCHANGED <<t, shown>>
  /\ UNCHANGED <<page, layout>>

(* tui_loop up to its first pass: the start page is loaded. *)
TuiInit ==
  /\ layout = 1
  /\ page \in [born : {1}, links : 0..MaxLinks, fields : FieldLists]
  /\ t = [vis |-> <<>>, hint |-> NoHint, url_active |-> FALSE, find_active |-> FALSE,
          query |-> FALSE, matches |-> NoMatches, current |-> 0, focus |-> 0,
          edits |-> EditsOf(page), pasting |-> FALSE, page_dirty |-> TRUE,
          drawable |-> TRUE]
  /\ shown = Blank
  /\ at = "input"

Input ==
  \/ TypeHint \/ ClearHint \/ FollowHint \/ HistoryKey \/ ReloadKey \/ ScrollKey
  \/ OpenUrlBar \/ FindNextKey \/ tui_find_start \/ FocusMove \/ QuitKey
  \/ CloseUrlBar \/ CommitUrl
  \/ FindType \/ FindClose \/ FindEscape \/ FindStep
  \/ FieldType \/ FieldEnter \/ FieldBlur
  \/ ClickBar \/ ClickField \/ ClickLink \/ ClickBlank \/ Wheel
  \/ PasteMark \/ PastedKey

Pass == \/ EndInput \/ SameSize \/ ResizeOnly \/ ResizeRelayout
        \/ NoImages \/ ImageRefresh \/ Draw

TuiNext == Input \/ Pass

TuiSpec == TuiInit /\ [][TuiNext]_tvars

----------------------------------------------------------------------------

(* Every path that replaces the page rebuilds the field editors, also when *)
(* several keys of one read navigate: the editors are those of the page's  *)
(* own fields and the focus is on one of them, so that no keystroke goes   *)
(* to a field of an earlier page.  A key goes to one editor: the URL bar,  *)
(* the find bar and a focused field are never open together, whatever      *)
(* mixture of keys and clicks arrives.                                     *)
EditorsOfPage ==
  /\ t.edits = EditsOf(page) /\ t.focus \in 0..Len(t.edits)
  /\ ~ (t.url_active /\ t.find_active)
  /\ t.url_active \/ t.find_active => t.focus = 0

(* Whenever no redraw is due, the terminal shows the layout that the       *)
(* session holds; and the numbers of the hints it shows are indices into   *)
(* the links of the page when they are used, unless the page has been      *)
(* replaced since the last draw.                                           *)
ScreenShowsPage ==
  /\ ~ t.page_dirty /\ t.drawable => shown = layout
  /\ at = "abort" => page.born > shown

=============================================================================
