------------------------------ MODULE MCParts ------------------------------
(* Four components of the terminal browser by themselves, checked one at a *)
(* time in one run: a behaviour steps the component in focus and leaves    *)
(* the others where they start.                                            *)
(*   memory    four keys, entries of 0 to 3 bytes, room for 4.             *)
(*   session   two documents, one fragment besides the missing one, two    *)
(*             reading positions, two widths and a history of three        *)
(*             entries besides the page.                                   *)
(*   images    four references to a page and two slots: a redirect, a      *)
(*             failed start and a waiting transfer fit together; images of *)
(*             1 and 2 units against a budget of 3.                        *)
(*   tui       pages with up to two links and with no field, a text field  *)
(*             before a button, or a text area after a hidden field.       *)
EXTENDS CacheMem, Session, ImgAsync, Tui

MCEntry == {[size |-> n] : n \in 0..3}
MCFieldLists == {<<>>, <<"text", "submit">>, <<"hidden", "area">>}

VARIABLE focus

(* Out of focus, a component starts in one of its initial states. *)
PartsInit ==
  /\ focus \in {"memory", "session", "images", "tui"}
  /\ MemInit /\ SessionInit /\ ImgInit /\ TuiInit
  /\ focus # "session" => \A w \in Width : sess.width <= w
  /\ focus # "images" => img_multi
  /\ focus # "tui" => page.links = 0 /\ page.fields = <<>>

(* The images and the terminal loop may come to rest. *)
PartsNext ==
  /\ UNCHANGED focus
  /\ \/ focus = "memory" /\ MemNext /\ UNCHANGED <<svars, ivars, tvars>>
     \/ focus = "session" /\ SessionNext /\ UNCHANGED <<cache, ivars, tvars>>
     \/ focus = "images" /\ ImgNext /\ UNCHANGED <<cache, svars, tvars>>
     \/ focus = "tui" /\ TuiNext /\ UNCHANGED <<cache, svars, ivars>>

PartsSpec == PartsInit /\ [][PartsNext]_<<focus, cache, svars, ivars, tvars>>
=============================================================================
