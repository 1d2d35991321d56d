----------------------------- MODULE MCSession -----------------------------
(* Two documents, one fragment besides the missing one, two reading        *)
(* positions, two widths and a history of three entries besides the page.  *)
EXTENDS Session
=============================================================================
