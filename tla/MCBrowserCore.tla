--------------------------- MODULE MCBrowserCore ---------------------------
(* BrowserCore with two clients, two contexts, two navigations and four    *)
(* commands; documents hold an image, an external or an inline script.     *)
(* One client drives the page while the other interferes.  Three slots let *)
(* a second context and one commit in, and refuse the second commit.  The  *)
(* channel holds two messages, so a command can wait behind the shutdown.  *)
EXTENDS BrowserCore
CONSTANTS a, b
MCOps == (a :> {"create", "navigate", "evaluate", "activate"}) @@
         (b :> {"navigate", "traverse", "stop", "close", "oversized"})
=============================================================================
