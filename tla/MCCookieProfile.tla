------------------------- MODULE MCCookieProfile -------------------------
(* Two origins, a host-only cookie and a domain cookie.                    *)
EXTENDS CookieProfile, TLC
CONSTANTS o1, o2
MCHostsOf == (1 :> {o1}) @@ (2 :> {o1, o2})
MCNameOf == (1 :> 1) @@ (2 :> 2)
==========================================================================
