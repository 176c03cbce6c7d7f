---------------------------- MODULE MCBrowserPage ----------------------------
(* Two debates, one after the other or on top of each other, of two events   *)
(* each: the second may find the first's events, verdict or status there.    *)
EXTENDS BrowserPage
=============================================================================
