--------------------------- MODULE MCBrowserFetch ---------------------------
(* Clients of one small rendering service, for TLC.                        *)
EXTENDS BrowserFetch
=============================================================================
