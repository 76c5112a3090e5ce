---------------------------- MODULE MCHttpClient ----------------------------
(* One client of one server, for TLC.                                      *)
EXTENDS HttpClient
=============================================================================
