--------------------------- MODULE MCCodexSession ---------------------------
(* The run of CodexSession: the server makes one request, under the id the *)
(* driver gives to turn/start, at any time.                                *)
EXTENDS CodexSession
=============================================================================
