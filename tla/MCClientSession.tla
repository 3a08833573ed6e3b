--------------------------- MODULE MCClientSession ---------------------------
(***************************************************************************)
(* ClientSession with two users who take turns at one tab.                 *)
(***************************************************************************)
EXTENDS ClientSession
=============================================================================
