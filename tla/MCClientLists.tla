---------------------------- MODULE MCClientLists ----------------------------
(***************************************************************************)
(* ClientLists over three rows, two of which the server holds at first,    *)
(* one row to a page, and a filter that hides one of them.                 *)
(***************************************************************************)
EXTENDS ClientLists

MCRow == 1..3
MCFilters == {MCRow, {1, 3}}
==============================================================================
