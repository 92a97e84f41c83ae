------------------------------- MODULE MCSite -------------------------------
(* A small instance of the site's pages. *)
EXTENDS Site

CONSTANTS open, locked, hidden
MCFiles == {open, locked, hidden}
=============================================================================
