------------------------------- MODULE MCWeb -------------------------------
(***************************************************************************)
(* A small instance of Web for TLC: one browser with room for a call for   *)
(* the session, a form and two loads of a list with different filters.     *)
(***************************************************************************)
EXTENDS Web

CONSTANTS b1, l1, x, y

MCBrowserOf == [c \in Calls |-> b1]
MCFilterOf == [c \in ListCalls |-> IF c = l1 THEN x ELSE y]
============================================================================
