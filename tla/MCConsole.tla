----------------------------- MODULE MCConsole -----------------------------
(***************************************************************************)
(* Console on a screen of three rows of two cells, so that every line wraps *)
(* and scrolls.  A line may have five characters: its beginning can scroll  *)
(* off, as that of 4095 characters does on 25 rows of 80, and be erased     *)
(* beyond the top of the screen.  The longer text fills the print buffer    *)
(* more than once.                                                          *)
(***************************************************************************)
EXTENDS Console

MCTexts == { <<">">>, <<"b", "TAB", "NUL", ">", "LF", "BS">> }
=============================================================================
