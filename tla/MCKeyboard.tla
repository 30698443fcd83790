---------------------------- MODULE MCKeyboard ----------------------------
(***************************************************************************)
(* Keyboard with a ring of a few characters and a person who presses a few  *)
(* keys: a letter, both kinds of modifier, Caps Lock, an extended key, and  *)
(* those of Ctrl-Alt-Del.                                                   *)
(***************************************************************************)
EXTENDS Keyboard

\* A, both Shift keys, right Ctrl, Caps Lock, up, 8 of the keypad (the code of up
\* without the escape), left Alt, Del.
MCKeys == {30, 42, 54, 157, 58, 200, 72, 56, 211}
=============================================================================
