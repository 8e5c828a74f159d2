------------------------------- MODULE MCTty -------------------------------
(***************************************************************************)
(* A ring of two bytes with every kind of byte.                          *)
(***************************************************************************)
EXTENDS Tty

CONSTANTS char

MCBytes == {char, Newline, EndOfText}
MCReceived == {CtrlC, Backspace, Return, EndOfText, char}
=============================================================================
