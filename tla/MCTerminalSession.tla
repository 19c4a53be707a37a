------------------------- MODULE MCTerminalSession -------------------------
(* An instance of TerminalSession for TLC.                                 *)
EXTENDS TerminalSession
CONSTANTS d1
=============================================================================
