---------------------------- MODULE MCAppProcess ----------------------------
(* The applications of AppProcess: Desktop, one with two prep commands and *)
(* a process, one with one prep command and none.                          *)
EXTENDS AppProcess

CONSTANTS game, tool

MCApps == {Desktop, game, tool}
MCPlacebos == {Desktop, tool}
MCPreps == [a \in MCApps |-> CASE a = game -> 2 [] a = tool -> 1 [] OTHER -> 0]
=============================================================================
