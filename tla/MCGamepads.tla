----------------------------- MODULE MCGamepads -----------------------------
(* Small instances of Gamepads.                                            *)
EXTENDS Gamepads

One == {<<"s1", 1>>}
Three == {<<"s1", 1>>, <<"s1", 2>>, <<"s2", 1>>}
=============================================================================
