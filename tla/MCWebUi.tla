------------------------------- MODULE MCWebUi -------------------------------
(* A small instance of WebUi for TLC: two drives and a directory on one. *)
EXTENDS WebUi

MCDirs == {<<"C">>, <<"E">>, <<"C", "D">>}
MCHome == <<"C">>
=============================================================================
