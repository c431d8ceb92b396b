-------------------------- MODULE MCProcessSpawner --------------------------
(* A program that writes two chunks on stderr, which overfill a pipe of capacity one. *)
EXTENDS ProcessSpawner

MCPrograms == {<<"err", "err">>}
=============================================================================
