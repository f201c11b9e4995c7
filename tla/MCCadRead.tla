------------------------------ MODULE MCCadRead ------------------------------
(* CadRead with two files that other programs write and rename.             *)
EXTENDS CadRead

CONSTANTS a, b

MCFiles == {a, b}
==============================================================================
