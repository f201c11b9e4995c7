--------------------------- MODULE MCCadOperations ---------------------------
(* CadOperations with two callers.  One of them owns the live session, may  *)
(* be interrupted and asks for everything; the other does not translate.    *)
EXTENDS CadOperations

CONSTANTS main, worker

MCCallers == {main, worker}
MCInterrupted == {main}
MCAsked == [c \in MCCallers |-> IF c = main THEN Modes ELSE Modes \ {"translate"}]
==============================================================================
