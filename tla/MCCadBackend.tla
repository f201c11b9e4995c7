---------------------------- MODULE MCCadBackend ----------------------------
(* CadBackend with three threads, at most three runs of the factory and one *)
(* use of the test hook.                                                    *)
EXTENDS CadBackend

CONSTANTS t1, t2, t3

MCThreads == {t1, t2, t3}
============================================================================
