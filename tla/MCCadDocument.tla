--------------------------- MODULE MCCadDocument ---------------------------
(* CadDocument with three threads: the main thread, a worker, and a worker  *)
(* whose callbacks may release the source inside their own borrow.          *)
EXTENDS CadDocument

CONSTANTS main, w1, w2

MCThreads == {main, w1, w2}
MCReentrant == {w2}
============================================================================
