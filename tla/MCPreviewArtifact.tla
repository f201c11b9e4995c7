------------------------- MODULE MCPreviewArtifact -------------------------
(* PreviewArtifact with two writers, one of which may be interrupted.       *)
EXTENDS PreviewArtifact

CONSTANTS v, w

MCWriters == {v, w}
MCInterrupted == {w}
============================================================================
