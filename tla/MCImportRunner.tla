--------------------------- MODULE MCImportRunner ---------------------------
(* Instances of ImportRunner for TLC.  The runs check liveness, so they use  *)
(* no symmetry.                                                              *)
EXTENDS ImportRunner
=============================================================================
