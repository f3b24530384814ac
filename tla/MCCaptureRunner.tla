-------------------------- MODULE MCCaptureRunner ---------------------------
(* Instances of CaptureRunner for TLC.  The runs check liveness, so they use *)
(* no symmetry.                                                              *)
EXTENDS CaptureRunner
=============================================================================
