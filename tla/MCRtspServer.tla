---------------------------- MODULE MCRtspServer ----------------------------
(* Model values and symmetry for RtspServer.                               *)
EXTENDS RtspServer, TLC

LaunchSymmetry == Permutations(Launches)
=============================================================================
