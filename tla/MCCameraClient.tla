---------------------------- MODULE MCCameraClient ----------------------------
(* A small instance of CameraClient for TLC.                                 *)
EXTENDS CameraClient, TLC

Symmetry == Permutations(Did) \cup Permutations(Ptr)
================================================================================
