---------------------------- MODULE MCCameraBridge ----------------------------
(* Small instances of CameraBridge for TLC.                                  *)
EXTENDS CameraBridge
================================================================================
