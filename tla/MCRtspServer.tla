----------------------------- MODULE MCRtspServer -----------------------------
(* Small instances of RtspServer for TLC.                                    *)
EXTENDS RtspServer
================================================================================
