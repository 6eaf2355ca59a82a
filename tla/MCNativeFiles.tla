---------------------------- MODULE MCNativeFiles ----------------------------
(* Instances of NativeFiles for TLC. *)
EXTENDS NativeFiles
=============================================================================
