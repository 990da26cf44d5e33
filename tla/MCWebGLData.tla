------------------------------ MODULE MCWebGLData ------------------------------
(* Instances of WebGLData for TLC. *)
EXTENDS WebGLData
=============================================================================
