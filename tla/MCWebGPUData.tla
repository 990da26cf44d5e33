----------------------------- MODULE MCWebGPUData -----------------------------
(* An instance of WebGPUData for TLC. *)
EXTENDS WebGPUData
=============================================================================
