-------------------------- MODULE MCWritePipeline ---------------------------
(***************************************************************************)
(* Instances of WritePipeline for TLC: ann and bob share a device.         *)
(***************************************************************************)
EXTENDS WritePipeline

CONSTANTS ann, bob

TwoUsers == {ann, bob}
=============================================================================
