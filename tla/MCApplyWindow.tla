---------------------------- MODULE MCApplyWindow ----------------------------
(***************************************************************************)
(* Two videos in the source panel, pressed Apply for twice.                *)
(***************************************************************************)
EXTENDS ApplyWindow

CONSTANTS va, vb
=============================================================================
