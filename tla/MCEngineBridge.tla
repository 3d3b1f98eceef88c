--------------------------- MODULE MCEngineBridge ---------------------------
(***************************************************************************)
(* Bounds for the shell's connection to its engine: see the .cfg files.    *)
(***************************************************************************)
EXTENDS EngineBridge
=============================================================================
