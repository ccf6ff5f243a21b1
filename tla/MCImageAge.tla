------------------------------ MODULE MCImageAge ------------------------------
(***************************************************************************)
(* ImageAge for TLC, where nothing fails.                                  *)
(***************************************************************************)
EXTENDS ImageAge

NoFaults == {}
=============================================================================
