-------------------------- MODULE MCCameraStreaming --------------------------
(***************************************************************************)
(* CameraStreaming for TLC: the sets of faults the configurations name.    *)
(***************************************************************************)
EXTENDS CameraService

\* Every driver call may fail ...
AllFaults == FaultKinds

\* ... but no start of a transfer in a way the code does not test.
TestedFaults == FaultKinds \ {"unchecked", "restart"}

\* Only the conversion of a frame may fail.
ConvertFaults == {"convert"}

\* Nothing fails.
NoFaults == {}
=============================================================================
