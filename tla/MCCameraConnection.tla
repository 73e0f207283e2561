------------------------- MODULE MCCameraConnection -------------------------
(* Cameras and devices are interchangeable in the safety runs.             *)
EXTENDS CameraConnection, TLC

Symmetry == Permutations(CAMERA) \cup Permutations(DEVICE)
=============================================================================
