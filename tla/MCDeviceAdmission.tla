------------------------- MODULE MCDeviceAdmission -------------------------
(* Instances of DeviceAdmission for TLC: handlers are interchangeable.     *)
EXTENDS DeviceAdmission, TLC

Symmetry == Permutations(Handlers)
=============================================================================
