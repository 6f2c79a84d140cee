---- MODULE MCCameraSettings ----
(* A small instance of CameraSettings for TLC. *)
EXTENDS CameraSettings
MCLevels == {-2, 0, 2}
=============================
