-------------------------- MODULE MCStreamedCloud --------------------------
(* Constant values for StreamedCloud.                                      *)
EXTENDS StreamedCloud

CONSTANTS far, near, plain, z, unset

MCStyles == {plain, z}
MCViews == {near, far}
OneView == {near}
=============================================================================
