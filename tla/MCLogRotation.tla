---------------------------- MODULE MCLogRotation ----------------------------
(* One, two or four files of two lines: at the ninth write every archive of *)
(* four is in place, and the next rotations drop one.                       *)
EXTENDS LogRotation
=============================================================================
