---------------------------- MODULE MCNavigation ----------------------------
(* Instances of Navigation for TLC.                                       *)
EXTENDS Navigation

\* What the app does after history has lost track is not explored further.
\* A device with the flags of the time before accounts differs in the gates only: there
\* the overlays are left aside.
InStep == ~strayed /\ (legacy = {} \/ nav.stack = <<>>)
=============================================================================
