---------------------------- MODULE MCInterrupts ----------------------------
(* The firmware masks nothing, or what a PC's firmware masks; beside timer  *)
(* and keyboard, a device on the second controller is active.               *)
EXTENDS Interrupts

MCBiosMasks == {<<{}, {}>>, <<{3, 4, 5, 7}, {1, 2, 3}>>}
=============================================================================
