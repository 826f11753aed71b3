-------------------------- MODULE MCCoreAudioRing ---------------------------
(* Numbered frames, so that a lost, repeated or reordered frame shows. *)
EXTENDS CoreAudioRing
CONSTANT FrameMod
Number(k) == k % FrameMod
=============================================================================
