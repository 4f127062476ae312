---------------------------- MODULE MCUVCPreview ----------------------------
(* Small instances of UVCPreview for TLC. *)
EXTENDS UVCPreview, TLC

FrameSymmetry == Permutations(Frames)
=============================================================================
