--------------------------- MODULE MCUVCPreview ---------------------------
(* Instances of UVCPreview for TLC.                                        *)
EXTENDS UVCPreview, TLC

Symmetric ==
    Permutations(FRAME) \cup Permutations(CAPTURE) \cup Permutations(CALLBACK)
=============================================================================
