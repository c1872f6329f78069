------------------------ MODULE MCThreadIDAllocator ------------------------
(* ThreadIDAllocator with few IDs: the array doubles and then is at its      *)
(* limit, and there are enough renderers to use up every ID.                *)
EXTENDS ThreadIDAllocator, TLC

Symmetry == Permutations(Renderer)
=============================================================================
