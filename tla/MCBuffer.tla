------------------------------ MODULE MCBuffer ------------------------------
(***************************************************************************)
(* Buffer for TLC.  Its buffers differ in nothing but their contents, and  *)
(* it has invariants only, so states that differ by a renaming of them     *)
(* count as one.                                                           *)
(***************************************************************************)
EXTENDS Buffer, TLC

Renamings == Permutations(Bufs)
=============================================================================
