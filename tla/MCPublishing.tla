----------------------------- MODULE MCPublishing -----------------------------
(* Publishing for TLC.                                                     *)
EXTENDS Publishing, TLC

Symmetry == Permutations(Workers) \cup Permutations(Pages)

===============================================================================
