------------------------------ MODULE MCMediaGc ------------------------------
(* MediaGc for TLC.                                                        *)
EXTENDS MediaGc, TLC

\* Requests are interchangeable, and so are assets.
Symmetry == Permutations(Workers) \cup Permutations(Assets)

===============================================================================
