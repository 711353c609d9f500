------------------------------- MODULE MCPosts -------------------------------
(* Posts for TLC.                                                          *)
EXTENDS Posts, TLC

\* Clients are interchangeable, and so are slugs.
Symmetry == Permutations(Clients) \cup Permutations(Slugs)

===============================================================================
