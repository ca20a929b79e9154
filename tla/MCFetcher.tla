------------------------------ MODULE MCFetcher -----------------------------
(* Instances of Fetcher for TLC.                                           *)
EXTENDS Fetcher, TLC

\* Tasks are interchangeable, and so are URLs.
Symmetry == Permutations(Task) \cup Permutations(Url)
=============================================================================
