----------------------------- MODULE MCConsumer -----------------------------
(* Instances of Consumer for TLC.                                          *)
EXTENDS Consumer, TLC

\* Messages are interchangeable, and so are workers: no property names one.
Symmetry == Permutations(Message) \cup Permutations(Worker)
=============================================================================
