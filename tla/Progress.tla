------------------------------ MODULE Progress ------------------------------
(***************************************************************************)
(* The work that is left, as a measure: a sequence of vectors of natural    *)
(* numbers, the first of which counts most.  A step makes progress if the   *)
(* first vector that it changes falls, whatever it does to those after it.  *)
(* Over finite sets of indices no measure can fall for ever, so a system    *)
(* every step of which makes progress comes to an end.                      *)
(***************************************************************************)
EXTENDS Integers

\* Some number of the vector is lower than it was, and none is higher.
Falls(new, old) ==
    /\ new # old
    /\ DOMAIN new = DOMAIN old
    /\ \A x \in DOMAIN old : new[x] \in 0..old[x]

Lower(new, old) ==
    \E i \in DOMAIN old :
        /\ Falls(new[i], old[i])
        /\ \A j \in DOMAIN old : j < i => new[j] = old[j]
=============================================================================
