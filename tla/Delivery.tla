------------------------------ MODULE Delivery ------------------------------
(***************************************************************************)
(* What one stage promises to the stage that publishes to it: at-least-    *)
(* once delivery.  A message that was accepted is processed or parked in   *)
(* the dead queue, possibly both and possibly again later (a handler must  *)
(* be idempotent, consumer.go 13-16), and the broker settles it, once and  *)
(* for good, only after one of the two.                                    *)
(***************************************************************************)
CONSTANT Message

VARIABLES
    status,     \* message |-> "unpublished", "pending" or "settled"
    processed,  \* messages a handler call has completed
    parked      \* messages with a copy in the dead queue

vars == <<status, processed, parked>>

TypeOK ==
    /\ status \in [Message -> {"unpublished", "pending", "settled"}]
    /\ processed \in SUBSET Message
    /\ parked \in SUBSET Message

Init ==
    /\ status = [m \in Message |-> "unpublished"]
    /\ processed = {}
    /\ parked = {}

Accept(m) ==
    /\ status[m] = "unpublished"
    /\ status' = [status EXCEPT ![m] = "pending"]
    /\ UNCHANGED <<processed, parked>>

Process(m) ==
    /\ status[m] # "unpublished"
    /\ processed' = processed \cup {m}
    /\ UNCHANGED <<status, parked>>

Park(m) ==
    /\ status[m] # "unpublished"
    /\ parked' = parked \cup {m}
    /\ UNCHANGED <<status, processed>>

Settle(m) ==
    /\ status[m] = "pending"
    /\ m \in processed \cup parked
    /\ status' = [status EXCEPT ![m] = "settled"]
    /\ UNCHANGED <<processed, parked>>

Next == \E m \in Message : Accept(m) \/ Process(m) \/ Park(m) \/ Settle(m)

\* The safety part of the promise.
SafeSpec == Init /\ [][Next]_vars

\* An accepted message is eventually processed or parked, and then settled.
Spec ==
    /\ SafeSpec
    /\ \A m \in Message :
          WF_vars(m \notin processed \cup parked /\ (Process(m) \/ Park(m)))
    /\ \A m \in Message : WF_vars(Settle(m))
=============================================================================
