-------------------------- MODULE MCSensorDelivery --------------------------
(* Instances of SensorDelivery for TLC. *)
EXTENDS SensorDelivery

\* Nothing derived from a batch; nothing, an event that the queue takes, or
\* one that it rejects.
Quiet == {[raised |-> FALSE, rejected |-> FALSE]}
AnyOutcome == Quiet \cup {[raised |-> TRUE, rejected |-> FALSE],
                         [raised |-> FALSE, rejected |-> TRUE]}
=============================================================================
