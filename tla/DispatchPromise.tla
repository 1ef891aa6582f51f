-------------------------- MODULE DispatchPromise ---------------------------
(***************************************************************************)
(* What a non-idempotent notification channel promises for each message,   *)
(* whatever queues, leases, crashes and restores lie underneath: at most   *)
(* one delivery, and only under an intent that was committed first.        *)
(***************************************************************************)
EXTENDS Naturals

CONSTANT Msgs

VARIABLES
    phase,      \* "new", "ready" to be sent, "intent" to send, or "closed"
    delivered   \* how often the recipient got the message

vars == <<phase, delivered>>

Init == /\ phase = [m \in Msgs |-> "new"]
        /\ delivered = [m \in Msgs |-> 0]

Keep(m)      == delivered'[m] = delivered[m]
Admit(m)     == phase[m] = "new" /\ phase'[m] \in {"ready", "closed"} /\ Keep(m)
Authorize(m) == phase[m] = "ready" /\ phase'[m] = "intent" /\ Keep(m)
\* only a proved refusal gives the message back
GiveBack(m)  == /\ phase[m] = "intent" /\ delivered[m] = 0
                /\ phase'[m] = "ready" /\ Keep(m)
Close(m)     == phase[m] \in {"ready", "intent"} /\ phase'[m] = "closed" /\ Keep(m)
\* a request under way may still arrive after its row was closed
Deliver(m)   == /\ phase[m] \in {"intent", "closed"} /\ delivered[m] = 0
                /\ phase'[m] = phase[m] /\ delivered'[m] = 1
Stay(m)      == phase'[m] = phase[m] /\ Keep(m)

\* One transaction of the store may move several messages.
Next == \A m \in Msgs :
            \/ Admit(m) \/ Authorize(m) \/ GiveBack(m)
            \/ Close(m) \/ Deliver(m) \/ Stay(m)

Spec == Init /\ [][Next]_vars
=============================================================================
