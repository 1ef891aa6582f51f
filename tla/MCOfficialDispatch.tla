------------------------- MODULE MCOfficialDispatch -------------------------
(* Small instances of OfficialDispatch, one cfg per channel and question *)
EXTENDS OfficialDispatch

CONSTANTS m1, m2, d1, d2, nowhere

MCKind     == [m \in Msgs |-> "event"]
MCSegments == [m \in Msgs |-> 1]

MCLimits == [messages |-> 1, segments |-> 1, perMessage |-> 1]
Running0 == [enabled |-> TRUE, revoked |-> FALSE, consent |-> "kept", documented |-> TRUE,
             cost |-> TRUE, recovery |-> FALSE, stricter |-> FALSE, basis |-> "first",
             kinds |-> {"event"}, limits |-> MCLimits, dest |-> d1]
Roomy    == [Running0 EXCEPT !.limits.messages = 2, !.limits.segments = 2]

\* Configurations a restart may bring: the same one; another receiver; a
\* revoked or a disabled subscription; a renewed consent that lifts an
\* opt-out; one that only changes the basis.
MCSame    == {Roomy}
MCConfigs ==
    {Roomy,
     [Roomy EXCEPT !.dest = d2],
     [Roomy EXCEPT !.revoked = TRUE],
     [Roomy EXCEPT !.enabled = FALSE],
     [Roomy EXCEPT !.basis = "second", !.consent = "renewed", !.recovery = TRUE],
     [Roomy EXCEPT !.basis = "second", !.consent = "kept", !.recovery = TRUE]}
MCTargets   == {Roomy, [Roomy EXCEPT !.dest = d2]}
MCTight     == {Running0}
MCConsents  ==
    {Running0,
     [Running0 EXCEPT !.basis = "second", !.consent = "renewed", !.recovery = TRUE],
     [Running0 EXCEPT !.basis = "second", !.consent = "renewed"]}
=============================================================================
