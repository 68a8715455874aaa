------------------------------ MODULE Handover ------------------------------
(***************************************************************************)
(* What a reload promises, whoever carries it out: pools of workers come     *)
(* and go, but the current one stays until another serves and has become     *)
(* the current one, and only then is a success reported.  A reload that      *)
(* fails leaves everything as it was.                                        *)
(***************************************************************************)
CONSTANTS
    Managers,   \* the owners of pools
    None        \* no manager

VARIABLES
    serving,    \* the managers whose workers serve
    current,    \* the one that is relied on
    phase,      \* "down", "up", "reloading", "switched" or "ended"
    report,     \* the last report on a reload
    stopped     \* has the service been told to stop?

vars == <<serving, current, phase, report, stopped>>

Init ==
    /\ serving = {} /\ current = None /\ phase = "down" /\ report = "none"
    /\ stopped = FALSE

Start ==
    /\ phase = "down" /\ phase' = "up" /\ current' \in Managers
    /\ UNCHANGED <<serving, report, stopped>>

Join(m) ==
    /\ m \notin serving /\ serving' = serving \cup {m}
    /\ UNCHANGED <<current, phase, report, stopped>>

Begin ==
    /\ phase = "up" /\ phase' = "reloading" /\ report' = "reloading"
    /\ UNCHANGED <<serving, current, stopped>>

\* From now on the service relies on a manager that serves.
Switch(m) ==
    /\ phase = "reloading" /\ phase' = "switched"
    /\ m # current /\ (m \in serving \/ stopped) /\ current' = m
    /\ UNCHANGED <<serving, report, stopped>>

Succeed ==
    /\ phase = "switched" /\ phase' = "up" /\ report' = "succ"
    /\ UNCHANGED <<serving, current, stopped>>

Fail ==
    /\ phase = "reloading" /\ phase' = "up" /\ report' = "failed"
    /\ UNCHANGED <<serving, current, stopped>>

\* A pool goes that is not relied on, or all of them.
Leave(m) ==
    /\ m \in serving /\ (m # current \/ stopped) /\ serving' = serving \ {m}
    /\ UNCHANGED <<current, phase, report, stopped>>

Stop ==
    /\ ~stopped /\ stopped' = TRUE
    /\ UNCHANGED <<serving, current, phase, report>>

\* Nobody is left who could reload.
End ==
    /\ phase # "ended" /\ phase' = "ended"
    /\ UNCHANGED <<serving, current, report, stopped>>

Next ==
    \/ Start \/ Begin \/ Succeed \/ Fail \/ Stop \/ End
    \/ \E m \in Managers : Join(m) \/ Switch(m) \/ Leave(m)

Spec == Init /\ [][Next]_vars
=============================================================================
