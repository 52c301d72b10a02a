---------------------------- MODULE PacedReplay ----------------------------
(***************************************************************************)
(* What the replay handler promises its callers, without buffers, batches, *)
(* chunks or a limiter: agents deliver a corpus of Total events in order,  *)
(* pass after pass, never more than Burst of them per grant.  A grant is   *)
(* followed by another one when it is used up; a whole one of which        *)
(* nothing was delivered may be replaced at the start of a pass, so that a *)
(* pass that gives up may waste a grant but never a part of one.           *)
(***************************************************************************)
EXTENDS Naturals

CONSTANTS Agents, Total, Burst, Looping, RunForever   \* as in Handler

VARIABLES
    phase,      \* "off", "ready" (between two passes) or "replaying"
    upto,       \* events delivered in the current pass
    credit,     \* events that may be delivered under the last grant
    cancelled

vars == <<phase, upto, credit, cancelled>>

Init ==
    /\ phase = [a \in Agents |-> "off"]
    /\ upto = [a \in Agents |-> 0]
    /\ credit = [a \in Agents |-> 0]
    /\ cancelled = FALSE

\* A call grants nothing; SendBatches begins its only pass at once.
Start(a) ==
    /\ phase[a] = "off"
    /\ phase' = [phase EXCEPT ![a] = IF Looping THEN "ready" ELSE "replaying"]
    /\ upto' = IF Looping THEN upto ELSE [upto EXCEPT ![a] = 0]
    /\ credit' = [credit EXCEPT ![a] = 0]
    /\ UNCHANGED cancelled

Begin(a) ==
    /\ phase[a] = "ready"
    /\ ~cancelled
    /\ phase' = [phase EXCEPT ![a] = "replaying"]
    /\ upto' = [upto EXCEPT ![a] = 0]
    /\ UNCHANGED <<credit, cancelled>>

\* Replacing a grant leaves as much to deliver as there was before it.
Pay(a) ==
    /\ phase[a] = "replaying"
    /\ Burst > 0
    /\ \/ credit[a] = 0
       \/ credit[a] = Burst /\ upto[a] = 0
    /\ upto[a] < Total
    /\ credit' = [credit EXCEPT ![a] = Burst]
    /\ UNCHANGED <<phase, upto, cancelled>>

Deliver(a, k) ==
    /\ phase[a] = "replaying"
    /\ upto[a] + k <= Total
    /\ Burst > 0 => k <= credit[a]
    /\ upto' = [upto EXCEPT ![a] = @ + k]
    /\ credit' = [credit EXCEPT ![a] = IF Burst > 0 THEN @ - k ELSE 0]
    /\ UNCHANGED <<phase, cancelled>>

Finish(a) ==
    /\ phase[a] = "replaying"
    /\ upto[a] = Total
    /\ phase' = [phase EXCEPT ![a] = IF Looping THEN "ready" ELSE "off"]
    /\ UNCHANGED <<upto, credit, cancelled>>

\* A pass is given up.
GiveUp(a) ==
    /\ phase[a] = "replaying"
    /\ phase' = [phase EXCEPT ![a] =
                   IF Looping /\ RunForever THEN "ready" ELSE "off"]
    /\ UNCHANGED <<upto, credit, cancelled>>

Stop(a) ==
    /\ phase[a] = "ready"
    /\ cancelled
    /\ phase' = [phase EXCEPT ![a] = "off"]
    /\ UNCHANGED <<upto, credit, cancelled>>

Cancel ==
    /\ cancelled' = TRUE
    /\ UNCHANGED <<phase, upto, credit>>

Next ==
    \/ \E a \in Agents :
         \/ Start(a) \/ Begin(a) \/ Pay(a) \/ Finish(a) \/ GiveUp(a) \/ Stop(a)
         \/ \E k \in 1..Total : Deliver(a, k)
    \/ Cancel

Spec == Init /\ [][Next]_vars
=============================================================================
