------------------------------ MODULE Arrivals ------------------------------
(***************************************************************************)
(* Data points, numbered in the order in which they arrived.  Points that  *)
(* are forgotten leave gaps between the numbers of the others.             *)
(***************************************************************************)
EXTENDS Integers, Sequences, FiniteSetsExt

NoPoints == [n \in {} |-> 0]

\* The number of the latest data point.
Latest(log) == Max({0} \cup DOMAIN log)

\* The data points of a payload come after all others.
Arrived(log, payload) ==
    [n \in DOMAIN log \cup (Latest(log) + 1)..(Latest(log) + Len(payload)) |->
       IF n \in DOMAIN log THEN log[n] ELSE payload[n - Latest(log)]]
=============================================================================
