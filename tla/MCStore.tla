------------------------------ MODULE MCStore ------------------------------
(* Configurations and data points for Store.  Metric "m" is a number, "h"  *)
(* is reported both as a number and as histograms of two kinds of bounds.  *)
EXTENDS Store

NoLabels == [l \in {} |-> ""]
Config(name, match, type, groupBy) ==
    [name |-> name, match |-> match, type |-> type, groupBy |-> groupBy]

Number(kind, name, attrs, resAttrs, value, start, time) ==
    [kind |-> kind, delta |-> TRUE, name |-> name, attrs |-> attrs,
     resAttrs |-> resAttrs, value |-> value, start |-> start, time |-> time]
Histogram(attrs, bounds, count, sum) ==
    [kind |-> "histogram", delta |-> TRUE, name |-> "h", attrs |-> attrs,
     resAttrs |-> NoLabels, bounds |-> bounds, count |-> count, sum |-> sum]
Cumulative(dp) == [dp EXCEPT !.delta = FALSE]

SvcA == [svc |-> "A"]
SvcB == [svc |-> "B"]
EnvP == [env |-> "P"]

(* Interleavings: two keys that a GetAll must read at one instant. *)
FewConfigs == [total |-> Config("m", NoLabels, "sum", Empty),
               peak  |-> Config("m", SvcA, "max", Empty)]
FewPayloads ==
    {<<Number("sum", "m", SvcA, NoLabels, 2, 1, 2),
       Number("sum", "m", SvcB, NoLabels, 1, 1, 2)>>,
     <<Number("gauge", "m", NoLabels, SvcA, 3, 0, 2)>>}

(* Aggregations: all types, groups, data points out of order in time,   *)
(* bounds that change, a name reported as a number and as histograms.    *)
AllConfigs == [total |-> Config("m", NoLabels, "sum", "svc"),
               rate  |-> Config("m", EnvP, "rate", Empty),
               last  |-> Config("m", SvcA, "last", Empty),
               p99   |-> Config("h", NoLabels, "percentile", "svc"),
               sum   |-> Config("h", SvcA, "sum", Empty)]
NumberPayloads ==
    {<<Number("sum", "m", SvcA, EnvP, 4, 2, 3)>>,
     <<Number("sum", "m", SvcB, EnvP, 2, 1, 2)>>,
     <<Number("gauge", "m", NoLabels, SvcA, -1, 0, 1)>>,
     <<Number("gauge", "m", EnvP, [env |-> "Q"], 1, 0, 4)>>,
     <<Number("sum", "m", [env |-> "Q"], EnvP, 0, 5, 6)>>,
     <<Number("sum", "m", EnvP, NoLabels, 1, 0, 0)>>,
     <<Cumulative(Number("sum", "m", SvcA, EnvP, 8, 1, 9))>>}

HistPayloads ==
    {<<Histogram(SvcA, <<1, 2>>, 2, 3)>>,
     <<Histogram(SvcA, <<5>>, 1, 7)>>,
     <<Histogram(SvcB, <<1, 2>>, 1, 1)>>,
     <<Histogram(SvcA, <<5>>, 0, 0)>>,
     <<Cumulative(Histogram(SvcA, <<5>>, 4, 4))>>,
     <<Number("gauge", "h", SvcA, NoLabels, 2, 0, 1)>>}

AllPayloads == NumberPayloads \cup HistPayloads

(* The time of these data points runs forward. *)
ASSUME PointsForward == Forward
=============================================================================
