----------------------------- MODULE MetricsLog -----------------------------
(***************************************************************************)
(* What the metrics store's clients see of it, without locks, maps or      *)
(* partial merges: a log of data points that grows by a whole payload at a *)
(* time, and answers that are functions of the log at one instant of the   *)
(* call.  The value of a group is defined over all its data points at      *)
(* once; it is the value the code arrives at point by point, also where a  *)
(* comment of store.go says otherwise (see Store).                         *)
(***************************************************************************)
EXTENDS Integers, Sequences, FiniteSetsExt, Functions, Arrivals

CONSTANTS Clients, Configs, Payloads, Empty   \* as in Store

VARIABLES
    log,      \* the data points the store has not forgotten, numbered
    busy,     \* [client -> BOOLEAN]
    request,  \* [client -> [op, payload, keys]]
    answer    \* [client -> [key -> [group -> value]]] when it is not busy

vars == <<log, busy, request, answer>>

Keys == DOMAIN Configs
NoAnswer == [k \in {} |-> 0]
NoRequest == [op |-> "get", payload |-> <<>>, keys |-> {}]

Init ==
    /\ log = NoPoints
    /\ busy = [c \in Clients |-> FALSE]
    /\ request = [c \in Clients |-> NoRequest]
    /\ answer = [c \in Clients |-> NoAnswer]

(***************************************************************************)
(* The value of a key in a log l, over the numbers of its data points      *)
(***************************************************************************)
\* The attributes of the data point before those of its resource.
Labels(dp) ==
    [label \in DOMAIN dp.attrs \cup DOMAIN dp.resAttrs |->
       IF label \in DOMAIN dp.attrs THEN dp.attrs[label] ELSE dp.resAttrs[label]]
LabelOf(dp, label) ==
    IF label \in DOMAIN Labels(dp) THEN Labels(dp)[label] ELSE Empty

Matches(cfg, dp) ==
    /\ dp.name = cfg.name
    /\ \A label \in DOMAIN cfg.match :
         LabelOf(dp, label) = cfg.match[label] /\ cfg.match[label] # Empty

Numeric(dp) == dp.kind = "gauge" \/ (dp.kind = "sum" /\ dp.delta)
Populated(dp) == dp.kind = "histogram" /\ dp.delta /\ dp.count > 0

GroupOf(key, dp) == LabelOf(dp, Configs[key].groupBy)

Numbers(l, key, g) ==
    {n \in DOMAIN l :
       Numeric(l[n]) /\ Matches(Configs[key], l[n]) /\ GroupOf(key, l[n]) = g}

Histograms(l, key, g) ==
    {n \in DOMAIN l :
       Populated(l[n]) /\ Matches(Configs[key], l[n]) /\ GroupOf(key, l[n]) = g}

Groups(l, key) ==
    {GroupOf(key, l[n]) :
       n \in {m \in DOMAIN l : (Numeric(l[m]) \/ Populated(l[m]))
                                /\ Matches(Configs[key], l[m])}}

Total(l, points, field) == SumFunction([n \in points |-> l[n][field]])
Beginning(dp) == IF dp.start # 0 THEN dp.start ELSE dp.time

\* The sum of the values over the time from the beginning of the data point
\* that was the first to arrive, of those that count and have one, to the end
\* of the latest.  The first to arrive need not be the lowest, which
\* store.go:338 says is kept: Store!LowestStart.
RateOf(l, points) ==
    LET counting == {n \in points : l[n].value # 0}
        begun == {n \in counting : Beginning(l[n]) # 0}
        start == IF begun = {} THEN 0 ELSE Beginning(l[Min(begun)])
        duration == Max({l[n].time : n \in counting}) - start
    IN  IF counting = {} \/ Total(l, points, "value") = 0 \/ duration <= 0
          THEN <<0, 1>> ELSE <<Total(l, points, "value"), duration>>

NumberValue(type, l, points) ==
    CASE type = "last" -> <<l[Max(points)].value, 1>>
      [] type = "sum"  -> <<Total(l, points, "value"), 1>>
      [] type = "max"  -> <<Max({0} \cup {l[n].value : n \in points}), 1>>
      [] type = "rate" -> RateOf(l, points)
      [] OTHER -> <<0, 1>>

\* The histograms since the bounds last changed.
LastBounds(l, points) ==
    {n \in points : \A m \in points : m >= n => l[m].bounds = l[n].bounds}

HistogramValue(type, l, points) ==
    CASE type = "percentile" -> <<Total(l, LastBounds(l, points), "count"), 1>>
      [] type = "sum" -> <<Total(l, LastBounds(l, points), "sum"), 1>>
      [] OTHER -> <<0, 1>>

\* Points of a kind the type does not support count as 0, and histograms hide
\* numbers, where store.go:178 says ignored: Store!IgnoresUnsupported.
GroupValue(l, key, g) ==
    IF Histograms(l, key, g) # {}
      THEN HistogramValue(Configs[key].type, l, Histograms(l, key, g))
      ELSE NumberValue(Configs[key].type, l, Numbers(l, key, g))

Report(l, key) ==
    IF Groups(l, key) = {} THEN [g \in {Empty} |-> <<0, 1>>]
    ELSE [g \in Groups(l, key) |-> GroupValue(l, key, g)]

(***************************************************************************)
(* Calls                                                                   *)
(***************************************************************************)
Call(c, r) ==
    /\ ~busy[c]
    /\ busy' = [busy EXCEPT ![c] = TRUE]
    /\ request' = [request EXCEPT ![c] = r]
    /\ answer' = [answer EXCEPT ![c] = NoAnswer]
    /\ UNCHANGED log

Return(c) ==
    /\ busy[c]
    /\ busy' = [busy EXCEPT ![c] = FALSE]
    /\ request' = [request EXCEPT ![c] = NoRequest]

Add(c) ==
    /\ Return(c)
    /\ request[c].op = "add"
    /\ log' = Arrived(log, request[c].payload)
    /\ UNCHANGED answer

\* Histograms survive a Reset, against store.go:256: Store!ResetDeletesAll.
Reset(c) ==
    /\ Return(c)
    /\ request[c].op = "reset"
    /\ log' = RestrictValues(log, Populated)
    /\ UNCHANGED answer

Get(c) ==
    /\ Return(c)
    /\ request[c].op = "get"
    /\ answer' = [answer EXCEPT ![c] = [k \in request[c].keys |-> Report(log, k)]]
    /\ UNCHANGED log

Requests ==
    [op : {"add"}, payload : Payloads, keys : {{}}]
      \cup [op : {"reset"}, payload : {<<>>}, keys : {{}}]
      \cup [op : {"get"}, payload : {<<>>},
            keys : {Keys} \cup {{k} : k \in Keys}]

Next ==
    \E c \in Clients :
        \/ \E r \in Requests : Call(c, r)
        \/ Add(c) \/ Reset(c) \/ Get(c)

Spec == Init /\ [][Next]_vars
=============================================================================
