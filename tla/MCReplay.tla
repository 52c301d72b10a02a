------------------------------ MODULE MCReplay ------------------------------
(* Recordings and configurations for Replay. *)
EXTENDS Replay

Text(chars) == Value("string", chars)
Line(kind, type, fields) == [kind |-> kind, type |-> type, fields |-> fields]
Meta(name) == Line("meta", "metadata", <<Member(<<"service", "name">>, Text(name)),
                    Member(<<"service", "node", "configured_name">>, Text(<<"B", "-", "0">>))>>)
EventLine(type, fields) == Line("event", type, fields)
Metric(ts) == EventLine("metricset", <<Member(<<"timestamp">>, ts)>>)

(* Files of up to three lines of every kind, one or two of them. *)
Lines == {Line("empty", "", <<>>), Line("rum", "", <<>>), Line("long", "", <<>>),
          Meta(<<"a">>), Metric(Value("number", 3)), Metric(Value("time", 5)),
          Metric(Value("number", -1))}
Off == [timestamps |-> FALSE, ids |-> FALSE, spanNames |-> FALSE,
        transactionNames |-> FALSE, transactionTypes |-> FALSE, targetNames |-> FALSE,
        serviceNames |-> FALSE, nodeNames |-> FALSE, version |-> "latest"]
ToLoad == {[files |-> <<f, g>>, config |-> Off] :
           f \in BoundedSeq(Lines, 3), g \in BoundedSeq(Lines, 2)}

(* Events with everything there is to rewrite, in two files. *)
Ids(id, trace, parent) ==
    <<Member(<<"id">>, Text(id)), Member(<<"trace_id">>, Text(trace)),
      Member(<<"parent_id">>, parent)>>
Named(name, type) ==
    <<Member(<<"name">>, Text(name)), Member(<<"type">>, Text(type))>>
Trace == <<"0", "1", "1", "0", "0">>
Transaction(ts) ==
    EventLine("transaction",
        Named(<<"A", "-", "b", "_", "1">>, <<"a", "b">>)
        \o Ids(<<"0", "1">>, Trace, Value("null", 0))
        \o <<Member(<<"timestamp">>, ts), Member(<<"context">>, Value("object", 0))>>)
Span(ts, id) ==
    EventLine("span",
        Ids(id, Trace, Text(<<"0", "1">>))
        \o <<Member(<<"timestamp">>, ts),
             Member(<<"context", "service", "target", "name">>, Text(<<"b", "0">>)),
             Member(<<"duration">>, Value("number", 7))>>
        \o Named(<<"a", "a">>, <<"1">>))
Error(ts) ==
    EventLine("error",
        Named(<<"-", "A">>, <<"b">>)
        \o Ids(<<"x">>, Trace, Text(<<"1", "1">>)) \o <<Member(<<"timestamp">>, ts)>>)
Recorded ==
    <<<<Meta(<<"a", "A">>), Transaction(Value("number", 3)), Span(Value("time", 7), <<"1", "1">>),
        Meta(<<"b">>), Span(Value("string", <<"x">>), <<"1", "0">>)>>,
      <<Meta(<<"1">>), Error(Value("time", 5)), Span(Value("number", 2), <<"0", "1">>)>>>>
RecordedNull ==
    <<<<Meta(<<"a">>),
        EventLine("transaction", <<Member(<<"context", "service">>, Value("null", 0))>>)>>>>

Only(option) == [Off EXCEPT ![option] = TRUE]
All(version) == [o \in DOMAIN Off |-> IF o = "version" THEN version ELSE TRUE]
Configs == {Off, All("latest"), All("7x")} \cup {Only(o) : o \in DOMAIN Off \ {"version"}}
ToReplay(files) == {[files |-> files, config |-> c] : c \in Configs}

PlainInputs == ToLoad \cup ToReplay(Recorded)
NullInputs == ToReplay(RecordedNull)
RandomBits == {<<0, 0>>, <<0, 1>>, <<1, 0>>, <<1, 1>>}
Times == {9, 10}
=============================================================================
