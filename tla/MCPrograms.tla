----------------------------- MODULE MCPrograms -----------------------------
(* Programs and algorithms of the repository that share no state, checked  *)
(* by one run: the initial state chooses one, the others stay as they are. *)
EXTENDS MCReplay, AgentGroup, StubES, SendOTLP, Quantile, AggConfigs, Telemetrygen, MCBenchRun

VARIABLE program

vars == <<program, replayVars, groupVars, stubVars, otlpVars, histogram, configVars,
          genVars, benchVars>>

ProgramsInit ==
    /\ program \in {"replay", "group", "stub", "sendotlp", "quantile", "configs",
                    "telemetrygen", "apmbench"}
    /\ program # "replay" => input = CHOOSE i \in Inputs : TRUE
    /\ program # "group" => /\ command = "apmsoak"
                            /\ options = [ignoreErrors |-> FALSE, runForever |-> FALSE,
                                          duration |-> FALSE]
    /\ program # "stub" => account = [username |-> FALSE, password |-> FALSE]
    /\ program # "sendotlp" => flag = CHOOSE f \in Flags : TRUE
    /\ program # "telemetrygen" => kind = "traces" /\ timed = TRUE
    /\ ReplayInit /\ GroupInit /\ StubInit /\ OtlpInit
    /\ HistogramInit
    /\ ConfigInit
    /\ GenInit /\ BenchInit

ReplayStep ==
    /\ program = "replay" /\ ReplayNext
    /\ UNCHANGED <<program, groupVars, stubVars, otlpVars, histogram, configVars, genVars, benchVars>>
GroupStep ==
    /\ program = "group" /\ GroupNext /\ GroupNext
    /\ UNCHANGED <<program, replayVars, stubVars, otlpVars, histogram, configVars, genVars, benchVars>>
StubStep ==
    /\ program = "stub" /\ StubNext
    /\ UNCHANGED <<program, replayVars, groupVars, otlpVars, histogram, configVars, genVars, benchVars>>
OtlpStep ==
    /\ program = "sendotlp" /\ OtlpNext
    /\ UNCHANGED <<program, replayVars, groupVars, stubVars, histogram, configVars, genVars, benchVars>>
QuantileStep ==
    /\ program = "quantile" /\ AddBucket
    /\ UNCHANGED <<program, replayVars, groupVars, stubVars, otlpVars, configVars, genVars, benchVars>>
ConfigStep ==
    /\ program = "configs" /\ ReadConfig
    /\ UNCHANGED <<program, replayVars, groupVars, stubVars, otlpVars, histogram, genVars, benchVars>>
GenStep ==
    /\ program = "telemetrygen" /\ GenNext
    /\ UNCHANGED <<program, replayVars, groupVars, stubVars, otlpVars, histogram, configVars, benchVars>>
BenchStep ==
    /\ program = "apmbench" /\ BenchNext
    /\ UNCHANGED <<program, replayVars, groupVars, stubVars, otlpVars, histogram, configVars, genVars>>

ProgramsNext ==
    \/ ReplayStep \/ GroupStep \/ StubStep \/ OtlpStep
    \/ QuantileStep \/ ConfigStep \/ GenStep \/ BenchStep

(* GroupFairness, GenFairness and BenchFairness, while it is their turn. *)
ProgramsFairness ==
    /\ WF_groupVars(program = "group" /\ GroupNext /\ Main)
    /\ WF_groupVars(program = "group" /\ GroupNext /\ DurationEnds)
    /\ \A a \in Agents : WF_groupVars(program = "group" /\ GroupNext /\ Agent(a))
    /\ WF_genVars(program = "telemetrygen" /\ GenNext /\ Starter)
    /\ \A w \in Workers : WF_genVars(program = "telemetrygen" /\ GenNext /\ Work(w))
    /\ WF_genVars(program = "telemetrygen" /\ GenNext /\ ExportBatch)
    /\ WF_benchVars(program = "apmbench" /\ BenchMain)
    /\ SF_benchVars(program = "apmbench" /\ KeyIsZero)
    /\ WF_benchVars(program = "apmbench" /\ Publish)
    /\ \A s \in 1..Stages : WF_benchVars(program = "apmbench" /\ PassOn(s))

ProgramsSpec == ProgramsInit /\ [][ProgramsNext]_vars /\ ProgramsFairness

(* Bodies of an odd number of lines, and with a bad action or source. *)
SomeBodies == {<<"line", "bad">>, <<"line", "line", "line">>,
               <<"line", "line", "bad">>, <<"line", "line", "line", "line">>}

(* The hypothesis of WritesWhatIsAsked, which NullInputs do not meet. *)
ASSUME PlainTargetsAreObjects == TargetsAreObjects

(* Up to four buckets; 9 is +Inf. *)
SomeBounds == {1, 3, 4, 9}
SomeCounts == 0..2
SomeLevels == {<<-1, 2>>, <<0, 1>>, <<1, 4>>, <<1, 3>>, <<1, 2>>, <<9, 10>>, <<1, 1>>, <<3, 2>>}

(* Configurations that are invalid, or in conflict with others. *)
NoLabels == [l \in {} |-> ""]
SvcA == [svc |-> "A"]
Candidate(key, match, type, percentile) ==
    [key |-> key, name |-> "m", match |-> match, type |-> type, percentile |-> percentile]
SomeCandidates ==
    {Candidate("k1", match, "sum", 0) : match \in {NoLabels, SvcA, [svc |-> "B"]}}
    \cup {Candidate("k2", SvcA, type, p) : type \in {"max", "percentile"}, p \in {50, 99}}
    \cup {Candidate("k3", SvcA, "percentile", p) : p \in {0, 50, 100, 101}}
    \cup {Candidate("", NoLabels, "sum", 0), Candidate("k3", [env |-> "P"], "median", 0),
          [Candidate("k4", SvcA, "sum", 0) EXCEPT !.name = "h"],
          [Candidate("k4", SvcA, "max", 0) EXCEPT !.name = ""]}
=============================================================================
