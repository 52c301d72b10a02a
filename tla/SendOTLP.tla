------------------------------ MODULE SendOTLP ------------------------------
(***************************************************************************)
(* cmd/sendotlp: one run sends metrics, three spans and one log record     *)
(* over OTLP.  The metrics wait in the meter provider until it is shut     *)
(* down; a span is exported when it ends, a log record at once.  Main      *)
(* returns through the deferred shutdowns, last deferred first.            *)
(*                                                                         *)
(* The exporters and the endpoint are external: each call may fail, and an *)
(* answer that is no error may still say that data was rejected (OTLP's    *)
(* partial success).                                                       *)
(***************************************************************************)
EXTENDS Naturals

VARIABLES
    flag,      \* the flags and what the endpoint's URL is
    at,        \* where Main is
    conn,      \* the gRPC connection
    headers,   \* the header that each exporter has been given
    providers, \* the providers that have not been shut down
    recorded,  \* instruments whose values the meter provider has
    exported,  \* what was answered without an error, each with the header it came with
    rejected,  \* the signals of which such an answer says that data was rejected
    failed,    \* the calls that have failed
    joined,    \* the errors joined in the result of Main
    exitCode   \* of the process, "none" while it runs

otlpVars == <<flag, at, conn, headers, providers, recorded, exported, rejected, failed,
              joined, exitCode>>

Flags == [url : {"http", "https", "other", "unparsable"},
          protocol : {"grpc", "http/protobuf", "other"},
          apiKey : BOOLEAN, secretToken : BOOLEAN]
Signals == {"trace", "metric", "log"}
Spans == {"child1", "child2", "parent"}

OtlpInit ==
    /\ flag \in Flags
    /\ at = "endpoint"
    /\ conn = "none"
    /\ headers = [s \in Signals |-> "environment"]
    /\ providers = {} /\ recorded = {} /\ exported = {} /\ rejected = {}
    /\ failed = {} /\ joined = {}
    /\ exitCode = "none"

\* The statement of Main at the line fails: "return err".
Fails(call) ==
    /\ failed' = failed \cup {call}
    /\ joined' = joined \cup {call}
    /\ at' = "shutdown"

CheckEndpoint ==
    /\ at = "endpoint"
    /\ IF flag.url \in {"http", "https"} /\ flag.protocol # "other"
       THEN at' = "connect" /\ UNCHANGED <<failed, joined>>
       ELSE Fails("endpoint")
    /\ UNCHANGED <<flag, conn, headers, providers, recorded, exported, rejected, exitCode>>

\* Over HTTP there is no connection to be set up.
Connect ==
    /\ at = "connect"
    /\ \/ Fails("connect") /\ flag.protocol = "grpc" /\ UNCHANGED conn
       \/ /\ conn' = IF flag.protocol = "grpc" THEN "open" ELSE "none"
          /\ at' = "exporters" /\ UNCHANGED <<failed, joined>>
    /\ UNCHANGED <<flag, headers, providers, recorded, exported, rejected, exitCode>>

\* -api-key goes before -secret-token, and OTLP over HTTP does not know it; the
\* exporter of logs ignores the environment and does nothing over HTTP.
HeaderOf(s, grpc) ==
    IF grpc /\ flag.apiKey THEN "ApiKey"
    ELSE IF flag.secretToken /\ (grpc \/ s # "log") THEN "Bearer"
    ELSE IF s = "log" THEN "nothing" ELSE "environment"

\* The exporter of logs is not given the header.
HeaderNotOfLogs(s) ==
    IF s = "log" THEN "nothing" ELSE HeaderOf(s, flag.protocol = "grpc")
Header(s) == HeaderOf(s, flag.protocol = "grpc")

\* newOTLPGRPCExporters and newOTLPHTTPExporters: trace, then metric.  If one
\* cannot be made the connection is closed; later nothing closes it.
NewExporters ==
    /\ at = "exporters"
    /\ \/ \E call \in {"trace exporter", "metric exporter"} :
             /\ Fails(call)
             /\ conn' = IF conn = "open" THEN "closed" ELSE conn
             /\ UNCHANGED <<headers, providers>>
       \/ /\ headers' = [s \in Signals |-> Header(s)]
          /\ providers' = {"tracer", "meter"}
          /\ at' = "metrics"
          /\ UNCHANGED <<conn, failed, joined>>
    /\ UNCHANGED <<flag, recorded, exported, rejected, exitCode>>

GenerateMetrics ==
    /\ at = "metrics"
    /\ \/ recorded' = {"counter", "histogram"} /\ at' = "spans" /\ UNCHANGED <<failed, joined>>
       \/ recorded' = {} /\ Fails("counter")
       \/ recorded' = {"counter"} /\ Fails("histogram")
    /\ UNCHANGED <<flag, conn, headers, providers, exported, rejected, exitCode>>

Export(s, names) == exported' = exported \cup (names \X {headers[s]})

\* Nothing in main.go looks at what an answer without an error rejects.
MayReject(s) == rejected' \in {rejected, rejected \cup {s}}

\* generateSpans: the processor tells nobody that a span was not exported.
EndSpans ==
    /\ at = "spans"
    /\ \E accepted \in SUBSET Spans :
         /\ Export("trace", accepted)
         /\ failed' = IF accepted = Spans THEN failed ELSE failed \cup {"span"}
    /\ at' = "logs"
    /\ UNCHANGED <<flag, conn, headers, providers, recorded, rejected, joined, exitCode>>

\* With gRPC the answer is discarded ("TODO: parse response for error").
GenerateLogs ==
    /\ at = "logs"
    /\ \/ /\ flag.protocol = "grpc" /\ Export("log", {"log"}) /\ MayReject("log")
          /\ at' = "shutdown" /\ UNCHANGED <<failed, joined>>
       \/ flag.protocol = "grpc" /\ Fails("log") /\ UNCHANGED <<exported, rejected>>
       \/ /\ flag.protocol = "http/protobuf"
          /\ at' = "shutdown" /\ UNCHANGED <<exported, rejected, failed, joined>>
    /\ UNCHANGED <<flag, conn, headers, providers, recorded, exitCode>>

\* The last error takes the place of those before.
JoinLast(call) == failed' = failed \cup {call} /\ joined' = {call}

Join(call) == failed' = failed \cup {call} /\ joined' = joined \cup {call}

\* The meter provider is shut down first, and collects what there is.
ShutdownMeter ==
    /\ at = "shutdown" /\ "meter" \in providers
    /\ providers' = providers \ {"meter"}
    /\ \/ Join("shutdown meter") /\ UNCHANGED <<exported, rejected>>
       \/ /\ Export("metric", recorded) /\ MayReject("metric")
          /\ \/ UNCHANGED <<failed, joined>>
             \/ Join("shutdown meter")
    /\ UNCHANGED <<flag, at, conn, headers, recorded, exitCode>>

ShutdownTracer ==
    /\ at = "shutdown" /\ providers = {"tracer"}
    /\ providers' = {}
    /\ \/ UNCHANGED <<failed, joined>>
       \/ Join("shutdown tracer")
    /\ UNCHANGED <<flag, at, conn, headers, recorded, exported, rejected, exitCode>>

\* logger.Fatal exits with 1.
Exit ==
    /\ at = "shutdown" /\ providers = {} /\ exitCode = "none"
    /\ exitCode' = IF joined = {} THEN "0" ELSE "1"
    /\ UNCHANGED <<flag, at, conn, headers, providers, recorded, exported, rejected, failed,
                   joined>>

OtlpNext == CheckEndpoint \/ Connect \/ NewExporters \/ GenerateMetrics \/ EndSpans
            \/ GenerateLogs \/ ShutdownMeter \/ ShutdownTracer \/ Exit

OtlpSpec == OtlpInit /\ [][OtlpNext]_otlpVars
-----------------------------------------------------------------------------
\* No failure is lost on the way out, whichever deferred calls follow it,
\* except that of a span: the exit code is 0 only if everything else was
\* answered without an error.  Then the metrics have been sent, whole, and with
\* gRPC the log record; that the answer rejects none of it is not said, as
\* main.go:373 leaves it to do ("parse response for error").  Whatever failed
\* after an instrument was recorded, its values are sent or the failure to
\* export them is part of the result.  A connection that no exporter uses is
\* not left open.
NoLostFailure ==
    exitCode # "none" =>
        /\ joined = failed \ {"span"}
        /\ exitCode = "0" <=> joined = {}
        /\ recorded \X {headers["metric"]} \subseteq exported \/ "shutdown meter" \in joined
        /\ {"trace exporter", "metric exporter"} \cap joined # {} => conn # "open"
        /\ exitCode = "0" =>
             /\ {"counter", "histogram"} \X {headers["metric"]} \subseteq exported
             /\ flag.protocol = "grpc" => <<"log", headers["log"]>> \in exported

\* main.go:272, 276: with gRPC an API key overrides the environment and the
\* token for all signals, and without a key a token overrides the environment,
\* with HTTP too.  No run of any flags uses both.  main.go:57 says without
\* restriction that a key overrides; with HTTP the code does not read it, and
\* nothing is said here of that case.
OneCredential ==
    LET used == {x[2] : x \in exported}
    IN  /\ flag.apiKey /\ flag.protocol = "grpc" => used \subseteq {"ApiKey"}
        /\ flag.secretToken /\ ~flag.apiKey => used \subseteq {"Bearer"}
        /\ ~flag.secretToken /\ ~flag.apiKey => used \subseteq {"environment", "nothing"}
        /\ ~({"ApiKey", "Bearer"} \subseteq used)
=============================================================================
