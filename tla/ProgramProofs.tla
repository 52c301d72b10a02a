--------------------------- MODULE ProgramProofs ---------------------------
(***************************************************************************)
(* Theorems about four of the parts that MCPrograms puts together.         *)
(*                                                                         *)
(* SendOTLP: what the exit code of sendotlp says, and which credential its *)
(* exports carry, whatever the exporters do.  Main may leave at any of its *)
(* statements, so the invariant says for each place of Main what has been  *)
(* set up, recorded and sent by then.                                      *)
(*                                                                         *)
(* AggConfigs: which configurations a store accepts, for any number of     *)
(* any configurations.                                                     *)
(*                                                                         *)
(* StubES: no two bulk handlers share a buffer, and a response has an item *)
(* for each action of its own request, for any number of handlers.         *)
(*                                                                         *)
(* Quantile: what the quantile of a histogram is, for any buckets.  The    *)
(* buckets in the order of their bounds are a bijection of the histogram's *)
(* and c has the sums of their counts; everything else follows from where  *)
(* the rank of the quantile is among those.                                *)
(***************************************************************************)
EXTENDS SendOTLP, AggConfigs, StubES, Quantile, DataLemmas, TLAPS

Stages == {"endpoint", "connect", "exporters", "metrics", "spans", "logs", "shutdown"}
Instruments == {"counter", "histogram"}

Types ==
    /\ flag \in Flags /\ at \in Stages
    /\ headers \in [Signals -> {"environment", "nothing", "ApiKey", "Bearer"}]
    /\ exitCode \in {"none", "0", "1"}

\* Only the failure of a span is not joined, and no error is joined before
\* Main is on its way out.
Errors ==
    /\ joined = failed \ {"span"}
    /\ at # "shutdown" => joined = {}
    /\ {"trace exporter", "metric exporter"} \cap joined # {} =>
         at = "shutdown" /\ conn # "open"

\* Which providers there are: none before the exporters, both until Main is on
\* its way out; the meter provider is the first to go.
Providing ==
    /\ at \in {"endpoint", "connect", "exporters"} =>
         providers = {} /\ recorded = {} /\ exported = {}
    /\ at \in {"metrics", "spans", "logs"} => providers = {"tracer", "meter"}
    /\ at = "metrics" => recorded = {}
    /\ at \in {"spans", "logs"} => recorded = Instruments
    /\ at = "shutdown" => providers \in {{}, {"tracer"}, {"tracer", "meter"}}

\* What has been answered once the meter provider is shut down, and once Main
\* has ended without an error.
Sent ==
    /\ at = "shutdown" /\ "meter" \notin providers =>
         recorded \X {headers["metric"]} \subseteq exported \/ "shutdown meter" \in joined
    /\ at = "shutdown" /\ joined = {} =>
         /\ recorded = Instruments
         /\ flag.protocol = "grpc" => <<"log", headers["log"]>> \in exported

Ended ==
    exitCode # "none" => /\ at = "shutdown" /\ providers = {}
                         /\ exitCode = "0" <=> joined = {}

\* Every export carries the header that its exporter was made with.
Headers ==
    /\ at \in {"metrics", "spans", "logs"} \/ providers # {} \/ exported # {} =>
         headers = [s \in Signals |-> Header(s)]
    /\ \A x \in exported : \E s \in Signals :
         x[2] = headers[s] /\ (s = "log" => flag.protocol = "grpc")

OtlpInv == Types /\ Errors /\ Providing /\ Sent /\ Ended /\ Headers

\* Nothing is set up at first.
LEMMA OtlpInitInv == OtlpInit => OtlpInv
  BY DEF OtlpInit, OtlpInv, Types, Errors, Providing, Sent, Ended, Headers,
     Stages, Signals

\* An export adds what carries the header of its signal.
LEMMA ExportHeaders ==
    ASSUME Headers, NEW s \in Signals, NEW names, Export(s, names),
           s = "log" => flag.protocol = "grpc", UNCHANGED <<headers, flag>>
    PROVE  /\ exported \subseteq exported'
           /\ names \X {headers[s]} \subseteq exported'
           /\ \A x \in exported' : \E t \in Signals :
                x[2] = headers'[t] /\ (t = "log" => flag'.protocol = "grpc")
  BY DEF Export, Headers

\* Every step keeps the invariant.
LEMMA OtlpStepInv == OtlpInv /\ [OtlpNext]_otlpVars => OtlpInv'
<1> SUFFICES ASSUME OtlpInv, [OtlpNext]_otlpVars PROVE OtlpInv'
  OBVIOUS
<1>0. Types /\ Errors /\ Providing /\ Sent /\ Ended /\ Headers
  BY DEF OtlpInv
<1>1. CASE CheckEndpoint
  BY <1>0, <1>1 DEF CheckEndpoint, Fails, OtlpInv, Types, Errors, Providing, Sent,
     Ended, Headers, Stages
<1>2. CASE Connect
  BY <1>0, <1>2 DEF Connect, Fails, OtlpInv, Types, Errors, Providing, Sent,
     Ended, Headers, Stages
<1>3. CASE NewExporters
  <2>1. /\ at = "exporters" /\ UNCHANGED <<flag, recorded, exported, exitCode>>
        /\ exported = {} /\ recorded = {} /\ joined = {} /\ exitCode = "none"
        /\ providers = {}
    BY <1>0, <1>3 DEF NewExporters, Errors, Providing, Ended
  <2>2. CASE \E call \in {"trace exporter", "metric exporter"} :
             /\ Fails(call)
             /\ conn' = IF conn = "open" THEN "closed" ELSE conn
             /\ UNCHANGED <<headers, providers>>
    BY <1>0, <2>1, <2>2 DEF Fails, OtlpInv, Types, Errors, Providing, Sent,
       Ended, Headers, Stages
  <2>3. CASE /\ headers' = [s \in Signals |-> Header(s)]
             /\ providers' = {"tracer", "meter"}
             /\ at' = "metrics"
             /\ UNCHANGED <<conn, failed, joined>>
    <3>1. Types'
      BY <1>0, <2>1, <2>3 DEF Types, Header, HeaderOf, Stages
    <3>2. Headers'
      BY <2>1, <2>3 DEF Headers, Header, HeaderOf
    <3> QED
      BY <1>0, <2>1, <2>3, <3>1, <3>2 DEF OtlpInv, Errors, Providing, Sent, Ended
  <2> QED
    BY <1>3, <2>2, <2>3 DEF NewExporters
<1>4. CASE GenerateMetrics
  <2>1. Headers'
    BY <1>0, <1>4 DEF GenerateMetrics, Fails, Headers, Header, HeaderOf
  <2> QED
    BY <1>0, <1>4, <2>1 DEF GenerateMetrics, Fails, OtlpInv, Types, Errors, Providing,
       Sent, Ended, Stages, Instruments
<1>5. CASE EndSpans
  <2>1. /\ at = "spans" /\ at' = "logs"
        /\ UNCHANGED <<flag, conn, headers, providers, recorded, joined, exitCode>>
        /\ failed' \ {"span"} = failed \ {"span"}
    BY <1>5 DEF EndSpans
  <2>2. Headers'
    <3>1. PICK accepted \in SUBSET Spans : Export("trace", accepted)
      BY <1>5 DEF EndSpans
    <3>2. \A x \in exported' : \E t \in Signals :
             x[2] = headers'[t] /\ (t = "log" => flag'.protocol = "grpc")
      BY <1>0, <2>1, <3>1, ExportHeaders DEF Signals
    <3> QED
      BY <1>0, <2>1, <3>2 DEF Headers, Header, HeaderOf
  <2> QED
    BY <1>0, <2>1, <2>2 DEF OtlpInv, Types, Errors, Providing, Sent, Ended, Stages
<1>6. CASE GenerateLogs
  <2>1. /\ at = "logs" /\ at' = "shutdown"
        /\ UNCHANGED <<flag, conn, headers, providers, recorded, exitCode>>
        /\ providers = {"tracer", "meter"} /\ recorded = Instruments /\ joined = {}
        /\ exitCode = "none"
    BY <1>0, <1>6 DEF GenerateLogs, Fails, Providing, Errors, Ended
  <2>2. \/ /\ flag.protocol = "grpc" /\ Export("log", {"log"})
           /\ UNCHANGED <<failed, joined>>
        \/ Fails("log") /\ UNCHANGED exported
        \/ /\ flag.protocol = "http/protobuf" /\ UNCHANGED <<exported, failed, joined>>
    BY <1>6 DEF GenerateLogs
  <2>3. \A x \in exported' : \E t \in Signals :
             x[2] = headers'[t] /\ (t = "log" => flag'.protocol = "grpc")
    BY <1>0, <2>1, <2>2, ExportHeaders DEF Signals, Headers
  <2>4. Headers'
    BY <1>0, <2>1, <2>3 DEF Headers, Header, HeaderOf
  <2>5. joined' = {} /\ flag.protocol = "grpc" => <<"log", headers["log"]>> \in exported'
    BY <2>2 DEF Fails, Export
  <2>6. Errors'
    BY <1>0, <2>1, <2>2 DEF Errors, Fails
  <2> QED
    BY <1>0, <2>1, <2>4, <2>5, <2>6 DEF OtlpInv, Types, Providing, Sent, Ended, Stages
<1>7. CASE ShutdownMeter
  <2>1. /\ at = "shutdown" /\ "meter" \in providers /\ providers' = {"tracer"}
        /\ UNCHANGED <<flag, at, conn, headers, recorded, exitCode>>
        /\ \/ Join("shutdown meter") /\ UNCHANGED exported
           \/ Export("metric", recorded) /\ UNCHANGED <<failed, joined>>
           \/ Export("metric", recorded) /\ Join("shutdown meter")
    BY <1>0, <1>7 DEF ShutdownMeter, Providing
  <2>2. /\ exported \subseteq exported'
        /\ recorded \X {headers["metric"]} \subseteq exported' \/ "shutdown meter" \in joined'
        /\ \A x \in exported' : \E t \in Signals :
             x[2] = headers'[t] /\ (t = "log" => flag'.protocol = "grpc")
    <3>1. CASE Join("shutdown meter") /\ UNCHANGED exported
      BY <1>0, <2>1, <3>1 DEF Join, Headers
    <3>2. CASE Export("metric", recorded)
      BY <1>0, <2>1, <3>2, ExportHeaders DEF Signals
    <3> QED
      BY <2>1, <3>1, <3>2
  <2>3. Headers'
    BY <1>0, <2>1, <2>2 DEF Headers, Header, HeaderOf
  <2>4. Errors' /\ (joined' = {} => joined = {})
    BY <1>0, <2>1 DEF Errors, Join
  <2>5. exitCode = "none"
    BY <1>0, <2>1 DEF Ended
  <2> QED
    BY <1>0, <2>1, <2>2, <2>3, <2>4, <2>5 DEF OtlpInv, Types, Providing, Sent, Ended, Stages
<1>8. CASE ShutdownTracer
  <2>1. Headers'
    BY <1>0, <1>8 DEF ShutdownTracer, Headers, Header, HeaderOf
  <2> QED
    BY <1>0, <1>8, <2>1 DEF ShutdownTracer, Join, OtlpInv, Types, Errors, Providing,
       Sent, Ended, Stages
<1>9. CASE Exit
  <2>1. Headers'
    BY <1>0, <1>9 DEF Exit, Headers, Header, HeaderOf
  <2> QED
    BY <1>0, <1>9, <2>1 DEF Exit, OtlpInv, Types, Errors, Providing, Sent, Ended
<1>10. CASE UNCHANGED otlpVars
  BY <1>0, <1>10 DEF otlpVars, OtlpInv, Types, Errors, Providing, Sent, Ended, Headers,
     Header, HeaderOf
<1> QED
  BY <1>1, <1>2, <1>3, <1>4, <1>5, <1>6, <1>7, <1>8, <1>9, <1>10 DEF OtlpNext

\* Main is as OtlpInv says wherever it is.
LEMMA OtlpInvariant == OtlpSpec => []OtlpInv
  BY OtlpInitInv, OtlpStepInv, PTL DEF OtlpSpec

\* An exit code of 0 means that everything but a span was sent and answered
\* without an error: the deferred shutdowns of Main (main.go) lose no failure
\* that a call returns.
THEOREM FailuresReported == OtlpSpec => []NoLostFailure
<1>1. OtlpInv => NoLostFailure
  BY DEF OtlpInv, Errors, Sent, Ended, NoLostFailure, Instruments
<1> QED
  BY <1>1, OtlpInvariant, PTL

\* No run mixes -api-key and -secret-token, and where the key is read, with
\* gRPC (main.go:271), each export carries what the flags ask for; with HTTP a
\* key is not read.
THEOREM CredentialsApart == OtlpSpec => []OneCredential
<1>1. OtlpInv => OneCredential
  <2> SUFFICES ASSUME OtlpInv PROVE OneCredential
    OBVIOUS
  <2> DEFINE grpc == flag.protocol = "grpc"
             used == {x[2] : x \in exported}
  <2>1. ASSUME NEW x \in exported
        PROVE  /\ flag.apiKey /\ grpc => x[2] = "ApiKey"
               /\ flag.secretToken /\ ~(flag.apiKey /\ grpc) => x[2] = "Bearer"
               /\ ~flag.secretToken /\ ~(flag.apiKey /\ grpc) =>
                    x[2] \in {"environment", "nothing"}
    <3>1. headers = [s \in Signals |-> Header(s)]
      BY DEF OtlpInv, Headers
    <3>2. PICK s \in Signals : x[2] = headers[s] /\ (s = "log" => grpc)
      BY DEF OtlpInv, Headers
    <3>3. x[2] = Header(s)
      BY <3>1, <3>2
    <3> QED
      BY <3>2, <3>3 DEF Header, HeaderOf, Signals
  <2>2. /\ flag.apiKey /\ grpc => used \subseteq {"ApiKey"}
        /\ flag.secretToken /\ ~(flag.apiKey /\ grpc) => used \subseteq {"Bearer"}
        /\ ~flag.secretToken /\ ~(flag.apiKey /\ grpc) =>
             used \subseteq {"environment", "nothing"}
    BY <2>1
  <2>3. ~({"ApiKey", "Bearer"} \subseteq used)
    BY <2>2
  <2> QED
    BY <2>2, <2>3 DEF OneCredential
<1> QED
  BY <1>1, OtlpInvariant, PTL

(***************************************************************************)
(* AggConfigs                                                              *)
(***************************************************************************)
\* What is kept of the configurations read, and of those of a name.
IsGroups(r) ==
    /\ r = [ok |-> r.ok, keyM |-> r.keyM, nameM |-> r.nameM]
    /\ r.ok \in BOOLEAN
    /\ \A n \in DOMAIN r.nameM : r.nameM[n] \in Seq(Candidates)

Named(r, name) == IF name \in DOMAIN r.nameM THEN r.nameM[name] ELSE <<>>

\* What makes the code refuse a configuration.
Refused(r, c) ==
    \/ ~r.ok \/ ~validate(c) \/ c.key \in DOMAIN r.keyM
    \/ \E i \in DOMAIN Named(r, c.name) : Duplicate(Named(r, c.name)[i], c)

\* AddConfig, case by case.
LEMMA AddConfigIs ==
    ASSUME NEW r, IsGroups(r), NEW c \in Candidates
    PROVE  /\ IsGroups(AddConfig(r, c))
           /\ Refused(r, c) => ~AddConfig(r, c).ok
           /\ ~Refused(r, c) =>
                /\ AddConfig(r, c).ok
                /\ AddConfig(r, c).keyM =
                     [k \in DOMAIN r.keyM \cup {c.key} |->
                        IF k = c.key THEN c ELSE r.keyM[k]]
                /\ AddConfig(r, c).nameM =
                     [n \in DOMAIN r.nameM \cup {c.name} |->
                        IF n = c.name THEN Append(Named(r, c.name), c) ELSE r.nameM[n]]
<1>1. Named(r, c.name) \in Seq(Candidates)
  BY EmptySeq DEF IsGroups, Named
<1>2. Append(Named(r, c.name), c) \in Seq(Candidates)
  BY <1>1, AppendProperties
<1>3. CASE Refused(r, c)
  <2>1. AddConfig(r, c) = [r EXCEPT !.ok = FALSE]
    BY <1>3 DEF Refused, Named, AddConfig
  <2> QED
    BY <2>1, <1>3 DEF IsGroups
<1>4. CASE ~Refused(r, c)
  <2> DEFINE keys == [k \in DOMAIN r.keyM \cup {c.key} |->
                        IF k = c.key THEN c ELSE r.keyM[k]]
             names == [n \in DOMAIN r.nameM \cup {c.name} |->
                        IF n = c.name THEN Append(Named(r, c.name), c) ELSE r.nameM[n]]
  <2>1. AddConfig(r, c) = [r EXCEPT !.keyM = keys, !.nameM = names]
    BY <1>4 DEF Refused, Named, AddConfig
  <2>2. \A n \in DOMAIN names : names[n] \in Seq(Candidates)
    BY <1>2 DEF IsGroups
  <2> HIDE DEF keys, names
  <2>3. /\ AddConfig(r, c) = [ok |-> r.ok, keyM |-> keys, nameM |-> names]
        /\ r.ok
    BY <2>1, <1>4 DEF IsGroups, Refused
  <2> DEFINE a == AddConfig(r, c)
  <2>4. a.ok /\ a.keyM = keys /\ a.nameM = names
    BY <2>3
  <2>5. a = [ok |-> a.ok, keyM |-> a.keyM, nameM |-> a.nameM] /\ a.ok \in BOOLEAN
    BY <2>3, <2>4 DEF IsGroups
  <2> HIDE DEF a
  <2>6. IsGroups(a)
    BY <2>2, <2>4, <2>5 DEF IsGroups
  <2> QED
    BY <2>4, <2>6, <1>4 DEF a, keys, names
<1> QED
  BY <1>3, <1>4

\* The number of labels and their values are the same exactly if the maps are.
LEMMA DuplicateIs ==
    ASSUME NEW a \in Candidates, NEW b \in Candidates
    PROVE  Duplicate(a, b) <=>
             /\ a.name = b.name /\ a.match = b.match
             /\ ~(/\ a.type = "percentile" /\ b.type = "percentile"
                  /\ a.percentile # b.percentile)
<1>1. /\ IsFiniteSet(DOMAIN a.match) /\ a.match = [k \in DOMAIN a.match |-> a.match[k]]
      /\ IsFiniteSet(DOMAIN b.match) /\ b.match = [k \in DOMAIN b.match |-> b.match[k]]
  BY CandidateAssumption
<1>2. ASSUME Cardinality(DOMAIN a.match) = Cardinality(DOMAIN b.match),
             \A k \in DOMAIN a.match : k \in DOMAIN b.match /\ a.match[k] = b.match[k]
      PROVE  a.match = b.match
  <2>1. DOMAIN a.match \subseteq DOMAIN b.match
    BY <1>2
  <2>2. DOMAIN a.match = DOMAIN b.match
    BY <2>1, <1>1, <1>2, FS_Subset
  <2> QED
    BY <2>2, <1>1, <1>2
<1>3. (/\ Cardinality(DOMAIN a.match) = Cardinality(DOMAIN b.match)
       /\ \A k \in DOMAIN a.match : k \in DOMAIN b.match /\ a.match[k] = b.match[k])
      <=> a.match = b.match
  BY <1>2
<1> QED
  BY <1>3 DEF Duplicate

\* Appending to a sequence adds one index.
LEMMA AppendIs ==
    ASSUME NEW S, NEW s \in Seq(S), NEW x \in S
    PROVE  /\ Append(s, x) \in Seq(S)
           /\ Len(s) \in Nat
           /\ DOMAIN s = 1..Len(s)
           /\ DOMAIN Append(s, x) = 1..(Len(s) + 1)
           /\ Append(s, x)[Len(s) + 1] = x
           /\ \A i \in 1..Len(s) : Append(s, x)[i] = s[i]
  BY AppendProperties, LenProperties

\* A configuration that comes last is the last of its name, and is none of the
\* others.
LEMMA OfNameAppend ==
    ASSUME NEW src \in Seq(Candidates), NEW c \in Candidates,
           NEW s \in Seq(Candidates), NEW name, OfName(s, name, src)
    PROVE  OfName(IF c.name = name THEN Append(s, c) ELSE s, name, Append(src, c))
<1>1. PICK index \in [DOMAIN s -> DOMAIN src] :
        /\ \A i, j \in DOMAIN s : i < j => index[i] < index[j]
        /\ {index[i] : i \in DOMAIN s} = {i \in DOMAIN src : src[i].name = name}
        /\ \A i \in DOMAIN s : s[i] = src[index[i]]
  BY DEF OfName
<1> DEFINE all == Append(src, c)
           m == Len(src)
           n == Len(s)
<1>2. /\ m \in Nat /\ DOMAIN src = 1..m /\ DOMAIN all = 1..(m + 1)
      /\ all[m + 1] = c /\ \A i \in 1..m : all[i] = src[i]
  BY AppendIs
<1>3. /\ n \in Nat /\ DOMAIN s = 1..n /\ DOMAIN Append(s, c) = 1..(n + 1)
      /\ Append(s, c)[n + 1] = c /\ \A i \in 1..n : Append(s, c)[i] = s[i]
  BY AppendIs
<1> HIDE DEF all, m, n
<1>4. CASE c.name = name
  <2> DEFINE to == [i \in 1..(n + 1) |-> IF i = n + 1 THEN m + 1 ELSE index[i]]
             t == Append(s, c)
  <2> HIDE DEF t
  <2>0. /\ DOMAIN t = 1..(n + 1) /\ t[n + 1] = c /\ \A i \in 1..n : t[i] = s[i]
    BY <1>3 DEF t
  <2>1. \A i \in 1..n : index[i] \in 1..m /\ to[i] = index[i]
    BY <1>1, <1>2, <1>3
  <2>2. to[n + 1] = m + 1
    BY <1>3
  <2>3. \A i \in 1..(n + 1) : i \in 1..n \/ i = n + 1
    BY <1>3
  <2>4. to \in [DOMAIN t -> DOMAIN all]
    BY <1>1, <1>2, <1>3, <2>0
  <2> HIDE DEF to
  <2>5. \A i, j \in 1..(n + 1) : i < j => to[i] < to[j]
    <3> TAKE i, j \in 1..(n + 1)
    <3> HAVE i < j
    <3>1. i \in 1..n
      BY <1>3
    <3>2. CASE j = n + 1
      <4>1. to[i] \in 1..m /\ to[j] = m + 1
        BY <3>1, <3>2, <2>1, <2>2
      <4> QED
        BY <4>1, <1>2
    <3>3. CASE j \in 1..n
      BY <3>1, <3>3, <2>1, <1>1, <1>3
    <3> QED
      BY <2>3, <3>2, <3>3
  <2>6. {to[i] : i \in 1..(n + 1)} = {i \in 1..(m + 1) : all[i].name = name}
    <3>1. {to[i] : i \in 1..(n + 1)} = {index[i] : i \in 1..n} \cup {m + 1}
      <4>1. \A i \in 1..n : i \in 1..(n + 1)
        BY <1>3
      <4>2. n + 1 \in 1..(n + 1)
        BY <1>3
      <4> QED
        BY <4>1, <4>2, <2>1, <2>2, <2>3, Zenon
    <3>2. {i \in 1..(m + 1) : all[i].name = name} =
            {i \in 1..m : src[i].name = name} \cup {m + 1}
      BY <1>2, <1>4
    <3> QED
      BY <3>1, <3>2, <1>1, <1>2, <1>3
  <2>7. \A i \in 1..(n + 1) : t[i] = all[to[i]]
    <3> TAKE i \in 1..(n + 1)
    <3>1. CASE i \in 1..n
      <4>1. s[i] = src[index[i]] /\ index[i] \in 1..m
        BY <3>1, <1>1, <1>2, <1>3
      <4> QED
        BY <4>1, <3>1, <2>0, <2>1, <1>2
    <3>2. CASE i = n + 1
      BY <3>2, <2>0, <2>2, <1>2
    <3> QED
      BY <2>3, <3>1, <3>2
  <2>8. OfName(t, name, all)
    <3>1. {i \in DOMAIN all : all[i].name = name} = {to[i] : i \in DOMAIN t}
      BY <2>0, <2>6, <1>2
    <3>2. \A i, j \in DOMAIN t : i < j => to[i] < to[j]
      BY <2>0, <2>5
    <3>3. \A i \in DOMAIN t : t[i] = all[to[i]]
      BY <2>0, <2>7
    <3> QED
      BY <2>4, <3>1, <3>2, <3>3, Zenon DEF OfName
  <2> QED
    BY <2>8, <1>4 DEF t, all
<1>5. CASE c.name # name
  <2>1. {i \in 1..(m + 1) : all[i].name = name} = {i \in 1..m : src[i].name = name}
    BY <1>2, <1>5
  <2>2. index \in [DOMAIN s -> DOMAIN all]
    BY <1>1, <1>2
  <2>3. \A i \in DOMAIN s : s[i] = all[index[i]]
    BY <1>1, <1>2
  <2>4. OfName(s, name, all)
    <3>1. {i \in DOMAIN all : all[i].name = name} = {index[i] : i \in DOMAIN s}
      BY <2>1, <1>1, <1>2
    <3> QED
      BY <2>2, <2>3, <3>1, <1>1, Zenon DEF OfName
  <2> QED
    BY <2>4, <1>5 DEF all
<1> QED
  BY <1>4, <1>5

\* No configuration has a name that none has.
LEMMA OfNameNone ==
    ASSUME NEW src \in Seq(Candidates), NEW name,
           name \notin {src[i].name : i \in DOMAIN src}
    PROVE  OfName(<<>>, name, src)
<1> DEFINE index == [i \in {} |-> 0]
<1>1. DOMAIN <<>> = {}
  OBVIOUS
<1>2. index \in [DOMAIN <<>> -> DOMAIN src]
  BY <1>1
<1>3. {i \in DOMAIN src : src[i].name = name} = {}
  OBVIOUS
<1> QED
  BY <1>1, <1>2, <1>3 DEF OfName

\* What rules out that two configurations are of one store.
Conflict(a, b) ==
    \/ a.key = b.key
    \/ /\ a.name = b.name /\ a.match = b.match
       /\ ~(/\ a.type = "percentile" /\ b.type = "percentile"
            /\ a.percentile # b.percentile)

\* Unambiguous, in these words, of a list and one more.
LEMMA UnambiguousAppend ==
    ASSUME NEW src \in Seq(Candidates), NEW c \in Candidates
    PROVE  Unambiguous(Append(src, c)) <=>
             /\ Unambiguous(src)
             /\ \A i \in DOMAIN src : ~Conflict(src[i], c)
<1> DEFINE all == Append(src, c)
           m == Len(src)
<1>1. /\ m \in Nat /\ DOMAIN src = 1..m /\ DOMAIN all = 1..(m + 1)
      /\ all[m + 1] = c /\ \A i \in 1..m : all[i] = src[i]
  BY AppendIs
<1> HIDE DEF all, m
<1>2. Unambiguous(src) <=> \A i, j \in 1..m : i # j => ~Conflict(src[i], src[j])
  BY <1>1 DEF Unambiguous, Conflict
<1>3. Unambiguous(all) <=>
        \A i, j \in 1..(m + 1) : i # j => ~Conflict(all[i], all[j])
  BY <1>1 DEF Unambiguous, Conflict
<1>4. \A i \in 1..(m + 1) : i \in 1..m \/ i = m + 1
  BY <1>1
<1>5. /\ \A i \in 1..m : i \in 1..(m + 1) /\ i # m + 1
      /\ m + 1 \in 1..(m + 1)
  BY <1>1
<1>6. \A a, b : Conflict(a, b) <=> Conflict(b, a)
  BY DEF Conflict
<1>7. ASSUME Unambiguous(all)
      PROVE  Unambiguous(src) /\ \A i \in 1..m : ~Conflict(src[i], c)
  BY <1>1, <1>2, <1>3, <1>5, <1>7, Zenon
<1>8. ASSUME Unambiguous(src), \A i \in 1..m : ~Conflict(src[i], c)
      PROVE  Unambiguous(all)
  <2>1. SUFFICES ASSUME NEW i \in 1..(m + 1), NEW j \in 1..(m + 1), i # j
                 PROVE  ~Conflict(all[i], all[j])
    BY <1>3
  <2>2. CASE i \in 1..m /\ j \in 1..m
    BY <2>1, <2>2, <1>1, <1>2, <1>8, Zenon
  <2>3. CASE i \in 1..m /\ j = m + 1
    BY <2>3, <1>1, <1>8, Zenon
  <2>4. CASE i = m + 1 /\ j \in 1..m
    BY <2>4, <1>1, <1>6, <1>8, Zenon
  <2> QED
    BY <2>1, <2>2, <2>3, <2>4, <1>4
<1> QED
  BY <1>1, <1>7, <1>8 DEF all

\* The configurations of a name are those of the list that have it.
LEMMA NamedAre ==
    ASSUME NEW src \in Seq(Candidates), NEW r, IsGroups(r), Grouped(r, src), NEW name
    PROVE  /\ Named(r, name) \in Seq(Candidates)
           /\ OfName(Named(r, name), name, src)
<1>1. CASE name \in DOMAIN r.nameM
  BY <1>1 DEF Named, Grouped, IsGroups
<1>2. CASE name \notin DOMAIN r.nameM
  <2>1. OfName(<<>>, name, src)
    BY <1>2, OfNameNone DEF Grouped
  <2> QED
    BY <2>1, <1>2, EmptySeq DEF Named
<1> QED
  BY <1>1, <1>2

\* The code refuses a configuration that is invalid or in conflict with one
\* that it has accepted, although it compares it only with those of its name.
LEMMA RefusedIs ==
    ASSUME NEW src \in Seq(Candidates), NEW c \in Candidates,
           NEW r, IsGroups(r), r.ok, Grouped(r, src)
    PROVE  Refused(r, c) <=>
             ~validate(c) \/ \E i \in DOMAIN src : Conflict(src[i], c)
<1> DEFINE s == Named(r, c.name)
<1>1. s \in Seq(Candidates) /\ OfName(s, c.name, src)
  BY NamedAre
<1> HIDE DEF s
<1>2. PICK index \in [DOMAIN s -> DOMAIN src] :
        /\ {index[i] : i \in DOMAIN s} = {i \in DOMAIN src : src[i].name = c.name}
        /\ \A i \in DOMAIN s : s[i] = src[index[i]]
  BY <1>1 DEF OfName
<1>3. /\ \A i \in DOMAIN s : s[i] \in Candidates
      /\ \A i \in DOMAIN src : src[i] \in Candidates
  BY <1>1, ElementOfSeq, LenProperties
<1>4. c.key \in DOMAIN r.keyM <=> \E i \in DOMAIN src : src[i].key = c.key
  <2>1. /\ {r.keyM[k] : k \in DOMAIN r.keyM} = {src[i] : i \in DOMAIN src}
        /\ \A k \in DOMAIN r.keyM : r.keyM[k].key = k
    BY DEF Grouped
  <2>2. ASSUME c.key \in DOMAIN r.keyM
        PROVE  \E i \in DOMAIN src : src[i].key = c.key
    <3>1. r.keyM[c.key] \in {src[i] : i \in DOMAIN src}
      BY <2>1, <2>2
    <3> QED
      BY <3>1, <2>1, <2>2
  <2>3. ASSUME NEW i \in DOMAIN src, src[i].key = c.key
        PROVE  c.key \in DOMAIN r.keyM
    <3>1. src[i] \in {r.keyM[k] : k \in DOMAIN r.keyM}
      BY <2>1
    <3> QED
      BY <3>1, <2>1, <2>3
  <2> QED
    BY <2>2, <2>3
<1>5. (\E i \in DOMAIN s : Duplicate(s[i], c)) <=>
        \E i \in DOMAIN src : Duplicate(src[i], c)
  <2>1. ASSUME NEW i \in DOMAIN src, Duplicate(src[i], c)
        PROVE  \E j \in DOMAIN s : Duplicate(s[j], c)
    <3>1. i \in {index[j] : j \in DOMAIN s}
      BY <2>1, <1>2 DEF Duplicate
    <3> QED
      BY <3>1, <2>1, <1>2
  <2> QED
    BY <2>1, <1>2
<1>6. \A i \in DOMAIN src :
        Conflict(src[i], c) <=> src[i].key = c.key \/ Duplicate(src[i], c)
  BY <1>3, DuplicateIs DEF Conflict
<1> QED
  BY <1>4, <1>5, <1>6 DEF Refused, s

\* A configuration that is accepted goes into both maps.
LEMMA GroupedAppend ==
    ASSUME NEW src \in Seq(Candidates), NEW c \in Candidates,
           NEW r, IsGroups(r), Grouped(r, src), ~Refused(r, c)
    PROVE  Grouped(AddConfig(r, c), Append(src, c))
<1> DEFINE a == AddConfig(r, c)
           all == Append(src, c)
           m == Len(src)
<1>1. /\ a.keyM = [k \in DOMAIN r.keyM \cup {c.key} |->
                     IF k = c.key THEN c ELSE r.keyM[k]]
      /\ a.nameM = [n \in DOMAIN r.nameM \cup {c.name} |->
                      IF n = c.name THEN Append(Named(r, c.name), c) ELSE r.nameM[n]]
      /\ c.key \notin DOMAIN r.keyM
  BY AddConfigIs DEF Refused
<1>2. /\ m \in Nat /\ DOMAIN src = 1..m /\ DOMAIN all = 1..(m + 1)
      /\ all[m + 1] = c /\ \A i \in 1..m : all[i] = src[i]
  BY AppendIs
<1> HIDE DEF a, all, m
<1>3. /\ {all[i] : i \in DOMAIN all} = {src[i] : i \in DOMAIN src} \cup {c}
      /\ {all[i].name : i \in DOMAIN all} =
           {src[i].name : i \in DOMAIN src} \cup {c.name}
  <2>1. \A i \in 1..(m + 1) : i \in 1..m \/ i = m + 1
    BY <1>2
  <2>2. m + 1 \in 1..(m + 1) /\ \A i \in 1..m : i \in 1..(m + 1)
    BY <1>2
  <2> QED
    BY <2>1, <2>2, <1>2, Zenon
<1>4. {a.keyM[k] : k \in DOMAIN a.keyM} = {r.keyM[k] : k \in DOMAIN r.keyM} \cup {c}
  BY <1>1
<1>5. \A k \in DOMAIN a.keyM : a.keyM[k].key = k
  BY <1>1 DEF Grouped
<1>6. DOMAIN a.nameM = {all[i].name : i \in DOMAIN all}
  BY <1>1, <1>3 DEF Grouped
<1>7. \A n \in DOMAIN a.nameM : OfName(a.nameM[n], n, all)
  <2> TAKE n \in DOMAIN a.nameM
  <2>1. /\ Named(r, n) \in Seq(Candidates)
        /\ OfName(Named(r, n), n, src)
    BY NamedAre
  <2>2. a.nameM[n] = IF c.name = n THEN Append(Named(r, n), c) ELSE Named(r, n)
    BY <1>1 DEF Named
  <2> QED
    BY <2>1, <2>2, OfNameAppend DEF all
<1>8. {a.keyM[k] : k \in DOMAIN a.keyM} = {all[i] : i \in DOMAIN all}
  BY <1>3, <1>4 DEF Grouped
<1> QED
  BY <1>5, <1>6, <1>7, <1>8 DEF Grouped, a, all

\* A configuration alone is accepted exactly if it is valid.
LEMMA ValidAlone ==
    ASSUME NEW c \in Candidates
    PROVE  AddConfig(NoConfigs, c).ok <=> validate(c)
<1>1. /\ NoConfigs.ok /\ DOMAIN NoConfigs.keyM = {} /\ DOMAIN NoConfigs.nameM = {}
      /\ IsGroups(NoConfigs)
  BY DEF NoConfigs, IsGroups
<1>2. Named(NoConfigs, c.name) = <<>>
  BY <1>1 DEF Named
<1>3. Refused(NoConfigs, c) <=> ~validate(c)
  BY <1>1, <1>2 DEF Refused
<1> QED
  BY <1>1, <1>3, AddConfigIs

\* The inductive invariant: a list is accepted as long as nothing is wrong with
\* it, and is in the maps then.
AllValid(src) == \A i \in DOMAIN src : validate(src[i])

ConfigInv ==
    /\ source \in Seq(Candidates)
    /\ IsGroups(grouped)
    /\ grouped.ok <=> Unambiguous(source) /\ AllValid(source)
    /\ grouped.ok => Grouped(grouped, source)

\* The list is empty at first, and so are the maps.
LEMMA ConfigInitInv == ConfigInit => ConfigInv
<1> SUFFICES ASSUME ConfigInit PROVE ConfigInv
  OBVIOUS
<1>1. source = <<>> /\ source \in Seq(Candidates) /\ DOMAIN source = {}
  BY EmptySeq DEF ConfigInit
<1>2. /\ grouped.ok /\ DOMAIN grouped.keyM = {} /\ DOMAIN grouped.nameM = {}
      /\ IsGroups(grouped)
  BY DEF NoConfigs, IsGroups, ConfigInit
<1>3. Unambiguous(source) /\ AllValid(source)
  BY <1>1 DEF Unambiguous, AllValid
<1>4. Grouped(grouped, source)
  BY <1>1, <1>2 DEF Grouped
<1> QED
  BY <1>1, <1>2, <1>3, <1>4 DEF ConfigInv

\* One more configuration keeps the invariant.
LEMMA ConfigStepInv == ConfigInv /\ [ReadConfig]_configVars => ConfigInv'
<1> SUFFICES ASSUME ConfigInv, [ReadConfig]_configVars PROVE ConfigInv'
  OBVIOUS
<1>1. CASE UNCHANGED configVars
  <2>1. source' = source /\ grouped' = grouped
    BY <1>1 DEF configVars
  <2> QED
    BY <2>1 DEF ConfigInv
<1>2. CASE ReadConfig
  <2>1. PICK c \in Candidates : /\ source' = Append(source, c)
                                /\ grouped' = AddConfig(grouped, c)
    BY <1>2 DEF ReadConfig
  <2>2. source \in Seq(Candidates) /\ IsGroups(grouped)
    BY DEF ConfigInv
  <2>3. source' \in Seq(Candidates) /\ IsGroups(grouped')
    BY <2>1, <2>2, AppendIs, AddConfigIs
  <2>4. AllValid(source') <=> AllValid(source) /\ validate(c)
    <3> DEFINE m == Len(source)
    <3>1. /\ m \in Nat /\ DOMAIN source = 1..m /\ DOMAIN source' = 1..(m + 1)
          /\ source'[m + 1] = c /\ \A i \in 1..m : source'[i] = source[i]
      BY <2>1, <2>2, AppendIs
    <3> HIDE DEF m
    <3>2. /\ \A i \in 1..(m + 1) : i \in 1..m \/ i = m + 1
          /\ m + 1 \in 1..(m + 1) /\ \A i \in 1..m : i \in 1..(m + 1)
      BY <3>1
    <3> QED
      BY <3>1, <3>2, Zenon DEF AllValid
  <2>5. Unambiguous(source') <=>
          Unambiguous(source) /\ \A i \in DOMAIN source : ~Conflict(source[i], c)
    BY <2>1, <2>2, UnambiguousAppend
  <2>6. grouped'.ok <=> ~Refused(grouped, c)
    BY <2>1, <2>2, AddConfigIs
  <2>7. CASE ~grouped.ok
    <3>1. ~grouped'.ok
      BY <2>6, <2>7 DEF Refused
    <3>2. ~(Unambiguous(source') /\ AllValid(source'))
      BY <2>4, <2>5, <2>7 DEF ConfigInv
    <3> QED
      BY <3>1, <3>2, <2>3 DEF ConfigInv
  <2>8. CASE grouped.ok
    <3>1. Grouped(grouped, source) /\ Unambiguous(source) /\ AllValid(source)
      BY <2>8 DEF ConfigInv
    <3>2. grouped'.ok <=> validate(c) /\ \A i \in DOMAIN source : ~Conflict(source[i], c)
      BY <3>1, <2>2, <2>6, <2>8, RefusedIs
    <3>3. grouped'.ok => Grouped(grouped', source')
      BY <3>1, <2>1, <2>2, <2>6, GroupedAppend
    <3> QED
      BY <3>1, <3>2, <3>3, <2>3, <2>4, <2>5 DEF ConfigInv
  <2> QED
    BY <2>7, <2>8
<1> QED
  BY <1>1, <1>2

\* A list of configurations is accepted exactly if each is valid and no two are
\* in conflict, in whatever order they come, and the two maps then have each of
\* them once (validateAndGroupAggregationConfigs).
THEOREM ConfigsGrouped == ConfigSpec => []GroupsConfigs
<1>1. ConfigInv => GroupsConfigs
  <2> SUFFICES ASSUME ConfigInv PROVE GroupsConfigs
    OBVIOUS
  <2>1. \A i \in DOMAIN source : source[i] \in Candidates
    BY ElementOfSeq, LenProperties DEF ConfigInv
  <2>2. AllValid(source) <=> \A i \in DOMAIN source : AddConfig(NoConfigs, source[i]).ok
    BY <2>1, ValidAlone DEF AllValid
  <2> QED
    BY <2>2 DEF ConfigInv, GroupsConfigs
<1> QED
  BY <1>1, ConfigInitInv, ConfigStepInv, PTL DEF ConfigSpec
-----------------------------------------------------------------------------
(***************************************************************************)
(* The Elasticsearch stub                                                  *)
(***************************************************************************)
StubTypes ==
    /\ pool \subseteq Buffers
    /\ jsonw \in [Handlers -> Buffers \cup {NoBuffer}]
    /\ step \in [Handlers -> {"idle", "get", "scan", "write", "reset", "put"}]
    /\ DOMAIN content = Buffers

\* A handler has a buffer from Get to Put, its own; buffers in the pool are
\* empty, and one that is about to be put is.
Ownership ==
    /\ \A h \in Handlers : jsonw[h] = NoBuffer <=> step[h] \in {"idle", "get"}
    /\ \A h, g \in Handlers : jsonw[h] = jsonw[g] /\ jsonw[h] # NoBuffer => h = g
    /\ \A h \in Handlers : jsonw[h] \notin pool
    /\ \A b \in pool : content[b] = <<>>
    /\ \A h \in Handlers : step[h] = "put" => content[jsonw[h]] = <<>>

OwnInv == StubTypes /\ Ownership

\* No buffer is taken at first.
LEMMA OwnStart == StubInit => OwnInv
BY StubAssumption DEF StubInit, OwnInv, StubTypes, Ownership

\* Every step keeps the buffers apart.
LEMMA OwnStep == OwnInv /\ [StubNext]_stubVars => OwnInv'
<1> SUFFICES ASSUME OwnInv, [StubNext]_stubVars PROVE OwnInv' OBVIOUS
<1> USE StubAssumption DEF OwnInv, StubTypes, Ownership
<1>1. CASE PoolDrops BY <1>1 DEF PoolDrops
<1>2. ASSUME NEW h \in Handlers, Serve(h) PROVE OwnInv'
  BY <1>2 DEF Serve, StubGoto
<1>3. ASSUME NEW h \in Handlers, GetBuffer(h) PROVE OwnInv'
  BY <1>3 DEF GetBuffer, StubGoto
<1>4. ASSUME NEW h \in Handlers, ScanPair(h) PROVE OwnInv'
  BY <1>4 DEF ScanPair, WriteTokens
<1>5. ASSUME NEW h \in Handlers, ExpectedSource(h) \/ ScanError(h) PROVE OwnInv'
  BY <1>5 DEF ExpectedSource, ScanError, StubGoto
<1>6. ASSUME NEW h \in Handlers, CloseItems(h) PROVE OwnInv'
  BY <1>6 DEF CloseItems, WriteTokens, StubGoto
<1>7. ASSUME NEW h \in Handlers, WriteResponse(h) PROVE OwnInv'
  BY <1>7 DEF WriteResponse, StubGoto
<1>8. ASSUME NEW h \in Handlers, ResetBuffer(h) PROVE OwnInv'
  BY <1>8 DEF ResetBuffer, StubGoto
<1>9. ASSUME NEW h \in Handlers, PutBuffer(h) PROVE OwnInv'
  BY <1>9 DEF PutBuffer, StubGoto
<1>10. CASE UNCHANGED stubVars BY <1>10 DEF stubVars
<1> QED BY <1>1, <1>2, <1>3, <1>4, <1>5, <1>6, <1>7, <1>8, <1>9, <1>10 DEF StubNext, Bulk

\* The buffers are apart.
LEMMA OwnInvariant == StubSpec => []OwnInv
BY OwnStart, OwnStep, PTL DEF StubSpec

\* For every number of handlers and buffers: a buffer of the pool is empty and
\* nobody's, and no two handlers write to one (stub_es.go:120-124).
THEOREM BuffersOwned == StubSpec => []OwnBuffer
<1>1. OwnInv => OwnBuffer BY DEF OwnInv, Ownership, OwnBuffer
<1> QED BY <1>1, OwnInvariant, PTL
-----------------------------------------------------------------------------
\* What is true of a request that is answered: the body of OneItemPerAction.
Answered(h) ==
    IF response[h].status = 200 /\ request[h].bulk
    THEN /\ \A i \in DOMAIN request[h].body : request[h].body[i] = "line"
         /\ Len(request[h].body) % 2 = 0
         /\ response[h].items = BulkResponse(Len(request[h].body) \div 2)
    ELSE /\ response[h].items = <<>>
         /\ response[h].status = 400 =>
              \/ Len(request[h].body) % 2 = 1
              \/ \E i \in DOMAIN request[h].body : request[h].body[i] = "bad"

Body(h) == request[h].body

\* While a body is scanned there is an item for every two lines.
Scanning(h) ==
    \E k \in Nat :
        /\ scanned[h] = 2 * k
        /\ 2 * k <= Len(Body(h))
        /\ \A i \in 1..(2 * k) : Body(h)[i] = "line"
        /\ content[jsonw[h]] = Items(k)

Scanned(h) ==
    \E k \in Nat :
        /\ Len(Body(h)) = 2 * k
        /\ \A i \in 1..(2 * k) : Body(h)[i] = "line"
        /\ content[jsonw[h]] = BulkResponse(k)

Served(h) ==
    /\ Body(h) \in Seq({"line", "bad"})
    /\ step[h] \in {"get", "scan", "write"} => request[h].bulk
    /\ step[h] = "scan" => Scanning(h)
    /\ step[h] = "write" => Scanned(h)
    /\ step[h] \in {"idle", "reset", "put"} /\ response[h].status # 0 => Answered(h)

HistoryTypes ==
    /\ DOMAIN request = Handlers /\ DOMAIN scanned = Handlers /\ DOMAIN response = Handlers

ServedInv == OwnInv /\ HistoryTypes /\ \A h \in Handlers : Served(h)

\* A response without items.
LEMMA ItemsOfNone == Items(0) = <<"open">>
BY DEF Items

\* Sequences of one and of two.
LEMMA ShortSeq == ASSUME NEW S, NEW x \in S, NEW y \in S
                  PROVE  <<x>> \in Seq(S) /\ <<x, y>> \in Seq(S)
OBVIOUS

\* Functions that are sequences.
LEMMA AsSeq ==
    ASSUME NEW S, NEW n \in Nat, NEW f \in [1..n -> S]
    PROVE  f \in Seq(S) /\ Len(f) = n
OBVIOUS

\* A sequence that is the concatenation of two others.
LEMMA IsConcat ==
    ASSUME NEW S, NEW s \in Seq(S), NEW t \in Seq(S), NEW r \in Seq(S),
           Len(r) = Len(s) + Len(t), \A i \in 1..Len(s) : r[i] = s[i],
           \A i \in 1..Len(t) : r[Len(s) + i] = t[i]
    PROVE  r = s \o t
<1>1. Len(s) \in Nat /\ Len(t) \in Nat OBVIOUS
<1>2. s \o t \in Seq(S) BY ConcatProperties
<1>3. Len(s \o t) = Len(s) + Len(t) BY ConcatProperties
<1>4. ASSUME NEW i \in 1..(Len(s) + Len(t)) PROVE r[i] = (s \o t)[i]
  <2>1. (s \o t)[i] = IF i <= Len(s) THEN s[i] ELSE t[i - Len(s)] BY ConcatProperties
  <2>2. CASE i <= Len(s) BY <2>1, <2>2, <1>1
  <2>3. CASE i > Len(s)
    <3>1. i - Len(s) \in 1..Len(t) /\ Len(s) + (i - Len(s)) = i BY <2>3, <1>1
    <3> QED BY <3>1, <2>1, <2>3, <1>1
  <2> QED BY <2>2, <2>3, <1>1
<1> QED BY <1>2, <1>3, <1>4, SeqEqual

\* Odd and even numbers.
LEMMA Parity ==
    \A k \in Nat : (2 * k) % 2 = 0 /\ (2 * k + 1) % 2 = 1 /\ (2 * k + 2) % 2 = 0
                 /\ (2 * k) \div 2 = k
OBVIOUS

\* What a pair of lines adds.
Pair(k) == IF k = 0 THEN <<"item">> ELSE <<",", "item">>
Tokens == {"open", "item", ",", "close"}
Token(i) == IF i = 1 THEN "open" ELSE IF i % 2 = 0 THEN "item" ELSE ","

\* One more item follows those before.
LEMMA ItemsOfOneMore ==
    ASSUME NEW k \in Nat
    PROVE  Items(k + 1) = Items(k) \o Pair(k)
<1> DEFINE n == IF k = 0 THEN 1 ELSE 2 * k
           m == 2 * k + 2
<1>1. n \in Nat /\ m \in Nat /\ m = n + Len(Pair(k)) /\ n >= 1 BY DEF Pair
<1>2. Items(k) = [i \in 1..n |-> Token(i)] BY DEF Items, Token
<1>3. Items(k + 1) = [i \in 1..m |-> Token(i)] BY DEF Items, Token
<1>4. \A i \in 1..Len(Pair(k)) : Token(n + i) = Pair(k)[i]
  <2>1. CASE k = 0
    <3>1. n = 1 /\ Len(Pair(k)) = 1 /\ Pair(k)[1] = "item" BY <2>1 DEF Pair
    <3>2. 2 % 2 = 0 OBVIOUS
    <3>3. Token(2) = "item" BY <3>2 DEF Token
    <3> QED BY <3>1, <3>3
  <2>2. CASE k # 0
    <3>1. n = 2 * k /\ Len(Pair(k)) = 2 BY <2>2 DEF Pair
    <3>2. Token(2 * k + 1) = "," /\ Token(2 * k + 2) = "item" BY <2>2, Parity DEF Token
    <3>3. Pair(k)[1] = "," /\ Pair(k)[2] = "item" BY <2>2 DEF Pair
    <3>4. \A i \in 1..2 : i = 1 \/ i = 2 OBVIOUS
    <3> QED BY <3>1, <3>2, <3>3, <3>4
  <2> QED BY <2>1, <2>2
<1>5. \A i \in Nat : Token(i) \in Tokens BY DEF Token, Tokens
<1>6. Pair(k) \in Seq(Tokens)
  <2>1. "item" \in Tokens /\ "," \in Tokens BY DEF Tokens
  <2>2. <<"item">> \in Seq(Tokens) /\ <<",", "item">> \in Seq(Tokens) BY <2>1, ShortSeq
  <2> QED BY <2>2 DEF Pair
<1> HIDE DEF n, m
<1>7. Items(k) \in Seq(Tokens) /\ Len(Items(k)) = n
  <2>1. Items(k) \in [1..n -> Tokens] BY <1>1, <1>2, <1>5
  <2> QED BY <2>1, <1>1, AsSeq
<1>8. Items(k + 1) \in Seq(Tokens) /\ Len(Items(k + 1)) = m
  <2>1. Items(k + 1) \in [1..m -> Tokens] BY <1>1, <1>3, <1>5
  <2> QED BY <2>1, <1>1, AsSeq
<1>9. \A i \in 1..n : Items(k + 1)[i] = Items(k)[i]
  <2>1. Len(Pair(k)) \in Nat BY <1>6
  <2> QED BY <2>1, <1>1, <1>2, <1>3
<1>10. \A i \in 1..Len(Pair(k)) : Items(k + 1)[n + i] = Pair(k)[i]
  <2>1. Len(Pair(k)) \in Nat BY <1>6
  <2> QED BY <2>1, <1>1, <1>3, <1>4
<1> DEFINE s == Items(k)
           t == Pair(k)
           r == Items(k + 1)
<1>11. /\ s \in Seq(Tokens) /\ t \in Seq(Tokens) /\ r \in Seq(Tokens)
       /\ Len(r) = Len(s) + Len(t) /\ \A i \in 1..Len(s) : r[i] = s[i]
       /\ \A i \in 1..Len(t) : r[Len(s) + i] = t[i]
  BY <1>1, <1>6, <1>7, <1>8, <1>9, <1>10
<1> HIDE DEF s, t, r
<1>12. r = s \o t
  BY <1>11, IsConcat
<1> QED BY <1>12 DEF r, s, t
-----------------------------------------------------------------------------
\* What a handler does leaves the other requests as they are.
Same(g) ==
    /\ request'[g] = request[g] /\ step'[g] = step[g] /\ scanned'[g] = scanned[g]
    /\ response'[g] = response[g] /\ jsonw'[g] = jsonw[g]
    /\ step[g] \in {"scan", "write"} => content'[jsonw[g]] = content[jsonw[g]]

\* A request that a step leaves alone stays as it is.
LEMMA ServedBefore ==
    ASSUME NEW g \in Handlers, Served(g), Same(g)
    PROVE  Served(g)'
<1>1. UNCHANGED Body(g) BY DEF Same, Body
<1>2. step[g] = "scan" => (Scanning(g) <=> Scanning(g)') BY <1>1 DEF Same, Scanning
<1>3. step[g] = "write" => (Scanned(g) <=> Scanned(g)') BY <1>1 DEF Same, Scanned
<1>4. Answered(g) <=> Answered(g)' BY DEF Same, Answered
<1>5. step'[g] = step[g] /\ request'[g] = request[g] /\ response'[g] = response[g] BY DEF Same
<1> QED BY <1>1, <1>2, <1>3, <1>4, <1>5 DEF Served

\* A handler leaves the requests of the others alone.
LEMMA OthersSame ==
    ASSUME ServedInv, NEW h \in Handlers, NEW g \in Handlers, g # h, Serve(h) \/ Bulk(h)
    PROVE  Same(g)
<1> USE DEF ServedInv, OwnInv, StubTypes, Ownership, HistoryTypes, Same
<1>1. CASE Serve(h) BY <1>1 DEF Serve, Answer, StubGoto
<1>2. CASE GetBuffer(h) BY <1>2 DEF GetBuffer, StubGoto
<1>3. CASE ScanPair(h) BY <1>3 DEF ScanPair, WriteTokens
<1>4. CASE ExpectedSource(h) \/ ScanError(h)
  BY <1>4 DEF ExpectedSource, ScanError, Answer, StubGoto
<1>5. CASE CloseItems(h) BY <1>5 DEF CloseItems, WriteTokens, StubGoto
<1>6. CASE WriteResponse(h) BY <1>6 DEF WriteResponse, Answer, StubGoto
<1>7. CASE ResetBuffer(h) \/ PutBuffer(h) BY <1>7 DEF ResetBuffer, PutBuffer, StubGoto
<1> QED BY <1>1, <1>2, <1>3, <1>4, <1>5, <1>6, <1>7 DEF Bulk

\* A body is a sequence of lines.
LEMMA BodyLines ==
    ASSUME ServedInv, NEW h \in Handlers
    PROVE  /\ Body(h) \in Seq({"line", "bad"})
           /\ Len(Body(h)) \in Nat
           /\ DOMAIN Body(h) = 1..Len(Body(h))
           /\ \A i \in 1..Len(Body(h)) : Body(h)[i] \in {"line", "bad"}
<1>1. Body(h) \in Seq({"line", "bad"}) BY DEF ServedInv, Served
<1> QED BY <1>1

\* The fields of Served(h)' that a step of h leaves to be shown.
LEMMA ServedAfter ==
    ASSUME ServedInv, NEW h \in Handlers, UNCHANGED <<request, response>>,
           step[h] \in {"get", "scan", "write"},
           step'[h] = "scan" => Scanning(h)', step'[h] = "write" => Scanned(h)',
           step'[h] \in {"scan", "write"}
    PROVE  Served(h)'
<1>1. Body(h) \in Seq({"line", "bad"}) BY BodyLines
<1>2. request[h].bulk BY DEF ServedInv, Served
<1>3. request'[h].bulk /\ Body(h)' = Body(h) BY <1>2 DEF Body
<1> QED BY <1>1, <1>3 DEF Served

\* A request comes in.
LEMMA ServeServed ==
    ASSUME ServedInv, NEW h \in Handlers, Serve(h)
    PROVE  Served(h)'
<1>1. step[h] = "idle" /\ DOMAIN request = Handlers /\ DOMAIN response = Handlers
  BY DEF Serve, ServedInv, HistoryTypes
<1>2. step \in [Handlers -> {"idle", "get", "scan", "write", "reset", "put"}]
  BY DEF ServedInv, OwnInv, StubTypes
<1>3. PICK r \in Requested :
        /\ request' = [request EXCEPT ![h] = r]
        /\ CASE ~Passes(r) -> Answer(h, 401, <<>>) /\ UNCHANGED step
             [] Passes(r) /\ ~r.bulk -> Answer(h, 200, <<>>) /\ UNCHANGED step
             [] Passes(r) /\ r.bulk /\ ~r.decodes -> Answer(h, 500, <<>>) /\ UNCHANGED step
             [] OTHER -> Answer(h, 0, <<>>) /\ StubGoto(h, "get")
  BY DEF Serve
<1>4. r.body \in Seq({"line", "bad"}) /\ r.bulk \in BOOLEAN /\ r.decodes \in BOOLEAN
  <2>1. r.body \in Bodies \cup {<<>>} /\ r.bulk \in BOOLEAN /\ r.decodes \in BOOLEAN
    BY DEF Requested
  <2>2. <<>> \in Seq({"line", "bad"}) OBVIOUS
  <2> QED BY <2>1, <2>2, StubAssumption
<1>5. request'[h] = r /\ Body(h)' = r.body BY <1>1, <1>3 DEF Body
<1>6. \/ r.bulk /\ Answer(h, 0, <<>>) /\ StubGoto(h, "get")
      \/ \E status \in {401, 200, 500} :
             Answer(h, status, <<>>) /\ UNCHANGED step /\ (status = 200 => ~r.bulk)
  <2>1. Passes(r) \in BOOLEAN BY DEF Passes
  <2> DEFINE P == Passes(r)  A(status) == Answer(h, status, <<>>)  G == StubGoto(h, "get")
  <2>2. CASE ~P BY <1>3, <2>2
  <2>3. CASE P /\ ~r.bulk BY <1>3, <2>3
  <2>4. CASE P /\ r.bulk /\ ~r.decodes BY <1>3, <2>4
  <2>5. CASE P /\ r.bulk /\ r.decodes BY <1>3, <2>5
  <2> QED BY <1>4, <2>1, <2>2, <2>3, <2>4, <2>5
<1>7. CASE r.bulk /\ Answer(h, 0, <<>>) /\ StubGoto(h, "get")
  <2>1. step'[h] = "get" BY <1>2, <1>7 DEF StubGoto
  <2> QED BY <1>4, <1>5, <1>7, <2>1 DEF Served
<1>8. ASSUME NEW status \in {401, 200, 500}, Answer(h, status, <<>>), UNCHANGED step,
             status = 200 => ~r.bulk
      PROVE  Served(h)'
  <2>1. response'[h].status = status /\ response'[h].items = <<>> BY <1>1, <1>8 DEF Answer
  <2>2. ~(response'[h].status = 200 /\ request'[h].bulk) /\ response'[h].status # 400
    BY <1>5, <1>8, <2>1
  <2>3. Answered(h)' BY <2>1, <2>2, Zenon DEF Answered
  <2> QED BY <1>1, <1>4, <1>5, <1>8, <2>3 DEF Served
<1> QED BY <1>6, <1>7, <1>8

\* A buffer is taken.
LEMMA GetBufferServed ==
    ASSUME ServedInv, NEW h \in Handlers, GetBuffer(h)
    PROVE  Served(h)'
<1>1. /\ step[h] = "get" /\ step'[h] = "scan" /\ scanned'[h] = 0
      /\ UNCHANGED <<request, response>>
  BY DEF GetBuffer, StubGoto, ServedInv, OwnInv, StubTypes, HistoryTypes
<1>2. content'[jsonw'[h]] = <<"open">>
  <2>1. PICK b \in Buffers : /\ b \in pool \/ content[b] = <<>>
                             /\ jsonw' = [jsonw EXCEPT ![h] = b]
                             /\ content' = [content EXCEPT ![b] = @ \o <<"open">>]
    BY DEF GetBuffer
  <2>2. content[b] = <<>> BY <2>1 DEF ServedInv, OwnInv, Ownership
  <2>3. <<>> \o <<"open">> = <<"open">> OBVIOUS
  <2> QED BY <2>1, <2>2, <2>3 DEF ServedInv, OwnInv, StubTypes
<1>3. Len(Body(h)) \in Nat /\ Body(h)' = Body(h) BY <1>1, BodyLines DEF Body
<1>4. Scanning(h)'
  <2>1. 0 <= Len(Body(h)) /\ 2 * 0 = 0 /\ 1..0 = {} BY <1>3
  <2> QED BY <1>1, <1>2, <1>3, <2>1, ItemsOfNone DEF Scanning
<1> QED BY <1>1, <1>4, ServedAfter

\* Two lines are read.
LEMMA ScanPairServed ==
    ASSUME ServedInv, NEW h \in Handlers, ScanPair(h)
    PROVE  Served(h)'
<1>1. UNCHANGED <<request, step, jsonw, response>> /\ step[h] = "scan" BY DEF ScanPair
<1>2. Scanning(h) BY <1>1 DEF ServedInv, Served
<1>3. PICK k \in Nat : /\ scanned[h] = 2 * k
                       /\ 2 * k <= Len(Body(h))
                       /\ \A i \in 1..(2 * k) : Body(h)[i] = "line"
                       /\ content[jsonw[h]] = Items(k)
  BY <1>2 DEF Scanning
<1>4. /\ 2 * k + 1 \in DOMAIN Body(h) /\ 2 * k + 2 \in DOMAIN Body(h)
      /\ Body(h)[2 * k + 1] = "line" /\ Body(h)[2 * k + 2] = "line"
  BY <1>3 DEF ScanPair, Scans, Body
<1>5. 2 * (k + 1) <= Len(Body(h)) /\ 2 * (k + 1) = 2 * k + 2
  BY <1>4, BodyLines
<1>6. scanned'[h] = 2 * (k + 1)
  <2>1. scanned'[h] = scanned[h] + 2 BY DEF ScanPair, ServedInv, HistoryTypes
  <2> QED BY <2>1, <1>3, <1>5
<1>7. content'[jsonw[h]] = Items(k + 1)
  <2>1. jsonw[h] \in Buffers
    BY <1>1 DEF ServedInv, OwnInv, StubTypes, Ownership
  <2>2. scanned[h] = 0 <=> k = 0 BY <1>3
  <2>3. content'[jsonw[h]] = Items(k) \o Pair(k)
    BY <1>3, <2>1, <2>2 DEF ScanPair, WriteTokens, Pair, ServedInv, OwnInv, StubTypes
  <2> QED BY <2>3, ItemsOfOneMore
<1>8. \A i \in 1..(2 * (k + 1)) : Body(h)[i] = "line"
  <2>1. \A i \in 1..(2 * (k + 1)) : i \in 1..(2 * k) \/ i = 2 * k + 1 \/ i = 2 * k + 2 OBVIOUS
  <2> QED BY <2>1, <1>3, <1>4
<1>9. Body(h)' = Body(h) /\ content'[jsonw'[h]] = Items(k + 1) /\ k + 1 \in Nat
  BY <1>1, <1>7 DEF Body
<1>10. Scanning(h)' BY <1>5, <1>6, <1>8, <1>9 DEF Scanning
<1> QED BY <1>1, <1>10, ServedAfter

\* A body is refused.
LEMMA RefusedServed ==
    ASSUME ServedInv, NEW h \in Handlers, ExpectedSource(h) \/ ScanError(h)
    PROVE  Served(h)'
<1>1. step[h] = "scan" /\ step'[h] = "reset" /\ UNCHANGED request
  BY DEF ExpectedSource, ScanError, StubGoto, ServedInv, OwnInv, StubTypes
<1>2. response'[h].status = 400 /\ response'[h].items = <<>>
  BY DEF ExpectedSource, ScanError, Answer, ServedInv, HistoryTypes
<1>3. Scanning(h) BY <1>1 DEF ServedInv, Served
<1>4. PICK k \in Nat : scanned[h] = 2 * k /\ 2 * k <= Len(Body(h)) BY <1>3 DEF Scanning
<1>5. Len(Body(h)) % 2 = 1 \/ \E i \in DOMAIN Body(h) : Body(h)[i] = "bad"
  <2> DEFINE B == Body(h)  n == Len(B)
  <2>1. n \in Nat /\ DOMAIN B = 1..n /\ \A i \in 1..n : B[i] \in {"line", "bad"} BY BodyLines
  <2>2. CASE ScanError(h)
    <3>1. scanned[h] < n /\ ~(2 * k + 1 \in DOMAIN B /\ B[2 * k + 1] = "line")
      BY <2>2, <1>4 DEF ScanError, Scans, Body
    <3> HIDE DEF B, n
    <3>2. 2 * k + 1 \in 1..n BY <3>1, <1>4, <2>1
    <3>3. B[2 * k + 1] = "bad" BY <3>1, <3>2, <2>1
    <3> QED BY <3>2, <3>3, <2>1 DEF B
  <2>3. CASE ExpectedSource(h)
    <3>1. 2 * k + 1 \in DOMAIN B /\ ~(2 * k + 2 \in DOMAIN B /\ B[2 * k + 2] = "line")
      BY <2>3, <1>4 DEF ExpectedSource, Scans, Body
    <3> HIDE DEF B, n
    <3>2. CASE 2 * k + 2 \in 1..n
      <4>1. B[2 * k + 2] = "bad" BY <3>1, <3>2, <2>1
      <4> QED BY <4>1, <3>2, <2>1 DEF B
    <3>3. CASE 2 * k + 2 \notin 1..n
      <4>1. n = 2 * k + 1 BY <3>1, <3>3, <2>1
      <4> QED BY <4>1, Parity DEF n, B
    <3> QED BY <3>2, <3>3
  <2> QED BY <2>2, <2>3
<1>6. Answered(h)'
  <2>1. ~(response'[h].status = 200 /\ request'[h].bulk) BY <1>2
  <2> QED BY <1>1, <1>2, <1>5, <2>1, Zenon DEF Answered, Body
<1>7. Body(h)' = Body(h) /\ Body(h) \in Seq({"line", "bad"}) BY <1>1, BodyLines DEF Body
<1> QED BY <1>1, <1>6, <1>7 DEF Served

\* The last item is written.
LEMMA CloseServed ==
    ASSUME ServedInv, NEW h \in Handlers, CloseItems(h)
    PROVE  Served(h)'
<1>1. step[h] = "scan" /\ step'[h] = "write" /\ UNCHANGED <<request, jsonw, response>>
  BY DEF CloseItems, StubGoto, ServedInv, OwnInv, StubTypes
<1>2. Scanning(h) BY <1>1 DEF ServedInv, Served
<1>3. PICK k \in Nat : /\ scanned[h] = 2 * k
                       /\ \A i \in 1..(2 * k) : Body(h)[i] = "line"
                       /\ content[jsonw[h]] = Items(k)
  BY <1>2 DEF Scanning
<1>4. Len(Body(h)) = 2 * k BY <1>3 DEF CloseItems, Body
<1>5. content'[jsonw[h]] = BulkResponse(k)
  <2>1. jsonw[h] \in Buffers
    BY <1>1 DEF ServedInv, OwnInv, StubTypes, Ownership
  <2> QED BY <1>3, <2>1 DEF CloseItems, WriteTokens, BulkResponse, ServedInv, OwnInv, StubTypes
<1>6. Body(h)' = Body(h) /\ content'[jsonw'[h]] = BulkResponse(k) BY <1>1, <1>5 DEF Body
<1>7. Scanned(h)' BY <1>3, <1>4, <1>6 DEF Scanned
<1> QED BY <1>1, <1>7, ServedAfter

\* The response is written.
LEMMA WriteServed ==
    ASSUME ServedInv, NEW h \in Handlers, WriteResponse(h)
    PROVE  Served(h)'
<1>1. step[h] = "write" /\ step'[h] = "reset" /\ UNCHANGED request
  BY DEF WriteResponse, StubGoto, ServedInv, OwnInv, StubTypes
<1>2. request[h].bulk /\ Scanned(h) BY <1>1 DEF ServedInv, Served
<1>3. PICK k \in Nat : /\ Len(Body(h)) = 2 * k
                       /\ \A i \in 1..(2 * k) : Body(h)[i] = "line"
                       /\ content[jsonw[h]] = BulkResponse(k)
  BY <1>2 DEF Scanned
<1>4. response'[h].status = 200 /\ response'[h].items = BulkResponse(k)
  BY <1>3 DEF WriteResponse, Answer, ServedInv, HistoryTypes
<1>5. DOMAIN Body(h) = 1..(2 * k) BY <1>3, BodyLines
<1>6. (2 * k) % 2 = 0 /\ (2 * k) \div 2 = k BY Parity
<1>7. Len(Body(h)) % 2 = 0 /\ BulkResponse(Len(Body(h)) \div 2) = BulkResponse(k)
  BY <1>3, <1>6
<1>8. Answered(h)' BY <1>1, <1>2, <1>3, <1>4, <1>5, <1>7 DEF Answered, Body
<1>9. Body(h)' = Body(h) /\ Body(h) \in Seq({"line", "bad"}) BY <1>1, BodyLines DEF Body
<1> QED BY <1>1, <1>8, <1>9 DEF Served

\* The buffer is given back.
LEMMA LeaveServed ==
    ASSUME ServedInv, NEW h \in Handlers, ResetBuffer(h) \/ PutBuffer(h)
    PROVE  Served(h)'
<1>1. /\ step[h] \in {"reset", "put"} /\ step'[h] \in {"put", "idle"}
      /\ UNCHANGED <<request, response>>
  BY DEF ResetBuffer, PutBuffer, StubGoto, ServedInv, OwnInv, StubTypes
<1>2. Body(h)' = Body(h) /\ Body(h) \in Seq({"line", "bad"}) BY <1>1, BodyLines DEF Body
<1>3. response[h].status # 0 => Answered(h) BY <1>1 DEF ServedInv, Served
<1>4. Answered(h)' <=> Answered(h) BY <1>1 DEF Answered
<1> QED BY <1>1, <1>2, <1>3, <1>4 DEF Served

\* No request has been served at first.
LEMMA ServedStart == StubInit => ServedInv
<1> SUFFICES ASSUME StubInit PROVE ServedInv OBVIOUS
<1>1. OwnInv BY OwnStart
<1>2. HistoryTypes BY DEF StubInit, HistoryTypes
<1>3. ASSUME NEW h \in Handlers PROVE Served(h)
  <2>1. Body(h) = <<>> /\ step[h] = "idle" /\ response[h].status = 0
    BY DEF StubInit, Body, NoRequest, NoResponse
  <2>2. <<>> \in Seq({"line", "bad"}) OBVIOUS
  <2> QED BY <2>1, <2>2 DEF Served
<1> QED BY <1>1, <1>2, <1>3 DEF ServedInv

\* Every step keeps the requests as ServedInv says.
LEMMA ServedStep == ServedInv /\ [StubNext]_stubVars => ServedInv'
<1> SUFFICES ASSUME ServedInv, [StubNext]_stubVars PROVE ServedInv' OBVIOUS
<1>1. OwnInv' BY OwnStep DEF ServedInv
<1>2. ASSUME NEW h \in Handlers, Serve(h) \/ Bulk(h) PROVE ServedInv'
  <2>1. HistoryTypes'
    <3>1. HistoryTypes BY DEF ServedInv
    <3>2. CASE Serve(h) BY <3>1, <3>2 DEF HistoryTypes, Serve, Answer
    <3>3. CASE Bulk(h)
      BY <3>1, <3>3 DEF HistoryTypes, Bulk, GetBuffer, ScanPair, ExpectedSource, ScanError,
                        CloseItems, WriteResponse, ResetBuffer, PutBuffer, Answer
    <3> QED BY <1>2, <3>2, <3>3
  <2>2. ASSUME NEW g \in Handlers, g # h PROVE Served(g)'
    <3>1. Same(g) BY <1>2, <2>2, OthersSame
    <3> QED BY <3>1, ServedBefore DEF ServedInv
  <2>3. Served(h)'
    BY <1>2, ServeServed, GetBufferServed, ScanPairServed, RefusedServed, CloseServed,
       WriteServed, LeaveServed DEF Bulk
  <2> QED BY <1>1, <2>1, <2>2, <2>3 DEF ServedInv
<1>3. CASE PoolDrops \/ UNCHANGED stubVars
  <2>1. UNCHANGED <<content, step, request, scanned, jsonw, response>>
    BY <1>3 DEF PoolDrops, stubVars
  <2>2. ASSUME NEW g \in Handlers PROVE Served(g)'
    <3>1. Same(g) BY <2>1 DEF Same
    <3> QED BY <3>1, ServedBefore DEF ServedInv
  <2> QED BY <1>1, <2>1, <2>2 DEF ServedInv, HistoryTypes
<1> QED BY <1>2, <1>3 DEF StubNext

\* For every number of handlers and buffers and all bodies: a bulk request is
\* answered with its own items, one for an action, or refused
\* (stub_es.go:126-152).
THEOREM EachActionAnswered == StubSpec => []OneItemPerAction
<1>1. ServedInv => OneItemPerAction
  BY DEF ServedInv, Served, Answered, OneItemPerAction
<1> QED BY <1>1, ServedStart, ServedStep, PTL DEF StubSpec

(***************************************************************************)
(* Quantile                                                                *)
(***************************************************************************)
Buckets == [bound : Bounds, count : Counts]

\* What is known of a histogram: its buckets have different bounds.
IsHistogram(h) ==
    /\ h \in Seq(Buckets)
    /\ \A i, j \in 1..Len(h) : h[i].bound = h[j].bound => i = j

\* The place of bucket i in the order of the bounds.
Place(h, i) == Cardinality({j \in DOMAIN h : h[j].bound <= h[i].bound})

\* A bucket has a bound and a count.
LEMMA BucketTypes ==
    ASSUME NEW h, IsHistogram(h)
    PROVE  /\ Len(h) \in Nat /\ DOMAIN h = 1..Len(h)
           /\ \A i \in 1..Len(h) : /\ h[i] \in Buckets
                                   /\ h[i].bound \in Bounds /\ h[i].bound \in Int
                                   /\ h[i].count \in Nat
<1>1. h \in Seq(Buckets)
  BY DEF IsHistogram
<1>2. Len(h) \in Nat /\ DOMAIN h = 1..Len(h) /\ \A i \in 1..Len(h) : h[i] \in Buckets
  BY <1>1
<1> QED
  BY <1>2, QuantileAssumption DEF Buckets

\* Places are positions, and a higher bound has a later place.
LEMMA PlaceGrows ==
    ASSUME NEW h, IsHistogram(h), NEW i \in 1..Len(h)
    PROVE  /\ Place(h, i) \in 1..Len(h)
           /\ \A j \in 1..Len(h) : h[i].bound < h[j].bound => Place(h, i) < Place(h, j)
<1> DEFINE n == Len(h)
           S(k) == {j \in 1..n : h[j].bound <= h[k].bound}
<1>1. /\ n \in Nat /\ DOMAIN h = 1..n
      /\ \A j \in 1..n : h[j].bound \in Int
  BY BucketTypes
<1> HIDE DEF n
<1>2. IsFiniteSet(1..n) /\ Cardinality(1..n) = n
  BY <1>1, FS_Interval
<1>3. \A k : Place(h, k) = Cardinality(S(k))
  BY <1>1 DEF Place
<1>4. ASSUME NEW k \in 1..n
      PROVE  /\ IsFiniteSet(S(k)) /\ Cardinality(S(k)) \in Nat
             /\ Cardinality(S(k)) <= n /\ k \in S(k)
  <2>1. IsFiniteSet(S(k)) /\ Cardinality(S(k)) <= n
    BY <1>2, FS_Subset
  <2>2. k \in S(k)
    BY <1>1
  <2> QED
    BY <2>1, <2>2, FS_CardinalityType
<1>5. i \in 1..n
  BY DEF n
<1>6. Cardinality(S(i)) # 0
  <2>1. S(i) # {}
    BY <1>4, <1>5
  <2> QED
    BY <1>4, <1>5, <2>1, FS_EmptySet
<1>7. ASSUME NEW j \in 1..n, h[i].bound < h[j].bound
      PROVE  Cardinality(S(i)) < Cardinality(S(j))
  <2>1. S(i) \in SUBSET S(j)
    BY <1>1, <1>5, <1>7
  <2>2. j \notin S(i) /\ j \in S(j)
    BY <1>1, <1>5, <1>7
  <2>3. Cardinality(S(i)) <= Cardinality(S(j)) /\ Cardinality(S(i)) # Cardinality(S(j))
    BY <1>4, <2>1, <2>2, FS_Subset
  <2>4. Cardinality(S(i)) \in Nat /\ Cardinality(S(j)) \in Nat
    BY <1>4, <1>5
  <2> HIDE DEF S
  <2> QED
    BY <2>3, <2>4
<1> QED
  <2> HIDE DEF S
  <2> QED
    BY <1>1, <1>3, <1>4, <1>5, <1>6, <1>7 DEF n

\* p sorts the buckets of h.
SortedBy(p, h, s) ==
    /\ p \in [1..Len(h) -> 1..Len(h)] /\ s \in Seq(Buckets) /\ Len(s) = Len(h)
    /\ \A k \in 1..Len(h) : s[k] = h[p[k]]
    /\ \A i \in 1..Len(h) : \E k \in 1..Len(h) : p[k] = i
    /\ \A k, l \in 1..Len(h) : k < l => s[k].bound < s[l].bound

\* Each position is the place of one bucket, which Sorted puts there.
LEMMA SortedIs ==
    ASSUME NEW h, IsHistogram(h)
    PROVE  \E p : SortedBy(p, h, Sorted(h))
<1> DEFINE n == Len(h)
           place == [i \in 1..n |-> Place(h, i)]
           p == [k \in 1..n |-> CHOOSE i \in 1..n : k = Place(h, i)]
           s == Sorted(h)
<1>1. /\ n \in Nat /\ DOMAIN h = 1..n
      /\ \A i \in 1..n : h[i] \in Buckets /\ h[i].bound \in Int
  BY BucketTypes
<1>2. \A i, j \in 1..n : h[i].bound = h[j].bound => i = j
  BY DEF IsHistogram
<1>3. /\ \A i \in 1..n : Place(h, i) \in 1..n
      /\ \A i, j \in 1..n : h[i].bound < h[j].bound => Place(h, i) < Place(h, j)
  BY PlaceGrows
<1>a. s = [k \in 1..n |-> h[CHOOSE i \in 1..n : k = Place(h, i)]]
  BY <1>1 DEF Sorted, Place
<1> HIDE DEF n, s
<1>4. ASSUME NEW i \in 1..n, NEW j \in 1..n, Place(h, i) = Place(h, j) PROVE i = j
  <2>1. h[i].bound \in Int /\ h[j].bound \in Int
    BY <1>1
  <2>2. Place(h, i) \in Int /\ Place(h, j) \in Int
    BY <1>1, <1>3
  <2>3. ~(h[i].bound < h[j].bound) /\ ~(h[j].bound < h[i].bound)
    BY <1>3, <1>4, <2>2
  <2>4. h[i].bound = h[j].bound
    BY <2>1, <2>3
  <2> QED
    BY <1>2, <2>4
<1>5. \A k \in 1..n : \E i \in 1..n : k = Place(h, i)
  <2>1. place \in [1..n -> 1..n] /\ \A i \in 1..n : place[i] = Place(h, i)
    BY <1>3
  <2> HIDE DEF place
  <2>2. place \in Injection(1..n, 1..n)
    BY <1>4, <2>1 DEF Injection, IsInjective
  <2>3. place \in Surjection(1..n, 1..n)
    <3>1. IsFiniteSet(1..n)
      BY <1>1, FS_Interval
    <3> QED
      BY <2>2, <3>1, FS_Injection
  <2> QED
    BY <2>1, <2>3 DEF Surjection
<1>6. \A k \in 1..n : p[k] \in 1..n /\ Place(h, p[k]) = k
  BY <1>5
<1>7. p \in [1..n -> 1..n]
  BY <1>6
<1>8. \A k \in 1..n : s[k] = h[p[k]]
  BY <1>a
<1> HIDE DEF p, place
<1>9. s \in Seq(Buckets) /\ Len(s) = n
  <2>1. s \in [1..n -> Buckets]
    <3>1. s = [k \in 1..n |-> s[k]]
      BY <1>a
    <3>2. \A k \in 1..n : s[k] \in Buckets
      BY <1>1, <1>6, <1>8
    <3> QED
      BY <3>1, <3>2
  <2> QED
    BY <1>1, <2>1, AsSeq
<1>10. ASSUME NEW k \in 1..n, NEW l \in 1..n, k < l PROVE s[k].bound < s[l].bound
  <2>1. s[k] = h[p[k]] /\ s[l] = h[p[l]] /\ p[k] \in 1..n /\ p[l] \in 1..n
    BY <1>6, <1>8
  <2>2. h[p[k]].bound \in Int /\ h[p[l]].bound \in Int
    BY <1>1, <2>1
  <2>3. CASE h[p[k]].bound = h[p[l]].bound
    BY <1>2, <1>6, <1>10, <2>1, <2>3
  <2>4. CASE h[p[l]].bound < h[p[k]].bound
    <3>1. Place(h, p[l]) < Place(h, p[k])
      BY <1>3, <2>1, <2>4
    <3> QED
      BY <1>1, <1>6, <1>10, <3>1
  <2> QED
    BY <2>1, <2>2, <2>3, <2>4
<1>11. \A i \in 1..n : \E k \in 1..n : p[k] = i
  BY <1>3, <1>4, <1>6
<1>12. SortedBy(p, h, s)
  BY <1>7, <1>8, <1>9, <1>10, <1>11 DEF SortedBy, n
<1> QED
  BY <1>12 DEF s

\* What one more index adds to what is observed at some.
LEMMA ObservedAdd ==
    ASSUME NEW h, NEW I, IsFiniteSet(I), NEW i, i \notin I,
           \A j \in I \cup {i} : h[j].count \in Nat
    PROVE  /\ Observed(h, I) \in Nat
           /\ Observed(h, I \cup {i}) = Observed(h, I) + h[i].count
<1> DEFINE U == I \cup {i}
           before == [j \in I |-> h[j].count]
           after == [j \in U |-> h[j].count]
<1>1. Observed(h, I) = SumFunctionOnSet(before, I) /\ Observed(h, U) = SumFunctionOnSet(after, U)
  BY DEF Observed, SumFunction
<1>2. before \in [I -> Nat]
  OBVIOUS
<1>3. IsFiniteSet(U)
  BY FS_AddElement
<1>4. before \in [I -> Int] /\ after \in [U -> Int]
  OBVIOUS
<1>5. after[i] = h[i].count /\ \A j \in I : after[j] = before[j]
  OBVIOUS
<1>6. i \in U /\ I \in SUBSET U /\ U \ {i} \subseteq I
  OBVIOUS
<1> HIDE DEF U, before, after
<1>7. /\ SumFunctionOnSet(before, I) \in Int
      /\ SumFunctionOnSet(after, U) = SumFunctionOnSet(before, I) + after[i]
  BY <1>3, <1>4, <1>5, <1>6, SumExtend
<1>8. SumFunctionOnSet(before, I) \in Nat
  BY <1>2, SumType
<1> QED
  BY <1>1, <1>5, <1>7, <1>8 DEF U

\* The observations in no bucket, and in one bucket more.
LEMMA ObservedMore ==
    ASSUME NEW h \in Seq(Buckets), NEW I \in SUBSET (1..Len(h))
    PROVE  /\ Observed(h, {}) = 0 /\ Observed(h, I) \in Nat
           /\ \A i \in (1..Len(h)) \ I : Observed(h, I \cup {i}) = Observed(h, I) + h[i].count
<1> DEFINE n == Len(h)
           values(J) == [j \in J |-> h[j].count]
<1>1. n \in Nat /\ \A i \in 1..n : h[i].count \in Nat
  <2>1. n \in Nat /\ \A i \in 1..n : h[i] \in Buckets
    OBVIOUS
  <2>2. \A b \in Buckets : b.count \in Nat
    BY QuantileAssumption DEF Buckets
  <2> QED
    BY <2>1, <2>2
<1>2. ASSUME NEW J PROVE Observed(h, J) = SumFunctionOnSet(values(J), J)
  BY DEF Observed, SumFunction
<1>3. I \in SUBSET (1..n)
  OBVIOUS
<1> HIDE DEF n
<1>4. IsFiniteSet(I)
  <2>1. IsFiniteSet(1..n)
    BY <1>1, FS_Interval
  <2> QED
    BY <1>3, <2>1, FS_Subset
<1>5. Observed(h, {}) = 0
  <2> HIDE DEF values
  <2> QED
    BY <1>2, SumEmpty
<1>6. ASSUME NEW i, i \in (1..n) \ I
      PROVE  Observed(h, I \cup {i}) = Observed(h, I) + h[i].count
  <2>1. \A j \in I \cup {i} : h[j].count \in Nat
    BY <1>1, <1>3, <1>6
  <2> QED
    BY <1>4, <1>6, <2>1, ObservedAdd
<1>7. Observed(h, I) \in Nat
  <2> DEFINE f == [j \in I |-> h[j].count]
  <2>1. f \in [I -> Nat]
    BY <1>1, <1>3
  <2>2. Observed(h, I) = SumFunctionOnSet(f, I)
    BY DEF Observed, SumFunction
  <2> HIDE DEF f
  <2> QED
    BY <1>4, <2>1, <2>2, SumType
<1> QED
  BY <1>5, <1>6, <1>7 DEF n

\* c has the observations up to each bucket of s, which has the buckets of h in
\* the order of their bounds.
Cumulates(c, s, h) ==
    LET n == Len(h) IN
    /\ n \in Nat /\ Len(s) = n /\ DOMAIN s = 1..n /\ c \in [0..n -> Nat] /\ c[0] = 0
    /\ \A k \in 1..n : /\ s[k].bound \in Int /\ s[k].count \in Nat
                       /\ s[k].bound <= Infinity
                       /\ c[k] = c[k - 1] + s[k].count
                       /\ CountUpTo(s, k) = c[k] /\ UpTo(h, s[k].bound) = c[k]
    /\ \A k, l \in 1..n : k < l => s[k].bound < s[l].bound
    /\ CountOf(s) = c[n] /\ CountOf(h) = c[n]
    /\ {s[k].bound : k \in 1..n} = {h[i].bound : i \in DOMAIN h}
    /\ \A k, l \in 0..n : k <= l => c[k] <= c[l]

\* The sum over the first buckets of Sorted(h) is the sum over those of h with
\* bounds that are not above, by induction on how many they are.
LEMMA SortedCumulates ==
    ASSUME NEW h, IsHistogram(h)
    PROVE  \E c : Cumulates(c, Sorted(h), h)
<1> DEFINE n == Len(h)
           s == Sorted(h)
           c == [k \in 0..n |-> Observed(s, 1..k)]
<1>1. /\ n \in Nat /\ DOMAIN h = 1..n
      /\ \A i \in 1..n : h[i].bound \in Int /\ h[i].count \in Nat /\ h[i].bound \in Bounds
  BY BucketTypes
<1>2. PICK p : SortedBy(p, h, s)
  BY SortedIs
<1>3. p \in [1..n -> 1..n] /\ s \in Seq(Buckets) /\ Len(s) = n
  BY <1>2 DEF SortedBy
<1>a. \A k \in 1..n : p[k] \in 1..n /\ s[k] = h[p[k]]
  BY <1>2 DEF SortedBy
<1>b. \A i \in 1..n : \E k \in 1..n : p[k] = i
  BY <1>2 DEF SortedBy
<1>c. \A k, l \in 1..n : k < l => s[k].bound < s[l].bound
  BY <1>2 DEF SortedBy
<1> HIDE DEF s
<1>4. \A I \in SUBSET (1..n) :
         /\ Observed(h, {}) = 0 /\ Observed(h, I) \in Nat
         /\ \A i \in (1..n) \ I : Observed(h, I \cup {i}) = Observed(h, I) + h[i].count
  BY ObservedMore DEF IsHistogram
<1>5. \A I \in SUBSET (1..n) :
         /\ Observed(s, {}) = 0 /\ Observed(s, I) \in Nat
         /\ \A i \in (1..n) \ I : Observed(s, I \cup {i}) = Observed(s, I) + s[i].count
  BY <1>3, ObservedMore
<1> HIDE DEF n
<1>6. DOMAIN s = 1..n
  BY <1>3
<1>7. \A k \in 1..n : s[k].bound \in Int /\ s[k].count \in Nat /\ s[k].bound <= Infinity
  BY <1>1, <1>a, QuantileAssumption
<1>8. c \in [0..n -> Nat] /\ c[0] = 0
  <2>1. \A k \in 0..n : 1..k \in SUBSET (1..n)
    BY <1>1
  <2>2. \A k \in 0..n : Observed(s, 1..k) \in Nat
    BY <1>5, <2>1
  <2>3. Observed(s, 1..0) = 0
    <3>1. 1..0 = {}
      OBVIOUS
    <3> QED
      BY <1>5, <3>1
  <2> QED
    BY <1>1, <2>2, <2>3
<1>9. ASSUME NEW k \in 1..n PROVE c[k] = c[k - 1] + s[k].count
  <2>1. 1..(k - 1) \in SUBSET (1..n) /\ k \in (1..n) \ (1..(k - 1))
    BY <1>1
  <2>2. (1..(k - 1)) \cup {k} = 1..k
    BY <1>1
  <2>3. Observed(s, 1..k) = Observed(s, 1..(k - 1)) + s[k].count
    BY <1>5, <2>1, <2>2
  <2>4. k \in 0..n /\ k - 1 \in 0..n
    BY <1>1
  <2> QED
    BY <2>3, <2>4
<1>10. \A k \in 0..n : Observed(s, 1..k) = c[k]
  OBVIOUS
<1> HIDE DEF c
<1> DEFINE Up(k) == {p[j] : j \in 1..k}
<1>11. ASSUME NEW k \in 0..n PROVE Up(k) \in SUBSET (1..n) /\ Observed(h, Up(k)) = c[k]
  <2> DEFINE K == {m \in Nat : m <= n => Observed(h, Up(m)) = c[m]}
  <2>0. ASSUME NEW m \in 0..n PROVE Up(m) \in SUBSET (1..n)
    <3>1. 1..m \subseteq 1..n
      BY <1>1
    <3> QED
      BY <1>a, <3>1
  <2>1. 0 \in K
    <3>1. Up(0) = {}
      OBVIOUS
    <3> HIDE DEF Up
    <3> QED
      BY <1>4, <1>8, <3>1
  <2>2. ASSUME NEW m \in Nat, m \in K PROVE m + 1 \in K
    <3> SUFFICES ASSUME m + 1 <= n PROVE Observed(h, Up(m + 1)) = c[m + 1]
      BY <2>2
    <3>1. m \in 0..n /\ m + 1 \in 1..n /\ Observed(h, Up(m)) = c[m]
      BY <1>1, <2>2
    <3>2. Up(m + 1) = Up(m) \cup {p[m + 1]}
      <4>1. 1..(m + 1) = (1..m) \cup {m + 1}
        BY <3>1
      <4> QED
        BY <4>1
    <3>3. p[m + 1] \in (1..n) \ Up(m)
      <4>1. ASSUME NEW j \in 1..m PROVE p[j] # p[m + 1]
        <5>1. j \in 1..n /\ j < m + 1
          BY <1>1, <3>1
        <5>2. s[j].bound < s[m + 1].bound
          BY <1>c, <3>1, <5>1
        <5>3. s[j] = h[p[j]] /\ s[m + 1] = h[p[m + 1]]
          BY <1>a, <3>1, <5>1
        <5> QED
          BY <1>7, <3>1, <5>1, <5>2, <5>3
      <4> QED
        BY <1>a, <3>1, <4>1
    <3>4. Up(m) \in SUBSET (1..n)
      BY <2>0, <3>1
    <3>5. s[m + 1].count = h[p[m + 1]].count /\ c[m + 1] = c[m] + s[m + 1].count
      <4>1. (m + 1) - 1 = m
        OBVIOUS
      <4> QED
        BY <1>a, <1>9, <3>1, <4>1
    <3> HIDE DEF Up
    <3> QED
      BY <1>4, <3>1, <3>2, <3>3, <3>4, <3>5
  <2>3. Nat \subseteq K
    <3> HIDE DEF K
    <3> QED
      BY <2>1, <2>2, Induction
  <2> HIDE DEF Up
  <2> QED
    BY <1>1, <2>0, <2>3
<1>12. ASSUME NEW k \in 1..n PROVE UpTo(h, s[k].bound) = c[k]
  <2> DEFINE B == {i \in 1..n : h[i].bound <= s[k].bound}
  <2>1. B \subseteq Up(k)
    <3> SUFFICES ASSUME NEW i \in B PROVE i \in Up(k)
      OBVIOUS
    <3>1. PICK j \in 1..n : p[j] = i
      BY <1>b
    <3>2. s[j] = h[i] /\ h[i].bound <= s[k].bound
      BY <1>a, <3>1
    <3>3. ~(k < j)
      <4>1. s[j].bound \in Int /\ s[k].bound \in Int /\ s[j].bound <= s[k].bound
        BY <1>7, <3>2
      <4> SUFFICES ASSUME k < j PROVE FALSE
        OBVIOUS
      <4>2. s[k].bound < s[j].bound
        BY <1>c
      <4> QED
        BY <4>1, <4>2
    <3>4. j \in 1..k
      BY <1>1, <3>3
    <3> QED
      BY <3>1, <3>4
  <2>2. Up(k) \subseteq B
    <3> SUFFICES ASSUME NEW j \in 1..k PROVE p[j] \in B
      OBVIOUS
    <3>0. j \in 1..n
      BY <1>1
    <3>1. j \in 1..n /\ p[j] \in 1..n /\ s[j] = h[p[j]]
      BY <1>a, <3>0
    <3>2. s[j].bound \in Int /\ s[k].bound \in Int
      BY <1>7, <3>1
    <3>3. j = k \/ j < k
      BY <1>1
    <3>4. s[j].bound <= s[k].bound
      <4>1. CASE j = k
        BY <3>2, <4>1
      <4>2. CASE j < k
        <5>1. s[j].bound < s[k].bound
          BY <1>c, <3>1, <4>2
        <5> QED
          BY <3>2, <5>1
      <4> QED
        BY <3>3, <4>1, <4>2
    <3> QED
      BY <3>1, <3>4
  <2>3. UpTo(h, s[k].bound) = Observed(h, B)
    BY <1>1 DEF UpTo
  <2>4. k \in 0..n
    BY <1>1
  <2>5. B = Up(k)
    BY <2>1, <2>2
  <2> HIDE DEF B, Up
  <2> QED
    BY <1>11, <2>3, <2>4, <2>5
<1>13. ASSUME NEW k \in 1..n PROVE CountUpTo(s, k) = c[k]
  <2>1. k \in 0..n
    BY <1>1
  <2> QED
    BY <1>10, <2>1 DEF CountUpTo
<1>14. CountOf(s) = c[n] /\ CountOf(h) = c[n]
  <2>1. n \in 0..n
    BY <1>1
  <2>2. Up(n) = 1..n
    BY <1>a, <1>b
  <2> HIDE DEF Up
  <2> QED
    BY <1>1, <1>6, <1>10, <1>11, <2>1, <2>2 DEF CountOf
<1>15. {s[k].bound : k \in 1..n} = {h[i].bound : i \in DOMAIN h}
  <2>1. DOMAIN h = 1..n
    BY <1>1
  <2>2. ASSUME NEW i \in 1..n PROVE \E k \in 1..n : s[k].bound = h[i].bound
    BY <1>a, <1>b
  <2>3. ASSUME NEW k \in 1..n PROVE \E i \in 1..n : s[k].bound = h[i].bound
    BY <1>a
  <2> HIDE DEF Up
  <2>4. {s[k].bound : k \in 1..n} \subseteq {h[i].bound : i \in 1..n}
    BY <2>3
  <2>5. {h[i].bound : i \in 1..n} \subseteq {s[k].bound : k \in 1..n}
    BY <2>2
  <2> QED
    BY <2>1, <2>4, <2>5
<1>16. ASSUME NEW k \in 0..n, NEW l \in 0..n, k <= l PROVE c[k] <= c[l]
  <2> DEFINE K == {m \in Nat : k + m <= n => c[k] <= c[k + m]}
  <2>1. 0 \in K
    BY <1>8
  <2>2. ASSUME NEW m \in Nat, m \in K PROVE m + 1 \in K
    <3> SUFFICES ASSUME k + (m + 1) <= n PROVE c[k] <= c[k + (m + 1)]
      BY <2>2
    <3>1. k + (m + 1) \in 1..n /\ k + m \in 0..n /\ (k + (m + 1)) - 1 = k + m
      BY <1>1
    <3>2. c[k + (m + 1)] = c[k + m] + s[k + (m + 1)].count
      BY <1>9, <3>1
    <3>3. c[k] \in Nat /\ c[k + m] \in Nat /\ s[k + (m + 1)].count \in Nat
      BY <1>7, <1>8, <3>1
    <3>4. c[k] <= c[k + m]
      BY <2>2, <3>1
    <3> QED
      BY <3>2, <3>3, <3>4
  <2>3. Nat \subseteq K
    <3> HIDE DEF K
    <3> QED
      BY <2>1, <2>2, Induction
  <2>4. l - k \in Nat /\ k + (l - k) = l /\ l <= n
    BY <1>1, <1>16
  <2>5. l - k \in K
    BY <2>3, <2>4
  <2> QED
    BY <2>4, <2>5
<1>17. Cumulates(c, s, h)
  BY <1>1, <1>3, <1>c, <1>6, <1>7, <1>8, <1>9, <1>12, <1>13, <1>14, <1>15, <1>16 DEF Cumulates, n
<1> QED
  BY <1>17 DEF s

\* Arithmetic: products with numbers that are not negative keep the order.
LEMMA ProductOrder ==
    ASSUME NEW a \in Int, NEW b \in Int, a <= b, NEW m \in Nat
    PROVE  a * m <= b * m /\ m * a <= m * b
<1>1. (b - a) * m >= 0
  OBVIOUS
<1>2. (b - a) * m = b * m - a * m /\ a * m = m * a /\ b * m = m * b
  OBVIOUS
<1>3. a * m \in Int /\ b * m \in Int
  OBVIOUS
<1> QED
  BY <1>1, <1>2, <1>3

LEMMA ProductStrict ==
    ASSUME NEW a \in Int, NEW b \in Int, a < b, NEW m \in Nat \ {0}
    PROVE  a * m < b * m
<1>1. (b - a) * m > 0
  OBVIOUS
<1>2. (b - a) * m = b * m - a * m
  OBVIOUS
<1>3. a * m \in Int /\ b * m \in Int
  OBVIOUS
<1> QED
  BY <1>1, <1>2, <1>3

\* A count that the rank of the higher of two quantiles does not exceed is not
\* exceeded by that of the lower.
LEMMA LowerRank ==
    ASSUME NEW k \in Nat, NEW all \in Nat, NEW p1 \in Int, NEW q1 \in Int,
           NEW p2 \in Nat \ {0}, NEW q2 \in Nat \ {0},
           q1 * all <= k * q2, p1 * q2 <= q1 * p2
    PROVE  p1 * all <= k * p2
<1>1. (p1 * q2) * all <= (q1 * p2) * all
  <2>1. p1 * q2 \in Int /\ q1 * p2 \in Int
    OBVIOUS
  <2> QED
    BY <2>1, ProductOrder
<1>2. (q1 * all) * p2 <= (k * q2) * p2
  <2>1. q1 * all \in Int /\ k * q2 \in Int
    OBVIOUS
  <2> QED
    BY <2>1, ProductOrder
<1> SUFFICES ASSUME k * p2 < p1 * all PROVE FALSE
  <2>1. k * p2 \in Int /\ p1 * all \in Int
    OBVIOUS
  <2> QED
    BY <2>1
<1>3. (k * p2) * q2 < (p1 * all) * q2
  <2>1. k * p2 \in Int /\ p1 * all \in Int
    OBVIOUS
  <2> QED
    BY <2>1, ProductStrict
<1>4. (p1 * all) * q2 = (p1 * q2) * all
  OBVIOUS
<1>5. (q1 * p2) * all = (q1 * all) * p2
  OBVIOUS
<1>6. (k * q2) * p2 = (k * p2) * q2
  OBVIOUS
<1>7. (k * p2) * q2 \in Int /\ (p1 * q2) * all \in Int /\ (q1 * all) * p2 \in Int
  OBVIOUS
<1> QED
  BY <1>1, <1>2, <1>3, <1>4, <1>5, <1>6, <1>7

\* An interpolated value is between the bounds.
LEMMA BetweenBounds ==
    ASSUME NEW a \in Int, NEW b \in Int, a <= b, NEW r \in Nat, NEW m \in Nat, r <= m
    PROVE  /\ a * m <= a * m + (b - a) * r
           /\ a * m + (b - a) * r <= b * m
<1>1. (b - a) * r >= 0 /\ (b - a) * (m - r) >= 0
  OBVIOUS
<1>2. b * m - (a * m + (b - a) * r) = (b - a) * (m - r)
  OBVIOUS
<1>3. a * m \in Int /\ b * m \in Int /\ (b - a) * r \in Int
  OBVIOUS
<1> QED
  BY <1>1, <1>2, <1>3

\* In one bucket from a to a + d, with w observations after those before, the
\* value grows with the rank.
LEMMA SameBucket ==
    ASSUME NEW a \in Int, NEW d \in Nat, NEW w \in Nat, NEW before \in Nat, NEW all \in Nat,
           NEW p1 \in Int, NEW q1 \in Int, NEW p2 \in Nat, NEW q2 \in Nat,
           p1 * q2 <= q1 * p2
    PROVE  (a * (w * p2) + d * (p1 * all - before * p2)) * (w * q2)
             <= (a * (w * q2) + d * (q1 * all - before * q2)) * (w * p2)
<1> DEFINE k == (d * all) * w
           u == p1 * q2
           v == q1 * p2
           x == (a * (w * p2) + d * (p1 * all - before * p2)) * (w * q2)
           y == (a * (w * q2) + d * (q1 * all - before * q2)) * (w * p2)
<1>1. k \in Nat /\ u \in Int /\ v \in Int /\ u <= v
  OBVIOUS
<1>2. y - x = v * k - u * k
  OBVIOUS
<1>3. x \in Int /\ y \in Int
  OBVIOUS
<1> HIDE DEF k, u, v, x, y
<1>4. u * k <= v * k /\ u * k \in Int /\ v * k \in Int
  BY <1>1, ProductOrder
<1>5. x <= y
  BY <1>2, <1>3, <1>4
<1> QED
  BY <1>5 DEF x, y

\* Values in buckets with a bound between them.
LEMMA OtherBucket ==
    ASSUME NEW x1 \in Int, NEW y1 \in Int, NEW x2 \in Nat, NEW y2 \in Nat,
           NEW u \in Int, NEW l \in Int, u <= l, y1 <= u * y2, l * x2 <= x1
    PROVE  y1 * x2 <= x1 * y2
<1>1. y1 * x2 <= (u * y2) * x2
  BY ProductOrder
<1>2. u * (x2 * y2) <= l * (x2 * y2)
  <2>1. x2 * y2 \in Nat
    OBVIOUS
  <2> QED
    BY <2>1, ProductOrder
<1>3. (l * x2) * y2 <= x1 * y2
  BY ProductOrder
<1>4. (u * y2) * x2 = u * (x2 * y2) /\ (l * x2) * y2 = l * (x2 * y2)
  OBVIOUS
<1>5. /\ y1 * x2 \in Int /\ x1 * y2 \in Int
      /\ u * (x2 * y2) \in Int /\ l * (x2 * y2) \in Int
  OBVIOUS
<1> QED
  BY <1>1, <1>2, <1>3, <1>4, <1>5

\* The interpolated value is as far into its bucket as the rank is.
LEMMA InBucket ==
    ASSUME NEW a \in Int, NEW b \in Int, NEW r \in Int, NEW m \in Int
    PROVE  ((a * m + (b - a) * r) - a * m) * m = (r * (b - a)) * m
  OBVIOUS

\* How far a rank is into a bucket of w observations.
LEMMA IntoBucket ==
    ASSUME NEW before \in Nat, NEW w \in Nat, NEW q2 \in Nat, NEW rank \in Int,
           before * q2 < rank, rank <= (before + w) * q2
    PROVE  /\ rank - before * q2 \in Nat /\ rank - before * q2 > 0
           /\ w * q2 \in Nat /\ rank - before * q2 <= w * q2
           /\ w * q2 = (before + w) * q2 - before * q2
<1>1. before * q2 \in Int /\ w * q2 \in Nat
  OBVIOUS
<1>2. (before + w) * q2 = before * q2 + w * q2
  OBVIOUS
<1> QED
  BY <1>1, <1>2

IsLevel(q) == q[1] \in Int /\ q[2] \in Nat \ {0}
Asked(q) == q[1] >= 0 /\ q[1] <= q[2]

\* The cases of NaN.
Undefined(h) ==
    \/ Len(h) < 2 \/ CountOf(h) = 0
    \/ \A i \in DOMAIN h : h[i].bound # Infinity

\* i is the first of n buckets that has c[i] observations up to it, and with them
\* the rank of q.
Reaches(i, c, n, q) ==
    /\ i \in 1..n /\ q[1] * c[n] <= c[i] * q[2]
    /\ \A j \in 1..n : j < i => c[j] * q[2] < q[1] * c[n]

\* x is the quantile that the i-th of n buckets gives.
ValueAt(x, i, c, s, n, q) ==
    /\ i = n => x = <<s[n - 1].bound, 1>>
    /\ i = 1 /\ i # n => x = <<s[1].bound, 1>>
    /\ 1 < i /\ i < n =>
         x = <<s[i - 1].bound * (s[i].count * q[2])
                 + (s[i].bound - s[i - 1].bound) * (q[1] * c[n] - c[i - 1] * q[2]),
               s[i].count * q[2]>>

\* There is such a bucket: the last has all observations.
LEMMA FallsIs ==
    ASSUME NEW c, NEW s, NEW h, Cumulates(c, s, h), Len(h) >= 1,
           NEW q, IsLevel(q), Asked(q)
    PROVE  Reaches(Falls(s, q), c, Len(h), q)
<1> DEFINE n == Len(h)
           S == {i \in 1..n : c[i] * q[2] >= q[1] * c[n]}
<1>1. /\ n \in Nat /\ n >= 1 /\ DOMAIN s = 1..n /\ c \in [0..n -> Nat]
      /\ CountOf(s) = c[n] /\ \A k \in 1..n : CountUpTo(s, k) = c[k]
  BY DEF Cumulates
<1> HIDE DEF n
<1>2. q[1] \in Int /\ q[2] \in Nat /\ q[1] <= q[2] /\ \A i \in 0..n : c[i] \in Nat
  BY <1>1 DEF IsLevel, Asked
<1>3. n \in S
  <2>1. c[n] \in Nat /\ n \in 1..n
    BY <1>1, <1>2
  <2>2. q[1] * c[n] <= q[2] * c[n]
    <3>1. q[1] \in Int /\ q[2] \in Int /\ q[1] <= q[2] /\ c[n] \in Nat
      BY <1>2, <2>1
    <3> QED
      BY <3>1, ProductOrder
  <2>3. q[2] * c[n] = c[n] * q[2] /\ c[n] * q[2] \in Int /\ q[1] * c[n] \in Int
    BY <1>2, <2>1
  <2> QED
    BY <2>1, <2>2, <2>3
<1>4. PICK m \in S : \A k \in S : m <= k
  <2>1. S \in SUBSET Nat /\ S # {}
    BY <1>3
  <2> HIDE DEF S
  <2> QED
    BY <2>1, LeastElement
<1>5. Falls(s, q) = Min(S)
  BY <1>1 DEF Falls
<1>6. Min(S) = m
  <2>1. S \in SUBSET Int
    OBVIOUS
  <2> HIDE DEF S
  <2> QED
    BY <1>4, <2>1, MinIs
<1>7. m \in 1..n /\ c[m] * q[2] \in Int /\ q[1] * c[n] \in Int
  <2>1. m \in 1..n /\ m \in 0..n /\ n \in 0..n
    BY <1>1
  <2>2. c[m] \in Nat /\ c[n] \in Nat
    BY <1>2, <2>1
  <2> QED
    BY <1>2, <2>1, <2>2
<1>8. ASSUME NEW j \in 1..n, j < m PROVE c[j] * q[2] < q[1] * c[n]
  <2>1. j \notin S
    BY <1>4, <1>7, <1>8
  <2>2. c[j] * q[2] \in Int
    <3>1. c[j] \in Nat
      BY <1>1, <1>2
    <3> QED
      BY <1>2, <3>1
  <2> QED
    BY <1>7, <2>1, <2>2
<1>9. q[1] * c[n] <= c[m] * q[2]
  BY <1>7
<1> HIDE DEF S
<1> QED
  BY <1>5, <1>6, <1>7, <1>8, <1>9 DEF Reaches, n

\* The highest bucket is the one up to Infinity, if there is one.
LEMMA HighestBound ==
    ASSUME NEW c, NEW s, NEW h, Cumulates(c, s, h), Len(h) >= 1
    PROVE  s[Len(h)].bound = Infinity <=> \E i \in DOMAIN h : h[i].bound = Infinity
<1> DEFINE n == Len(h)
<1>1. n \in 1..n
  BY DEF Cumulates
<1>2. {s[k].bound : k \in 1..n} = {h[i].bound : i \in DOMAIN h}
  BY DEF Cumulates
<1>3. ASSUME NEW k \in 1..n, s[k].bound = Infinity PROVE s[n].bound = Infinity
  <2>1. k = n \/ k < n
    BY <1>1
  <2>2. CASE k < n
    <3>1. s[k].bound < s[n].bound /\ s[n].bound <= Infinity /\ s[n].bound \in Int
      BY <1>1, <2>2 DEF Cumulates
    <3> QED
      BY <1>3, <3>1, QuantileAssumption
  <2> QED
    BY <1>3, <2>1, <2>2
<1>4. s[n].bound = Infinity => \E i \in DOMAIN h : h[i].bound = Infinity
  <2>1. s[n].bound \in {s[k].bound : k \in 1..n}
    BY <1>1
  <2> QED
    BY <1>2, <2>1
<1>5. (\E i \in DOMAIN h : h[i].bound = Infinity) => s[n].bound = Infinity
  <2> SUFFICES ASSUME NEW i \in DOMAIN h, h[i].bound = Infinity PROVE s[n].bound = Infinity
    OBVIOUS
  <2>1. Infinity \in {s[k].bound : k \in 1..n}
    BY <1>2
  <2> QED
    BY <1>3, <2>1
<1> QED
  BY <1>4, <1>5

\* What Quantile gives in each of its cases.
LEMMA QuantileIs ==
    ASSUME NEW c, NEW h, Cumulates(c, Sorted(h), h), NEW q, IsLevel(q)
    PROVE  /\ ~Asked(q) => Quantile(q, h) \in {<<-1, 0>>, <<1, 0>>}
           /\ Asked(q) /\ Undefined(h) => Quantile(q, h) = NaN
           /\ Asked(q) /\ ~Undefined(h) => \E i :
                /\ Reaches(i, c, Len(h), q)
                /\ ValueAt(Quantile(q, h), i, c, Sorted(h), Len(h), q)
<1> DEFINE n == Len(h)
           s == Sorted(h)
           i == Falls(s, q)
           x == Quantile(q, h)
           last == IF n < 2 \/ s[n].bound # Infinity \/ c[n] = 0
                   THEN NaN
                   ELSE CASE i = n -> <<s[n - 1].bound, 1>>
                          [] i = 1 -> <<s[1].bound, 1>>
                          [] OTHER -> Interpolate(s, i, q)
<1>1. /\ n \in Nat /\ Len(s) = n /\ CountOf(s) = c[n] /\ CountOf(h) = c[n]
      /\ \A k \in 1..n : CountUpTo(s, k) = c[k]
  BY DEF Cumulates
<1>2. q[1] \in Int /\ q[2] \in Nat \ {0}
  BY DEF IsLevel
<1>3. x = CASE q[1] < 0 -> <<-1, 0>> [] q[1] > q[2] -> <<1, 0>> [] OTHER -> last
  BY <1>1 DEF Quantile
<1> HIDE DEF x, s, i, last
<1>4. ~Asked(q) => x \in {<<-1, 0>>, <<1, 0>>}
  BY <1>2, <1>3 DEF Asked
<1>5. Asked(q) => x = last
  BY <1>2, <1>3 DEF Asked
<1>6. Undefined(h) <=> n < 2 \/ s[n].bound # Infinity \/ c[n] = 0
  <2>1. n >= 1 => (s[n].bound = Infinity <=> \E j \in DOMAIN h : h[j].bound = Infinity)
    BY HighestBound DEF s
  <2> QED
    BY <1>1, <2>1 DEF Undefined
<1>7. Asked(q) /\ Undefined(h) => x = NaN
  BY <1>5, <1>6 DEF last
<1>8. ASSUME Asked(q), ~Undefined(h)
      PROVE  Reaches(i, c, n, q) /\ ValueAt(x, i, c, s, n, q)
  <2>1. n >= 2 /\ n \in Nat
    BY <1>1, <1>6, <1>8
  <2>2. Reaches(i, c, n, q)
    BY <1>2, <1>8, <2>1, FallsIs DEF i, s
  <2>3. i \in 1..n
    BY <2>2 DEF Reaches
  <2>4. x = CASE i = n -> <<s[n - 1].bound, 1>>
              [] i = 1 -> <<s[1].bound, 1>>
              [] OTHER -> Interpolate(s, i, q)
    BY <1>5, <1>6, <1>8 DEF last
  <2>5. CASE i = n
    BY <2>1, <2>2, <2>4, <2>5 DEF ValueAt
  <2>6. CASE i = 1
    BY <2>1, <2>2, <2>4, <2>6 DEF ValueAt
  <2>7. CASE 1 < i /\ i < n
    <3>1. x = Interpolate(s, i, q)
      BY <2>1, <2>3, <2>4, <2>7
    <3>2. CountUpTo(s, i - 1) = c[i - 1]
      BY <1>1, <2>1, <2>3, <2>7
    <3>3. x = <<s[i - 1].bound * (s[i].count * q[2])
                  + (s[i].bound - s[i - 1].bound) * (q[1] * c[n] - c[i - 1] * q[2]),
                s[i].count * q[2]>>
      BY <1>1, <3>1, <3>2 DEF Interpolate
    <3> QED
      BY <2>1, <2>2, <2>3, <2>7, <3>3 DEF ValueAt
  <2> QED
    BY <2>1, <2>3, <2>5, <2>6, <2>7
<1> QED
  BY <1>4, <1>7, <1>8 DEF x, s

\* The bounds between which the values of the i-th of n buckets are.
Lower(i, s) == IF i = 1 THEN s[1].bound ELSE s[i - 1].bound
Upper(i, s, n) == IF i = n THEN s[n - 1].bound ELSE s[i].bound

\* What Reaches says of the bucket and the one before.
LEMMA Reached ==
    ASSUME NEW c, NEW s, NEW h, Cumulates(c, s, h), NEW q, IsLevel(q), NEW i,
           Reaches(i, c, Len(h), q), 1 < i
    PROVE  /\ i \in 1..Len(h) /\ i - 1 \in 1..Len(h) /\ Len(h) \in Nat
           /\ c[i] \in Nat /\ c[i - 1] \in Nat /\ c[Len(h)] \in Nat /\ s[i].count \in Nat
           /\ c[i] = c[i - 1] + s[i].count
           /\ s[i].bound \in Int /\ s[i - 1].bound \in Int /\ s[i - 1].bound < s[i].bound
           /\ c[i - 1] * q[2] < q[1] * c[Len(h)] /\ q[1] * c[Len(h)] <= c[i] * q[2]
<1> DEFINE n == Len(h)
<1>1. n \in Nat /\ i \in 1..n
  BY DEF Cumulates, Reaches
<1>2. i - 1 \in 1..n /\ i - 1 < i /\ i \in 0..n /\ i - 1 \in 0..n /\ n \in 0..n
  BY <1>1
<1>3. c \in [0..n -> Nat] /\ c[i] = c[i - 1] + s[i].count /\ s[i].count \in Nat
  BY <1>1 DEF Cumulates
<1>4. s[i].bound \in Int /\ s[i - 1].bound \in Int /\ s[i - 1].bound < s[i].bound
  BY <1>1, <1>2 DEF Cumulates
<1>5. c[i - 1] * q[2] < q[1] * c[n] /\ q[1] * c[n] <= c[i] * q[2]
  BY <1>2 DEF Reaches
<1> HIDE DEF n
<1>6. c[i] \in Nat /\ c[i - 1] \in Nat /\ c[n] \in Nat
  BY <1>2, <1>3
<1> QED
  BY <1>1, <1>2, <1>3, <1>4, <1>5, <1>6 DEF n

\* Where the rank is in a bucket with one before and one after.
LEMMA RankInBucket ==
    ASSUME NEW c, NEW s, NEW h, Cumulates(c, s, h), NEW q, IsLevel(q), NEW i,
           Reaches(i, c, Len(h), q), 1 < i,
           NEW r, r = q[1] * c[Len(h)] - c[i - 1] * q[2],
           NEW m, m = s[i].count * q[2]
    PROVE  r \in Nat /\ r > 0 /\ m \in Nat /\ r <= m /\ m = c[i] * q[2] - c[i - 1] * q[2]
<1> DEFINE rank == q[1] * c[Len(h)]
           before == c[i - 1]
           w == s[i].count
<1>1. /\ c[i] \in Nat /\ before \in Nat /\ c[Len(h)] \in Nat /\ w \in Nat
      /\ c[i] = before + w /\ before * q[2] < rank /\ rank <= c[i] * q[2]
  BY Reached
<1>2. q[1] \in Int /\ q[2] \in Nat
  BY DEF IsLevel
<1>3. rank \in Int
  BY <1>1, <1>2
<1>4. r = rank - before * q[2] /\ m = w * q[2]
  OBVIOUS
<1>5. (before + w) * q[2] = c[i] * q[2]
  BY <1>1
<1>6. before * q[2] = c[i - 1] * q[2]
  OBVIOUS
<1> HIDE DEF rank, before, w
<1>7. rank <= (before + w) * q[2]
  BY <1>1, <1>5
<1>8. /\ rank - before * q[2] \in Nat /\ rank - before * q[2] > 0
      /\ w * q[2] \in Nat /\ rank - before * q[2] <= w * q[2]
      /\ w * q[2] = (before + w) * q[2] - before * q[2]
  BY <1>1, <1>2, <1>3, <1>7, IntoBucket
<1> QED
  BY <1>4, <1>5, <1>6, <1>8

\* A value is a number between the bounds of its bucket.
LEMMA ValueBounds ==
    ASSUME NEW c, NEW s, NEW h, Cumulates(c, s, h), Len(h) >= 2, NEW q, IsLevel(q), NEW i,
           Reaches(i, c, Len(h), q), NEW x, ValueAt(x, i, c, s, Len(h), q)
    PROVE  /\ x[1] \in Int /\ x[2] \in Nat /\ x[2] > 0
           /\ Lower(i, s) \in Int /\ Upper(i, s, Len(h)) \in Int
           /\ Lower(i, s) * x[2] <= x[1] /\ x[1] <= Upper(i, s, Len(h)) * x[2]
<1> DEFINE n == Len(h)
<1>1. n \in Nat /\ i \in 1..n /\ n >= 2
  BY DEF Cumulates, Reaches
<1>2. \A k \in 1..n : s[k].bound \in Int
  BY DEF Cumulates
<1>3. CASE i = n
  <2>1. x = <<s[n - 1].bound, 1>> /\ n # 1
    BY <1>1, <1>3 DEF ValueAt
  <2>2. Lower(i, s) = s[n - 1].bound /\ Upper(i, s, n) = s[n - 1].bound
    BY <1>1, <1>3 DEF Lower, Upper
  <2>3. s[n - 1].bound \in Int
    BY <1>1, <1>2
  <2> QED
    BY <2>1, <2>2, <2>3
<1>4. CASE i = 1
  <2>1. x = <<s[1].bound, 1>> /\ i # n
    BY <1>1, <1>4 DEF ValueAt
  <2>2. Lower(i, s) = s[1].bound /\ Upper(i, s, n) = s[1].bound
    BY <1>4, <2>1 DEF Lower, Upper
  <2>3. s[1].bound \in Int
    BY <1>1, <1>2
  <2> QED
    BY <2>1, <2>2, <2>3
<1>5. CASE 1 < i /\ i < n
  <2> DEFINE a == s[i - 1].bound
             b == s[i].bound
             m == s[i].count * q[2]
             r == q[1] * c[n] - c[i - 1] * q[2]
  <2>1. x = <<a * m + (b - a) * r, m>>
    BY <1>5 DEF ValueAt
  <2>2. a \in Int /\ b \in Int /\ a < b
    BY <1>5, Reached
  <2>3. r \in Nat /\ r > 0 /\ m \in Nat /\ r <= m
    BY <1>5, RankInBucket
  <2>4. Lower(i, s) = a /\ Upper(i, s, n) = b
    BY <1>1, <1>5 DEF Lower, Upper
  <2> HIDE DEF a, b, m, r
  <2>5. a * m <= a * m + (b - a) * r /\ a * m + (b - a) * r <= b * m
    BY <2>2, <2>3, BetweenBounds
  <2>6. a * m + (b - a) * r \in Int /\ m > 0
    BY <2>2, <2>3
  <2> QED
    BY <2>1, <2>2, <2>3, <2>4, <2>5, <2>6
<1> QED
  BY <1>1, <1>3, <1>4, <1>5

\* The finite bounds are those of all buckets but the last; what is observed up
\* to one is what c has.
LEMMA FiniteIs ==
    ASSUME NEW c, NEW s, NEW h, Cumulates(c, s, h), Len(h) >= 2, s[Len(h)].bound = Infinity
    PROVE  /\ Finite(h) = {s[k].bound : k \in 1..(Len(h) - 1)}
           /\ Min(Finite(h)) = s[1].bound /\ Max(Finite(h)) = s[Len(h) - 1].bound
<1> DEFINE n == Len(h)
           F == {s[k].bound : k \in 1..(n - 1)}
<1>1. n \in Nat /\ n >= 2 /\ \A k \in 1..n : s[k].bound \in Int
  BY DEF Cumulates
<1>2. {s[k].bound : k \in 1..n} = {h[i].bound : i \in DOMAIN h}
  BY DEF Cumulates
<1>3. \A k, l \in 1..n : k < l => s[k].bound < s[l].bound
  BY DEF Cumulates
<1>4. s[n].bound = Infinity
  OBVIOUS
<1> HIDE DEF n
<1>5. \A k \in 1..(n - 1) : k \in 1..n /\ k < n
  BY <1>1
<1>6. \A k \in 1..(n - 1) : s[k].bound # Infinity
  <2> SUFFICES ASSUME NEW k \in 1..(n - 1), s[k].bound = Infinity PROVE FALSE
    OBVIOUS
  <2>1. k \in 1..n /\ n \in 1..n /\ k < n
    BY <1>1, <1>5
  <2>2. s[k].bound < s[n].bound /\ s[k].bound \in Int
    BY <1>1, <1>3, <2>1
  <2> QED
    BY <1>4, <2>2
<1>7. Finite(h) = {s[k].bound : k \in 1..n} \ {Infinity}
  BY <1>2 DEF Finite
<1>8. \A k \in 1..n : k = n \/ k \in 1..(n - 1)
  BY <1>1
<1>9. F \subseteq Finite(h)
  BY <1>5, <1>6, <1>7
<1>10. Finite(h) \subseteq F
  BY <1>4, <1>7, <1>8
<1>11. F \in SUBSET Int /\ s[1].bound \in F /\ s[n - 1].bound \in F
  <2>1. 1 \in 1..(n - 1) /\ n - 1 \in 1..(n - 1)
    BY <1>1
  <2> QED
    BY <1>1, <1>5, <2>1
<1>12. ASSUME NEW k \in 1..(n - 1)
       PROVE  s[1].bound <= s[k].bound /\ s[k].bound <= s[n - 1].bound
  <2>1. /\ k \in 1..n /\ 1 \in 1..n /\ n - 1 \in 1..n
        /\ k = 1 \/ 1 < k
        /\ k = n - 1 \/ k < n - 1
    BY <1>1
  <2>2. s[1].bound \in Int /\ s[k].bound \in Int /\ s[n - 1].bound \in Int
    BY <1>1, <2>1
  <2>3. s[1].bound <= s[k].bound
    BY <1>3, <2>1, <2>2
  <2>4. s[k].bound <= s[n - 1].bound
    BY <1>3, <2>1, <2>2
  <2> QED
    BY <2>3, <2>4
<1>13. \A x \in F : s[1].bound <= x /\ x <= s[n - 1].bound
  BY <1>12
<1> HIDE DEF F
<1>14. Min(F) = s[1].bound /\ Max(F) = s[n - 1].bound
  BY <1>11, <1>13, MinIs, MaxIs
<1> QED
  BY <1>9, <1>10, <1>14 DEF F, n

\* c at two positions, and the ranks there.
LEMMA RankOrder ==
    ASSUME NEW c, NEW s, NEW h, Cumulates(c, s, h), NEW q, IsLevel(q),
           NEW j \in 1..Len(h), NEW k \in 1..Len(h), j <= k
    PROVE  c[j] * q[2] <= c[k] * q[2] /\ c[j] * q[2] \in Int /\ c[k] * q[2] \in Int
<1>1. j \in 0..Len(h) /\ k \in 0..Len(h) /\ Len(h) \in Nat
  BY DEF Cumulates
<1>2. c[j] \in Nat /\ c[k] \in Nat /\ c[j] <= c[k]
  BY <1>1 DEF Cumulates
<1>3. q[2] \in Nat
  BY DEF IsLevel
<1>4. c[j] \in Int /\ c[k] \in Int
  BY <1>2
<1> QED
  BY <1>2, <1>3, <1>4, ProductOrder

\* The rank is up to the j-th bound exactly if the bucket that it falls into is not
\* a later one.
LEMMA ReachedBy ==
    ASSUME NEW c, NEW s, NEW h, Cumulates(c, s, h), NEW q, IsLevel(q), NEW i,
           Reaches(i, c, Len(h), q), NEW j \in 1..Len(h)
    PROVE  /\ q[1] * c[Len(h)] \in Int /\ c[j] * q[2] \in Int
           /\ j < i <=> c[j] * q[2] < q[1] * c[Len(h)]
<1> DEFINE rank == q[1] * c[Len(h)]
<1>1. Len(h) \in Nat /\ i \in 1..Len(h) /\ Len(h) \in 0..Len(h)
  BY DEF Cumulates, Reaches
<1>2. rank \in Int
  <2>1. c[Len(h)] \in Nat /\ q[1] \in Int
    BY <1>1 DEF Cumulates, IsLevel
  <2> QED
    BY <2>1
<1>3. c[j] * q[2] \in Int
  <2>1. j <= j
    BY <1>1
  <2> QED
    BY <2>1, RankOrder
<1>4. j < i => c[j] * q[2] < rank
  BY DEF Reaches
<1>5. ASSUME i <= j PROVE ~(c[j] * q[2] < rank)
  <2>1. rank <= c[i] * q[2]
    BY DEF Reaches
  <2>2. c[i] * q[2] <= c[j] * q[2] /\ c[i] * q[2] \in Int
    BY <1>1, <1>5, RankOrder
  <2> HIDE DEF rank
  <2> QED
    BY <1>2, <1>3, <2>1, <2>2
<1>6. j < i \/ i <= j
  BY <1>1
<1> HIDE DEF rank
<1>7. j < i <=> c[j] * q[2] < rank
  <2>1. CASE j < i
    BY <1>4, <2>1
  <2>2. CASE i <= j
    <3>1. ~(j < i)
      BY <1>1, <2>2
    <3> QED
      BY <1>5, <2>2, <3>1
  <2> QED
    BY <1>6, <2>1, <2>2
<1> QED
  BY <1>2, <1>3, <1>7 DEF rank

\* Between the bounds of the bucket, the value is as far as the rank is between
\* what is observed up to the one and up to the other.
LEMMA ValueBetween ==
    ASSUME NEW c, NEW s, NEW h, Cumulates(c, s, h), NEW q, IsLevel(q), NEW i,
           Reaches(i, c, Len(h), q), 1 < i, i < Len(h),
           NEW x, ValueAt(x, i, c, s, Len(h), q)
    PROVE  (x[1] - s[i - 1].bound * x[2]) * (c[i] * q[2] - c[i - 1] * q[2])
             = (q[1] * c[Len(h)] - c[i - 1] * q[2]) * (s[i].bound - s[i - 1].bound) * x[2]
<1> DEFINE a == s[i - 1].bound
           b == s[i].bound
           m == s[i].count * q[2]
           r == q[1] * c[Len(h)] - c[i - 1] * q[2]
<1>1. x = <<a * m + (b - a) * r, m>>
  BY DEF ValueAt
<1>2. a \in Int /\ b \in Int
  BY Reached
<1>3. r \in Nat /\ m \in Nat /\ m = c[i] * q[2] - c[i - 1] * q[2]
  BY RankInBucket
<1> HIDE DEF a, b, m, r
<1>4. r \in Int /\ m \in Int
  BY <1>3
<1>5. ((a * m + (b - a) * r) - a * m) * m = (r * (b - a)) * m
  BY <1>2, <1>4, InBucket
<1>6. (x[1] - a * x[2]) * m = r * (b - a) * x[2]
  BY <1>1, <1>5
<1> QED
  BY <1>3, <1>6 DEF a, b, r

\* The quantile inverts the distribution.
LEMMA ValueInverts ==
    ASSUME NEW c, NEW s, NEW h, Cumulates(c, s, h), Len(h) >= 2,
           s[Len(h)].bound = Infinity, NEW q, IsLevel(q), NEW i,
           Reaches(i, c, Len(h), q), NEW x, ValueAt(x, i, c, s, Len(h), q)
    PROVE  Inverts(x, h, q)
<1> DEFINE n == Len(h)
           rank == q[1] * CountOf(h)
           Below(bound) == UpTo(h, bound) * q[2]
           Adjacent(a, b) == a < b /\ ~\E e \in Finite(h) : a < e /\ e < b
<1>1. /\ n \in Nat /\ n >= 2 /\ i \in 1..n /\ CountOf(h) = c[n]
      /\ \A k \in 1..n : s[k].bound \in Int /\ UpTo(h, s[k].bound) = c[k]
  BY DEF Cumulates, Reaches
<1>2. \A k, l \in 1..n : k < l => s[k].bound < s[l].bound
  BY DEF Cumulates
<1>3. \A j \in 1..n : /\ rank \in Int /\ Below(s[j].bound) \in Int
                      /\ j < i <=> Below(s[j].bound) < rank
  BY <1>1, ReachedBy
<1>4. /\ Finite(h) = {s[k].bound : k \in 1..(n - 1)}
      /\ Min(Finite(h)) = s[1].bound /\ Max(Finite(h)) = s[n - 1].bound
  BY FiniteIs
<1>5. 1 \in 1..n /\ n - 1 \in 1..n /\ \A k \in 1..(n - 1) : k \in 1..n
  BY <1>1
<1>a. 1 # n
  <2> HIDE DEF n
  <2> QED
    BY <1>1
<1>6. rank <= Below(Min(Finite(h))) => x[1] = Min(Finite(h)) * x[2]
  <2> SUFFICES ASSUME rank <= Below(s[1].bound) PROVE x[1] = s[1].bound * x[2]
    BY <1>4
  <2>1. ~(Below(s[1].bound) < rank)
    BY <1>3, <1>5
  <2>2. i = 1
    <3>1. ~(1 < i)
      BY <1>3, <1>5, <2>1
    <3> QED
      BY <1>1, <3>1
  <2>3. x = <<s[1].bound, 1>>
    <3>1. i # n
      BY <1>a, <2>2
    <3> QED
      BY <2>2, <3>1 DEF ValueAt
  <2> QED
    BY <1>1, <1>5, <2>3
<1>7. rank > Below(Max(Finite(h))) => x[1] = Max(Finite(h)) * x[2]
  <2> SUFFICES ASSUME rank > Below(s[n - 1].bound) PROVE x[1] = s[n - 1].bound * x[2]
    BY <1>4
  <2>1. Below(s[n - 1].bound) < rank
    BY <1>3, <1>5
  <2>2. i = n
    <3>1. n - 1 < i
      BY <1>3, <1>5, <2>1
    <3> QED
      BY <1>1, <3>1
  <2>3. x = <<s[n - 1].bound, 1>>
    BY <1>1, <2>2 DEF ValueAt
  <2> QED
    BY <1>1, <1>5, <2>3
<1>8. ASSUME NEW a \in Finite(h), NEW b \in Finite(h), Adjacent(a, b),
             Below(a) < rank, rank <= Below(b)
      PROVE  (x[1] - a * x[2]) * (Below(b) - Below(a)) = (rank - Below(a)) * (b - a) * x[2]
  <2>1. PICK j \in 1..(n - 1) : a = s[j].bound
    BY <1>4
  <2>2. PICK k \in 1..(n - 1) : b = s[k].bound
    BY <1>4
  <2>3. j \in 1..n /\ k \in 1..n
    BY <1>5
  <2>4. j < i
    BY <1>3, <1>8, <2>1, <2>3
  <2>5. i <= k
    <3>1. ~(Below(s[k].bound) < rank)
      BY <1>3, <1>8, <2>2, <2>3
    <3>2. ~(k < i)
      BY <1>3, <2>3, <3>1
    <3> QED
      BY <1>1, <2>3, <3>2
  <2>6. ~(j < i - 1)
    <3> SUFFICES ASSUME j < i - 1 PROVE FALSE
      OBVIOUS
    <3>1. i - 1 \in 1..(n - 1) /\ i - 1 \in 1..n /\ i - 1 < k
      BY <1>1, <2>3, <2>5
    <3>2. s[j].bound < s[i - 1].bound /\ s[i - 1].bound < s[k].bound
      BY <1>2, <2>3, <3>1
    <3>3. s[i - 1].bound \in Finite(h)
      BY <1>4, <3>1
    <3> QED
      BY <1>8, <2>1, <2>2, <3>2, <3>3
  <2>7. ~(i < k)
    <3> SUFFICES ASSUME i < k PROVE FALSE
      OBVIOUS
    <3>1. i \in 1..(n - 1)
      BY <1>1, <2>3
    <3>2. s[j].bound < s[i].bound /\ s[i].bound < s[k].bound
      BY <1>1, <1>2, <2>3, <2>4
    <3>3. s[i].bound \in Finite(h)
      BY <1>4, <3>1
    <3> QED
      BY <1>8, <2>1, <2>2, <3>2, <3>3
  <2>8. j = i - 1 /\ k = i /\ 1 < i /\ i < n
    BY <1>1, <2>3, <2>4, <2>5, <2>6, <2>7
  <2>9. (x[1] - s[i - 1].bound * x[2]) * (c[i] * q[2] - c[i - 1] * q[2])
          = (q[1] * c[n] - c[i - 1] * q[2]) * (s[i].bound - s[i - 1].bound) * x[2]
    BY <2>8, ValueBetween
  <2>10. Below(a) = c[i - 1] * q[2] /\ Below(b) = c[i] * q[2] /\ rank = q[1] * c[n]
    BY <1>1, <2>1, <2>2, <2>3, <2>8
  <2>11. a = s[i - 1].bound /\ b = s[i].bound
    BY <2>1, <2>2, <2>8
  <2> HIDE DEF Below, rank, n
  <2> QED
    BY <2>9, <2>10, <2>11
<1> QED
  BY <1>6, <1>7, <1>8 DEF Inverts

\* A higher quantile has no lower value.
LEMMA ValuesGrow ==
    ASSUME NEW c, NEW s, NEW h, Cumulates(c, s, h), Len(h) >= 2,
           NEW q, IsLevel(q), NEW i, Reaches(i, c, Len(h), q),
           NEW x, ValueAt(x, i, c, s, Len(h), q),
           NEW p, IsLevel(p), NEW j, Reaches(j, c, Len(h), p),
           NEW y, ValueAt(y, j, c, s, Len(h), p),
           p[1] * q[2] <= q[1] * p[2]
    PROVE  y[1] * x[2] <= x[1] * y[2]
<1> DEFINE n == Len(h)
<1>1. /\ n \in Nat /\ n >= 2 /\ i \in 1..n /\ j \in 1..n
      /\ \A k \in 1..n : s[k].bound \in Int
  BY DEF Cumulates, Reaches
<1>2. /\ x[1] \in Int /\ x[2] \in Nat /\ Lower(i, s) \in Int
      /\ Lower(i, s) * x[2] <= x[1]
  BY ValueBounds
<1>3. /\ y[1] \in Int /\ y[2] \in Nat /\ Upper(j, s, n) \in Int
      /\ y[1] <= Upper(j, s, n) * y[2]
  BY ValueBounds
<1>4. /\ p[1] \in Int /\ q[1] \in Int /\ p[2] \in Nat \ {0} /\ q[2] \in Nat \ {0}
  BY DEF IsLevel
<1>5. j <= i
  <2>1. c[i] \in Nat /\ c[n] \in Nat
    <3>1. i \in 0..n /\ n \in 0..n
      BY <1>1
    <3> QED
      BY <3>1 DEF Cumulates
  <2>2. q[1] * c[n] <= c[i] * q[2]
    BY DEF Reaches
  <2>3. p[1] * c[n] <= c[i] * p[2]
    <3> DEFINE k == c[i]
               all == c[n]
               p1 == p[1]
               p2 == p[2]
               q1 == q[1]
               q2 == q[2]
    <3>1. k \in Nat /\ all \in Nat
      BY <2>1
    <3>2. p1 \in Int /\ q1 \in Int /\ p2 \in Nat \ {0} /\ q2 \in Nat \ {0}
      BY <1>4
    <3>3. q1 * all <= k * q2
      BY <2>2
    <3>4. p1 * q2 <= q1 * p2
      OBVIOUS
    <3> HIDE DEF k, all, p1, p2, q1, q2
    <3>5. p1 * all <= k * p2
      BY <3>1, <3>2, <3>3, <3>4, LowerRank
    <3> QED
      BY <3>5 DEF k, all, p1, p2
  <2>4. /\ p[1] * c[n] \in Int /\ c[i] * p[2] \in Int
        /\ i < j <=> c[i] * p[2] < p[1] * c[n]
    BY <1>1, ReachedBy
  <2>5. ~(i < j)
    <3> DEFINE u == p[1] * c[n]
               v == c[i] * p[2]
    <3>1. u \in Int /\ v \in Int /\ u <= v /\ (i < j <=> v < u)
      BY <2>3, <2>4
    <3> HIDE DEF u, v
    <3> QED
      BY <3>1
  <2> QED
    BY <1>1, <2>5
<1>6. CASE j < i
  <2>1. Upper(j, s, n) = s[j].bound /\ Lower(i, s) = s[i - 1].bound
    BY <1>1, <1>6 DEF Upper, Lower
  <2>2. j = i - 1 \/ j < i - 1
    BY <1>1, <1>6
  <2>3. i - 1 \in 1..n
    BY <1>1, <1>6
  <2>4. s[j].bound <= s[i - 1].bound
    <3>1. CASE j = i - 1
      BY <1>1, <2>3, <3>1
    <3>2. CASE j < i - 1
      <4>1. s[j].bound < s[i - 1].bound
        BY <1>1, <2>3, <3>2 DEF Cumulates
      <4> QED
        BY <1>1, <2>3, <4>1
    <3> QED
      BY <2>2, <3>1, <3>2
  <2>5. Upper(j, s, n) <= Lower(i, s)
    BY <2>1, <2>4
  <2> HIDE DEF n
  <2> QED
    BY <1>2, <1>3, <2>5, OtherBucket
<1>7. CASE j = i
  <2>1. CASE i = n \/ i = 1
    <3>1. x = y /\ x[2] = 1
      BY <1>1, <1>7, <2>1 DEF ValueAt
    <3> QED
      BY <1>2, <3>1
  <2>2. CASE 1 < i /\ i < n
    <3> DEFINE a == s[i - 1].bound
               d == s[i].bound - s[i - 1].bound
               w == s[i].count
               before == c[i - 1]
               all == c[n]
    <3>1. x = <<a * (w * q[2]) + d * (q[1] * all - before * q[2]), w * q[2]>>
      BY <2>2 DEF ValueAt
    <3>2. y = <<a * (w * p[2]) + d * (p[1] * all - before * p[2]), w * p[2]>>
      BY <1>7, <2>2 DEF ValueAt
    <3>3. a \in Int /\ w \in Nat /\ before \in Nat /\ all \in Nat
      BY <2>2, Reached
    <3>4. d \in Nat
      <4>1. /\ s[i].bound \in Int /\ s[i - 1].bound \in Int
            /\ s[i - 1].bound < s[i].bound
        BY <2>2, Reached
      <4> QED
        BY <4>1
    <3> HIDE DEF a, d, w, before, all
    <3>5. p[2] \in Nat /\ q[2] \in Nat
      BY <1>4
    <3>6. (a * (w * p[2]) + d * (p[1] * all - before * p[2])) * (w * q[2])
            <= (a * (w * q[2]) + d * (q[1] * all - before * q[2])) * (w * p[2])
      BY <1>4, <3>3, <3>4, <3>5, SameBucket
    <3> QED
      BY <3>1, <3>2, <3>6
  <2> QED
    BY <1>1, <2>1, <2>2
<1> QED
  BY <1>1, <1>5, <1>6, <1>7

\* A quantile that is not a number or not asked for, and one that is a value.
LEMMA QuantileRight ==
    ASSUME NEW h, IsHistogram(h), NEW q, IsLevel(q), NEW x, x = Quantile(q, h)
    PROVE  /\ x = NaN <=> Asked(q) /\ Undefined(h)
           /\ x[2] = 0 <=> x = NaN \/ ~Asked(q)
           /\ x[2] > 0 => Asked(q) /\ ~Undefined(h) /\ Inverts(x, h, q)
<1>1. PICK c : Cumulates(c, Sorted(h), h)
  BY SortedCumulates
<1>2. /\ ~Asked(q) => x \in {<<-1, 0>>, <<1, 0>>}
      /\ Asked(q) /\ Undefined(h) => x = NaN
      /\ Asked(q) /\ ~Undefined(h) => \E i :
           /\ Reaches(i, c, Len(h), q)
           /\ ValueAt(x, i, c, Sorted(h), Len(h), q)
  BY <1>1, QuantileIs
<1>3. CASE ~Asked(q)
  <2>1. x = <<-1, 0>> \/ x = <<1, 0>>
    BY <1>2, <1>3
  <2>2. x[2] = 0 /\ x # NaN
    BY <2>1 DEF NaN
  <2> QED
    BY <1>3, <2>2
<1>4. CASE Asked(q) /\ Undefined(h)
  <2>1. x = NaN /\ x[2] = 0
    BY <1>2, <1>4 DEF NaN
  <2> QED
    BY <1>4, <2>1
<1>5. CASE Asked(q) /\ ~Undefined(h)
  <2>1. PICK i : /\ Reaches(i, c, Len(h), q)
                 /\ ValueAt(x, i, c, Sorted(h), Len(h), q)
    BY <1>2, <1>5
  <2>2. Len(h) >= 2
    <3>1. Len(h) \in Nat
      BY <1>1 DEF Cumulates
    <3> QED
      BY <1>5, <3>1 DEF Undefined
  <2>3. Sorted(h)[Len(h)].bound = Infinity
    <3>1. Len(h) >= 1
      BY <2>2
    <3> QED
      BY <1>1, <1>5, <3>1, HighestBound DEF Undefined
  <2>4. x[2] \in Nat /\ x[2] > 0
    BY <1>1, <2>1, <2>2, ValueBounds
  <2>5. Inverts(x, h, q)
    BY <1>1, <2>1, <2>2, <2>3, ValueInverts
  <2>6. x # NaN
    BY <2>4 DEF NaN
  <2> QED
    BY <1>5, <2>4, <2>5, <2>6
<1> QED
  BY <1>3, <1>4, <1>5

\* Two quantiles of a histogram.
LEMMA QuantilesGrow ==
    ASSUME NEW h, IsHistogram(h), ~Undefined(h),
           NEW q, IsLevel(q), Asked(q), NEW p, IsLevel(p), Asked(p),
           NEW x, x = Quantile(q, h), NEW y, y = Quantile(p, h),
           p[1] * q[2] <= q[1] * p[2]
    PROVE  y[1] * x[2] <= x[1] * y[2]
<1>1. PICK c : Cumulates(c, Sorted(h), h)
  BY SortedCumulates
<1>2. PICK i : Reaches(i, c, Len(h), q) /\ ValueAt(x, i, c, Sorted(h), Len(h), q)
  BY <1>1, QuantileIs
<1>3. PICK j : Reaches(j, c, Len(h), p) /\ ValueAt(y, j, c, Sorted(h), Len(h), p)
  BY <1>1, QuantileIs
<1>4. Len(h) >= 2
  <2>1. Len(h) \in Nat
    BY <1>1 DEF Cumulates
  <2> QED
    BY <2>1 DEF Undefined
<1> QED
  BY <1>1, <1>2, <1>3, <1>4, ValuesGrow

\* The inductive invariant: the buckets have types, and different bounds.
HistogramInv == IsHistogram(histogram)

\* A new bucket has a bound of its own.
LEMMA HistogramStep == HistogramInv /\ [AddBucket]_histogram => HistogramInv'
<1> SUFFICES ASSUME IsHistogram(histogram), [AddBucket]_histogram PROVE IsHistogram(histogram')
  BY DEF HistogramInv
<1>1. CASE UNCHANGED histogram
  BY <1>1
<1>2. CASE AddBucket
  <2> DEFINE n == Len(histogram)
  <2>1. /\ n \in Nat /\ DOMAIN histogram = 1..n /\ histogram \in Seq(Buckets)
        /\ \A i, j \in 1..n : histogram[i].bound = histogram[j].bound => i = j
    BY BucketTypes DEF IsHistogram
  <2>2. PICK bound \in Bounds \ {histogram[i].bound : i \in DOMAIN histogram} :
          \E m \in Counts :
             histogram' = Append(histogram, [bound |-> bound, count |-> m])
    BY <1>2 DEF AddBucket
  <2>3. PICK m \in Counts : histogram' = Append(histogram, [bound |-> bound, count |-> m])
    BY <2>2
  <2> DEFINE b == [bound |-> bound, count |-> m]
  <2>4. b \in Buckets /\ b.bound = bound
    BY DEF Buckets
  <2> HIDE DEF b, n
  <2>5. histogram' = Append(histogram, b)
    BY <2>3 DEF b
  <2>6. /\ histogram' \in Seq(Buckets) /\ Len(histogram') = n + 1
        /\ histogram'[n + 1] = b /\ \A i \in 1..n : histogram'[i] = histogram[i]
    <3>1. Len(histogram) = n
      BY DEF n
    <3> QED
      BY <2>1, <2>4, <2>5, <3>1
  <2>7. ASSUME NEW i \in 1..(n + 1), NEW j \in 1..(n + 1),
               histogram'[i].bound = histogram'[j].bound
        PROVE  i = j
    <3>1. \A k \in 1..n : histogram'[k].bound # bound
      BY <2>1, <2>2, <2>6
    <3>2. (i = n + 1 \/ i \in 1..n) /\ (j = n + 1 \/ j \in 1..n)
      BY <2>1
    <3>3. CASE i \in 1..n /\ j \in 1..n
      BY <2>1, <2>6, <2>7, <3>3
    <3>4. CASE i = n + 1 /\ j \in 1..n
      BY <2>4, <2>6, <2>7, <3>1, <3>4
    <3>5. CASE i \in 1..n /\ j = n + 1
      BY <2>4, <2>6, <2>7, <3>1, <3>5
    <3> QED
      BY <3>2, <3>3, <3>4, <3>5
  <2> QED
    BY <2>6, <2>7 DEF IsHistogram
<1> QED
  BY <1>1, <1>2

\* What QuantileInverts says follows of any histogram.
LEMMA HistogramInverts == HistogramInv => QuantileInverts
<1> SUFFICES ASSUME IsHistogram(histogram), NEW q \in Levels
             PROVE  LET x == Quantile(q, histogram)
                        asked == q[1] >= 0 /\ q[1] <= q[2]
                    IN  /\ x = NaN <=> /\ asked
                                       /\ \/ Len(histogram) < 2 \/ CountOf(histogram) = 0
                                          \/ \A i \in DOMAIN histogram :
                                               histogram[i].bound # Infinity
                        /\ x[2] = 0 <=> x = NaN \/ ~asked
                        /\ x[2] > 0 => Inverts(x, histogram, q)
                        /\ \A p \in Levels : LET y == Quantile(p, histogram) IN
                             x[2] > 0 /\ y[2] > 0 /\ p[1] * q[2] <= q[1] * p[2] =>
                               y[1] * x[2] <= x[1] * y[2]
  BY DEF QuantileInverts, HistogramInv
<1> DEFINE x == Quantile(q, histogram)
<1>1. \A p \in Levels : IsLevel(p)
  BY QuantileAssumption DEF IsLevel
<1>2. /\ x = NaN <=> Asked(q) /\ Undefined(histogram)
      /\ x[2] = 0 <=> x = NaN \/ ~Asked(q)
      /\ x[2] > 0 => Asked(q) /\ ~Undefined(histogram) /\ Inverts(x, histogram, q)
  BY <1>1, QuantileRight
<1>3. ASSUME NEW p \in Levels, NEW y, y = Quantile(p, histogram),
             x[2] > 0, y[2] > 0, p[1] * q[2] <= q[1] * p[2]
      PROVE  y[1] * x[2] <= x[1] * y[2]
  <2>1. Asked(p)
    BY <1>1, <1>3, QuantileRight
  <2>2. Asked(q) /\ ~Undefined(histogram)
    BY <1>2, <1>3
  <2> HIDE DEF x
  <2>3. x = Quantile(q, histogram)
    BY DEF x
  <2> QED
    BY <1>1, <1>3, <2>1, <2>2, <2>3, QuantilesGrow
<1> QED
  BY <1>2, <1>3 DEF Asked, Undefined

\* deltaExplicitBucketsQuantile (histogram.go:59-126) inverts the distribution of
\* the observations, for any number of buckets in any order with any bounds and
\* counts, and any quantiles: NaN exactly where the comment says so, never for an
\* empty bucket, between the bounds of its bucket, and not lower for a higher
\* quantile.
THEOREM QuantilesRight == QuantileSpec => []QuantileInverts
<1>1. HistogramInit => HistogramInv
  <2> SUFFICES ASSUME histogram = <<>> PROVE IsHistogram(histogram)
    BY DEF HistogramInit, HistogramInv
  <2>1. histogram \in Seq(Buckets) /\ Len(histogram) = 0
    OBVIOUS
  <2>2. 1..Len(histogram) = {}
    BY <2>1
  <2> QED
    BY <2>1, <2>2 DEF IsHistogram
<1> QED
  BY <1>1, HistogramStep, HistogramInverts, PTL DEF QuantileSpec
=============================================================================
