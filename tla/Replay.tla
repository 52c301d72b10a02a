------------------------------- MODULE Replay -------------------------------
(***************************************************************************)
(* A Handler loads its recording and replays it: each pass draws a random  *)
(* number, reads the clock and writes the batches in order.  How a batch   *)
(* is cut into chunks and sent is the subject of Handler; here each batch  *)
(* is one chunk.                                                           *)
(***************************************************************************)
EXTENDS EventWriter

CONSTANTS
    Inputs,   \* recordings and configurations: records with files and config
    Random,   \* what Rand.Uint64 returns
    Clock     \* what time.Now returns

ASSUME ReplayAssumption ==
    /\ Micro \in Nat \ {0}
    /\ Random \subseteq Seq({0, 1}) \ {<<>>}
    /\ Clock \subseteq Nat

\* The values that JSON and the formats of a timestamp have.
Values == [json : {"string"}, of : Seq(STRING)] \cup [json : {"time"}, of : Nat]
            \cup [json : {"number"}, of : Int] \cup [json : {"null", "object"}, of : {0}]
Fields == Seq([path : Seq(STRING) \ {<<>>}, value : Values])
InputLines == [kind : {"empty", "rum", "meta", "event", "long"}, type : STRING,
               fields : Fields]
Configurations ==
    [timestamps : BOOLEAN, ids : BOOLEAN, spanNames : BOOLEAN, transactionNames : BOOLEAN,
     transactionTypes : BOOLEAN, targetNames : BOOLEAN, serviceNames : BOOLEAN,
     nodeNames : BOOLEAN, version : STRING]

\* A string in the format of a time that is not a timestamp is characters.
TimesAreTimestamps(files) ==
    \A n \in DOMAIN files : \A i \in DOMAIN files[n] : \A f \in ToSet(files[n][i].fields) :
      f.value.json = "time" => f.path = <<"timestamp">>

ASSUME InputAssumption ==
    /\ Inputs \subseteq [files : Seq(Seq(InputLines)), config : Configurations]
    /\ \A in \in Inputs : TimesAreTimestamps(in.files)

VARIABLES
    input,      \* what New is given
    loaded,     \* New has returned
    handler,    \* what New has returned
    random,     \* the random number of the pass
    base,       \* the time the pass began
    written     \* what has been written for each batch in this pass

replayVars == <<input, loaded, handler, random, base, written>>

ReplayInit ==
    /\ input \in Inputs
    /\ loaded = FALSE
    /\ handler = NoCorpus
    /\ random = <<>>
    /\ base = 0
    /\ written = <<>>

Load ==
    /\ ~loaded
    /\ loaded' = TRUE
    /\ handler' = New(input.files)
    /\ UNCHANGED <<input, random, base, written>>

BeginPass ==
    /\ loaded /\ handler.status = "ok"
    /\ random = <<>> \/ Len(written) = Len(handler.batches)
    /\ random' \in Random
    /\ base' \in Clock
    /\ written' = <<>>
    /\ UNCHANGED <<input, loaded, handler>>

WriteOf(k, bits) ==
    WriteAPMEvents(input.config, handler.minTimestamp, handler.batches[k], base, bits)

\* A random number for each batch.
WriteBatchRandom ==
    /\ random # <<>> /\ Len(written) < Len(handler.batches)
    /\ \E bits \in Random : written' = Append(written, WriteOf(Len(written) + 1, bits))
    /\ UNCHANGED <<input, loaded, handler, random, base>>

WriteBatch ==
    /\ random # <<>> /\ Len(written) < Len(handler.batches)
    /\ written' = Append(written, WriteOf(Len(written) + 1, random))
    /\ UNCHANGED <<input, loaded, handler, random, base>>

ReplayNext == Load \/ BeginPass \/ WriteBatch

ReplaySpec == ReplayInit /\ [][ReplayNext]_replayVars
-----------------------------------------------------------------------------
\* New has returned the recording, or refused it, if every line of the files
\* fits into the buffer of the scanner.  Of a file with a line that does not,
\* the rest is lost and New succeeds: nothing asks the scanner for its error.
LoadsRecording == loaded /\ Fits(input.files) => IsRecording(handler, input.files)

(***************************************************************************)
(* Members of events: as they were in the recording, and as written        *)
(***************************************************************************)
Events(k) == handler.batches[k].events
Members == UNION {UNION {{<<k, i, j>> : j \in DOMAIN Events(k)[i].payload} :
                         i \in DOMAIN Events(k)} : k \in DOMAIN written}
EventOf(m) == Events(m[1])[m[2]]
Before(m) == EventOf(m).payload[m[3]]
After(m) == written[m[1]][m[2] + 1][m[3]]

\* The documented meaning of the options (Config, handler.go:111-158).
Asked(type, path) ==
    LET c == input.config IN
    \/ c.timestamps /\ path = <<"timestamp">>
    \/ c.ids /\ path \in {<<"id">>, <<"parent_id">>, <<"trace_id">>, <<"transaction_id">>}
    \/ c.spanNames /\ type = "span" /\ path = <<"name">>
    \/ c.transactionNames /\ type = "transaction" /\ path = <<"name">>
    \/ c.transactionTypes /\ type = "transaction" /\ path = <<"type">>
    \/ c.targetNames /\ path = <<"context", "service", "target", "name">>

AskedOfMetadata(path) ==
    \/ input.config.serviceNames /\ path = <<"service", "name">>
    \/ input.config.nodeNames /\ path = <<"service", "node", "configured_name">>

\* Where the name of a target is to be rewritten, what leads to it is objects;
\* WritesJSON is about recordings in which it is not.
TargetsAreObjects ==
    \A in \in Inputs : in.config.targetNames =>
      \A n \in DOMAIN in.files : \A i \in DOMAIN in.files[n] :
        \A f \in ToSet(in.files[n][i].fields) :
          IsStrictPrefix(f.path, TargetName) => f.value.json = "object"

SameValue(v, o) == v.json = o.json /\ v.of = o.of

\* handler.go:130: a digit is XORed with its bits of the random number.
Adjusted(v, o) ==
    /\ o.json = "string" /\ DOMAIN o.of = DOMAIN v.of
    /\ \A n \in DOMAIN o.of : /\ o.of[n] \in {"0", "1"}
                              /\ o.of[n] = v.of[n] <=> Bit(random, n) = 0

\* handler.go, randomizeASCII: "random ASCII runes in the same category".  A
\* character without a class stays, and the bits are those of its place.
Randomized(v, o) ==
    /\ o.json = "string" /\ DOMAIN o.of = DOMAIN v.of
    /\ \A n \in DOMAIN o.of :
         LET place == Cardinality({i \in 1..n : v.of[i] # "-"})
         IN  o.of[n] \in IF ClassOf(v.of[n]) = {} THEN {v.of[n]}
                         ELSE {class[Bit(random, place) + 1] : class \in ClassOf(v.of[n])}

\* The value of a member of an event.  Nothing is said here of a name, a type or
\* an ID that is asked for and is no string: handler.go:130 has it that only IDs
\* of hex digits are adjusted, but WriteID writes a null as "".  Where a
\* timestamp is moved to is the subject of KeepsOffsets.
ValueAsAsked(e, path, v, o) ==
    LET asked == Asked(e.objectType, path)
        text == asked /\ v.json = "string" /\ path # <<"timestamp">>
        kept == \/ ~asked
                \/ path = <<"timestamp">> /\ e.timestamp = {}
                \/ text /\ path \in IDPaths /\ ~IsHex(v.of)
    IN  /\ kept => SameValue(v, o)
        /\ asked /\ path = <<"timestamp">> /\ e.timestamp # {} =>
             o.json = IF input.config.version = "7x" THEN "number" ELSE "time"
        /\ text /\ path \in IDPaths /\ IsHex(v.of) => Adjusted(v, o)
        /\ text /\ path \notin IDPaths => Randomized(v, o)

\* Of the fields of the metadata with a path, sjson sets the first.
FirstAsked(was) ==
    {j \in DOMAIN was : /\ AskedOfMetadata(was[j].path)
                        /\ \A i \in 1..(j - 1) : was[i].path # was[j].path}

\* Metadata and events are written once, in their places, with all their
\* members in their places.  A member no option names is what it was, and one
\* that an option names is rewritten: from its own value and the random number
\* of the pass, and nothing of another field that went through the same buffer.
WritesAsAsked ==
    /\ \A k \in DOMAIN written :
         /\ Len(written[k]) = Len(Events(k)) + 1
         /\ \A i \in DOMAIN Events(k) :
              Len(written[k][i + 1]) = Len(Events(k)[i].payload)
    /\ \A m \in Members :
         /\ After(m).path = Before(m).path
         /\ ValueAsAsked(EventOf(m), Before(m).path, Before(m).value, After(m).value)
    /\ \A k \in DOMAIN written :
         LET was == handler.batches[k].metadata
             is == written[k][1]
         IN  /\ Len(is) = Len(was)
             /\ \A j \in DOMAIN was :
                  /\ is[j].path = was[j].path
                  /\ j \notin FirstAsked(was) => SameValue(was[j].value, is[j].value)
                  /\ j \in FirstAsked(was) /\ was[j].value.json = "string" =>
                       Randomized(was[j].value, is[j].value)

\* handler.go:133: IDs are rewritten consistently.  Throughout a pass, over
\* events and batches, two IDs are written equal exactly if they were equal:
\* relationships are kept and none is added.
KeepsRelationships ==
    LET ids == {m \in Members : /\ Before(m).path \in IDPaths
                                /\ Before(m).value.json = "string"
                                /\ IsHex(Before(m).value.of)}
    IN  \A m, n \in ids : Before(m).value.of = Before(n).value.of
                             <=> After(m).value.of = After(n).value.of

\* handler.go:116: rewritten timestamps keep their distances, in the precision
\* of the target version, the earliest event of the recording begins when the
\* pass begins and no event is earlier.  The others are as recorded.
KeepsOffsets ==
    LET unit == IF input.config.version = "7x" THEN Micro ELSE 1
        timed == {m \in Members : /\ Before(m).path = <<"timestamp">>
                                  /\ EventOf(m).timestamp # {}}
        Was(m) == Min(EventOf(m).timestamp)
        Is(m) == After(m).value.of * unit
        Near(x, y) == x - y \in (1 - unit)..(unit - 1)
    IN  input.config.timestamps =>
          /\ \A m \in timed :
               /\ {Was(m)} = handler.minTimestamp => Near(Is(m), base)
               /\ Is(m) > base - unit
               /\ \A n \in timed : Near(Is(m) - Is(n), Was(m) - Was(n))
          /\ \A m \in Members \ timed : Before(m).path = <<"timestamp">> =>
               SameValue(Before(m).value, After(m).value)

\* apm-writer.go:16: what is written is JSON, so that it can be replayed: a
\* value without a key is not.
WritesJSON == \A m \in Members : \A n \in DOMAIN After(m).path : After(m).path[n] # ""
=============================================================================
