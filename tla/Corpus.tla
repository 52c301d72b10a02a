------------------------------- MODULE Corpus -------------------------------
(***************************************************************************)
(* What New of loadgen/eventhandler/handler.go loads: files of lines, cut  *)
(* into batches, and the smallest timestamp of all of them.                *)
(*                                                                         *)
(* A line is a record with its kind.  A "meta" or an "event" line has      *)
(* fields, the members of its JSON object in order, each with its path and *)
(* its value; a "long" line does not fit into the buffer of the            *)
(* bufio.Scanner.  A value has the JSON type the code asks for:            *)
(* "string" (characters), "time" (a string in one of the supported         *)
(* formats, in nanoseconds), "number", "null" or "object" (any object, or  *)
(* an empty one where its members have fields of their own).               *)
(***************************************************************************)
EXTENDS Integers, Sequences, FiniteSets, SequencesExt, FiniteSetsExt

CONSTANT Micro  \* time.Microsecond, in nanoseconds

Value(json, of) == [json |-> json, of |-> of]
Member(path, value) == [path |-> path, value |-> value]

TimeOf(v) ==
    CASE v.json = "number" /\ v.of >= 0 -> {v.of * Micro}
      [] v.json = "time" -> {v.of}
      [] OTHER -> {}

\* Process: the zero time, which no event of a recording has, is {}.
Process(line) ==
    [objectType |-> line.type,
     payload |-> line.fields,
     timestamp |-> UNION {TimeOf(f.value) :
                          f \in {g \in ToSet(line.fields) : g.path = <<"timestamp">>}}]

\* The first recording has no batch that an event of it could be put into.
NoCorpus == [batches |-> <<>>, current |-> 0, minTimestamp |-> {}, status |-> "ok"]

Latest(h, ts) == IF h.minTimestamp \cup ts = {} THEN {}
                 ELSE {Max(h.minTimestamp \cup ts)}
Earliest(h, ts) == IF h.minTimestamp \cup ts = {} THEN {}
                   ELSE {Min(h.minTimestamp \cup ts)}

\* One iteration of the scanner's loop; an error or a nil dereference ends New.
ReadLine(h, line) ==
    IF h.status # "ok" THEN h ELSE
    CASE line.kind = "empty" -> h
      [] line.kind = "rum" -> [h EXCEPT !.status = "error"]
      [] line.kind = "meta" ->
           [h EXCEPT !.batches = Append(@, [metadata |-> line.fields, events |-> <<>>]),
                     !.current = Len(h.batches) + 1]
      [] line.kind = "event" /\ h.current = 0 -> [h EXCEPT !.status = "panic"]
      [] OTHER ->
           LET event == Process(line) IN
           [h EXCEPT !.batches[h.current].events = Append(@, event),
                     !.minTimestamp = Earliest(h, event.timestamp)]

\* Scan ends at a line that is too long, and nothing asks the scanner why.
Scanned(file) ==
    LET long == {i \in DOMAIN file : file[i].kind = "long"}
    IN  IF long = {} THEN file ELSE SubSeq(file, 1, Min(long) - 1)

\* A scanner that takes the batch of the file before as its first.
ReadFileOn(h, file) == FoldLeft(ReadLine, h, Scanned(file))

ReadFile(h, file) == FoldLeft(ReadLine, [h EXCEPT !.current = 0], Scanned(file))

New(files) ==
    LET h == FoldLeft(ReadFile, NoCorpus, files)
    IN  IF h.status = "ok" /\ h.batches = <<>> THEN [h EXCEPT !.status = "error"] ELSE h
-----------------------------------------------------------------------------
LinesOf(files) == FlattenSeq(files)
Indices(lines, kind) == {i \in DOMAIN lines : lines[i].kind = kind}

\* How many of the indices come no later than i, and where a line belongs: the
\* batch of the metadata line that it follows, or is, and the events of it.
Number(i, indices) == Cardinality({j \in indices : j <= i})
BatchOf(lines, i) == Number(i, Indices(lines, "meta"))
EventsOf(lines, k) == {i \in Indices(lines, "event") : BatchOf(lines, i) = k}

TimesOf(lines) == UNION {Process(lines[i]).timestamp : i \in Indices(lines, "event")}

\* Every event of a file comes after a metadata line of the same file.
MetaFirst(file) == \A i \in Indices(file, "event") : \E j \in Indices(file, "meta") : j < i

\* The files whose every line fits into the buffer of the scanner.
Fits(files) == \A n \in DOMAIN files : \A i \in DOMAIN files[n] : files[n][i].kind # "long"

\* What New returns is the recording, all lines of all files: batch k has the
\* k-th metadata line and the events up to the next one, in their order, and
\* no event is lost or repeated; minTimestamp is a timestamp of an event and
\* none is earlier.  It succeeds exactly if there is a metadata line, no line
\* is RUM data, and no file begins with an event.
IsRecording(h, files) ==
    LET lines == LinesOf(files)
        Batch(i) == h.batches[BatchOf(lines, i)]
        Place(i) == Number(i, EventsOf(lines, BatchOf(lines, i)))
    IN  /\ h.status = "ok" <=> /\ Indices(lines, "meta") # {}
                              /\ Indices(lines, "rum") = {}
                              /\ \A n \in DOMAIN files : MetaFirst(files[n])
        /\ h.status = "ok" =>
             /\ Len(h.batches) = Cardinality(Indices(lines, "meta"))
             /\ \A k \in DOMAIN h.batches :
                  Len(h.batches[k].events) = Cardinality(EventsOf(lines, k))
             /\ \A i \in Indices(lines, "meta") : Batch(i).metadata = lines[i].fields
             /\ \A i \in Indices(lines, "event") :
                  Batch(i).events[Place(i)] = Process(lines[i])
             /\ h.minTimestamp = IF TimesOf(lines) = {} THEN {} ELSE {Min(TimesOf(lines))}
=============================================================================
