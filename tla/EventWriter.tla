----------------------------- MODULE EventWriter -----------------------------
(***************************************************************************)
(* writeAPMEvents of loadgen/eventhandler/apm-writer.go: a chunk of a      *)
(* batch is written with the rewrites that the configuration asks for.     *)
(*                                                                         *)
(* A writer w has the two buffers that all rewrites share, and what has    *)
(* been written.  The random number of a pass is a sequence of bits: one   *)
(* bit stands for the 4 (IDs) or 5 (names) that a rotation brings up.      *)
(* Characters are one hexadecimal digit of each value ("0", "1"), one      *)
(* letter of each value in upper and lower case, one character before "0"  *)
(* ("-") and one between the ranges ("_").                                 *)
(***************************************************************************)
EXTENDS Corpus

NewWriter == [rewriteBuf |-> <<>>, idBuf |-> <<>>, written |-> <<>>]

Str(v) == IF v.json = "string" THEN v.of ELSE <<>>
Bit(bits, i) == bits[((i - 1) % Len(bits)) + 1]

(***************************************************************************)
(* Randomization: what it appends to a buffer                              *)
(***************************************************************************)
IsHex(id) == ToSet(id) \subseteq {"0", "1"}
RandomizeTraceID(id, bits) ==
    [i \in DOMAIN id |-> IF Bit(bits, i) = 0 THEN id[i]
                         ELSE IF id[i] = "0" THEN "1" ELSE "0"]

Classes == {<<"0", "1">>, <<"A", "B">>, <<"a", "b">>}
ClassOf(char) == {class \in Classes : char \in ToSet(class)}

\* A character that is passed on uses bits only if it lies between "0" and "z".
RandomizeASCII(text, bits) ==
    [i \in DOMAIN text |->
        LET used == Cardinality({j \in 1..i : text[j] # "-"})
        IN  IF ClassOf(text[i]) = {} THEN text[i]
            ELSE (CHOOSE class \in ClassOf(text[i]) : TRUE)[Bit(bits, used) + 1]]

(***************************************************************************)
(* One member of an event                                                  *)
(***************************************************************************)
Put(w, path, v) == [w EXCEPT !.rewriteBuf = Append(@, Member(path, v))]
Fill(w, text) == [w EXCEPT !.idBuf = @ \o text]
ResetID(w) == [w EXCEPT !.idBuf = <<>>]
PutID(w, path) == ResetID(Put(w, path, Value("string", w.idBuf)))

Shifted(c, t, min, base) ==
    IF c.version = "7x" THEN Value("number", (base + t - min) \div Micro)
                        ELSE Value("time", base + t - min)

WriteTimestamp(c, e, min, base, w, f) ==
    IF c.timestamps /\ e.timestamp # {}
    THEN Put(w, f.path, Shifted(c, Min(e.timestamp), Min(min), base))
    ELSE Put(w, f.path, f.value)

IDPaths == {<<"id">>, <<"parent_id">>, <<"trace_id">>, <<"transaction_id">>}
IDPathsWithoutParent == {<<"id">>, <<"trace_id">>, <<"transaction_id">>}

WriteID(c, bits, w, f) ==
    IF c.ids /\ IsHex(Str(f.value))
    THEN PutID(Fill(w, RandomizeTraceID(Str(f.value), bits)), f.path)
    ELSE Put(w, f.path, f.value)

RewritesName(c, type) == \/ c.spanNames /\ type = "span"
                         \/ c.transactionNames /\ type = "transaction"

\* Only a name that is used is taken out of the buffer.
WriteNameLeaking(c, e, bits, w, f) ==
    LET filled == Fill(w, RandomizeASCII(Str(f.value), bits))
    IN  IF RewritesName(c, e.objectType) THEN PutID(filled, f.path)
        ELSE Put(filled, f.path, f.value)

\* The name is randomized whether it is then used or not.
WriteName(c, e, bits, w, f) ==
    LET filled == Fill(w, RandomizeASCII(Str(f.value), bits))
    IN  IF RewritesName(c, e.objectType) THEN PutID(filled, f.path)
        ELSE ResetID(Put(filled, f.path, f.value))

WriteType(c, e, bits, w, f) ==
    IF c.transactionTypes /\ e.objectType = "transaction"
    THEN PutID(Fill(w, RandomizeASCII(Str(f.value), bits)), f.path)
    ELSE Put(w, f.path, f.value)

TargetName == <<"context", "service", "target", "name">>

\* Three objects down to the name.  For a value that is not an object,
\* gjson's ForEach calls the iterator once, with the value and no key.
WriteContext(c, bits, w, f) ==
    CASE c.targetNames /\ f.path = TargetName ->
           PutID(Fill(w, RandomizeASCII(Str(f.value), bits)), f.path)
      [] c.targetNames /\ IsStrictPrefix(f.path, TargetName) /\ f.value.json # "object" ->
           Put(w, Append(f.path, ""), f.value)
      [] OTHER -> Put(w, f.path, f.value)

WriteMember(c, e, min, base, bits, w, f) ==
    CASE f.path = <<"timestamp">> -> WriteTimestamp(c, e, min, base, w, f)
      [] f.path \in IDPaths -> WriteID(c, bits, w, f)
      [] f.path = <<"name">> -> WriteName(c, e, bits, w, f)
      [] f.path = <<"type">> -> WriteType(c, e, bits, w, f)
      [] f.path[1] = "context" -> WriteContext(c, bits, w, f)
      [] OTHER -> Put(w, f.path, f.value)

(***************************************************************************)
(* A chunk                                                                 *)
(***************************************************************************)
RewriteAny(c) == \/ c.timestamps \/ c.ids \/ c.spanNames \/ c.transactionNames
                 \/ c.transactionTypes \/ c.targetNames \/ c.serviceNames
                 \/ c.nodeNames

Write(w, line) == [w EXCEPT !.written = Append(@, line)]

WriteEvent(c, min, base, bits, w, e) ==
    IF ~RewriteAny(c) THEN Write(w, e.payload)
    ELSE LET all == FoldLeft(LAMBDA v, f : WriteMember(c, e, min, base, bits, v, f),
                             w, e.payload)
         IN  [Write(all, all.rewriteBuf) EXCEPT !.rewriteBuf = <<>>]

\* A field of the metadata; one that is not there stays away.
RandomizeField(w, fields, path, bits) ==
    LET i == {j \in DOMAIN fields : fields[j].path = path}
        filled == Fill(w, RandomizeASCII(Str(fields[Min(i)].value), bits))
    IN  IF i = {} THEN [w |-> w, fields |-> fields]
        ELSE [w |-> ResetID(filled),
              fields |-> [fields EXCEPT ![Min(i)].value = Value("string", filled.idBuf)]]

WriteMetadata(c, w, fields, bits) ==
    LET asked == (IF c.serviceNames THEN <<<<"service", "name">>>> ELSE <<>>)
                 \o (IF c.nodeNames THEN <<<<"service", "node", "configured_name">>>> ELSE <<>>)
        done == FoldLeft(LAMBDA m, path : RandomizeField(m.w, m.fields, path, bits),
                         [w |-> w, fields |-> fields], asked)
    IN  Write(done.w, done.fields)

WriteAPMEvents(c, min, b, base, bits) ==
    FoldLeft(LAMBDA w, e : WriteEvent(c, min, base, bits, w, e),
             WriteMetadata(c, NewWriter, b.metadata, bits), b.events).written
=============================================================================
