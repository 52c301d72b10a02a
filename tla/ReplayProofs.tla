---------------------------- MODULE ReplayProofs ----------------------------
(***************************************************************************)
(* Proofs about Replay: what New loads is the recording, and what a pass   *)
(* writes is the recording with the rewrites asked for.                    *)
(*                                                                         *)
(* Loading and writing are folds over lines, files, members and events.    *)
(* Each has a lemma that gives its steps, one for each element, so that an *)
(* invariant of a fold is proved by induction over the elements.           *)
(***************************************************************************)
EXTENDS Replay, DataLemmas

(***************************************************************************)
(* The folds and their steps                                               *)
(***************************************************************************)
\* What reading the lines q makes of h.
LinesRead(h, q) ==
    FoldLeft(ReadLine, h, q)

\* g has what reading has made of h after each of the lines q.
Reads(X, g, h, q) ==
    /\ g \in [0..Len(q) -> X] /\ g[0] = h /\ g[Len(q)] = LinesRead(h, q)
    /\ \A n \in 1..Len(q) : g[n] = ReadLine(g[n - 1], q[n])

\* Where ReadLine stays in X, reading the lines q takes one step for each.
LEMMA ReadSteps ==
    ASSUME NEW X, NEW Y, NEW h \in X, NEW q \in Seq(Y),
           \A x \in X, y \in Y : ReadLine(x, y) \in X
    PROVE  \E g : Reads(X, g, h, q)
<1> DEFINE S == SUBSET (1..Len(q))
           Eq(it) == it = [s \in S |->
                       IF s = {} THEN h ELSE ReadLine(it[s \ {Max(s)}], q[Max(s)])]
           step == [p \in X \X Y |-> ReadLine(p[1], p[2])]
           it == CHOOSE it : Eq(it)
<1>0. /\ DOMAIN q = 1..Len(q) /\ Len(q) \in Nat
      /\ \A i \in 1..Len(q) : q[i] \in Y
  BY LenProperties, ElementOfSeq
<1>1. step \in [X \X Y -> X]
  OBVIOUS
<1>2. \A x \in X, y \in Y : step[<<x, y>>] = ReadLine(x, y)
  OBVIOUS
<1> HIDE DEF step
<1>3. \E f : Eq(f)
  <2>1. PICK f \in [S -> X] : Folds(f, step, h, q)
    BY <1>1, FoldsExists
  <2>2. ASSUME NEW s \in S, s # {}
        PROVE  f[s] = ReadLine(f[s \ {Max(s)}], q[Max(s)])
    <3>1. Max(s) \in 1..Len(q) /\ s \ {Max(s)} \in S
      BY <1>0, <2>2, LastPosition
    <3>2. f[s] = step[<<f[s \ {Max(s)}], q[Max(s)]>>]
      BY <2>1, <2>2 DEF Folds
    <3> QED
      BY <1>0, <1>2, <2>1, <3>1, <3>2
  <2>3. f[{}] = h
    BY <2>1 DEF Folds
  <2> QED
    BY <2>1, <2>2, <2>3
<1>4. Eq(it)
  BY <1>3
<1>5. LinesRead(h, q) = it[1..Len(q)]
  BY <1>0 DEF LinesRead, FoldLeft, MapThenFoldSet
<1> HIDE DEF it
<1>6. FoldsIn(X, Y, it, step, h, q)
  <2>1. it[{}] = h
    BY <1>4
  <2>2. \A s \in S : s # {} => it[s] = ReadLine(it[s \ {Max(s)}], q[Max(s)])
    BY <1>4
  <2>3. ASSUME NEW s \in S, s # {}, it[s \ {Max(s)}] \in X
        PROVE  it[s] = step[<<it[s \ {Max(s)}], q[Max(s)]>>]
    <3>1. q[Max(s)] \in Y
      BY <1>0, <2>3, LastPosition
    <3> QED
      BY <1>2, <2>2, <2>3, <3>1
  <2> QED
    BY <1>1, <2>1, <2>3 DEF FoldsIn
<1>7. PICK g : Steps(X, g, step, h, q) /\ g[Len(q)] = it[1..Len(q)]
  BY <1>6, FoldSteps
<1>8. ASSUME NEW n \in 1..Len(q) PROVE g[n] = ReadLine(g[n - 1], q[n])
  <2>1. g[n - 1] \in X /\ q[n] \in Y
    <3>1. n - 1 \in 0..Len(q)
      BY <1>0
    <3> QED
      BY <1>0, <1>7, <3>1 DEF Steps
  <2>2. g[n] = step[<<g[n - 1], q[n]>>]
    BY <1>7 DEF Steps
  <2> QED
    BY <1>2, <2>1, <2>2
<1>9. g \in [0..Len(q) -> X] /\ g[0] = h /\ g[Len(q)] = LinesRead(h, q)
  BY <1>5, <1>7 DEF Steps
<1> HIDE DEF Eq
<1> QED
  BY <1>8, <1>9 DEF Reads

\* What reading the files q makes of h.
FilesRead(h, q) ==
    FoldLeft(ReadFile, h, q)

\* g has what reading has made of h after each of the files q.
ReadsFiles(X, g, h, q) ==
    /\ g \in [0..Len(q) -> X] /\ g[0] = h /\ g[Len(q)] = FilesRead(h, q)
    /\ \A n \in 1..Len(q) : g[n] = ReadFile(g[n - 1], q[n])

\* Where ReadFile stays in X, reading the files q takes one step for each.
LEMMA ReadFileSteps ==
    ASSUME NEW X, NEW Y, NEW h \in X, NEW q \in Seq(Y),
           \A x \in X, y \in Y : ReadFile(x, y) \in X
    PROVE  \E g : ReadsFiles(X, g, h, q)
<1> DEFINE S == SUBSET (1..Len(q))
           Eq(it) == it = [s \in S |->
                       IF s = {} THEN h ELSE ReadFile(it[s \ {Max(s)}], q[Max(s)])]
           step == [p \in X \X Y |-> ReadFile(p[1], p[2])]
           it == CHOOSE it : Eq(it)
<1>0. /\ DOMAIN q = 1..Len(q) /\ Len(q) \in Nat
      /\ \A i \in 1..Len(q) : q[i] \in Y
  BY LenProperties, ElementOfSeq
<1>1. step \in [X \X Y -> X]
  OBVIOUS
<1>2. \A x \in X, y \in Y : step[<<x, y>>] = ReadFile(x, y)
  OBVIOUS
<1> HIDE DEF step
<1>3. \E f : Eq(f)
  <2>1. PICK f \in [S -> X] : Folds(f, step, h, q)
    BY <1>1, FoldsExists
  <2>2. ASSUME NEW s \in S, s # {}
        PROVE  f[s] = ReadFile(f[s \ {Max(s)}], q[Max(s)])
    <3>1. Max(s) \in 1..Len(q) /\ s \ {Max(s)} \in S
      BY <1>0, <2>2, LastPosition
    <3>2. f[s] = step[<<f[s \ {Max(s)}], q[Max(s)]>>]
      BY <2>1, <2>2 DEF Folds
    <3> QED
      BY <1>0, <1>2, <2>1, <3>1, <3>2
  <2>3. f[{}] = h
    BY <2>1 DEF Folds
  <2> QED
    BY <2>1, <2>2, <2>3
<1>4. Eq(it)
  BY <1>3
<1>5. FilesRead(h, q) = it[1..Len(q)]
  BY <1>0 DEF FilesRead, FoldLeft, MapThenFoldSet
<1> HIDE DEF it
<1>6. FoldsIn(X, Y, it, step, h, q)
  <2>1. it[{}] = h
    BY <1>4
  <2>2. \A s \in S : s # {} => it[s] = ReadFile(it[s \ {Max(s)}], q[Max(s)])
    BY <1>4
  <2>3. ASSUME NEW s \in S, s # {}, it[s \ {Max(s)}] \in X
        PROVE  it[s] = step[<<it[s \ {Max(s)}], q[Max(s)]>>]
    <3>1. q[Max(s)] \in Y
      BY <1>0, <2>3, LastPosition
    <3> QED
      BY <1>2, <2>2, <2>3, <3>1
  <2> QED
    BY <1>1, <2>1, <2>3 DEF FoldsIn
<1>7. PICK g : Steps(X, g, step, h, q) /\ g[Len(q)] = it[1..Len(q)]
  BY <1>6, FoldSteps
<1>8. ASSUME NEW n \in 1..Len(q) PROVE g[n] = ReadFile(g[n - 1], q[n])
  <2>1. g[n - 1] \in X /\ q[n] \in Y
    <3>1. n - 1 \in 0..Len(q)
      BY <1>0
    <3> QED
      BY <1>0, <1>7, <3>1 DEF Steps
  <2>2. g[n] = step[<<g[n - 1], q[n]>>]
    BY <1>7 DEF Steps
  <2> QED
    BY <1>2, <2>1, <2>2
<1>9. g \in [0..Len(q) -> X] /\ g[0] = h /\ g[Len(q)] = FilesRead(h, q)
  BY <1>5, <1>7 DEF Steps
<1> HIDE DEF Eq
<1> QED
  BY <1>8, <1>9 DEF ReadsFiles

\* What writing the members q of the event e makes of the writer h.
MembersWritten(c, e, min, start, bits, h, q) ==
    FoldLeft(LAMBDA v, f : WriteMember(c, e, min, start, bits, v, f), h, q)

\* g has what the writer h has become after each of the members q.
WritesMembers(c, e, min, start, bits, X, g, h, q) ==
    /\ g \in [0..Len(q) -> X] /\ g[0] = h
    /\ g[Len(q)] = MembersWritten(c, e, min, start, bits, h, q)
    /\ \A n \in 1..Len(q) : g[n] = WriteMember(c, e, min, start, bits, g[n - 1], q[n])

\* Where WriteMember stays in X, writing the members q takes one step for each.
LEMMA MemberSteps ==
    ASSUME NEW c, NEW e, NEW min, NEW start, NEW bits,
           NEW X, NEW Y, NEW h \in X, NEW q \in Seq(Y),
           \A x \in X, y \in Y : WriteMember(c, e, min, start, bits, x, y) \in X
    PROVE  \E g : WritesMembers(c, e, min, start, bits, X, g, h, q)
<1> DEFINE S == SUBSET (1..Len(q))
           Eq(it) == it = [s \in S |->
                       IF s = {} THEN h
                       ELSE WriteMember(c, e, min, start, bits, it[s \ {Max(s)}], q[Max(s)])]
           step == [p \in X \X Y |-> WriteMember(c, e, min, start, bits, p[1], p[2])]
           it == CHOOSE it : Eq(it)
<1>0. /\ DOMAIN q = 1..Len(q) /\ Len(q) \in Nat
      /\ \A i \in 1..Len(q) : q[i] \in Y
  BY LenProperties, ElementOfSeq
<1>1. step \in [X \X Y -> X]
  OBVIOUS
<1>2. \A x \in X, y \in Y : step[<<x, y>>] = WriteMember(c, e, min, start, bits, x, y)
  OBVIOUS
<1> HIDE DEF step
<1>3. \E f : Eq(f)
  <2>1. PICK f \in [S -> X] : Folds(f, step, h, q)
    BY <1>1, FoldsExists
  <2>2. ASSUME NEW s \in S, s # {}
        PROVE  f[s] = WriteMember(c, e, min, start, bits, f[s \ {Max(s)}], q[Max(s)])
    <3>1. Max(s) \in 1..Len(q) /\ s \ {Max(s)} \in S
      BY <1>0, <2>2, LastPosition
    <3>2. f[s] = step[<<f[s \ {Max(s)}], q[Max(s)]>>]
      BY <2>1, <2>2 DEF Folds
    <3> QED
      BY <1>0, <1>2, <2>1, <3>1, <3>2
  <2>3. f[{}] = h
    BY <2>1 DEF Folds
  <2> QED
    BY <2>1, <2>2, <2>3
<1>4. Eq(it)
  BY <1>3
<1>5. MembersWritten(c, e, min, start, bits, h, q) = it[1..Len(q)]
  BY <1>0 DEF MembersWritten, FoldLeft, MapThenFoldSet
<1> HIDE DEF it
<1>6. FoldsIn(X, Y, it, step, h, q)
  <2>1. it[{}] = h
    BY <1>4
  <2>2. \A s \in S : s # {} =>
        it[s] = WriteMember(c, e, min, start, bits, it[s \ {Max(s)}], q[Max(s)])
    BY <1>4
  <2>3. ASSUME NEW s \in S, s # {}, it[s \ {Max(s)}] \in X
        PROVE  it[s] = step[<<it[s \ {Max(s)}], q[Max(s)]>>]
    <3>1. q[Max(s)] \in Y
      BY <1>0, <2>3, LastPosition
    <3> QED
      BY <1>2, <2>2, <2>3, <3>1
  <2> QED
    BY <1>1, <2>1, <2>3 DEF FoldsIn
<1>7. PICK g : Steps(X, g, step, h, q) /\ g[Len(q)] = it[1..Len(q)]
  BY <1>6, FoldSteps
<1>8. ASSUME NEW n \in 1..Len(q)
      PROVE  g[n] = WriteMember(c, e, min, start, bits, g[n - 1], q[n])
  <2>1. g[n - 1] \in X /\ q[n] \in Y
    <3>1. n - 1 \in 0..Len(q)
      BY <1>0
    <3> QED
      BY <1>0, <1>7, <3>1 DEF Steps
  <2>2. g[n] = step[<<g[n - 1], q[n]>>]
    BY <1>7 DEF Steps
  <2> QED
    BY <1>2, <2>1, <2>2
<1>9. g \in [0..Len(q) -> X] /\ g[0] = h
/\ g[Len(q)] = MembersWritten(c, e, min, start, bits, h, q)
  BY <1>5, <1>7 DEF Steps
<1> HIDE DEF Eq
<1> QED
  BY <1>8, <1>9 DEF WritesMembers

\* What writing the events q makes of the writer h.
EventsWritten(c, min, start, bits, h, q) ==
    FoldLeft(LAMBDA w, e : WriteEvent(c, min, start, bits, w, e), h, q)

\* g has what the writer h has become after each of the events q.
WritesEvents(c, min, start, bits, X, g, h, q) ==
    /\ g \in [0..Len(q) -> X] /\ g[0] = h
    /\ g[Len(q)] = EventsWritten(c, min, start, bits, h, q)
    /\ \A n \in 1..Len(q) : g[n] = WriteEvent(c, min, start, bits, g[n - 1], q[n])

\* Where WriteEvent stays in X, writing the events q takes one step for each.
LEMMA EventSteps ==
    ASSUME NEW c, NEW min, NEW start, NEW bits,
           NEW X, NEW Y, NEW h \in X, NEW q \in Seq(Y),
           \A x \in X, y \in Y : WriteEvent(c, min, start, bits, x, y) \in X
    PROVE  \E g : WritesEvents(c, min, start, bits, X, g, h, q)
<1> DEFINE S == SUBSET (1..Len(q))
           Eq(it) == it = [s \in S |->
                       IF s = {} THEN h
                       ELSE WriteEvent(c, min, start, bits, it[s \ {Max(s)}], q[Max(s)])]
           step == [p \in X \X Y |-> WriteEvent(c, min, start, bits, p[1], p[2])]
           it == CHOOSE it : Eq(it)
<1>0. /\ DOMAIN q = 1..Len(q) /\ Len(q) \in Nat
      /\ \A i \in 1..Len(q) : q[i] \in Y
  BY LenProperties, ElementOfSeq
<1>1. step \in [X \X Y -> X]
  OBVIOUS
<1>2. \A x \in X, y \in Y : step[<<x, y>>] = WriteEvent(c, min, start, bits, x, y)
  OBVIOUS
<1> HIDE DEF step
<1>3. \E f : Eq(f)
  <2>1. PICK f \in [S -> X] : Folds(f, step, h, q)
    BY <1>1, FoldsExists
  <2>2. ASSUME NEW s \in S, s # {}
        PROVE  f[s] = WriteEvent(c, min, start, bits, f[s \ {Max(s)}], q[Max(s)])
    <3>1. Max(s) \in 1..Len(q) /\ s \ {Max(s)} \in S
      BY <1>0, <2>2, LastPosition
    <3>2. f[s] = step[<<f[s \ {Max(s)}], q[Max(s)]>>]
      BY <2>1, <2>2 DEF Folds
    <3> QED
      BY <1>0, <1>2, <2>1, <3>1, <3>2
  <2>3. f[{}] = h
    BY <2>1 DEF Folds
  <2> QED
    BY <2>1, <2>2, <2>3
<1>4. Eq(it)
  BY <1>3
<1>5. EventsWritten(c, min, start, bits, h, q) = it[1..Len(q)]
  BY <1>0 DEF EventsWritten, FoldLeft, MapThenFoldSet
<1> HIDE DEF it
<1>6. FoldsIn(X, Y, it, step, h, q)
  <2>1. it[{}] = h
    BY <1>4
  <2>2. \A s \in S : s # {} =>
        it[s] = WriteEvent(c, min, start, bits, it[s \ {Max(s)}], q[Max(s)])
    BY <1>4
  <2>3. ASSUME NEW s \in S, s # {}, it[s \ {Max(s)}] \in X
        PROVE  it[s] = step[<<it[s \ {Max(s)}], q[Max(s)]>>]
    <3>1. q[Max(s)] \in Y
      BY <1>0, <2>3, LastPosition
    <3> QED
      BY <1>2, <2>2, <2>3, <3>1
  <2> QED
    BY <1>1, <2>1, <2>3 DEF FoldsIn
<1>7. PICK g : Steps(X, g, step, h, q) /\ g[Len(q)] = it[1..Len(q)]
  BY <1>6, FoldSteps
<1>8. ASSUME NEW n \in 1..Len(q) PROVE g[n] = WriteEvent(c, min, start, bits, g[n - 1], q[n])
  <2>1. g[n - 1] \in X /\ q[n] \in Y
    <3>1. n - 1 \in 0..Len(q)
      BY <1>0
    <3> QED
      BY <1>0, <1>7, <3>1 DEF Steps
  <2>2. g[n] = step[<<g[n - 1], q[n]>>]
    BY <1>7 DEF Steps
  <2> QED
    BY <1>2, <2>1, <2>2
<1>9. g \in [0..Len(q) -> X] /\ g[0] = h /\ g[Len(q)] = EventsWritten(c, min, start, bits, h, q)
  BY <1>5, <1>7 DEF Steps
<1> HIDE DEF Eq
<1> QED
  BY <1>8, <1>9 DEF WritesEvents

\* What randomizing the fields at the paths q makes of a writer and fields h.
FieldsRandomized(bits, h, q) ==
    FoldLeft(LAMBDA m, path : RandomizeField(m.w, m.fields, path, bits), h, q)

\* g has what the writer and the fields h have become after each of the paths q.
RandomizesFields(bits, X, g, h, q) ==
    /\ g \in [0..Len(q) -> X] /\ g[0] = h /\ g[Len(q)] = FieldsRandomized(bits, h, q)
    /\ \A n \in 1..Len(q) : g[n] = RandomizeField(g[n - 1].w, g[n - 1].fields, q[n], bits)

\* Where RandomizeField stays in X, the paths q take one step each.
LEMMA FieldSteps ==
    ASSUME NEW bits,
           NEW X, NEW Y, NEW h \in X, NEW q \in Seq(Y),
           \A x \in X, y \in Y : RandomizeField(x.w, x.fields, y, bits) \in X
    PROVE  \E g : RandomizesFields(bits, X, g, h, q)
<1> DEFINE S == SUBSET (1..Len(q))
           Eq(it) == it = [s \in S |->
                       IF s = {} THEN h
                       ELSE RandomizeField(it[s \ {Max(s)}].w, it[s \ {Max(s)}].fields,
                                           q[Max(s)], bits)]
           step == [p \in X \X Y |-> RandomizeField(p[1].w, p[1].fields, p[2], bits)]
           it == CHOOSE it : Eq(it)
<1>0. /\ DOMAIN q = 1..Len(q) /\ Len(q) \in Nat
      /\ \A i \in 1..Len(q) : q[i] \in Y
  BY LenProperties, ElementOfSeq
<1>1. step \in [X \X Y -> X]
  OBVIOUS
<1>2. \A x \in X, y \in Y : step[<<x, y>>] = RandomizeField(x.w, x.fields, y, bits)
  OBVIOUS
<1> HIDE DEF step
<1>3. \E f : Eq(f)
  <2>1. PICK f \in [S -> X] : Folds(f, step, h, q)
    BY <1>1, FoldsExists
  <2>2. ASSUME NEW s \in S, s # {}
        PROVE  f[s] = RandomizeField(f[s \ {Max(s)}].w, f[s \ {Max(s)}].fields, q[Max(s)], bits)
    <3>1. Max(s) \in 1..Len(q) /\ s \ {Max(s)} \in S
      BY <1>0, <2>2, LastPosition
    <3>2. f[s] = step[<<f[s \ {Max(s)}], q[Max(s)]>>]
      BY <2>1, <2>2 DEF Folds
    <3> QED
      BY <1>0, <1>2, <2>1, <3>1, <3>2
  <2>3. f[{}] = h
    BY <2>1 DEF Folds
  <2> QED
    BY <2>1, <2>2, <2>3
<1>4. Eq(it)
  BY <1>3
<1>5. FieldsRandomized(bits, h, q) = it[1..Len(q)]
  BY <1>0 DEF FieldsRandomized, FoldLeft, MapThenFoldSet
<1> HIDE DEF it
<1>6. FoldsIn(X, Y, it, step, h, q)
  <2>1. it[{}] = h
    BY <1>4
  <2>2. \A s \in S : s # {} =>
        it[s] = RandomizeField(it[s \ {Max(s)}].w, it[s \ {Max(s)}].fields,
                                 q[Max(s)], bits)
    BY <1>4
  <2>3. ASSUME NEW s \in S, s # {}, it[s \ {Max(s)}] \in X
        PROVE  it[s] = step[<<it[s \ {Max(s)}], q[Max(s)]>>]
    <3>1. q[Max(s)] \in Y
      BY <1>0, <2>3, LastPosition
    <3> QED
      BY <1>2, <2>2, <2>3, <3>1
  <2> QED
    BY <1>1, <2>1, <2>3 DEF FoldsIn
<1>7. PICK g : Steps(X, g, step, h, q) /\ g[Len(q)] = it[1..Len(q)]
  BY <1>6, FoldSteps
<1>8. ASSUME NEW n \in 1..Len(q)
      PROVE  g[n] = RandomizeField(g[n - 1].w, g[n - 1].fields, q[n], bits)
  <2>1. g[n - 1] \in X /\ q[n] \in Y
    <3>1. n - 1 \in 0..Len(q)
      BY <1>0
    <3> QED
      BY <1>0, <1>7, <3>1 DEF Steps
  <2>2. g[n] = step[<<g[n - 1], q[n]>>]
    BY <1>7 DEF Steps
  <2> QED
    BY <1>2, <2>1, <2>2
<1>9. g \in [0..Len(q) -> X] /\ g[0] = h /\ g[Len(q)] = FieldsRandomized(bits, h, q)
  BY <1>5, <1>7 DEF Steps
<1> HIDE DEF Eq
<1> QED
  BY <1>8, <1>9 DEF RandomizesFields

(***************************************************************************)
(* Loading: the states of a handler and the steps of ReadLine              *)
(***************************************************************************)
\* What is loaded from lines whose fields are in FS.
EventSet(FS) == [objectType : STRING, payload : FS, timestamp : SUBSET Nat]
BatchSet(FS) == [metadata : FS, events : Seq(EventSet(FS))]
HandlerSet(FS) == [batches : Seq(BatchSet(FS)), current : Nat,
                   minTimestamp : SUBSET Nat, status : {"ok", "error", "panic"}]
LineSet(FS) == [kind : {"empty", "rum", "meta", "event"}, type : STRING, fields : FS]

\* No event has a timestamp before minTimestamp, which is one or none.
NoneEarlier(h) ==
    /\ \E m \in Nat : h.minTimestamp \subseteq {m}
    /\ \A k \in 1..Len(h.batches) : \A j \in 1..Len(h.batches[k].events) :
         \A t \in h.batches[k].events[j].timestamp : \E m \in h.minTimestamp : m <= t

Loaded(FS) == {h \in HandlerSet(FS) : h.current <= Len(h.batches) /\ NoneEarlier(h)}

LeastOf(T) == IF T = {} THEN {} ELSE {Min(T)}

\* LeastOf has the least of a set of times and nothing else.
LEMMA LeastOfIs ==
    ASSUME NEW T \in SUBSET Nat
    PROVE  \/ T = {} /\ LeastOf(T) = {}
           \/ \E m \in T : LeastOf(T) = {m} /\ \A x \in T : m <= x
<1> SUFFICES ASSUME T # {} PROVE \E m \in T : LeastOf(T) = {m} /\ \A x \in T : m <= x
  BY DEF LeastOf
<1>1. PICK m \in T : \A x \in T : m <= x
  BY LeastElement
<1>2. Min(T) = m
  <2>1. T \in SUBSET Int
    OBVIOUS
  <2> QED
    BY <1>1, <2>1, MinIs
<1> QED
  BY <1>1, <1>2 DEF LeastOf

\* The least of some times and of more is the least of all of them.
LEMMA LeastOfMore ==
    ASSUME NEW T \in SUBSET Nat, NEW U \in SUBSET Nat
    PROVE  LeastOf(LeastOf(T) \cup U) = LeastOf(T \cup U)
<1>1. CASE T = {}
  BY <1>1, LeastOfIs
<1>2. CASE T # {}
  <2>1. PICK m \in T : LeastOf(T) = {m} /\ \A x \in T : m <= x
    BY <1>2, LeastOfIs
  <2>2. PICK n \in T \cup U : LeastOf(T \cup U) = {n} /\ \A x \in T \cup U : n <= x
    <3>1. T \cup U \in SUBSET Nat /\ T \cup U # {}
      BY <1>2
    <3> QED
      BY <3>1, LeastOfIs
  <2>3. PICK l \in {m} \cup U : LeastOf({m} \cup U) = {l} /\ \A x \in {m} \cup U : l <= x
    <3>1. {m} \cup U \in SUBSET Nat /\ {m} \cup U # {}
      OBVIOUS
    <3> QED
      BY <3>1, LeastOfIs
  <2>4. l \in Nat /\ m \in Nat /\ n \in Nat
    OBVIOUS
  <2>5. n <= l /\ l <= n
    <3>1. n <= l
      BY <2>2, <2>3
    <3>2. CASE n \in U
      BY <2>3, <3>1, <3>2
    <3>3. CASE n \in T
      BY <2>1, <2>3, <2>4, <3>1, <3>3
    <3> QED
      BY <2>2, <3>2, <3>3
  <2>6. l = n
    BY <2>4, <2>5
  <2> QED
    BY <2>1, <2>2, <2>3, <2>6
<1> QED
  BY <1>1, <1>2

\* What TimeOf reads is a time after the epoch.
LEMMA TimeOfType == ASSUME NEW v \in Values PROVE TimeOf(v) \in SUBSET Nat
<1>1. CASE v.json = "number" /\ v.of >= 0
  <2>1. v.of \in Int
    BY <1>1 DEF Values
  <2>2. v.of \in Nat /\ Micro \in Nat
    BY <1>1, <2>1, ReplayAssumption
  <2>3. v.of * Micro \in Nat
    BY <2>2
  <2> QED
    BY <1>1, <2>3 DEF TimeOf
<1>2. CASE v.json = "time"
  <2>1. v.of \in Nat
    BY <1>2 DEF Values
  <2>2. TimeOf(v) = {v.of}
    BY <1>2 DEF TimeOf
  <2> QED
    BY <2>1, <2>2
<1>3. CASE v.json # "time" /\ ~(v.json = "number" /\ v.of >= 0)
  BY <1>3 DEF TimeOf
<1> QED
  BY <1>1, <1>2, <1>3

\* Process makes an event of a line.
LEMMA ProcessType ==
    ASSUME NEW FS \in SUBSET Fields, NEW line \in LineSet(FS)
    PROVE  Process(line) \in EventSet(FS)
<1>1. line.type \in STRING /\ line.fields \in FS /\ line.fields \in Fields
  BY DEF LineSet
<1>2. ASSUME NEW f \in ToSet(line.fields) PROVE TimeOf(f.value) \in SUBSET Nat
  <2>1. PICK i \in DOMAIN line.fields : f = line.fields[i]
    BY DEF ToSet
  <2>2. f \in [path : Seq(STRING) \ {<<>>}, value : Values]
    <3> DEFINE M == [path : Seq(STRING) \ {<<>>}, value : Values]
    <3>1. line.fields \in Seq(M)
      BY <1>1 DEF Fields
    <3> HIDE DEF M
    <3>2. i \in 1..Len(line.fields)
      BY <3>1, LenProperties
    <3>3. f \in M
      BY <2>1, <3>1, <3>2, ElementOfSeq
    <3> QED
      BY <3>3 DEF M
  <2> QED
    BY <2>2, TimeOfType
<1>3. UNION {TimeOf(f.value) : f \in {g \in ToSet(line.fields) : g.path = <<"timestamp">>}}
        \in SUBSET Nat
  BY <1>2
<1> QED
  BY <1>1, <1>3 DEF Process, EventSet

\* h2 is h with a batch that has the metadata of a line and no event.
BatchBegun(FS, h, line, h2) ==
    /\ h2 \in HandlerSet(FS) /\ Len(h.batches) \in Nat
    /\ h2.status = "ok" /\ h2.minTimestamp = h.minTimestamp
    /\ Len(h2.batches) = Len(h.batches) + 1 /\ h2.current = Len(h2.batches)
    /\ \A k \in 1..Len(h.batches) : h2.batches[k] = h.batches[k]
    /\ h2.batches[Len(h2.batches)].metadata = line.fields
    /\ Len(h2.batches[Len(h2.batches)].events) = 0

\* h2 is h with the event of a line, the last of the current batch.
EventAppended(FS, h, line, h2) ==
    LET c == h.current
        last == Len(h.batches[c].events) + 1
    IN  /\ h2 \in HandlerSet(FS)
        /\ Len(h.batches) \in Nat /\ c \in 1..Len(h.batches) /\ last \in Nat \ {0}
        /\ h2.status = "ok" /\ h2.current = c
        /\ h2.minTimestamp = LeastOf(h.minTimestamp \cup Process(line).timestamp)
        /\ Len(h2.batches) = Len(h.batches)
        /\ \A k \in 1..Len(h.batches) : k # c => h2.batches[k] = h.batches[k]
        /\ h2.batches[c].metadata = h.batches[c].metadata
        /\ Len(h2.batches[c].events) = last
        /\ \A j \in 1..(last - 1) :
             h2.batches[c].events[j] = h.batches[c].events[j]
        /\ h2.batches[c].events[last] = Process(line)

\* A metadata line begins a batch.
LEMMA MetaLine ==
    ASSUME NEW FS, NEW h \in HandlerSet(FS), NEW line \in LineSet(FS),
           h.status = "ok", line.kind = "meta",
           NEW h2, h2 = ReadLine(h, line)
    PROVE  BatchBegun(FS, h, line, h2)
<1> DEFINE B == BatchSet(FS)
           b == [metadata |-> line.fields, events |-> <<>>]
<1>1. h2 = [h EXCEPT !.batches = Append(h.batches, b), !.current = Len(h.batches) + 1]
  BY DEF ReadLine
<1>2. h.batches \in Seq(B)
  BY DEF HandlerSet
<1>3. b \in B
  <2>1. line.fields \in FS
    BY DEF LineSet
  <2> QED
    BY <2>1, EmptySeq DEF BatchSet
<1>4. b.metadata = line.fields /\ Len(b.events) = 0
  BY EmptySeq
<1> HIDE DEF B, b
<1>5. /\ Append(h.batches, b) \in Seq(B)
      /\ Len(Append(h.batches, b)) = Len(h.batches) + 1
      /\ \A k \in 1..Len(h.batches) : Append(h.batches, b)[k] = h.batches[k]
      /\ Append(h.batches, b)[Len(h.batches) + 1] = b
      /\ Len(h.batches) \in Nat
  BY <1>2, <1>3, AppendProperties, LenProperties
<1>6. /\ h2.batches = Append(h.batches, b) /\ h2.current = Len(h.batches) + 1
      /\ h2.minTimestamp = h.minTimestamp /\ h2.status = h.status
  BY <1>1 DEF HandlerSet
<1>7. h2 \in HandlerSet(FS)
  <2> DEFINE q2 == Append(h.batches, b)
  <2>1. q2 \in Seq(BatchSet(FS)) /\ Len(h.batches) + 1 \in Nat
    BY <1>5 DEF B
  <2>2. h2 = [h EXCEPT !.batches = q2, !.current = Len(h.batches) + 1]
    BY <1>1
  <2> HIDE DEF q2
  <2> QED
    BY <2>1, <2>2 DEF HandlerSet
<1> QED
  BY <1>4, <1>5, <1>6, <1>7 DEF BatchBegun

\* An event line is appended to the events of the current batch.
LEMMA EventLine ==
    ASSUME NEW FS \in SUBSET Fields, NEW h \in HandlerSet(FS), NEW line \in LineSet(FS),
           h.status = "ok", line.kind = "event",
           h.current # 0, h.current <= Len(h.batches),
           NEW h2, h2 = ReadLine(h, line)
    PROVE  EventAppended(FS, h, line, h2)
<1> DEFINE c == h.current
           B == BatchSet(FS)
           E == EventSet(FS)
           e == Process(line)
           b == h.batches[c]
           b2 == [b EXCEPT !.events = Append(b.events, e)]
           q2 == [h.batches EXCEPT ![c] = b2]
           t2 == Earliest(h, e.timestamp)
<1>1. h2 = [h EXCEPT !.batches = q2, !.minTimestamp = t2]
  BY DEF ReadLine
<1>2. h.batches \in Seq(B) /\ c \in Nat /\ h.minTimestamp \in SUBSET Nat
  BY DEF HandlerSet
<1>3. Len(h.batches) \in Nat /\ c \in 1..Len(h.batches)
  BY <1>2, LenProperties
<1>4. b \in B
  <2> HIDE DEF B
  <2> QED
    BY <1>2, <1>3, ElementOfSeq
<1>5. b.events \in Seq(E) /\ b.metadata \in FS
  BY <1>4 DEF BatchSet
<1>6. e \in E
  BY ProcessType
<1>7. e.timestamp \in SUBSET Nat
  BY <1>6 DEF EventSet
<1>8. t2 = LeastOf(h.minTimestamp \cup e.timestamp) /\ t2 \in SUBSET Nat
  <2>1. h.minTimestamp \cup e.timestamp \in SUBSET Nat
    BY <1>2, <1>7
  <2>2. t2 = LeastOf(h.minTimestamp \cup e.timestamp)
    BY DEF Earliest, LeastOf
  <2> HIDE DEF t2
  <2> QED
    BY <2>1, <2>2, LeastOfIs
<1> HIDE DEF e, E, t2
<1>9. /\ Append(b.events, e) \in Seq(E)
      /\ Len(Append(b.events, e)) = Len(b.events) + 1
      /\ \A j \in 1..Len(b.events) : Append(b.events, e)[j] = b.events[j]
      /\ Append(b.events, e)[Len(b.events) + 1] = e
      /\ Len(b.events) \in Nat
  <2> HIDE DEF b
  <2> QED
    BY <1>5, <1>6, AppendProperties, LenProperties
<1>10. /\ b2.metadata = b.metadata /\ b2.events = Append(b.events, e) /\ b2 \in B
  BY <1>4, <1>5, <1>9 DEF BatchSet, E
<1> HIDE DEF B, b2
<1>11. /\ q2 \in Seq(B) /\ Len(q2) = Len(h.batches)
       /\ \A k \in 1..Len(h.batches) : q2[k] = IF k = c THEN b2 ELSE h.batches[k]
  BY <1>2, <1>3, <1>10, ExceptSeq
<1> HIDE DEF q2
<1>12. /\ h2.batches = q2 /\ h2.minTimestamp = t2
       /\ h2.current = h.current /\ h2.status = h.status
  BY <1>1 DEF HandlerSet
<1>13. h2 \in HandlerSet(FS)
  BY <1>1, <1>8, <1>11 DEF HandlerSet, B
<1>14. h2.batches[c] = b2
  BY <1>3, <1>11, <1>12
<1> HIDE DEF b, c
<1>15. /\ Len(b.events) + 1 \in Nat \ {0} /\ (Len(b.events) + 1) - 1 = Len(b.events)
  <2>1. Len(b.events) \in Nat
    BY <1>9
  <2> QED
    BY <2>1
<1>16. /\ h2.batches[c].metadata = b.metadata
       /\ Len(h2.batches[c].events) = Len(b.events) + 1
       /\ \A j \in 1..Len(b.events) : h2.batches[c].events[j] = b.events[j]
       /\ h2.batches[c].events[Len(b.events) + 1] = e
  BY <1>9, <1>10, <1>14
<1>17. /\ Len(h2.batches) = Len(h.batches)
       /\ \A k \in 1..Len(h.batches) : k # c => h2.batches[k] = h.batches[k]
  BY <1>11, <1>12
<1> QED
  BY <1>3, <1>8, <1>12, <1>13, <1>15, <1>16, <1>17 DEF b, c, e, EventAppended

\* Every other line, and every line after an error, changes at most the status.
LEMMA OtherLine ==
    ASSUME NEW FS, NEW h \in HandlerSet(FS), NEW line \in LineSet(FS),
           \/ h.status # "ok"
           \/ line.kind \in {"empty", "rum"}
           \/ line.kind = "event" /\ h.current = 0,
           NEW h2, h2 = ReadLine(h, line)
    PROVE  /\ h2 \in HandlerSet(FS) /\ h2.batches = h.batches
           /\ h2.current = h.current /\ h2.minTimestamp = h.minTimestamp
           /\ h2.status = "ok" <=> h.status = "ok" /\ line.kind = "empty"
<1>1. CASE h.status # "ok" \/ line.kind = "empty"
  BY <1>1 DEF ReadLine
<1>2. CASE h.status = "ok" /\ line.kind = "rum"
  <2>1. h2 = [h EXCEPT !.status = "error"]
    BY <1>2 DEF ReadLine
  <2> QED
    BY <1>2, <2>1 DEF HandlerSet
<1>3. CASE h.status = "ok" /\ line.kind = "event" /\ h.current = 0
  <2>1. h2 = [h EXCEPT !.status = "panic"]
    BY <1>3 DEF ReadLine
  <2> QED
    BY <1>3, <2>1 DEF HandlerSet
<1> QED
  BY <1>1, <1>2, <1>3

\* Reading a line keeps the types and the bound on the timestamps.
LEMMA ReadLineType ==
    ASSUME NEW FS \in SUBSET Fields, NEW h \in Loaded(FS), NEW line \in LineSet(FS)
    PROVE  ReadLine(h, line) \in Loaded(FS)
<1> DEFINE h2 == ReadLine(h, line)
<1>0. h \in HandlerSet(FS) /\ h.current <= Len(h.batches) /\ NoneEarlier(h)
  BY DEF Loaded
<1>1. CASE \/ h.status # "ok"
           \/ line.kind \in {"empty", "rum"}
           \/ line.kind = "event" /\ h.current = 0
  <2>1. /\ h2 \in HandlerSet(FS) /\ h2.batches = h.batches
        /\ h2.current = h.current /\ h2.minTimestamp = h.minTimestamp
    BY <1>0, <1>1, OtherLine
  <2> HIDE DEF h2
  <2>2. h2 \in Loaded(FS)
    BY <1>0, <2>1 DEF Loaded, NoneEarlier
  <2> QED
    BY <2>2 DEF h2
<1>2. CASE h.status = "ok" /\ line.kind = "meta"
  <2>1. /\ h2 \in HandlerSet(FS) /\ Len(h.batches) \in Nat
        /\ h2.minTimestamp = h.minTimestamp
        /\ Len(h2.batches) = Len(h.batches) + 1 /\ h2.current = Len(h2.batches)
        /\ \A k \in 1..Len(h.batches) : h2.batches[k] = h.batches[k]
        /\ Len(h2.batches[Len(h2.batches)].events) = 0
    <3>1. BatchBegun(FS, h, line, h2)
      BY <1>0, <1>2, MetaLine
    <3> QED
      BY <3>1 DEF BatchBegun
  <2> HIDE DEF h2
  <2>2. ASSUME NEW k \in 1..Len(h2.batches), NEW j \in 1..Len(h2.batches[k].events),
               NEW t \in h2.batches[k].events[j].timestamp
        PROVE  \E m \in h2.minTimestamp : m <= t
    <3>1. k # Len(h2.batches)
      BY <2>1, <2>2
    <3>2. k \in 1..Len(h.batches) /\ h2.batches[k] = h.batches[k]
      BY <2>1, <3>1
    <3> QED
      BY <1>0, <2>1, <3>2 DEF NoneEarlier
  <2>3. \E m \in Nat : h2.minTimestamp \subseteq {m}
    BY <1>0, <2>1 DEF NoneEarlier
  <2>4. h2 \in Loaded(FS)
    BY <2>1, <2>2, <2>3 DEF Loaded, NoneEarlier
  <2> QED
    BY <2>4 DEF h2
<1>3. CASE h.status = "ok" /\ line.kind = "event" /\ h.current # 0
  <2> DEFINE c == h.current
             last == Len(h.batches[c].events) + 1
             e == Process(line)
             T == h.minTimestamp \cup e.timestamp
  <2>1. /\ h2 \in HandlerSet(FS)
        /\ Len(h.batches) \in Nat /\ c \in 1..Len(h.batches) /\ last \in Nat \ {0}
        /\ h2.current = c /\ Len(h2.batches) = Len(h.batches)
        /\ \A k \in 1..Len(h.batches) : k # c => h2.batches[k] = h.batches[k]
        /\ Len(h2.batches[c].events) = last
        /\ \A j \in 1..(last - 1) : h2.batches[c].events[j] = h.batches[c].events[j]
        /\ h2.batches[c].events[last] = e
        /\ h2.minTimestamp = LeastOf(T)
    <3>1. EventAppended(FS, h, line, h2)
      BY <1>0, <1>3, EventLine
    <3> HIDE DEF h2
    <3> QED
      BY <3>1 DEF EventAppended
  <2>2. T \in SUBSET Nat
    BY <1>0, ProcessType DEF HandlerSet, EventSet
  <2> HIDE DEF h2, e
  <2>3. /\ \E m \in Nat : h2.minTimestamp \subseteq {m}
        /\ \A x \in T : \E m \in h2.minTimestamp : m <= x
    <3> HIDE DEF T
    <3>1. CASE T = {} /\ LeastOf(T) = {}
      BY <2>1, <3>1
    <3>2. CASE \E m \in T : LeastOf(T) = {m} /\ \A x \in T : m <= x
      BY <2>1, <2>2, <3>2
    <3> QED
      BY <2>2, <3>1, <3>2, LeastOfIs
  <2>4. ASSUME NEW k \in 1..Len(h2.batches), NEW j \in 1..Len(h2.batches[k].events),
               NEW t \in h2.batches[k].events[j].timestamp
        PROVE  \E m \in h2.minTimestamp : m <= t
    <3>1. CASE k = c /\ j = last
      BY <2>1, <2>3, <2>4, <3>1
    <3>2. CASE ~(k = c /\ j = last)
      <4>1. /\ k \in 1..Len(h.batches) /\ j \in 1..Len(h.batches[k].events)
            /\ h2.batches[k].events[j] = h.batches[k].events[j]
        <5>1. CASE k # c
          BY <2>1, <5>1
        <5>2. CASE k = c
          <6>1. j \in 1..last /\ j # last /\ last - 1 \in Nat
            BY <2>1, <2>4, <3>2, <5>2
          <6>2. j \in 1..(last - 1) /\ last - 1 = Len(h.batches[c].events)
            BY <2>1, <6>1
          <6> QED
            BY <2>1, <5>2, <6>2
        <5> QED
          BY <5>1, <5>2
      <4>2. PICK m \in h.minTimestamp : m <= t
        BY <1>0, <2>4, <4>1 DEF NoneEarlier
      <4>3. PICK n \in h2.minTimestamp : n <= m
        BY <2>3
      <4>4. m \in Nat /\ n \in Nat /\ t \in Nat
        <5>1. h2.minTimestamp \in SUBSET Nat /\ h.minTimestamp \in SUBSET Nat
          BY <1>0, <2>1 DEF HandlerSet
        <5>2. h.batches[k].events[j] \in EventSet(FS)
          <6>1. h.batches \in Seq(BatchSet(FS))
            BY <1>0 DEF HandlerSet
          <6>2. h.batches[k] \in BatchSet(FS)
            BY <4>1, <6>1, ElementOfSeq
          <6>3. h.batches[k].events \in Seq(EventSet(FS))
            BY <6>2 DEF BatchSet
          <6> QED
            BY <4>1, <6>3, ElementOfSeq
        <5>3. h.batches[k].events[j].timestamp \in SUBSET Nat
          BY <5>2 DEF EventSet
        <5> QED
          BY <2>4, <4>1, <5>1, <5>3
      <4> QED
        BY <4>2, <4>3, <4>4
    <3> QED
      BY <3>1, <3>2
  <2>5. h2 \in Loaded(FS)
    BY <2>1, <2>3, <2>4 DEF Loaded, NoneEarlier
  <2> QED
    BY <2>5 DEF h2
<1> QED
  BY <1>1, <1>2, <1>3 DEF LineSet

(***************************************************************************)
(* Loading: files are read line by line, and New reads file by file        *)
(***************************************************************************)
RawLines(FS) == {line \in InputLines : line.fields \in FS}

\* The scanner delivers lines that are not too long.
LEMMA ScannedType ==
    ASSUME NEW FS, NEW file \in Seq(RawLines(FS))
    PROVE  Scanned(file) \in Seq(LineSet(FS))
<1> DEFINE long == {i \in DOMAIN file : file[i].kind = "long"}
           R == RawLines(FS)
           L == LineSet(FS)
<1>1. /\ DOMAIN file = 1..Len(file) /\ Len(file) \in Nat
      /\ \A i \in 1..Len(file) : file[i] \in R
  <2>1. file \in Seq(R)
    OBVIOUS
  <2> HIDE DEF R
  <2> QED
    BY <2>1, LenProperties, ElementOfSeq
<1>2. ASSUME NEW i \in 1..Len(file), i \notin long PROVE file[i] \in L
  <2>1. file[i] \in InputLines /\ file[i].fields \in FS /\ file[i].kind # "long"
    BY <1>1, <1>2 DEF RawLines
  <2> QED
    BY <2>1 DEF InputLines, LineSet
<1>3. CASE long = {}
  <2>1. SubSeq(file, 1, Len(file)) = file
    BY SubSeqFull
  <2>2. \A i \in 1..Len(file) : file[i] \in L
    BY <1>2, <1>3
  <2> HIDE DEF L, R
  <2>3. SubSeq(file, 1, Len(file)) \in Seq(L)
    BY <1>1, <2>2, SubSeqProperties
  <2>4. Scanned(file) = file
    BY <1>3 DEF Scanned
  <2> QED
    BY <2>1, <2>3, <2>4 DEF L
<1>4. CASE long # {}
  <2>1. long \in SUBSET Nat /\ long \in SUBSET Int
    BY <1>1
  <2>2. PICK m \in long : \A k \in long : m <= k
    <3> HIDE DEF long
    <3> QED
      BY <1>4, <2>1, LeastElement
  <2>3. Min(long) = m
    <3> HIDE DEF long
    <3> QED
      BY <2>1, <2>2, MinIs
  <2>4. m \in 1..Len(file)
    BY <1>1
  <2>5. Scanned(file) = SubSeq(file, 1, m - 1)
    BY <1>4, <2>3 DEF Scanned
  <2>6. \A i \in 1..(m - 1) : file[i] \in L
    <3>1. ASSUME NEW i \in 1..(m - 1) PROVE i \in 1..Len(file) /\ i \notin long
      BY <1>1, <2>2, <2>4
    <3> QED
      BY <1>2, <3>1
  <2> HIDE DEF L, R
  <2>7. SubSeq(file, 1, m - 1) \in Seq(L)
    <3>1. m - 1 \in Int
      BY <1>1, <2>4
    <3> QED
      BY <2>6, <3>1, SubSeqProperties
  <2> QED
    BY <2>5, <2>7 DEF L
<1> QED
  BY <1>3, <1>4

\* A file begins without a current batch.
LEMMA FileBegins ==
    ASSUME NEW FS, NEW h \in Loaded(FS)
    PROVE  /\ [h EXCEPT !.current = 0] \in Loaded(FS)
           /\ [h EXCEPT !.current = 0].batches = h.batches
           /\ [h EXCEPT !.current = 0].current = 0
           /\ [h EXCEPT !.current = 0].minTimestamp = h.minTimestamp
           /\ [h EXCEPT !.current = 0].status = h.status
<1> DEFINE h2 == [h EXCEPT !.current = 0]
<1>1. h \in HandlerSet(FS) /\ NoneEarlier(h)
  BY DEF Loaded
<1>2. /\ h2 \in HandlerSet(FS) /\ h2.batches = h.batches /\ h2.current = 0
      /\ h2.minTimestamp = h.minTimestamp /\ h2.status = h.status
  BY <1>1 DEF HandlerSet
<1> HIDE DEF h2
<1>3. Len(h.batches) \in Nat
  <2>1. h.batches \in Seq(BatchSet(FS))
    BY <1>1 DEF HandlerSet
  <2> QED
    BY <2>1, LenProperties
<1>4. NoneEarlier(h2)
  BY <1>1, <1>2 DEF NoneEarlier
<1>5. h2 \in Loaded(FS)
  BY <1>2, <1>3, <1>4 DEF Loaded
<1> QED
  BY <1>2, <1>5 DEF h2

\* ReadFile takes one step for each line that the scanner delivers.
LEMMA FileSteps ==
    ASSUME NEW FS \in SUBSET Fields, NEW h \in Loaded(FS), NEW file \in Seq(RawLines(FS))
    PROVE  LET q == Scanned(file) IN
           \E g : /\ Reads(Loaded(FS), g, [h EXCEPT !.current = 0], q)
                  /\ ReadFile(h, file) = g[Len(q)]
<1> DEFINE q == Scanned(file)
           h0 == [h EXCEPT !.current = 0]
           X == Loaded(FS)
           Y == LineSet(FS)
<1>1. h0 \in X /\ q \in Seq(Y)
  BY FileBegins, ScannedType
<1>2. \A x \in X, y \in Y : ReadLine(x, y) \in X
  BY ReadLineType
<1>3. ReadFile(h, file) = LinesRead(h0, q)
  BY DEF ReadFile, LinesRead
<1> HIDE DEF q, h0, X, Y
<1>4. PICK g : Reads(X, g, h0, q)
  BY <1>1, <1>2, ReadSteps
<1>5. ReadFile(h, file) = g[Len(q)]
  BY <1>3, <1>4 DEF Reads
<1> QED
  BY <1>4, <1>5 DEF X, q, h0

\* Reading a file keeps the types and the bound on the timestamps.
LEMMA ReadFileType ==
    ASSUME NEW FS \in SUBSET Fields, NEW h \in Loaded(FS), NEW file \in Seq(RawLines(FS))
    PROVE  ReadFile(h, file) \in Loaded(FS)
<1> DEFINE q == Scanned(file)
<1>1. PICK g : /\ Reads(Loaded(FS), g, [h EXCEPT !.current = 0], q)
               /\ ReadFile(h, file) = g[Len(q)]
  BY FileSteps
<1>2. q \in Seq(LineSet(FS))
  BY ScannedType
<1> HIDE DEF q
<1>3. Len(q) \in 0..Len(q)
  BY <1>2, LenProperties
<1> QED
  BY <1>1, <1>3 DEF Reads

\* New begins with nothing.
LEMMA NoCorpusType == \A FS : NoCorpus \in Loaded(FS)
<1> SUFFICES ASSUME NEW FS PROVE NoCorpus \in Loaded(FS)
  OBVIOUS
<1>1. NoCorpus.batches = <<>> /\ NoCorpus.current = 0 /\ NoCorpus.minTimestamp = {}
  BY DEF NoCorpus
<1>2. NoCorpus \in HandlerSet(FS)
  <2>1. <<>> \in Seq(BatchSet(FS))
    BY EmptySeq
  <2> QED
    BY <2>1 DEF NoCorpus, HandlerSet
<1>3. Len(NoCorpus.batches) = 0
  BY <1>1, EmptySeq
<1> QED
  BY <1>1, <1>2, <1>3 DEF Loaded, NoneEarlier

\* New takes one step for each file.
LEMMA NewSteps ==
    ASSUME NEW FS \in SUBSET Fields, NEW files \in Seq(Seq(RawLines(FS)))
    PROVE  \E g : ReadsFiles(Loaded(FS), g, NoCorpus, files)
<1> DEFINE X == Loaded(FS)
           Y == Seq(RawLines(FS))
<1>1. NoCorpus \in X
  BY NoCorpusType
<1>2. \A x \in X, y \in Y : ReadFile(x, y) \in X
  BY ReadFileType
<1> HIDE DEF X, Y
<1>3. files \in Seq(Y)
  BY DEF Y
<1>4. \E g : ReadsFiles(X, g, NoCorpus, files)
  BY <1>1, <1>2, <1>3, ReadFileSteps
<1> QED
  BY <1>4 DEF X

\* What New returns is a handler, with batches or an error.
LEMMA NewType ==
    ASSUME NEW FS \in SUBSET Fields, NEW files \in Seq(Seq(RawLines(FS)))
    PROVE  New(files) \in Loaded(FS)
<1> DEFINE h == FilesRead(NoCorpus, files)
           h2 == [h EXCEPT !.status = "error"]
<1>1. h \in Loaded(FS)
  <2>1. PICK g : ReadsFiles(Loaded(FS), g, NoCorpus, files)
    BY NewSteps
  <2>2. Len(files) \in 0..Len(files)
    BY LenProperties
  <2> QED
    BY <2>1, <2>2 DEF ReadsFiles
<1>2. New(files) = IF h.status = "ok" /\ h.batches = <<>> THEN h2 ELSE h
  BY DEF New, FilesRead
<1> HIDE DEF h
<1>3. h2 \in Loaded(FS)
  <2>1. /\ h2 \in HandlerSet(FS) /\ h2.batches = h.batches
        /\ h2.current = h.current /\ h2.minTimestamp = h.minTimestamp
    BY <1>1 DEF Loaded, HandlerSet
  <2> HIDE DEF h2
  <2> QED
    BY <1>1, <2>1 DEF Loaded, NoneEarlier
<1> QED
  BY <1>1, <1>2, <1>3

(***************************************************************************)
(* Loading: how many lines of a kind there are up to a position            *)
(***************************************************************************)
\* The position after the p-th counts if it is one of those asked for.
LEMMA NumberStep ==
    ASSUME NEW T \in SUBSET Nat, NEW p \in Nat
    PROVE  /\ Number(p, T) \in Nat
           /\ Number(p + 1, T) = Number(p, T) + IF p + 1 \in T THEN 1 ELSE 0
<1> DEFINE A == {j \in T : j <= p}
           B == {j \in T : j <= p + 1}
<1>1. IsFiniteSet(A)
  BY FS_BoundedSetOfNaturals
<1>2. Cardinality(A) \in Nat /\ p + 1 \notin A
  BY <1>1, FS_CardinalityType
<1>3. CASE p + 1 \in T
  <2>1. B = A \cup {p + 1}
    <3>1. \A j \in T : j <= p + 1 <=> j <= p \/ j = p + 1
      OBVIOUS
    <3> QED
      BY <1>3, <3>1
  <2> HIDE DEF A, B
  <2>2. Cardinality(B) = Cardinality(A) + 1
    BY <1>1, <1>2, <2>1, FS_AddElement
  <2> QED
    BY <1>2, <1>3, <2>2 DEF A, B, Number
<1>4. CASE p + 1 \notin T
  <2>1. B = A
    <3>1. \A j \in T : j <= p + 1 => j <= p
      BY <1>4
    <3>2. \A j \in T : j <= p => j <= p + 1
      OBVIOUS
    <3> QED
      BY <3>1, <3>2
  <2> HIDE DEF A, B
  <2> QED
    BY <1>2, <1>4, <2>1 DEF A, B, Number
<1> QED
  BY <1>3, <1>4

\* A position that counts has a number among those up to a later one.
LEMMA NumberIn ==
    ASSUME NEW T \in SUBSET Nat, NEW p \in Nat, NEW i \in Nat, i <= p
    PROVE  /\ Number(i, T) \in Nat /\ Number(i, T) <= Number(p, T)
           /\ i \in T => Number(i, T) \in 1..Number(p, T)
<1> DEFINE A == {j \in T : j <= i}
           B == {j \in T : j <= p}
<1>1. IsFiniteSet(A) /\ IsFiniteSet(B)
  BY FS_BoundedSetOfNaturals
<1>2. A \in SUBSET B
  <2>1. \A j \in T : j <= i => j <= p
    OBVIOUS
  <2> QED
    BY <2>1
<1>3. i \in T => A # {}
  OBVIOUS
<1> HIDE DEF A, B
<1>4. /\ Cardinality(A) \in Nat /\ Cardinality(B) \in Nat
      /\ Cardinality(A) <= Cardinality(B)
  BY <1>1, <1>2, FS_Subset, FS_CardinalityType
<1>5. i \in T => Cardinality(A) # 0
  BY <1>1, <1>3, FS_EmptySet
<1> QED
  BY <1>4, <1>5 DEF A, B, Number

\* Up to a position after them, all positions count.
LEMMA NumberAll ==
    ASSUME NEW T \in SUBSET Nat, NEW p \in Nat, \A i \in T : i <= p
    PROVE  Number(p, T) = Cardinality(T)
<1>1. {j \in T : j <= p} = T
  OBVIOUS
<1> QED
  BY <1>1 DEF Number

\* No position counts before the first.
LEMMA NumberNone == ASSUME NEW T \in SUBSET (Nat \ {0}) PROVE Number(0, T) = 0
<1>1. {j \in T : j <= 0} = {}
  <2>1. \A j \in T : ~(j <= 0)
    OBVIOUS
  <2> QED
    BY <2>1
<1> QED
  BY <1>1, FS_EmptySet DEF Number

(***************************************************************************)
(* Loading: the recording up to a line                                     *)
(***************************************************************************)
Place(lines, i) == Number(i, EventsOf(lines, BatchOf(lines, i)))

TimesUpTo(lines, p) ==
    UNION {Process(lines[i]).timestamp : i \in {j \in Indices(lines, "event") : j <= p}}

\* h has what is recorded up to the line p, in its places.
UpTo(h, lines, p) ==
    /\ Len(h.batches) = Number(p, Indices(lines, "meta"))
    /\ \A k \in 1..Len(h.batches) :
         Len(h.batches[k].events) = Number(p, EventsOf(lines, k))
    /\ \A i \in Indices(lines, "meta") : i <= p =>
         h.batches[BatchOf(lines, i)].metadata = lines[i].fields
    /\ \A i \in Indices(lines, "event") : i <= p =>
         /\ BatchOf(lines, i) \in 1..Len(h.batches)
         /\ h.batches[BatchOf(lines, i)].events[Place(lines, i)] = Process(lines[i])
    /\ h.minTimestamp = LeastOf(TimesUpTo(lines, p))

\* Indices are positions of lines, and a batch has events that are lines.
LEMMA IndicesAre ==
    ASSUME NEW L, NEW lines \in Seq(L)
    PROVE  /\ \A kind : Indices(lines, kind) \in SUBSET (Nat \ {0})
           /\ \A kind : Indices(lines, kind) \in SUBSET (1..Len(lines))
           /\ \A k : EventsOf(lines, k) \in SUBSET Indices(lines, "event")
           /\ \A k : EventsOf(lines, k) \in SUBSET (Nat \ {0})
           /\ \A i \in Nat : BatchOf(lines, i) \in Nat
           /\ Len(lines) \in Nat
<1>1. DOMAIN lines = 1..Len(lines) /\ Len(lines) \in Nat
  BY LenProperties
<1>2. /\ \A kind : Indices(lines, kind) \in SUBSET (Nat \ {0})
      /\ \A kind : Indices(lines, kind) \in SUBSET (1..Len(lines))
  BY <1>1 DEF Indices
<1>3. \A k : EventsOf(lines, k) \in SUBSET Indices(lines, "event")
  BY DEF EventsOf
<1>4. \A i \in Nat : BatchOf(lines, i) \in Nat
  <2>1. Indices(lines, "meta") \in SUBSET Nat
    BY <1>2
  <2> QED
    BY <2>1, NumberStep DEF BatchOf
<1> QED
  BY <1>1, <1>2, <1>3, <1>4

\* The times of events up to a line are times.
LEMMA TimesType ==
    ASSUME NEW FS \in SUBSET Fields, NEW lines \in Seq(LineSet(FS)), NEW p
    PROVE  TimesUpTo(lines, p) \in SUBSET Nat
<1> DEFINE L == LineSet(FS)
<1>1. \A i \in Indices(lines, "event") : lines[i] \in L
  <2>1. lines \in Seq(L)
    OBVIOUS
  <2> HIDE DEF L
  <2>2. Indices(lines, "event") \in SUBSET (1..Len(lines))
    BY <2>1, IndicesAre
  <2> QED
    BY <2>1, <2>2, ElementOfSeq
<1>2. \A i \in Indices(lines, "event") : Process(lines[i]).timestamp \in SUBSET Nat
  BY <1>1, ProcessType DEF EventSet
<1> QED
  BY <1>2 DEF TimesUpTo

\* A line that is not an event adds no times.
LEMMA TimesSame ==
    ASSUME NEW L, NEW lines \in Seq(L), NEW p \in Nat, p + 1 \notin Indices(lines, "event")
    PROVE  TimesUpTo(lines, p + 1) = TimesUpTo(lines, p)
<1>1. Indices(lines, "event") \in SUBSET Nat
  BY IndicesAre
<1>2. \A i \in Indices(lines, "event") : i <= p + 1 <=> i <= p
  BY <1>1
<1> QED
  BY <1>2 DEF TimesUpTo

\* A line that is neither metadata nor an event leaves the recording as it is.
LEMMA UpToOther ==
    ASSUME NEW L, NEW lines \in Seq(L), NEW p \in Nat, NEW h,
           p + 1 \notin Indices(lines, "meta"), p + 1 \notin Indices(lines, "event"),
           UpTo(h, lines, p)
    PROVE  UpTo(h, lines, p + 1)
<1> DEFINE M == Indices(lines, "meta")
           E == Indices(lines, "event")
           b == h.batches
<1>1. /\ M \in SUBSET Nat /\ E \in SUBSET Nat
      /\ \A k : EventsOf(lines, k) \in SUBSET Nat /\ p + 1 \notin EventsOf(lines, k)
  BY IndicesAre
<1>2. Number(p + 1, M) = Number(p, M)
  BY <1>1, NumberStep
<1>3. \A k : Number(p + 1, EventsOf(lines, k)) = Number(p, EventsOf(lines, k))
  BY <1>1, NumberStep
<1>4. \A i \in M \cup E : i <= p + 1 <=> i <= p
  BY <1>1
<1>5. TimesUpTo(lines, p + 1) = TimesUpTo(lines, p)
  BY TimesSame
<1> QED
  BY <1>2, <1>3, <1>4, <1>5 DEF UpTo

\* A metadata line begins the next batch of the recording.
LEMMA UpToMeta ==
    ASSUME NEW FS, NEW L, NEW lines \in Seq(L), NEW p \in Nat, NEW h, NEW h2,
           p + 1 \in Indices(lines, "meta"), p + 1 \notin Indices(lines, "event"),
           UpTo(h, lines, p), BatchBegun(FS, h, lines[p + 1], h2)
    PROVE  UpTo(h2, lines, p + 1)
<1> DEFINE M == Indices(lines, "meta")
           E == Indices(lines, "event")
           n == Len(h.batches)
<1>1. /\ M \in SUBSET Nat /\ E \in SUBSET Nat
      /\ \A k : EventsOf(lines, k) \in SUBSET E /\ p + 1 \notin EventsOf(lines, k)
  BY IndicesAre
<1>2. /\ n \in Nat /\ Len(h2.batches) = n + 1 /\ h2.minTimestamp = h.minTimestamp
      /\ \A k \in 1..n : h2.batches[k] = h.batches[k]
      /\ h2.batches[n + 1].metadata = lines[p + 1].fields
      /\ Len(h2.batches[n + 1].events) = 0
  BY DEF BatchBegun
<1>3. n = Number(p, M) /\ n + 1 = Number(p + 1, M)
  BY <1>1, <1>2, NumberStep DEF UpTo
<1>4. \A i \in M \cup E : i <= p => BatchOf(lines, i) \in Nat /\ BatchOf(lines, i) <= n
  <2>1. ASSUME NEW i \in M \cup E, i <= p
        PROVE  Number(i, M) \in Nat /\ Number(i, M) <= Number(p, M)
    <3>1. i \in Nat
      BY <1>1
    <3> QED
      BY <1>1, <2>1, <3>1, NumberIn
  <2> QED
    BY <1>3, <2>1 DEF BatchOf
<1>5. ASSUME NEW k \in 1..(n + 1)
      PROVE  Len(h2.batches[k].events) = Number(p + 1, EventsOf(lines, k))
  <2>1. Number(p + 1, EventsOf(lines, k)) = Number(p, EventsOf(lines, k))
    <3>1. EventsOf(lines, k) \in SUBSET Nat /\ p + 1 \notin EventsOf(lines, k)
      BY <1>1
    <3> QED
      BY <3>1, NumberStep
  <2>2. CASE k # n + 1
    <3>1. k \in 1..n
      BY <1>2, <2>2
    <3> QED
      BY <1>2, <2>1, <3>1 DEF UpTo
  <2>3. CASE k = n + 1
    <3>1. \A i \in EventsOf(lines, k) : ~(i <= p)
      BY <1>1, <1>2, <1>4, <2>3 DEF EventsOf
    <3>2. {j \in EventsOf(lines, k) : j <= p} = {}
      BY <3>1
    <3>3. Number(p, EventsOf(lines, k)) = 0
      BY <3>2, FS_EmptySet DEF Number
    <3> QED
      BY <1>2, <2>1, <2>3, <3>3
  <2> QED
    BY <2>2, <2>3
<1>6. ASSUME NEW i \in M, i <= p + 1
      PROVE  h2.batches[BatchOf(lines, i)].metadata = lines[i].fields
  <2>1. CASE i = p + 1
    <3>1. BatchOf(lines, i) = n + 1
      BY <1>3, <2>1 DEF BatchOf
    <3> QED
      BY <1>2, <2>1, <3>1
  <2>2. CASE i # p + 1
    <3>1. i <= p
      BY <1>1, <1>6, <2>2
    <3>2. BatchOf(lines, i) \in 1..n
      <4>1. Number(i, M) \in 1..Number(p, M)
        BY <1>1, <3>1, NumberIn
      <4> QED
        BY <1>3, <4>1 DEF BatchOf
    <3> QED
      BY <1>2, <3>1, <3>2 DEF UpTo
  <2> QED
    BY <2>1, <2>2
<1>7. ASSUME NEW i \in E, i <= p + 1
      PROVE  /\ BatchOf(lines, i) \in 1..(n + 1)
             /\ h2.batches[BatchOf(lines, i)].events[Place(lines, i)] = Process(lines[i])
  <2>1. i <= p
    BY <1>1, <1>7
  <2>2. /\ BatchOf(lines, i) \in 1..n
        /\ h.batches[BatchOf(lines, i)].events[Place(lines, i)] = Process(lines[i])
    BY <2>1 DEF UpTo
  <2> QED
    BY <1>2, <2>2
<1>8. h2.minTimestamp = LeastOf(TimesUpTo(lines, p + 1))
  BY <1>2, TimesSame DEF UpTo
<1> QED
  BY <1>2, <1>3, <1>5, <1>6, <1>7, <1>8 DEF UpTo

\* An event line is the next event of the last batch of the recording.
LEMMA UpToEvent ==
    ASSUME NEW FS \in SUBSET Fields, NEW lines \in Seq(LineSet(FS)), NEW p \in Nat,
           NEW h, NEW h2,
           p + 1 \in Indices(lines, "event"), p + 1 \notin Indices(lines, "meta"),
           UpTo(h, lines, p), h.current = Len(h.batches),
           EventAppended(FS, h, lines[p + 1], h2)
    PROVE  UpTo(h2, lines, p + 1)
<1> DEFINE M == Indices(lines, "meta")
           E == Indices(lines, "event")
           n == Len(h.batches)
           O(k) == EventsOf(lines, k)
           last == Len(h.batches[n].events) + 1
           e == Process(lines[p + 1])
<1>1. /\ M \in SUBSET Nat /\ E \in SUBSET Nat
      /\ \A k : O(k) \in SUBSET E /\ O(k) \in SUBSET Nat
  BY IndicesAre
<1>2. /\ n \in Nat /\ n \in 1..n /\ last \in Nat \ {0}
      /\ h2.minTimestamp = LeastOf(h.minTimestamp \cup e.timestamp)
      /\ Len(h2.batches) = n
      /\ \A k \in 1..n : k # n => h2.batches[k] = h.batches[k]
      /\ h2.batches[n].metadata = h.batches[n].metadata
      /\ Len(h2.batches[n].events) = last
      /\ \A j \in 1..(last - 1) : h2.batches[n].events[j] = h.batches[n].events[j]
      /\ h2.batches[n].events[last] = e
  BY DEF EventAppended
<1>3. n = Number(p, M) /\ n = Number(p + 1, M)
  <2>1. n = Number(p, M)
    BY DEF UpTo
  <2>2. p + 1 \notin M /\ M \in SUBSET Nat
    BY <1>1
  <2> HIDE DEF M, n
  <2>3. Number(p, M) \in Nat /\ Number(p + 1, M) = Number(p, M) + 0
    BY <2>2, NumberStep
  <2> QED
    BY <2>1, <2>3
<1>4. BatchOf(lines, p + 1) = n
  BY <1>3 DEF BatchOf
<1>5. \A k : p + 1 \in O(k) <=> k = n
  BY <1>4 DEF EventsOf
<1>6. \A k : Number(p + 1, O(k)) = Number(p, O(k)) + IF k = n THEN 1 ELSE 0
  BY <1>1, <1>5, NumberStep
<1>7. \A k \in 1..n : Number(p, O(k)) = Len(h.batches[k].events)
  BY DEF UpTo
<1>8. \A k \in 1..n : Number(p, O(k)) \in Nat
  BY <1>1, NumberStep
<1> HIDE DEF O
<1>9. ASSUME NEW k \in 1..n PROVE Len(h2.batches[k].events) = Number(p + 1, O(k))
  <2>1. CASE k = n
    BY <1>2, <1>6, <1>7, <2>1
  <2>2. CASE k # n
    <3>1. Number(p + 1, O(k)) = Number(p, O(k))
      BY <1>6, <1>8, <2>2
    <3> QED
      BY <1>2, <1>7, <2>2, <3>1
  <2> QED
    BY <2>1, <2>2
<1>10. \A k \in 1..n : h2.batches[k].metadata = h.batches[k].metadata
  BY <1>2
<1>11. ASSUME NEW i \in M, i <= p + 1
       PROVE  h2.batches[BatchOf(lines, i)].metadata = lines[i].fields
  <2>1. i <= p
    BY <1>1, <1>11
  <2>2. BatchOf(lines, i) \in 1..n
    <3>1. Number(i, M) \in 1..Number(p, M)
      BY <1>1, <2>1, NumberIn
    <3> QED
      BY <1>3, <3>1 DEF BatchOf
  <2> QED
    BY <1>10, <2>1, <2>2 DEF UpTo
<1>12. ASSUME NEW i \in E, i <= p + 1
       PROVE  /\ BatchOf(lines, i) \in 1..n
              /\ h2.batches[BatchOf(lines, i)].events[Place(lines, i)] = Process(lines[i])
  <2> DEFINE k == BatchOf(lines, i)
             j == Place(lines, i)
  <2>1. CASE i = p + 1
    <3>1. k = n
      BY <1>4, <2>1
    <3>2. j = last
      <4>1. j = Number(p + 1, O(n))
        BY <2>1, <3>1 DEF Place, O
      <4> QED
        BY <1>2, <1>6, <1>7, <4>1
    <3> HIDE DEF k, j
    <3> QED
      BY <1>2, <2>1, <3>1, <3>2 DEF k, j
  <2>2. CASE i # p + 1
    <3>1. i <= p /\ i \in Nat
      BY <1>1, <1>12, <2>2
    <3>2. k \in 1..n /\ h.batches[k].events[j] = Process(lines[i])
      BY <3>1 DEF UpTo
    <3>3. j \in 1..Len(h.batches[k].events)
      <4>1. i \in O(k)
        BY DEF O, EventsOf
      <4>2. Number(i, O(k)) \in 1..Number(p, O(k))
        <5>1. O(k) \in SUBSET Nat
          BY <1>1 DEF O
        <5> QED
          BY <3>1, <4>1, <5>1, NumberIn
      <4> QED
        BY <1>7, <3>2, <4>2 DEF Place, O
    <3> HIDE DEF k, j
    <3>4. h2.batches[k].events[j] = h.batches[k].events[j]
      <4>1. CASE k = n
        <5>1. j \in 1..(last - 1)
          <6>1. j \in 1..Len(h.batches[n].events)
            BY <3>3, <4>1
          <6>2. Len(h.batches[n].events) \in Nat
            BY <1>2, <1>7, <1>8
          <6> QED
            BY <6>1, <6>2
        <5> QED
          BY <1>2, <4>1, <5>1
      <4>2. CASE k # n
        BY <1>2, <3>2, <4>2
      <4> QED
        BY <4>1, <4>2
    <3> QED
      BY <3>2, <3>4 DEF k, j
  <2> QED
    BY <2>1, <2>2
<1>13. h2.minTimestamp = LeastOf(TimesUpTo(lines, p + 1))
  <2> DEFINE T == TimesUpTo(lines, p)
  <2>1. TimesUpTo(lines, p + 1) = T \cup e.timestamp
    <3>1. {j \in E : j <= p + 1} = {j \in E : j <= p} \cup {p + 1}
      BY <1>1
    <3> QED
      BY <3>1 DEF TimesUpTo
  <2>2. h.minTimestamp = LeastOf(T)
    BY DEF UpTo
  <2>3. T \in SUBSET Nat
    BY TimesType
  <2> DEFINE U == e.timestamp
  <2>4. U \in SUBSET Nat
    <3>1. T \cup U \in SUBSET Nat
      BY <2>1, TimesType
    <3> QED
      BY <3>1
  <2>5. h2.minTimestamp = LeastOf(h.minTimestamp \cup U)
    BY <1>2
  <2>6. TimesUpTo(lines, p + 1) = T \cup U
    BY <2>1
  <2> HIDE DEF T, U
  <2> QED
    BY <2>2, <2>3, <2>4, <2>5, <2>6, LeastOfMore
<1> QED
  BY <1>2, <1>3, <1>9, <1>11, <1>12, <1>13 DEF UpTo, O

(***************************************************************************)
(* Loading: the invariant of the lines of a file                           *)
(***************************************************************************)
\* The lines q of a file are lines of the recording, after the first o.
InFile(L, lines, q, o) ==
    /\ lines \in Seq(L) /\ q \in Seq(L) /\ o \in Nat
    /\ o + Len(q) <= Len(lines)
    /\ \A i \in 1..Len(q) : lines[o + i] = q[i]

\* No event up to the position p comes before the first metadata line.
MetaFirstUpTo(q, p) ==
    \A i \in Indices(q, "event") : i <= p => \E j \in Indices(q, "meta") : j < i

MetaUpTo(q, p) == \E j \in Indices(q, "meta") : j <= p
NoRumUpTo(lines, p) == \A i \in Indices(lines, "rum") : ~(i <= p)

\* h is what has been loaded when the first p lines of q have been read; the
\* files in bad, which were read before, begin with an event.
ReadUpTo(h, lines, bad, q, o, p) ==
    /\ h.status = "ok" <=> bad = {} /\ NoRumUpTo(lines, o + p) /\ MetaFirstUpTo(q, p)
    /\ h.status = "ok" =>
         /\ UpTo(h, lines, o + p)
         /\ h.current = IF MetaUpTo(q, p) THEN Len(h.batches) ELSE 0

\* The next line is of one kind, in the file as in the recording.
LEMMA NextLine ==
    ASSUME NEW L, NEW lines, NEW q, NEW o, InFile(L, lines, q, o),
           NEW p \in Nat, p + 1 \in 1..Len(q)
    PROVE  /\ q[p + 1] \in L /\ q[p + 1] = lines[o + p + 1]
           /\ o \in Nat /\ o + p \in Nat /\ o + (p + 1) = o + p + 1
           /\ \A kind : p + 1 \in Indices(q, kind) <=> q[p + 1].kind = kind
           /\ \A kind : o + p + 1 \in Indices(lines, kind) <=> q[p + 1].kind = kind
<1>1. /\ lines \in Seq(L) /\ q \in Seq(L) /\ o \in Nat
      /\ o + Len(q) <= Len(lines) /\ lines[o + (p + 1)] = q[p + 1]
  BY DEF InFile
<1>2. /\ DOMAIN q = 1..Len(q) /\ Len(q) \in Nat
      /\ DOMAIN lines = 1..Len(lines) /\ Len(lines) \in Nat
  BY <1>1, LenProperties
<1>3. o + p \in Nat /\ o + (p + 1) = o + p + 1 /\ o + p + 1 \in 1..Len(lines)
  BY <1>1, <1>2
<1>4. q[p + 1] \in L
  BY <1>1, ElementOfSeq
<1>5. p + 1 \in DOMAIN q /\ o + p + 1 \in DOMAIN lines /\ q[p + 1] = lines[o + p + 1]
  BY <1>1, <1>2, <1>3
<1> QED
  BY <1>1, <1>3, <1>4, <1>5 DEF Indices

\* What the conditions on lines become with the next line.
LEMMA NextConditions ==
    ASSUME NEW L, NEW lines, NEW q, NEW o, InFile(L, lines, q, o),
           NEW p \in Nat, p + 1 \in 1..Len(q)
    PROVE  LET kind == q[p + 1].kind IN
           /\ NoRumUpTo(lines, o + p + 1) <=> NoRumUpTo(lines, o + p) /\ kind # "rum"
           /\ MetaFirstUpTo(q, p + 1)
                <=> MetaFirstUpTo(q, p) /\ (kind = "event" => MetaUpTo(q, p))
           /\ MetaUpTo(q, p + 1) <=> MetaUpTo(q, p) \/ kind = "meta"
<1> DEFINE kind == q[p + 1].kind
<1>1. /\ \A k : p + 1 \in Indices(q, k) <=> kind = k
      /\ \A k : o + p + 1 \in Indices(lines, k) <=> kind = k
      /\ o + p \in Nat
  BY NextLine
<1>2. /\ \A k : Indices(q, k) \in SUBSET Nat
      /\ \A k : Indices(lines, k) \in SUBSET Nat
  BY IndicesAre DEF InFile
<1> HIDE DEF kind
<1>3. NoRumUpTo(lines, o + p + 1) <=> NoRumUpTo(lines, o + p) /\ kind # "rum"
  <2> DEFINE R == Indices(lines, "rum")
             P == o + p
  <2>1. R \in SUBSET Nat /\ P \in Nat /\ (P + 1 \in R <=> kind = "rum")
    BY <1>1, <1>2
  <2> HIDE DEF R, P
  <2>2. (\A i \in R : ~(i <= P + 1)) <=> (\A i \in R : ~(i <= P)) /\ P + 1 \notin R
    BY <2>1
  <2> QED
    BY <2>1, <2>2 DEF NoRumUpTo, R, P
<1>4. MetaUpTo(q, p + 1) <=> MetaUpTo(q, p) \/ kind = "meta"
  <2> DEFINE M == Indices(q, "meta")
  <2>1. M \in SUBSET Nat /\ (p + 1 \in M <=> kind = "meta")
    BY <1>1, <1>2
  <2> HIDE DEF M
  <2>2. (\E j \in M : j <= p + 1) <=> (\E j \in M : j <= p) \/ p + 1 \in M
    BY <2>1
  <2> QED
    BY <2>1, <2>2 DEF MetaUpTo, M
<1>5. MetaFirstUpTo(q, p + 1)
        <=> MetaFirstUpTo(q, p) /\ (kind = "event" => MetaUpTo(q, p))
  <2> DEFINE M == Indices(q, "meta")
             E == Indices(q, "event")
  <2>1. M \in SUBSET Nat /\ E \in SUBSET Nat /\ (p + 1 \in E <=> kind = "event")
    BY <1>1, <1>2
  <2> HIDE DEF M, E
  <2>2. \A j \in M : j < p + 1 <=> j <= p
    BY <2>1
  <2>3. \A i \in E : i <= p + 1 <=> i <= p \/ i = p + 1
    BY <2>1
  <2>4. (\A i \in E : i <= p + 1 => \E j \in M : j < i)
          <=> /\ \A i \in E : i <= p => \E j \in M : j < i
              /\ p + 1 \in E => \E j \in M : j <= p
    BY <2>2, <2>3
  <2> QED
    BY <2>1, <2>4 DEF MetaFirstUpTo, MetaUpTo, M, E
<1> QED
  BY <1>3, <1>4, <1>5 DEF kind

\* Reading a line keeps the invariant.
LEMMA LineStep ==
    ASSUME NEW FS \in SUBSET Fields, NEW lines, NEW q, NEW o,
           InFile(LineSet(FS), lines, q, o), NEW bad,
           NEW h \in Loaded(FS), NEW p \in Nat, p + 1 \in 1..Len(q),
           ReadUpTo(h, lines, bad, q, o, p)
    PROVE  ReadUpTo(ReadLine(h, q[p + 1]), lines, bad, q, o, p + 1)
<1> DEFINE line == q[p + 1]
           P == o + p
           L == LineSet(FS)
           h2 == ReadLine(h, line)
<1>1. /\ line \in L /\ line = lines[P + 1]
      /\ o \in Nat /\ P \in Nat /\ o + (p + 1) = P + 1
      /\ \A k : p + 1 \in Indices(q, k) <=> line.kind = k
      /\ \A k : P + 1 \in Indices(lines, k) <=> line.kind = k
  BY NextLine
<1>2. /\ NoRumUpTo(lines, P + 1) <=> NoRumUpTo(lines, P) /\ line.kind # "rum"
      /\ MetaFirstUpTo(q, p + 1)
           <=> MetaFirstUpTo(q, p) /\ (line.kind = "event" => MetaUpTo(q, p))
      /\ MetaUpTo(q, p + 1) <=> MetaUpTo(q, p) \/ line.kind = "meta"
  BY NextConditions
<1>3. /\ h.status = "ok" <=> bad = {} /\ NoRumUpTo(lines, P) /\ MetaFirstUpTo(q, p)
      /\ h.status = "ok" =>
           /\ UpTo(h, lines, P)
           /\ h.current = IF MetaUpTo(q, p) THEN Len(h.batches) ELSE 0
  BY DEF ReadUpTo
<1>4. h \in HandlerSet(FS) /\ h.current <= Len(h.batches)
  BY DEF Loaded
<1>5. lines \in Seq(L)
  BY DEF InFile
<1>6. SUFFICES
        /\ h2.status = "ok"
             <=> bad = {} /\ NoRumUpTo(lines, P + 1) /\ MetaFirstUpTo(q, p + 1)
        /\ h2.status = "ok" =>
             /\ UpTo(h2, lines, P + 1)
             /\ h2.current = IF MetaUpTo(q, p + 1) THEN Len(h2.batches) ELSE 0
  BY <1>1 DEF ReadUpTo
<1> HIDE DEF line, P, h2
<1>7. line.kind \in {"empty", "rum", "meta", "event"}
  BY <1>1 DEF LineSet
<1>8. CASE h.status # "ok"
  <2>1. h2.status # "ok"
    BY <1>1, <1>4, <1>8, OtherLine DEF h2
  <2> QED
    BY <1>2, <1>3, <1>8, <2>1
<1>9. CASE h.status = "ok" /\ line.kind = "rum"
  <2>1. h2.status # "ok"
    BY <1>1, <1>4, <1>9, OtherLine DEF h2
  <2> QED
    BY <1>2, <1>9, <2>1
<1>10. CASE h.status = "ok" /\ line.kind = "empty"
  <2>1. h2 = h
    BY <1>10 DEF h2, ReadLine
  <2>2. UpTo(h, lines, P + 1)
    <3>1. P + 1 \notin Indices(lines, "meta") /\ P + 1 \notin Indices(lines, "event")
      BY <1>1, <1>10
    <3> HIDE DEF L
    <3> QED
      BY <1>1, <1>3, <1>5, <1>10, <3>1, UpToOther
  <2> QED
    BY <1>2, <1>3, <1>10, <2>1, <2>2
<1>11. CASE h.status = "ok" /\ line.kind = "event" /\ ~MetaUpTo(q, p)
  <2>1. h.current = 0
    BY <1>3, <1>11
  <2>2. h2.status # "ok"
    BY <1>1, <1>4, <1>11, <2>1, OtherLine DEF h2
  <2> QED
    BY <1>2, <1>11, <2>2
<1>12. CASE h.status = "ok" /\ line.kind = "meta"
  <2>1. BatchBegun(FS, h, line, h2)
    BY <1>1, <1>4, <1>12, MetaLine DEF h2
  <2>2. h2.status = "ok" /\ h2.current = Len(h2.batches)
    BY <2>1 DEF BatchBegun
  <2>3. UpTo(h2, lines, P + 1)
    <3>1. P + 1 \in Indices(lines, "meta") /\ P + 1 \notin Indices(lines, "event")
      BY <1>1, <1>12
    <3>2. UpTo(h, lines, P) /\ BatchBegun(FS, h, lines[P + 1], h2)
      BY <1>1, <1>3, <1>12, <2>1
    <3> HIDE DEF L
    <3> QED
      BY <1>1, <1>5, <3>1, <3>2, UpToMeta
  <2> QED
    BY <1>2, <1>3, <1>12, <2>2, <2>3
<1>13. CASE h.status = "ok" /\ line.kind = "event" /\ MetaUpTo(q, p)
  <2>1. h.current = Len(h.batches)
    BY <1>3, <1>13
  <2>2. h.current # 0
    <3> DEFINE M == Indices(lines, "meta")
    <3>1. PICK j \in Indices(q, "meta") : j <= p
      BY <1>13 DEF MetaUpTo
    <3>2. q \in Seq(L) /\ o + Len(q) <= Len(lines) /\ \A i \in 1..Len(q) : lines[o + i] = q[i]
      BY DEF InFile
    <3>3. j \in 1..Len(q) /\ q[j].kind = "meta" /\ Len(q) \in Nat
      <4>1. DOMAIN q = 1..Len(q) /\ Len(q) \in Nat
        BY <3>2, LenProperties
      <4> QED
        BY <3>1, <4>1 DEF Indices
    <3>4. o + j \in M
      <4>1. DOMAIN lines = 1..Len(lines) /\ Len(lines) \in Nat
        BY <1>5, LenProperties
      <4>2. o + j \in 1..Len(lines)
        BY <1>1, <3>2, <3>3, <4>1
      <4> QED
        BY <3>2, <3>3, <4>1, <4>2 DEF Indices
    <3>5. o + j \in Nat /\ o + j <= P
      BY <1>1, <3>1, <3>3 DEF P
    <3>6. M \in SUBSET Nat
      BY <1>5, IndicesAre
    <3>7. Number(o + j, M) \in 1..Number(P, M)
      BY <1>1, <3>4, <3>5, <3>6, NumberIn
    <3>8. Len(h.batches) = Number(P, M)
      BY <1>3, <1>13 DEF UpTo
    <3>9. Number(P, M) \in Nat
      BY <1>1, <3>6, NumberStep
    <3> HIDE DEF M
    <3> QED
      BY <2>1, <3>7, <3>8, <3>9
  <2>3. EventAppended(FS, h, line, h2)
    BY <1>1, <1>4, <1>13, <2>2, EventLine DEF h2
  <2>4. h2.status = "ok" /\ h2.current = h.current /\ Len(h2.batches) = Len(h.batches)
    BY <2>3 DEF EventAppended
  <2>5. UpTo(h2, lines, P + 1)
    <3>1. P + 1 \in Indices(lines, "event") /\ P + 1 \notin Indices(lines, "meta")
      BY <1>1, <1>13
    <3>2. UpTo(h, lines, P) /\ EventAppended(FS, h, lines[P + 1], h2)
      BY <1>1, <1>3, <1>13, <2>3
    <3> QED
      BY <1>1, <1>5, <2>1, <3>1, <3>2, UpToEvent
  <2> QED
    BY <1>2, <1>3, <1>13, <2>1, <2>4, <2>5
<1> QED
  BY <1>7, <1>8, <1>9, <1>10, <1>11, <1>12, <1>13

(***************************************************************************)
(* Loading: the invariant of the files, and what New returns               *)
(***************************************************************************)
\* h is what has been loaded when the files with the first p lines have been
\* read; those in bad begin with an event.
LoadedUpTo(h, lines, bad, p) ==
    /\ h.status = "ok" <=> bad = {} /\ NoRumUpTo(lines, p)
    /\ h.status = "ok" => UpTo(h, lines, p)

\* Reading a file keeps the invariant of the files.
LEMMA FileStep ==
    ASSUME NEW FS \in SUBSET Fields, NEW file \in Seq(RawLines(FS)), NEW lines, NEW o,
           InFile(LineSet(FS), lines, Scanned(file), o), NEW bad,
           NEW h \in Loaded(FS), LoadedUpTo(h, lines, bad, o), NEW bad2,
           bad2 = {} <=> bad = {} /\ MetaFirst(Scanned(file))
    PROVE  LoadedUpTo(ReadFile(h, file), lines, bad2, o + Len(Scanned(file)))
<1> DEFINE q == Scanned(file)
           L == LineSet(FS)
           h0 == [h EXCEPT !.current = 0]
<1>1. PICK g : Reads(Loaded(FS), g, h0, q) /\ ReadFile(h, file) = g[Len(q)]
  BY FileSteps
<1>2. /\ g \in [0..Len(q) -> Loaded(FS)] /\ g[0] = h0
      /\ \A n \in 1..Len(q) : g[n] = ReadLine(g[n - 1], q[n])
  BY <1>1 DEF Reads
<1>3. /\ InFile(L, lines, q, o) /\ q \in Seq(L) /\ lines \in Seq(L) /\ o \in Nat
  BY DEF InFile
<1>4. h0.status = h.status /\ h0.batches = h.batches /\ h0.minTimestamp = h.minTimestamp
      /\ h0.current = 0
  BY FileBegins
<1> HIDE DEF q, h0
<1>5. DOMAIN q = 1..Len(q) /\ Len(q) \in Nat
  BY <1>3, LenProperties
<1>6. \A kind : Indices(q, kind) \in SUBSET (1..Len(q))
  <2> HIDE DEF L
  <2> QED
    BY <1>3, IndicesAre
<1>7. MetaFirstUpTo(q, 0) /\ ~MetaUpTo(q, 0)
  <2>1. \A kind : \A i \in Indices(q, kind) : ~(i <= 0)
    BY <1>5, <1>6
  <2> QED
    BY <2>1 DEF MetaFirstUpTo, MetaUpTo
<1> DEFINE J(p) == ReadUpTo(g[p], lines, bad, q, o, p)
           T == {p \in Nat : p <= Len(q) => J(p)}
<1>8. J(0)
  <2>1. o + 0 = o
    BY <1>3
  <2>2. UpTo(h, lines, o) => UpTo(h0, lines, o)
    BY <1>4 DEF UpTo
  <2> QED
    BY <1>2, <1>4, <1>7, <2>1, <2>2 DEF ReadUpTo, LoadedUpTo
<1>9. ASSUME NEW p \in Nat, p \in T PROVE p + 1 \in T
  <2> SUFFICES ASSUME p + 1 <= Len(q) PROVE J(p + 1)
    OBVIOUS
  <2>1. p + 1 \in 1..Len(q) /\ p \in 0..Len(q) /\ (p + 1) - 1 = p
    BY <1>5
  <2>2. g[p] \in Loaded(FS) /\ g[p + 1] = ReadLine(g[p], q[p + 1])
    BY <1>2, <2>1
  <2>3. J(p)
    BY <1>9, <2>1
  <2>4. ReadUpTo(ReadLine(g[p], q[p + 1]), lines, bad, q, o, p + 1)
    BY <1>3, <2>1, <2>2, <2>3, LineStep
  <2> QED
    BY <2>2, <2>4
<1>10. J(Len(q))
  <2>1. 0 \in T
    BY <1>8
  <2> HIDE DEF J
  <2>2. Nat \subseteq T
    <3> HIDE DEF T
    <3> QED
      BY <1>9, <2>1, Induction
  <2> QED
    BY <1>5, <2>2
<1>11. MetaFirstUpTo(q, Len(q)) <=> MetaFirst(q)
  <2>1. \A i \in Indices(q, "event") : i <= Len(q)
    BY <1>5, <1>6
  <2> QED
    BY <2>1 DEF MetaFirstUpTo, MetaFirst
<1>12. bad2 = {} <=> bad = {} /\ MetaFirst(q)
  BY DEF q
<1>13. LoadedUpTo(g[Len(q)], lines, bad2, o + Len(q))
  BY <1>10, <1>11, <1>12 DEF ReadUpTo, LoadedUpTo
<1> QED
  BY <1>1, <1>13 DEF q

\* o has the number of lines in the first 0, 1, 2, ... files.
Offsets(L, o, ss, lines) ==
    /\ o \in [0..Len(ss) -> Nat] /\ o[0] = 0 /\ o[Len(ss)] = Len(lines)
    /\ \A n \in 1..Len(ss) :
         o[n] = o[n - 1] + Len(ss[n]) /\ InFile(L, lines, ss[n], o[n - 1])

\* The lines of the recording are those of the files, one after another.
LEMMA OffsetsExist ==
    ASSUME NEW L, NEW ss \in Seq(Seq(L))
    PROVE  \E o : Offsets(L, o, ss, FlattenSeq(ss))
<1> DEFINE T == Seq(L)
           F(n) == FlattenSeq(SubSeq(ss, 1, n))
           o == [n \in 0..Len(ss) |-> Len(F(n))]
           lines == FlattenSeq(ss)
<1>0. ss \in Seq(T) /\ Len(ss) \in Nat /\ SubSeq(ss, 1, Len(ss)) = ss
  BY LenProperties, SubSeqFull
<1>1. \A i \in 1..Len(ss) : ss[i] \in T
  <2> HIDE DEF T
  <2> QED
    BY <1>0, ElementOfSeq
<1>2. \A n \in 0..Len(ss) : F(n) \in Seq(L)
  <2> SUFFICES ASSUME NEW n \in 0..Len(ss) PROVE F(n) \in Seq(L)
    OBVIOUS
  <2>1. n \in Int /\ \A i \in 1..n : ss[i] \in T
    BY <1>0, <1>1
  <2>2. SubSeq(ss, 1, n) \in Seq(T)
    <3> HIDE DEF T
    <3> QED
      BY <2>1, SubSeqProperties
  <2> QED
    BY <2>2, FlattenType
<1>3. F(0) = <<>>
  <2>1. SubSeq(ss, 1, 0) = <<>>
    BY SubSeqEmpty
  <2>2. Len(<<>>) = 0
    BY EmptySeq
  <2> QED
    BY <2>1, <2>2 DEF FlattenSeq
<1>4. F(Len(ss)) = lines
  BY <1>0
<1>5. \A n \in 1..Len(ss) : F(n) = F(n - 1) \o ss[n]
  BY FlattenFirst
<1>6. \A n \in 1..Len(ss) : \E t \in Seq(L) : lines = F(n) \o t
  <2> SUFFICES ASSUME NEW n \in 1..Len(ss) PROVE \E t \in Seq(L) : lines = F(n) \o t
    OBVIOUS
  <2>1. n \in 0..Len(ss) /\ Len(ss) \in n..Len(ss)
    BY <1>0
  <2>2. \E t \in Seq(L) : F(Len(ss)) = F(n) \o t
    BY <2>1, FlattenPrefix
  <2> QED
    BY <1>4, <2>2
<1>7. lines \in Seq(L) /\ Len(lines) \in Nat
  BY FlattenType, LenProperties
<1> HIDE DEF F, lines
<1>8. ASSUME NEW n \in 1..Len(ss)
      PROVE  /\ Len(F(n)) = Len(F(n - 1)) + Len(ss[n])
             /\ InFile(L, lines, ss[n], Len(F(n - 1)))
  <2> DEFINE s == F(n - 1)
             e == ss[n]
  <2>1. s \in Seq(L) /\ e \in Seq(L)
    <3>1. n - 1 \in 0..Len(ss)
      BY <1>0
    <3> QED
      BY <1>1, <1>2, <3>1
  <2>2. PICK t \in Seq(L) : lines = F(n) \o t
    BY <1>6
  <2>3. F(n) = s \o e
    BY <1>5
  <2> HIDE DEF s, e
  <2>4. /\ F(n) \in Seq(L) /\ Len(F(n)) = Len(s) + Len(e)
        /\ \A i \in 1..(Len(s) + Len(e)) :
             F(n)[i] = IF i <= Len(s) THEN s[i] ELSE e[i - Len(s)]
        /\ Len(s) \in Nat /\ Len(e) \in Nat
    BY <2>1, <2>3, ConcatProperties, LenProperties
  <2>5. /\ Len(lines) = Len(F(n)) + Len(t) /\ Len(t) \in Nat
        /\ \A i \in 1..(Len(F(n)) + Len(t)) :
             lines[i] = IF i <= Len(F(n)) THEN F(n)[i] ELSE t[i - Len(F(n))]
    <3> DEFINE u == F(n)
    <3>1. u \in Seq(L) /\ lines = u \o t
      BY <2>2, <2>4
    <3> HIDE DEF u
    <3>2. /\ Len(u \o t) = Len(u) + Len(t) /\ Len(t) \in Nat
          /\ \A i \in 1..(Len(u) + Len(t)) :
               (u \o t)[i] = IF i <= Len(u) THEN u[i] ELSE t[i - Len(u)]
      BY <3>1, ConcatProperties, LenProperties
    <3>3. /\ Len(lines) = Len(u) + Len(t) /\ Len(t) \in Nat
          /\ \A i \in 1..(Len(u) + Len(t)) :
               lines[i] = IF i <= Len(u) THEN u[i] ELSE t[i - Len(u)]
      BY <3>1, <3>2
    <3> QED
      BY <3>3 DEF u
  <2>6. ASSUME NEW i \in 1..Len(e) PROVE lines[Len(s) + i] = e[i]
    <3>1. /\ Len(s) + i \in 1..(Len(F(n)) + Len(t)) /\ Len(s) + i <= Len(F(n))
          /\ Len(s) + i \in 1..(Len(s) + Len(e)) /\ ~(Len(s) + i <= Len(s))
          /\ (Len(s) + i) - Len(s) = i
      BY <2>4, <2>5
    <3>2. lines[Len(s) + i] = F(n)[Len(s) + i]
      BY <2>5, <3>1
    <3>3. F(n)[Len(s) + i] = e[(Len(s) + i) - Len(s)]
      BY <2>4, <3>1
    <3> QED
      BY <3>1, <3>2, <3>3
  <2>7. Len(s) + Len(e) <= Len(lines)
    BY <2>4, <2>5
  <2>8. InFile(L, lines, e, Len(s))
    BY <1>7, <2>1, <2>4, <2>6, <2>7 DEF InFile
  <2> QED
    BY <2>4, <2>8 DEF s, e
<1>9. \A n \in 0..Len(ss) : o[n] = Len(F(n)) /\ o[n] \in Nat
  BY <1>2, LenProperties
<1>10. o[0] = 0
  BY <1>0, <1>3, <1>9, EmptySeq
<1>11. o[Len(ss)] = Len(lines)
  BY <1>0, <1>4, <1>9
<1>12. \A n \in 1..Len(ss) :
         o[n] = o[n - 1] + Len(ss[n]) /\ InFile(L, lines, ss[n], o[n - 1])
  <2>1. \A n \in 1..Len(ss) : n \in 0..Len(ss) /\ n - 1 \in 0..Len(ss)
    BY <1>0
  <2> HIDE DEF o
  <2> QED
    BY <1>8, <1>9, <2>1
<1>13. o \in [0..Len(ss) -> Nat]
  BY <1>9
<1> HIDE DEF o
<1>14. Offsets(L, o, ss, lines)
  BY <1>10, <1>11, <1>12, <1>13 DEF Offsets
<1> QED
  BY <1>14 DEF lines

\* The lines of each file that the scanner returns.
ScannedFiles(files) == [n \in DOMAIN files |-> Scanned(files[n])]

\* The invariant holds when New has read all files.
LEMMA AllLoaded ==
    ASSUME NEW FS \in SUBSET Fields, NEW files \in Seq(Seq(RawLines(FS)))
    PROVE  LET lines == LinesOf(ScannedFiles(files))
               bad == {n \in DOMAIN files : ~MetaFirst(Scanned(files[n]))}
           IN  /\ lines \in Seq(LineSet(FS))
               /\ FilesRead(NoCorpus, files) \in Loaded(FS)
               /\ LoadedUpTo(FilesRead(NoCorpus, files), lines, bad, Len(lines))
<1> DEFINE N == Len(files)
           R == Seq(RawLines(FS))
           L == LineSet(FS)
           ss == [n \in DOMAIN files |-> Scanned(files[n])]
           lines == LinesOf(ScannedFiles(files))
           Bad(n) == {m \in 1..n : ~MetaFirst(Scanned(files[m]))}
<1>0. /\ DOMAIN files = 1..N /\ N \in Nat /\ \A n \in 1..N : files[n] \in R
  <2>1. files \in Seq(R)
    OBVIOUS
  <2> HIDE DEF R
  <2> QED
    BY <2>1, LenProperties, ElementOfSeq
<1>1. \A n \in 1..N : Scanned(files[n]) \in Seq(L)
  BY <1>0, ScannedType
<1>2. ss \in Seq(Seq(L)) /\ Len(ss) = N /\ \A n \in 1..N : ss[n] = Scanned(files[n])
  <2> DEFINE Q == Seq(L)
  <2>1. ss \in [1..N -> Q]
    BY <1>0, <1>1
  <2>2. \A n \in 1..N : ss[n] = Scanned(files[n])
    BY <1>0
  <2> HIDE DEF Q, ss
  <2>3. ss \in Seq(Q)
    <3> HIDE DEF N
    <3>1. \E n \in Nat : ss \in [1..n -> Q]
      BY <1>0, <2>1
    <3>2. ss \in UNION {[1..n -> Q] : n \in Nat}
      BY <3>1
    <3> QED
      BY <3>2, SeqDef
  <2>4. 1..Len(ss) = 1..N /\ Len(ss) \in Nat
    BY <2>1, <2>3, LenProperties
  <2>5. Len(ss) = N
    <3> HIDE DEF N
    <3>1. ASSUME NEW x \in Nat, NEW y \in Nat, 1..x = 1..y PROVE x <= y
      <4>1. CASE x = 0
        BY <4>1
      <4>2. CASE x # 0
        <5>1. x \in 1..x
          BY <4>2
        <5> QED
          BY <3>1, <5>1
      <4> QED
        BY <4>1, <4>2
    <3> QED
      BY <1>0, <2>4, <3>1
  <2> QED
    BY <2>2, <2>3, <2>5 DEF Q
<1>3. lines = FlattenSeq(ss)
  BY DEF LinesOf, ScannedFiles
<1> HIDE DEF ss
<1>4. PICK o : Offsets(L, o, ss, lines)
  <2> HIDE DEF L, lines
  <2> QED
    BY <1>2, <1>3, OffsetsExist
<1>5. lines \in Seq(L)
  <2> HIDE DEF L, lines
  <2> QED
    BY <1>2, <1>3, FlattenType
<1>6. PICK g : ReadsFiles(Loaded(FS), g, NoCorpus, files)
  BY NewSteps
<1>7. /\ g \in [0..N -> Loaded(FS)] /\ g[0] = NoCorpus
      /\ g[N] = FilesRead(NoCorpus, files)
      /\ \A n \in 1..N : g[n] = ReadFile(g[n - 1], files[n])
  BY <1>6 DEF ReadsFiles
<1>8. /\ o \in [0..N -> Nat] /\ o[0] = 0 /\ o[N] = Len(lines)
      /\ \A n \in 1..N : /\ o[n] = o[n - 1] + Len(Scanned(files[n]))
                         /\ InFile(L, lines, Scanned(files[n]), o[n - 1])
  BY <1>2, <1>4 DEF Offsets
<1> DEFINE J(n) == LoadedUpTo(g[n], lines, Bad(n), o[n])
           T == {n \in Nat : n <= N => J(n)}
<1> HIDE DEF lines
<1>9. J(0)
  <2>1. Bad(0) = {}
    OBVIOUS
  <2>2. \A kind : Indices(lines, kind) \in SUBSET (Nat \ {0})
    BY <1>5, IndicesAre
  <2>3. \A k : EventsOf(lines, k) \in SUBSET (Nat \ {0})
    BY <1>5, IndicesAre
  <2>4. \A kind : \A i \in Indices(lines, kind) : ~(i <= 0)
    BY <2>2
  <2>5. NoRumUpTo(lines, 0)
    BY <2>4 DEF NoRumUpTo
  <2>6. UpTo(NoCorpus, lines, 0)
    <3>1. Number(0, Indices(lines, "meta")) = 0
      BY <2>2, NumberNone
    <3>2. Len(NoCorpus.batches) = 0 /\ NoCorpus.minTimestamp = {}
      BY EmptySeq DEF NoCorpus
    <3>3. TimesUpTo(lines, 0) = {}
      BY <2>4 DEF TimesUpTo
    <3>4. LeastOf({}) = {}
      BY DEF LeastOf
    <3> DEFINE c == NoCorpus
    <3>5. Len(c.batches) = 0 /\ c.minTimestamp = {}
      BY <3>2
    <3>6. 1..Len(c.batches) = {}
      BY <3>5
    <3> HIDE DEF c
    <3>7. UpTo(c, lines, 0)
      BY <2>4, <3>1, <3>3, <3>4, <3>5, <3>6 DEF UpTo
    <3> QED
      BY <3>7 DEF c
  <2>7. NoCorpus.status = "ok"
    BY DEF NoCorpus
  <2> QED
    BY <1>7, <1>8, <2>1, <2>5, <2>6, <2>7 DEF LoadedUpTo
<1>10. ASSUME NEW n \in Nat, n \in T PROVE n + 1 \in T
  <2> SUFFICES ASSUME n + 1 <= N PROVE J(n + 1)
    OBVIOUS
  <2> DEFINE q == Scanned(files[n + 1])
  <2>1. n + 1 \in 1..N /\ n \in 0..N /\ (n + 1) - 1 = n
    BY <1>0
  <2>2. /\ g[n] \in Loaded(FS) /\ g[n + 1] = ReadFile(g[n], files[n + 1])
        /\ o[n + 1] = o[n] + Len(q) /\ InFile(L, lines, q, o[n])
    BY <1>7, <1>8, <2>1
  <2>3. J(n)
    BY <1>10, <2>1
  <2>4. Bad(n + 1) = {} <=> Bad(n) = {} /\ MetaFirst(q)
    <3>1. 1..(n + 1) = (1..n) \cup {n + 1}
      OBVIOUS
    <3> QED
      BY <3>1
  <2>5. files[n + 1] \in Seq(RawLines(FS))
    BY <1>0, <2>1
  <2> HIDE DEF Bad
  <2>6. LoadedUpTo(ReadFile(g[n], files[n + 1]), lines, Bad(n + 1), o[n] + Len(q))
    BY <2>2, <2>3, <2>4, <2>5, FileStep
  <2> QED
    BY <2>2, <2>6
<1>11. J(N)
  <2>1. 0 \in T
    BY <1>9
  <2> HIDE DEF J
  <2>2. Nat \subseteq T
    <3> HIDE DEF T
    <3> QED
      BY <1>10, <2>1, Induction
  <2> QED
    BY <1>0, <2>2
<1>12. Bad(N) = {n \in DOMAIN files : ~MetaFirst(Scanned(files[n]))}
  BY <1>0
<1>13. g[N] \in Loaded(FS)
  BY <1>0, <1>7
<1> HIDE DEF Bad
<1> QED
  BY <1>5, <1>7, <1>8, <1>11, <1>12, <1>13 DEF lines

\* What New returns is the recording of the lines that the scanner returns.
LEMMA NewIsRecording ==
    ASSUME NEW files \in Seq(Seq(InputLines))
    PROVE  IsRecording(New(files), ScannedFiles(files))
<1> DEFINE lines == LinesOf(ScannedFiles(files))
           bad == {n \in DOMAIN files : ~MetaFirst(Scanned(files[n]))}
           h == FilesRead(NoCorpus, files)
           h2 == New(files)
           M == Indices(lines, "meta")
           L == LineSet(Fields)
<1>0. files \in Seq(Seq(RawLines(Fields)))
  <2>1. RawLines(Fields) = InputLines
    BY DEF RawLines, InputLines
  <2> QED
    BY <2>1
<1>1. /\ lines \in Seq(L) /\ h \in Loaded(Fields)
      /\ LoadedUpTo(h, lines, bad, Len(lines))
  BY <1>0, AllLoaded
<1>2. h2 = IF h.status = "ok" /\ h.batches = <<>> THEN [h EXCEPT !.status = "error"] ELSE h
  BY DEF New, FilesRead
<1> HIDE DEF h, h2, lines
<1>3. /\ \A kind : Indices(lines, kind) \in SUBSET (1..Len(lines))
      /\ \A kind : Indices(lines, kind) \in SUBSET Nat
      /\ \A k : EventsOf(lines, k) \in SUBSET Indices(lines, "event")
      /\ Len(lines) \in Nat
  <2> HIDE DEF L
  <2> QED
    BY <1>1, IndicesAre
<1>4. \A kind : \A i \in Indices(lines, kind) : i <= Len(lines)
  BY <1>3
<1>5. Number(Len(lines), M) = Cardinality(M)
  BY <1>3, <1>4, NumberAll
<1>6. \A k : Number(Len(lines), EventsOf(lines, k)) = Cardinality(EventsOf(lines, k))
  BY <1>3, <1>4, NumberAll
<1>7. TimesUpTo(lines, Len(lines)) = TimesOf(lines)
  <2>1. {j \in Indices(lines, "event") : j <= Len(lines)} = Indices(lines, "event")
    BY <1>4
  <2> QED
    BY <2>1 DEF TimesUpTo, TimesOf
<1>8. NoRumUpTo(lines, Len(lines)) <=> Indices(lines, "rum") = {}
  BY <1>4 DEF NoRumUpTo
<1>9. bad = {} <=> \A n \in DOMAIN ScannedFiles(files) : MetaFirst(ScannedFiles(files)[n])
  BY DEF ScannedFiles
<1>10. /\ h.status = "ok" <=> bad = {} /\ Indices(lines, "rum") = {}
       /\ h.status = "ok" => UpTo(h, lines, Len(lines))
  BY <1>1, <1>8 DEF LoadedUpTo
<1>11. h.status = "ok" => (h.batches = <<>> <=> M = {})
  <2> SUFFICES ASSUME h.status = "ok" PROVE h.batches = <<>> <=> M = {}
    OBVIOUS
  <2>1. Len(h.batches) = Cardinality(M)
    BY <1>5, <1>10 DEF UpTo
  <2>2. IsFiniteSet(M)
    <3>1. IsFiniteSet(1..Len(lines))
      BY <1>3, FS_Interval
    <3> QED
      BY <1>3, <3>1, FS_Subset
  <2>3. Cardinality(M) = 0 <=> M = {}
    BY <2>2, FS_EmptySet
  <2>4. h.batches = <<>> <=> Len(h.batches) = 0
    <3>1. h.batches \in Seq(BatchSet(Fields))
      BY <1>1 DEF Loaded, HandlerSet
    <3> QED
      BY <3>1, EmptySeq
  <2> QED
    BY <2>1, <2>3, <2>4
<1>12. h2.status = "ok" <=> h.status = "ok" /\ M # {}
  <2>1. CASE h.status = "ok" /\ h.batches = <<>>
    <3>1. [h EXCEPT !.status = "error"].status = "error"
      BY <1>1 DEF Loaded, HandlerSet
    <3> QED
      BY <1>2, <1>11, <2>1, <3>1
  <2>2. CASE ~(h.status = "ok" /\ h.batches = <<>>)
    BY <1>2, <1>11, <2>2
  <2> QED
    BY <2>1, <2>2
<1>13. h2.status = "ok" =>
         /\ Len(h2.batches) = Cardinality(M)
         /\ \A k \in DOMAIN h2.batches :
              Len(h2.batches[k].events) = Cardinality(EventsOf(lines, k))
         /\ \A i \in M : h2.batches[BatchOf(lines, i)].metadata = lines[i].fields
         /\ \A i \in Indices(lines, "event") :
              h2.batches[BatchOf(lines, i)].events[Place(lines, i)] = Process(lines[i])
         /\ h2.minTimestamp = LeastOf(TimesOf(lines))
  <2> SUFFICES ASSUME h2.status = "ok"
               PROVE  /\ Len(h2.batches) = Cardinality(M)
                      /\ \A k \in DOMAIN h2.batches :
                           Len(h2.batches[k].events) = Cardinality(EventsOf(lines, k))
                      /\ \A i \in M : h2.batches[BatchOf(lines, i)].metadata = lines[i].fields
                      /\ \A i \in Indices(lines, "event") :
                           h2.batches[BatchOf(lines, i)].events[Place(lines, i)]
                             = Process(lines[i])
                      /\ h2.minTimestamp = LeastOf(TimesOf(lines))
    OBVIOUS
  <2>1. h2 = h /\ h.status = "ok"
    BY <1>2, <1>10, <1>11
  <2>2. UpTo(h2, lines, Len(lines))
    BY <1>10, <2>1
  <2>3. DOMAIN h2.batches = 1..Len(h2.batches)
    <3>1. h2.batches \in Seq(BatchSet(Fields))
      BY <1>1, <2>1 DEF Loaded, HandlerSet
    <3> QED
      BY <3>1, LenProperties
  <2> QED
    BY <1>4, <1>5, <1>6, <1>7, <2>2, <2>3 DEF UpTo
<1>14. IsRecording(h2, ScannedFiles(files))
  BY <1>9, <1>10, <1>12, <1>13 DEF IsRecording, Place, LeastOf, lines
<1> QED
  BY <1>14 DEF h2

\* Where every line fits, the scanner returns all lines of all files.
LEMMA AllScanned ==
    ASSUME NEW files \in Seq(Seq(InputLines)), Fits(files)
    PROVE  ScannedFiles(files) = files
<1>1. files = [n \in DOMAIN files |-> files[n]]
  BY LenProperties
<1>2. \A n \in DOMAIN files : Scanned(files[n]) = files[n]
  BY DEF Fits, Scanned
<1> QED
  BY <1>1, <1>2 DEF ScannedFiles

\* The type of what is replayed: Spec => []Types.
Types ==
    /\ input \in Inputs
    /\ loaded \in BOOLEAN
    /\ handler = IF loaded THEN New(input.files) ELSE NoCorpus

\* Load is the only step that changes the handler.
LEMMA TypesInvariant == ReplaySpec => []Types
<1>1. ReplayInit => Types
  BY DEF ReplayInit, Types
<1>2. Types /\ [ReplayNext]_replayVars => Types'
  <2> SUFFICES ASSUME Types, [ReplayNext]_replayVars PROVE Types'
    OBVIOUS
  <2>1. CASE Load
    BY <2>1 DEF Load, Types
  <2>2. CASE BeginPass
    BY <2>2 DEF BeginPass, Types
  <2>3. CASE WriteBatch
    BY <2>3 DEF WriteBatch, Types
  <2>4. CASE UNCHANGED replayVars
    BY <2>4 DEF replayVars, Types
  <2> QED
    BY <2>1, <2>2, <2>3, <2>4 DEF ReplayNext
<1> QED
  BY <1>1, <1>2, PTL DEF ReplaySpec

\* New (handler.go) returns the recording, or an error exactly if there is
\* none: for all files of any lines that fit into the buffer of the scanner, and
\* not only for those of a run.  Files with a longer line are cut there without
\* an error.
THEOREM LoadsTheRecording == ReplaySpec => []LoadsRecording
<1>1. Types => LoadsRecording
  <2> SUFFICES ASSUME Types, loaded, Fits(input.files)
               PROVE  IsRecording(handler, input.files)
    BY DEF LoadsRecording
  <2>1. input.files \in Seq(Seq(InputLines))
    BY InputAssumption DEF Types
  <2>2. IsRecording(New(input.files), ScannedFiles(input.files))
    BY <2>1, NewIsRecording
  <2>3. ScannedFiles(input.files) = input.files
    BY <2>1, AllScanned
  <2> QED
    BY <2>2, <2>3 DEF Types
<1> QED
  BY <1>1, TypesInvariant, PTL

(***************************************************************************)
(* Writing: the randomizations                                             *)
(***************************************************************************)
\* A function on the first positions is a sequence.
LEMMA FunctionIsSeq ==
    ASSUME NEW n \in Nat, NEW s, s = [i \in 1..n |-> s[i]]
    PROVE  s \in Seq({s[i] : i \in 1..n}) /\ Len(s) = n
<1> DEFINE T == {s[i] : i \in 1..n}
<1>1. s \in [1..n -> T]
  OBVIOUS
<1> HIDE DEF T
<1>2. s \in Seq(T)
  <2>1. s \in UNION {[1..m -> T] : m \in Nat}
    BY <1>1
  <2> QED
    BY <2>1, SeqDef
<1>3. Len(s) = n
  BY <1>1, <1>2
<1> QED
  BY <1>2, <1>3 DEF T

\* There is a bit for each character.
LEMMA BitType ==
    ASSUME NEW bits \in Seq({0, 1}) \ {<<>>}, NEW i \in Nat
    PROVE  Bit(bits, i) \in {0, 1}
<1> DEFINE n == Len(bits)
           j == (i - 1) % n
<1>1. n \in Nat \ {0} /\ bits \in Seq({0, 1})
  BY EmptySeq
<1>2. i - 1 \in Int
  OBVIOUS
<1> HIDE DEF n
<1>3. j \in 0..(n - 1)
  BY <1>1, <1>2
<1>4. j + 1 \in 1..n
  BY <1>1, <1>3
<1> HIDE DEF j
<1>5. bits[j + 1] \in {0, 1}
  BY <1>1, <1>4, ElementOfSeq DEF n
<1> QED
  BY <1>5 DEF Bit, j, n

\* The classes of characters have no character in common.
LEMMA ClassesAre ==
    /\ \A char : ClassOf(char) =
         IF char \in {"0", "1"} THEN {<<"0", "1">>}
         ELSE IF char \in {"A", "B"} THEN {<<"A", "B">>}
         ELSE IF char \in {"a", "b"} THEN {<<"a", "b">>} ELSE {}
    /\ \A class \in Classes : ClassOf(class[1]) = {class} /\ ClassOf(class[2]) = {class}
<1>1. \A x, y : ToSet(<<x, y>>) = {x, y}
  <2> TAKE x, y
  <2>1. DOMAIN <<x, y>> = {1, 2} /\ <<x, y>>[1] = x /\ <<x, y>>[2] = y
    OBVIOUS
  <2> QED
    BY <2>1 DEF ToSet
<1>2. /\ ToSet(<<"0", "1">>) = {"0", "1"} /\ ToSet(<<"A", "B">>) = {"A", "B"}
      /\ ToSet(<<"a", "b">>) = {"a", "b"}
  BY <1>1
<1>3. \A char : ClassOf(char) =
         IF char \in {"0", "1"} THEN {<<"0", "1">>}
         ELSE IF char \in {"A", "B"} THEN {<<"A", "B">>}
         ELSE IF char \in {"a", "b"} THEN {<<"a", "b">>} ELSE {}
  <2> TAKE char
  <2>1. CASE char \in {"0", "1"}
    BY <1>2, <2>1 DEF ClassOf, Classes
  <2>2. CASE char \in {"A", "B"}
    BY <1>2, <2>2 DEF ClassOf, Classes
  <2>3. CASE char \in {"a", "b"}
    BY <1>2, <2>3 DEF ClassOf, Classes
  <2>4. CASE char \notin {"0", "1", "A", "B", "a", "b"}
    BY <1>2, <2>4 DEF ClassOf, Classes
  <2> QED
    BY <2>1, <2>2, <2>3, <2>4
<1>4. ASSUME NEW class \in Classes
      PROVE  ClassOf(class[1]) = {class} /\ ClassOf(class[2]) = {class}
  BY <1>3 DEF Classes
<1> QED
  BY <1>3, <1>4

\* The characters of texts, as they were read and as they are written.
Chars == STRING \cup {"0", "1", "A", "B", "a", "b"}

\* The characters of a value.
LEMMA StrType == ASSUME NEW v \in Values PROVE Str(v) \in Seq(STRING) /\ Str(v) \in Seq(Chars)
<1>1. Str(v) \in Seq(STRING)
  <2>1. CASE v.json = "string"
    BY <2>1 DEF Values, Str
  <2>2. CASE v.json # "string"
    BY <2>2, EmptySeq DEF Str
  <2> QED
    BY <2>1, <2>2
<1>2. STRING \subseteq Chars
  BY DEF Chars
<1> QED
  BY <1>1, <1>2, SeqMonotonic

\* What randomizing makes of the characters of a text and the digits of an ID.
TextFrom(text, bits, o) ==
    /\ DOMAIN o = DOMAIN text
    /\ \A n \in DOMAIN o :
         LET place == Cardinality({i \in 1..n : text[i] # "-"})
         IN  o[n] \in IF ClassOf(text[n]) = {} THEN {text[n]}
                      ELSE {class[Bit(bits, place) + 1] : class \in ClassOf(text[n])}

IDFrom(id, bits, o) ==
    /\ DOMAIN o = DOMAIN id
    /\ \A n \in DOMAIN o : o[n] \in {"0", "1"} /\ (o[n] = id[n] <=> Bit(bits, n) = 0)

\* RandomizeASCII keeps the length of a text and the classes of its characters.
LEMMA TextRandomized ==
    ASSUME NEW text \in Seq(Chars), NEW bits \in Seq({0, 1}) \ {<<>>}
    PROVE  /\ TextFrom(text, bits, RandomizeASCII(text, bits))
           /\ RandomizeASCII(text, bits) \in Seq(Chars)
<1> DEFINE o == RandomizeASCII(text, bits)
           Used(i) == Cardinality({j \in 1..i : text[j] # "-"})
           n == Len(text)
<1>1. DOMAIN text = 1..n /\ n \in Nat /\ \A i \in 1..n : text[i] \in Chars
  BY LenProperties, ElementOfSeq
<1>2. o = [i \in 1..n |->
             IF ClassOf(text[i]) = {} THEN text[i]
             ELSE (CHOOSE class \in ClassOf(text[i]) : TRUE)[Bit(bits, Used(i)) + 1]]
  BY <1>1 DEF RandomizeASCII
<1>3. ASSUME NEW i \in 1..n PROVE Used(i) \in Nat
  <2> DEFINE U == {j \in 1..i : text[j] # "-"}
  <2>1. U \in SUBSET (1..i) /\ IsFiniteSet(1..i)
    BY FS_Interval
  <2> HIDE DEF U
  <2>2. Cardinality(U) \in Nat
    BY <2>1, FS_Subset, FS_CardinalityType
  <2> QED
    BY <2>2 DEF U
<1> HIDE DEF Used, o
<1>4. ASSUME NEW i \in 1..n
      PROVE  /\ o[i] \in IF ClassOf(text[i]) = {} THEN {text[i]}
                         ELSE {class[Bit(bits, Used(i)) + 1] : class \in ClassOf(text[i])}
             /\ o[i] \in Chars
  <2> DEFINE C == ClassOf(text[i])
             class == CHOOSE class \in C : TRUE
             b == Bit(bits, Used(i))
  <2>1. CASE C = {}
    <3>1. o[i] = text[i]
      BY <1>2, <2>1
    <3> QED
      BY <1>1, <2>1, <3>1
  <2>2. CASE C # {}
    <3>1. class \in C
      BY <2>2
    <3>2. o[i] = class[b + 1]
      BY <1>2, <2>2
    <3>3. b \in {0, 1}
      BY <1>3, BitType
    <3>4. C = {class} /\ class \in Classes
      <4>1. C \subseteq Classes
        BY DEF ClassOf
      <4>2. \E x : C = {x}
        BY <2>2, ClassesAre
      <4> HIDE DEF C, class
      <4> QED
        BY <3>1, <4>1, <4>2
    <3>5. o[i] \in {x[Bit(bits, Used(i)) + 1] : x \in ClassOf(text[i])}
      <4>1. \A D, y, m : y \in D => y[m] \in {x[m] : x \in D}
        OBVIOUS
      <4>2. class[b + 1] \in {x[b + 1] : x \in C}
        <5> HIDE DEF class, C, b
        <5> QED
          BY <3>1, <4>1
      <4> QED
        BY <3>2, <4>2
    <3> HIDE DEF class, b
    <3>6. class[1] \in Chars /\ class[2] \in Chars
      BY <3>4 DEF Classes, Chars
    <3>7. class[b + 1] = class[1] \/ class[b + 1] = class[2]
      <4>1. CASE b = 0
        BY <4>1
      <4>2. CASE b = 1
        BY <4>2
      <4> QED
        BY <3>3, <4>1, <4>2
    <3> QED
      BY <2>2, <3>2, <3>5, <3>6, <3>7
  <2> QED
    BY <2>1, <2>2
<1>5. o = [i \in 1..n |-> o[i]]
  BY <1>2
<1>6. DOMAIN o = 1..n
  BY <1>5
<1>7. o \in Seq(Chars)
  <2>1. o \in [1..n -> Chars]
    BY <1>4, <1>5
  <2>2. o \in UNION {[1..m -> Chars] : m \in Nat}
    BY <1>1, <2>1
  <2> QED
    BY <2>2, SeqDef
<1>8. TextFrom(text, bits, o)
  BY <1>1, <1>4, <1>6 DEF TextFrom, Used
<1> QED
  BY <1>7, <1>8 DEF o

\* RandomizeTraceID writes a digit for each digit; two IDs that differ stay
\* different.
LEMMA IDRandomized ==
    ASSUME NEW id \in Seq(STRING), IsHex(id), NEW bits
    PROVE  /\ IDFrom(id, bits, RandomizeTraceID(id, bits))
           /\ \E T : RandomizeTraceID(id, bits) \in Seq(T)
           /\ \A other \in Seq(STRING) :
                IsHex(other) /\ RandomizeTraceID(other, bits) = RandomizeTraceID(id, bits)
                  => other = id
<1> DEFINE R(s) == RandomizeTraceID(s, bits)
<1>1. ASSUME NEW s \in Seq(STRING), IsHex(s)
      PROVE  /\ DOMAIN s = 1..Len(s) /\ Len(s) \in Nat
             /\ R(s) = [i \in 1..Len(s) |-> R(s)[i]]
             /\ \A i \in 1..Len(s) :
                  /\ s[i] \in {"0", "1"}
                  /\ R(s)[i] = IF Bit(bits, i) = 0 THEN s[i]
                               ELSE IF s[i] = "0" THEN "1" ELSE "0"
  <2>1. DOMAIN s = 1..Len(s) /\ Len(s) \in Nat
    BY LenProperties
  <2>2. \A i \in 1..Len(s) : s[i] \in {"0", "1"}
    BY <1>1, <2>1 DEF IsHex, ToSet
  <2>3. R(s) = [i \in 1..Len(s) |-> IF Bit(bits, i) = 0 THEN s[i]
                                    ELSE IF s[i] = "0" THEN "1" ELSE "0"]
    BY <2>1 DEF RandomizeTraceID
  <2> HIDE DEF R
  <2> QED
    BY <2>1, <2>2, <2>3
<1> HIDE DEF R
<1>2. IDFrom(id, bits, R(id))
  <2>1. \A i \in 1..Len(id) : /\ R(id)[i] \in {"0", "1"}
                              /\ R(id)[i] = id[i] <=> Bit(bits, i) = 0
    BY <1>1
  <2>2. DOMAIN id = 1..Len(id) /\ DOMAIN R(id) = 1..Len(id)
    BY <1>1
  <2> QED
    BY <2>1, <2>2 DEF IDFrom
<1>3. \E T : R(id) \in Seq(T)
  <2> DEFINE o == R(id)
  <2>1. Len(id) \in Nat /\ o = [i \in 1..Len(id) |-> o[i]]
    BY <1>1
  <2> HIDE DEF o
  <2>2. o \in Seq({o[i] : i \in 1..Len(id)})
    BY <2>1, FunctionIsSeq
  <2>3. \E T : o \in Seq(T)
    BY <2>2
  <2> QED
    BY <2>3 DEF o
<1>4. ASSUME NEW other \in Seq(STRING), IsHex(other), R(other) = R(id)
      PROVE  other = id
  <2>1. Len(other) = Len(id)
    <3>1. R(other) = [i \in 1..Len(other) |-> R(other)[i]] /\ Len(other) \in Nat
      BY <1>1, <1>4
    <3>2. R(id) = [i \in 1..Len(id) |-> R(id)[i]] /\ Len(id) \in Nat
      BY <1>1
    <3>3. Len(R(other)) = Len(other) /\ Len(R(id)) = Len(id)
      BY <3>1, <3>2, FunctionIsSeq
    <3> QED
      BY <1>4, <3>3
  <2>2. ASSUME NEW i \in 1..Len(id) PROVE other[i] = id[i]
    <3>1. /\ other[i] \in {"0", "1"}
          /\ R(other)[i] = IF Bit(bits, i) = 0 THEN other[i]
                           ELSE IF other[i] = "0" THEN "1" ELSE "0"
      BY <1>1, <1>4, <2>1
    <3>2. /\ id[i] \in {"0", "1"}
          /\ R(id)[i] = IF Bit(bits, i) = 0 THEN id[i]
                        ELSE IF id[i] = "0" THEN "1" ELSE "0"
      BY <1>1
    <3> QED
      BY <1>4, <3>1, <3>2
  <2> QED
    BY <1>4, <2>1, <2>2, SeqEqual
<1> QED
  BY <1>2, <1>3, <1>4 DEF R

(***************************************************************************)
(* Writing: one member of an event                                         *)
(***************************************************************************)
FieldSet == [path : Seq(STRING) \ {<<>>}, value : Values]

\* A writer between two members: its second buffer is empty.
Writers(A, B) == [rewriteBuf : A, idBuf : {<<>>}, written : B]

\* The members whose texts the configuration c asks to be rewritten.
TextAsked(c, type, path) ==
    \/ path = <<"name">> /\ RewritesName(c, type)
    \/ path = <<"type">> /\ c.transactionTypes /\ type = "transaction"
    \/ path = TargetName /\ c.targetNames

TimeAsked(c, e, path) == path = <<"timestamp">> /\ c.timestamps /\ e.timestamp # {}
IDAsked(c, f) == f.path \in IDPaths /\ c.ids /\ IsHex(Str(f.value))

NewValue(c, e, min, start, bits, f) ==
    IF TimeAsked(c, e, f.path) THEN Shifted(c, Min(e.timestamp), Min(min), start)
    ELSE IF IDAsked(c, f) THEN Value("string", RandomizeTraceID(Str(f.value), bits))
    ELSE IF TextAsked(c, e.objectType, f.path)
         THEN Value("string", RandomizeASCII(Str(f.value), bits))
    ELSE f.value

\* A value that is no object on the way to the name of the target.
NoObject(c, f) ==
    c.targetNames /\ IsStrictPrefix(f.path, TargetName) /\ f.value.json # "object"

\* The member f of the event e as it is written.
Rewritten(c, e, min, start, bits, f) ==
    Member(IF NoObject(c, f) THEN Append(f.path, "") ELSE f.path,
           NewValue(c, e, min, start, bits, f))

\* A text that goes through the second buffer comes out as it went in, and
\* leaves nothing behind.
LEMMA ThroughBuffer ==
    ASSUME NEW A, NEW B, NEW w \in Writers(A, B), NEW T, NEW text \in Seq(T),
           NEW path, NEW v
    PROVE  /\ PutID(Fill(w, text), path) = Put(w, path, Value("string", text))
           /\ ResetID(Put(Fill(w, text), path, v)) = Put(w, path, v)
<1>1. w.idBuf = <<>> /\ w = [rewriteBuf |-> w.rewriteBuf, idBuf |-> <<>>,
                             written |-> w.written]
  BY DEF Writers
<1>2. w.idBuf \o text = text
  BY <1>1, ConcatEmptySeq
<1> DEFINE m == Member(path, Value("string", text))
           b == Append(w.rewriteBuf, m)
           b2 == Append(w.rewriteBuf, Member(path, v))
<1>3. Fill(w, text) = [rewriteBuf |-> w.rewriteBuf, idBuf |-> text, written |-> w.written]
  BY <1>1, <1>2 DEF Fill
<1>4. /\ PutID(Fill(w, text), path)
           = [rewriteBuf |-> b, idBuf |-> <<>>, written |-> w.written]
      /\ ResetID(Put(Fill(w, text), path, v))
           = [rewriteBuf |-> b2, idBuf |-> <<>>, written |-> w.written]
  <2> HIDE DEF b, b2
  <2>1. /\ Put(Fill(w, text), path, Value("string", text))
             = [rewriteBuf |-> b, idBuf |-> text, written |-> w.written]
        /\ Put(Fill(w, text), path, v)
             = [rewriteBuf |-> b2, idBuf |-> text, written |-> w.written]
    <3> DEFINE u == Fill(w, text)
    <3>1. /\ u.rewriteBuf = w.rewriteBuf
          /\ \A x : [u EXCEPT !.rewriteBuf = x]
                     = [rewriteBuf |-> x, idBuf |-> text, written |-> w.written]
      BY <1>3
    <3> HIDE DEF u
    <3>2. /\ Put(u, path, Value("string", text)) = [u EXCEPT !.rewriteBuf = b]
          /\ Put(u, path, v) = [u EXCEPT !.rewriteBuf = b2]
      BY <3>1 DEF Put, b, b2
    <3> QED
      BY <3>1, <3>2 DEF u
  <2>2. Fill(w, text).idBuf = text
    BY <1>3
  <2> QED
    BY <2>1, <2>2 DEF PutID, ResetID
<1>5. /\ Put(w, path, Value("string", text))
           = [rewriteBuf |-> b, idBuf |-> <<>>, written |-> w.written]
      /\ Put(w, path, v) = [rewriteBuf |-> b2, idBuf |-> <<>>, written |-> w.written]
  <2>1. \A x : [w EXCEPT !.rewriteBuf = x]
                 = [rewriteBuf |-> x, idBuf |-> <<>>, written |-> w.written]
    BY <1>1
  <2> QED
    BY <2>1 DEF Put
<1> QED
  BY <1>4, <1>5

\* The paths that writeAPMEvents tells apart.
LEMMA PathsDiffer ==
    ASSUME NEW path \in Seq(STRING) \ {<<>>}
    PROVE  /\ path = <<"timestamp">> => path \notin IDPaths
           /\ path \in IDPaths \cup {<<"timestamp">>} => path # <<"name">> /\ path # <<"type">>
           /\ path = <<"name">> => path # <<"type">>
           /\ path \in IDPaths \cup {<<"timestamp">>, <<"name">>, <<"type">>} =>
                path[1] # "context" /\ path # TargetName
           /\ IsStrictPrefix(path, TargetName) => path[1] = "context" /\ path # TargetName
           /\ TargetName[1] = "context"
<1> DEFINE T == {"context", "service", "target", "name"}
<1>1. /\ path = <<"timestamp">> => path \notin IDPaths
      /\ path \in IDPaths \cup {<<"timestamp">>} => path # <<"name">> /\ path # <<"type">>
      /\ path = <<"name">> => path # <<"type">>
  BY DEF IDPaths
<1>2. TargetName[1] = "context" /\ TargetName \in Seq(T) /\ Len(TargetName) = 4
  <2>1. TargetName[1] = "context" /\ Len(TargetName) = 4
    BY DEF TargetName
  <2>2. TargetName \in Seq(T)
    <3>1. /\ TargetName[1] \in T /\ TargetName[2] \in T
          /\ TargetName[3] \in T /\ TargetName[4] \in T
      BY DEF TargetName
    <3>2. TargetName = [i \in 1..4 |-> TargetName[i]]
      BY DEF TargetName
    <3> HIDE DEF T
    <3>3. TargetName \in [1..4 -> T]
      BY <3>1, <3>2
    <3>4. TargetName \in UNION {[1..n -> T] : n \in Nat}
      BY <3>3
    <3> QED
      BY <3>4, SeqDef
  <2> QED
    BY <2>1, <2>2
<1>3. path \in IDPaths \cup {<<"timestamp">>, <<"name">>, <<"type">>} => path[1] # "context"
  BY DEF IDPaths
<1>4. IsStrictPrefix(path, TargetName) => path[1] = "context" /\ path # TargetName
  <2> SUFFICES ASSUME IsStrictPrefix(path, TargetName)
               PROVE  path[1] = "context" /\ path # TargetName
    OBVIOUS
  <2> DEFINE n == Len(path)
  <2>1. /\ n <= Len(TargetName) /\ SubSeq(path, 1, n) = SubSeq(TargetName, 1, n)
        /\ path # TargetName
    BY DEF IsStrictPrefix, IsPrefix
  <2>2. n \in Nat \ {0} /\ path \in Seq(STRING)
    BY EmptySeq
  <2>3. SubSeq(path, 1, n) = path
    BY <2>2, SubSeqFull
  <2> HIDE DEF T
  <2>4. \A i \in 1..n : TargetName[i] \in T
    <3>1. \A i \in 1..Len(TargetName) : TargetName[i] \in T
      BY <1>2, ElementOfSeq
    <3> QED
      BY <1>2, <2>1, <2>2, <3>1
  <2> HIDE DEF n
  <2>6. SubSeq(TargetName, 1, n)[1] = TargetName[1]
    <3> DEFINE s == SubSeq(TargetName, 1, n)
    <3>1. \A i \in 1..(n - 1 + 1) : s[i] = TargetName[1 + i - 1]
      BY <2>2, <2>4, SubSeqProperties
    <3> HIDE DEF s
    <3>2. 1 \in 1..(n - 1 + 1) /\ 1 + 1 - 1 = 1
      BY <2>2
    <3>3. s[1] = TargetName[1 + 1 - 1]
      BY <3>1, <3>2
    <3> QED
      BY <3>2, <3>3 DEF s
  <2> QED
    BY <1>2, <2>1, <2>3, <2>6
<1> QED
  BY <1>1, <1>2, <1>3, <1>4

\* WriteMember appends the member as it is to be written, and nothing else.
LEMMA MemberStep ==
    ASSUME NEW A, NEW B, NEW w \in Writers(A, B), NEW f \in FieldSet,
           NEW bits \in Seq({0, 1}) \ {<<>>},
           NEW c, NEW e, NEW min, NEW start
    PROVE  WriteMember(c, e, min, start, bits, w, f)
             = [w EXCEPT !.rewriteBuf = Append(@, Rewritten(c, e, min, start, bits, f))]
<1> DEFINE text == RandomizeASCII(Str(f.value), bits)
           id == RandomizeTraceID(Str(f.value), bits)
           new == NewValue(c, e, min, start, bits, f)
<1>1. /\ f.path \in Seq(STRING) \ {<<>>} /\ f.value \in Values
      /\ Str(f.value) \in Seq(STRING) /\ Str(f.value) \in Seq(Chars)
  BY StrType DEF FieldSet
<1>2. /\ f.path = <<"timestamp">> => f.path \notin IDPaths
      /\ f.path \in IDPaths \cup {<<"timestamp">>} =>
           f.path # <<"name">> /\ f.path # <<"type">>
      /\ f.path = <<"name">> => f.path # <<"type">>
      /\ f.path \in IDPaths \cup {<<"timestamp">>, <<"name">>, <<"type">>} =>
           f.path[1] # "context" /\ f.path # TargetName
      /\ IsStrictPrefix(f.path, TargetName) => f.path[1] = "context" /\ f.path # TargetName
      /\ TargetName[1] = "context"
  BY <1>1, PathsDiffer
<1>3. SUFFICES WriteMember(c, e, min, start, bits, w, f)
                 = Put(w, IF NoObject(c, f) THEN Append(f.path, "") ELSE f.path, new)
  BY DEF Put, Rewritten
<1>4. /\ \A path : PutID(Fill(w, text), path) = Put(w, path, Value("string", text))
      /\ \A path, v : ResetID(Put(Fill(w, text), path, v)) = Put(w, path, v)
  <2>1. text \in Seq(Chars)
    BY <1>1, TextRandomized
  <2> HIDE DEF text
  <2> QED
    BY <2>1, ThroughBuffer
<1>5. IsHex(Str(f.value)) =>
        \A path : PutID(Fill(w, id), path) = Put(w, path, Value("string", id))
  <2>1. IsHex(Str(f.value)) => \E T : id \in Seq(T)
    BY <1>1, IDRandomized
  <2> HIDE DEF id
  <2> QED
    BY <2>1, ThroughBuffer
<1> HIDE DEF text, id, new
<1>6. CASE f.path = <<"timestamp">>
  <2>1. WriteMember(c, e, min, start, bits, w, f) = WriteTimestamp(c, e, min, start, w, f)
    BY <1>2, <1>6 DEF WriteMember
  <2>2. ~NoObject(c, f) /\ ~IDAsked(c, f) /\ ~TextAsked(c, e.objectType, f.path)
    BY <1>2, <1>6 DEF NoObject, IDAsked, TextAsked
  <2>3. new = IF c.timestamps /\ e.timestamp # {}
              THEN Shifted(c, Min(e.timestamp), Min(min), start) ELSE f.value
    BY <1>6, <2>2 DEF new, NewValue, TimeAsked
  <2> QED
    BY <2>1, <2>2, <2>3 DEF WriteTimestamp
<1>7. CASE f.path \in IDPaths
  <2>1. WriteMember(c, e, min, start, bits, w, f) = WriteID(c, bits, w, f)
    BY <1>2, <1>7 DEF WriteMember
  <2>2. /\ ~NoObject(c, f) /\ ~TimeAsked(c, e, f.path)
        /\ ~TextAsked(c, e.objectType, f.path)
    BY <1>2, <1>7 DEF NoObject, TimeAsked, TextAsked
  <2>3. new = IF c.ids /\ IsHex(Str(f.value)) THEN Value("string", id) ELSE f.value
    BY <1>7, <2>2 DEF new, id, NewValue, IDAsked
  <2> QED
    BY <1>5, <2>1, <2>2, <2>3 DEF WriteID, id
<1>8. CASE f.path = <<"name">>
  <2>1. WriteMember(c, e, min, start, bits, w, f) = WriteName(c, e, bits, w, f)
    BY <1>2, <1>8 DEF WriteMember
  <2>2. ~NoObject(c, f) /\ ~TimeAsked(c, e, f.path) /\ ~IDAsked(c, f)
    BY <1>2, <1>8 DEF NoObject, TimeAsked, IDAsked
  <2>3. TextAsked(c, e.objectType, f.path) <=> RewritesName(c, e.objectType)
    BY <1>2, <1>8 DEF TextAsked
  <2>4. new = IF RewritesName(c, e.objectType) THEN Value("string", text) ELSE f.value
    BY <2>2, <2>3 DEF new, text, NewValue
  <2>5. WriteName(c, e, bits, w, f)
          = IF RewritesName(c, e.objectType) THEN PutID(Fill(w, text), f.path)
            ELSE ResetID(Put(Fill(w, text), f.path, f.value))
    BY DEF WriteName, text
  <2> QED
    BY <1>4, <2>1, <2>2, <2>4, <2>5
<1>9. CASE f.path = <<"type">>
  <2> DEFINE asked == c.transactionTypes /\ e.objectType = "transaction"
  <2>1. WriteMember(c, e, min, start, bits, w, f) = WriteType(c, e, bits, w, f)
    BY <1>2, <1>9 DEF WriteMember
  <2>2. ~NoObject(c, f) /\ ~TimeAsked(c, e, f.path) /\ ~IDAsked(c, f)
    BY <1>2, <1>9 DEF NoObject, TimeAsked, IDAsked
  <2>3. TextAsked(c, e.objectType, f.path) <=> asked
    BY <1>2, <1>9 DEF TextAsked
  <2>4. new = IF asked THEN Value("string", text) ELSE f.value
    BY <2>2, <2>3 DEF new, text, NewValue
  <2>5. WriteType(c, e, bits, w, f)
          = IF asked THEN PutID(Fill(w, text), f.path) ELSE Put(w, f.path, f.value)
    BY DEF WriteType, text
  <2> HIDE DEF asked
  <2> QED
    BY <1>4, <2>1, <2>2, <2>4, <2>5
<1>10. CASE f.path[1] = "context"
  <2>1. /\ f.path # <<"timestamp">> /\ f.path \notin IDPaths
        /\ f.path # <<"name">> /\ f.path # <<"type">>
    BY <1>2, <1>10
  <2>2. WriteMember(c, e, min, start, bits, w, f) = WriteContext(c, bits, w, f)
    BY <1>10, <2>1 DEF WriteMember
  <2>3. ~TimeAsked(c, e, f.path) /\ ~IDAsked(c, f)
    BY <2>1 DEF TimeAsked, IDAsked
  <2>4. TextAsked(c, e.objectType, f.path) <=> f.path = TargetName /\ c.targetNames
    BY <2>1 DEF TextAsked
  <2>5. CASE c.targetNames /\ f.path = TargetName
    <3>1. WriteContext(c, bits, w, f) = PutID(Fill(w, text), f.path)
      <4>1. ~IsStrictPrefix(f.path, TargetName)
        BY <2>5 DEF IsStrictPrefix
      <4> QED
        BY <2>5, <4>1 DEF WriteContext, text
    <3>2. new = Value("string", text) /\ ~NoObject(c, f)
      BY <1>2, <2>3, <2>4, <2>5 DEF new, text, NewValue, NoObject
    <3> QED
      BY <1>4, <2>2, <3>1, <3>2
  <2>6. CASE NoObject(c, f)
    <3>1. WriteContext(c, bits, w, f) = Put(w, Append(f.path, ""), f.value)
      BY <1>2, <2>6 DEF WriteContext, NoObject
    <3>2. new = f.value
      BY <1>2, <2>3, <2>4, <2>6 DEF new, NewValue, NoObject
    <3> QED
      BY <2>2, <2>6, <3>1, <3>2
  <2>7. CASE ~NoObject(c, f) /\ ~(c.targetNames /\ f.path = TargetName)
    <3>1. WriteContext(c, bits, w, f) = Put(w, f.path, f.value)
      BY <2>7 DEF WriteContext, NoObject
    <3>2. new = f.value
      BY <2>3, <2>4, <2>7 DEF new, NewValue
    <3> QED
      BY <2>2, <2>7, <3>1, <3>2
  <2> QED
    BY <2>5, <2>6, <2>7
<1>11. CASE /\ f.path # <<"timestamp">> /\ f.path \notin IDPaths
            /\ f.path # <<"name">> /\ f.path # <<"type">> /\ f.path[1] # "context"
  <2>1. WriteMember(c, e, min, start, bits, w, f) = Put(w, f.path, f.value)
    BY <1>11 DEF WriteMember
  <2>2. ~NoObject(c, f) /\ f.path # TargetName
    BY <1>2, <1>11 DEF NoObject
  <2>3. new = f.value
    BY <1>11, <2>2 DEF new, NewValue, TimeAsked, IDAsked, TextAsked
  <2> QED
    BY <2>1, <2>2, <2>3
<1> QED
  BY <1>6, <1>7, <1>8, <1>9, <1>10, <1>11

(***************************************************************************)
(* Writing: the members of an event, and the events of a batch             *)
(***************************************************************************)
\* An event as it is written: its members in their order.
Line(c, min, start, bits, e) ==
    [j \in 1..Len(e.payload) |-> Rewritten(c, e, min, start, bits, e.payload[j])]

\* Writing the members of an event fills the first buffer with its line.
LEMMA MembersAre ==
    ASSUME NEW B, NEW w \in Writers({<<>>}, B), NEW e, e.payload \in Seq(FieldSet),
           NEW bits \in Seq({0, 1}) \ {<<>>}, NEW c, NEW min, NEW start
    PROVE  MembersWritten(c, e, min, start, bits, w, e.payload)
             = [rewriteBuf |-> Line(c, min, start, bits, e), idBuf |-> <<>>,
                written |-> w.written]
<1> DEFINE q == e.payload
           R(f) == Rewritten(c, e, min, start, bits, f)
           M == {R(f) : f \in FieldSet}
           X == Writers(Seq(M), {w.written})
           O(x, f) == WriteMember(c, e, min, start, bits, x, f)
<1>1. /\ DOMAIN q = 1..Len(q) /\ Len(q) \in Nat
      /\ \A i \in 1..Len(q) : q[i] \in FieldSet
  <2>1. q \in Seq(FieldSet)
    OBVIOUS
  <2> HIDE DEF q
  <2> QED
    BY <2>1, LenProperties, ElementOfSeq
<1>2. ASSUME NEW x \in X, NEW f \in FieldSet
      PROVE  /\ O(x, f) \in X
             /\ Len(x.rewriteBuf) \in Nat
             /\ Len(O(x, f).rewriteBuf) = Len(x.rewriteBuf) + 1
             /\ \A j \in 1..Len(x.rewriteBuf) : O(x, f).rewriteBuf[j] = x.rewriteBuf[j]
             /\ O(x, f).rewriteBuf[Len(x.rewriteBuf) + 1] = R(f)
  <2> DEFINE b == Append(x.rewriteBuf, R(f))
  <2>1. O(x, f) = [x EXCEPT !.rewriteBuf = b]
    BY MemberStep
  <2>2. x.rewriteBuf \in Seq(M) /\ R(f) \in M
    BY DEF Writers
  <2> HIDE DEF R, M, O
  <2>3. /\ b \in Seq(M) /\ Len(x.rewriteBuf) \in Nat
        /\ Len(b) = Len(x.rewriteBuf) + 1
        /\ \A j \in 1..Len(x.rewriteBuf) : b[j] = x.rewriteBuf[j]
        /\ b[Len(x.rewriteBuf) + 1] = R(f)
    BY <2>2, AppendProperties, LenProperties
  <2> HIDE DEF b
  <2>4. O(x, f).rewriteBuf = b /\ O(x, f) \in X
    BY <2>1, <2>3 DEF Writers
  <2> QED
    BY <2>3, <2>4
<1>3. w \in X
  <2>1. <<>> \in Seq(M)
    BY EmptySeq
  <2> HIDE DEF M
  <2> QED
    BY <2>1 DEF Writers
<1>4. PICK g : WritesMembers(c, e, min, start, bits, X, g, w, q)
  <2>1. \A x \in X, y \in FieldSet : WriteMember(c, e, min, start, bits, x, y) \in X
    BY <1>2
  <2>2. q \in Seq(FieldSet)
    OBVIOUS
  <2> HIDE DEF X, q
  <2> QED
    BY <1>3, <2>1, <2>2, MemberSteps
<1>5. /\ g \in [0..Len(q) -> X] /\ g[0] = w
      /\ g[Len(q)] = MembersWritten(c, e, min, start, bits, w, q)
      /\ \A n \in 1..Len(q) : g[n] = O(g[n - 1], q[n])
  BY <1>4 DEF WritesMembers
<1> HIDE DEF q, O, R, X
<1> DEFINE J(n) == /\ Len(g[n].rewriteBuf) = n
                   /\ \A j \in 1..n : g[n].rewriteBuf[j] = R(q[j])
           T == {n \in Nat : n <= Len(q) => J(n)}
<1>6. J(0)
  BY <1>5, EmptySeq DEF Writers
<1>7. ASSUME NEW n \in Nat, n \in T PROVE n + 1 \in T
  <2> SUFFICES ASSUME n + 1 <= Len(q) PROVE J(n + 1)
    OBVIOUS
  <2>1. n + 1 \in 1..Len(q) /\ n \in 0..Len(q) /\ (n + 1) - 1 = n
    BY <1>1
  <2>2. g[n] \in X /\ q[n + 1] \in FieldSet /\ g[n + 1] = O(g[n], q[n + 1])
    BY <1>1, <1>5, <2>1
  <2>3. J(n)
    BY <1>7, <2>1
  <2>4. /\ Len(g[n + 1].rewriteBuf) = n + 1
        /\ \A j \in 1..n : g[n + 1].rewriteBuf[j] = g[n].rewriteBuf[j]
        /\ g[n + 1].rewriteBuf[n + 1] = R(q[n + 1])
    <3> DEFINE x == g[n]
               f == q[n + 1]
    <3>1. x \in X /\ f \in FieldSet /\ g[n + 1] = O(x, f) /\ Len(x.rewriteBuf) = n
      BY <2>2, <2>3
    <3> HIDE DEF x, f
    <3>2. /\ Len(O(x, f).rewriteBuf) = n + 1
          /\ \A j \in 1..n : O(x, f).rewriteBuf[j] = x.rewriteBuf[j]
          /\ O(x, f).rewriteBuf[n + 1] = R(f)
      BY <1>2, <3>1
    <3> QED
      BY <3>1, <3>2 DEF x, f
  <2>5. \A j \in 1..(n + 1) : j \in 1..n \/ j = n + 1
    OBVIOUS
  <2> QED
    BY <2>3, <2>4, <2>5
<1>8. J(Len(q))
  <2>1. 0 \in T
    BY <1>6
  <2> HIDE DEF J
  <2>2. Nat \subseteq T
    <3> HIDE DEF T
    <3> QED
      BY <1>7, <2>1, Induction
  <2> QED
    BY <1>1, <2>2
<1>9. g[Len(q)] \in X
  BY <1>1, <1>5
<1>10. g[Len(q)].rewriteBuf = [j \in 1..Len(q) |-> R(q[j])]
  <2> DEFINE b == g[Len(q)].rewriteBuf
  <2>1. b \in Seq(M)
    BY <1>9 DEF X, Writers
  <2>2. b \in [1..Len(q) -> M]
    <3>1. Len(b) = Len(q)
      BY <1>8
    <3> HIDE DEF b, M
    <3> QED
      BY <2>1, <3>1, LenProperties
  <2>3. \A j \in 1..Len(q) : b[j] = R(q[j])
    BY <1>8
  <2> HIDE DEF b, M
  <2>4. b = [j \in 1..Len(q) |-> R(q[j])]
    BY <2>2, <2>3
  <2> QED
    BY <2>4 DEF b
<1> DEFINE v == g[Len(q)]
<1>11. v = [rewriteBuf |-> v.rewriteBuf, idBuf |-> <<>>, written |-> w.written]
  <2>1. v \in Writers(Seq(M), {w.written})
    BY <1>9 DEF X
  <2> HIDE DEF v, M
  <2> QED
    BY <2>1 DEF Writers
<1> QED
  BY <1>5, <1>10, <1>11 DEF q, R, Line

\* WriteEvent writes the line of the event and leaves both buffers empty,
\* whether the writer rewrites anything or copies the event.
LEMMA EventStep ==
    ASSUME NEW B, NEW w \in Writers({<<>>}, B), NEW e, e.payload \in Seq(FieldSet),
           NEW bits \in Seq({0, 1}) \ {<<>>}, NEW c, NEW min, NEW start
    PROVE  WriteEvent(c, min, start, bits, w, e)
             = [w EXCEPT !.written = Append(@, Line(c, min, start, bits, e))]
<1> DEFINE q == e.payload
           line == Line(c, min, start, bits, e)
<1>1. CASE RewriteAny(c)
  <2> DEFINE all == MembersWritten(c, e, min, start, bits, w, q)
  <2>1. WriteEvent(c, min, start, bits, w, e)
          = [Write(all, all.rewriteBuf) EXCEPT !.rewriteBuf = <<>>]
    BY <1>1 DEF WriteEvent, MembersWritten
  <2>2. all = [rewriteBuf |-> line, idBuf |-> <<>>, written |-> w.written]
    BY MembersAre
  <2> HIDE DEF all, line
  <2>3. /\ w = [rewriteBuf |-> <<>>, idBuf |-> <<>>, written |-> w.written]
        /\ all = [rewriteBuf |-> line, idBuf |-> <<>>, written |-> w.written]
    BY <2>2 DEF Writers
  <2> DEFINE a == Append(w.written, line)
  <2>4. Write(all, all.rewriteBuf) = [rewriteBuf |-> line, idBuf |-> <<>>, written |-> a]
    <3>1. \A x : [all EXCEPT !.written = x]
                   = [rewriteBuf |-> line, idBuf |-> <<>>, written |-> x]
      BY <2>3
    <3>2. all.rewriteBuf = line /\ all.written = w.written
      BY <2>3
    <3>3. Write(all, all.rewriteBuf) = [all EXCEPT !.written = a]
      BY <3>2 DEF Write
    <3> QED
      BY <3>1, <3>3
  <2>5. [w EXCEPT !.written = a] = [rewriteBuf |-> <<>>, idBuf |-> <<>>, written |-> a]
    <3> HIDE DEF a
    <3> QED
      BY <2>3
  <2>6. [Write(all, all.rewriteBuf) EXCEPT !.rewriteBuf = <<>>]
          = [rewriteBuf |-> <<>>, idBuf |-> <<>>, written |-> a]
    <3> HIDE DEF a
    <3> QED
      BY <2>4
  <2>7. WriteEvent(c, min, start, bits, w, e) = [w EXCEPT !.written = a]
    BY <2>1, <2>5, <2>6
  <2> QED
    BY <2>7 DEF line
<1>2. CASE ~RewriteAny(c)
  <2>1. WriteEvent(c, min, start, bits, w, e) = Write(w, q)
    BY <1>2 DEF WriteEvent
  <2>2. /\ DOMAIN q = 1..Len(q) /\ q \in [1..Len(q) -> FieldSet]
    <3>1. q \in Seq(FieldSet)
      OBVIOUS
    <3> HIDE DEF q
    <3> QED
      BY <3>1, LenProperties
  <2>3. \A f \in FieldSet : Rewritten(c, e, min, start, bits, f) = f
    <3> SUFFICES ASSUME NEW f \in FieldSet PROVE Rewritten(c, e, min, start, bits, f) = f
      OBVIOUS
    <3>1. ~NoObject(c, f)
      BY <1>2 DEF RewriteAny, NoObject
    <3>2. NewValue(c, e, min, start, bits, f) = f.value
      BY <1>2 DEF RewriteAny, NewValue, TimeAsked, IDAsked, TextAsked, RewritesName
    <3>3. f = [path |-> f.path, value |-> f.value]
      BY DEF FieldSet
    <3> QED
      BY <3>1, <3>2, <3>3 DEF Rewritten, Member
  <2>4. line = q
    <3>1. \A j \in 1..Len(q) : Rewritten(c, e, min, start, bits, q[j]) = q[j]
      BY <2>2, <2>3
    <3>2. line = [j \in 1..Len(q) |-> q[j]]
      BY <3>1 DEF Line
    <3>3. q = [j \in 1..Len(q) |-> q[j]]
      BY <2>2
    <3> QED
      BY <3>2, <3>3
  <2> QED
    BY <2>1, <2>4 DEF Write
<1> QED
  BY <1>1, <1>2

\* The writer has written o: what w has written and a line for each of the events q.
LinesAdded(c, min, start, bits, w, q, o) ==
    /\ Len(w.written) \in Nat /\ Len(q) \in Nat
    /\ Len(o) = Len(w.written) + Len(q)
    /\ \A j \in 1..Len(w.written) : o[j] = w.written[j]
    /\ \A j \in 1..Len(q) : o[Len(w.written) + j] = Line(c, min, start, bits, q[j])

\* Writing the events q appends one line for each to what has been written.
LEMMA EventsAre ==
    ASSUME NEW A, NEW w \in Writers({<<>>}, Seq(A)), NEW E, NEW q \in Seq(E),
           \A e \in E : e.payload \in Seq(FieldSet),
           NEW bits \in Seq({0, 1}) \ {<<>>}, NEW c, NEW min, NEW start,
           NEW o, o = EventsWritten(c, min, start, bits, w, q).written
    PROVE  LinesAdded(c, min, start, bits, w, q, o)
<1> DEFINE R(e) == Line(c, min, start, bits, e)
           M == A \cup {R(e) : e \in E}
           X == Writers({<<>>}, Seq(M))
           O(x, e) == WriteEvent(c, min, start, bits, x, e)
           m == Len(w.written)
<1>1. Len(q) \in Nat /\ \A i \in 1..Len(q) : q[i] \in E
  BY LenProperties, ElementOfSeq
<1>2. ASSUME NEW x \in X, NEW e \in E
      PROVE  /\ O(x, e) \in X
             /\ Len(x.written) \in Nat
             /\ Len(O(x, e).written) = Len(x.written) + 1
             /\ \A j \in 1..Len(x.written) : O(x, e).written[j] = x.written[j]
             /\ O(x, e).written[Len(x.written) + 1] = R(e)
  <2> DEFINE b == Append(x.written, R(e))
  <2>1. O(x, e) = [x EXCEPT !.written = b]
    BY EventStep
  <2>2. x.written \in Seq(M) /\ R(e) \in M
    BY DEF Writers
  <2> HIDE DEF R, M, O
  <2>3. /\ b \in Seq(M) /\ Len(x.written) \in Nat
        /\ Len(b) = Len(x.written) + 1
        /\ \A j \in 1..Len(x.written) : b[j] = x.written[j]
        /\ b[Len(x.written) + 1] = R(e)
    BY <2>2, AppendProperties, LenProperties
  <2> HIDE DEF b
  <2>4. O(x, e).written = b /\ O(x, e) \in X
    BY <2>1, <2>3 DEF Writers
  <2> QED
    BY <2>3, <2>4
<1>3. w \in X /\ m \in Nat
  <2>1. A \subseteq M
    OBVIOUS
  <2> HIDE DEF M
  <2>2. w.written \in Seq(A)
    BY DEF Writers
  <2>3. w.written \in Seq(M) /\ Len(w.written) \in Nat
    BY <2>1, <2>2, SeqMonotonic, LenProperties
  <2> QED
    BY <2>3 DEF Writers
<1>4. PICK g : WritesEvents(c, min, start, bits, X, g, w, q)
  <2>1. \A x \in X, y \in E : WriteEvent(c, min, start, bits, x, y) \in X
    BY <1>2
  <2> HIDE DEF X
  <2> QED
    BY <1>3, <2>1, EventSteps
<1>5. /\ g \in [0..Len(q) -> X] /\ g[0] = w
      /\ g[Len(q)].written = o
      /\ \A n \in 1..Len(q) : g[n] = O(g[n - 1], q[n])
  BY <1>4 DEF WritesEvents
<1> HIDE DEF O, R, X
<1>0. m = Len(w.written)
  OBVIOUS
<1> HIDE DEF m
<1> DEFINE J(n) == /\ Len(g[n].written) = m + n
                   /\ \A j \in 1..m : g[n].written[j] = w.written[j]
                   /\ \A j \in 1..n : g[n].written[m + j] = R(q[j])
           T == {n \in Nat : n <= Len(q) => J(n)}
<1>6. J(0)
  BY <1>0, <1>3, <1>5
<1> HIDE DEF J
<1>7. ASSUME NEW n \in Nat, n \in T PROVE n + 1 \in T
  <2> SUFFICES ASSUME n + 1 <= Len(q) PROVE J(n + 1)
    OBVIOUS
  <2>1. n + 1 \in 1..Len(q) /\ n \in 0..Len(q) /\ (n + 1) - 1 = n
    BY <1>1
  <2>2. g[n] \in X /\ q[n + 1] \in E /\ g[n + 1] = O(g[n], q[n + 1])
    BY <1>1, <1>5, <2>1
  <2>3. J(n)
    BY <1>7, <2>1
  <2> USE DEF J
  <2>4. /\ Len(g[n + 1].written) = (m + n) + 1
        /\ \A j \in 1..(m + n) : g[n + 1].written[j] = g[n].written[j]
        /\ g[n + 1].written[(m + n) + 1] = R(q[n + 1])
    <3> DEFINE x == g[n]
               e == q[n + 1]
               k == m + n
    <3>1. x \in X /\ e \in E /\ g[n + 1] = O(x, e) /\ Len(x.written) = k
      BY <2>2, <2>3
    <3> HIDE DEF x, e, k
    <3>2. /\ Len(O(x, e).written) = Len(x.written) + 1
          /\ \A j \in 1..Len(x.written) : O(x, e).written[j] = x.written[j]
          /\ O(x, e).written[Len(x.written) + 1] = R(e)
      BY <1>2, <3>1
    <3>3. /\ Len(g[n + 1].written) = k + 1
          /\ \A j \in 1..k : g[n + 1].written[j] = x.written[j]
          /\ g[n + 1].written[k + 1] = R(e)
      BY <3>1, <3>2
    <3> QED
      BY <3>3 DEF x, e, k
  <2>5. /\ (m + n) + 1 = m + (n + 1)
        /\ \A j \in 1..m : j \in 1..(m + n)
        /\ \A j \in 1..n : m + j \in 1..(m + n)
        /\ \A j \in 1..(n + 1) : j \in 1..n \/ j = n + 1
    BY <1>3
  <2>6. \A j \in 1..m : g[n + 1].written[j] = w.written[j]
    BY <2>3, <2>4, <2>5
  <2>7. ASSUME NEW j \in 1..(n + 1) PROVE g[n + 1].written[m + j] = R(q[j])
    <3>1. CASE j = n + 1
      BY <2>4, <2>5, <3>1
    <3>2. CASE j \in 1..n
      BY <2>3, <2>4, <2>5, <3>2
    <3> QED
      BY <2>5, <3>1, <3>2
  <2>8. Len(g[n + 1].written) = m + (n + 1)
    BY <2>4, <2>5
  <2> QED
    BY <2>6, <2>7, <2>8
<1>8. J(Len(q))
  <2>1. 0 \in T
    BY <1>6
  <2>2. Nat \subseteq T
    <3> HIDE DEF T
    <3> QED
      BY <1>7, <2>1, Induction
  <2> QED
    BY <1>1, <2>2
<1> QED
  BY <1>1, <1>3, <1>5, <1>8 DEF R, J, m, LinesAdded

(***************************************************************************)
(* Writing: the metadata                                                   *)
(***************************************************************************)
\* The fields of the metadata, after some of them have been rewritten.
MetaSet == [path : Seq(STRING) \ {<<>>},
            value : Values \cup [json : {"string"}, of : Seq(Chars)]]

\* The paths of the metadata that the configuration c asks to be rewritten.
AskedPaths(c) == {path \in {<<"service", "name">>, <<"service", "node", "configured_name">>} :
                    \/ c.serviceNames /\ path = <<"service", "name">>
                    \/ c.nodeNames /\ path = <<"service", "node", "configured_name">>}

\* Field j is the first of the fields with the path.
IsFirst(fields, j, path) ==
    fields[j].path = path /\ \A i \in 1..(j - 1) : fields[i].path # path

\* A field with a text in the place of its value.
TextField(f, bits) == Member(f.path, Value("string", RandomizeASCII(Str(f.value), bits)))

\* Of the fields was, the first with each of the paths has got a text.
FieldsWritten(paths, was, bits, is) ==
    /\ Len(is) = Len(was)
    /\ \A j \in 1..Len(was) :
         is[j] = IF was[j].path \in paths /\ IsFirst(was, j, was[j].path)
                 THEN TextField(was[j], bits) ELSE was[j]

\* The characters of a field of the metadata.
LEMMA MetaStr ==
    ASSUME NEW o \in MetaSet
    PROVE  /\ Str(o.value) \in Seq(Chars)
           /\ o.value.json = "string" => Str(o.value) = o.value.of
<1>1. CASE o.value \in Values
  BY <1>1, StrType DEF Str
<1>2. CASE o.value \in [json : {"string"}, of : Seq(Chars)]
  BY <1>2 DEF Str
<1> QED
  BY <1>1, <1>2 DEF MetaSet

\* The type of such a field.
LEMMA TextFieldType ==
    ASSUME NEW f \in MetaSet, NEW bits \in Seq({0, 1}) \ {<<>>}
    PROVE  /\ RandomizeASCII(Str(f.value), bits) \in Seq(Chars)
           /\ TextField(f, bits) \in MetaSet /\ TextField(f, bits).path = f.path
<1> DEFINE text == RandomizeASCII(Str(f.value), bits)
           v == Value("string", text)
<1>1. text \in Seq(Chars)
  BY MetaStr, TextRandomized
<1> HIDE DEF text
<1>2. v \in [json : {"string"}, of : Seq(Chars)]
  BY <1>1 DEF Value
<1> HIDE DEF v
<1>3. Member(f.path, v) \in MetaSet /\ Member(f.path, v).path = f.path
  BY <1>2 DEF Member, MetaSet
<1> QED
  BY <1>1, <1>3 DEF TextField, text, v

\* RandomizeField has made is2 of the fields is.
FieldDone(is, path, bits, is2) ==
    /\ RandomizeField(NewWriter, is, path, bits) = [w |-> NewWriter, fields |-> is2]
    /\ is2 \in Seq(MetaSet) /\ Len(is2) = Len(is) /\ Len(is) \in Nat
    /\ \A j \in 1..Len(is) :
         is2[j] = IF IsFirst(is, j, path) THEN TextField(is[j], bits) ELSE is[j]

\* RandomizeField rewrites the first field with the path, if there is one, and
\* leaves the writer as it was.
LEMMA FieldStep ==
    ASSUME NEW is \in Seq(MetaSet), NEW path, NEW bits \in Seq({0, 1}) \ {<<>>}
    PROVE  \E is2 : FieldDone(is, path, bits, is2)
<1> DEFINE I == {j \in DOMAIN is : is[j].path = path}
           k == Min(I)
           text == RandomizeASCII(Str(is[k].value), bits)
           filled == Fill(NewWriter, text)
           o == [is[k] EXCEPT !.value = Value("string", text)]
           is2 == [is EXCEPT ![k] = o]
<1>1. DOMAIN is = 1..Len(is) /\ Len(is) \in Nat
  BY LenProperties
<1>2. CASE I = {}
  <2>1. RandomizeField(NewWriter, is, path, bits) = [w |-> NewWriter, fields |-> is]
    BY <1>2 DEF RandomizeField
  <2>2. \A j \in 1..Len(is) : ~IsFirst(is, j, path)
    BY <1>1, <1>2 DEF IsFirst
  <2>3. FieldDone(is, path, bits, is)
    BY <1>1, <2>1, <2>2 DEF FieldDone
  <2> QED
    BY <2>3
<1>3. CASE I # {}
  <2>1. k \in I /\ \A j \in I : k <= j
    <3>1. I \in SUBSET Nat /\ I \in SUBSET Int
      BY <1>1
    <3> HIDE DEF I
    <3>2. PICK m \in I : \A x \in I : m <= x
      BY <1>3, <3>1, LeastElement
    <3>3. Min(I) = m
      BY <3>1, <3>2, MinIs
    <3> QED
      BY <3>2, <3>3
  <2>2. k \in 1..Len(is) /\ is[k].path = path
    BY <1>1, <2>1
  <2>3. \A j \in 1..Len(is) : is[j].path = path => k <= j
    BY <1>1, <2>1
  <2>4. RandomizeField(NewWriter, is, path, bits)
          = [w |-> ResetID(filled),
             fields |-> [is EXCEPT ![k].value = Value("string", filled.idBuf)]]
    BY <1>3 DEF RandomizeField
  <2> HIDE DEF k
  <2>5. \A j \in 1..Len(is) : IsFirst(is, j, path) <=> j = k
    BY <1>1, <2>2, <2>3 DEF IsFirst
  <2>6. is[k] \in MetaSet
    BY <1>1, <2>2, ElementOfSeq
  <2>7. text \in Seq(Chars) /\ TextField(is[k], bits) \in MetaSet
    BY <2>6, TextFieldType
  <2>8. o = TextField(is[k], bits)
    <3> DEFINE v == Value("string", text)
    <3> HIDE DEF v
    <3>1. is[k] = [path |-> is[k].path, value |-> is[k].value]
      BY <2>6 DEF MetaSet
    <3>2. [is[k] EXCEPT !.value = v] = [path |-> is[k].path, value |-> v]
      BY <3>1
    <3> QED
      BY <3>2 DEF v, TextField, Member
  <2>9. filled = [rewriteBuf |-> <<>>, idBuf |-> text, written |-> <<>>]
    <3> HIDE DEF text
    <3>2. <<>> \o text = text
      BY <2>7, ConcatEmptySeq
    <3>3. NewWriter.idBuf \o text = text
      BY <3>2 DEF NewWriter
    <3>4. \A x : [NewWriter EXCEPT !.idBuf = x]
                   = [rewriteBuf |-> <<>>, idBuf |-> x, written |-> <<>>]
      BY DEF NewWriter
    <3> QED
      BY <3>3, <3>4 DEF Fill
  <2>10. ResetID(filled) = NewWriter /\ filled.idBuf = text
    <3> HIDE DEF filled, text
    <3> QED
      BY <2>9 DEF ResetID, NewWriter
  <2>11. RandomizeField(NewWriter, is, path, bits) = [w |-> NewWriter, fields |-> is2]
    <3> HIDE DEF filled, text, I
    <3> QED
      BY <2>4, <2>10
  <2> HIDE DEF text, filled, I, o
  <2>12. /\ is2 \in Seq(MetaSet) /\ Len(is2) = Len(is)
         /\ \A j \in 1..Len(is) : is2[j] = IF j = k THEN o ELSE is[j]
    BY <2>2, <2>7, <2>8, ExceptSeq
  <2> HIDE DEF is2
  <2>13. FieldDone(is, path, bits, is2)
    BY <1>1, <2>5, <2>8, <2>11, <2>12 DEF FieldDone
  <2> QED
    BY <2>13
<1> QED
  BY <1>2, <1>3

\* So far x has fields in which these paths are done, and an empty writer.
MetadataDone(paths, was, bits, x) ==
    \E is \in Seq(MetaSet) : /\ FieldsWritten(paths, was, bits, is)
                             /\ x = [w |-> NewWriter, fields |-> is]

\* Then RandomizeField does one path more.
LEMMA OnePathMore ==
    ASSUME NEW paths, NEW was \in Seq(FieldSet), NEW bits \in Seq({0, 1}) \ {<<>>},
           NEW x, MetadataDone(paths, was, bits, x), NEW path, path \notin paths
    PROVE  MetadataDone(paths \cup {path}, was, bits,
                        RandomizeField(x.w, x.fields, path, bits))
<1>a. PICK is \in Seq(MetaSet) : /\ FieldsWritten(paths, was, bits, is)
                                 /\ x = [w |-> NewWriter, fields |-> is]
  BY DEF MetadataDone
<1>b. PICK is2 : FieldDone(is, path, bits, is2)
  BY FieldStep
<1>1. /\ Len(is) = Len(was) /\ Len(is2) = Len(was) /\ Len(was) \in Nat
  BY <1>a, <1>b, LenProperties DEF FieldsWritten, FieldDone
<1>2. \A f : TextField(f, bits).path = f.path
  BY DEF TextField, Member
<1>3. \A j \in 1..Len(was) : is[j].path = was[j].path
  BY <1>2, <1>a DEF FieldsWritten
<1>4. \A j \in 1..Len(was) : IsFirst(is, j, path) <=> IsFirst(was, j, path)
  <2> TAKE j \in 1..Len(was)
  <2>1. \A i \in 1..(j - 1) : is[i].path = was[i].path
    BY <1>1, <1>3
  <2> QED
    BY <1>3, <2>1 DEF IsFirst
<1>5. ASSUME NEW j \in 1..Len(was)
      PROVE  is2[j] = IF was[j].path \in paths \cup {path} /\ IsFirst(was, j, was[j].path)
                      THEN TextField(was[j], bits) ELSE was[j]
  <2>1. /\ is[j] = IF was[j].path \in paths /\ IsFirst(was, j, was[j].path)
                   THEN TextField(was[j], bits) ELSE was[j]
        /\ is2[j] = IF IsFirst(was, j, path) THEN TextField(is[j], bits) ELSE is[j]
    BY <1>1, <1>4, <1>a, <1>b DEF FieldsWritten, FieldDone
  <2>2. IsFirst(was, j, path) => was[j].path = path
    BY DEF IsFirst
  <2>3. CASE was[j].path = path
    BY <2>1, <2>3
  <2>4. CASE was[j].path # path
    BY <2>1, <2>2, <2>4
  <2> QED
    BY <2>3, <2>4
<1>6. FieldsWritten(paths \cup {path}, was, bits, is2)
  BY <1>1, <1>5 DEF FieldsWritten
<1>7. is2 \in Seq(MetaSet)
  BY <1>b DEF FieldDone
<1>8. RandomizeField(x.w, x.fields, path, bits) = [w |-> NewWriter, fields |-> is2]
  BY <1>a, <1>b DEF FieldDone
<1> QED
  BY <1>6, <1>7, <1>8 DEF MetadataDone

\* WriteMetadata writes the fields, rewritten where it is asked, and leaves
\* both buffers empty.
LEMMA MetadataIs ==
    ASSUME NEW was \in Seq(FieldSet), NEW bits \in Seq({0, 1}) \ {<<>>}, NEW c
    PROVE  \E is \in Seq(MetaSet) :
             /\ FieldsWritten(AskedPaths(c), was, bits, is)
             /\ WriteMetadata(c, NewWriter, was, bits)
                  = [rewriteBuf |-> <<>>, idBuf |-> <<>>, written |-> <<is>>]
<1> DEFINE a == <<"service", "name">>
           b == <<"service", "node", "configured_name">>
           asked == (IF c.serviceNames THEN <<a>> ELSE <<>>)
                    \o (IF c.nodeNames THEN <<b>> ELSE <<>>)
           P == {a, b}
           X == {[w |-> NewWriter, fields |-> is] : is \in Seq(MetaSet)}
           h == [w |-> NewWriter, fields |-> was]
           done == FieldsRandomized(bits, h, asked)
<1>1. /\ a # b
      /\ AskedPaths(c) = (IF c.serviceNames THEN {a} ELSE {})
                           \cup (IF c.nodeNames THEN {b} ELSE {})
  <2>1. a # b
    <3>1. Len(a) = 2 /\ Len(b) = 3
      OBVIOUS
    <3> QED
      BY <3>1
  <2> QED
    BY <2>1 DEF AskedPaths
<1>2. WriteMetadata(c, NewWriter, was, bits) = Write(done.w, done.fields)
  BY DEF WriteMetadata, FieldsRandomized
<1> HIDE DEF a, b
<1>3. was \in Seq(MetaSet) /\ h \in X
  <2>1. FieldSet \subseteq MetaSet
    BY DEF FieldSet, MetaSet
  <2>2. was \in Seq(MetaSet)
    BY <2>1, SeqMonotonic
  <2> QED
    BY <2>2
<1>4. asked \in Seq(P)
  <2>0. a \in P /\ b \in P
    OBVIOUS
  <2> HIDE DEF P
  <2>1. (IF c.serviceNames THEN <<a>> ELSE <<>>) \in Seq(P)
    BY <2>0, EmptySeq
  <2>2. (IF c.nodeNames THEN <<b>> ELSE <<>>) \in Seq(P)
    BY <2>0, EmptySeq
  <2> QED
    BY <2>1, <2>2, ConcatProperties
<1> HIDE DEF P
<1>5. \A x \in X, y \in P : RandomizeField(x.w, x.fields, y, bits) \in X
  <2> SUFFICES ASSUME NEW is \in Seq(MetaSet), NEW y
               PROVE  RandomizeField(NewWriter, is, y, bits) \in X
    OBVIOUS
  <2> HIDE DEF X
  <2>1. PICK is2 : FieldDone(is, y, bits, is2)
    BY FieldStep
  <2>2. [w |-> NewWriter, fields |-> is2] \in X
    BY <2>1 DEF X, FieldDone
  <2> QED
    BY <2>1, <2>2 DEF FieldDone
<1> HIDE DEF X, h, asked
<1>6. PICK g : RandomizesFields(bits, X, g, h, asked)
  BY <1>3, <1>4, <1>5, FieldSteps
<1>7. /\ g[0] = [w |-> NewWriter, fields |-> was] /\ done = g[Len(asked)]
      /\ \A n \in 1..Len(asked) :
           g[n] = RandomizeField(g[n - 1].w, g[n - 1].fields, asked[n], bits)
  BY <1>6 DEF RandomizesFields, h
<1> HIDE DEF done
<1>8. MetadataDone({}, was, bits, g[0])
  BY <1>3, <1>7 DEF FieldsWritten, MetadataDone
<1>9. MetadataDone(AskedPaths(c), was, bits, done)
  <2>1. CASE ~c.serviceNames /\ ~c.nodeNames
    <3>1. AskedPaths(c) = {}
      BY <1>1, <2>1
    <3>2. Len(asked) = 0
      BY <2>1 DEF asked
    <3> QED
      BY <1>7, <1>8, <3>1, <3>2
  <2>2. CASE c.serviceNames /\ ~c.nodeNames
    <3>1. AskedPaths(c) = {} \cup {a}
      BY <1>1, <2>2
    <3>2. Len(asked) = 1 /\ asked[1] = a
      BY <2>2 DEF asked
    <3>3. done = RandomizeField(g[0].w, g[0].fields, a, bits)
      BY <1>7, <3>2
    <3>4. MetadataDone({} \cup {a}, was, bits,
                       RandomizeField(g[0].w, g[0].fields, a, bits))
      BY <1>8, OnePathMore
    <3> QED
      BY <3>1, <3>3, <3>4
  <2>3. CASE ~c.serviceNames /\ c.nodeNames
    <3>1. AskedPaths(c) = {} \cup {b}
      BY <1>1, <2>3
    <3>2. Len(asked) = 1 /\ asked[1] = b
      BY <2>3 DEF asked
    <3>3. done = RandomizeField(g[0].w, g[0].fields, b, bits)
      BY <1>7, <3>2
    <3>4. MetadataDone({} \cup {b}, was, bits,
                       RandomizeField(g[0].w, g[0].fields, b, bits))
      BY <1>8, OnePathMore
    <3> QED
      BY <3>1, <3>3, <3>4
  <2>4. CASE c.serviceNames /\ c.nodeNames
    <3>1. AskedPaths(c) = ({} \cup {a}) \cup {b} /\ b \notin {} \cup {a}
      BY <1>1, <2>4
    <3>2. Len(asked) = 2 /\ asked[1] = a /\ asked[2] = b
      BY <2>4 DEF asked
    <3>3. /\ g[1] = RandomizeField(g[0].w, g[0].fields, a, bits)
          /\ done = RandomizeField(g[1].w, g[1].fields, b, bits)
      BY <1>7, <3>2
    <3>4. MetadataDone({} \cup {a}, was, bits, g[1])
      BY <1>8, <3>3, OnePathMore
    <3>5. MetadataDone(({} \cup {a}) \cup {b}, was, bits,
                       RandomizeField(g[1].w, g[1].fields, b, bits))
      BY <3>1, <3>4, OnePathMore
    <3> QED
      BY <3>1, <3>3, <3>5
  <2> QED
    BY <2>1, <2>2, <2>3, <2>4
<1>10. PICK is \in Seq(MetaSet) : /\ FieldsWritten(AskedPaths(c), was, bits, is)
                                  /\ done = [w |-> NewWriter, fields |-> is]
  BY <1>9 DEF MetadataDone
<1>11. Write(NewWriter, is) = [rewriteBuf |-> <<>>, idBuf |-> <<>>, written |-> <<is>>]
  <2>1. Append(<<>>, is) = <<is>>
    OBVIOUS
  <2>2. Append(NewWriter.written, is) = <<is>>
    BY <2>1 DEF NewWriter
  <2>3. \A x : [NewWriter EXCEPT !.written = x]
                 = [rewriteBuf |-> <<>>, idBuf |-> <<>>, written |-> x]
    BY DEF NewWriter
  <2> QED
    BY <2>2, <2>3 DEF Write
<1> QED
  BY <1>2, <1>10, <1>11

(***************************************************************************)
(* Writing: a batch, and the passes                                        *)
(***************************************************************************)
\* o is what is to be written of the batch b: its metadata, and a line for
\* each of its events.
WrittenFor(c, min, start, bits, b, o) ==
    /\ Len(o) = Len(b.events) + 1
    /\ FieldsWritten(AskedPaths(c), b.metadata, bits, o[1])
    /\ \A i \in 1..Len(b.events) : o[i + 1] = Line(c, min, start, bits, b.events[i])

\* WriteAPMEvents writes the metadata and the events, each once and in its place.
LEMMA BatchIs ==
    ASSUME NEW b \in BatchSet(Fields), NEW bits \in Seq({0, 1}) \ {<<>>},
           NEW c, NEW min, NEW start
    PROVE  WrittenFor(c, min, start, bits, b, WriteAPMEvents(c, min, b, start, bits))
<1> DEFINE was == b.metadata
           q == b.events
           E == EventSet(Fields)
           o == WriteAPMEvents(c, min, b, start, bits)
<1>1. Fields = Seq(FieldSet)
  BY DEF Fields, FieldSet
<1>2. was \in Seq(FieldSet) /\ q \in Seq(E)
  BY <1>1 DEF BatchSet
<1>3. \A e \in E : e.payload \in Seq(FieldSet)
  BY <1>1 DEF EventSet
<1>4. PICK is \in Seq(MetaSet) :
             /\ FieldsWritten(AskedPaths(c), was, bits, is)
             /\ WriteMetadata(c, NewWriter, was, bits)
                  = [rewriteBuf |-> <<>>, idBuf |-> <<>>, written |-> <<is>>]
  BY <1>2, MetadataIs
<1> DEFINE w == [rewriteBuf |-> <<>>, idBuf |-> <<>>, written |-> <<is>>]
<1>5. o = EventsWritten(c, min, start, bits, w, q).written
  BY <1>4 DEF WriteAPMEvents, EventsWritten
<1>6. w \in Writers({<<>>}, Seq({is})) /\ w.written = <<is>>
  <2>1. <<is>> \in Seq({is})
    OBVIOUS
  <2> QED
    BY <2>1 DEF Writers
<1> HIDE DEF w, E, q, was, o
<1>7. LinesAdded(c, min, start, bits, w, q, o)
  BY <1>2, <1>3, <1>5, <1>6, EventsAre
<1>8. Len(w.written) = 1 /\ w.written[1] = is
  BY <1>6
<1>9. /\ Len(o) = Len(q) + 1 /\ o[1] = is
      /\ \A j \in 1..Len(q) : o[j + 1] = Line(c, min, start, bits, q[j])
  <2>1. \A j \in 1..Len(q) : 1 + j = j + 1
    BY <1>7 DEF LinesAdded
  <2> QED
    BY <1>7, <1>8, <2>1 DEF LinesAdded
<1> QED
  BY <1>4, <1>9 DEF WrittenFor, was, q, o

\* What is written of batch k of the handler h.
Wrote(c, h, start, bits, k) ==
    WriteAPMEvents(c, h.minTimestamp, h.batches[k], start, bits)

\* What New has returned are batches of events with timestamps.
LEMMA HandlerLoaded == Types /\ loaded => handler \in Loaded(Fields)
<1> SUFFICES ASSUME Types, loaded PROVE handler \in Loaded(Fields)
  OBVIOUS
<1>1. handler = New(input.files) /\ input.files \in Seq(Seq(InputLines))
  BY InputAssumption DEF Types
<1>2. RawLines(Fields) = InputLines
  BY DEF RawLines, InputLines
<1> QED
  BY <1>1, <1>2, NewType

\* The inductive invariant of replaying: a pass has one random number and one
\* base, and what has been written is what they make of the first batches.
Replayed ==
    /\ Types
    /\ random # <<>> => loaded /\ handler.status = "ok" /\ random \in Random
    /\ base \in Nat
    /\ Len(written) \in Nat
    /\ random = <<>> => Len(written) = 0
    /\ random # <<>> => Len(written) <= Len(handler.batches)
    /\ written = [k \in 1..Len(written) |-> Wrote(input.config, handler, base, random, k)]

\* Each step of Replay keeps what has been written in this way.
LEMMA ReplayedInvariant == ReplaySpec => []Replayed
<1>1. ReplayInit => Replayed
  <2> SUFFICES ASSUME ReplayInit PROVE Replayed
    OBVIOUS
  <2>1. Len(written) = 0
    BY DEF ReplayInit
  <2>2. written = [k \in 1..Len(written) |-> Wrote(input.config, handler, base, random, k)]
    BY <2>1 DEF ReplayInit
  <2> QED
    BY <2>1, <2>2 DEF ReplayInit, Replayed, Types
<1>2. Replayed /\ Types' /\ [ReplayNext]_replayVars => Replayed'
  <2> SUFFICES ASSUME Replayed, Types', [ReplayNext]_replayVars PROVE Replayed'
    OBVIOUS
  <2>1. CASE Load
    <3>1. random = <<>> /\ Len(written) = 0
      BY <2>1 DEF Load, Replayed
    <3>2. written' = [k \in 1..Len(written') |->
                        Wrote(input'.config, handler', base', random', k)]
      BY <2>1, <3>1 DEF Load, Replayed
    <3> QED
      BY <2>1, <3>1, <3>2 DEF Load, Replayed
  <2>2. CASE BeginPass
    <3>1. random' # <<>> /\ random' \in Random /\ base' \in Nat /\ written' = <<>>
      BY <2>2, ReplayAssumption DEF BeginPass
    <3>2. Len(written') = 0
      BY <3>1
    <3>3. written' = [k \in 1..Len(written') |->
                        Wrote(input'.config, handler', base', random', k)]
      BY <3>1, <3>2
    <3>4. Len(handler.batches) \in Nat
      <4>1. handler \in Loaded(Fields)
        BY <2>2, HandlerLoaded DEF BeginPass, Replayed
      <4>2. handler.batches \in Seq(BatchSet(Fields))
        BY <4>1 DEF Loaded, HandlerSet
      <4> QED
        BY <4>2, LenProperties
    <3> QED
      BY <2>2, <3>1, <3>2, <3>3, <3>4 DEF BeginPass, Replayed
  <2>3. CASE WriteBatch
    <3> DEFINE n == Len(written)
               F(k) == Wrote(input.config, handler, base, random, k)
               S == {F(k) : k \in 1..(n + 1)}
    <3>1. /\ random # <<>> /\ n < Len(handler.batches) /\ n \in Nat
          /\ written' = Append(written, F(n + 1))
          /\ written = [k \in 1..n |-> F(k)]
      BY <2>3 DEF WriteBatch, WriteOf, Wrote, Replayed
    <3>2. UNCHANGED <<input, loaded, handler, random, base>>
      BY <2>3 DEF WriteBatch
    <3> HIDE DEF n, F
    <3>3. written \in Seq(S) /\ F(n + 1) \in S /\ Len(written) = n
      <4>1. written \in Seq({written[k] : k \in 1..n}) /\ Len(written) = n
        BY <3>1, FunctionIsSeq
      <4>2. {written[k] : k \in 1..n} \subseteq S
        BY <3>1
      <4>3. written \in Seq(S)
        <5> HIDE DEF S
        <5> QED
          BY <4>1, <4>2, SeqMonotonic
      <4> QED
        BY <3>1, <4>1, <4>3
    <3> HIDE DEF S
    <3>4. /\ written' \in Seq(S) /\ Len(written') = n + 1
          /\ \A k \in 1..n : written'[k] = written[k]
          /\ written'[n + 1] = F(n + 1)
      BY <3>1, <3>3, AppendProperties
    <3>5. \A k \in 1..(n + 1) : written'[k] = F(k)
      BY <3>1, <3>4
    <3>6. written' = [k \in 1..(n + 1) |-> F(k)]
      <4>1. written' = [k \in 1..(n + 1) |-> written'[k]]
        BY <3>1, <3>4, LenProperties
      <4> QED
        BY <3>5, <4>1
    <3>7. written' = [k \in 1..Len(written') |->
                        Wrote(input'.config, handler', base', random', k)]
      BY <3>2, <3>4, <3>6 DEF F
    <3>8. Len(handler.batches) \in Nat /\ n + 1 <= Len(handler.batches)
      <4>1. handler \in Loaded(Fields)
        BY <3>1, HandlerLoaded DEF Replayed
      <4>2. handler.batches \in Seq(BatchSet(Fields))
        BY <4>1 DEF Loaded, HandlerSet
      <4>3. Len(handler.batches) \in Nat
        BY <4>2, LenProperties
      <4> QED
        BY <3>1, <4>3
    <3> QED
      BY <3>1, <3>2, <3>4, <3>7, <3>8 DEF Replayed
  <2>4. CASE UNCHANGED replayVars
    BY <2>4 DEF replayVars, Replayed, Types
  <2> QED
    BY <2>1, <2>2, <2>3, <2>4 DEF ReplayNext
<1> QED
  BY <1>1, <1>2, TypesInvariant, PTL DEF ReplaySpec

(***************************************************************************)
(* What a pass has written                                                 *)
(***************************************************************************)
\* A written batch is the batch of the handler with what is asked for.
LEMMA WrittenAre ==
    ASSUME Replayed, NEW FS \in SUBSET Fields, loaded => handler \in Loaded(FS),
           NEW k \in DOMAIN written
    PROVE  /\ loaded /\ k \in 1..Len(handler.batches)
           /\ random \in Seq({0, 1}) \ {<<>>} /\ base \in Nat
           /\ handler \in Loaded(FS) /\ handler.batches[k] \in BatchSet(FS)
           /\ WrittenFor(input.config, handler.minTimestamp, base, random,
                         handler.batches[k], written[k])
<1>1. DOMAIN written = 1..Len(written) /\ Len(written) \in Nat
  BY DEF Replayed
<1>2. random # <<>>
  BY <1>1 DEF Replayed
<1>3. loaded /\ random \in Seq({0, 1}) \ {<<>>} /\ base \in Nat /\ k \in 1..Len(written)
  BY <1>1, <1>2, ReplayAssumption DEF Replayed
<1>4. handler.batches \in Seq(BatchSet(FS)) /\ handler \in Loaded(FS)
  BY <1>3 DEF Loaded, HandlerSet
<1>5. Len(handler.batches) \in Nat /\ Len(written) <= Len(handler.batches)
  BY <1>2, <1>4, LenProperties DEF Replayed
<1>6. k \in 1..Len(handler.batches)
  BY <1>1, <1>3, <1>5
<1>7. handler.batches[k] \in BatchSet(FS)
  BY <1>4, <1>6, ElementOfSeq
<1>8. handler.batches[k] \in BatchSet(Fields)
  <2>1. EventSet(FS) \subseteq EventSet(Fields)
    BY DEF EventSet
  <2>2. handler.batches[k].events \in Seq(EventSet(FS))
    BY <1>7 DEF BatchSet
  <2>3. handler.batches[k].events \in Seq(EventSet(Fields))
    BY <2>1, <2>2, SeqMonotonic
  <2> QED
    BY <1>7, <2>3 DEF BatchSet
<1>9. written[k] = WriteAPMEvents(input.config, handler.minTimestamp, handler.batches[k],
                                  base, random)
  BY <1>3 DEF Replayed, Wrote
<1> QED
  BY <1>3, <1>4, <1>6, <1>7, <1>8, <1>9, BatchIs

\* The member f of the event e has been written as o.
MemberWritten(FS, e, f, o) ==
    /\ random \in Seq({0, 1}) \ {<<>>} /\ base \in Nat /\ handler \in Loaded(FS)
    /\ e \in EventSet(FS) /\ f \in FieldSet /\ f \in ToSet(e.payload)
    /\ \A t \in e.timestamp : \E m \in handler.minTimestamp : m <= t
    /\ o = Rewritten(input.config, e, handler.minTimestamp, base, random, f)

\* Each member of an event has been written as it is asked for.
LEMMA MembersAreWritten ==
    ASSUME Replayed, NEW FS \in SUBSET Fields, loaded => handler \in Loaded(FS),
           NEW m \in Members
    PROVE  MemberWritten(FS, EventOf(m), Before(m), After(m))
<1>a. PICK k \in DOMAIN written : \E i \in DOMAIN Events(k) :
             \E j \in DOMAIN Events(k)[i].payload : m = <<k, i, j>>
  BY DEF Members
<1>b. PICK i \in DOMAIN Events(k) : \E j \in DOMAIN Events(k)[i].payload : m = <<k, i, j>>
  BY <1>a
<1>1. PICK j \in DOMAIN Events(k)[i].payload : m = <<k, i, j>>
  BY <1>b
<1> DEFINE q == Events(k)
           e == q[i]
           c == input.config
           b == handler.batches[k]
           o == written[k]
<1>2. EventOf(m) = e /\ Before(m) = e.payload[j] /\ After(m) = o[i + 1][j]
  BY <1>1 DEF EventOf, Before, After
<1>3. /\ k \in 1..Len(handler.batches)
      /\ random \in Seq({0, 1}) \ {<<>>} /\ base \in Nat
      /\ handler \in Loaded(FS) /\ b \in BatchSet(FS)
      /\ WrittenFor(c, handler.minTimestamp, base, random, b, o)
  BY WrittenAre
<1>4. q = b.events /\ q \in Seq(EventSet(FS))
  BY <1>3 DEF Events, BatchSet
<1> HIDE DEF q, b, o, c
<1>5. i \in 1..Len(q) /\ e \in EventSet(FS)
  BY <1>4, LenProperties, ElementOfSeq DEF q
<1> DEFINE p == e.payload
<1>6. p \in Seq(FieldSet)
  BY <1>5 DEF EventSet, Fields, FieldSet
<1>7. j \in DOMAIN p
  BY DEF q
<1> HIDE DEF e, p
<1>8. j \in 1..Len(p) /\ p[j] \in FieldSet /\ p[j] \in ToSet(p)
  BY <1>6, <1>7, LenProperties, ElementOfSeq DEF ToSet
<1>9. o[i + 1] = Line(c, handler.minTimestamp, base, random, e)
  BY <1>3, <1>4, <1>5 DEF WrittenFor, e
<1>10. o[i + 1][j] = Rewritten(c, e, handler.minTimestamp, base, random, p[j])
  BY <1>8, <1>9 DEF Line, p
<1>11. \A t \in e.timestamp : \E x \in handler.minTimestamp : x <= t
  <2>1. handler.batches[k].events = q
    BY <1>4 DEF b
  <2> QED
    BY <1>3, <1>5, <2>1 DEF Loaded, NoneEarlier, e
<1> QED
  BY <1>2, <1>3, <1>5, <1>8, <1>10, <1>11 DEF MemberWritten, c, p

\* The path and the value of a member as it is written.
LEMMA RewrittenIs ==
    \A c, e, min, start, bits, f :
      /\ Rewritten(c, e, min, start, bits, f).value = NewValue(c, e, min, start, bits, f)
      /\ ~NoObject(c, f) => Rewritten(c, e, min, start, bits, f).path = f.path
<1> TAKE c, e, min, start, bits, f
<1>1. \A path, v : Member(path, v).path = path /\ Member(path, v).value = v
  BY DEF Member
<1> QED
  BY <1>1 DEF Rewritten

\* What a member of an event becomes, by its path.
LEMMA NewValueIs ==
    ASSUME NEW f \in FieldSet, NEW c, NEW e, NEW min, NEW start, NEW bits
    PROVE  LET v == NewValue(c, e, min, start, bits, f) IN
           /\ f.path = <<"timestamp">> =>
                v = IF c.timestamps /\ e.timestamp # {}
                    THEN Shifted(c, Min(e.timestamp), Min(min), start) ELSE f.value
           /\ f.path \in IDPaths =>
                v = IF c.ids /\ IsHex(Str(f.value))
                    THEN Value("string", RandomizeTraceID(Str(f.value), bits)) ELSE f.value
<1>1. f.path \in Seq(STRING) \ {<<>>}
  BY DEF FieldSet
<1>2. /\ f.path = <<"timestamp">> => f.path \notin IDPaths
      /\ f.path \in IDPaths \cup {<<"timestamp">>} =>
           f.path # <<"name">> /\ f.path # <<"type">>
      /\ f.path \in IDPaths \cup {<<"timestamp">>, <<"name">>, <<"type">>} =>
           f.path[1] # "context" /\ f.path # TargetName
  BY <1>1, PathsDiffer
<1>3. f.path \in IDPaths \cup {<<"timestamp">>} => ~TextAsked(c, e.objectType, f.path)
  BY <1>2 DEF TextAsked
<1> QED
  BY <1>2, <1>3 DEF NewValue, TimeAsked, IDAsked

\* A value as it is written: shifted, randomized, or as it was.
LEMMA ValueIs ==
    ASSUME NEW f \in FieldSet, NEW c, NEW e, NEW min, NEW start,
           NEW bits \in Seq({0, 1}) \ {<<>>},
           NEW v, v = NewValue(c, e, min, start, bits, f)
    PROVE  /\ TimeAsked(c, e, f.path) => v.json = IF c.version = "7x" THEN "number" ELSE "time"
           /\ IDAsked(c, f) => v.json = "string" /\ IDFrom(Str(f.value), bits, v.of)
           /\ TextAsked(c, e.objectType, f.path) =>
                v.json = "string" /\ TextFrom(Str(f.value), bits, v.of)
           /\ \/ TimeAsked(c, e, f.path) \/ IDAsked(c, f)
              \/ TextAsked(c, e.objectType, f.path) \/ v = f.value
<1>1. Str(f.value) \in Seq(STRING) /\ Str(f.value) \in Seq(Chars)
  BY StrType DEF FieldSet
<1>2. /\ f.path = <<"timestamp">> => f.path \notin IDPaths
      /\ f.path \in IDPaths \cup {<<"timestamp">>} =>
           /\ f.path # <<"name">> /\ f.path # <<"type">> /\ f.path # TargetName
  BY PathsDiffer DEF FieldSet
<1>3. CASE TimeAsked(c, e, f.path)
  <2>1. ~IDAsked(c, f) /\ ~TextAsked(c, e.objectType, f.path)
    BY <1>2, <1>3 DEF TimeAsked, IDAsked, TextAsked
  <2>2. v = Shifted(c, Min(e.timestamp), Min(min), start)
    BY <1>3 DEF NewValue
  <2>3. v.json = IF c.version = "7x" THEN "number" ELSE "time"
    BY <2>2 DEF Shifted, Value
  <2> QED
    BY <1>3, <2>1, <2>3
<1>4. CASE ~TimeAsked(c, e, f.path) /\ IDAsked(c, f)
  <2>1. IsHex(Str(f.value)) /\ ~TextAsked(c, e.objectType, f.path)
    BY <1>2, <1>4 DEF IDAsked, TextAsked
  <2>2. IDFrom(Str(f.value), bits, RandomizeTraceID(Str(f.value), bits))
    BY <1>1, <2>1, IDRandomized
  <2>3. v = Value("string", RandomizeTraceID(Str(f.value), bits))
    BY <1>4 DEF NewValue
  <2>4. v.json = "string" /\ v.of = RandomizeTraceID(Str(f.value), bits)
    BY <2>3 DEF Value
  <2> QED
    BY <1>4, <2>1, <2>2, <2>4
<1>5. CASE /\ ~TimeAsked(c, e, f.path) /\ ~IDAsked(c, f)
           /\ TextAsked(c, e.objectType, f.path)
  <2>1. TextFrom(Str(f.value), bits, RandomizeASCII(Str(f.value), bits))
    BY <1>1, TextRandomized
  <2>2. v = Value("string", RandomizeASCII(Str(f.value), bits))
    BY <1>5 DEF NewValue
  <2>3. v.json = "string" /\ v.of = RandomizeASCII(Str(f.value), bits)
    BY <2>2 DEF Value
  <2> QED
    BY <1>5, <2>1, <2>3
<1>6. CASE /\ ~TimeAsked(c, e, f.path) /\ ~IDAsked(c, f)
           /\ ~TextAsked(c, e.objectType, f.path)
  BY <1>6 DEF NewValue
<1> QED
  BY <1>3, <1>4, <1>5, <1>6

\* A pass keeps relationships (handler.go:133, "rewritten consistently"):
\* whatever the recording and the random number, two IDs are written equal
\* exactly if they were equal.
THEOREM RelationshipsAreKept == ReplaySpec => []KeepsRelationships
<1>1. Replayed => KeepsRelationships
  <2> SUFFICES ASSUME Replayed,
                      NEW m \in Members, Before(m).path \in IDPaths,
                      Before(m).value.json = "string", IsHex(Before(m).value.of),
                      NEW n \in Members, Before(n).path \in IDPaths,
                      Before(n).value.json = "string", IsHex(Before(n).value.of)
               PROVE  Before(m).value.of = Before(n).value.of
                        <=> After(m).value.of = After(n).value.of
    BY DEF KeepsRelationships
  <2> DEFINE f == Before(m)
             g == Before(n)
             s == f.value.of
             t == g.value.of
             R(x) == RandomizeTraceID(x, random)
  <2>1. loaded => handler \in Loaded(Fields)
    BY HandlerLoaded DEF Replayed
  <2>2. /\ MemberWritten(Fields, EventOf(m), f, After(m))
        /\ MemberWritten(Fields, EventOf(n), g, After(n))
    BY <2>1, MembersAreWritten
  <2> HIDE DEF f, g
  <2>3. f \in FieldSet /\ g \in FieldSet
    BY <2>2 DEF MemberWritten
  <2>4. /\ Str(f.value) = s /\ Str(g.value) = t
        /\ s \in Seq(STRING) /\ t \in Seq(STRING) /\ IsHex(s) /\ IsHex(t)
    <3>1. Str(f.value) = s /\ Str(g.value) = t /\ IsHex(s) /\ IsHex(t)
      BY DEF Str, f, g
    <3> QED
      BY <2>3, <3>1, StrType DEF FieldSet
  <2>5. /\ After(m).value = IF input.config.ids THEN Value("string", R(s)) ELSE f.value
        /\ After(n).value = IF input.config.ids THEN Value("string", R(t)) ELSE g.value
    <3>1. f.path \in IDPaths /\ g.path \in IDPaths
      BY DEF f, g
    <3>2. /\ After(m).value = NewValue(input.config, EventOf(m), handler.minTimestamp,
                                       base, random, f)
          /\ After(n).value = NewValue(input.config, EventOf(n), handler.minTimestamp,
                                       base, random, g)
      BY <2>2, RewrittenIs DEF MemberWritten
    <3> QED
      BY <2>3, <2>4, <3>1, <3>2, NewValueIs
  <2>6. R(s) = R(t) <=> s = t
    BY <2>4, IDRandomized
  <2>7. s = t <=> After(m).value.of = After(n).value.of
    <3>1. CASE input.config.ids
      <4>1. After(m).value.of = R(s) /\ After(n).value.of = R(t)
        BY <2>5, <3>1 DEF Value
      <4> QED
        BY <2>6, <4>1
    <3>2. CASE ~input.config.ids
      BY <2>5, <3>2
    <3> QED
      BY <3>1, <3>2
  <2> QED
    BY <2>7 DEF f, g
<1> QED
  BY <1>1, ReplayedInvariant, PTL

\* A time in microseconds is less than one microsecond before the time.
LEMMA Truncated ==
    ASSUME NEW x \in Nat, NEW M \in Nat \ {0}
    PROVE  /\ (x \div M) * M \in Nat
           /\ x - M < (x \div M) * M /\ (x \div M) * M <= x
<1> DEFINE d == x \div M
           r == x % M
<1>1. d \in Nat /\ r \in 0..(M - 1) /\ x = M * d + r
  OBVIOUS
<1> HIDE DEF d, r
<1>2. d * M = M * d /\ M * d \in Nat
  BY <1>1
<1>3. x - M < M * d /\ M * d <= x
  BY <1>1, <1>2
<1> QED
  BY <1>2, <1>3 DEF d

\* A shifted time, in the unit of the version, is less than one unit before
\* the base and the distance from the first event.
LEMMA ShiftedIs ==
    ASSUME NEW c, NEW t \in Nat, NEW min \in Nat, min <= t, NEW start \in Nat,
           NEW unit, unit = IF c.version = "7x" THEN Micro ELSE 1
    PROVE  /\ unit \in Nat \ {0} /\ Shifted(c, t, min, start).of * unit \in Int
           /\ start + t - min - unit < Shifted(c, t, min, start).of * unit
           /\ Shifted(c, t, min, start).of * unit <= start + t - min
<1> DEFINE x == start + t - min
<1>1. x \in Nat /\ Micro \in Nat \ {0}
  BY ReplayAssumption
<1>2. CASE c.version = "7x"
  <2>1. Shifted(c, t, min, start).of = x \div Micro /\ unit = Micro
    BY <1>2 DEF Shifted, Value
  <2> HIDE DEF x
  <2>2. /\ (x \div Micro) * Micro \in Nat
        /\ x - Micro < (x \div Micro) * Micro /\ (x \div Micro) * Micro <= x
    BY <1>1, Truncated
  <2> QED
    BY <1>1, <2>1, <2>2 DEF x
<1>3. CASE c.version # "7x"
  <2>1. Shifted(c, t, min, start).of = x /\ unit = 1
    BY <1>3 DEF Shifted, Value
  <2> QED
    BY <1>1, <2>1
<1> QED
  BY <1>2, <1>3

\* What is written of a timestamp: when rewriting is asked for, a time that
\* keeps the distance of the event from the first one.
TimeKept(m, unit) ==
    LET t == Min(EventOf(m).timestamp)
        first == Min(handler.minTimestamp)
    IN  /\ t \in Nat /\ first \in Nat /\ first <= t /\ handler.minTimestamp = {first}
        /\ After(m).value.of * unit \in Int
        /\ base + t - first - unit < After(m).value.of * unit
        /\ After(m).value.of * unit <= base + t - first

\* The timestamps of a pass are the recorded ones, moved to its base.
LEMMA TimesAreKept ==
    ASSUME Replayed, input.config.timestamps,
           NEW m \in Members, Before(m).path = <<"timestamp">>,
           NEW unit, unit = IF input.config.version = "7x" THEN Micro ELSE 1
    PROVE  /\ unit \in Nat \ {0} /\ base \in Nat
           /\ EventOf(m).timestamp # {} => TimeKept(m, unit)
           /\ EventOf(m).timestamp = {} => After(m).value = Before(m).value
<1> DEFINE e == EventOf(m)
           f == Before(m)
           c == input.config
           T == e.timestamp
           t == Min(T)
           first == Min(handler.minTimestamp)
<1>1. loaded => handler \in Loaded(Fields)
  BY HandlerLoaded DEF Replayed
<1>2. MemberWritten(Fields, e, f, After(m))
  BY <1>1, MembersAreWritten
<1> HIDE DEF e, f
<1>3. /\ e \in EventSet(Fields) /\ f \in FieldSet /\ base \in Nat
      /\ handler \in Loaded(Fields)
      /\ \A x \in T : \E y \in handler.minTimestamp : y <= x
      /\ After(m).value = NewValue(c, e, handler.minTimestamp, base, random, f)
  BY <1>2, RewrittenIs DEF MemberWritten
<1>4. After(m).value = IF T # {} THEN Shifted(c, t, first, base) ELSE f.value
  <2>1. f.path = <<"timestamp">>
    BY DEF f
  <2> QED
    BY <1>3, <2>1, NewValueIs
<1>5. unit \in Nat \ {0}
  BY ReplayAssumption
<1>6. CASE T = {}
  BY <1>3, <1>4, <1>5, <1>6 DEF e, f
<1>7. CASE T # {}
  <2>1. T \in SUBSET Nat
    BY <1>3 DEF EventSet
  <2> HIDE DEF T
  <2>2. PICK l \in T : LeastOf(T) = {l}
    BY <1>7, <2>1, LeastOfIs
  <2>3. l \in Nat /\ LeastOf(T) = {t}
    BY <1>7, <2>1, <2>2 DEF LeastOf
  <2>4. t = l /\ t \in Nat /\ t \in T
    BY <2>2, <2>3
  <2>5. PICK y \in handler.minTimestamp : y <= t
    BY <1>3, <2>4
  <2>6. handler.minTimestamp = {y} /\ y \in Nat
    <3>1. PICK x \in Nat : handler.minTimestamp \subseteq {x}
      BY <1>3 DEF Loaded, NoneEarlier
    <3> QED
      BY <2>5, <3>1
  <2>7. first = y
    <3>1. {y} \in SUBSET Int /\ y \in {y} /\ \A x \in {y} : y <= x
      BY <2>6
    <3>2. Min({y}) = y
      BY <3>1, MinIs
    <3> QED
      BY <2>6, <3>2
  <2>8. After(m).value = Shifted(c, t, first, base)
    BY <1>4, <1>7
  <2> HIDE DEF t, first, c
  <2>9. /\ After(m).value.of * unit \in Int
        /\ base + t - first - unit < After(m).value.of * unit
        /\ After(m).value.of * unit <= base + t - first
    <3>1. unit = IF c.version = "7x" THEN Micro ELSE 1
      BY DEF c
    <3>2. /\ Shifted(c, t, first, base).of * unit \in Int
          /\ base + t - first - unit < Shifted(c, t, first, base).of * unit
          /\ Shifted(c, t, first, base).of * unit <= base + t - first
      BY <1>3, <2>4, <2>5, <2>6, <2>7, <3>1, ShiftedIs
    <3> QED
      BY <2>8, <3>2
  <2>10. TimeKept(m, unit)
    BY <2>4, <2>5, <2>6, <2>7, <2>9 DEF TimeKept, t, first, T, e
  <2> QED
    BY <1>3, <1>5, <1>7, <2>10 DEF T, e
<1> QED
  BY <1>6, <1>7

\* The distances between two times that have been moved are kept, in the unit.
LEMMA Distances ==
    ASSUME NEW unit \in Nat \ {0}, NEW start \in Nat, NEW first \in Nat,
           NEW t \in Nat, NEW u \in Nat, first <= t, first <= u,
           NEW x \in Int, start + t - first - unit < x, x <= start + t - first,
           NEW y \in Int, start + u - first - unit < y, y <= start + u - first
    PROVE  /\ t = first => x - start \in (1 - unit)..(unit - 1)
           /\ x > start - unit
           /\ (x - y) - (t - u) \in (1 - unit)..(unit - 1)
  OBVIOUS

\* A pass keeps distances in time (handler.go:116): for every recording and
\* base, an event is written as long after the first one as it was recorded,
\* and none before the pass, each to one unit of the target version.
THEOREM OffsetsAreKept == ReplaySpec => []KeepsOffsets
<1>1. Replayed => KeepsOffsets
  <2> SUFFICES ASSUME Replayed, input.config.timestamps PROVE KeepsOffsets
    BY DEF KeepsOffsets
  <2> DEFINE unit == IF input.config.version = "7x" THEN Micro ELSE 1
             timed == {m \in Members : /\ Before(m).path = <<"timestamp">>
                                       /\ EventOf(m).timestamp # {}}
             Was(m) == Min(EventOf(m).timestamp)
             Is(m) == After(m).value.of * unit
             Near(x, y) == x - y \in (1 - unit)..(unit - 1)
             first == Min(handler.minTimestamp)
  <2>1. \A m \in timed : unit \in Nat \ {0} /\ base \in Nat /\ TimeKept(m, unit)
    BY TimesAreKept
  <2>2. \A m \in Members \ timed : Before(m).path = <<"timestamp">> =>
          After(m).value = Before(m).value
    BY TimesAreKept
  <2>3. ASSUME NEW m \in timed, NEW n \in timed
        PROVE  /\ {Was(m)} = handler.minTimestamp => Near(Is(m), base)
               /\ Is(m) > base - unit
               /\ Near(Is(m) - Is(n), Was(m) - Was(n))
    <3> HIDE DEF unit
    <3>1. /\ unit \in Nat \ {0} /\ base \in Nat /\ first \in Nat
          /\ Was(m) \in Nat /\ Was(n) \in Nat /\ first <= Was(m) /\ first <= Was(n)
          /\ handler.minTimestamp = {first} /\ Is(m) \in Int /\ Is(n) \in Int
          /\ base + Was(m) - first - unit < Is(m) /\ Is(m) <= base + Was(m) - first
          /\ base + Was(n) - first - unit < Is(n) /\ Is(n) <= base + Was(n) - first
      BY <2>1 DEF TimeKept
    <3> HIDE DEF Was, Is, first
    <3>2. /\ Was(m) = first => Is(m) - base \in (1 - unit)..(unit - 1)
          /\ Is(m) > base - unit
          /\ (Is(m) - Is(n)) - (Was(m) - Was(n)) \in (1 - unit)..(unit - 1)
      BY <3>1, Distances
    <3> QED
      BY <3>1, <3>2
  <2>4. \A m \in Members \ timed : Before(m).path = <<"timestamp">> =>
          SameValue(Before(m).value, After(m).value)
    BY <2>2 DEF SameValue
  <2>5. /\ \A m \in timed :
             /\ {Was(m)} = handler.minTimestamp => Near(Is(m), base)
             /\ Is(m) > base - unit
             /\ \A n \in timed : Near(Is(m) - Is(n), Was(m) - Was(n))
        /\ \A m \in Members \ timed : Before(m).path = <<"timestamp">> =>
             SameValue(Before(m).value, After(m).value)
    <3> HIDE DEF Was, Is, Near, unit, timed
    <3> QED
      BY <2>3, <2>4
  <2> QED
    BY <2>5 DEF KeepsOffsets
<1> QED
  BY <1>1, ReplayedInvariant, PTL

\* A sequence is one of the set that all its elements are in.
LEMMA ElementsIn ==
    ASSUME NEW S, NEW s \in Seq(S), NEW T, \A i \in 1..Len(s) : s[i] \in T
    PROVE  s \in Seq(T)
<1>1. s \in [1..Len(s) -> T] /\ Len(s) \in Nat
  <2>1. s \in [1..Len(s) -> S] /\ Len(s) \in Nat
    BY LenProperties
  <2> QED
    BY <2>1
<1>2. s \in UNION {[1..n -> T] : n \in Nat}
  BY <1>1
<1> QED
  BY <1>2, SeqDef

\* The fields in which what leads to the name of a target is objects.
Unbroken(c) == {fs \in Fields : \A f \in ToSet(fs) : ~NoObject(c, f)}

\* New loads such fields from files of such lines.
LEMMA HandlerUnbroken ==
    Types /\ loaded /\ TargetsAreObjects => handler \in Loaded(Unbroken(input.config))
<1> SUFFICES ASSUME Types, loaded, TargetsAreObjects
             PROVE  handler \in Loaded(Unbroken(input.config))
  OBVIOUS
<1> DEFINE FS == Unbroken(input.config)
           files == input.files
<1>1. /\ handler = New(files) /\ files \in Seq(Seq(InputLines)) /\ input \in Inputs
  BY InputAssumption DEF Types
<1>2. DOMAIN files = 1..Len(files)
  BY <1>1, LenProperties
<1>3. ASSUME NEW n \in 1..Len(files) PROVE files[n] \in Seq(RawLines(FS))
  <2> DEFINE q == files[n]
  <2>1. q \in Seq(InputLines)
    BY <1>1, ElementOfSeq
  <2>2. DOMAIN q = 1..Len(q)
    BY <2>1, LenProperties
  <2>3. ASSUME NEW i \in 1..Len(q) PROVE q[i] \in RawLines(FS)
    <3>1. q[i] \in InputLines
      BY <2>1, <2>3, ElementOfSeq
    <3>2. q[i].fields \in Fields
      BY <3>1 DEF InputLines
    <3>3. \A f \in ToSet(q[i].fields) : ~NoObject(input.config, f)
      BY <1>1, <1>2, <2>2 DEF TargetsAreObjects, NoObject
    <3>4. q[i].fields \in FS
      BY <3>2, <3>3 DEF Unbroken
    <3> QED
      BY <3>1, <3>4 DEF RawLines
  <2> HIDE DEF q
  <2>4. q \in Seq(RawLines(FS))
    BY <2>1, <2>3, ElementsIn
  <2> QED
    BY <2>4 DEF q
<1>4. FS \in SUBSET Fields
  BY DEF Unbroken
<1> HIDE DEF files, FS
<1>5. files \in Seq(Seq(RawLines(FS)))
  BY <1>1, <1>3, ElementsIn
<1>6. New(files) \in Loaded(FS)
  BY <1>4, <1>5, NewType
<1> QED
  BY <1>1, <1>6 DEF FS

\* A written batch has its metadata and a line for each event, and each line
\* has the members of the event.
LEMMA BatchKept ==
    ASSUME Replayed, NEW k \in DOMAIN written
    PROVE  /\ Len(written[k]) = Len(Events(k)) + 1
           /\ \A i \in DOMAIN Events(k) : Len(written[k][i + 1]) = Len(Events(k)[i].payload)
           /\ handler.batches[k].metadata \in Seq(FieldSet)
           /\ random \in Seq({0, 1}) \ {<<>>}
           /\ FieldsWritten(AskedPaths(input.config), handler.batches[k].metadata, random,
                            written[k][1])
<1> DEFINE b == handler.batches[k]
           o == written[k]
           q == b.events
           c == input.config
           min == handler.minTimestamp
<1>1. loaded => handler \in Loaded(Fields)
  BY HandlerLoaded DEF Replayed
<1>2. /\ b \in BatchSet(Fields) /\ WrittenFor(c, min, base, random, b, o)
      /\ random \in Seq({0, 1}) \ {<<>>}
  BY <1>1, WrittenAre
<1>3. Events(k) = q
  BY DEF Events
<1> HIDE DEF b, o, c, min
<1>4. /\ q \in Seq(EventSet(Fields)) /\ DOMAIN q = 1..Len(q)
      /\ b.metadata \in Seq(FieldSet)
  <2>1. q \in Seq(EventSet(Fields)) /\ b.metadata \in Seq(FieldSet)
    BY <1>2 DEF BatchSet, Fields, FieldSet
  <2> HIDE DEF q
  <2>2. DOMAIN q = 1..Len(q)
    BY <2>1, LenProperties
  <2> QED
    BY <2>1, <2>2
<1>5. ASSUME NEW i \in DOMAIN q PROVE Len(o[i + 1]) = Len(q[i].payload)
  <2>1. i \in 1..Len(q) /\ q[i] \in EventSet(Fields)
    BY <1>4, ElementOfSeq
  <2>2. q[i].payload \in Seq(FieldSet)
    BY <2>1 DEF EventSet, Fields, FieldSet
  <2>3. Len(q[i].payload) \in Nat
    BY <2>2, LenProperties
  <2> DEFINE n == Len(q[i].payload)
             l == Line(c, min, base, random, q[i])
             R(j) == Rewritten(c, q[i], min, base, random, q[i].payload[j])
  <2>4. l = [j \in 1..n |-> R(j)]
    BY DEF Line
  <2>5. o[i + 1] = l
    BY <1>2, <2>1 DEF WrittenFor
  <2> HIDE DEF n, l, R
  <2>6. l = [j \in 1..n |-> l[j]]
    BY <2>4
  <2>7. Len(l) = n
    BY <2>3, <2>6, FunctionIsSeq DEF n
  <2> QED
    BY <2>5, <2>7 DEF n
<1>6. Len(o) = Len(q) + 1 /\ FieldsWritten(AskedPaths(c), b.metadata, random, o[1])
  BY <1>2 DEF WrittenFor
<1> HIDE DEF q
<1>7. Events(k) = q /\ o = written[k] /\ b = handler.batches[k] /\ c = input.config
  BY <1>3 DEF o, b, c
<1> QED
  BY <1>2, <1>4, <1>5, <1>6, <1>7

\* The value of a member is written as asked: from how it is written, by its
\* path, and what the options are.
LEMMA MemberAsAsked ==
    ASSUME NEW e, NEW f \in FieldSet, random \in Seq({0, 1}) \ {<<>>},
           NEW v, v = NewValue(input.config, e, handler.minTimestamp, base, random, f)
    PROVE  ValueAsAsked(e, f.path, f.value, v)
<1> DEFINE c == input.config
           asked == Asked(e.objectType, f.path)
           text == asked /\ f.value.json = "string" /\ f.path # <<"timestamp">>
           time == TimeAsked(c, e, f.path)
           id == IDAsked(c, f)
           name == TextAsked(c, e.objectType, f.path)
<1>1. /\ time => v.json = IF c.version = "7x" THEN "number" ELSE "time"
      /\ id => v.json = "string" /\ IDFrom(Str(f.value), random, v.of)
      /\ name => v.json = "string" /\ TextFrom(Str(f.value), random, v.of)
      /\ time \/ id \/ name \/ v = f.value
  BY ValueIs
<1>2. /\ f.path = <<"timestamp">> => f.path \notin IDPaths
      /\ f.path \in IDPaths \cup {<<"timestamp">>} =>
           f.path # <<"name">> /\ f.path # <<"type">> /\ f.path # TargetName
  BY PathsDiffer DEF FieldSet
<1>3. f.value.json = "string" => Str(f.value) = f.value.of
  BY DEF Str
<1>4. /\ time => asked /\ f.path = <<"timestamp">> /\ e.timestamp # {}
      /\ id => asked /\ f.path \in IDPaths /\ IsHex(Str(f.value))
      /\ name => asked /\ f.path \notin IDPaths \cup {<<"timestamp">>}
  BY <1>2 DEF TimeAsked, IDAsked, TextAsked, RewritesName, Asked, IDPaths, TargetName
<1>5. /\ asked /\ f.path = <<"timestamp">> /\ e.timestamp # {} => time
      /\ asked /\ f.path \in IDPaths /\ IsHex(Str(f.value)) => id
      /\ asked /\ f.path \notin IDPaths \cup {<<"timestamp">>} => name
  <2>1. asked => \/ c.timestamps /\ f.path = <<"timestamp">>
                 \/ c.ids /\ f.path \in IDPaths
                 \/ TextAsked(c, e.objectType, f.path)
    BY DEF Asked, IDPaths, TextAsked, RewritesName, TargetName
  <2>2. name => f.path \notin IDPaths \cup {<<"timestamp">>}
    BY <1>2 DEF TextAsked
  <2> QED
    BY <1>2, <2>1, <2>2 DEF TimeAsked, IDAsked
<1>6. v = f.value => SameValue(f.value, v)
  BY DEF SameValue
<1>7. id /\ f.value.json = "string" => Adjusted(f.value, v)
  BY <1>1, <1>3 DEF IDFrom, Adjusted
<1>8. name /\ f.value.json = "string" => Randomized(f.value, v)
  <2> SUFFICES ASSUME name, f.value.json = "string" PROVE Randomized(f.value, v)
    OBVIOUS
  <2>1. v.json = "string" /\ TextFrom(f.value.of, random, v.of)
    BY <1>1, <1>3
  <2> QED
    BY <2>1 DEF TextFrom, Randomized
<1> HIDE DEF time, id, name, asked, c
<1>9. ~asked => SameValue(f.value, v)
  BY <1>1, <1>4, <1>6
<1>10. f.path = <<"timestamp">> /\ e.timestamp = {} => SameValue(f.value, v)
  BY <1>1, <1>2, <1>4, <1>6
<1>11. text /\ f.path \in IDPaths /\ ~IsHex(f.value.of) => SameValue(f.value, v)
  BY <1>1, <1>2, <1>3, <1>4, <1>6
<1>12. asked /\ f.path = <<"timestamp">> /\ e.timestamp # {} =>
         v.json = IF c.version = "7x" THEN "number" ELSE "time"
  BY <1>1, <1>5
<1>13. text /\ f.path \in IDPaths /\ IsHex(f.value.of) => Adjusted(f.value, v)
  BY <1>3, <1>5, <1>7
<1>14. text /\ f.path \notin IDPaths => Randomized(f.value, v)
  BY <1>5, <1>8
<1> QED
  BY <1>9, <1>10, <1>11, <1>12, <1>13, <1>14 DEF ValueAsAsked, asked, c

\* A field of the metadata is written as asked.
LEMMA FieldAsAsked ==
    ASSUME NEW was \in Seq(FieldSet), random \in Seq({0, 1}) \ {<<>>},
           NEW is, FieldsWritten(AskedPaths(input.config), was, random, is),
           NEW j \in DOMAIN was
    PROVE  /\ is[j].path = was[j].path
           /\ j \notin FirstAsked(was) => SameValue(was[j].value, is[j].value)
           /\ j \in FirstAsked(was) /\ was[j].value.json = "string" =>
                Randomized(was[j].value, is[j].value)
<1> DEFINE path == was[j].path
           o == TextField(was[j], random)
<1>0. DOMAIN was = 1..Len(was) /\ was[j] \in FieldSet
  BY LenProperties, ElementOfSeq
<1>1. is[j] = IF path \in AskedPaths(input.config) /\ IsFirst(was, j, path)
              THEN o ELSE was[j]
  BY <1>0 DEF FieldsWritten
<1>2. j \in FirstAsked(was) <=>
        path \in AskedPaths(input.config) /\ IsFirst(was, j, path)
  BY DEF FirstAsked, AskedOfMetadata, AskedPaths, IsFirst
<1>3. /\ o.path = path /\ o.value.json = "string"
      /\ o.value.of = RandomizeASCII(Str(was[j].value), random)
  BY DEF TextField, Member, Value
<1>4. was[j].value.json = "string" => Randomized(was[j].value, o.value)
  <2> SUFFICES ASSUME was[j].value.json = "string" PROVE Randomized(was[j].value, o.value)
    OBVIOUS
  <2>1. Str(was[j].value) = was[j].value.of
    BY DEF Str
  <2>2. TextFrom(was[j].value.of, random, o.value.of)
    BY <1>0, <1>3, <2>1, StrType, TextRandomized DEF FieldSet
  <2> HIDE DEF o
  <2> QED
    BY <1>3, <2>2 DEF TextFrom, Randomized
<1> HIDE DEF o
<1>5. SameValue(was[j].value, was[j].value)
  BY DEF SameValue
<1> QED
  BY <1>1, <1>2, <1>3, <1>4, <1>5

\* A pass writes the recording as asked (Config, handler.go:111-158): whatever
\* is recorded and drawn, a member no option names is what it was, a timestamp
\* has the type of the target version, a digit of an ID is XORed with its bits,
\* a letter or digit of a name or type becomes the one of its class that the
\* bits of its place say, and nothing is lost, repeated or moved.  It is so
\* where what leads to the name of a target is objects; for the rest, what is
\* written is no JSON (WritesJSON).
THEOREM WritesWhatIsAsked == TargetsAreObjects => (ReplaySpec => []WritesAsAsked)
<1> SUFFICES ASSUME TargetsAreObjects PROVE ReplaySpec => []WritesAsAsked
  OBVIOUS
<1>1. Replayed => WritesAsAsked
  <2> SUFFICES ASSUME Replayed PROVE WritesAsAsked
    OBVIOUS
  <2> DEFINE c == input.config
             FS == Unbroken(c)
  <2>1. (loaded => handler \in Loaded(FS)) /\ FS \in SUBSET Fields
    BY HandlerUnbroken DEF Replayed, Unbroken
  <2>2. \A k \in DOMAIN written :
          /\ Len(written[k]) = Len(Events(k)) + 1
          /\ \A i \in DOMAIN Events(k) :
               Len(written[k][i + 1]) = Len(Events(k)[i].payload)
    BY BatchKept
  <2>3. ASSUME NEW m \in Members
        PROVE  /\ After(m).path = Before(m).path
               /\ ValueAsAsked(EventOf(m), Before(m).path, Before(m).value, After(m).value)
    <3> DEFINE e == EventOf(m)
               f == Before(m)
               v == After(m).value
               min == handler.minTimestamp
    <3>1. MemberWritten(FS, e, f, After(m))
      BY <2>1, MembersAreWritten
    <3> HIDE DEF e, f, FS
    <3>2. /\ e \in EventSet(FS) /\ f \in FieldSet /\ f \in ToSet(e.payload)
          /\ random \in Seq({0, 1}) \ {<<>>}
          /\ After(m) = Rewritten(c, e, min, base, random, f)
      BY <3>1 DEF MemberWritten
    <3>3. ~NoObject(c, f)
      BY <3>2 DEF EventSet, FS, Unbroken
    <3>4. After(m).path = f.path /\ v = NewValue(c, e, min, base, random, f)
      BY <3>2, <3>3, RewrittenIs
    <3> HIDE DEF v
    <3>5. ValueAsAsked(e, f.path, f.value, v)
      BY <3>2, <3>4, MemberAsAsked
    <3> QED
      BY <3>4, <3>5 DEF e, f, v
  <2>4. ASSUME NEW k \in DOMAIN written
        PROVE  LET was == handler.batches[k].metadata
                   is == written[k][1]
               IN  /\ Len(is) = Len(was)
                   /\ \A j \in DOMAIN was :
                        /\ is[j].path = was[j].path
                        /\ j \notin FirstAsked(was) => SameValue(was[j].value, is[j].value)
                        /\ j \in FirstAsked(was) /\ was[j].value.json = "string" =>
                             Randomized(was[j].value, is[j].value)
    <3> DEFINE was == handler.batches[k].metadata
               is == written[k][1]
    <3>1. /\ was \in Seq(FieldSet) /\ random \in Seq({0, 1}) \ {<<>>}
          /\ FieldsWritten(AskedPaths(c), was, random, is)
      BY BatchKept
    <3> HIDE DEF was, is
    <3>2. Len(is) = Len(was)
      BY <3>1 DEF FieldsWritten
    <3>3. \A j \in DOMAIN was :
            /\ is[j].path = was[j].path
            /\ j \notin FirstAsked(was) => SameValue(was[j].value, is[j].value)
            /\ j \in FirstAsked(was) /\ was[j].value.json = "string" =>
                 Randomized(was[j].value, is[j].value)
      BY <3>1, FieldAsAsked
    <3> QED
      BY <3>2, <3>3 DEF was, is
  <2> HIDE DEF c, FS
  <2> QED
    BY <2>2, <2>3, <2>4 DEF WritesAsAsked
<1> QED
  BY <1>1, ReplayedInvariant, PTL

=============================================================================
