---------------------------- MODULE StoreProofs ----------------------------
(***************************************************************************)
(* The store is free of data races, and it implements MetricsLog, for any  *)
(* number of clients, configurations and payloads.  The proof goes from    *)
(* the lock inwards:                                                       *)
(*                                                                         *)
(*   IInv     who holds the lock, and that a reader sees one state;        *)
(*   CallInv  how far a client is through its payload or its keys;         *)
(*   DataInv  that the maps stand for the log with what the writer has     *)
(*            merged so far: Reflects relates each entry to the data       *)
(*            points of its group (NumberEntry, HistogramEntry).           *)
(*                                                                         *)
(* That an incremental aggregate is the one over all data points at once   *)
(* is a step of DataInv for each type of aggregation (NumberGrows,         *)
(* HistogramGrows), and that reading an entry gives the value that         *)
(* MetricsLog defines is ReadIsReport.                                     *)
(***************************************************************************)
EXTENDS Store, DataLemmas

Places == {"idle", "lock", "rlock", "writing", "reading"}

\* As much typing as the lock needs.
LockType ==
    /\ pc \in [Clients -> Places]
    /\ DOMAIN reply = Clients
    /\ readers \subseteq Clients
    /\ writer \in Clients \cup {NoClient}

\* Who writes holds the write lock, who reads is among the readers, and a
\* writer is alone.
Held ==
    /\ \A c \in Clients : pc[c] = "writing" <=> writer = c
    /\ \A c \in Clients : pc[c] = "reading" <=> c \in readers
    /\ writer # NoClient => readers = {}

\* A reader that is let in when a writer leaves has read nothing before.
Fresh == \A c \in Clients : pc[c] = "rlock" => DOMAIN reply[c] = {}

IInv == LockType /\ Held /\ Fresh /\ SnapshotReply

\* Nobody holds the lock at first.
LEMMA InitInv == Init => IInv
  BY StoreAssumption DEF Init, IInv, LockType, Places, Held, Fresh,
     SnapshotReply, NoEntries

\* The lock protocol, without what is stored.
LEMMA LockStep ==
    ASSUME LockType, Held, [Next]_vars
    PROVE  LockType' /\ Held'
<1> USE StoreAssumption DEF LockType, Held, Places, Goto
<1>1. ASSUME NEW c \in Clients, NEW what, NEW p, CallWriter(c, what, p)
      PROVE  LockType' /\ Held'
  BY <1>1 DEF CallWriter, lock
<1>2. ASSUME NEW c \in Clients, Lock(c) PROVE LockType' /\ Held'
  BY <1>2 DEF Lock, call
<1>3. ASSUME NEW c \in Clients, Add(c) PROVE LockType' /\ Held'
  BY <1>3 DEF Add, lock
<1>4. ASSUME NEW c \in Clients, pc[c] = "writing", Unlock(c)
      PROVE  LockType' /\ Held'
  <2>1. writer = c /\ readers = {} /\ c \notin Waiting /\ Waiting \subseteq Clients
    BY <1>4 DEF Waiting
  <2>2. LockType'
    BY <1>4, <2>1 DEF Unlock
  <2>3. ASSUME NEW x \in Clients
        PROVE  /\ pc'[x] # "writing"
               /\ pc'[x] = "reading" <=> x \in Waiting
    BY <1>4, <2>1 DEF Unlock, Waiting
  <2> QED
    BY <1>4, <2>2, <2>3 DEF Unlock
<1>5. ASSUME NEW c \in Clients, AddDone(c) \/ Forget(c)
      PROVE  LockType' /\ Held'
  BY <1>4, <1>5 DEF AddDone, Forget
<1>6. ASSUME NEW c \in Clients, NEW keys, CallReader(c, keys)
      PROVE  LockType' /\ Held'
  BY <1>6 DEF CallReader
<1>7. ASSUME NEW c \in Clients, Get(c) PROVE LockType' /\ Held'
  BY <1>7 DEF Get, lock
<1>8. ASSUME NEW c \in Clients, GetDone(c) PROVE LockType' /\ Held'
  BY <1>8 DEF GetDone, call
<1>9. CASE UNCHANGED vars
  BY <1>9 DEF vars
<1> QED
  BY <1>1, <1>2, <1>3, <1>5, <1>6, <1>7, <1>8, <1>9 DEF Next, Call, Work

\* Who merges or forgets holds the write lock, so nobody is reading.
LEMMA NobodyReads ==
    ASSUME LockType, Held, NEW c \in Clients, pc[c] = "writing"
    PROVE  \A x \in Clients : pc[x] # "reading"
  BY StoreAssumption DEF LockType, Held

\* Replies agree with the maps they were read from, step by step.
LEMMA ReplyStep ==
    ASSUME IInv, [Next]_vars
    PROVE  Fresh' /\ SnapshotReply'
<1>0. LockType /\ Held /\ Fresh /\ SnapshotReply
  BY DEF IInv
<1> USE DEF Goto
<1>1. ASSUME UNCHANGED <<nums, hists, reply>>,
             \A x \in Clients : pc'[x] = "rlock" => pc[x] = "rlock",
             \A x \in Clients : pc'[x] = "reading" => pc[x] \in {"reading", "rlock"}
      PROVE  Fresh' /\ SnapshotReply'
  <2>1. \A j : Read(j)' = Read(j)
    BY <1>1 DEF Read
  <2>2. \A x \in Clients : pc'[x] = "reading" /\ pc[x] # "reading" =>
                             DOMAIN reply[x] = {}
    BY <1>0, <1>1 DEF Fresh
  <2>3. Fresh'
    BY <1>0, <1>1 DEF Fresh
  <2> QED
    BY <1>0, <1>1, <2>1, <2>2, <2>3 DEF SnapshotReply
<1>2. ASSUME NEW c \in Clients, NEW what, NEW p, CallWriter(c, what, p)
      PROVE  Fresh' /\ SnapshotReply'
  <2>1. /\ UNCHANGED <<nums, hists>> /\ pc'[c] = "lock"
        /\ \A x \in Clients \ {c} : pc'[x] = pc[x] /\ reply'[x] = reply[x]
    BY <1>0, <1>2 DEF CallWriter, data, LockType
  <2>2. \A j : Read(j)' = Read(j)
    BY <2>1 DEF Read
  <2> QED
    BY <1>0, <2>1, <2>2 DEF Fresh, SnapshotReply
<1>3. ASSUME NEW c \in Clients, Lock(c) PROVE Fresh' /\ SnapshotReply'
  BY <1>0, <1>1, <1>3 DEF Lock, data, call, LockType
<1>4. ASSUME NEW c \in Clients, Add(c) PROVE Fresh' /\ SnapshotReply'
  <2>1. \A x \in Clients : pc[x] # "reading"
    BY <1>0, <1>4, NobodyReads DEF Add
  <2> QED
    BY <1>0, <1>4, <2>1 DEF Add, Fresh, SnapshotReply
<1>5. ASSUME NEW c \in Clients, AddDone(c) PROVE Fresh' /\ SnapshotReply'
  BY <1>0, <1>1, <1>5 DEF AddDone, Unlock, Waiting, LockType
<1>6. ASSUME NEW c \in Clients, Forget(c) PROVE Fresh' /\ SnapshotReply'
  <2>1. \A x \in Clients : pc'[x] = "reading" => pc[x] = "rlock"
    BY <1>0, <1>6, NobodyReads DEF Forget, Unlock, Waiting, LockType
  <2>2. \A x \in Clients : pc'[x] = "rlock" => pc[x] = "rlock"
    BY <1>0, <1>6 DEF Forget, Unlock, Waiting, LockType
  <2>3. reply' = reply
    BY <1>6 DEF Forget, Unlock
  <2> QED
    BY <1>0, <2>1, <2>2, <2>3 DEF Fresh, SnapshotReply
<1>7. ASSUME NEW c \in Clients, NEW keys, CallReader(c, keys)
      PROVE  Fresh' /\ SnapshotReply'
  <2>1. /\ UNCHANGED <<nums, hists>> /\ DOMAIN reply'[c] = {}
        /\ \A x \in Clients \ {c} : pc'[x] = pc[x] /\ reply'[x] = reply[x]
    BY <1>0, <1>7 DEF CallReader, data, LockType, NoEntries
  <2>2. \A j : Read(j)' = Read(j)
    BY <2>1 DEF Read
  <2> QED
    BY <1>0, <2>1, <2>2 DEF Fresh, SnapshotReply
<1>8. ASSUME NEW c \in Clients, Get(c) PROVE Fresh' /\ SnapshotReply'
  <2>1. PICK k \in ask[c] :
             reply' = [reply EXCEPT ![c] = SetEntry(@, k, Read(k))]
    BY <1>8 DEF Get
  <2>2. /\ UNCHANGED <<nums, hists, pc>> /\ pc[c] = "reading"
        /\ \A x \in Clients \ {c} : reply'[x] = reply[x]
        /\ reply'[c] = SetEntry(reply[c], k, Read(k))
    BY <1>0, <1>8, <2>1 DEF Get, data, LockType
  <2>3. \A j : Read(j)' = Read(j)
    BY <2>2 DEF Read
  <2>4. Fresh'
    BY <1>0, <2>2 DEF Fresh
  <2>5. ASSUME NEW x \in Clients, pc'[x] = "reading", NEW j \in DOMAIN reply'[x]
        PROVE  reply'[x][j] = Read(j)
    <3>1. CASE x = c
      BY <1>0, <2>2, <2>5, <3>1 DEF SetEntry, SnapshotReply
    <3>2. CASE x # c
      BY <1>0, <2>2, <2>5, <3>2 DEF SnapshotReply
    <3> QED
      BY <3>1, <3>2
  <2> QED
    BY <2>3, <2>4, <2>5 DEF SnapshotReply
<1>9. ASSUME NEW c \in Clients, GetDone(c) PROVE Fresh' /\ SnapshotReply'
  BY <1>0, <1>1, <1>9 DEF GetDone, data, call, LockType
<1>10. ASSUME UNCHANGED vars PROVE Fresh' /\ SnapshotReply'
  BY <1>1, <1>10 DEF vars
<1> QED
  BY <1>2, <1>3, <1>4, <1>5, <1>6, <1>7, <1>8, <1>9, <1>10 DEF Next, Call, Work

\* The lock protocol and the replies are as IInv says, for any clients.
THEOREM Invariance == Spec => []IInv
<1>1. IInv /\ [Next]_vars => IInv'
  BY LockStep, ReplyStep DEF IInv
<1> QED
  BY <1>1, InitInv, PTL DEF Spec

\* The RWMutex that Add, GetAll, Get and Reset take keeps a client that
\* changes the maps apart from every other one.
THEOREM RaceFree == Spec => []NoRace
<1>1. IInv => NoRace
  BY StoreAssumption DEF IInv, LockType, Held, NoRace
<1> QED
  BY <1>1, Invariance, PTL

\* GetAll (store.go:201) reads all keys from one state of the store.
THEOREM Snapshot == Spec => []SnapshotReply
<1>1. IInv => SnapshotReply
  BY DEF IInv
<1> QED
  BY <1>1, Invariance, PTL

(***************************************************************************)
(* The entries of a key, and the data points they stand for                *)
(***************************************************************************)
\* A log: data points with numbers.
IsLog(l) ==
    /\ IsFiniteSet(DOMAIN l) /\ DOMAIN l \subseteq Nat \ {0}
    /\ \A n \in DOMAIN l : l[n] \in DataPoints
    /\ l = [n \in DOMAIN l |-> l[n]]

\* A log with one more data point.
Grown(l, m, dp) == [n \in DOMAIN l \cup {m} |-> IF n = m THEN dp ELSE l[n]]

IsLast(m, points) == m \in points /\ \A n \in points : n <= m
IsFirst(m, points) == m \in points /\ \A n \in points : m <= n
Counting(l, points) == {n \in points : l[n].value # 0}
Begun(l, points) == {n \in Counting(l, points) : Log!Beginning(l[n]) # 0}

\* What is kept of a group for a type of aggregation, given its numbers.
NumberEntry(type, l, points, e) ==
    /\ e \in [value : Int, start : Nat, time : Nat]
    /\ type = "last" /\ points # {} =>
         \E m : IsLast(m, points) /\ e.value = l[m].value
    /\ type \in {"sum", "rate"} => e.value = Log!Total(l, points, "value")
    /\ type = "max" =>
         /\ e.value >= 0 /\ \A n \in points : l[n].value <= e.value
         /\ e.value # 0 => \E n \in points : l[n].value = e.value
    /\ type = "rate" =>
         /\ \A n \in Counting(l, points) : l[n].time <= e.time
         /\ e.time # 0 => \E n \in Counting(l, points) : l[n].time = e.time
         /\ IF Begun(l, points) = {} THEN e.start = 0
            ELSE \E m : /\ IsFirst(m, Begun(l, points))
                        /\ e.start = Log!Beginning(l[m])

\* The same for its histograms.
HistogramEntry(type, l, points, e) ==
    /\ DOMAIN e = {"bounds", "count", "sum"}
    /\ type \in {"sum", "percentile"} =>
         IF points = {} THEN e.count = 0
         ELSE /\ e.count \in Nat \ {0} /\ e.sum \in Int
              /\ \E m : IsLast(m, points) /\ e.bounds = l[m].bounds
              /\ e.count = Log!Total(l, Log!LastBounds(l, points), "count")
              /\ e.sum = Log!Total(l, Log!LastBounds(l, points), "sum")

\* The operators of the community modules are those of the abstract module.
LEMMA SameSum ==
    ASSUME NEW f PROVE Log!SumFunction(f) = SumFunctionOnSet(f, DOMAIN f)
  BY DEF Log!SumFunction, Log!SumFunctionOnSet, Log!FoldFunctionOnSet,
         Log!MapThenFoldSet, SumFunctionOnSet, FoldFunctionOnSet, MapThenFoldSet

\* So are the largest and the smallest element.
LEMMA SameMax == ASSUME NEW S PROVE Log!Max(S) = Max(S) /\ Log!Min(S) = Min(S)
  BY DEF Log!Max, Max, Log!Min, Min

\* A total is that of the data points, whatever else the log has.
LEMMA TotalSame ==
    ASSUME NEW l, NEW g, NEW points, \A n \in points : g[n] = l[n], NEW field
    PROVE  Log!Total(g, points, field) = Log!Total(l, points, field)
<1>1. [n \in points |-> g[n][field]] = [n \in points |-> l[n][field]]
  OBVIOUS
<1> QED
  BY <1>1 DEF Log!Total

OneMore(more, points, m) ==
    m \notin points /\ m \in more /\ points \subseteq more /\ more \ {m} \subseteq points
SamePoints(g, l, points) == \A n \in points : g[n] = l[n]

\* One more data point adds its value to a total.
LEMMA TotalGrows ==
    ASSUME NEW l, NEW points, IsFiniteSet(points), NEW field,
           \A n \in points : l[n][field] \in Int,
           NEW g, SamePoints(g, l, points),
           NEW more, NEW m, OneMore(more, points, m), g[m][field] \in Int
    PROVE  /\ Log!Total(l, points, field) \in Int
           /\ Log!Total(g, more, field)
                = Log!Total(l, points, field) + g[m][field]
<1> USE DEF OneMore, SamePoints
<1> DEFINE f == [n \in points |-> l[n][field]]
           h == [n \in more |-> g[n][field]]
<1>1. f \in [points -> Int] /\ DOMAIN f = points
  OBVIOUS
<1>2. h \in [more -> Int] /\ DOMAIN h = more
      /\ h[m] = g[m][field] /\ \A n \in points : h[n] = f[n]
  OBVIOUS
<1>3. /\ Log!Total(l, points, field) = SumFunctionOnSet(f, points)
      /\ Log!Total(g, more, field) = SumFunctionOnSet(h, more)
  BY <1>1, <1>2, SameSum DEF Log!Total
<1>4. IsFiniteSet(more)
  <2>1. more = points \cup {m}
    OBVIOUS
  <2> QED
    BY <2>1, FS_AddElement
<1> HIDE DEF f, h
<1>5. /\ SumFunctionOnSet(f, points) \in Int
      /\ SumFunctionOnSet(h, more) = SumFunctionOnSet(f, points) + h[m]
  BY <1>1, <1>2, <1>4, SumExtend
<1> QED
  BY <1>2, <1>3, <1>5

NumberPoint(dp) == dp.value \in Int /\ dp.start \in Nat /\ dp.time \in Nat

\* Merging the next data point of a group keeps its entry right.
LEMMA NumberGrows ==
    ASSUME NEW l, NEW m \in Nat, DOMAIN l \subseteq Nat,
           \A n \in DOMAIN l : n < m,
           NEW points \in SUBSET DOMAIN l, IsFiniteSet(points),
           \A n \in points : NumberPoint(l[n]),
           NEW dp, NumberPoint(dp),
           NEW type, NEW e, NumberEntry(type, l, points, e)
    PROVE  NumberEntry(type, Grown(l, m, dp), points \cup {m},
                       MergeNumber(type, e, dp))
<1> DEFINE g == Grown(l, m, dp)
           P == points \cup {m}
           to == MergeNumber(type, e, dp)
<1>1. g[m] = dp /\ \A n \in points : g[n] = l[n] /\ n # m /\ n \in Nat /\ n < m
  BY DEF Grown
<1>2. e \in [value : Int, start : Nat, time : Nat]
  BY DEF NumberEntry
<1>3. dp.value \in Int /\ dp.start \in Nat /\ dp.time \in Nat
  BY DEF NumberPoint
<1>4. Log!Total(g, P, "value") = Log!Total(l, points, "value") + dp.value
      /\ Log!Total(l, points, "value") \in Int
  <2>1. \A n \in points : l[n]["value"] \in Int
    BY DEF NumberPoint
  <2>2. OneMore(P, points, m) /\ SamePoints(g, l, points)
    BY <1>1 DEF OneMore, SamePoints
  <2>3. g[m]["value"] \in Int /\ g[m]["value"] = dp.value
    BY <1>1, <1>3
  <2> HIDE DEF g, P
  <2>4. /\ Log!Total(l, points, "value") \in Int
        /\ Log!Total(g, P, "value") = Log!Total(l, points, "value") + g[m]["value"]
    BY <2>1, <2>2, <2>3, TotalGrows
  <2> QED
    BY <2>3, <2>4
<1>5. CASE type = "last"
  <2>1. to = [e EXCEPT !.value = dp.value]
    BY <1>5 DEF MergeNumber
  <2>2. IsLast(m, P)
    BY <1>1 DEF IsLast
  <2> HIDE DEF g, P, to
  <2>3. to \in [value : Int, start : Nat, time : Nat] /\ to.value = dp.value
    BY <1>2, <1>3, <2>1
  <2> QED
    BY <1>1, <1>5, <2>2, <2>3 DEF NumberEntry, g, P, to
<1>6. CASE type = "max"
  <2>1. to = [e EXCEPT !.value = Greater(e.value, dp.value)]
    BY <1>6 DEF MergeNumber
  <2>2. /\ to \in [value : Int, start : Nat, time : Nat]
        /\ to.value = Greater(e.value, dp.value)
    <3> HIDE DEF to
    <3> QED
      BY <1>2, <1>3, <2>1 DEF Greater
  <2>3. /\ e.value >= 0 /\ \A n \in points : l[n].value <= e.value
        /\ e.value # 0 => \E n \in points : l[n].value = e.value
    BY <1>6 DEF NumberEntry
  <2>4. \A n \in points : l[n].value \in Int
    BY DEF NumberPoint
  <2> HIDE DEF g, to
  <2>5. to.value >= 0 /\ \A n \in P : g[n].value <= to.value
    BY <1>1, <1>2, <1>3, <2>2, <2>3, <2>4 DEF Greater
  <2>6. to.value # 0 => \E n \in P : g[n].value = to.value
    BY <1>1, <1>2, <1>3, <2>2, <2>3, <2>4 DEF Greater
  <2> QED
    BY <1>6, <2>2, <2>5, <2>6 DEF NumberEntry, g, to
<1>7. CASE type = "sum"
  <2>1. to = [e EXCEPT !.value = e.value + dp.value]
    BY <1>7 DEF MergeNumber
  <2>2. e.value = Log!Total(l, points, "value")
    BY <1>7 DEF NumberEntry
  <2> HIDE DEF g, to, P
  <2>3. /\ to \in [value : Int, start : Nat, time : Nat]
        /\ to.value = Log!Total(g, P, "value")
    BY <1>2, <1>3, <1>4, <2>1, <2>2
  <2> QED
    BY <1>7, <2>3 DEF NumberEntry, g, to, P
<1>8. CASE type \notin {"last", "max", "sum", "rate"}
  <2>1. to = e
    BY <1>8 DEF MergeNumber
  <2> QED
    BY <1>2, <1>8, <2>1 DEF NumberEntry
<1>9. CASE type = "rate"
  <2>1. to = MergeRate(e, dp)
    BY <1>9 DEF MergeNumber
  <2>2. e.value = Log!Total(l, points, "value")
    BY <1>9 DEF NumberEntry
  <2>3. /\ \A n \in Counting(l, points) : l[n].time <= e.time
        /\ e.time # 0 => \E n \in Counting(l, points) : l[n].time = e.time
    BY <1>9 DEF NumberEntry
  <2>4. IF Begun(l, points) = {} THEN e.start = 0
        ELSE \E n : /\ IsFirst(n, Begun(l, points))
                    /\ e.start = Log!Beginning(l[n])
    BY <1>9 DEF NumberEntry
  <2>5. \A n \in points : l[n].value \in Int /\ l[n].start \in Nat /\ l[n].time \in Nat
    BY DEF NumberPoint
  <2> HIDE DEF g, to
  <2>6. CASE dp.value = 0
    <3>1. to = e
      BY <2>1, <2>6 DEF MergeRate
    <3>2. Counting(g, P) = Counting(l, points)
      BY <1>1, <2>6 DEF Counting
    <3>3. \A n \in Counting(l, points) : g[n] = l[n]
      BY <1>1 DEF Counting
    <3>4. Begun(g, P) = Begun(l, points) /\ \A n \in Begun(l, points) : g[n] = l[n]
      BY <3>2, <3>3 DEF Begun
    <3>5. e.value = Log!Total(g, P, "value")
      BY <1>4, <2>2, <2>6
    <3>6. IF Begun(g, P) = {} THEN e.start = 0
          ELSE \E n : IsFirst(n, Begun(g, P)) /\ e.start = Log!Beginning(g[n])
      BY <2>4, <3>4 DEF IsFirst
    <3>7. /\ \A n \in Counting(g, P) : g[n].time <= e.time
          /\ e.time # 0 => \E n \in Counting(g, P) : g[n].time = e.time
      BY <2>3, <3>2, <3>3
    <3> HIDE DEF P
    <3> QED
      BY <1>2, <1>9, <3>1, <3>5, <3>6, <3>7 DEF NumberEntry, g, to, P
  <2>7. CASE dp.value # 0
    <3> DEFINE start == IF e.start # 0 THEN e.start ELSE Log!Beginning(dp)
    <3>1. to = [value |-> e.value + dp.value, start |-> start,
                time |-> Greater(e.time, dp.time)]
      BY <2>1, <2>7 DEF MergeRate, Log!Beginning
    <3>2. Log!Beginning(dp) \in Nat
      BY <1>3 DEF Log!Beginning
    <3>3. Counting(g, P) = Counting(l, points) \cup {m}
      BY <1>1, <2>7 DEF Counting
    <3>4. \A n \in Counting(l, points) : g[n] = l[n] /\ n < m /\ n \in Nat /\ l[n].time \in Nat
      BY <1>1, <2>5 DEF Counting
    <3>5. Begun(g, P) = IF Log!Beginning(dp) = 0 THEN Begun(l, points)
                        ELSE Begun(l, points) \cup {m}
      BY <1>1, <3>3, <3>4 DEF Begun
    <3>6. \A n \in Begun(l, points) :
             g[n] = l[n] /\ n < m /\ n \in Nat /\ Log!Beginning(l[n]) # 0
      BY <3>4 DEF Begun
    <3>7. to.value = Log!Total(g, P, "value") /\ to.start = start
          /\ to.time = Greater(e.time, dp.time)
          /\ to \in [value : Int, start : Nat, time : Nat]
      BY <1>2, <1>3, <1>4, <2>2, <3>1, <3>2 DEF Greater
    <3>8. /\ \A n \in Counting(g, P) : g[n].time <= to.time
          /\ to.time # 0 => \E n \in Counting(g, P) : g[n].time = to.time
      <4>1. e.time \in Nat /\ e.time <= to.time /\ dp.time <= to.time
            /\ to.time \in {e.time, dp.time}
        BY <1>2, <1>3, <3>7 DEF Greater
      <4>2. ASSUME NEW n \in Counting(g, P) PROVE g[n].time <= to.time
        <5>1. CASE n = m
          BY <1>1, <4>1, <5>1
        <5>2. CASE n # m
          <6>1. n \in Counting(l, points)
            BY <3>3, <5>2
          <6>2. g[n] = l[n] /\ l[n].time \in Nat /\ l[n].time <= e.time
            BY <2>3, <3>4, <6>1
          <6>3. to.time \in Nat
            BY <3>7
          <6> HIDE DEF Counting
          <6> QED
            BY <4>1, <6>2, <6>3
        <5> QED
          BY <5>1, <5>2
      <4>3. ASSUME to.time # 0 PROVE \E n \in Counting(g, P) : g[n].time = to.time
        BY <1>1, <2>3, <3>3, <3>4, <4>1, <4>3
      <4> QED
        BY <4>2, <4>3
    <3>9. IF Begun(g, P) = {} THEN to.start = 0
          ELSE \E n : IsFirst(n, Begun(g, P)) /\ to.start = Log!Beginning(g[n])
      <4>1. CASE Begun(l, points) = {}
        <5>1. to.start = Log!Beginning(dp)
          BY <1>2, <2>4, <3>7, <4>1
        <5>2. CASE Log!Beginning(dp) = 0
          BY <3>5, <4>1, <5>1, <5>2
        <5>3. CASE Log!Beginning(dp) # 0
          <6>1. IsFirst(m, Begun(g, P)) /\ Begun(g, P) # {}
            BY <3>5, <4>1, <5>3 DEF IsFirst
          <6> QED
            BY <1>1, <5>1, <6>1
        <5> QED
          BY <5>2, <5>3
      <4>2. CASE Begun(l, points) # {}
        <5>1. PICK n : /\ IsFirst(n, Begun(l, points))
                       /\ e.start = Log!Beginning(l[n])
          BY <2>4, <4>2
        <5>2. e.start # 0 /\ g[n] = l[n] /\ n < m
          BY <3>6, <5>1 DEF IsFirst
        <5>3. IsFirst(n, Begun(g, P)) /\ Begun(g, P) # {}
          BY <3>5, <3>6, <5>1, <5>2 DEF IsFirst
        <5> QED
          BY <3>7, <5>1, <5>2, <5>3
      <4> QED
        BY <4>1, <4>2
    <3> HIDE DEF P
    <3> QED
      BY <1>9, <3>7, <3>8, <3>9 DEF NumberEntry, g, to, P
  <2> QED
    BY <2>6, <2>7
<1> QED
  BY <1>5, <1>6, <1>7, <1>8, <1>9

HistogramPoint(dp) == dp.count \in Nat \ {0} /\ dp.sum \in Int

\* No data points add up to nothing.
LEMMA TotalEmpty == ASSUME NEW l, NEW field PROVE Log!Total(l, {}, field) = 0
<1>1. DOMAIN [n \in {} |-> l[n][field]] = {}
  OBVIOUS
<1> QED
  BY <1>1, SameSum, SumEmpty DEF Log!Total

\* Merging the next histogram of a group keeps its entry right.
LEMMA HistogramGrows ==
    ASSUME NEW l, NEW m \in Nat, DOMAIN l \subseteq Nat,
           \A n \in DOMAIN l : n < m,
           NEW points \in SUBSET DOMAIN l, IsFiniteSet(points),
           \A n \in points : HistogramPoint(l[n]),
           NEW dp, HistogramPoint(dp),
           NEW type, NEW e, HistogramEntry(type, l, points, e)
    PROVE  HistogramEntry(type, Grown(l, m, dp), points \cup {m},
                          MergeHistogram(type, e, dp))
<1> DEFINE g == Grown(l, m, dp)
           P == points \cup {m}
           to == MergeHistogram(type, e, dp)
<1>1. g[m] = dp /\ \A n \in points : g[n] = l[n] /\ n # m /\ n \in Nat /\ n < m
  BY DEF Grown
<1>2. dp.count \in Nat \ {0} /\ dp.sum \in Int
  BY DEF HistogramPoint
<1>3. DOMAIN e = {"bounds", "count", "sum"}
  BY DEF HistogramEntry
<1>4. CASE type \notin {"sum", "percentile"}
  <2>1. to = e
    BY <1>4 DEF MergeHistogram
  <2> QED
    BY <1>3, <1>4, <2>1 DEF HistogramEntry
<1>5. CASE type \in {"sum", "percentile"}
  <2>1. to = addHistogramDataPoint(e, dp)
    BY <1>5 DEF MergeHistogram
  <2>2. IsLast(m, P) /\ P # {}
    BY <1>1 DEF IsLast
  <2>3. ASSUME NEW field, dp[field] \in Int
        PROVE  Log!Total(g, {m}, field) = dp[field]
    <3>1. OneMore({m}, {}, m) /\ SamePoints(g, l, {}) /\ IsFiniteSet({})
      BY FS_EmptySet DEF OneMore, SamePoints
    <3>2. g[m][field] \in Int /\ g[m][field] = dp[field]
      BY <1>1, <2>3
    <3> HIDE DEF g
    <3>3. Log!Total(g, {m}, field) = Log!Total(l, {}, field) + g[m][field]
      BY <3>1, <3>2, TotalGrows
    <3> QED
      BY <2>3, <3>2, <3>3, TotalEmpty
  <2>4. CASE points = {} \/ \E x : IsLast(x, points) /\ l[x].bounds # dp.bounds
    <3>1. Log!LastBounds(g, P) = {m}
      <4>1. CASE points = {}
        BY <1>1, <4>1 DEF Log!LastBounds
      <4>2. CASE points # {}
        <5>1. PICK x : IsLast(x, points) /\ l[x].bounds # dp.bounds
          BY <2>4, <4>2
        <5>2. x \in points /\ g[x].bounds # g[m].bounds /\ x < m /\ \A n \in points : n <= x
          BY <1>1, <5>1 DEF IsLast
        <5>3. ASSUME NEW n \in points
              PROVE  ~\A k \in P : k >= n => g[k].bounds = g[n].bounds
          BY <1>1, <5>2
        <5>4. \A k \in P : k >= m => g[k].bounds = g[m].bounds
          BY <1>1
        <5> HIDE DEF g
        <5> QED
          BY <5>3, <5>4 DEF Log!LastBounds
      <4> QED
        BY <4>1, <4>2
    <3>2. to = [bounds |-> dp.bounds, count |-> dp.count, sum |-> dp.sum]
      <4>1. points = {} => e.count = 0
        BY <1>5 DEF HistogramEntry
      <4>2. points # {} => e.bounds # dp.bounds
        <5>1. points # {} => \E x : IsLast(x, points) /\ e.bounds = l[x].bounds
          BY <1>5 DEF HistogramEntry
        <5>2. \A x, y : IsLast(x, points) /\ IsLast(y, points) => x = y
          BY <1>1 DEF IsLast
        <5> QED
          BY <2>4, <5>1, <5>2 DEF IsLast
      <4> QED
        BY <2>1, <4>1, <4>2 DEF addHistogramDataPoint
    <3>3. /\ Log!Total(g, {m}, "count") = dp.count
          /\ Log!Total(g, {m}, "sum") = dp.sum
      BY <1>2, <2>3
    <3> HIDE DEF g, to, P
    <3>4. /\ DOMAIN to = {"bounds", "count", "sum"}
          /\ to.bounds = dp.bounds /\ to.count = dp.count /\ to.sum = dp.sum
      BY <3>2
    <3> QED
      BY <1>1, <1>2, <2>2, <3>1, <3>3, <3>4 DEF HistogramEntry, g, to, P
  <2>5. CASE \E x : IsLast(x, points) /\ l[x].bounds = dp.bounds
    <3>0. PICK x : IsLast(x, points) /\ l[x].bounds = dp.bounds
      BY <2>5
    <3>1. x \in points /\ x < m /\ g[x] = l[x] /\ \A n \in points : n <= x
      BY <1>1, <3>0 DEF IsLast
    <3> DEFINE was == Log!LastBounds(l, points)
               is == Log!LastBounds(g, P)
    <3>2. was \subseteq points /\ IsFiniteSet(was)
      BY FS_Subset DEF Log!LastBounds
    <3>3. is = was \cup {m}
      <4>1. m \in is
        BY <1>1 DEF Log!LastBounds
      <4>2. ASSUME NEW n \in was PROVE n \in is
        <5>1. n \in points /\ l[n].bounds = l[x].bounds
          BY <3>1 DEF Log!LastBounds
        <5>2. \A k \in points : k >= n => l[k].bounds = l[n].bounds
          BY DEF Log!LastBounds
        <5>3. \A k \in P : k >= n => g[k].bounds = g[n].bounds
          BY <1>1, <3>0, <5>1, <5>2
        <5> HIDE DEF g, P
        <5> QED
          BY <5>1, <5>3 DEF Log!LastBounds, P
      <4>3. ASSUME NEW n \in points, n \in is PROVE n \in was
        <5>1. \A k \in P : k >= n => g[k].bounds = g[n].bounds
          BY <4>3 DEF Log!LastBounds
        <5>2. \A k \in points : k >= n => l[k].bounds = l[n].bounds
          BY <1>1, <5>1
        <5> QED
          BY <5>2 DEF Log!LastBounds
      <4>4. is \subseteq P
        BY DEF Log!LastBounds
      <4> HIDE DEF is, was
      <4> QED
        BY <3>2, <4>1, <4>2, <4>3, <4>4
    <3>4. OneMore(is, was, m) /\ SamePoints(g, l, was)
      BY <1>1, <3>2, <3>3 DEF OneMore, SamePoints
    <3>5. /\ \A n \in was : l[n]["count"] \in Int /\ l[n]["sum"] \in Int
          /\ g[m]["count"] \in Int /\ g[m]["sum"] \in Int
      BY <1>1, <1>2, <3>2 DEF HistogramPoint
    <3> HIDE DEF is, was, g
    <3>6. /\ Log!Total(l, was, "count") \in Int
          /\ Log!Total(g, is, "count") = Log!Total(l, was, "count") + g[m]["count"]
      BY <3>2, <3>4, <3>5, TotalGrows
    <3>7. /\ Log!Total(l, was, "sum") \in Int
          /\ Log!Total(g, is, "sum") = Log!Total(l, was, "sum") + g[m]["sum"]
      BY <3>2, <3>4, <3>5, TotalGrows
    <3>8. /\ e.count \in Nat \ {0} /\ e.sum \in Int
          /\ e.count = Log!Total(l, was, "count")
          /\ e.sum = Log!Total(l, was, "sum")
          /\ \E y : IsLast(y, points) /\ e.bounds = l[y].bounds
      BY <1>5, <3>1 DEF HistogramEntry, was
    <3>9. e.bounds = dp.bounds
      BY <1>1, <3>0, <3>8 DEF IsLast
    <3>10. to = [e EXCEPT !.count = e.count + dp.count, !.sum = e.sum + dp.sum]
      BY <2>1, <3>8, <3>9 DEF addHistogramDataPoint
    <3> HIDE DEF to
    <3>11. /\ DOMAIN to = {"bounds", "count", "sum"} /\ to.bounds = dp.bounds
           /\ to.count = e.count + dp.count /\ to.sum = e.sum + dp.sum
      BY <1>3, <3>9, <3>10
    <3>12. /\ to.count = Log!Total(g, is, "count")
           /\ to.sum = Log!Total(g, is, "sum")
           /\ to.count \in Nat \ {0} /\ to.sum \in Int
      BY <1>1, <1>2, <3>6, <3>7, <3>8, <3>11
    <3>13. to.bounds = g[m].bounds
      BY <1>1, <3>11
    <3> HIDE DEF P
    <3> QED
      BY <2>2, <3>11, <3>12, <3>13 DEF HistogramEntry, is, g, to, P
  <2>6. points # {} => \E x : IsLast(x, points)
    BY <1>5 DEF HistogramEntry
  <2> QED
    BY <2>4, <2>5, <2>6
<1> QED
  BY <1>4, <1>5

\* What is read from an entry is the value of the data points it stands for.
LEMMA NumberRead ==
    ASSUME NEW l, DOMAIN l \subseteq Nat,
           NEW points \in SUBSET DOMAIN l, points # {},
           \A n \in points : NumberPoint(l[n]),
           NEW type, NEW e, NumberEntry(type, l, points, e)
    PROVE  getNumAggByType(type, e) = Log!NumberValue(type, l, points)
<1>1. e \in [value : Int, start : Nat, time : Nat]
  BY DEF NumberEntry
<1>2. \A n \in points : /\ l[n].value \in Int /\ l[n].start \in Nat
                        /\ l[n].time \in Nat /\ n \in Nat
  BY DEF NumberPoint
<1>3. CASE type = "last"
  <2>1. PICK m : IsLast(m, points) /\ e.value = l[m].value
    BY <1>3 DEF NumberEntry
  <2>2. Log!Max(points) = m
    <3>1. points \in SUBSET Int /\ m \in points /\ \A x \in points : x <= m
      BY <2>1 DEF IsLast
    <3> QED
      BY <3>1, MaxIs, SameMax
  <2> QED
    BY <1>3, <2>1, <2>2 DEF getNumAggByType, Log!NumberValue
<1>4. CASE type = "sum"
  BY <1>4 DEF NumberEntry, getNumAggByType, Log!NumberValue
<1>5. CASE type = "max"
  <2> DEFINE S == {0} \cup {l[n].value : n \in points}
  <2>1. S \in SUBSET Int /\ e.value \in S /\ \A x \in S : x <= e.value
    BY <1>1, <1>2, <1>5 DEF NumberEntry
  <2>2. Log!Max(S) = e.value
    <3> HIDE DEF S
    <3> QED
      BY <2>1, MaxIs, SameMax
  <2> QED
    BY <1>5, <2>2 DEF getNumAggByType, Log!NumberValue
<1>6. CASE type \notin {"last", "max", "sum", "rate"}
  BY <1>6 DEF getNumAggByType, Log!NumberValue
<1>7. CASE type = "rate"
  <2> DEFINE counting == Counting(l, points)
             begun == Begun(l, points)
             total == Log!Total(l, points, "value")
             start == IF begun = {} THEN 0 ELSE Log!Beginning(l[Log!Min(begun)])
             times == {l[n].time : n \in counting}
             latest == Log!Max(times)
  <2>1. e.value = total
    BY <1>7 DEF NumberEntry
  <2>2. begun \subseteq counting /\ counting \subseteq points
    BY DEF Begun, Counting
  <2>3. e.start = start
    <3>1. CASE begun = {}
      BY <1>7, <3>1 DEF NumberEntry
    <3>2. CASE begun # {}
      <4>1. PICK m : IsFirst(m, begun) /\ e.start = Log!Beginning(l[m])
        BY <1>7, <3>2 DEF NumberEntry
      <4>2. begun \in SUBSET Int /\ m \in begun /\ \A x \in begun : m <= x
        BY <1>2, <2>2, <4>1 DEF IsFirst
      <4>3. Log!Min(begun) = m
        <5> HIDE DEF begun
        <5> QED
          BY <4>2, MinIs, SameMax
      <4> QED
        BY <3>2, <4>1, <4>3
    <3> QED
      BY <3>1, <3>2
  <2>4. counting # {} => e.time = latest
    <3> SUFFICES ASSUME counting # {} PROVE e.time = latest
      OBVIOUS
    <3>1. /\ \A n \in counting : l[n].time <= e.time
          /\ e.time # 0 => \E n \in counting : l[n].time = e.time
      BY <1>7 DEF NumberEntry
    <3>2. \A n \in counting : l[n].time \in Nat
      BY <1>2, <2>2
    <3>3. times \in SUBSET Int /\ e.time \in times /\ \A x \in times : x <= e.time
      <4> HIDE DEF counting
      <4> QED
        BY <1>1, <3>1, <3>2
    <3> HIDE DEF times
    <3> QED
      BY <3>3, MaxIs, SameMax
  <2>5. counting = {} => e.time = 0
    BY <1>7 DEF NumberEntry
  <2>6. Log!NumberValue(type, l, points) =
          IF counting = {} \/ total = 0 \/ latest - start <= 0
            THEN <<0, 1>> ELSE <<total, latest - start>>
    BY <1>7 DEF Log!NumberValue, Log!RateOf, Counting, Begun
  <2>7. getNumAggByType(type, e) =
          IF e.time - e.start <= 0 \/ e.value = 0
            THEN <<0, 1>> ELSE <<e.value, e.time - e.start>>
    BY <1>7 DEF getNumAggByType
  <2> HIDE DEF counting, total, start, latest
  <2> QED
    BY <1>1, <2>1, <2>3, <2>4, <2>5, <2>6, <2>7
<1> QED
  BY <1>3, <1>4, <1>5, <1>6, <1>7

\* What Get returns for a group of histograms is their value.
LEMMA HistogramRead ==
    ASSUME NEW l, NEW points, points # {},
           NEW type, NEW e, HistogramEntry(type, l, points, e)
    PROVE  getHistAggByType(type, e) = Log!HistogramValue(type, l, points)
  BY DEF HistogramEntry, getHistAggByType, Log!HistogramValue

(***************************************************************************)
(* The maps and the log                                                    *)
(***************************************************************************)
\* The maps of a key hold entries of the groups that l has data points of.
Reflects(k, l, ofNums, ofHists) ==
    \A g : /\ g \in DOMAIN ofNums <=> Log!Numbers(l, k, g) # {}
           /\ g \in DOMAIN ofHists <=> Log!Histograms(l, k, g) # {}
           /\ g \in DOMAIN ofNums =>
                NumberEntry(Configs[k].type, l, Log!Numbers(l, k, g), ofNums[g])
           /\ g \in DOMAIN ofHists =>
                HistogramEntry(Configs[k].type, l, Log!Histograms(l, k, g), ofHists[g])

\* Both modules match data points the same way.
LEMMA SameMatch ==
    ASSUME NEW k, NEW dp
    PROVE  /\ isEqualAttrs(Configs[k], dp) <=> Log!Matches(Configs[k], dp)
           /\ Group(k, dp) = Log!GroupOf(k, dp)
           /\ IsNumber(dp) <=> Log!Numeric(dp)
           /\ IsHistogram(dp) <=> Log!Populated(dp)
<1>1. ASSUME NEW label PROVE getValueFromMaps(label, dp) = Log!LabelOf(dp, label)
  BY DEF getValueFromMaps, Log!LabelOf, Log!Labels
<1> QED
  BY <1>1 DEF isEqualAttrs, Log!Matches, Group, Log!GroupOf, IsNumber,
     Log!Numeric, IsHistogram, Log!Populated

\* What a log consists of is as its payloads.
LEMMA LogPoints ==
    ASSUME NEW l, IsLog(l), NEW k, NEW g
    PROVE  /\ \A n \in Log!Numbers(l, k, g) : NumberPoint(l[n])
           /\ \A n \in Log!Histograms(l, k, g) : HistogramPoint(l[n])
           /\ Log!Numbers(l, k, g) \in SUBSET DOMAIN l
           /\ Log!Histograms(l, k, g) \in SUBSET DOMAIN l
           /\ IsFiniteSet(Log!Numbers(l, k, g))
           /\ IsFiniteSet(Log!Histograms(l, k, g))
           /\ DOMAIN l \subseteq Nat
<1>1. /\ Log!Numbers(l, k, g) \in SUBSET DOMAIN l
      /\ Log!Histograms(l, k, g) \in SUBSET DOMAIN l
  BY DEF Log!Numbers, Log!Histograms
<1>2. /\ IsFiniteSet(Log!Numbers(l, k, g)) /\ IsFiniteSet(Log!Histograms(l, k, g))
      /\ DOMAIN l \subseteq Nat
  BY <1>1, FS_Subset DEF IsLog
<1>3. ASSUME NEW n \in Log!Numbers(l, k, g) PROVE NumberPoint(l[n])
  <2>1. IsNumber(l[n]) /\ l[n] \in DataPoints
    BY SameMatch DEF Log!Numbers, IsLog
  <2> QED
    BY <2>1, PayloadAssumption DEF NumberPoint
<1>4. ASSUME NEW n \in Log!Histograms(l, k, g) PROVE HistogramPoint(l[n])
  <2>1. IsHistogram(l[n]) /\ l[n] \in DataPoints
    BY SameMatch DEF Log!Histograms, IsLog
  <2> QED
    BY <2>1, PayloadAssumption DEF HistogramPoint, IsHistogram
<1> QED
  BY <1>1, <1>2, <1>3, <1>4

\* So the answer read from the maps is the report on the log.
LEMMA ReadIsReport ==
    ASSUME NEW l, IsLog(l), NEW k, Reflects(k, l, nums[k], hists[k])
    PROVE  Read(k) = Log!Report(l, k)
<1> DEFINE type == Configs[k].type
           N(g) == Log!Numbers(l, k, g)
           H(g) == Log!Histograms(l, k, g)
<1>1. \A g : /\ g \in DOMAIN nums[k] <=> N(g) # {}
             /\ g \in DOMAIN hists[k] <=> H(g) # {}
             /\ g \in DOMAIN nums[k] => NumberEntry(type, l, N(g), nums[k][g])
             /\ g \in DOMAIN hists[k] => HistogramEntry(type, l, H(g), hists[k][g])
  BY DEF Reflects
<1>2. Log!Groups(l, k) = DOMAIN nums[k] \cup DOMAIN hists[k]
  <2>1. \A g : g \in Log!Groups(l, k) <=> N(g) # {} \/ H(g) # {}
    BY DEF Log!Groups, Log!Numbers, Log!Histograms
  <2> QED
    BY <1>1, <2>1
<1>3. ASSUME NEW g, g \in DOMAIN hists[k]
      PROVE  getHistAggByType(type, hists[k][g]) = Log!GroupValue(l, k, g)
  <2>1. H(g) # {} /\ HistogramEntry(type, l, H(g), hists[k][g])
    BY <1>1, <1>3
  <2>2. Log!GroupValue(l, k, g) = Log!HistogramValue(type, l, H(g))
    BY <2>1 DEF Log!GroupValue
  <2> HIDE DEF H
  <2> QED
    BY <2>1, <2>2, HistogramRead
<1>4. ASSUME NEW g, g \in DOMAIN nums[k], g \notin DOMAIN hists[k]
      PROVE  getNumAggByType(type, nums[k][g]) = Log!GroupValue(l, k, g)
  <2>1. N(g) # {} /\ H(g) = {} /\ NumberEntry(type, l, N(g), nums[k][g])
    BY <1>1, <1>4
  <2>2. Log!GroupValue(l, k, g) = Log!NumberValue(type, l, N(g))
    BY <2>1 DEF Log!GroupValue
  <2>3. /\ N(g) \in SUBSET DOMAIN l /\ DOMAIN l \subseteq Nat
        /\ \A n \in N(g) : NumberPoint(l[n])
    BY LogPoints
  <2> HIDE DEF N, type
  <2> QED
    BY <2>1, <2>2, <2>3, NumberRead
<1> QED
  BY <1>2, <1>3, <1>4 DEF Read, Log!Report

\* An entry depends on the data points it stands for only.
LEMMA SameEntry ==
    ASSUME NEW l, NEW g, NEW points, \A n \in points : g[n] = l[n],
           NEW type, NEW e
    PROVE  /\ NumberEntry(type, l, points, e) => NumberEntry(type, g, points, e)
           /\ HistogramEntry(type, l, points, e) => HistogramEntry(type, g, points, e)
<1>1. \A f : Log!Total(g, points, f) = Log!Total(l, points, f)
  BY TotalSame
<1>2. Counting(g, points) = Counting(l, points)
  BY DEF Counting
<1>3. Begun(g, points) = Begun(l, points)
  BY <1>2 DEF Begun, Counting
<1>4. Counting(l, points) \subseteq points /\ Begun(l, points) \subseteq points
  BY DEF Begun, Counting
<1>5. ASSUME NumberEntry(type, l, points, e)
      PROVE  NumberEntry(type, g, points, e)
  BY <1>1, <1>2, <1>3, <1>4, <1>5 DEF NumberEntry, IsLast, IsFirst
<1>6. ASSUME HistogramEntry(type, l, points, e)
      PROVE  HistogramEntry(type, g, points, e)
  <2>1. Log!LastBounds(g, points) = Log!LastBounds(l, points)
        /\ Log!LastBounds(l, points) \subseteq points
    BY DEF Log!LastBounds
  <2>2. \A f : Log!Total(g, Log!LastBounds(l, points), f)
                 = Log!Total(l, Log!LastBounds(l, points), f)
    BY <2>1, TotalSame
  <2> QED
    BY <1>6, <2>1, <2>2 DEF HistogramEntry, IsLast
<1> QED
  BY <1>5, <1>6

\* A new entry stands for no data point.
LEMMA NewEntries ==
    ASSUME NEW l, NEW type
    PROVE  /\ NumberEntry(type, l, {}, NewNumber)
           /\ HistogramEntry(type, l, {}, NewHistogram)
<1>1. Log!Total(l, {}, "value") = 0
  BY TotalEmpty
<1>2. Counting(l, {}) = {} /\ Begun(l, {}) = {}
  BY DEF Counting, Begun
<1>3. NumberEntry(type, l, {}, NewNumber)
  BY <1>1, <1>2 DEF NumberEntry, NewNumber
<1>4. HistogramEntry(type, l, {}, NewHistogram)
  BY DEF HistogramEntry, NewHistogram
<1> QED
  BY <1>3, <1>4

\* Merging a data point makes the maps stand for a log with one more.
LEMMA MergeReflects ==
    ASSUME NEW l, IsLog(l), NEW m \in Nat, \A n \in DOMAIN l : n < m,
           NEW dp \in DataPoints,
           NEW k, Reflects(k, l, nums[k], hists[k])
    PROVE  Reflects(k, Grown(l, m, dp),
                    IF IsNumber(dp) THEN MergedNumbers(k, dp) ELSE nums[k],
                    IF IsHistogram(dp) THEN MergedHistograms(k, dp) ELSE hists[k])
<1> DEFINE g == Grown(l, m, dp)
           type == Configs[k].type
           own == Group(k, dp)
           newNums == IF IsNumber(dp) THEN MergedNumbers(k, dp) ELSE nums[k]
           newHists == IF IsHistogram(dp) THEN MergedHistograms(k, dp) ELSE hists[k]
           taken == isEqualAttrs(Configs[k], dp)
<1> SUFFICES ASSUME NEW x
             PROVE  /\ x \in DOMAIN newNums <=> Log!Numbers(g, k, x) # {}
                    /\ x \in DOMAIN newHists <=> Log!Histograms(g, k, x) # {}
                    /\ x \in DOMAIN newNums =>
                         NumberEntry(type, g, Log!Numbers(g, k, x), newNums[x])
                    /\ x \in DOMAIN newHists =>
                         HistogramEntry(type, g, Log!Histograms(g, k, x), newHists[x])
  BY DEF Reflects
<1> DEFINE N == Log!Numbers(l, k, x)
           H == Log!Histograms(l, k, x)
<1>1. /\ x \in DOMAIN nums[k] <=> N # {}
      /\ x \in DOMAIN hists[k] <=> H # {}
      /\ x \in DOMAIN nums[k] => NumberEntry(type, l, N, nums[k][x])
      /\ x \in DOMAIN hists[k] => HistogramEntry(type, l, H, hists[k][x])
  BY DEF Reflects
<1>2. /\ N \in SUBSET DOMAIN l /\ H \in SUBSET DOMAIN l
      /\ IsFiniteSet(N) /\ IsFiniteSet(H) /\ DOMAIN l \subseteq Nat
      /\ \A n \in N : NumberPoint(l[n])
      /\ \A n \in H : HistogramPoint(l[n])
  BY LogPoints
<1>3. DOMAIN g = DOMAIN l \cup {m} /\ g[m] = dp /\ m \notin DOMAIN l
      /\ \A n \in DOMAIN l : g[n] = l[n]
  BY <1>2 DEF Grown
<1>4. Log!Numbers(g, k, x) =
        IF IsNumber(dp) /\ taken /\ x = own THEN N \cup {m} ELSE N
  <2>1. \A n \in DOMAIN l : n \in Log!Numbers(g, k, x) <=> n \in N
    BY <1>3 DEF Log!Numbers
  <2>2. m \in Log!Numbers(g, k, x) <=> IsNumber(dp) /\ taken /\ x = own
    BY <1>3, SameMatch DEF Log!Numbers
  <2>3. Log!Numbers(g, k, x) \subseteq DOMAIN l \cup {m}
    BY <1>3 DEF Log!Numbers
  <2> HIDE DEF N, taken, own
  <2> QED
    BY <1>2, <1>3, <2>1, <2>2, <2>3
<1>5. Log!Histograms(g, k, x) =
        IF IsHistogram(dp) /\ taken /\ x = own THEN H \cup {m} ELSE H
  <2>1. \A n \in DOMAIN l : n \in Log!Histograms(g, k, x) <=> n \in H
    BY <1>3 DEF Log!Histograms
  <2>2. m \in Log!Histograms(g, k, x) <=> IsHistogram(dp) /\ taken /\ x = own
    BY <1>3, SameMatch DEF Log!Histograms
  <2>3. Log!Histograms(g, k, x) \subseteq DOMAIN l \cup {m}
    BY <1>3 DEF Log!Histograms
  <2> HIDE DEF H, taken, own
  <2> QED
    BY <1>2, <1>3, <2>1, <2>2, <2>3
<1>6. /\ x \in DOMAIN newNums <=> Log!Numbers(g, k, x) # {}
      /\ x \in DOMAIN newNums =>
           NumberEntry(type, g, Log!Numbers(g, k, x), newNums[x])
  <2>1. CASE IsNumber(dp) /\ taken /\ x = own
    <3> DEFINE e == EntryOf(nums[k], x, NewNumber)
    <3>1. x \in DOMAIN newNums /\ newNums[x] = MergeNumber(type, e, dp)
      BY <2>1 DEF MergedNumbers, SetEntry
    <3>2. NumberEntry(type, l, N, e)
      BY <1>1, NewEntries DEF EntryOf
    <3>3. NumberPoint(dp)
      BY <2>1, PayloadAssumption DEF NumberPoint
    <3>4. NumberEntry(type, g, N \cup {m}, MergeNumber(type, e, dp))
      <4> HIDE DEF N, type, e
      <4> QED
        BY <1>2, <3>2, <3>3, NumberGrows
    <3> QED
      BY <1>4, <2>1, <3>1, <3>4
  <2>2. CASE ~(IsNumber(dp) /\ taken /\ x = own)
    <3>1. x \in DOMAIN newNums <=> x \in DOMAIN nums[k]
      BY <2>2 DEF MergedNumbers, SetEntry
    <3>2. x \in DOMAIN nums[k] => newNums[x] = nums[k][x]
      BY <2>2 DEF MergedNumbers, SetEntry
    <3>3. \A e : NumberEntry(type, l, N, e) => NumberEntry(type, g, N, e)
      <4>1. \A n \in N : g[n] = l[n]
        BY <1>2, <1>3
      <4> HIDE DEF g, N, type
      <4> QED
        BY <4>1, SameEntry
    <3> HIDE DEF newNums, g, N, type
    <3> QED
      BY <1>1, <1>4, <2>2, <3>1, <3>2, <3>3
  <2> QED
    BY <2>1, <2>2
<1>7. /\ x \in DOMAIN newHists <=> Log!Histograms(g, k, x) # {}
      /\ x \in DOMAIN newHists =>
           HistogramEntry(type, g, Log!Histograms(g, k, x), newHists[x])
  <2>1. CASE IsHistogram(dp) /\ taken /\ x = own
    <3> DEFINE e == EntryOf(hists[k], x, NewHistogram)
    <3>1. x \in DOMAIN newHists /\ newHists[x] = MergeHistogram(type, e, dp)
      BY <2>1 DEF MergedHistograms, SetEntry
    <3>2. HistogramEntry(type, l, H, e)
      BY <1>1, NewEntries DEF EntryOf
    <3>3. HistogramPoint(dp)
      BY <2>1, PayloadAssumption DEF HistogramPoint, IsHistogram
    <3>4. HistogramEntry(type, g, H \cup {m}, MergeHistogram(type, e, dp))
      <4> HIDE DEF H, type, e
      <4> QED
        BY <1>2, <3>2, <3>3, HistogramGrows
    <3> QED
      BY <1>5, <2>1, <3>1, <3>4
  <2>2. CASE ~(IsHistogram(dp) /\ taken /\ x = own)
    <3>1. x \in DOMAIN newHists <=> x \in DOMAIN hists[k]
      BY <2>2 DEF MergedHistograms, SetEntry
    <3>2. x \in DOMAIN hists[k] => newHists[x] = hists[k][x]
      BY <2>2 DEF MergedHistograms, SetEntry
    <3>3. \A e : HistogramEntry(type, l, H, e) => HistogramEntry(type, g, H, e)
      <4>1. \A n \in H : g[n] = l[n]
        BY <1>2, <1>3
      <4> HIDE DEF g, H, type
      <4> QED
        BY <4>1, SameEntry
    <3> HIDE DEF newHists, g, H, type
    <3> QED
      BY <1>1, <1>5, <2>2, <3>1, <3>2, <3>3
  <2> QED
    BY <2>1, <2>2
<1> QED
  BY <1>6, <1>7

\* A finite set of numbers has a largest one.
LEMMA LargestElement ==
    ASSUME NEW S \in SUBSET Nat, IsFiniteSet(S), S # {}
    PROVE  \E m \in S : \A x \in S : x <= m
<1> DEFINE Q == {s \in SUBSET S : s # {} => \E m \in s : \A x \in s : x <= m}
<1>1. ASSUME NEW s \in SUBSET S, \A x \in s : s \ {x} \in Q PROVE s \in Q
  <2> SUFFICES ASSUME s # {} PROVE \E m \in s : \A x \in s : x <= m
    OBVIOUS
  <2>1. PICK e \in s : TRUE
    OBVIOUS
  <2>2. CASE s = {e}
    BY <2>2
  <2>3. CASE s # {e}
    <3>1. PICK m \in s \ {e} : \A x \in s \ {e} : x <= m
      BY <1>1, <2>3
    <3>2. e \in Nat /\ m \in Nat /\ s \subseteq Nat
      OBVIOUS
    <3>3. CASE e <= m
      BY <3>1, <3>3
    <3>4. CASE ~(e <= m)
      <4>1. \A x \in s : x <= e
        BY <3>1, <3>2, <3>4
      <4> QED
        BY <4>1
    <3> QED
      BY <3>3, <3>4
  <2> QED
    BY <2>2, <2>3
<1>2. SUBSET S \subseteq Q
  <2> HIDE DEF Q
  <2> QED
    BY <1>1, SubsetInduction
<1> QED
  BY <1>2

\* The number of the latest data point is as large as any.
LEMMA LatestIs ==
    ASSUME NEW l, IsLog(l)
    PROVE  Latest(l) \in Nat /\ \A n \in DOMAIN l : n \in Nat \ {0} /\ n <= Latest(l)
<1> DEFINE S == {0} \cup DOMAIN l
<1>1. S \in SUBSET Nat /\ IsFiniteSet(S) /\ S # {} /\ S \in SUBSET Int
  BY FS_AddElement DEF IsLog
<1>2. PICK m \in S : \A x \in S : x <= m
  BY <1>1, LargestElement
<1>3. Max(S) = m
  BY <1>1, <1>2, MaxIs
<1> QED
  BY <1>1, <1>2, <1>3 DEF Latest, IsLog

\* Nothing arrives.
LEMMA ArrivedNone ==
    ASSUME NEW l, IsLog(l) PROVE Arrived(l, <<>>) = l
<1>1. Latest(l) \in Nat
  BY LatestIs
<1>2. (Latest(l) + 1)..(Latest(l) + Len(<<>>)) = {}
  BY <1>1, EmptySeq
<1> QED
  BY <1>2 DEF Arrived, IsLog

\* A payload arrives a data point at a time.
LEMMA ArrivedNext ==
    ASSUME NEW l, IsLog(l), NEW p \in Seq(DataPoints), NEW j \in Nat, j < Len(p)
    PROVE  LET was == Arrived(l, SubSeq(p, 1, j))
               m == Latest(l) + j + 1
           IN  /\ m \in Nat \ {0} /\ \A n \in DOMAIN was : n < m
               /\ p[j + 1] \in DataPoints
               /\ Arrived(l, SubSeq(p, 1, j + 1)) = Grown(was, m, p[j + 1])
<1> DEFINE was == Arrived(l, SubSeq(p, 1, j))
           L == Latest(l)
           m == L + j + 1
           q == SubSeq(p, 1, j)
           r == SubSeq(p, 1, j + 1)
<1>1. L \in Nat /\ \A n \in DOMAIN l : n \in Nat \ {0} /\ n <= L
  BY LatestIs
<1>2. /\ Len(q) = j /\ \A i \in 1..j : q[i] = p[i]
      /\ Len(r) = j + 1 /\ \A i \in 1..(j + 1) : r[i] = p[i]
      /\ p[j + 1] \in DataPoints
  BY LenProperties, ElementOfSeq
<1> HIDE DEF L, q, r
<1>3. was = [n \in DOMAIN l \cup (L + 1)..(L + j) |->
               IF n \in DOMAIN l THEN l[n] ELSE p[n - L]]
  <2>1. was = [n \in DOMAIN l \cup (L + 1)..(L + j) |->
               IF n \in DOMAIN l THEN l[n] ELSE q[n - L]]
    BY <1>2 DEF Arrived, L, q
  <2>2. \A n \in (L + 1)..(L + j) : n - L \in 1..j
    BY <1>1
  <2> HIDE DEF was
  <2> QED
    BY <1>2, <2>1, <2>2
<1>4. Arrived(l, r) = [n \in DOMAIN l \cup (L + 1)..(L + j + 1) |->
                         IF n \in DOMAIN l THEN l[n] ELSE p[n - L]]
  <2>1. Arrived(l, r) = [n \in DOMAIN l \cup (L + 1)..(L + (j + 1)) |->
               IF n \in DOMAIN l THEN l[n] ELSE r[n - L]]
    BY <1>2 DEF Arrived, L
  <2>2. \A n \in (L + 1)..(L + (j + 1)) : n - L \in 1..(j + 1)
    BY <1>1
  <2>3. L + (j + 1) = L + j + 1
    BY <1>1
  <2> QED
    BY <1>2, <2>1, <2>2, <2>3
<1> HIDE DEF was
<1>5. m \in Nat \ {0} /\ \A n \in DOMAIN was : n < m
  BY <1>1, <1>3
<1>6. Arrived(l, r) = Grown(was, m, p[j + 1])
  <2> DEFINE D == DOMAIN l \cup (L + 1)..(L + j)
  <2>1. DOMAIN l \cup (L + 1)..(L + j + 1) = D \cup {m} /\ m \notin DOMAIN l
    BY <1>1
  <2>2. m - L = j + 1
    BY <1>1
  <2>3. DOMAIN was = D
        /\ \A n \in D : was[n] = IF n \in DOMAIN l THEN l[n] ELSE p[n - L]
    BY <1>3
  <2>4. Grown(was, m, p[j + 1])
          = [n \in D \cup {m} |-> IF n = m THEN p[j + 1] ELSE was[n]]
    BY <2>3 DEF Grown
  <2> HIDE DEF D, m
  <2> QED
    BY <1>4, <2>1, <2>2, <2>3, <2>4
<1> QED
  BY <1>2, <1>5, <1>6 DEF was, q, r, L

\* A log that has grown by a data point of a payload is a log.
LEMMA GrownLog ==
    ASSUME NEW l, IsLog(l), NEW m \in Nat \ {0}, NEW dp \in DataPoints
    PROVE  IsLog(Grown(l, m, dp))
  BY FS_AddElement DEF IsLog, Grown

\* So is one that has had a payload, as far as it goes.
LEMMA ArrivedLog ==
    ASSUME NEW l, IsLog(l), NEW p \in Seq(DataPoints)
    PROVE  \A j \in 0..Len(p) : IsLog(Arrived(l, SubSeq(p, 1, j)))
<1> DEFINE S == {j \in Nat : j <= Len(p) => IsLog(Arrived(l, SubSeq(p, 1, j)))}
<1>1. 0 \in S
  <2>1. SubSeq(p, 1, 0) = <<>>
    BY SubSeqEmpty
  <2> QED
    BY <2>1, ArrivedNone
<1>2. ASSUME NEW j \in Nat, j \in S PROVE j + 1 \in S
  <2> SUFFICES ASSUME j + 1 <= Len(p)
               PROVE  IsLog(Arrived(l, SubSeq(p, 1, j + 1)))
    OBVIOUS
  <2>1. Len(p) \in Nat
    BY LenProperties
  <2>2. j < Len(p) /\ IsLog(Arrived(l, SubSeq(p, 1, j)))
    BY <1>2, <2>1
  <2> DEFINE was == Arrived(l, SubSeq(p, 1, j))
             n == Latest(l) + j + 1
  <2>3. n \in Nat \ {0} /\ Arrived(l, SubSeq(p, 1, j + 1)) = Grown(was, n, p[j + 1])
    BY <2>2, ArrivedNext
  <2>4. p[j + 1] \in DataPoints
    BY <2>1, <2>2
  <2> HIDE DEF was, n
  <2>5. IsLog(was)
    BY <2>2 DEF was
  <2> QED
    BY <2>3, <2>4, <2>5, GrownLog
<1>3. Nat \subseteq S
  <2> HIDE DEF S
  <2> QED
    BY <1>1, <1>2, Induction
<1> QED
  BY <1>3, LenProperties

\* What a Reset leaves is a log.
LEMMA ResetLog ==
    ASSUME NEW l, IsLog(l) PROVE IsLog(RestrictValues(l, IsHistogram))
<1> DEFINE D == {n \in DOMAIN l : IsHistogram(l[n])}
           g == [n \in D |-> l[n]]
<1>1. RestrictValues(l, IsHistogram) = g
  BY DEF RestrictValues, Restrict
<1>2. IsFiniteSet(D)
  BY FS_Subset DEF IsLog
<1> QED
  BY <1>1, <1>2 DEF IsLog

\* Both modules mean the same by it.
LEMMA ResetSame ==
    ASSUME NEW l
    PROVE  RestrictValues(l, IsHistogram) = Log!RestrictValues(l, Log!Populated)
<1> DEFINE g == [n \in {i \in DOMAIN l : IsHistogram(l[i])} |-> l[n]]
<1>1. RestrictValues(l, IsHistogram) = g
  BY DEF RestrictValues, Restrict
<1>2. Log!RestrictValues(l, Log!Populated) = g
  BY SameMatch DEF Log!RestrictValues, Log!Restrict
<1> QED
  BY <1>1, <1>2

\* A Reset leaves the histograms.
LEMMA ResetReflects ==
    ASSUME NEW l, IsLog(l), NEW k, NEW ofNums, NEW ofHists,
           Reflects(k, l, ofNums, ofHists)
    PROVE  Reflects(k, RestrictValues(l, IsHistogram), NoEntries, ofHists)
<1> DEFINE D == {n \in DOMAIN l : IsHistogram(l[n])}
           g == [n \in D |-> l[n]]
<1>1. RestrictValues(l, IsHistogram) = g
  BY DEF RestrictValues, Restrict
<1>4. ASSUME NEW x
      PROVE  /\ Log!Numbers(g, k, x) = {}
             /\ Log!Histograms(g, k, x) = Log!Histograms(l, k, x)
  <2>1. \A n \in D : ~Log!Numeric(g[n]) /\ Log!Populated(g[n]) /\ g[n] = l[n]
    BY DEF IsHistogram, Log!Numeric, Log!Populated
  <2>2. \A n \in DOMAIN l : Log!Populated(l[n]) => n \in D
    BY SameMatch
  <2>3. DOMAIN g = D /\ D \subseteq DOMAIN l
    OBVIOUS
  <2> HIDE DEF g, D
  <2> QED
    BY <2>1, <2>2, <2>3 DEF Log!Numbers, Log!Histograms
<1>5. ASSUME NEW x, x \in DOMAIN ofHists
      PROVE  HistogramEntry(Configs[k].type, g, Log!Histograms(g, k, x), ofHists[x])
  <2>1. HistogramEntry(Configs[k].type, l, Log!Histograms(l, k, x), ofHists[x])
    BY <1>5 DEF Reflects
  <2>2. \A n \in Log!Histograms(l, k, x) : g[n] = l[n]
    BY SameMatch DEF Log!Histograms
  <2> HIDE DEF g
  <2> QED
    BY <1>4, <2>1, <2>2, SameEntry
<1>6. Reflects(k, g, NoEntries, ofHists)
  <2> HIDE DEF g
  <2> QED
    BY <1>4, <1>5 DEF Reflects, NoEntries
<1> QED
  BY <1>1, <1>6

(***************************************************************************)
(* The calls                                                               *)
(***************************************************************************)
CallType ==
    /\ op \in [Clients -> {"add", "reset", "get"}]
    /\ input \in [Clients -> Seq(DataPoints)]
    /\ left \in [Clients -> Seq(DataPoints)]
    /\ ask \in [Clients -> SUBSET Keys]

\* What is left of a payload is its end, there is none but during an Add, and
\* a reader has read other keys than it asks for.
CallOf(c) ==
    /\ Len(left[c]) <= Len(input[c])
    /\ left[c] = SubSeq(input[c], Len(input[c]) - Len(left[c]) + 1, Len(input[c]))
    /\ pc[c] \notin {"lock", "writing"} => input[c] = <<>>
    /\ pc[c] \in {"lock", "writing"} => op[c] # "get"
    /\ pc[c] \in {"rlock", "reading"} => op[c] = "get"
    /\ pc[c] = "lock" => left[c] = input[c]
    /\ op[c] # "add" => input[c] = <<>>
    /\ reply[c] = [k \in DOMAIN reply[c] |-> reply[c][k]]
    /\ DOMAIN reply[c] \subseteq Keys \ ask[c]

CallInv == CallType /\ \A c \in Clients : CallOf(c)

\* The end of a sequence that is as long as it, and of the empty one.
LEMMA EmptyEnd ==
    ASSUME NEW s \in Seq(DataPoints)
    PROVE  /\ SubSeq(<<>>, Len(<<>>) - Len(<<>>) + 1, Len(<<>>)) = <<>>
           /\ SubSeq(s, Len(s) - Len(s) + 1, Len(s)) = s
           /\ Len(s) = 0 <=> s = <<>>
           /\ Len(<<>>) = 0 /\ Len(s) \in Nat
<1>1. Len(s) \in Nat /\ (Len(s) = 0 <=> s = <<>>) /\ Len(<<>>) = 0
  BY EmptySeq, LenProperties
<1>2. Len(s) - Len(s) + 1 = 1 /\ Len(<<>>) - Len(<<>>) + 1 = 1
  BY <1>1
<1>3. SubSeq(s, 1, Len(s)) = s
  BY SubSeqFull
<1>4. SubSeq(<<>>, 1, 0) = <<>>
  BY SubSeqEmpty
<1> QED
  BY <1>1, <1>2, <1>3, <1>4

\* Nobody calls at first.
LEMMA CallInit == Init => CallInv
<1> SUFFICES ASSUME Init PROVE CallInv
  OBVIOUS
<1>1. <<>> \in Seq(DataPoints)
  BY EmptySeq
<1>2. CallType
  BY <1>1 DEF Init, CallType
<1>3. ASSUME NEW c \in Clients PROVE CallOf(c)
  <2>1. /\ left[c] = <<>> /\ input[c] = <<>> /\ pc[c] = "idle" /\ op[c] = "get"
        /\ reply[c] = NoEntries
    BY DEF Init
  <2>2. NoEntries = [k \in DOMAIN NoEntries |-> NoEntries[k]]
        /\ DOMAIN NoEntries = {}
    BY DEF NoEntries
  <2>3. /\ SubSeq(<<>>, Len(<<>>) - Len(<<>>) + 1, Len(<<>>)) = <<>>
        /\ Len(<<>>) = 0
    BY <1>1, EmptyEnd
  <2> QED
    BY <2>1, <2>2, <2>3 DEF CallOf
<1> QED
  BY <1>2, <1>3 DEF CallInv

\* What is left of a payload after one more data point.
LEMMA EndTail ==
    ASSUME NEW s \in Seq(DataPoints), NEW t \in Seq(DataPoints), t # <<>>,
           Len(t) <= Len(s), t = SubSeq(s, Len(s) - Len(t) + 1, Len(s))
    PROVE  /\ Tail(t) \in Seq(DataPoints) /\ Len(Tail(t)) = Len(t) - 1
           /\ Tail(t) = SubSeq(s, Len(s) - Len(Tail(t)) + 1, Len(s))
           /\ Head(t) = s[Len(s) - Len(t) + 1]
           /\ Head(t) \in DataPoints
<1>1. Len(s) \in Nat /\ Len(t) \in Nat \ {0}
  BY EmptySeq, LenProperties
<1>2. Tail(t) \in Seq(DataPoints) /\ Len(Tail(t)) = Len(t) - 1 /\ Head(t) \in DataPoints
  BY HeadTailProperties
<1> DEFINE m == Len(s) - Len(t) + 1
<1>3. m \in 1..Len(s) /\ Len(s) \in m..Len(s)
  BY <1>1
<1>4. Head(t) = s[m] /\ Tail(t) = SubSeq(s, m + 1, Len(s))
  <2> HIDE DEF m
  <2> QED
    BY <1>3, HeadTailOfSubSeq DEF m
<1>5. m + 1 = Len(s) - Len(Tail(t)) + 1
  BY <1>1, <1>2
<1> QED
  BY <1>2, <1>4, <1>5

\* The calls are as CallInv says, step by step.
LEMMA CallStep ==
    ASSUME IInv, CallInv, [Next]_vars
    PROVE  CallInv'
<1>0. /\ pc \in [Clients -> Places] /\ DOMAIN reply = Clients
      /\ CallType /\ \A c \in Clients : CallOf(c)
  BY DEF IInv, LockType, CallInv
<1>a. <<>> \in Seq(DataPoints) /\ \A p \in Payloads : p \in Seq(DataPoints)
  BY EmptySeq, PayloadAssumption
\* A client whose call stays as it is.
<1>b. ASSUME NEW c \in Clients, pc'[c] = pc[c], op'[c] = op[c],
             input'[c] = input[c], left'[c] = left[c], ask'[c] = ask[c],
             reply'[c] = reply[c]
      PROVE  CallOf(c)'
  BY <1>0, <1>b DEF CallOf
<1>1. ASSUME NEW c \in Clients, NEW what \in {"add", "reset"}, NEW p \in Seq(DataPoints),
             what # "add" => p = <<>>, CallWriter(c, what, p)
      PROVE  CallInv'
  <2>1. /\ pc'[c] = "lock" /\ op'[c] = what /\ input'[c] = p /\ left'[c] = p
        /\ reply'[c] = NoEntries /\ ask' = ask
        /\ \A d \in Clients \ {c} :
             /\ pc'[d] = pc[d] /\ op'[d] = op[d] /\ input'[d] = input[d]
             /\ left'[d] = left[d] /\ ask'[d] = ask[d] /\ reply'[d] = reply[d]
    BY <1>0, <1>1 DEF CallWriter, Goto, CallType
  <2>2. CallType'
    BY <1>0, <1>1 DEF CallWriter, CallType
  <2>3. CallOf(c)'
    <3>1. p = SubSeq(p, Len(p) - Len(p) + 1, Len(p)) /\ Len(p) \in Nat
      BY EmptyEnd
    <3> QED
      BY <1>1, <2>1, <3>1 DEF CallOf, NoEntries
  <2>4. \A d \in Clients \ {c} : CallOf(d)'
    BY <1>b, <2>1
  <2> QED
    BY <2>2, <2>3, <2>4 DEF CallInv
<1>2. ASSUME NEW c \in Clients, Lock(c) PROVE CallInv'
  <2>1. /\ pc[c] = "lock" /\ pc'[c] = "writing" /\ UNCHANGED <<op, input, left, ask, reply>>
        /\ \A d \in Clients \ {c} : pc'[d] = pc[d]
    BY <1>0, <1>2 DEF Lock, Goto, call
  <2>2. CallType'
    BY <1>0, <2>1 DEF CallType
  <2>3. CallOf(c)'
    BY <1>0, <2>1 DEF CallOf
  <2>4. \A d \in Clients \ {c} : CallOf(d)'
    BY <1>b, <2>1
  <2> QED
    BY <2>2, <2>3, <2>4 DEF CallInv
<1>3. ASSUME NEW c \in Clients, Add(c) PROVE CallInv'
  <2>1. /\ pc[c] = "writing" /\ left[c] # <<>> /\ UNCHANGED <<pc, op, input, ask, reply>>
        /\ left'[c] = Tail(left[c]) /\ \A d \in Clients \ {c} : left'[d] = left[d]
        /\ left' = [left EXCEPT ![c] = Tail(left[c])]
    BY <1>0, <1>3 DEF Add, CallType
  <2>2. /\ input[c] \in Seq(DataPoints) /\ left[c] \in Seq(DataPoints)
        /\ Len(left[c]) <= Len(input[c])
        /\ left[c] = SubSeq(input[c], Len(input[c]) - Len(left[c]) + 1, Len(input[c]))
    BY <1>0 DEF CallType, CallOf
  <2>3. /\ Tail(left[c]) \in Seq(DataPoints)
        /\ Len(Tail(left[c])) = Len(left[c]) - 1
        /\ Tail(left[c]) = SubSeq(input[c], Len(input[c]) - Len(Tail(left[c])) + 1,
                                  Len(input[c]))
    BY <2>1, <2>2, EndTail
  <2>4. CallType'
    BY <1>0, <2>1, <2>3 DEF CallType
  <2>5. CallOf(c)'
    <3>1. Len(input[c]) \in Nat /\ Len(left[c]) \in Nat
      BY <2>2, LenProperties
    <3>2. Len(Tail(left[c])) <= Len(input[c])
      BY <2>2, <2>3, <3>1
    <3> QED
      BY <1>0, <2>1, <2>3, <3>2 DEF CallOf
  <2>6. \A d \in Clients \ {c} : CallOf(d)'
    BY <1>b, <2>1
  <2> QED
    BY <2>4, <2>5, <2>6 DEF CallInv
<1>4. ASSUME NEW c \in Clients, pc[c] = "writing", Unlock(c), left[c] = <<>>
      PROVE  CallInv'
  <2>1. /\ input' = [input EXCEPT ![c] = <<>>] /\ input'[c] = <<>>
        /\ UNCHANGED <<op, left, ask, reply>> /\ pc'[c] = "idle"
        /\ \A d \in Clients \ {c} : /\ input'[d] = input[d]
                                    /\ pc'[d] = IF pc[d] = "rlock" THEN "reading" ELSE pc[d]
    BY <1>0, <1>4 DEF Unlock, Waiting, CallType
  <2>2. CallType'
    BY <1>0, <1>a, <2>1 DEF CallType
  <2>3. CallOf(c)'
    <3> DEFINE e == <<>>
    <3>1. e = SubSeq(e, Len(e) - Len(e) + 1, Len(e)) /\ Len(e) <= Len(e)
      BY <1>a, EmptyEnd
    <3>2. left'[c] = e /\ input'[c] = e
      BY <1>4, <2>1
    <3>3. /\ reply'[c] = [k \in DOMAIN reply'[c] |-> reply'[c][k]]
          /\ DOMAIN reply'[c] \subseteq Keys \ ask'[c]
      BY <1>0, <2>1 DEF CallOf
    <3> HIDE DEF e
    <3>4. /\ left'[c] = SubSeq(input'[c], Len(input'[c]) - Len(left'[c]) + 1, Len(input'[c]))
          /\ Len(left'[c]) <= Len(input'[c])
      BY <3>1, <3>2
    <3> QED
      BY <2>1, <3>3, <3>4 DEF CallOf
  <2>4. ASSUME NEW d \in Clients \ {c} PROVE CallOf(d)'
    <3>1. op' = op /\ left' = left /\ ask' = ask /\ reply' = reply
      BY <2>1
    <3>2. input'[d] = input[d] /\ (pc'[d] = pc[d] \/ (pc[d] = "rlock" /\ pc'[d] = "reading"))
      BY <2>1
    <3> QED
      BY <1>0, <3>1, <3>2 DEF CallOf
  <2> QED
    BY <2>2, <2>3, <2>4 DEF CallInv
<1>5. ASSUME NEW c \in Clients, AddDone(c) PROVE CallInv'
  BY <1>4, <1>5 DEF AddDone
<1>6. ASSUME NEW c \in Clients, Forget(c) PROVE CallInv'
  <2>1. left[c] = <<>>
    <3>1. input[c] = <<>> /\ Len(left[c]) <= Len(input[c]) /\ left[c] \in Seq(DataPoints)
      BY <1>0, <1>6 DEF Forget, CallOf, CallType
    <3> QED
      BY <3>1, EmptyEnd
  <2> QED
    BY <1>4, <1>6, <2>1 DEF Forget
<1>7. ASSUME NEW c \in Clients, NEW keys \in SUBSET Keys, CallReader(c, keys)
      PROVE  CallInv'
  <2>1. /\ pc[c] = "idle" /\ pc'[c] \in {"reading", "rlock"} /\ op'[c] = "get"
        /\ UNCHANGED <<input, left>> /\ ask'[c] = keys /\ reply'[c] = NoEntries
        /\ \A d \in Clients \ {c} :
             /\ pc'[d] = pc[d] /\ op'[d] = op[d]
             /\ ask'[d] = ask[d] /\ reply'[d] = reply[d]
    BY <1>0, <1>7 DEF CallReader, Goto, CallType
  <2>2. CallType'
    BY <1>0, <1>7 DEF CallReader, CallType
  <2>3. CallOf(c)'
    BY <1>0, <2>1 DEF CallOf, NoEntries
  <2>4. \A d \in Clients \ {c} : CallOf(d)'
    BY <1>b, <2>1
  <2> QED
    BY <2>2, <2>3, <2>4 DEF CallInv
<1>8. ASSUME NEW c \in Clients, Get(c) PROVE CallInv'
  <2>1. PICK k \in ask[c] :
             /\ reply' = [reply EXCEPT ![c] = SetEntry(@, k, Read(k))]
             /\ ask' = [ask EXCEPT ![c] = @ \ {k}]
    BY <1>8 DEF Get
  <2>2. /\ UNCHANGED <<pc, op, input, left>>
        /\ reply'[c] = SetEntry(reply[c], k, Read(k)) /\ ask'[c] = ask[c] \ {k}
        /\ \A d \in Clients \ {c} : ask'[d] = ask[d] /\ reply'[d] = reply[d]
    BY <1>0, <1>8, <2>1 DEF Get, CallType
  <2>3. ask[c] \subseteq Keys
    BY <1>0 DEF CallType
  <2>4. CallType'
    BY <1>0, <2>1, <2>2, <2>3 DEF CallType
  <2>5. CallOf(c)'
    <3>1. /\ DOMAIN reply'[c] = DOMAIN reply[c] \cup {k}
          /\ reply'[c] = [x \in DOMAIN reply'[c] |-> reply'[c][x]]
      BY <2>2 DEF SetEntry
    <3>2. DOMAIN reply'[c] \subseteq Keys \ ask'[c]
      BY <1>0, <2>2, <2>3, <3>1 DEF CallOf
    <3> QED
      BY <1>0, <2>2, <3>1, <3>2 DEF CallOf
  <2>6. \A d \in Clients \ {c} : CallOf(d)'
    BY <1>b, <2>2
  <2> QED
    BY <2>4, <2>5, <2>6 DEF CallInv
<1>9. ASSUME NEW c \in Clients, GetDone(c) PROVE CallInv'
  <2>1. /\ pc[c] = "reading" /\ pc'[c] = "idle" /\ UNCHANGED <<op, input, left, ask, reply>>
        /\ \A d \in Clients \ {c} : pc'[d] = pc[d]
    BY <1>0, <1>9 DEF GetDone, Goto, call
  <2>2. CallType'
    BY <1>0, <2>1 DEF CallType
  <2>3. CallOf(c)'
    BY <1>0, <2>1 DEF CallOf
  <2>4. \A d \in Clients \ {c} : CallOf(d)'
    BY <1>b, <2>1
  <2> QED
    BY <2>2, <2>3, <2>4 DEF CallInv
<1>10. CASE UNCHANGED vars
  BY <1>0, <1>b, <1>10 DEF CallInv, CallType, vars
<1> QED
  BY <1>1, <1>2, <1>3, <1>5, <1>6, <1>7, <1>8, <1>9, <1>10, <1>a DEF Next, Call, Work

(***************************************************************************)
(* The maps                                                                *)
(***************************************************************************)
\* What a client that writes has merged of its payload.
Merged(c) == SubSeq(input[c], 1, Len(input[c]) - Len(left[c]))

\* The log that the maps stand for: a client that writes has added a part of
\* its payload to them.
Seen == IF writer = NoClient THEN log ELSE Arrived(log, Merged(writer))

DataInv ==
    /\ IsLog(log)
    /\ DOMAIN nums = Keys /\ DOMAIN hists = Keys
    /\ \A k \in Keys : Reflects(k, Seen, nums[k], hists[k])

\* The maps are empty at first, and so is the log.
LEMMA DataInit == Init => DataInv
<1> SUFFICES ASSUME Init PROVE DataInv
  OBVIOUS
<1>1. /\ log = NoPoints /\ writer = NoClient
      /\ nums = [k \in Keys |-> NoEntries] /\ hists = [k \in Keys |-> NoEntries]
  BY DEF Init
<1>2. IsLog(log)
  BY <1>1, FS_EmptySet DEF IsLog, NoPoints
<1>3. ASSUME NEW k \in Keys PROVE Reflects(k, Seen, nums[k], hists[k])
  <2>1. nums[k] = NoEntries /\ hists[k] = NoEntries /\ Seen = log /\ DOMAIN log = {}
    BY <1>1 DEF Seen, NoPoints
  <2>2. ASSUME NEW g PROVE Log!Numbers(log, k, g) = {} /\ Log!Histograms(log, k, g) = {}
    BY <2>1 DEF Log!Numbers, Log!Histograms
  <2> QED
    BY <2>1, <2>2 DEF Reflects, NoEntries
<1> QED
  BY <1>1, <1>2, <1>3 DEF DataInv

\* The maps stand for the whole log while nobody writes.
LEMMA SeenIdle ==
    ASSUME IInv, CallInv, DataInv, NEW c \in Clients,
           pc[c] = "writing", left[c] = <<>>
    PROVE  Seen = Arrived(log, input[c])
<1>1. writer = c /\ c # NoClient
  BY StoreAssumption DEF IInv, Held
<1>2. input[c] \in Seq(DataPoints)
  BY DEF CallInv, CallType
<1>3. Merged(c) = input[c]
  <2>1. Len(left[c]) = 0 /\ Len(input[c]) \in Nat
    BY <1>2, EmptyEnd
  <2>2. Len(input[c]) - Len(left[c]) = Len(input[c])
    BY <2>1
  <2>3. SubSeq(input[c], 1, Len(input[c])) = input[c]
    BY <1>2, SubSeqFull
  <2> QED
    BY <2>2, <2>3 DEF Merged
<1> QED
  BY <1>1, <1>3 DEF Seen

\* The maps stand for the log, step by step.
LEMMA DataStep ==
    ASSUME IInv, CallInv, DataInv, [Next]_vars
    PROVE  DataInv'
<1>0. /\ pc \in [Clients -> Places] /\ writer \in Clients \cup {NoClient}
      /\ \A c \in Clients : pc[c] = "writing" <=> writer = c
      /\ NoClient \notin Clients
      /\ CallType /\ \A c \in Clients : CallOf(c)
      /\ IsLog(log) /\ DOMAIN nums = Keys /\ DOMAIN hists = Keys
      /\ \A k \in Keys : Reflects(k, Seen, nums[k], hists[k])
  BY StoreAssumption DEF IInv, LockType, Held, CallInv, DataInv
<1>1. ASSUME UNCHANGED data, Seen' = Seen PROVE DataInv'
  BY <1>0, <1>1 DEF DataInv, data
<1>2. ASSUME UNCHANGED <<log, writer>>,
             \A c \in Clients : pc[c] = "writing" =>
                 input'[c] = input[c] /\ left'[c] = left[c]
      PROVE  Seen' = Seen
  BY <1>0, <1>2 DEF Seen, Merged
<1>3. ASSUME NEW c \in Clients, NEW what, NEW p, CallWriter(c, what, p)
      PROVE  DataInv'
  <2>1. UNCHANGED data /\ UNCHANGED <<log, writer>> /\ pc[c] # "writing"
        /\ \A d \in Clients \ {c} : input'[d] = input[d] /\ left'[d] = left[d]
    BY <1>0, <1>3 DEF CallWriter, data, lock, CallType
  <2> QED
    BY <1>1, <1>2, <2>1
<1>4. ASSUME NEW c \in Clients, Lock(c) PROVE DataInv'
  <2>1. /\ UNCHANGED data /\ writer = NoClient /\ writer' = c
        /\ UNCHANGED <<input, left>> /\ pc[c] = "lock"
    BY <1>4 DEF Lock, call, data
  <2>2. left[c] = input[c] /\ input[c] \in Seq(DataPoints)
    BY <1>0, <2>1 DEF CallOf, CallType
  <2>3. Merged(c)' = <<>>
    <3>1. Len(input[c]) \in Nat /\ Len(left[c]) = Len(input[c])
      BY <2>2, LenProperties
    <3>2. Len(input[c]) - Len(left[c]) = 0
      BY <3>1
    <3>3. Merged(c)' = SubSeq(input[c], 1, Len(input[c]) - Len(left[c]))
      BY <2>1 DEF Merged
    <3>4. SubSeq(input[c], 1, 0) = <<>>
      BY <2>2, SubSeqEmpty
    <3> QED
      BY <3>2, <3>3, <3>4
  <2>4. Seen' = Arrived(log, <<>>)
    BY <1>0, <2>1, <2>3 DEF Seen, data
  <2>5. Seen' = Seen
    BY <1>0, <2>1, <2>4, ArrivedNone DEF Seen
  <2> QED
    BY <1>1, <2>1, <2>5
<1>5. ASSUME NEW c \in Clients, Add(c) PROVE DataInv'
  <2> DEFINE s == input[c]
             t == left[c]
             j == Len(s) - Len(t)
             m == Latest(log) + j + 1
             dp == Head(t)
  <2>1. /\ writer = c /\ c # NoClient /\ pc[c] = "writing" /\ t # <<>>
        /\ UNCHANGED <<writer, input, log>> /\ left'[c] = Tail(t)
        /\ MergeDataPoint(dp)
    BY <1>0, <1>5 DEF Add, lock, CallType
  <2>2. /\ s \in Seq(DataPoints) /\ t \in Seq(DataPoints)
        /\ Len(t) <= Len(s)
        /\ t = SubSeq(s, Len(s) - Len(t) + 1, Len(s))
    BY <1>0 DEF CallType, CallOf
  <2>3. Len(s) \in Nat /\ Len(t) \in Nat \ {0}
    BY <2>1, <2>2, EmptySeq, LenProperties
  <2>4. Len(Tail(t)) = Len(t) - 1 /\ dp = s[j + 1] /\ dp \in DataPoints
    BY <2>1, <2>2, EndTail
  <2>5. j \in Nat /\ j < Len(s) /\ Len(s) - Len(Tail(t)) = j + 1
    <3> DEFINE a == Len(s)
               b == Len(t)
    <3>1. a \in Nat /\ b \in Nat \ {0} /\ b <= a /\ j = a - b
      BY <2>2, <2>3
    <3>2. Len(Tail(t)) = b - 1
      BY <2>4
    <3> HIDE DEF a, b, s, t, j
    <3>3. j \in Nat /\ j < a /\ a - (b - 1) = j + 1
      BY <3>1
    <3> QED
      BY <3>2, <3>3 DEF a
  <2>6. Seen = Arrived(log, SubSeq(s, 1, j))
    BY <2>1 DEF Seen, Merged
  <2>7. Seen' = Arrived(log, SubSeq(s, 1, j + 1))
    BY <2>1, <2>5 DEF Seen, Merged
  <2> HIDE DEF s, t, j
  <2>8. /\ m \in Nat \ {0} /\ \A n \in DOMAIN Seen : n < m
        /\ Seen' = Grown(Seen, m, s[j + 1])
    <3>1. IsLog(log)
      BY <1>0
    <3>2. /\ m \in Nat \ {0}
          /\ \A n \in DOMAIN Arrived(log, SubSeq(s, 1, j)) : n < m
          /\ Arrived(log, SubSeq(s, 1, j + 1))
               = Grown(Arrived(log, SubSeq(s, 1, j)), m, s[j + 1])
      BY <3>1, <2>2, <2>5, ArrivedNext
    <3> HIDE DEF m
    <3> QED
      BY <3>2, <2>6, <2>7
  <2>9. IsLog(Seen)
    <3>1. j \in 0..Len(s)
      BY <2>3, <2>5
    <3> QED
      BY <1>0, <2>2, <2>6, <3>1, ArrivedLog
  <2> HIDE DEF m, dp
  <2>10. ASSUME NEW k \in Keys PROVE Reflects(k, Seen', nums'[k], hists'[k])
    <3>1. /\ nums'[k] = IF IsNumber(dp) THEN MergedNumbers(k, dp) ELSE nums[k]
          /\ hists'[k] = IF IsHistogram(dp) THEN MergedHistograms(k, dp) ELSE hists[k]
      BY <2>1 DEF MergeDataPoint
    <3>2. Reflects(k, Seen, nums[k], hists[k])
      BY <1>0
    <3>3. Reflects(k, Grown(Seen, m, dp),
                    IF IsNumber(dp) THEN MergedNumbers(k, dp) ELSE nums[k],
                    IF IsHistogram(dp) THEN MergedHistograms(k, dp) ELSE hists[k])
      <4> HIDE DEF Seen
      <4> QED
        BY <2>4, <2>8, <2>9, <3>2, MergeReflects
    <3> QED
      BY <2>4, <2>8, <3>1, <3>3
  <2>11. DOMAIN nums' = Keys /\ DOMAIN hists' = Keys
    BY <1>0, <2>1 DEF MergeDataPoint
  <2> QED
    BY <1>0, <2>1, <2>10, <2>11 DEF DataInv
<1>6. ASSUME NEW c \in Clients, AddDone(c) PROVE DataInv'
  <2>1. /\ pc[c] = "writing" /\ left[c] = <<>> /\ UNCHANGED <<nums, hists>>
        /\ log' = Arrived(log, input[c]) /\ writer' = NoClient
    BY <1>6 DEF AddDone, Unlock
  <2>2. Seen' = Seen
    BY <2>1, SeenIdle DEF Seen
  <2>3. IsLog(log')
    <3>1. input[c] \in Seq(DataPoints)
      BY <1>0 DEF CallType
    <3>2. Len(input[c]) \in 0..Len(input[c])
      BY <3>1, LenProperties
    <3>3. SubSeq(input[c], 1, Len(input[c])) = input[c]
      BY <3>1, SubSeqFull
    <3> QED
      BY <1>0, <2>1, <3>1, <3>2, <3>3, ArrivedLog
  <2> QED
    BY <1>0, <2>1, <2>2, <2>3 DEF DataInv
<1>7. ASSUME NEW c \in Clients, Forget(c) PROVE DataInv'
  <2>1. /\ pc[c] = "writing" /\ op[c] = "reset" /\ nums' = [k \in Keys |-> NoEntries]
        /\ log' = RestrictValues(log, IsHistogram) /\ writer' = NoClient
        /\ UNCHANGED hists
    BY <1>7 DEF Forget, Unlock
  <2>2. input[c] = <<>> /\ left[c] = <<>>
    <3>1. /\ input[c] = <<>> /\ Len(left[c]) <= Len(input[c])
          /\ left[c] \in Seq(DataPoints)
      BY <1>0, <2>1 DEF CallOf, CallType
    <3> QED
      BY <3>1, EmptyEnd
  <2>3. Seen = log
    BY <1>0, <2>1, <2>2, SeenIdle, ArrivedNone
  <2>4. Seen' = log'
    BY <2>1 DEF Seen
  <2>5. ASSUME NEW k \in Keys PROVE Reflects(k, log', nums'[k], hists'[k])
    <3>1. Reflects(k, log, nums[k], hists[k])
      BY <1>0, <2>3
    <3>2. Reflects(k, RestrictValues(log, IsHistogram), NoEntries, hists[k])
      BY <1>0, <3>1, ResetReflects
    <3> QED
      BY <2>1, <3>2
  <2>6. IsLog(log')
    <3>1. IsLog(RestrictValues(log, IsHistogram))
      BY <1>0, ResetLog
    <3> QED
      BY <2>1, <3>1
  <2> QED
    BY <1>0, <2>1, <2>4, <2>5, <2>6 DEF DataInv
<1>8. ASSUME NEW c \in Clients, NEW keys, CallReader(c, keys) PROVE DataInv'
  BY <1>1, <1>2, <1>8 DEF CallReader, data
<1>9. ASSUME NEW c \in Clients, Get(c) PROVE DataInv'
  BY <1>1, <1>2, <1>9 DEF Get, data, lock
<1>10. ASSUME NEW c \in Clients, GetDone(c) PROVE DataInv'
  BY <1>1, <1>2, <1>10 DEF GetDone, data, call
<1>11. CASE UNCHANGED vars
  BY <1>1, <1>2, <1>11 DEF vars, data
<1> QED
  BY <1>3, <1>4, <1>5, <1>6, <1>7, <1>8, <1>9, <1>10, <1>11 DEF Next, Call, Work

\* What has been merged, published or not, is a log.
LEMMA SeenLog ==
    ASSUME IInv, CallInv, DataInv PROVE IsLog(Seen)
<1>1. IsLog(log) /\ writer \in Clients \cup {NoClient}
  BY DEF DataInv, IInv, LockType
<1>2. CASE writer = NoClient
  BY <1>1, <1>2 DEF Seen
<1>3. CASE writer \in Clients /\ writer # NoClient
  <2> DEFINE s == input[writer]
             j == Len(s) - Len(left[writer])
  <2>1. /\ s \in Seq(DataPoints) /\ left[writer] \in Seq(DataPoints)
        /\ Len(left[writer]) <= Len(s)
    BY <1>3 DEF CallInv, CallType, CallOf
  <2>2. j \in 0..Len(s)
    <3> DEFINE a == Len(s)
               b == Len(left[writer])
    <3>1. a \in Nat /\ b \in Nat /\ b <= a /\ j = a - b
      BY <2>1, LenProperties
    <3> HIDE DEF a, b, j
    <3>2. j \in 0..a
      BY <3>1
    <3> QED
      BY <3>2 DEF a
  <2>3. Seen = Arrived(log, SubSeq(s, 1, j))
    BY <1>3 DEF Seen, Merged
  <2> HIDE DEF s, j
  <2> QED
    BY <1>1, <2>1, <2>2, <2>3, ArrivedLog
<1> QED
  BY <1>1, <1>2, <1>3

\* The calls and the maps are as CallInv and DataInv say.
THEOREM DataInvariance == Spec => [](IInv /\ CallInv /\ DataInv)
<1>1. Init => IInv /\ CallInv /\ DataInv
  BY InitInv, CallInit, DataInit
<1>2. IInv /\ [Next]_vars => IInv'
  BY LockStep, ReplyStep DEF IInv
<1>3. IInv /\ CallInv /\ [Next]_vars => CallInv'
  BY CallStep
<1>4. IInv /\ CallInv /\ DataInv /\ [Next]_vars => DataInv'
  BY DataStep
<1> QED
  BY <1>1, <1>2, <1>3, <1>4, PTL DEF Spec

\* An entry of a rate starts at the first data point that counts and has a
\* time, and ends at the latest.
LEMMA EntryWindow ==
    ASSUME Forward, NEW l, IsLog(l), NEW k, NEW g, NEW e,
           NumberEntry("rate", l, Log!Numbers(l, k, g), e)
    PROVE  e.start <= e.time
<1> DEFINE P == Log!Numbers(l, k, g)
<1>1. /\ e \in [value : Int, start : Nat, time : Nat]
      /\ \A n \in Counting(l, P) : l[n].time <= e.time
      /\ IF Begun(l, P) = {} THEN e.start = 0
         ELSE \E m : IsFirst(m, Begun(l, P)) /\ e.start = Log!Beginning(l[m])
  BY DEF NumberEntry
<1>2. CASE Begun(l, P) = {}
  BY <1>1, <1>2
<1>3. CASE Begun(l, P) # {}
  <2>1. PICK m : IsFirst(m, Begun(l, P)) /\ e.start = Log!Beginning(l[m])
    BY <1>1, <1>3
  <2>2. m \in Counting(l, P) /\ m \in P
    BY <2>1 DEF IsFirst, Begun, Counting
  <2>3. l[m] \in DataPoints /\ IsNumber(l[m])
    BY <2>2, SameMatch DEF IsLog, Log!Numbers
  <2>4. l[m].start <= l[m].time /\ l[m].start \in Nat /\ l[m].time \in Nat
    BY <2>3, PayloadAssumption DEF Forward
  <2>5. Log!Beginning(l[m]) \in Nat /\ Log!Beginning(l[m]) <= l[m].time
    BY <2>4 DEF Log!Beginning
  <2>6. l[m].time <= e.time /\ e.time \in Nat
    BY <1>1, <2>2
  <2> QED
    BY <2>1, <2>4, <2>5, <2>6
<1> QED
  BY <1>2, <1>3

\* The duration that Get divides a rate by (store.go:370) is never negative,
\* in whatever order data points arrive, if none ends before it starts.
THEOREM RatesForward == ASSUME Forward PROVE Spec => []RateWindow
<1>1. IInv /\ CallInv /\ DataInv => RateWindow
  <2> SUFFICES ASSUME IInv, CallInv, DataInv, NEW k \in Keys,
                      NEW g \in DOMAIN nums[k], Configs[k].type = "rate"
               PROVE  nums[k][g].start <= nums[k][g].time
    BY DEF RateWindow
  <2>1. IsLog(Seen)
    BY SeenLog
  <2>2. NumberEntry("rate", Seen, Log!Numbers(Seen, k, g), nums[k][g])
    BY DEF DataInv, Reflects
  <2> HIDE DEF Seen
  <2> QED
    BY <2>1, <2>2, EntryWindow
<1> QED
  BY <1>1, DataInvariance, PTL

Lengths == [c \in Clients |-> Len(input[c])]

\* The points accepted, as a number of points and a sum.
LEMMA AcceptedIs ==
    ASSUME CallType, IsLog(log)
    PROVE  /\ Accepted = Cardinality(DOMAIN log) + SumFunctionOnSet(Lengths, Clients)
           /\ Lengths \in [Clients -> Nat] /\ IsFiniteSet(Clients)
           /\ SumFunctionOnSet(Lengths, Clients) \in Nat
           /\ Cardinality(DOMAIN log) \in Nat
<1>1. Lengths \in [Clients -> Nat]
  <2>1. \A c \in Clients : Len(input[c]) \in Nat
    BY LenProperties DEF CallType
  <2> QED
    BY <2>1 DEF Lengths
<1>2. IsFiniteSet(Clients)
  BY StoreAssumption
<1>3. SumFunctionOnSet(Lengths, Clients) \in Nat
  BY <1>1, <1>2, SumType
<1>4. Cardinality(DOMAIN log) \in Nat
  BY FS_CardinalityType DEF IsLog
<1>5. Accepted = Cardinality(DOMAIN log) + SumFunctionOnSet(Lengths, Clients)
  BY <1>1 DEF Accepted, Lengths, SumFunction
<1> QED
  BY <1>1, <1>2, <1>3, <1>4, <1>5

\* A payload that arrives is as many points more.
LEMMA ArrivedSize ==
    ASSUME NEW l, IsLog(l), NEW p \in Seq(DataPoints)
    PROVE  Cardinality(DOMAIN Arrived(l, p)) = Cardinality(DOMAIN l) + Len(p)
<1> DEFINE L == Latest(l)
           D == DOMAIN l
           I == (L + 1)..(L + Len(p))
<1>1. L \in Nat /\ Len(p) \in Nat /\ \A n \in D : n <= L /\ n \in Nat
  BY LatestIs, LenProperties
<1>2. DOMAIN Arrived(l, p) = D \cup I
  BY DEF Arrived
<1> HIDE DEF L
<1>3. IsFiniteSet(I) /\ Cardinality(I) = Len(p)
  <2> DEFINE a == L + 1
             b == L + Len(p)
  <2>1. a \in Int /\ b \in Int
    BY <1>1
  <2>2. IsFiniteSet(a..b) /\ Cardinality(a..b) = IF a > b THEN 0 ELSE b - a + 1
    BY <2>1, FS_Interval
  <2>3. (IF a > b THEN 0 ELSE b - a + 1) = Len(p)
    BY <1>1
  <2> QED
    BY <2>2, <2>3
<1>4. D \cap I = {}
  BY <1>1
<1>5. IsFiniteSet(D) /\ Cardinality(D) \in Nat
  BY FS_CardinalityType DEF IsLog
<1>6. Cardinality(D \cup I) = Cardinality(D) + Cardinality(I) - Cardinality(D \cap I)
  <2> HIDE DEF D, I
  <2> QED
    BY <1>3, <1>5, FS_Union
<1>7. Cardinality(D \cap I) = 0
  BY <1>4, FS_EmptySet
<1> HIDE DEF D, I
<1> QED
  BY <1>1, <1>2, <1>3, <1>5, <1>6, <1>7 DEF D

Bounded == Accepted <= MaxPoints

\* The bound on the points accepted between two resets is kept.
LEMMA AcceptedStep ==
    ASSUME IInv, CallInv, CallInv', DataInv, DataInv', Bounded, [Next]_vars
    PROVE  Bounded'
<1> DEFINE sum == SumFunctionOnSet(Lengths, Clients)
           size == Cardinality(DOMAIN log)
<1> USE DEF Bounded
<1>0. /\ CallType /\ CallType' /\ IsLog(log) /\ IsLog(log)' /\ MaxPoints \in Nat
      /\ pc \in [Clients -> Places] /\ \A c \in Clients : CallOf(c)
  BY StoreAssumption DEF CallInv, DataInv, IInv, LockType
<1>1. /\ Accepted = size + sum /\ Lengths \in [Clients -> Nat]
      /\ sum \in Nat /\ size \in Nat /\ IsFiniteSet(Clients)
  BY <1>0, AcceptedIs
<1>2. /\ Accepted' = size' + sum' /\ Lengths' \in [Clients -> Nat]
      /\ sum' \in Nat /\ size' \in Nat
  <2>1. Lengths' \in [Clients -> Nat]
    <3>1. \A c \in Clients : Len(input'[c]) \in Nat
      BY <1>0, LenProperties DEF CallType
    <3> QED
      BY <3>1 DEF Lengths
  <2>2. sum' \in Nat
    BY <1>1, <2>1, SumType
  <2>3. size' \in Nat
    BY <1>0, FS_CardinalityType DEF IsLog
  <2>4. Accepted' = size' + sum'
    BY <2>1 DEF Accepted, Lengths, SumFunction
  <2> QED
    BY <2>1, <2>2, <2>3, <2>4
<1>3. ASSUME NEW c \in Clients, \A d \in Clients \ {c} : input'[d] = input[d]
      PROVE  sum' = sum + (Len(input'[c]) - Len(input[c]))
  <2>1. \A d \in Clients \ {c} : Lengths'[d] = Lengths[d]
    BY <1>3 DEF Lengths
  <2>2. Lengths'[c] = Len(input'[c]) /\ Lengths[c] = Len(input[c])
    BY DEF Lengths
  <2>3. SumFunctionOnSet(Lengths', Clients)
          = SumFunctionOnSet(Lengths, Clients) + (Lengths'[c] - Lengths[c])
    BY <1>1, <1>2, <2>1, SumChange
  <2> QED
    BY <2>2, <2>3
<1>4. ASSUME UNCHANGED <<log, input>> PROVE Accepted' <= MaxPoints
  BY <1>4 DEF Accepted
<1>5. \A c \in Clients : Len(input[c]) \in Nat /\ Len(<<>>) = 0
  BY <1>0, LenProperties, EmptySeq DEF CallType
<1> HIDE DEF sum, size
<1>6. ASSUME NEW c \in Clients, NEW what, NEW p \in Seq(DataPoints),
             CallWriter(c, what, p)
      PROVE  Accepted' <= MaxPoints
  <2>1. /\ pc[c] = "idle" /\ Accepted + Len(p) <= MaxPoints /\ log' = log
        /\ input'[c] = p /\ \A d \in Clients \ {c} : input'[d] = input[d]
    BY <1>0, <1>6 DEF CallWriter, data, CallType
  <2>2. input[c] = <<>> /\ Len(p) \in Nat
    BY <1>0, <2>1, LenProperties DEF CallOf
  <2>3. sum' = sum + (Len(p) - Len(input[c]))
    BY <1>3, <2>1
  <2>4. size' = size
    BY <2>1 DEF size
  <2> QED
    BY <1>1, <1>2, <1>5, <2>1, <2>2, <2>3, <2>4
<1>7. ASSUME NEW c \in Clients, AddDone(c) PROVE Accepted' <= MaxPoints
  <2>1. /\ log' = Arrived(log, input[c]) /\ input[c] \in Seq(DataPoints)
        /\ input'[c] = <<>> /\ \A d \in Clients \ {c} : input'[d] = input[d]
    BY <1>0, <1>7 DEF AddDone, Unlock, CallType
  <2>2. sum' = sum + (Len(input'[c]) - Len(input[c]))
    BY <1>3, <2>1
  <2>3. size' = size + Len(input[c])
    BY <1>0, <2>1, ArrivedSize DEF size
  <2>4. sum' = sum + (0 - Len(input[c])) /\ Len(input[c]) \in Nat
    BY <1>5, <2>1, <2>2
  <2> QED
    BY <1>1, <1>2, <2>3, <2>4
<1>8. ASSUME NEW c \in Clients, Forget(c) PROVE Accepted' <= MaxPoints
  <2>1. /\ log' = RestrictValues(log, IsHistogram) /\ input[c] = <<>>
        /\ input'[c] = <<>> /\ \A d \in Clients \ {c} : input'[d] = input[d]
    BY <1>0, <1>8 DEF Forget, Unlock, CallType, CallOf
  <2>2. sum' = sum + (Len(input'[c]) - Len(input[c]))
    BY <1>3, <2>1
  <2>3. size' <= size
    <3>1. DOMAIN log' \in SUBSET DOMAIN log
      BY <2>1 DEF RestrictValues, Restrict
    <3>2. IsFiniteSet(DOMAIN log)
      BY <1>0 DEF IsLog
    <3> QED
      BY <3>1, <3>2, FS_Subset DEF size
  <2>4. sum' = sum
    BY <1>1, <1>5, <2>1, <2>2
  <2>5. /\ Accepted = size + sum /\ Accepted' = size' + sum /\ MaxPoints \in Nat
        /\ size \in Nat /\ sum \in Nat /\ size' \in Nat
    BY <1>0, <1>1, <1>2, <2>4
  <2>6. \A i, j, k, m \in Nat : i <= j /\ j + k <= m => i + k <= m
    OBVIOUS
  <2>7. size + sum <= MaxPoints
    BY <2>5
  <2>8. size' + sum <= MaxPoints
    BY <2>3, <2>5, <2>6, <2>7
  <2> QED
    BY <2>5, <2>8
<1>9. \A p \in Payloads : p \in Seq(DataPoints)
  BY PayloadAssumption
<1>10. <<>> \in Seq(DataPoints)
  BY EmptySeq
<1>11. ASSUME NEW c \in Clients, Lock(c) \/ Add(c) \/ Get(c) \/ GetDone(c)
       PROVE  Accepted' <= MaxPoints
  BY <1>4, <1>11 DEF Lock, Add, Get, GetDone, data, call
<1>12. ASSUME NEW c \in Clients, NEW keys, CallReader(c, keys)
       PROVE  Accepted' <= MaxPoints
  BY <1>4, <1>12 DEF CallReader, data
<1>13. CASE UNCHANGED vars
  BY <1>4, <1>13 DEF vars
<1> QED
  BY <1>6, <1>7, <1>8, <1>9, <1>10, <1>11, <1>12, <1>13 DEF Next, Call, Work

\* What is left of a payload is a suffix of it.
LEMMA EndSuffix ==
    ASSUME NEW s \in Seq(DataPoints), NEW t \in Seq(DataPoints),
           Len(t) <= Len(s), t = SubSeq(s, Len(s) - Len(t) + 1, Len(s))
    PROVE  IsSuffix(t, s)
<1> DEFINE a == Len(s)
           b == Len(t)
<1>1. a \in Nat /\ b \in Nat /\ b <= a
  BY LenProperties
<1>2. \A i \in 1..b : t[i] = s[(a - b) + i]
  <2> DEFINE m == a - b + 1
  <2>1. m \in Int /\ a \in Int /\ (\A i \in m..a : i \in 1..a)
        /\ a - m + 1 = b /\ \A i \in 1..b : m + i - 1 = (a - b) + i
    BY <1>1
  <2> HIDE DEF m
  <2>2. \A i \in m..a : s[i] \in DataPoints
    <3>1. \A i \in 1..a : s[i] \in DataPoints
      BY ElementOfSeq
    <3> QED
      BY <2>1, <3>1
  <2>3. \A i \in 1..a - m + 1 : SubSeq(s, m, a)[i] = s[m + i - 1]
    <3> HIDE DEF a
    <3> QED
      BY <2>1, <2>2, SubSeqProperties
  <2>4. t = SubSeq(s, m, a)
    BY DEF m
  <2> HIDE DEF a, b
  <2> QED
    BY <2>1, <2>3, <2>4
<1> DEFINE rs == [i \in 1..a |-> s[(a - i) + 1]]
           rt == [i \in 1..b |-> t[(b - i) + 1]]
<1>3. Reverse(s) = rs /\ Reverse(t) = rt
  BY DEF Reverse
<1>4. Len(rs) = a /\ Len(rt) = b
  <2> HIDE DEF a, b
  <2> QED
    BY <1>1
<1>5. \A i \in 1..b : rt[i] = rs[i]
  <2> SUFFICES ASSUME NEW i \in 1..b PROVE rt[i] = rs[i]
    OBVIOUS
  <2>1. (b - i) + 1 \in 1..b /\ (a - b) + ((b - i) + 1) = (a - i) + 1 /\ i \in 1..a
    BY <1>1
  <2>2. t[(b - i) + 1] = s[(a - b) + ((b - i) + 1)]
    BY <1>2, <2>1
  <2> HIDE DEF a, b
  <2> QED
    BY <2>1, <2>2
<1>6. SubSeq(rt, 1, b) = SubSeq(rs, 1, b)
  <2> HIDE DEF a, b, rs, rt
  <2> QED
    BY <1>1, <1>5
<1> QED
  BY <1>1, <1>3, <1>4, <1>6 DEF IsSuffix, IsPrefix

\* Every variable of the store has its type.
THEOREM TypeCorrect == Spec => []TypeOK
<1>1. Init => Bounded
  <2> SUFFICES ASSUME Init PROVE Bounded
    OBVIOUS
  <2>1. CallType /\ IsLog(log)
    BY CallInit, DataInit DEF CallInv, DataInv
  <2>2. \A c \in Clients : Lengths[c] = 0
    BY EmptySeq DEF Init, Lengths
  <2>3. SumFunctionOnSet(Lengths, Clients) = 0
    BY <2>1, <2>2, AcceptedIs, SumType
  <2>4. Cardinality(DOMAIN log) = 0
    BY FS_EmptySet DEF Init, NoPoints
  <2> QED
    BY <2>1, <2>3, <2>4, AcceptedIs, StoreAssumption DEF Bounded
<1>2. IInv /\ CallInv /\ DataInv /\ CallInv' /\ DataInv' /\ Bounded /\ [Next]_vars
        => Bounded'
  BY AcceptedStep
<1>3. IInv /\ CallInv /\ DataInv /\ Bounded => TypeOK
  <2> SUFFICES ASSUME IInv, CallInv, DataInv, Bounded PROVE TypeOK
    OBVIOUS
  <2>1. /\ DOMAIN nums = Keys /\ DOMAIN hists = Keys
        /\ \A k \in Keys : Reflects(k, Seen, nums[k], hists[k])
    BY DEF DataInv
  <2>2. \A k \in Keys : \A g \in DOMAIN nums[k] :
           nums[k][g] \in [value : Int, start : Nat, time : Nat]
    BY <2>1 DEF Reflects, NumberEntry
  <2>3. \A k \in Keys : \A g \in DOMAIN hists[k] :
           DOMAIN hists[k][g] = {"bounds", "count", "sum"}
    BY <2>1 DEF Reflects, HistogramEntry
  <2>4. /\ writer \in Clients \cup {NoClient} /\ readers \subseteq Clients
        /\ pc \in [Clients -> {"idle", "lock", "rlock", "writing", "reading"}]
    BY DEF IInv, LockType, Places
  <2>5. /\ op \in [Clients -> {"add", "reset", "get"}] /\ ask \in [Clients -> SUBSET Keys]
        /\ \A c \in Clients : DOMAIN reply[c] \subseteq Keys \ ask[c]
    BY DEF CallInv, CallType, CallOf
  <2>6. ASSUME NEW c \in Clients PROVE IsSuffix(left[c], input[c])
    <3>1. /\ left[c] \in Seq(DataPoints) /\ input[c] \in Seq(DataPoints)
          /\ Len(left[c]) <= Len(input[c])
          /\ left[c] = SubSeq(input[c], Len(input[c]) - Len(left[c]) + 1, Len(input[c]))
      BY DEF CallInv, CallType, CallOf
    <3> QED
      BY <3>1, EndSuffix
  <2> QED
    BY <2>1, <2>2, <2>3, <2>4, <2>5, <2>6 DEF TypeOK, Bounded
<1> QED
  BY <1>1, <1>2, <1>3, DataInvariance, PTL DEF Spec

(***************************************************************************)
(* What the log shows of a call                                            *)
(***************************************************************************)
BusyOf(c) == pc[c] # "idle"
RequestOf(c) ==
    [op |-> IF pc[c] = "idle" THEN "get" ELSE op[c],
     payload |-> input[c],
     keys |-> IF pc[c] = "idle" \/ op[c] # "get" THEN {}
              ELSE ask[c] \cup DOMAIN reply[c]]
AnswerOf(c) ==
    IF pc[c] = "idle" /\ op[c] = "get" THEN reply[c] ELSE [k \in {} |-> 0]

Busy == [c \in Clients |-> BusyOf(c)]
Request == [c \in Clients |-> RequestOf(c)]
Answer == [c \in Clients |-> AnswerOf(c)]

\* The mapped state of a step that only c's call shows.
ShownBy(c) ==
    /\ Busy' = [Busy EXCEPT ![c] = BusyOf(c)']
    /\ Request' = [Request EXCEPT ![c] = RequestOf(c)']
    /\ Answer' = [Answer EXCEPT ![c] = AnswerOf(c)']

\* The actions of the log, in terms of what is shown.
LEMMA MappedCall ==
    ASSUME NEW c \in Clients, NEW r, pc[c] = "idle", UNCHANGED log,
           Busy' = [Busy EXCEPT ![c] = TRUE],
           Request' = [Request EXCEPT ![c] = r],
           Answer' = [Answer EXCEPT ![c] = Log!NoAnswer]
    PROVE  Log!Call(c, r)
  BY DEF Log!Call, Busy, Request, Answer, BusyOf, RequestOf, AnswerOf

\* An Add returns.
LEMMA MappedAdd ==
    ASSUME NEW c \in Clients, pc[c] # "idle", op[c] = "add",
           log' = Log!Arrived(log, input[c]),
           Busy' = [Busy EXCEPT ![c] = FALSE],
           Request' = [Request EXCEPT ![c] = Log!NoRequest],
           Answer' = Answer
    PROVE  Log!Add(c)
  BY DEF Log!Add, Log!Return, Busy, Request, Answer, BusyOf, RequestOf, AnswerOf

\* A Reset returns.
LEMMA MappedReset ==
    ASSUME NEW c \in Clients, pc[c] # "idle", op[c] = "reset",
           log' = Log!RestrictValues(log, Log!Populated),
           Busy' = [Busy EXCEPT ![c] = FALSE],
           Request' = [Request EXCEPT ![c] = Log!NoRequest],
           Answer' = Answer
    PROVE  Log!Reset(c)
  BY DEF Log!Reset, Log!Return, Busy, Request, Answer, BusyOf, RequestOf, AnswerOf

\* A Get or GetAll returns.
LEMMA MappedGet ==
    ASSUME NEW c \in Clients, pc[c] # "idle", op[c] = "get", UNCHANGED log,
           Busy' = [Busy EXCEPT ![c] = FALSE],
           Request' = [Request EXCEPT ![c] = Log!NoRequest],
           Answer' = [Answer EXCEPT ![c] =
               [k \in ask[c] \cup DOMAIN reply[c] |-> Log!Report(log, k)]]
    PROVE  Log!Get(c)
  BY DEF Log!Get, Log!Return, Busy, Request, Answer, BusyOf, RequestOf, AnswerOf

\* Nothing that is shown changes.
LEMMA MappedUnchanged ==
    ASSUME UNCHANGED log, Busy' = Busy, Request' = Request, Answer' = Answer
    PROVE  UNCHANGED Log!vars
  BY DEF Log!vars, Busy, Request, Answer, BusyOf, RequestOf, AnswerOf

\* A call that shows the same afterwards.
LEMMA SameShown ==
    ASSUME NEW c \in Clients, ShownBy(c), UNCHANGED log,
           BusyOf(c)' = BusyOf(c), RequestOf(c)' = RequestOf(c),
           AnswerOf(c)' = AnswerOf(c)
    PROVE  UNCHANGED Log!vars
<1>1. Busy' = Busy
  BY DEF ShownBy, Busy
<1>2. Request' = Request
  BY DEF ShownBy, Request
<1>3. Answer' = Answer
  BY DEF ShownBy, Answer
<1> QED
  BY <1>1, <1>2, <1>3, MappedUnchanged

\* Only the call of the client that takes a step shows a difference: that a
\* waiting reader is let in does not.
LEMMA OthersSame ==
    ASSUME IInv, CallInv, NEW c \in Clients, Call(c) \/ Work(c)
    PROVE  ShownBy(c)
<1>0. /\ pc \in [Clients -> Places] /\ DOMAIN reply = Clients /\ CallType
  BY DEF IInv, LockType, CallInv
<1> DEFINE Same(d) ==
             /\ op'[d] = op[d] /\ input'[d] = input[d] /\ reply'[d] = reply[d]
             /\ ask'[d] = ask[d]
             /\ pc'[d] = pc[d] \/ (pc[d] = "rlock" /\ pc'[d] = "reading")
<1>1. ASSUME NEW d \in Clients \ {c} PROVE Same(d)
  <2> USE DEF Goto, lock, call, CallType
  <2>1. ASSUME NEW what, NEW p, CallWriter(c, what, p) PROVE Same(d)
    BY <1>0, <2>1 DEF CallWriter
  <2>2. ASSUME NEW keys, CallReader(c, keys) PROVE Same(d)
    BY <1>0, <2>2 DEF CallReader
  <2>3. CASE Lock(c)
    BY <1>0, <2>3 DEF Lock
  <2>4. CASE Add(c)
    BY <1>0, <2>4 DEF Add
  <2>5. CASE AddDone(c) \/ Forget(c)
    BY <1>0, <2>5 DEF AddDone, Forget, Unlock, Waiting
  <2>6. CASE Get(c)
    BY <1>0, <2>6 DEF Get
  <2>7. CASE GetDone(c)
    BY <1>0, <2>7 DEF GetDone
  <2> QED
    BY <2>1, <2>2, <2>3, <2>4, <2>5, <2>6, <2>7 DEF Call, Work
<1>2. \A d \in Clients \ {c} : /\ BusyOf(d)' = BusyOf(d)
                               /\ RequestOf(d)' = RequestOf(d)
                               /\ AnswerOf(d)' = AnswerOf(d)
  BY <1>1 DEF BusyOf, RequestOf, AnswerOf
<1> QED
  BY <1>2 DEF ShownBy, Busy, Request, Answer

\* Both modules number the data points the same way.
LEMMA SameArrived ==
    ASSUME NEW l, NEW p
    PROVE  Log!Arrived(l, p) = Arrived(l, p) /\ Log!NoPoints = NoPoints
<1>1. Log!Latest(l) = Latest(l)
  BY SameMax DEF Log!Latest, Latest
<1> QED
  BY <1>1 DEF Log!Arrived, Arrived, Log!NoPoints, NoPoints

\* The store starts as the log does.
LEMMA LogInit == Init => Log!Init
<1> SUFFICES ASSUME Init PROVE Log!Init
  OBVIOUS
<1>1. log = Log!NoPoints
  BY SameArrived DEF Init
<1>2. Busy = [c \in Clients |-> FALSE]
  BY DEF Init, Busy, BusyOf
<1>3. Request = [c \in Clients |-> Log!NoRequest]
  BY DEF Init, Request, RequestOf, Log!NoRequest
<1>4. Answer = [c \in Clients |-> Log!NoAnswer]
  BY DEF Init, Answer, AnswerOf, Log!NoAnswer, NoEntries
<1> QED
  BY <1>1, <1>2, <1>3, <1>4
     DEF Log!Init, Busy, Request, Answer, BusyOf, RequestOf, AnswerOf

\* A call begins.
LEMMA CallMaps ==
    ASSUME IInv, CallInv, NEW c \in Clients, Call(c)
    PROVE  \E r \in Log!Requests : Log!Call(c, r)
<1>0. /\ pc \in [Clients -> Places] /\ DOMAIN reply = Clients /\ CallType
      /\ CallOf(c) /\ ShownBy(c)
  BY OthersSame DEF IInv, LockType, CallInv
<1>1. ASSUME NEW what \in {"add", "reset"}, NEW p, CallWriter(c, what, p),
             what = "add" => p \in Payloads, what = "reset" => p = <<>>
      PROVE  \E r \in Log!Requests : Log!Call(c, r)
  <2> DEFINE r == [op |-> what, payload |-> p, keys |-> {}]
  <2>1. /\ pc[c] = "idle" /\ pc'[c] = "lock" /\ op'[c] = what /\ input'[c] = p
        /\ UNCHANGED log
    BY <1>0, <1>1 DEF CallWriter, Goto, CallType, data
  <2>2. BusyOf(c)' = TRUE /\ RequestOf(c)' = r /\ AnswerOf(c)' = Log!NoAnswer
    BY <2>1 DEF BusyOf, RequestOf, AnswerOf, Log!NoAnswer
  <2>3. r \in Log!Requests
    BY <1>1 DEF Log!Requests
  <2> HIDE DEF r
  <2>4. Log!Call(c, r)
    BY <1>0, <2>1, <2>2, MappedCall DEF ShownBy
  <2> QED
    BY <2>3, <2>4
<1>2. ASSUME NEW keys, CallReader(c, keys), keys = Keys \/ \E k \in Keys : keys = {k}
      PROVE  \E r \in Log!Requests : Log!Call(c, r)
  <2> DEFINE r == [op |-> "get", payload |-> <<>>, keys |-> keys]
  <2>1. /\ pc[c] = "idle" /\ pc'[c] \in {"reading", "rlock"} /\ op'[c] = "get"
        /\ input'[c] = <<>> /\ ask'[c] = keys /\ reply'[c] = NoEntries
        /\ UNCHANGED log
    BY <1>0, <1>2 DEF CallReader, Goto, CallType, CallOf, data
  <2>2. BusyOf(c)' = TRUE /\ RequestOf(c)' = r /\ AnswerOf(c)' = Log!NoAnswer
    BY <2>1 DEF BusyOf, RequestOf, AnswerOf, Log!NoAnswer, NoEntries
  <2>3. r \in Log!Requests
    BY <1>2 DEF Log!Requests, Log!Keys, Keys
  <2> HIDE DEF r
  <2>4. Log!Call(c, r)
    BY <1>0, <2>1, <2>2, MappedCall DEF ShownBy
  <2> QED
    BY <2>3, <2>4
<1> QED
  BY <1>1, <1>2 DEF Call

\* A call returns: an Add or a Reset takes effect, a Get is answered.
LEMMA ReturnMaps ==
    ASSUME IInv, CallInv, DataInv, NEW c \in Clients
    PROVE  /\ AddDone(c) => Log!Add(c)
           /\ Forget(c) => Log!Reset(c)
           /\ GetDone(c) => Log!Get(c)
<1>0. /\ pc \in [Clients -> Places] /\ DOMAIN reply = Clients /\ CallType
      /\ CallOf(c) /\ Held /\ SnapshotReply
  BY DEF IInv, LockType, CallInv
<1>1. ASSUME Unlock(c), pc[c] = "writing", op[c] \in {"add", "reset"}
      PROVE  /\ BusyOf(c)' = FALSE /\ RequestOf(c)' = Log!NoRequest
             /\ AnswerOf(c)' = AnswerOf(c)
  <2>1. pc'[c] = "idle" /\ input'[c] = <<>> /\ UNCHANGED <<op, reply>>
    BY <1>0, <1>1 DEF Unlock, CallType
  <2> QED
    BY <1>1, <2>1 DEF BusyOf, RequestOf, AnswerOf, Log!NoRequest
<1>2. ASSUME AnswerOf(c)' = AnswerOf(c), ShownBy(c) PROVE Answer' = Answer
  BY <1>2 DEF ShownBy, Answer
<1>3. ASSUME AddDone(c) PROVE Log!Add(c)
  <2>1. /\ pc[c] = "writing" /\ op[c] = "add" /\ Unlock(c)
        /\ log' = Log!Arrived(log, input[c])
    BY <1>3, SameArrived DEF AddDone
  <2>2. ShownBy(c)
    BY <1>3, OthersSame DEF Work
  <2> QED
    BY <1>1, <1>2, <2>1, <2>2, MappedAdd DEF ShownBy
<1>4. ASSUME Forget(c) PROVE Log!Reset(c)
  <2>1. /\ pc[c] = "writing" /\ op[c] = "reset" /\ Unlock(c)
        /\ log' = Log!RestrictValues(log, Log!Populated)
    BY <1>4, ResetSame DEF Forget
  <2>2. ShownBy(c)
    BY <1>4, OthersSame DEF Work
  <2> QED
    BY <1>1, <1>2, <2>1, <2>2, MappedReset DEF ShownBy
<1>5. ASSUME GetDone(c) PROVE Log!Get(c)
  <2>1. /\ pc[c] = "reading" /\ pc'[c] = "idle" /\ ask[c] = {}
        /\ UNCHANGED <<log, op, input, ask, reply>> /\ op[c] = "get"
        /\ input[c] = <<>>
    BY <1>0, <1>5 DEF GetDone, Goto, data, call, CallOf
  <2>2. Seen = log
    BY <1>0, <2>1 DEF Held, Seen
  <2>3. ASSUME NEW k \in DOMAIN reply[c] PROVE reply[c][k] = Log!Report(log, k)
    <3>1. k \in Keys /\ reply[c][k] = Read(k)
      BY <1>0, <2>1 DEF CallOf, SnapshotReply
    <3>2. IsLog(log) /\ Reflects(k, log, nums[k], hists[k])
      BY <2>2, <3>1 DEF DataInv
    <3> QED
      BY <3>1, <3>2, ReadIsReport
  <2>4. reply[c] = [k \in ask[c] \cup DOMAIN reply[c] |-> Log!Report(log, k)]
    <3>1. reply[c] = [k \in DOMAIN reply[c] |-> reply[c][k]]
      BY <1>0 DEF CallOf
    <3> QED
      BY <2>1, <2>3, <3>1
  <2>5. /\ BusyOf(c)' = FALSE /\ RequestOf(c)' = Log!NoRequest
        /\ AnswerOf(c)' = reply[c]
    BY <2>1 DEF BusyOf, RequestOf, AnswerOf, Log!NoRequest
  <2>6. ShownBy(c)
    BY <1>5, OthersSame DEF Work
  <2> DEFINE answer == [k \in ask[c] \cup DOMAIN reply[c] |-> Log!Report(log, k)]
  <2>7. AnswerOf(c)' = answer
    BY <2>4, <2>5
  <2> HIDE DEF answer
  <2>8. /\ Busy' = [Busy EXCEPT ![c] = FALSE]
        /\ Request' = [Request EXCEPT ![c] = Log!NoRequest]
        /\ Answer' = [Answer EXCEPT ![c] = answer]
    BY <2>5, <2>6, <2>7 DEF ShownBy
  <2> QED
    BY <2>1, <2>8, MappedGet DEF answer
<1> QED
  BY <1>3, <1>4, <1>5

\* What a client does under the lock does not show.
LEMMA WorkMaps ==
    ASSUME IInv, CallInv, NEW c \in Clients, Lock(c) \/ Add(c) \/ Get(c)
    PROVE  UNCHANGED Log!vars
<1>0. /\ pc \in [Clients -> Places] /\ DOMAIN reply = Clients /\ CallType
      /\ CallOf(c) /\ ShownBy(c)
  BY OthersSame DEF IInv, LockType, CallInv, Work
<1>1. CASE Lock(c) \/ Add(c)
  <2>1. /\ pc[c] \in {"lock", "writing"} /\ pc'[c] = "writing" /\ op[c] # "get"
        /\ UNCHANGED <<log, op, input, reply, ask>>
    BY <1>0, <1>1 DEF Lock, Add, Goto, CallOf, data, call
  <2> QED
    BY <1>0, <2>1, SameShown DEF BusyOf, RequestOf, AnswerOf
<1>2. CASE Get(c)
  <2>1. PICK k \in ask[c] :
             /\ reply' = [reply EXCEPT ![c] = SetEntry(@, k, Read(k))]
             /\ ask' = [ask EXCEPT ![c] = @ \ {k}]
    BY <1>2 DEF Get
  <2>2. pc[c] = "reading" /\ UNCHANGED <<log, pc, op, input>>
    BY <1>2 DEF Get, data
  <2>3. ask'[c] \cup DOMAIN reply'[c] = ask[c] \cup DOMAIN reply[c]
    BY <1>0, <2>1 DEF SetEntry, CallType
  <2> QED
    BY <1>0, <2>2, <2>3, SameShown DEF BusyOf, RequestOf, AnswerOf
<1> QED
  BY <1>1, <1>2

\* Every step of the store is one of the log, or does not show.
LEMMA LogStep ==
    ASSUME IInv, CallInv, DataInv, [Next]_vars
    PROVE  [Log!Next]_(Log!vars)
<1>1. ASSUME NEW c \in Clients, Call(c) PROVE Log!Next
  BY <1>1, CallMaps DEF Log!Next
<1>2. ASSUME NEW c \in Clients, AddDone(c) \/ Forget(c) \/ GetDone(c) PROVE Log!Next
  BY <1>2, ReturnMaps DEF Log!Next
<1>3. ASSUME NEW c \in Clients, Lock(c) \/ Add(c) \/ Get(c) PROVE UNCHANGED Log!vars
  BY <1>3, WorkMaps
<1>4. CASE UNCHANGED vars
  BY <1>4 DEF vars, Log!vars
<1> QED
  BY <1>1, <1>2, <1>3, <1>4 DEF Next, Work

\* The store implements the log: every Add, Reset, Get and GetAll takes effect
\* at one instant.  A number reported is made of all the data points added since
\* the last Reset; a histogram, which Reset leaves alone, of those added since
\* its bounds last changed.
THEOREM Linearizable == Spec => ImplementsMetricsLog
<1>1. IInv /\ CallInv /\ DataInv /\ [Next]_vars => [Log!Next]_(Log!vars)
  BY LogStep
<1> QED
  BY <1>1, LogInit, DataInvariance, PTL DEF Spec, ImplementsMetricsLog, Log!Spec
=============================================================================
