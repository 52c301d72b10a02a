------------------------------- MODULE Store -------------------------------
(***************************************************************************)
(* The metrics store of cmd/otelinmemexporter: store.go, the merging of    *)
(* histograms of histogram.go, and the handlers of http.go.                *)
(*                                                                         *)
(* Clients are the goroutines that use one Store: the collector pipeline   *)
(* calls Add, the HTTP server GetAll, Get and Reset.  All of them go       *)
(* through the RWMutex of the store and work under it in several steps: a  *)
(* data point at a time, a key at a time.                                  *)
(*                                                                         *)
(* A payload of Add is flattened to the sequence of its data points, each  *)
(* with what it takes from its metric and its resource.  float64 values    *)
(* are integers; a histogram is its bounds, count and sum, and what a      *)
(* percentile is computed from is represented by the count.                *)
(***************************************************************************)
EXTENDS Integers, Sequences, FiniteSets, SequencesExt, Functions, Arrivals

CONSTANTS
    Clients,   \* goroutines using the store
    Configs,   \* [key -> AggregationConfig]: [name, match, type, groupBy]
    Payloads,  \* the sequences of data points Add may be called with
    Empty,     \* no label, no label value: the empty pcommon.Value
    NoClient,
    MaxPoints  \* data points accepted between two resets (bound)

ASSUME StoreAssumption ==
    NoClient \notin Clients /\ MaxPoints \in Nat /\ IsFiniteSet(Clients)

Keys == DOMAIN Configs

VARIABLES
    nums,     \* s.nums: [key -> [group -> number data point]]
    hists,    \* s.hists: [key -> [group -> histogram data point]]
    writer,   \* the client that holds the write lock
    readers,  \* the clients that hold the read lock
    pc,       \* "idle", "lock", "rlock", "writing", "reading"
    op,       \* the operation a client called last: "add", "reset" or "get"
    input,    \* the payload of an Add
    left,     \* its data points still to merge
    ask,      \* keys still to read
    reply,    \* [key -> [group -> value]] read so far
    log       \* history: the data points merged and not forgotten, numbered

vars == <<nums, hists, writer, readers, pc, op, input, left, ask, reply,
          log>>

data == <<nums, hists, log>>
lock == <<writer, readers>>
call == <<op, input, left, ask, reply>>

NoEntries == [g \in {} |-> 0]

(***************************************************************************)
(* Matching a data point                                                   *)
(***************************************************************************)
\* The data point's own attributes win, even with an empty value.
getValueFromMaps(label, dp) ==
    IF label \in DOMAIN dp.attrs THEN dp.attrs[label]
    ELSE IF label \in DOMAIN dp.resAttrs THEN dp.resAttrs[label]
    ELSE Empty

isEqualAttrs(cfg, dp) ==
    /\ cfg.name = dp.name
    /\ \A label \in DOMAIN cfg.match :
         /\ getValueFromMaps(label, dp) # Empty
         /\ getValueFromMaps(label, dp) = cfg.match[label]

Group(key, dp) == getValueFromMaps(Configs[key].groupBy, dp)

\* add drops what is neither a gauge, a delta sum nor a delta histogram, and
\* mergeHistogramDataPoints what has no population.
IsNumber(dp) == dp.kind = "gauge" \/ (dp.kind = "sum" /\ dp.delta)
IsHistogram(dp) == dp.kind = "histogram" /\ dp.delta /\ dp.count > 0

DataPoints == UNION {Range(p) : p \in Payloads}

\* What a data point carries, as far as its kind is merged at all.
ASSUME PayloadAssumption ==
    /\ Payloads \subseteq Seq(DataPoints)
    /\ \A dp \in DataPoints :
         /\ IsNumber(dp) => dp.value \in Int /\ dp.start \in Nat /\ dp.time \in Nat
         /\ dp.kind = "histogram" => dp.count \in Nat /\ dp.sum \in Int

\* No data point ends before it starts.
Forward == \A dp \in DataPoints : IsNumber(dp) => dp.start <= dp.time

(***************************************************************************)
(* Merging a data point                                                    *)
(***************************************************************************)
NewNumber == [value |-> 0, start |-> 0, time |-> 0]
NewHistogram == [bounds |-> <<>>, count |-> 0, sum |-> 0]

Greater(x, y) == IF x >= y THEN x ELSE y

\* Mutant: the time is that of the last point to arrive.
RateToLast(to, dp) ==
    IF dp.value = 0 THEN to
    ELSE [value |-> to.value + dp.value,
          start |-> IF to.start # 0 THEN to.start
                    ELSE IF dp.start # 0 THEN dp.start ELSE dp.time,
          time |-> dp.time]

\* The start is that of the first point that counts, the time the latest.
MergeRate(to, dp) ==
    IF dp.value = 0 THEN to
    ELSE [value |-> to.value + dp.value,
          start |-> IF to.start # 0 THEN to.start
                    ELSE IF dp.start # 0 THEN dp.start ELSE dp.time,
          time |-> Greater(to.time, dp.time)]

MergeNumber(type, to, dp) ==
    CASE type = "last" -> [to EXCEPT !.value = dp.value]
      [] type = "max"  -> [to EXCEPT !.value = Greater(@, dp.value)]
      [] type = "sum"  -> [to EXCEPT !.value = @ + dp.value]
      [] type = "rate" -> MergeRate(to, dp)
      [] OTHER -> to

\* Mutant: the bounds are not compared.
AddAnyHistogram(to, dp) ==
    [bounds |-> dp.bounds, count |-> to.count + dp.count,
     sum |-> to.sum + dp.sum]

\* Histograms with different bounds cannot be merged: the new one replaces.
addHistogramDataPoint(to, dp) ==
    IF to.count = 0 \/ to.bounds # dp.bounds
      THEN [bounds |-> dp.bounds, count |-> dp.count, sum |-> dp.sum]
      ELSE [to EXCEPT !.count = @ + dp.count, !.sum = @ + dp.sum]

MergeHistogram(type, to, dp) ==
    IF type \in {"sum", "percentile"} THEN addHistogramDataPoint(to, dp) ELSE to

\* getMergeTo: the entry exists from here on, whatever is merged into it.
EntryOf(entries, g, new) == IF g \in DOMAIN entries THEN entries[g] ELSE new

SetEntry(entries, g, e) ==
    [x \in DOMAIN entries \cup {g} |-> IF x = g THEN e ELSE entries[x]]

\* What the entries of a key become when dp is merged into that of its group.
MergedNumbers(key, dp) ==
    LET g == Group(key, dp)
    IN  IF isEqualAttrs(Configs[key], dp)
          THEN SetEntry(nums[key], g,
                        MergeNumber(Configs[key].type,
                                    EntryOf(nums[key], g, NewNumber), dp))
          ELSE nums[key]

MergedHistograms(key, dp) ==
    LET g == Group(key, dp)
    IN  IF isEqualAttrs(Configs[key], dp)
          THEN SetEntry(hists[key], g,
                        MergeHistogram(Configs[key].type,
                                       EntryOf(hists[key], g, NewHistogram), dp))
          ELSE hists[key]

MergeDataPoint(dp) ==
    /\ nums' = IF IsNumber(dp) THEN [k \in Keys |-> MergedNumbers(k, dp)] ELSE nums
    /\ hists' = IF IsHistogram(dp) THEN [k \in Keys |-> MergedHistograms(k, dp)]
                                  ELSE hists

(***************************************************************************)
(* Reading a key: values are fractions <<numerator, denominator>>          *)
(***************************************************************************)
getNumAggByType(type, e) ==
    CASE type = "rate" -> IF e.time - e.start <= 0 \/ e.value = 0
                            THEN <<0, 1>> ELSE <<e.value, e.time - e.start>>
      [] type \in {"last", "sum", "max"} -> <<e.value, 1>>
      [] OTHER -> <<0, 1>>

getHistAggByType(type, e) ==
    CASE type = "percentile" -> <<e.count, 1>>
      [] type = "sum" -> <<e.sum, 1>>
      [] OTHER -> <<0, 1>>

\* A group in both maps is reported from the histogram.
Read(key) ==
    LET type == Configs[key].type
        ofNums == DOMAIN nums[key]
        ofHists == DOMAIN hists[key]
    IN  IF ofNums \cup ofHists = {} THEN [g \in {Empty} |-> <<0, 1>>]
        ELSE [g \in ofNums \cup ofHists |->
                IF g \in ofHists THEN getHistAggByType(type, hists[key][g])
                ELSE getNumAggByType(type, nums[key][g])]

(***************************************************************************)
(* The operations                                                          *)
(***************************************************************************)
Init ==
    /\ nums = [k \in Keys |-> NoEntries]
    /\ hists = [k \in Keys |-> NoEntries]
    /\ writer = NoClient
    /\ readers = {}
    /\ pc = [c \in Clients |-> "idle"]
    /\ op = [c \in Clients |-> "get"]
    /\ input = [c \in Clients |-> <<>>]
    /\ left = [c \in Clients |-> <<>>]
    /\ ask = [c \in Clients |-> {}]
    /\ reply = [c \in Clients |-> NoEntries]
    /\ log = NoPoints

Goto(c, place) == pc' = [pc EXCEPT ![c] = place]

Accepted ==
    Cardinality(DOMAIN log) + SumFunction([c \in Clients |-> Len(input[c])])

\* Add or Reset, up to the point where it needs the write lock.
CallWriter(c, what, payload) ==
    /\ pc[c] = "idle"
    /\ Accepted + Len(payload) <= MaxPoints
    /\ Goto(c, "lock")
    /\ op' = [op EXCEPT ![c] = what]
    /\ input' = [input EXCEPT ![c] = payload]
    /\ left' = [left EXCEPT ![c] = payload]
    /\ reply' = [reply EXCEPT ![c] = NoEntries]
    /\ UNCHANGED <<data, lock, ask>>

\* Mutant: the lock does not keep readers out.
LockDespiteReaders(c) ==
    /\ pc[c] = "lock"
    /\ writer = NoClient
    /\ writer' = c
    /\ Goto(c, "writing")
    /\ UNCHANGED <<data, readers, call>>

Lock(c) ==
    /\ pc[c] = "lock"
    /\ writer = NoClient /\ readers = {}
    /\ writer' = c
    /\ Goto(c, "writing")
    /\ UNCHANGED <<data, readers, call>>

\* One turn of the innermost loop of Add.
Add(c) ==
    /\ pc[c] = "writing"
    /\ left[c] # <<>>
    /\ MergeDataPoint(Head(left[c]))
    /\ left' = [left EXCEPT ![c] = Tail(@)]
    /\ UNCHANGED <<lock, pc, op, input, ask, reply, log>>

\* Readers that wait when the write lock is released get the read lock before
\* any other writer does.
Waiting == {c \in Clients : pc[c] = "rlock"}

Unlock(c) ==
    /\ writer' = NoClient
    /\ readers' = Waiting
    /\ pc' = [x \in Clients |-> IF x = c THEN "idle"
                                ELSE IF x \in Waiting THEN "reading" ELSE pc[x]]
    /\ input' = [input EXCEPT ![c] = <<>>]
    /\ UNCHANGED <<op, left, ask, reply>>

\* Mutant: the lock is given up before all data points are merged.
AddDoneEarly(c) ==
    /\ pc[c] = "writing"
    /\ op[c] = "add"
    /\ log' = Arrived(log, input[c])
    /\ Unlock(c)
    /\ UNCHANGED <<nums, hists>>

AddDone(c) ==
    /\ pc[c] = "writing"
    /\ op[c] = "add" /\ left[c] = <<>>
    /\ log' = Arrived(log, input[c])
    /\ Unlock(c)
    /\ UNCHANGED <<nums, hists>>

\* Reset empties nums, and only nums.
Forget(c) ==
    /\ pc[c] = "writing"
    /\ op[c] = "reset"
    /\ nums' = [k \in Keys |-> NoEntries]
    /\ log' = RestrictValues(log, IsHistogram)
    /\ Unlock(c)
    /\ UNCHANGED hists

\* GetAll asks for all keys, Get for one.  A waiting writer goes first.
CallReader(c, keys) ==
    /\ pc[c] = "idle"
    /\ op' = [op EXCEPT ![c] = "get"]
    /\ ask' = [ask EXCEPT ![c] = keys]
    /\ reply' = [reply EXCEPT ![c] = NoEntries]
    /\ IF writer = NoClient /\ \A x \in Clients : pc[x] # "lock"
         THEN readers' = readers \cup {c} /\ Goto(c, "reading")
         ELSE Goto(c, "rlock") /\ UNCHANGED readers
    /\ UNCHANGED <<data, writer, input, left>>

\* Mutants: the read lock is held for one key only; a key is not crossed off.
GetUnlocked(c) ==
    /\ pc[c] = "reading"
    /\ readers' = readers \ {c}
    /\ \E k \in ask[c] :
         /\ reply' = [reply EXCEPT ![c] = SetEntry(@, k, Read(k))]
         /\ ask' = [ask EXCEPT ![c] = @ \ {k}]
    /\ UNCHANGED <<data, writer, pc, op, input, left>>
GetAgain(c) ==
    /\ pc[c] = "reading"
    /\ \E k \in ask[c] : reply' = [reply EXCEPT ![c] = SetEntry(@, k, Read(k))]
    /\ UNCHANGED <<data, lock, pc, op, input, left, ask>>

\* One turn of the loop of GetAll; the keys come in no particular order.
Get(c) ==
    /\ pc[c] = "reading"
    /\ \E k \in ask[c] :
         /\ reply' = [reply EXCEPT ![c] = SetEntry(@, k, Read(k))]
         /\ ask' = [ask EXCEPT ![c] = @ \ {k}]
    /\ UNCHANGED <<data, lock, pc, op, input, left>>

\* Mutant: the read lock is not released.
GetDoneLocked(c) ==
    /\ pc[c] = "reading"
    /\ ask[c] = {}
    /\ Goto(c, "idle")
    /\ UNCHANGED <<data, lock, call>>

GetDone(c) ==
    /\ pc[c] = "reading"
    /\ ask[c] = {}
    /\ readers' = readers \ {c}
    /\ Goto(c, "idle")
    /\ UNCHANGED <<data, writer, call>>

Work(c) == Lock(c) \/ Add(c) \/ AddDone(c) \/ Forget(c) \/ Get(c) \/ GetDone(c)

Call(c) ==
    \/ \E p \in Payloads : CallWriter(c, "add", p)
    \/ CallWriter(c, "reset", <<>>)
    \/ CallReader(c, Keys)
    \/ \E k \in Keys : CallReader(c, {k})

Next == \E c \in Clients : Call(c) \/ Work(c)

Spec == Init /\ [][Next]_vars

\* Goroutines inside the store are scheduled; a sync.RWMutex hands its write
\* lock to a waiting writer sooner or later, whatever other writers do.
Fairness ==
    /\ \A c \in Clients : WF_vars(Add(c) \/ AddDone(c) \/ Forget(c))
    /\ \A c \in Clients : WF_vars(Get(c) \/ GetDone(c))
    /\ \A c \in Clients : SF_vars(Lock(c))

FairSpec == Spec /\ Fairness

(***************************************************************************)
(* Properties                                                              *)
(***************************************************************************)
\* Every variable has its type.
TypeOK ==
    /\ DOMAIN nums = Keys /\ DOMAIN hists = Keys
    /\ \A k \in Keys : \A g \in DOMAIN nums[k] :
         nums[k][g] \in [value : Int, start : Nat, time : Nat]
    /\ \A k \in Keys : \A g \in DOMAIN hists[k] :
         DOMAIN hists[k][g] = {"bounds", "count", "sum"}
    /\ writer \in Clients \cup {NoClient}
    /\ readers \subseteq Clients
    /\ pc \in [Clients -> {"idle", "lock", "rlock", "writing", "reading"}]
    /\ op \in [Clients -> {"add", "reset", "get"}]
    /\ \A c \in Clients : IsSuffix(left[c], input[c]) \/ left[c] = <<>>
    /\ ask \in [Clients -> SUBSET Keys]
    /\ \A c \in Clients : DOMAIN reply[c] \subseteq Keys \ ask[c]
    /\ Accepted <= MaxPoints

\* No data race: who changes the maps is alone, who reads them is among
\* readers only (store.go: every exported method takes the RWMutex).
NoRace ==
    \A c, d \in Clients :
        c # d /\ pc[c] = "writing" => pc[d] \notin {"writing", "reading"}

\* What GetAll has read so far is what the store still holds: its reply
\* never mixes the states before and after an Add or a Reset.
SnapshotReply ==
    \A c \in Clients :
        pc[c] = "reading" =>
            \A k \in DOMAIN reply[c] : reply[c][k] = Read(k)

\* An entry of a rate covers time that runs forward, in whatever order its
\* data points arrive; the duration of getNumAggByType is never negative.
RateWindow ==
    \A k \in Keys : \A g \in DOMAIN nums[k] :
        Configs[k].type = "rate" => nums[k][g].start <= nums[k][g].time

\* Every call returns: nobody keeps the lock, and readers and writers that
\* keep coming do not starve each other.
CallsReturn == \A c \in Clients : (pc[c] # "idle") ~> (pc[c] = "idle")

\* The store implements what MetricsLog promises.
Log == INSTANCE MetricsLog WITH
    busy <- [c \in Clients |-> pc[c] # "idle"],
    request <- [c \in Clients |->
        [op |-> IF pc[c] = "idle" THEN "get" ELSE op[c],
         payload |-> input[c],
         keys |-> IF pc[c] = "idle" \/ op[c] # "get" THEN {}
                  ELSE ask[c] \cup DOMAIN reply[c]]],
    answer <- [c \in Clients |-> IF pc[c] = "idle" /\ op[c] = "get"
                                   THEN reply[c] ELSE [k \in {} |-> 0]]

\* Linearizability and aggregation: every call takes effect at one instant, an
\* Add as a whole, and every value reported is one of a log of data points:
\* numbers since the last Reset, histograms, which survive it, since their
\* bounds last changed.  Values are defined as the code aggregates, which is
\* not always as its comments say: ResetDeletesAll, LowestStart and
\* IgnoresUnsupported are what they say, and are violated.
ImplementsMetricsLog == Log!Spec

\* store.go:256: "Reset resets the store by deleting all cached data": after
\* it every key reads as if nothing had been added.
ResetDeletesAll ==
    [][\A c \in Clients :
          pc[c] = "writing" /\ op[c] = "reset" /\ pc'[c] = "idle" =>
              \A k \in Keys : Read(k)' = [g \in {Empty} |-> <<0, 1>>]]_vars

\* store.go:338: the start timestamp of a rate is to "cache the lowest" of those of
\* the data points merged into it, in whatever order they arrived.
LowestStart ==
    writer = NoClient =>
        \A k \in Keys : \A g \in DOMAIN nums[k] :
            \A i \in Log!Numbers(log, k, g) :
                Configs[k].type = "rate" /\ log[i].value # 0
                  /\ Log!Beginning(log[i]) # 0 =>
                    nums[k][g].start <= Log!Beginning(log[i])

\* store.go:173: what each kind of metric may be aggregated to.
Supported(type, dp) ==
    \/ IsNumber(dp) /\ type \in {"last", "sum", "rate", "max"}
    \/ IsHistogram(dp) /\ type \in {"percentile", "sum"}

\* store.go:178: "unsupported metric-aggregation combinations will be ignored":
\* merging such a data point leaves what its key reads as.
IgnoresUnsupported ==
    [][\A c \in Clients : Add(c) =>
          \A k \in Keys : ~Supported(Configs[k].type, Head(left[c])) =>
              Read(k)' = Read(k)]_vars
=============================================================================
