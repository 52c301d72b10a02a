----------------------------- MODULE AggConfigs -----------------------------
(***************************************************************************)
(* The validation of the aggregations a store is configured with, in       *)
(* cmd/otelinmemexporter/store.go.  Its result keys them by key and by     *)
(* name; the first is the constant Configs of Store.                       *)
(***************************************************************************)
EXTENDS Integers, Sequences, FiniteSets

CONSTANTS
    Candidates,  \* configurations: [key, name, match, type, percentile]
    MaxConfigs   \* configurations of a store (bound)

\* match is a map.
ASSUME CandidateAssumption ==
    \A c \in Candidates : /\ IsFiniteSet(DOMAIN c.match)
                          /\ c.match = [k \in DOMAIN c.match |-> c.match[k]]

VARIABLES source, grouped  \* what has been read of the list, and its maps
configVars == <<source, grouped>>

\* The only error that is told apart is that there is one.
validate(c) ==
    /\ c.name # "" /\ c.key # ""
    /\ c.type \in {"last", "rate", "max", "sum", "percentile"}
    /\ c.type = "percentile" => c.percentile > 0 /\ c.percentile <= 100

\* The number of labels is not compared.
DuplicateOfSubset(src, target) ==
    /\ src.name = target.name
    /\ \A k \in DOMAIN src.match :
         k \in DOMAIN target.match /\ src.match[k] = target.match[k]
    /\ src.type = target.type =>
         ~(src.type = "percentile" /\ src.percentile # target.percentile)

\* checkDuplicateAggConfigForName returns an error.
Duplicate(src, target) ==
    /\ src.name = target.name
    /\ Cardinality(DOMAIN src.match) = Cardinality(DOMAIN target.match)
    /\ \A k \in DOMAIN src.match :
         k \in DOMAIN target.match /\ src.match[k] = target.match[k]
    /\ src.type = target.type =>
         ~(src.type = "percentile" /\ src.percentile # target.percentile)

\* One more configuration; m[k] of a map without k is nothing.
AddConfig(r, c) ==
    LET named == IF c.name \in DOMAIN r.nameM THEN r.nameM[c.name] ELSE <<>> IN
    IF \/ ~r.ok \/ ~validate(c) \/ c.key \in DOMAIN r.keyM
       \/ \E i \in DOMAIN named : Duplicate(named[i], c)
    THEN [r EXCEPT !.ok = FALSE]
    ELSE [r EXCEPT !.keyM = [k \in DOMAIN @ \cup {c.key} |-> IF k = c.key THEN c ELSE @[k]],
                   !.nameM = [n \in DOMAIN @ \cup {c.name} |->
                                IF n = c.name THEN Append(named, c) ELSE @[n]]]

NoConfigs == LET none == [x \in {} |-> 0] IN [ok |-> TRUE, keyM |-> none, nameM |-> none]

ConfigInit == source = <<>> /\ grouped = NoConfigs

ReadConfig ==
    /\ Len(source) < MaxConfigs
    /\ \E c \in Candidates :
         /\ source' = Append(source, c)
         /\ grouped' = AddConfig(grouped, c)

ConfigSpec == ConfigInit /\ [][ReadConfig]_configVars
-----------------------------------------------------------------------------
\* What store.go:63-67 asks for: each metric with a name and label values has
\* one type of aggregation, but for several percentiles, and keys are unique.
Unambiguous(src) ==
    \A i, j \in DOMAIN src : i # j =>
        /\ src[i].key # src[j].key
        /\ src[i].name = src[j].name /\ src[i].match = src[j].match =>
             /\ src[i].type = "percentile" /\ src[j].type = "percentile"
             /\ src[i].percentile # src[j].percentile

\* s has the configurations of a name, in the order of src.
OfName(s, name, src) ==
    \E index \in [DOMAIN s -> DOMAIN src] :
        /\ \A i, j \in DOMAIN s : i < j => index[i] < index[j]
        /\ {index[i] : i \in DOMAIN s} = {i \in DOMAIN src : src[i].name = name}
        /\ \A i \in DOMAIN s : s[i] = src[index[i]]

Grouped(r, src) ==
    /\ {r.keyM[k] : k \in DOMAIN r.keyM} = {src[i] : i \in DOMAIN src}
    /\ \A k \in DOMAIN r.keyM : r.keyM[k].key = k
    /\ DOMAIN r.nameM = {src[i].name : i \in DOMAIN src}
    /\ \A n \in DOMAIN r.nameM : OfName(r.nameM[n], n, src)

\* That the configurations are valid and unambiguous, and nothing else such as
\* their order, decides on whether they are accepted; of those accepted none is
\* lost, and those of a name keep their order.
GroupsConfigs ==
    /\ grouped.ok <=> /\ Unambiguous(source)
                      /\ \A i \in DOMAIN source : AddConfig(NoConfigs, source[i]).ok
    /\ grouped.ok => Grouped(grouped, source)
=============================================================================
