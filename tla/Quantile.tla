------------------------------ MODULE Quantile ------------------------------
(***************************************************************************)
(* deltaExplicitBucketsQuantile of cmd/otelinmemexporter/histogram.go.     *)
(* A bucket has an inclusive upper bound and a count.  float64 values are  *)
(* exact: a number is a pair <<n, d>> that stands for n/d, <<1, 0>> is     *)
(* +Inf, <<-1, 0>> is -Inf, and NaN is <<0, 0>>.                           *)
(***************************************************************************)
EXTENDS Integers, Sequences, FiniteSets, SequencesExt, FiniteSetsExt

CONSTANTS
    Infinity,  \* the upper bound +Inf, above all other bounds
    Bounds,    \* the upper bounds of buckets, with Infinity
    Counts,    \* observations in a bucket
    Levels     \* the quantiles asked for: pairs <<n, d>> with d > 0

ASSUME QuantileAssumption ==
    /\ Infinity \in Int /\ Bounds \subseteq Int /\ \A b \in Bounds : b <= Infinity
    /\ Counts \subseteq Nat
    /\ Levels \subseteq Int \X (Nat \ {0})

VARIABLE histogram  \* its buckets, in any order

NaN == <<0, 0>>

\* The observations in the buckets with these indices.
Observed(buckets, indices) == SumFunction([i \in indices |-> buckets[i].count])
CountOf(buckets) == Observed(buckets, DOMAIN buckets)
CountUpTo(buckets, i) == Observed(buckets, 1..i)

\* The bounds differ: the place of a bucket is the number of bounds up to its own.
Sorted(buckets) ==
    [k \in DOMAIN buckets |->
        buckets[CHOOSE i \in DOMAIN buckets :
            k = Cardinality({j \in DOMAIN buckets : buckets[j].bound <= buckets[i].bound})]]

\* The index of the bucket that the rank q * observations falls into.
Falls(buckets, q) ==
    Min({i \in DOMAIN buckets :
            CountUpTo(buckets, i) * q[2] >= q[1] * CountOf(buckets)})

\* The distance is taken from the end of the bucket.
InterpolateFromEnd(buckets, i, q) ==
    LET start == buckets[i - 1].bound
        count == buckets[i].count * q[2]
        above == q[1] * CountOf(buckets) - CountUpTo(buckets, i) * q[2]
    IN  <<start * count + (buckets[i].bound - start) * above, count>>

Interpolate(buckets, i, q) ==
    LET start == buckets[i - 1].bound
        count == buckets[i].count * q[2]
        above == q[1] * CountOf(buckets) - CountUpTo(buckets, i - 1) * q[2]
    IN  <<start * count + (buckets[i].bound - start) * above, count>>

Quantile(q, unsorted) ==
    LET buckets == Sorted(unsorted)
        last == Len(buckets)
        i == Falls(buckets, q)
    IN  CASE q[1] < 0 -> <<-1, 0>>
          [] q[1] > q[2] -> <<1, 0>>
          [] OTHER ->
               IF last < 2 \/ buckets[last].bound # Infinity \/ CountOf(buckets) = 0
               THEN NaN
               ELSE CASE i = last -> <<buckets[last - 1].bound, 1>>
                      [] i = 1 -> <<buckets[1].bound, 1>>
                      [] OTHER -> Interpolate(buckets, i, q)

HistogramInit == histogram = <<>>

AddBucket ==
    \E bound \in Bounds \ {histogram[i].bound : i \in DOMAIN histogram} :
        \E n \in Counts :
            histogram' = Append(histogram, [bound |-> bound, count |-> n])

QuantileSpec == HistogramInit /\ [][AddBucket]_histogram
-----------------------------------------------------------------------------
Finite(h) == {h[i].bound : i \in DOMAIN h} \ {Infinity}
UpTo(h, bound) == Observed(h, {i \in DOMAIN h : h[i].bound <= bound})

\* x is the value below which rank observations are, if they are distributed
\* evenly between bounds a and b next to each other; outside of the finite
\* bounds it is the lowest or the highest of them.
Inverts(x, h, q) ==
    LET rank == q[1] * CountOf(h)  \* times q[2]
        Below(bound) == UpTo(h, bound) * q[2]
        Adjacent(a, b) == a < b /\ ~\E c \in Finite(h) : a < c /\ c < b
    IN  /\ rank <= Below(Min(Finite(h))) => x[1] = Min(Finite(h)) * x[2]
        /\ rank > Below(Max(Finite(h))) => x[1] = Max(Finite(h)) * x[2]
        /\ \A a, b \in Finite(h) :
             Adjacent(a, b) /\ Below(a) < rank /\ rank <= Below(b) =>
               (x[1] - a * x[2]) * (Below(b) - Below(a)) = (rank - Below(a)) * (b - a) * x[2]

\* histogram.go:42-58: the quantile inverts the distribution of the observations
\* whatever the order of the buckets, is NaN exactly in the cases listed there
\* and never because it divides by an empty bucket, and grows with q.
QuantileInverts ==
    \A q \in Levels :
        LET x == Quantile(q, histogram)
            asked == q[1] >= 0 /\ q[1] <= q[2]
        IN  /\ x = NaN <=> /\ asked
                           /\ \/ Len(histogram) < 2 \/ CountOf(histogram) = 0
                              \/ \A i \in DOMAIN histogram : histogram[i].bound # Infinity
            /\ x[2] = 0 <=> x = NaN \/ ~asked
            /\ x[2] > 0 => Inverts(x, histogram, q)
            /\ \A p \in Levels : LET y == Quantile(p, histogram) IN
                 x[2] > 0 /\ y[2] > 0 /\ p[1] * q[2] <= q[1] * p[2] =>
                   y[1] * x[2] <= x[1] * y[2]
=============================================================================
