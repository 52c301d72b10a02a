----------------------------- MODULE MCBenchRun -----------------------------
(* The cleanup keys of the runs of BenchRun. *)
EXTENDS BenchRun

UpstreamFirst == <<1, 2>>
=============================================================================
