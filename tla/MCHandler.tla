----------------------------- MODULE MCHandler -----------------------------
(* Small corpora for Handler: the total is no multiple of the burst, one   *)
(* batch is longer than the burst, and one holds metadata only.            *)
EXTENDS Handler

CorpusA == <<3, 0, 2>>
CorpusB == <<2, 1>>
=============================================================================
