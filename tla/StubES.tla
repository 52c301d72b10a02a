------------------------------- MODULE StubES -------------------------------
(***************************************************************************)
(* The Elasticsearch stub (internal/proxy/stub_es.go) behind the program   *)
(* "moxy".  net/http serves every request in a goroutine of its own; the   *)
(* bulk handlers write their responses into buffers of one sync.Pool.      *)
(*                                                                         *)
(* A buffer has the tokens written to it.  The lines of a body can be      *)
(* scanned ("line") or not ("bad": longer than the scanner's buffer, or    *)
(* an error of the connection or of the decompression).                    *)
(***************************************************************************)
EXTENDS Naturals, Sequences

CONSTANTS
    Handlers,  \* requests served at a time
    Buffers,   \* buffers there can be
    Bodies,    \* bodies of bulk requests: sequences of "line" and "bad"
    NoBuffer

ASSUME StubAssumption ==
    /\ NoBuffer \notin Buffers
    /\ Bodies \subseteq Seq({"line", "bad"})

VARIABLES
    account,   \* the flags -username and -password of moxy are not empty
    pool,      \* the buffers in memPool
    content,   \* what each buffer has
    step,      \* where each handler is
    request,   \* what it serves
    scanned,   \* lines it has scanned
    jsonw,     \* its buffer
    response   \* its last response: the status and the tokens of a bulk response

stubVars == <<account, pool, content, step, request, scanned, jsonw, response>>

\* Whether a request has the credentials, is a bulk request, and has a body
\* that the gzip or zstd reader of its encoding can be created for.  Only the
\* body of such a request is looked at.
Requested ==
    {r \in [credentials : BOOLEAN, bulk : BOOLEAN, decodes : BOOLEAN, body : Bodies \cup {<<>>}] :
        (r.decodes => r.bulk) /\ (r.body # <<>> => r.decodes)}
NoRequest == [credentials |-> FALSE, bulk |-> FALSE, decodes |-> FALSE, body |-> <<>>]
NoResponse == [status |-> 0, items |-> <<>>]

StubInit ==
    /\ account \in [username : BOOLEAN, password : BOOLEAN]
    /\ pool = {}
    /\ content = [b \in Buffers |-> <<>>]
    /\ step = [h \in Handlers |-> "idle"]
    /\ request = [h \in Handlers |-> NoRequest]
    /\ scanned = [h \in Handlers |-> 0]
    /\ jsonw = [h \in Handlers |-> NoBuffer]
    /\ response = [h \in Handlers |-> NoResponse]

\* main of moxy asks for credentials only if it was given both.
Passes(r) == account.username /\ account.password => r.credentials

StubGoto(h, place) == step' = [step EXCEPT ![h] = place]
Answer(h, status, items) ==
    response' = [response EXCEPT ![h] = [status |-> status, items |-> items]]
WriteTokens(h, tokens) == content' = [content EXCEPT ![jsonw[h]] = @ \o tokens]

\* ServeHTTP, up to the scanner: everything that needs no buffer is answered.
Serve(h) ==
    /\ step[h] = "idle"
    /\ \E r \in Requested :
         /\ request' = [request EXCEPT ![h] = r]
         /\ CASE ~Passes(r) -> Answer(h, 401, <<>>) /\ UNCHANGED step
              [] Passes(r) /\ ~r.bulk -> Answer(h, 200, <<>>) /\ UNCHANGED step
              [] Passes(r) /\ r.bulk /\ ~r.decodes -> Answer(h, 500, <<>>) /\ UNCHANGED step
              [] OTHER -> Answer(h, 0, <<>>) /\ StubGoto(h, "get")
    /\ UNCHANGED <<account, pool, content, scanned, jsonw>>

\* memPool.Get: any buffer of the pool, or a new one.
GetBuffer(h) ==
    /\ step[h] = "get"
    /\ \E b \in Buffers :
         /\ \/ b \in pool
            \/ content[b] = <<>> /\ \A g \in Handlers : jsonw[g] # b
         /\ pool' = pool \ {b}
         /\ jsonw' = [jsonw EXCEPT ![h] = b]
         /\ content' = [content EXCEPT ![b] = @ \o <<"open">>]
    /\ scanned' = [scanned EXCEPT ![h] = 0]
    /\ StubGoto(h, "scan")
    /\ UNCHANGED <<account, request, response>>

\* Scan returns true: the next line but n - 1 is there and can be read.
Scans(h, n) == LET lines == request[h].body IN
    scanned[h] + n \in DOMAIN lines /\ lines[scanned[h] + n] = "line"

\* The source of an action is not asked for.
ScanActions(h) ==
    /\ step[h] = "scan" /\ Scans(h, 1)
    /\ scanned' = [scanned EXCEPT ![h] = @ + (IF Scans(h, 2) THEN 2 ELSE 1)]
    /\ WriteTokens(h, IF scanned[h] = 0 THEN <<"item">> ELSE <<",", "item">>)
    /\ UNCHANGED <<account, pool, step, request, jsonw, response>>

\* An action and its source give one item; first is scanned[h] = 0.
ScanPair(h) ==
    /\ step[h] = "scan" /\ Scans(h, 1) /\ Scans(h, 2)
    /\ scanned' = [scanned EXCEPT ![h] = @ + 2]
    /\ WriteTokens(h, IF scanned[h] = 0 THEN <<"item">> ELSE <<",", "item">>)
    /\ UNCHANGED <<account, pool, step, request, jsonw, response>>

\* "expected source": the body ends, or cannot be read, after an action.
ExpectedSource(h) ==
    /\ step[h] = "scan" /\ Scans(h, 1) /\ ~Scans(h, 2)
    /\ Answer(h, 400, <<>>)
    /\ StubGoto(h, "reset")
    /\ UNCHANGED <<account, pool, content, request, scanned, jsonw>>

\* The loop ends: an error of the scanner, or the end of the body.
ScanError(h) ==
    /\ step[h] = "scan" /\ scanned[h] < Len(request[h].body) /\ ~Scans(h, 1)
    /\ Answer(h, 400, <<>>)
    /\ StubGoto(h, "reset")
    /\ UNCHANGED <<account, pool, content, request, scanned, jsonw>>

CloseItems(h) ==
    /\ step[h] = "scan" /\ scanned[h] = Len(request[h].body)
    /\ WriteTokens(h, <<"close">>)
    /\ StubGoto(h, "write")
    /\ UNCHANGED <<account, pool, request, scanned, jsonw, response>>

WriteResponse(h) ==
    /\ step[h] = "write"
    /\ Answer(h, 200, content[jsonw[h]])
    /\ StubGoto(h, "reset")
    /\ UNCHANGED <<account, pool, content, request, scanned, jsonw>>

\* The deferred function leaves the tokens in the buffer.
KeepTokens(h) ==
    /\ step[h] = "reset"
    /\ StubGoto(h, "put")
    /\ UNCHANGED <<account, pool, content, request, scanned, jsonw, response>>

\* The deferred function, on every way out.
ResetBuffer(h) ==
    /\ step[h] = "reset"
    /\ content' = [content EXCEPT ![jsonw[h]] = <<>>]
    /\ StubGoto(h, "put")
    /\ UNCHANGED <<account, pool, request, scanned, jsonw, response>>

PutBuffer(h) ==
    /\ step[h] = "put"
    /\ pool' = pool \cup {jsonw[h]}
    /\ jsonw' = [jsonw EXCEPT ![h] = NoBuffer]
    /\ StubGoto(h, "idle")
    /\ UNCHANGED <<account, content, request, scanned, response>>

\* A sync.Pool gives up what nobody fetches.
PoolDrops ==
    /\ \E b \in pool : pool' = pool \ {b}
    /\ UNCHANGED <<account, content, step, request, scanned, jsonw, response>>

Bulk(h) == GetBuffer(h) \/ ScanPair(h) \/ ExpectedSource(h) \/ ScanError(h)
           \/ CloseItems(h) \/ WriteResponse(h) \/ ResetBuffer(h) \/ PutBuffer(h)

StubNext == PoolDrops \/ \E h \in Handlers : Serve(h) \/ Bulk(h)

StubSpec == StubInit /\ [][StubNext]_stubVars
-----------------------------------------------------------------------------
\* Nobody else has the buffer a handler writes to, neither another handler nor
\* the pool, and whatever way the last user of a buffer went out, it has
\* nothing in it when it is in the pool (stub_es.go:121-124).
OwnBuffer ==
    /\ \A h, g \in Handlers : jsonw[h] = jsonw[g] /\ jsonw[h] # NoBuffer => h = g
    /\ \A h \in Handlers : jsonw[h] \notin pool
    /\ \A b \in pool : content[b] = <<>>

\* `{"items":[`, n items with commas between them, and `]}`.
Items(n) ==
    [i \in 1..(IF n = 0 THEN 1 ELSE 2 * n) |->
        IF i = 1 THEN "open" ELSE IF i % 2 = 0 THEN "item" ELSE ","]
BulkResponse(n) == Items(n) \o <<"close">>

\* Whatever else is served at the same time, a bulk request is answered with
\* one item for each of its actions and nothing of another request; one of
\* which a part is missing or cannot be read is refused and gets no item.
OneItemPerAction ==
    \A h \in Handlers : LET r == request[h] IN
        step[h] \in {"idle", "reset", "put"} /\ response[h].status # 0 =>
            IF response[h].status = 200 /\ r.bulk
            THEN /\ \A i \in DOMAIN r.body : r.body[i] = "line"
                 /\ Len(r.body) % 2 = 0
                 /\ response[h].items = BulkResponse(Len(r.body) \div 2)
            ELSE /\ response[h].items = <<>>
                 /\ response[h].status = 400 =>
                      \/ Len(r.body) % 2 = 1
                      \/ \E i \in DOMAIN r.body : r.body[i] = "bad"
=============================================================================
