------------------------------ MODULE Handler ------------------------------
(***************************************************************************)
(* The replay loop of loadgen/eventhandler/handler.go.                     *)
(*                                                                         *)
(* An agent is one goroutine in SendBatchesInLoop or SendBatches.  Agents  *)
(* are the concurrent calls one Handler allows: they share its             *)
(* rate.Limiter and the cancellation of their context, and each has its    *)
(* own `state{burst, sent}`.  apmbench calls SendBatches from many         *)
(* goroutines; apmsoak gives every replica a handler and a limiter of its  *)
(* own, which is this module with one agent.  A pass replays               *)
(* the batches of the corpus in order, cut into chunks no longer than what *)
(* is left of the current burst; each chunk is written to a fresh          *)
(* eventWriter and given to Transport.SendEvents.                          *)
(*                                                                         *)
(* Event contents are abstracted to a position <<batch, index>>; the chunk *)
(* that carries an event carries the metadata of the event's batch.        *)
(***************************************************************************)
EXTENDS Integers, Sequences, FiniteSets, SequencesExt

CONSTANTS
    Agents,       \* goroutines replaying the corpus
    Batches,      \* h.batches, each abstracted to its number of events
    Burst,        \* Limiter.Burst(); 0 is the unlimited limiter
    Looping,      \* SendBatchesInLoop (TRUE) or SendBatches (FALSE)
    RunForever,   \* Config.RunForever
    IgnoreErrors, \* Config.IgnoreErrors
    Buffers,      \* the heap newEventWriter allocates a bytes.Buffer from
    NoBuffer,     \* an agent that holds no eventWriter
    MaxLate,      \* request bodies that outlive their request (bound)
    MaxFaults,    \* failed requests in a behaviour (bound)
    MaxSent       \* an unlimited loop starts no pass beyond this (bound)

ASSUME CorpusAssumption == /\ Batches \in Seq(Nat)
                           /\ Batches # <<>>    \* New rejects an empty corpus
ASSUME LimiterAssumption == Burst \in Nat
ASSUME ModeAssumption == /\ Looping \in BOOLEAN
                         /\ RunForever \in BOOLEAN
                         /\ IgnoreErrors \in BOOLEAN
ASSUME BoundAssumption == {MaxFaults, MaxSent, MaxLate} \subseteq Nat
ASSUME BufferAssumption == NoBuffer \notin Buffers

VARIABLES
    pc,        \* where each agent is: see Places
    sent,      \* state.sent
    batch,     \* index of the batch sendBatches is ranging over
    off,       \* events of that batch already cut off `events`
    n,         \* length of the chunk being sent
    buf,       \* the buffer of the agent's eventWriter
    reading,   \* buffers the HTTP library has not finished transmitting
    tokens,    \* tokens in the limiter; negative when reserved ahead
    owed,      \* refill an agent in WaitN is still waiting for
    ctxDone,   \* the context is cancelled
    faults,    \* requests that failed so far
    ret,       \* how the last call returned
    log,       \* history: chunks acknowledged in the current pass
    credit     \* history: events of the last granted burst not yet
               \* acknowledged

vars == <<pc, sent, batch, off, n, buf, reading, tokens, owed, ctxDone,
          faults, ret, log, credit>>

state    == <<sent, batch, off, n>>          \* the locals of sendBatches
limiter  == <<tokens, owed>>
network  == <<buf, reading>>

Places == {"idle",    \* not called yet, or returned
           "loop",    \* the select at the head of SendBatchesInLoop
           "pass",    \* between two chunks of sendBatches
           "wait",    \* in Limiter.WaitN
           "write",   \* in Config.Writer and writer.Close
           "send"}    \* in Transport.SendEvents

Lesser(x, y) == IF x <= y THEN x ELSE y

(***************************************************************************)
(* Locals of sendBatch                                                     *)
(***************************************************************************)
Mod(s) == s % Burst

\* Mutant: a burst is waited for per batch.
AtBatch(a) == Burst > 0 /\ off[a] = 0

\* Whether a new burst must be waited for before anything is sent.
AtBurst(a) == Burst > 0 /\ Mod(sent[a]) = 0

Rest(a) == Batches[batch[a]] - off[a]

\* Mutants: the batch, or what is left of the burst, does not limit the chunk.
ChunkLenOfBurst(a) == IF Burst > 0 THEN Burst - Mod(sent[a]) ELSE Rest(a)
ChunkLenOfBatch(a) == IF Burst > 0 THEN Lesser(Rest(a), Burst) ELSE Rest(a)

\* Events the next chunk may carry, the burst being paid for.
ChunkLen(a) ==
    IF Burst > 0 THEN Lesser(Rest(a), Burst - Mod(sent[a])) ELSE Rest(a)

Chunks == [batch : 1..Len(Batches), from : Nat, len : Nat]

\* The chunk in flight: its batch, and the events of the batch it carries.
Chunk(a) == [batch |-> batch[a], from |-> off[a], len |-> n[a]]

Events(c) == [i \in 1..c.len |-> <<c.batch, c.from + i>>]
Delivered(a) == FlattenSeq([k \in DOMAIN log[a] |-> Events(log[a][k])])
Corpus == FlattenSeq([b \in DOMAIN Batches |->
             Events([batch |-> b, from |-> 0, len |-> Batches[b]])])

AtLastBatch(a) == batch[a] = Len(Batches)   \* mutant
AtEnd(a) == batch[a] = Len(Batches) /\ Rest(a) = 0

(***************************************************************************)
(* Calling and returning                                                   *)
(***************************************************************************)
Init ==
    /\ pc = [a \in Agents |-> "idle"]
    /\ sent = [a \in Agents |-> 0]
    /\ batch = [a \in Agents |-> 1]
    /\ off = [a \in Agents |-> 0]
    /\ n = [a \in Agents |-> 0]
    /\ buf = [a \in Agents |-> NoBuffer]
    /\ reading = {}
    /\ tokens = Burst
    /\ owed = [a \in Agents |-> 0]
    /\ ctxDone = FALSE
    /\ faults = 0
    /\ ret = [a \in Agents |-> "none"]
    /\ log = [a \in Agents |-> <<>>]
    /\ credit = [a \in Agents |-> 0]

Return(a, how) ==
    /\ pc' = [pc EXCEPT ![a] = "idle"]
    /\ ret' = [ret EXCEPT ![a] = how]

\* Mutant: the events cut off before a failure stay cut off.
StartPassKeepingOffset(a) ==
    /\ pc' = [pc EXCEPT ![a] = "pass"]
    /\ batch' = [batch EXCEPT ![a] = 1]
    /\ log' = [log EXCEPT ![a] = <<>>]
    /\ UNCHANGED off

\* The range over h.batches starts from the first batch on every pass.
StartPass(a) ==
    /\ pc' = [pc EXCEPT ![a] = "pass"]
    /\ batch' = [batch EXCEPT ![a] = 1]
    /\ off' = [off EXCEPT ![a] = 0]
    /\ log' = [log EXCEPT ![a] = <<>>]

\* SendBatches starts a pass with a state of its own, as often as its caller
\* likes; SendBatchesInLoop is called once, and its state lives as long.
Call(a) ==
    /\ pc[a] = "idle"
    /\ sent' = [sent EXCEPT ![a] = 0]
    /\ credit' = [credit EXCEPT ![a] = 0]
    /\ \/ /\ Looping
          /\ ret[a] = "none"
          /\ pc' = [pc EXCEPT ![a] = "loop"]
          /\ UNCHANGED <<batch, off, log>>
       \/ /\ ~Looping
          /\ StartPass(a)
    /\ UNCHANGED <<n, limiter, network, ctxDone, faults, ret>>

\* Mutant: the context is not looked at between two passes.
PollWithoutContext(a) ==
    /\ pc[a] = "loop"
    /\ StartPass(a)
    /\ UNCHANGED <<sent, n, limiter, network, ctxDone, faults, ret, credit>>

\* The select of SendBatchesInLoop: the context first, a pass otherwise.
Poll(a) ==
    /\ pc[a] = "loop"
    /\ \/ /\ ctxDone
          /\ Return(a, "cancelled")
          /\ UNCHANGED <<batch, off, log>>
       \/ /\ ~ctxDone
          /\ Burst = 0 => sent[a] <= MaxSent
          /\ StartPass(a)
          /\ UNCHANGED ret
    /\ UNCHANGED <<sent, n, limiter, network, ctxDone, faults, credit>>

\* Mutant: any error ends the loop.
PassFailedForGood(a) == Return(a, "failed")

\* Mutant: what failed is tried again at once.
PassFailedRetrying(a) ==
    /\ pc' = [pc EXCEPT ![a] = "pass"]
    /\ UNCHANGED ret

\* sendBatches returned an error: SendBatchesInLoop goes on when RunForever,
\* everything else hands it to the caller.  What is left of a burst stays
\* granted; but when none of its events was acknowledged, `sent` does not
\* tell, and the next pass waits for another burst.
PassFailed(a) ==
    IF Looping /\ RunForever
      THEN /\ pc' = [pc EXCEPT ![a] = "loop"]
           /\ UNCHANGED ret
      ELSE Return(a, "failed")

NoRemainder(s) == 0   \* mutant

\* What SendBatchesInLoop keeps of `sent` between two passes.
Remainder(s) == IF Burst > 0 THEN Mod(s) ELSE s

\* sendBatches went through all batches.
PassDone(a) ==
    /\ pc[a] = "pass"
    /\ AtEnd(a)
    /\ IF Looping
         THEN /\ pc' = [pc EXCEPT ![a] = "loop"]
              /\ sent' = [sent EXCEPT ![a] = Remainder(@)]
              /\ UNCHANGED ret
         ELSE /\ Return(a, "nil")
              /\ UNCHANGED sent
    /\ UNCHANGED <<batch, off, n, limiter, network, ctxDone, faults, log,
                   credit>>

(***************************************************************************)
(* One pass: sendBatches and sendBatch                                     *)
(***************************************************************************)
NextBatch(a) ==
    /\ pc[a] = "pass"
    /\ Rest(a) = 0
    /\ batch[a] < Len(Batches)
    /\ batch' = [batch EXCEPT ![a] = @ + 1]
    /\ off' = [off EXCEPT ![a] = 0]
    /\ UNCHANGED <<pc, sent, n, limiter, network, ctxDone, faults, ret, log,
                   credit>>

\* Mutant: a buffer goes back to a pool when its agent is done with it.
PooledEventWriter(a) ==
    \E b \in Buffers \ {buf[x] : x \in Agents} : buf' = [buf EXCEPT ![a] = b]

\* A fresh eventWriter: a buffer no agent and no request body refers to.
NewEventWriter(a) ==
    \E b \in Buffers \ (reading \cup {buf[x] : x \in Agents}) :
        buf' = [buf EXCEPT ![a] = b]

BeginChunk(a) ==
    /\ n' = [n EXCEPT ![a] = ChunkLen(a)]
    /\ NewEventWriter(a)
    /\ pc' = [pc EXCEPT ![a] = "write"]

\* In the middle of a burst, or without one, a chunk needs no waiting.
CutChunk(a) ==
    /\ pc[a] = "pass"
    /\ Rest(a) > 0
    /\ ~AtBurst(a)
    /\ BeginChunk(a)
    /\ UNCHANGED <<sent, batch, off, limiter, reading, ctxDone, faults, ret,
                   log, credit>>

\* WaitN fails at once in a cancelled context, else reserves a burst.
WaitForBurst(a) ==
    /\ pc[a] = "pass"
    /\ Rest(a) > 0
    /\ AtBurst(a)
    /\ \/ /\ ctxDone
          /\ PassFailed(a)
          /\ UNCHANGED limiter
       \/ /\ ~ctxDone
          /\ pc' = [pc EXCEPT ![a] = "wait"]
          /\ owed' = [owed EXCEPT ![a] = IF tokens >= Burst
                                           THEN 0 ELSE Burst - tokens]
          /\ tokens' = tokens - Burst
          /\ UNCHANGED ret
    /\ UNCHANGED <<state, network, ctxDone, faults, log, credit>>

BurstGranted(a) ==
    /\ pc[a] = "wait"
    /\ owed[a] = 0
    /\ credit' = [credit EXCEPT ![a] = Burst]
    /\ BeginChunk(a)
    /\ UNCHANGED <<sent, batch, off, limiter, reading, ctxDone, faults, ret,
                   log>>

\* The reservation given back to the limiter is not modelled: whoever shares
\* it is cancelled as well and reserves nothing any more.
WaitCancelled(a) ==
    /\ pc[a] = "wait"
    /\ ctxDone
    /\ PassFailed(a)
    /\ owed' = [owed EXCEPT ![a] = 0]
    /\ UNCHANGED <<state, tokens, network, ctxDone, faults, log, credit>>

\* The writer is closed and its buffer becomes the body of a request.
SendEvents(a) ==
    /\ pc[a] = "write"
    /\ pc' = [pc EXCEPT ![a] = "send"]
    /\ reading' = reading \cup {buf[a]}
    /\ UNCHANGED <<state, limiter, buf, ctxDone, faults, ret, log, credit>>

\* SendEvents returns nil: these events are sent.
Acknowledge(a) ==
    /\ pc' = [pc EXCEPT ![a] = "pass"]
    /\ sent' = [sent EXCEPT ![a] = @ + n[a]]
    /\ off' = [off EXCEPT ![a] = @ + n[a]]
    /\ log' = [log EXCEPT ![a] = Append(@, Chunk(a))]
    /\ credit' = [credit EXCEPT ![a] = IF Burst > 0 THEN @ - n[a] ELSE 0]
    /\ UNCHANGED ret

\* Classes of status codes APMTransport turns into an error.
Refused(class) == ~IgnoreErrors /\ class \in {4, 5}

\* SendEvents returns, and the buffer is no longer the agent's; but the HTTP
\* library may still be transmitting it.
Release(a) ==
    /\ buf[a] \in reading =>
         Cardinality(reading \ {buf[x] : x \in Agents}) < MaxLate
    /\ buf' = [buf EXCEPT ![a] = NoBuffer]
    /\ n' = [n EXCEPT ![a] = 0]

\* A response arrived; its class decides.
Respond(a, class) ==
    /\ pc[a] = "send"
    /\ faults' = IF class \in {4, 5} THEN faults + 1 ELSE faults
    /\ faults' <= MaxFaults
    /\ Release(a)
    /\ IF Refused(class)
         THEN PassFailed(a) /\ UNCHANGED <<sent, off, log, credit>>
         ELSE Acknowledge(a)
    /\ UNCHANGED <<batch, limiter, reading, ctxDone>>

\* client.Do fails, of itself or because the context is cancelled.
ConnectionFails(a) ==
    /\ pc[a] = "send"
    /\ faults' = IF ctxDone THEN faults ELSE faults + 1
    /\ faults' <= MaxFaults
    /\ Release(a)
    /\ PassFailed(a)
    /\ UNCHANGED <<sent, batch, off, limiter, reading, ctxDone, log, credit>>

(***************************************************************************)
(* What is outside the handler                                             *)
(***************************************************************************)
\* net/http is done with a request body.
BodyTransmitted(b) ==
    /\ b \in reading
    /\ reading' = reading \ {b}
    /\ UNCHANGED <<pc, state, limiter, buf, ctxDone, faults, ret, log, credit>>

\* golang.org/x/time/rate: a token arrives; reservations mature in order.
Refill ==
    /\ tokens < Burst
    /\ tokens' = tokens + 1
    /\ owed' = [a \in Agents |-> IF owed[a] > 0 THEN owed[a] - 1 ELSE 0]
    /\ UNCHANGED <<pc, state, network, ctxDone, faults, ret, log, credit>>

Cancel ==
    /\ ~ctxDone
    /\ ctxDone' = TRUE
    /\ UNCHANGED <<pc, state, limiter, network, faults, ret, log, credit>>

Step(a) ==
    \/ Poll(a) \/ PassDone(a) \/ NextBatch(a) \/ CutChunk(a)
    \/ WaitForBurst(a) \/ BurstGranted(a) \/ WaitCancelled(a)
    \/ SendEvents(a)
    \/ \E class \in {2, 3, 4, 5} : Respond(a, class)
    \/ ConnectionFails(a)

Next ==
    \/ \E a \in Agents : Call(a) \/ Step(a)
    \/ \E b \in Buffers : BodyTransmitted(b)
    \/ Refill
    \/ Cancel

Spec == Init /\ [][Next]_vars

\* A running goroutine is scheduled, a request is answered one way or the
\* other, time passes.  Nobody has to call, to cancel, or to fail.
Fairness ==
    /\ \A a \in Agents : WF_vars(Step(a))
    /\ \A b \in Buffers : WF_vars(BodyTransmitted(b))
    /\ WF_vars(Refill)

FairSpec == Spec /\ Fairness

(***************************************************************************)
(* Properties                                                              *)
(***************************************************************************)
ControlType ==
    /\ pc \in [Agents -> Places]
    /\ ret \in [Agents -> {"none", "nil", "failed", "cancelled"}]

CursorType ==
    /\ sent \in [Agents -> Nat]
    /\ batch \in [Agents -> 1..Len(Batches)]
    /\ off \in [Agents -> Nat]
    /\ n \in [Agents -> Nat]
    /\ \A a \in Agents : off[a] <= Batches[batch[a]]

LimiterType ==
    /\ tokens \in Int
    /\ tokens <= Burst
    /\ owed \in [Agents -> Nat]

\* An agent holds a buffer from newEventWriter to the return of SendEvents.
BufferType ==
    /\ buf \in [Agents -> Buffers \cup {NoBuffer}]
    /\ reading \subseteq Buffers
    /\ \A a \in Agents : pc[a] \in {"write", "send"} => buf[a] \in Buffers

HistoryType ==
    /\ log \in [Agents -> Seq(Chunks)]
    /\ credit \in [Agents -> Int]

\* Every variable has its type, an agent never cuts more events off a batch
\* than it has, and holds a buffer while it writes or sends.
TypeOK ==
    /\ ControlType
    /\ CursorType
    /\ LimiterType
    /\ BufferType
    /\ HistoryType
    /\ ctxDone \in BOOLEAN
    /\ faults \in 0..MaxFaults

\* The rate limit: every request of a limited agent carries at least one
\* event, and no more than is left of the last burst the limiter granted it,
\* wherever batch ends, burst ends, passes and failures fall.
PaidChunk ==
    \A a \in Agents :
        Burst > 0 /\ pc[a] \in {"write", "send"} => n[a] \in 1..credit[a]

\* The full rate: a burst is never given up in part.  An agent waits for one
\* when it has sent all of the last, although passes begin and end in the
\* middle of a burst.  Or it has sent nothing of it, which `sent` does not tell
\* from all: then some request failed, and the pass that follows has delivered
\* nothing yet.  Such a wait wastes a whole burst.
NoWastedBurst ==
    \A a \in Agents :
        Burst > 0 /\ pc[a] = "wait" =>
            \/ credit[a] = 0
            \/ credit[a] = Burst /\ log[a] = <<>> /\ faults > 0

\* What a pass delivered is a prefix of the corpus: each event once, in order,
\* under the metadata of its own batch, however it was cut into chunks.
InOrder == \A a \in Agents : IsPrefix(Delivered(a), Corpus)

\* SendBatches returns nil only when it delivered the whole corpus, and the
\* number it returns, error or not, is the number of events delivered.
ReturnsDelivered ==
    \A a \in Agents :
        ~Looping /\ pc[a] = "idle" /\ ret[a] # "none" =>
            /\ ret[a] = "nil" => Delivered(a) = Corpus
            /\ sent[a] = Len(Delivered(a))

\* The buffer an agent writes to is neither a request body the HTTP library
\* still transmits nor the buffer of another agent.
NoSharedBuffer ==
    \A a \in Agents :
        pc[a] = "write" =>
            buf[a] \notin reading \cup {buf[x] : x \in Agents \ {a}}

\* With RunForever a loop ends by cancellation only, whatever fails.
EndsCancelled ==
    \A a \in Agents :
        Looping /\ RunForever /\ ret'[a] # ret[a] =>
            ctxDone /\ ret'[a] = "cancelled"

RunsForever == [][EndsCancelled]_vars

\* A loop whose context is cancelled returns, and so does every SendBatches:
\* no wait for tokens, no response and no endless failing holds it.
Returns ==
    \A a \in Agents :
        (pc[a] # "idle" /\ (ctxDone \/ ~Looping)) ~> (pc[a] = "idle")

\* As long as nobody cancels, a loop that runs forever gets to the end of the
\* corpus again and again: failures and the sharing of the limiter delay it.
KeepsReplaying ==
    \A a \in Agents :
        (Looping /\ RunForever /\ pc[a] = "loop") ~>
            (pc[a] = "pass" /\ AtEnd(a) /\ Delivered(a) = Corpus) \/ ctxDone

\* The handler implements what PacedReplay promises.
Paced == INSTANCE PacedReplay WITH
    Total <- Len(Corpus),
    phase <- [a \in Agents |-> CASE pc[a] = "idle" -> "off"
                                 [] pc[a] = "loop" -> "ready"
                                 [] OTHER -> "replaying"],
    upto <- [a \in Agents |-> Len(Delivered(a))],
    cancelled <- ctxDone

\* Between a caller and its agents there is no more to see than a paced
\* replay of the corpus: every step of the handler is one of its steps.
ImplementsPacedReplay == Paced!Spec

\* handler.go:259: "when getting an error restart from where we left": the
\* pass after a failed one starts with the first event not acknowledged.
RestartsWhereItLeft ==
    [][\A a \in Agents :
          pc[a] = "loop" /\ pc'[a] = "pass" /\ ~AtEnd(a) =>
              batch'[a] = batch[a] /\ off'[a] = off[a]]_vars
=============================================================================
