--------------------------- MODULE HandlerProofs ---------------------------
(***************************************************************************)
(* Handler, for every corpus, burst, set of agents and pattern of failures.*)
(*                                                                         *)
(* What a request may carry depends on where `sent` stands in the current  *)
(* burst, and that is related to what was granted at every place an agent  *)
(* can be: IInv.  What was delivered is the corpus up to the cursor, batch *)
(* and offset, of the agent: DeliveryInv.  Both together make every step a *)
(* step of PacedReplay.                                                    *)
(***************************************************************************)
EXTENDS Handler, DataLemmas

(***************************************************************************)
(* Arithmetic of the current burst                                         *)
(***************************************************************************)
\* sent % burst, the position in the current burst, is less than the burst.
LEMMA ModRange ==
    ASSUME NEW B \in Nat \ {0}, NEW s \in Nat
    PROVE  s % B \in 0..(B - 1)
  OBVIOUS

\* Euclidean division, as the arithmetic of TLA+ defines it.
LEMMA DivMod ==
    ASSUME NEW B \in Nat \ {0}, NEW s \in Nat
    PROVE  /\ s \div B \in Nat
           /\ s = B * (s \div B) + (s % B)
  OBVIOUS

\* The remainder is determined by its range and by one multiple of B.
LEMMA ModUnique ==
    ASSUME NEW B \in Nat \ {0}, NEW x \in Nat, NEW q \in Nat,
           NEW r \in 0..(B - 1), x = B * q + r
    PROVE  x % B = r
<1> DEFINE p == x \div B
<1>1. p \in Nat /\ x = B * p + (x % B) /\ x % B \in 0..(B - 1)
  BY DivMod, ModRange
<1> HIDE DEF p
<1>2. ASSUME p < q PROVE FALSE
  <2>1. q = p + 1 + (q - p - 1) /\ q - p - 1 \in Nat
    BY <1>1, <1>2
  <2>2. B * q >= B * p + B
    BY <1>1, <2>1
  <2> QED
    BY <1>1, <2>2
<1>3. ASSUME q < p PROVE FALSE
  <2>1. p = q + 1 + (p - q - 1) /\ p - q - 1 \in Nat
    BY <1>1, <1>3
  <2>2. B * p >= B * q + B
    BY <1>1, <2>1
  <2> QED
    BY <1>1, <2>2
<1>4. p = q
  BY <1>1, <1>2, <1>3
<1> QED
  BY <1>1, <1>4

\* A chunk that does not reach past the burst moves the position by its
\* length, back to 0 exactly when it completes the burst.
LEMMA ModAdvance ==
    ASSUME NEW B \in Nat \ {0}, NEW s \in Nat, NEW k \in Nat,
           (s % B) + k <= B
    PROVE  (s + k) % B = IF (s % B) + k = B THEN 0 ELSE (s % B) + k
<1> DEFINE q == s \div B
           r == s % B
<1>1. q \in Nat /\ r \in 0..(B - 1) /\ s = B * q + r
  BY DivMod, ModRange
<1> HIDE DEF q, r
<1>2. CASE r + k = B
  <2>1. s + k = B * (q + 1) + 0
    BY <1>1, <1>2
  <2>2. (s + k) % B = 0
    BY <1>1, <2>1, ModUnique
  <2> QED
    BY <1>2, <2>2 DEF r
<1>3. CASE r + k < B
  <2>1. s + k = B * q + (r + k) /\ r + k \in 0..(B - 1)
    BY <1>1, <1>3
  <2>2. (s + k) % B = r + k
    BY <1>1, <2>1, ModUnique
  <2> QED
    BY <1>3, <2>2 DEF r
<1> QED
  BY <1>1, <1>2, <1>3 DEF r

\* Keeping only the remainder of sent keeps the position.
LEMMA ModIdempotent ==
    ASSUME NEW B \in Nat \ {0}, NEW s \in Nat
    PROVE  (s % B) % B = s % B
  OBVIOUS

(***************************************************************************)
(* The inductive invariant                                                 *)
(***************************************************************************)
\* A chunk fits into its batch and into the current burst, and is not empty
\* when the agent is limited; an agent waits only with something to send.
ChunkAt(a) ==
    /\ pc[a] \in {"write", "send"} =>
         /\ n[a] <= Rest(a)
         /\ Burst > 0 => n[a] \in 1..(Burst - Mod(sent[a]))
    /\ pc[a] = "wait" => Rest(a) > 0 /\ AtBurst(a)

\* What an agent may still send of a burst: the rest of it, unless the burst
\* is complete and no other one was granted.
Unused(a) ==
    IF pc[a] \in {"write", "send"} \/ Mod(sent[a]) # 0
      THEN Burst - Mod(sent[a]) ELSE 0

\* A burst was granted, and the first request of it failed: until a new pass
\* begins to send, `sent` looks as if there was none.
Forgotten(a) ==
    /\ credit[a] = Burst
    /\ Mod(sent[a]) = 0
    /\ pc[a] \notin {"write", "send"}
    /\ pc[a] = "loop" => faults > 0 \/ ctxDone
    /\ pc[a] \in {"pass", "wait"} => log[a] = <<>> /\ faults > 0

\* The last grant is what the agent knows of it, or forgotten as a whole.
CreditAt(a) == Burst > 0 => credit[a] = Unused(a) \/ Forgotten(a)

ChunkInv == \A a \in Agents : ChunkAt(a)
CreditInv == \A a \in Agents : CreditAt(a)

IInv == TypeOK /\ ChunkInv /\ CreditInv

\* The assumptions, in the form the provers need.
LEMMA Constants ==
    /\ Len(Batches) \in Nat \ {0}
    /\ \A b \in 1..Len(Batches) : Batches[b] \in Nat
    /\ Burst \in Nat
    /\ MaxFaults \in Nat
BY CorpusAssumption, LimiterAssumption, BoundAssumption

\* The invariant holds at first.
LEMMA InitInv == Init => IInv
<1> SUFFICES ASSUME Init PROVE IInv
  OBVIOUS
<1> USE Constants
<1>1. TypeOK
  <2>1. ControlType /\ LimiterType
    BY DEF Init, ControlType, LimiterType, Places
  <2>2. CursorType
    BY DEF Init, CursorType
  <2>3. BufferType
    BY DEF Init, BufferType
  <2>4. HistoryType
    BY DEF Init, HistoryType
  <2>5. ctxDone \in BOOLEAN
    BY DEF Init
  <2>6. faults \in 0..MaxFaults
    BY DEF Init
  <2> QED
    BY <2>1, <2>2, <2>3, <2>4, <2>5, <2>6 DEF TypeOK
<1>2. ChunkInv
  BY DEF Init, ChunkInv, ChunkAt
<1>3. CreditInv
  <2>1. Burst > 0 => 0 % Burst = 0
    BY ModUnique
  <2> QED
    BY <2>1 DEF Init, CreditInv, CreditAt, Unused, Mod
<1> QED
  BY <1>1, <1>2, <1>3 DEF IInv

\* ModRange for the burst of the limiter.
LEMMA PositionRange ==
    ASSUME Burst > 0, NEW s \in Nat
    PROVE  Mod(s) \in 0..(Burst - 1)
<1>1. Burst \in Nat \ {0}
  BY Constants
<1> QED
  BY <1>1, ModRange DEF Mod

\* A new pass starts with the first event of the first batch.
LEMMA StartPassType ==
    ASSUME CursorType, HistoryType, NEW a \in Agents, StartPass(a),
           UNCHANGED n
    PROVE  /\ sent' \in [Agents -> Nat] => CursorType'
           /\ log' \in [Agents -> Seq(Chunks)]
<1>1. log' \in [Agents -> Seq(Chunks)]
  <2>1. <<>> \in Seq(Chunks)
    OBVIOUS
  <2> QED
    BY <2>1 DEF StartPass, HistoryType
<1>2. ASSUME sent' \in [Agents -> Nat] PROVE CursorType'
  <2>1. batch' \in [Agents -> 1..Len(Batches)] /\ off' \in [Agents -> Nat]
    BY Constants DEF StartPass, CursorType
  <2>2. ASSUME NEW x \in Agents PROVE off'[x] <= Batches[batch'[x]]
    BY Constants DEF StartPass, CursorType
  <2> QED
    BY <1>2, <2>1, <2>2 DEF CursorType
<1> QED
  BY <1>1, <1>2

\* A chunk is not empty while events are left, ends with its batch, and
\* leaves the current burst no further than its end.
LEMMA ChunkLenRange ==
    ASSUME CursorType, NEW a \in Agents, Rest(a) > 0
    PROVE  /\ ChunkLen(a) \in 1..Rest(a)
           /\ Burst > 0 => ChunkLen(a) \in 1..(Burst - Mod(sent[a]))
<1>1. Rest(a) \in Nat /\ sent[a] \in Nat
  BY Constants DEF CursorType, Rest
<1>2. ASSUME Burst > 0 PROVE Mod(sent[a]) \in 0..(Burst - 1)
  BY <1>1, <1>2, PositionRange
<1> QED
  BY <1>1, <1>2, Constants DEF ChunkLen, Lesser

\* Every step keeps the types.
LEMMA TypeStep ==
    ASSUME TypeOK, ChunkInv, [Next]_vars
    PROVE  TypeOK'
<1> USE Constants
<1> USE DEF Places
<1>0. /\ ControlType /\ CursorType /\ LimiterType /\ BufferType
      /\ HistoryType /\ ctxDone \in BOOLEAN /\ faults \in 0..MaxFaults
  BY DEF TypeOK
<1>1. ASSUME NEW a \in Agents, Call(a)
      PROVE  TypeOK'
  <2>1. ControlType'
    BY <1>0, <1>1 DEF Call, network, limiter, StartPass, ControlType
  <2>2. CursorType'
    <3>1. sent' \in [Agents -> Nat] /\ n' = n
      BY <1>0, <1>1 DEF Call, CursorType
    <3>2. CASE StartPass(a)
      BY <1>0, <3>1, <3>2, StartPassType
    <3>3. CASE UNCHANGED <<batch, off, log>>
      BY <1>0, <3>1, <3>3 DEF CursorType
    <3> QED
      BY <1>1, <3>2, <3>3 DEF Call
  <2>3. BufferType'
    BY <1>0, <1>1 DEF Call, network, limiter, StartPass, BufferType,
       ControlType
  <2>4. HistoryType'
    <3>1. credit' \in [Agents -> Int] /\ n' = n
      BY <1>0, <1>1 DEF Call, HistoryType
    <3>2. CASE StartPass(a)
      BY <1>0, <3>1, <3>2, StartPassType DEF HistoryType
    <3>3. CASE UNCHANGED <<batch, off, log>>
      BY <1>0, <3>1, <3>3 DEF HistoryType
    <3> QED
      BY <1>1, <3>2, <3>3 DEF Call
  <2>5. LimiterType'
    BY <1>0, <1>1 DEF Call, limiter, network, LimiterType
  <2>6. ctxDone' \in BOOLEAN /\ faults' \in 0..MaxFaults
    BY <1>0, <1>1 DEF Call, network, limiter
  <2> QED
    BY <2>1, <2>2, <2>3, <2>4, <2>5, <2>6 DEF TypeOK
<1>2. ASSUME NEW a \in Agents, Poll(a)
      PROVE  TypeOK'
  <2>1. ControlType'
    BY <1>0, <1>2 DEF Poll, network, limiter, StartPass, Return, ControlType
  <2>2. CursorType'
    <3>1. sent' \in [Agents -> Nat] /\ n' = n
      BY <1>0, <1>2 DEF Poll, CursorType
    <3>2. CASE StartPass(a)
      BY <1>0, <3>1, <3>2, StartPassType
    <3>3. CASE UNCHANGED <<batch, off, log>>
      BY <1>0, <3>1, <3>3 DEF CursorType
    <3> QED
      BY <1>2, <3>2, <3>3 DEF Poll
  <2>3. BufferType'
    BY <1>0, <1>2 DEF Poll, network, limiter, StartPass, Return, BufferType,
       ControlType
  <2>4. HistoryType'
    <3>1. credit' \in [Agents -> Int] /\ n' = n
      BY <1>0, <1>2 DEF Poll, HistoryType
    <3>2. CASE StartPass(a)
      BY <1>0, <3>1, <3>2, StartPassType DEF HistoryType
    <3>3. CASE UNCHANGED <<batch, off, log>>
      BY <1>0, <3>1, <3>3 DEF HistoryType
    <3> QED
      BY <1>2, <3>2, <3>3 DEF Poll
  <2>5. LimiterType'
    BY <1>0, <1>2 DEF Poll, limiter, network, LimiterType
  <2>6. ctxDone' \in BOOLEAN /\ faults' \in 0..MaxFaults
    BY <1>0, <1>2 DEF Poll, network, limiter
  <2> QED
    BY <2>1, <2>2, <2>3, <2>4, <2>5, <2>6 DEF TypeOK
<1>3. ASSUME NEW a \in Agents, PassDone(a)
      PROVE  TypeOK'
  <2>1. ControlType'
    BY <1>0, <1>3 DEF PassDone, network, limiter, Return, ControlType
  <2>2. CursorType'
    <3>1. Remainder(sent[a]) \in Nat
      BY <1>0, PositionRange DEF CursorType, Remainder
    <3> QED
      BY <1>0, <1>3, <3>1 DEF PassDone, CursorType
  <2>3. BufferType'
    BY <1>0, <1>3 DEF PassDone, network, limiter, Return, BufferType,
       ControlType
  <2>4. LimiterType' /\ HistoryType'
    BY <1>0, <1>3 DEF PassDone, limiter, network, LimiterType, HistoryType
  <2>5. ctxDone' \in BOOLEAN /\ faults' \in 0..MaxFaults
    BY <1>0, <1>3 DEF PassDone, network, limiter
  <2> QED
    BY <2>1, <2>2, <2>3, <2>4, <2>5 DEF TypeOK
<1>4. ASSUME NEW a \in Agents, NextBatch(a)
      PROVE  TypeOK'
  <2>1. CursorType'
    BY <1>0, <1>4 DEF NextBatch, network, limiter, CursorType
  <2>2. ControlType' /\ LimiterType' /\ BufferType' /\ HistoryType'
    BY <1>0, <1>4 DEF NextBatch, limiter, network, ControlType, LimiterType,
       BufferType, HistoryType
  <2>3. ctxDone' \in BOOLEAN /\ faults' \in 0..MaxFaults
    BY <1>0, <1>4 DEF NextBatch, network, limiter
  <2> QED
    BY <2>1, <2>2, <2>3 DEF TypeOK
<1>5. ASSUME NEW a \in Agents, CutChunk(a)
      PROVE  TypeOK'
  <2>1. ControlType'
    BY <1>0, <1>5 DEF CutChunk, limiter, BeginChunk, ControlType
  <2>2. CursorType'
    BY <1>0, <1>5, ChunkLenRange DEF CutChunk, limiter, BeginChunk, ChunkLen,
       Lesser, Rest, Mod, CursorType
  <2>3. BufferType'
    BY <1>0, <1>5 DEF CutChunk, limiter, BeginChunk, NewEventWriter,
       BufferType, ControlType
  <2>4. LimiterType' /\ HistoryType'
    BY <1>0, <1>5 DEF CutChunk, limiter, LimiterType, HistoryType
  <2>5. ctxDone' \in BOOLEAN /\ faults' \in 0..MaxFaults
    BY <1>0, <1>5 DEF CutChunk, limiter
  <2> QED
    BY <2>1, <2>2, <2>3, <2>4, <2>5 DEF TypeOK
<1>6. ASSUME NEW a \in Agents, WaitForBurst(a)
      PROVE  TypeOK'
  <2>1. ControlType'
    BY <1>0, <1>6 DEF WaitForBurst, network, limiter, state, PassFailed,
       Return, ControlType
  <2>2. LimiterType'
    BY <1>0, <1>6 DEF WaitForBurst, network, limiter, state, LimiterType
  <2>3. BufferType'
    BY <1>0, <1>6 DEF WaitForBurst, network, limiter, state, PassFailed,
       Return, BufferType, ControlType
  <2>4. HistoryType'
    BY <1>0, <1>6 DEF WaitForBurst, network, limiter, state, PassFailed,
       HistoryType
  <2>5. CursorType'
    BY <1>0, <1>6 DEF WaitForBurst, limiter, state, network, CursorType
  <2>6. ctxDone' \in BOOLEAN /\ faults' \in 0..MaxFaults
    BY <1>0, <1>6 DEF WaitForBurst, network, limiter, state
  <2> QED
    BY <2>1, <2>2, <2>3, <2>4, <2>5, <2>6 DEF TypeOK
<1>7. ASSUME NEW a \in Agents, BurstGranted(a)
      PROVE  TypeOK'
  <2>1. ControlType'
    BY <1>0, <1>7 DEF BurstGranted, limiter, BeginChunk, ControlType
  <2>2. CursorType'
    BY <1>0, <1>7, ChunkLenRange DEF BurstGranted, limiter, BeginChunk, ChunkLen,
       Lesser, Rest, Mod, CursorType
  <2>3. BufferType'
    BY <1>0, <1>7 DEF BurstGranted, limiter, BeginChunk, NewEventWriter,
       BufferType, ControlType
  <2>4. HistoryType'
    BY <1>0, <1>7 DEF BurstGranted, limiter, BeginChunk, HistoryType
  <2>5. LimiterType'
    BY <1>0, <1>7 DEF BurstGranted, limiter, LimiterType
  <2>6. ctxDone' \in BOOLEAN /\ faults' \in 0..MaxFaults
    BY <1>0, <1>7 DEF BurstGranted, limiter
  <2> QED
    BY <2>1, <2>2, <2>3, <2>4, <2>5, <2>6 DEF TypeOK
<1>8. ASSUME NEW a \in Agents, WaitCancelled(a)
      PROVE  TypeOK'
  <2>1. ControlType'
    BY <1>0, <1>8 DEF WaitCancelled, network, state, PassFailed, Return,
       ControlType
  <2>2. LimiterType'
    BY <1>0, <1>8 DEF WaitCancelled, network, state, LimiterType
  <2>3. BufferType'
    BY <1>0, <1>8 DEF WaitCancelled, network, state, PassFailed, Return,
       BufferType, ControlType
  <2>4. HistoryType'
    BY <1>0, <1>8 DEF WaitCancelled, network, state, PassFailed, HistoryType
  <2>5. CursorType'
    BY <1>0, <1>8 DEF WaitCancelled, state, network, CursorType
  <2>6. ctxDone' \in BOOLEAN /\ faults' \in 0..MaxFaults
    BY <1>0, <1>8 DEF WaitCancelled, network, state
  <2> QED
    BY <2>1, <2>2, <2>3, <2>4, <2>5, <2>6 DEF TypeOK
<1>9. ASSUME NEW a \in Agents, SendEvents(a)
      PROVE  TypeOK'
  <2>1. ControlType'
    BY <1>0, <1>9 DEF SendEvents, limiter, state, ControlType
  <2>2. BufferType'
    BY <1>0, <1>9 DEF SendEvents, limiter, state, BufferType, ControlType
  <2>3. CursorType' /\ LimiterType' /\ HistoryType'
    BY <1>0, <1>9 DEF SendEvents, state, limiter, CursorType, LimiterType,
       HistoryType
  <2>4. ctxDone' \in BOOLEAN /\ faults' \in 0..MaxFaults
    BY <1>0, <1>9 DEF SendEvents, limiter, state
  <2> QED
    BY <2>1, <2>2, <2>3, <2>4 DEF TypeOK
<1>10. ASSUME NEW a \in Agents, NEW class \in {2, 3, 4, 5}, Respond(a, class)
      PROVE  TypeOK'
  <2>1. ControlType'
    BY <1>0, <1>10 DEF Respond, limiter, PassFailed, Return, Acknowledge,
       ControlType
  <2>2. CursorType'
    <3>1. n' \in [Agents -> Nat] /\ batch' = batch
      BY <1>0, <1>10 DEF Respond, Release, CursorType
    <3>2. CASE UNCHANGED <<sent, off, log>>
      BY <1>0, <3>1, <3>2 DEF CursorType
    <3>3. CASE Acknowledge(a)
      <4>1. off[a] + n[a] <= Batches[batch[a]]
        BY <1>0, <1>10, ChunkInv DEF Respond, ChunkInv, ChunkAt, Rest,
           CursorType
      <4>2. sent' \in [Agents -> Nat] /\ off' \in [Agents -> Nat]
        BY <1>0, <3>3 DEF Acknowledge, CursorType
      <4>3. ASSUME NEW x \in Agents PROVE off'[x] <= Batches[batch'[x]]
        BY <1>0, <3>1, <3>3, <4>1 DEF Acknowledge, CursorType
      <4> QED
        BY <1>0, <3>1, <4>2, <4>3 DEF CursorType
    <3> QED
      BY <1>10, <3>2, <3>3 DEF Respond
  <2>3. BufferType'
    BY <1>0, <1>10 DEF Respond, limiter, Release, PassFailed, Return,
       Acknowledge, BufferType, ControlType
  <2>4. HistoryType'
    <3>1. CASE PassFailed(a) /\ UNCHANGED <<sent, off, log, credit>>
      BY <1>0, <3>1 DEF HistoryType
    <3>2. CASE Acknowledge(a)
      <4>1. Chunk(a) \in Chunks
        BY <1>0 DEF Chunk, Chunks, CursorType
      <4>2. log' \in [Agents -> Seq(Chunks)]
        BY <1>0, <3>2, <4>1 DEF Acknowledge, HistoryType
      <4>3. credit' \in [Agents -> Int]
        BY <1>0, <3>2 DEF Acknowledge, HistoryType, CursorType
      <4> QED
        BY <4>2, <4>3 DEF HistoryType
    <3> QED
      BY <1>10, <3>1, <3>2 DEF Respond
  <2>5. LimiterType'
    BY <1>0, <1>10 DEF Respond, limiter, LimiterType
  <2>6. ctxDone' \in BOOLEAN /\ faults' \in 0..MaxFaults
    BY <1>0, <1>10 DEF Respond, limiter
  <2> QED
    BY <2>1, <2>2, <2>3, <2>4, <2>5, <2>6 DEF TypeOK
<1>11. ASSUME NEW a \in Agents, ConnectionFails(a)
      PROVE  TypeOK'
  <2>1. ControlType'
    BY <1>0, <1>11 DEF ConnectionFails, limiter, PassFailed, Return,
       ControlType
  <2>2. CursorType'
    BY <1>0, <1>11 DEF ConnectionFails, limiter, Release, CursorType
  <2>3. BufferType'
    BY <1>0, <1>11 DEF ConnectionFails, limiter, Release, PassFailed,
       Return, BufferType, ControlType
  <2>4. HistoryType'
    BY <1>0, <1>11 DEF ConnectionFails, limiter, PassFailed, HistoryType
  <2>5. LimiterType'
    BY <1>0, <1>11 DEF ConnectionFails, limiter, LimiterType
  <2>6. ctxDone' \in BOOLEAN /\ faults' \in 0..MaxFaults
    BY <1>0, <1>11 DEF ConnectionFails, limiter
  <2> QED
    BY <2>1, <2>2, <2>3, <2>4, <2>5, <2>6 DEF TypeOK
<1>12. ASSUME NEW b \in Buffers, BodyTransmitted(b) PROVE TypeOK'
    BY <1>0, <1>12 DEF BodyTransmitted, state, limiter, TypeOK, ControlType,
       CursorType, LimiterType, BufferType, HistoryType
<1>13. ASSUME Refill PROVE TypeOK'
    BY <1>0, <1>13 DEF Refill, state, network, TypeOK, ControlType,
       CursorType, LimiterType, BufferType, HistoryType
<1>14. ASSUME Cancel PROVE TypeOK'
    BY <1>0, <1>14 DEF Cancel, state, limiter, network, TypeOK, ControlType,
       CursorType, LimiterType, BufferType, HistoryType
<1>15. ASSUME UNCHANGED vars PROVE TypeOK'
    BY <1>0, <1>15 DEF vars, TypeOK, ControlType, CursorType, LimiterType,
       BufferType, HistoryType
<1> QED
    BY <1>1, <1>2, <1>3, <1>4, <1>5, <1>6, <1>7, <1>8, <1>9, <1>10, <1>11,
       <1>12, <1>13, <1>14, <1>15 DEF Next, Step

(***************************************************************************)
(* The chunks and the credit                                               *)
(***************************************************************************)
\* The locals of an agent, what it returned, and its histories.
Local(a) == <<pc[a], sent[a], batch[a], off[a], n[a], credit[a], log[a],
              ret[a]>>

\* Steps of others do not touch the locals of an agent.
LEMMA Locality ==
    ASSUME TypeOK, NEW x \in Agents, NEW a \in Agents, a # x,
           Call(a) \/ Step(a)
    PROVE  UNCHANGED Local(x)
<1> USE DEF TypeOK, ControlType, CursorType, HistoryType, Local
<1>1. ASSUME PassFailed(a)
      PROVE  pc'[x] = pc[x] /\ ret'[x] = ret[x]
  BY <1>1 DEF PassFailed, Return
<1>2. ASSUME StartPass(a)
      PROVE  /\ pc'[x] = pc[x] /\ log'[x] = log[x]
             /\ batch'[x] = batch[x] /\ off'[x] = off[x]
  BY <1>2 DEF StartPass
<1>3. CASE Call(a)
  BY <1>2, <1>3 DEF Call
<1>4. CASE Poll(a)
  BY <1>2, <1>4 DEF Poll, Return
<1>5. CASE PassDone(a)
  BY <1>5 DEF PassDone, Return
<1>6. CASE NextBatch(a) \/ SendEvents(a)
  BY <1>6 DEF NextBatch, SendEvents, state
<1>7. CASE CutChunk(a) \/ BurstGranted(a)
  BY <1>7 DEF CutChunk, BurstGranted, BeginChunk
<1>8. CASE WaitForBurst(a)
  BY <1>1, <1>8 DEF WaitForBurst, state
<1>9. CASE WaitCancelled(a)
  BY <1>1, <1>9 DEF WaitCancelled, state
<1>10. ASSUME NEW class \in {2, 3, 4, 5}, Respond(a, class)
       PROVE  UNCHANGED Local(x)
  BY <1>1, <1>10 DEF Respond, Release, Acknowledge
<1>11. CASE ConnectionFails(a)
  BY <1>1, <1>11 DEF ConnectionFails, Release
<1> QED
  BY <1>3, <1>4, <1>5, <1>6, <1>7, <1>8, <1>9, <1>10, <1>11 DEF Step

\* Failures stay counted, and a cancelled context stays cancelled.
Advances == faults' \in Nat /\ faults' >= faults /\ (ctxDone => ctxDone')

LEMMA StepAdvances ==
    ASSUME TypeOK, [Next]_vars
    PROVE  Advances
<1>0. faults \in Nat /\ ctxDone \in BOOLEAN
  BY Constants DEF TypeOK
<1>1. ASSUME NEW a \in Agents, Call(a) \/ Step(a)
      PROVE  Advances
  <2>1. ctxDone' = ctxDone
    BY <1>1 DEF Call, Step, Poll, PassDone, NextBatch, CutChunk, WaitForBurst,
       BurstGranted, WaitCancelled, SendEvents, Respond, ConnectionFails
  <2>2. faults' = faults \/ faults' = faults + 1
    BY <1>1 DEF Call, Step, Poll, PassDone, NextBatch, CutChunk, WaitForBurst,
       BurstGranted, WaitCancelled, SendEvents, Respond, ConnectionFails
  <2> QED
    BY <1>0, <2>1, <2>2 DEF Advances
<1>2. CASE Refill \/ Cancel \/ UNCHANGED vars
  BY <1>0, <1>2 DEF Refill, Cancel, vars, Advances
<1>3. ASSUME NEW b \in Buffers, BodyTransmitted(b) PROVE Advances
  BY <1>0, <1>3 DEF BodyTransmitted, Advances
<1> QED
  BY <1>1, <1>2, <1>3 DEF Next

\* An agent that a step leaves alone keeps its part of the invariant.
LEMMA LocalInv ==
    ASSUME TypeOK, NEW x \in Agents, ChunkAt(x), CreditAt(x),
           UNCHANGED Local(x), Advances
    PROVE  ChunkAt(x)' /\ CreditAt(x)'
<1>1. ChunkAt(x)'
  BY DEF Local, ChunkAt, Mod, Rest, AtBurst
<1>2. ASSUME Burst > 0 PROVE credit'[x] = Unused(x)' \/ Forgotten(x)'
  <2>1. CASE credit[x] = Unused(x)
    BY <2>1 DEF Local, Unused, Mod
  <2>2. CASE Forgotten(x)
    BY <2>2, Constants DEF Local, Forgotten, Mod, TypeOK, Advances
  <2> QED
    BY <1>2, <2>1, <2>2 DEF CreditAt
<1> QED
  BY <1>1, <1>2 DEF CreditAt

\* An agent that gives up a pass keeps what is left of a begun burst, and
\* forgets a burst of which nothing was acknowledged.
LEMMA FailedInv ==
    ASSUME TypeOK, Advances, NEW x \in Agents, CreditAt(x), PassFailed(x),
           sent'[x] = sent[x], credit'[x] = credit[x],
           \/ pc[x] = "send" /\ (faults' > 0 \/ ctxDone')
           \/ pc[x] \in {"pass", "wait"} /\ AtBurst(x)
    PROVE  ChunkAt(x)' /\ CreditAt(x)'
<1>1. pc'[x] \in {"loop", "idle"}
  BY DEF PassFailed, Return, TypeOK, ControlType
<1>2. ChunkAt(x)'
  BY <1>1 DEF ChunkAt
<1>3. ASSUME Burst > 0 PROVE credit'[x] = Unused(x)' \/ Forgotten(x)'
  <2>1. Unused(x)' = IF Mod(sent[x]) # 0 THEN Burst - Mod(sent[x]) ELSE 0
    BY <1>1 DEF Unused, Mod
  <2>2. CASE credit[x] = Unused(x) /\ (pc[x] # "send" \/ Mod(sent[x]) # 0)
    BY <1>1, <1>3, <2>1, <2>2 DEF Unused, AtBurst
  <2>3. CASE credit[x] = Unused(x) /\ pc[x] = "send" /\ Mod(sent[x]) = 0
    <3>1. credit'[x] = Burst
      BY <2>3, Constants DEF Unused
    <3>2. faults' > 0 \/ ctxDone'
      BY <2>3
    <3> QED
      BY <1>1, <2>3, <3>1, <3>2 DEF Forgotten, Mod
  <2>4. CASE Forgotten(x)
    <3>1. pc[x] \in {"pass", "wait"} /\ faults > 0
      BY <2>4 DEF Forgotten
    <3>2. faults' > 0
      BY <3>1, Constants DEF Advances, TypeOK
    <3> QED
      BY <1>1, <2>4, <3>2 DEF Forgotten, Mod
  <2> QED
    BY <1>3, <2>2, <2>3, <2>4 DEF CreditAt
<1> QED
  BY <1>2, <1>3 DEF CreditAt

\* Acknowledging a chunk uses up its credit, to the end of the burst at most.
LEMMA AcknowledgeInv ==
    ASSUME TypeOK, NEW x \in Agents, pc[x] = "send", ChunkAt(x),
           CreditAt(x), Acknowledge(x)
    PROVE  ChunkAt(x)' /\ CreditAt(x)'
<1>1. pc'[x] = "pass" /\ sent'[x] = sent[x] + n[x]
  BY DEF Acknowledge, TypeOK, ControlType, CursorType
<1>2. ASSUME Burst > 0 PROVE credit'[x] = Unused(x)'
  <2>1. credit'[x] = credit[x] - n[x]
    BY <1>2 DEF Acknowledge, TypeOK, HistoryType
  <2>2. sent[x] \in Nat /\ n[x] \in Nat /\ Burst \in Nat \ {0}
    BY <1>2, Constants DEF TypeOK, CursorType
  <2>3. Mod(sent[x]) \in 0..(Burst - 1)
    BY <1>2, <2>2, PositionRange
  <2>4. n[x] \in 1..(Burst - Mod(sent[x])) /\ credit[x] = Burst - Mod(sent[x])
    BY <1>2 DEF ChunkAt, CreditAt, Unused, Forgotten
  <2>5. Mod(sent[x] + n[x]) = IF Mod(sent[x]) + n[x] = Burst
                                THEN 0 ELSE Mod(sent[x]) + n[x]
    <3> DEFINE s == sent[x]
               k == n[x]
    <3>1. s \in Nat /\ k \in Nat /\ Burst \in Nat \ {0}
      BY <2>2
    <3>2. (s % Burst) + k <= Burst
      BY <2>2, <2>3, <2>4 DEF Mod
    <3> HIDE DEF s, k
    <3>3. (s + k) % Burst = IF (s % Burst) + k = Burst THEN 0 ELSE (s % Burst) + k
      BY <3>1, <3>2, ModAdvance
    <3> QED
      BY <3>3 DEF Mod, s, k
  <2>6. Unused(x)' = IF Mod(sent[x] + n[x]) # 0
                       THEN Burst - Mod(sent[x] + n[x]) ELSE 0
    BY <1>1 DEF Unused, Mod
  <2> QED
    BY <2>1, <2>2, <2>3, <2>4, <2>5, <2>6
<1> QED
  BY <1>1, <1>2 DEF ChunkAt, CreditAt

\* A step of the agent itself keeps its chunk and its credit.
LEMMA OwnStep ==
    ASSUME IInv, NEW x \in Agents, Call(x) \/ Step(x)
    PROVE  ChunkAt(x)' /\ CreditAt(x)'
<1>0. TypeOK /\ ChunkAt(x) /\ CreditAt(x) /\ Advances
  BY StepAdvances DEF IInv, ChunkInv, CreditInv, Next
<1> USE DEF TypeOK, ControlType, CursorType, HistoryType
<1>1. CASE Call(x)
  <2>1. pc'[x] \in {"loop", "pass"} /\ sent'[x] = 0 /\ credit'[x] = 0
    BY <1>0, <1>1 DEF Call, StartPass
  <2>2. Burst > 0 => 0 % Burst = 0
    BY Constants, ModUnique
  <2> QED
    BY <2>1, <2>2 DEF ChunkAt, CreditAt, Unused, Mod
<1>2. CASE Poll(x)
  <2>1. /\ pc[x] = "loop" /\ pc'[x] \in {"idle", "pass"}
        /\ sent' = sent /\ credit' = credit /\ faults' = faults
        /\ pc'[x] = "pass" => log'[x] = <<>> /\ ~ctxDone
    BY <1>0, <1>2 DEF Poll, Return, StartPass
  <2> QED
    BY <1>0, <2>1 DEF ChunkAt, CreditAt, Unused, Forgotten, Mod
<1>3. CASE PassDone(x)
  <2>1. /\ pc[x] = "pass" /\ pc'[x] \in {"idle", "loop"} /\ credit' = credit
        /\ sent'[x] = sent[x] \/ sent'[x] = Remainder(sent[x])
        /\ faults' = faults
    BY <1>0, <1>3 DEF PassDone, Return
  <2>2. Burst > 0 => Mod(Remainder(sent[x])) = Mod(sent[x])
    <3>1. sent[x] \in Nat
      BY <1>0
    <3>2. ASSUME Burst \in Nat \ {0} PROVE (sent[x] % Burst) % Burst = sent[x] % Burst
      BY <3>1, <3>2, ModIdempotent
    <3>3. Burst > 0 => Burst \in Nat \ {0}
      BY Constants
    <3> QED
      BY <3>2, <3>3 DEF Remainder, Mod
  <2>3. Burst > 0 => Mod(sent'[x]) = Mod(sent[x])
    BY <2>1, <2>2
  <2> QED
    BY <1>0, <2>1, <2>3 DEF ChunkAt, CreditAt, Unused, Forgotten
<1>4. CASE NextBatch(x)
  BY <1>0, <1>4 DEF NextBatch, ChunkAt, CreditAt, Unused, Forgotten, Mod
<1>5. CASE CutChunk(x)
  <2>1. /\ pc[x] = "pass" /\ pc'[x] = "write" /\ n'[x] = ChunkLen(x)
        /\ UNCHANGED <<sent, batch, off, credit>>
    BY <1>0, <1>5 DEF CutChunk, BeginChunk
  <2>2. ChunkAt(x)'
    BY <1>0, <1>5, <2>1, ChunkLenRange DEF CutChunk, ChunkAt, Mod, Rest
  <2>3. Burst > 0 => Mod(sent[x]) # 0
    BY <1>5 DEF CutChunk, AtBurst
  <2> QED
    BY <1>0, <2>1, <2>2, <2>3 DEF CreditAt, Unused, Forgotten, Mod
<1>6. CASE WaitForBurst(x)
  <2>1. CASE PassFailed(x)
    BY <1>0, <1>6, <2>1, FailedInv DEF WaitForBurst, state
  <2>2. CASE pc' = [pc EXCEPT ![x] = "wait"]
    <3>1. pc[x] = "pass" /\ pc'[x] = "wait"
      BY <1>0, <1>6, <2>2 DEF WaitForBurst
    <3>2. UNCHANGED <<state, faults, log, credit>>
      BY <1>6 DEF WaitForBurst
    <3> QED
      BY <1>0, <1>6, <3>1, <3>2 DEF WaitForBurst, state, ChunkAt, CreditAt,
         Unused, Forgotten, Mod, Rest, AtBurst
  <2> QED
    BY <1>6, <2>1, <2>2 DEF WaitForBurst
<1>7. CASE BurstGranted(x)
  <2>1. /\ pc[x] = "wait" /\ pc'[x] = "write" /\ n'[x] = ChunkLen(x)
        /\ credit'[x] = Burst /\ UNCHANGED <<sent, batch, off>>
    BY <1>0, <1>7 DEF BurstGranted, BeginChunk
  <2>2. Rest(x) > 0 /\ AtBurst(x)
    BY <1>0, <2>1 DEF ChunkAt
  <2>3. ChunkAt(x)'
    BY <1>0, <2>1, <2>2, ChunkLenRange DEF ChunkAt, Mod, Rest
  <2> QED
    BY <1>0, <2>1, <2>2, <2>3, Constants DEF CreditAt, Unused, Mod, AtBurst
<1>8. CASE WaitCancelled(x)
  BY <1>0, <1>8, FailedInv DEF WaitCancelled, state, ChunkAt
<1>9. CASE SendEvents(x)
  <2>1. /\ pc[x] = "write" /\ pc'[x] = "send"
        /\ UNCHANGED <<sent, batch, off, n, credit>>
    BY <1>0, <1>9 DEF SendEvents, state
  <2> QED
    BY <1>0, <2>1 DEF ChunkAt, CreditAt, Unused, Forgotten, Mod, Rest
<1>10. ASSUME NEW class \in {2, 3, 4, 5}, Respond(x, class)
       PROVE  ChunkAt(x)' /\ CreditAt(x)'
  <2>1. faults \in Nat /\ (Refused(class) => faults' = faults + 1)
    BY <1>0, <1>10, Constants DEF Respond, Refused
  <2>2. CASE Refused(class)
    <3>1. /\ pc[x] = "send" /\ faults' > 0 /\ PassFailed(x)
          /\ sent'[x] = sent[x] /\ credit'[x] = credit[x]
      BY <1>10, <2>1, <2>2 DEF Respond
    <3> QED
      BY <1>0, <3>1, FailedInv
  <2>3. CASE Acknowledge(x)
    BY <1>0, <1>10, <2>3, AcknowledgeInv DEF Respond
  <2> QED
    BY <1>10, <2>2, <2>3 DEF Respond
<1>11. CASE ConnectionFails(x)
  <2>1. faults \in Nat /\ (faults' = faults + 1 \/ ctxDone')
    BY <1>0, <1>11, Constants DEF ConnectionFails
  <2> QED
    BY <1>0, <1>11, <2>1, FailedInv DEF ConnectionFails
<1> QED
  BY <1>1, <1>2, <1>3, <1>4, <1>5, <1>6, <1>7, <1>8, <1>9, <1>10, <1>11
     DEF Step

\* Every step keeps the invariant.
LEMMA StepInv == IInv /\ [Next]_vars => IInv'
<1> SUFFICES ASSUME IInv, [Next]_vars PROVE IInv'
  OBVIOUS
<1>1. TypeOK'
  BY TypeStep DEF IInv
<1>2. ASSUME NEW x \in Agents PROVE ChunkAt(x)' /\ CreditAt(x)'
  <2>0. TypeOK /\ ChunkAt(x) /\ CreditAt(x) /\ Advances
    BY StepAdvances DEF IInv, ChunkInv, CreditInv
  <2>1. CASE Call(x) \/ Step(x)
    BY <2>1, OwnStep
  <2>2. ASSUME NEW a \in Agents, a # x, Call(a) \/ Step(a)
        PROVE  ChunkAt(x)' /\ CreditAt(x)'
    BY <2>0, <2>2, Locality, LocalInv
  <2>3. CASE Refill \/ Cancel \/ UNCHANGED vars
    <3>1. UNCHANGED Local(x)
      BY <2>3 DEF Refill, Cancel, vars, state, Local
    <3> QED
      BY <2>0, <3>1, LocalInv
  <2>4. ASSUME NEW b \in Buffers, BodyTransmitted(b)
        PROVE  ChunkAt(x)' /\ CreditAt(x)'
    <3>1. UNCHANGED Local(x)
      BY <2>4 DEF BodyTransmitted, state, Local
    <3> QED
      BY <2>0, <3>1, LocalInv
  <2> QED
    BY <2>1, <2>2, <2>3, <2>4 DEF Next
<1> QED
  BY <1>1, <1>2 DEF IInv, ChunkInv, CreditInv

(***************************************************************************)
(* The theorems                                                            *)
(***************************************************************************)
\* Whatever the corpus, the burst, the agents and the failures: positions in
\* the corpus, chunks and credits stay in range and related as IInv says.
THEOREM Invariance == Spec => []IInv
  BY InitInv, StepInv, PTL DEF Spec

\* Every variable keeps its type; no agent runs over the end of a batch
\* (handler.go:364, events = events[n:]) or writes without a buffer.
THEOREM TypeCorrect == Spec => []TypeOK
<1>1. IInv => TypeOK
  BY DEF IInv
<1> QED
  BY <1>1, Invariance, PTL

\* sendBatch never sends more than what WaitN granted and is not used yet.
THEOREM RateLimited == Spec => []PaidChunk
<1>1. IInv => PaidChunk
  <2> SUFFICES ASSUME IInv, NEW a \in Agents, Burst > 0,
                      pc[a] \in {"write", "send"}
               PROVE  n[a] \in 1..credit[a]
    BY DEF PaidChunk
  <2> QED
    BY DEF IInv, ChunkInv, CreditInv, ChunkAt, CreditAt, Unused, Forgotten
<1> QED
  BY <1>1, Invariance, PTL

\* sendBatch never waits for a burst while it has a part of one left to send:
\* it has sent all of the last, or has just lost the whole of it to a failure.
THEOREM FullRate == Spec => []NoWastedBurst
<1>1. IInv => NoWastedBurst
  BY DEF IInv, ChunkInv, CreditInv, ChunkAt, CreditAt, Unused, Forgotten,
     AtBurst, NoWastedBurst
<1> QED
  BY <1>1, Invariance, PTL

\* Only the select at the head of SendBatchesInLoop ends a loop that runs
\* forever, and only when it finds the context cancelled.
THEOREM RunsUntilCancelled == Spec => RunsForever
<1> DEFINE Ends(a) == Looping /\ RunForever /\ ret'[a] # ret[a]
           Allowed(a) == ctxDone /\ ret'[a] = "cancelled"
<1>1. ASSUME TypeOK, [Next]_vars, NEW x \in Agents, Ends(x) PROVE Allowed(x)
  <2> USE DEF TypeOK, ControlType
  <2>1. ASSUME NEW a \in Agents, PassFailed(a) PROVE ret' = ret
    BY <1>1, <2>1 DEF PassFailed
  <2>2. ASSUME NEW a \in Agents, Call(a) PROVE ret' = ret
    BY <2>2 DEF Call
  <2>3. ASSUME NEW a \in Agents, Poll(a) PROVE Allowed(x)
    BY <1>1, <2>3 DEF Poll, Return
  <2>4. ASSUME NEW a \in Agents, PassDone(a) PROVE ret' = ret
    BY <1>1, <2>4 DEF PassDone
  <2>5. ASSUME NEW a \in Agents,
               NextBatch(a) \/ CutChunk(a) \/ BurstGranted(a) \/ SendEvents(a)
        PROVE  ret' = ret
    BY <2>5 DEF NextBatch, CutChunk, BurstGranted, SendEvents
  <2>6. ASSUME NEW a \in Agents, WaitForBurst(a) PROVE ret' = ret
    BY <2>1, <2>6 DEF WaitForBurst
  <2>7. ASSUME NEW a \in Agents, WaitCancelled(a) \/ ConnectionFails(a)
        PROVE  ret' = ret
    BY <2>1, <2>7 DEF WaitCancelled, ConnectionFails
  <2>8. ASSUME NEW a \in Agents, NEW class \in {2, 3, 4, 5}, Respond(a, class)
        PROVE  ret' = ret
    BY <2>1, <2>8 DEF Respond, Acknowledge
  <2>9. CASE Refill \/ Cancel \/ UNCHANGED vars
    BY <1>1, <2>9 DEF Refill, Cancel, vars
  <2>10. ASSUME NEW b \in Buffers, BodyTransmitted(b) PROVE ret' = ret
    BY <2>10 DEF BodyTransmitted
  <2> QED
    BY <1>1, <2>2, <2>3, <2>4, <2>5, <2>6, <2>7, <2>8, <2>9, <2>10
       DEF Next, Step
<1>2. TypeOK /\ [Next]_vars => [EndsCancelled]_vars
  BY <1>1 DEF EndsCancelled
<1> QED
  BY <1>2, TypeCorrect, PTL DEF Spec, RunsForever

(***************************************************************************)
(* What a pass delivers                                                    *)
(***************************************************************************)
Positions == Nat \X Nat

\* The first k events of batch b, and the chunks of a log as events.
FirstOf(b, k) == Events([batch |-> b, from |-> 0, len |-> k])
Parts(l) == [k \in DOMAIN l |-> Events(l[k])]
BatchEvents == [b \in DOMAIN Batches |-> FirstOf(b, Batches[b])]

\* The corpus up to the cursor <<b, k>>.
Before(b) == FlattenSeq(SubSeq(BatchEvents, 1, b - 1))
Upto(b, k) == Before(b) \o FirstOf(b, k)

\* A chunk is as many events as its length says.
LEMMA EventsType ==
    ASSUME NEW b \in Nat, NEW f \in Nat, NEW k \in Nat
    PROVE  /\ Events([batch |-> b, from |-> f, len |-> k]) \in Seq(Positions)
           /\ Len(Events([batch |-> b, from |-> f, len |-> k])) = k
<1> DEFINE c == [batch |-> b, from |-> f, len |-> k]
           e == [i \in 1..k |-> <<b, f + i>>]
<1>1. Events(c) = e
  BY DEF Events
<1>2. \A i \in 1..k : <<b, f + i>> \in Positions
  BY DEF Positions
<1>3. e \in Seq(Positions) /\ Len(e) = k
  BY <1>2
<1> QED
  BY <1>1, <1>3

\* Two chunks of a batch, the second beginning where the first ends, are one.
LEMMA EventsJoin ==
    ASSUME NEW b \in Nat, NEW k \in Nat, NEW m \in Nat
    PROVE  FirstOf(b, k) \o Events([batch |-> b, from |-> k, len |-> m])
             = FirstOf(b, k + m)
<1> DEFINE s == FirstOf(b, k)
           t == Events([batch |-> b, from |-> k, len |-> m])
           u == FirstOf(b, k + m)
<1>1. /\ s \in Seq(Positions) /\ t \in Seq(Positions) /\ u \in Seq(Positions)
      /\ Len(s) = k /\ Len(t) = m /\ Len(u) = k + m
  BY EventsType DEF FirstOf
<1>2. /\ \A i \in 1..k : s[i] = <<b, i>>
      /\ \A i \in 1..m : t[i] = <<b, k + i>>
      /\ \A i \in 1..(k + m) : u[i] = <<b, i>>
  BY DEF FirstOf, Events
<1> HIDE DEF s, t, u
<1>3. /\ Len(u) = Len(s) + Len(t)
      /\ \A i \in 1..Len(s) : u[i] = s[i]
      /\ \A i \in 1..Len(t) : u[Len(s) + i] = t[i]
  <2>1. Len(u) = Len(s) + Len(t)
    BY <1>1
  <2>2. ASSUME NEW i \in 1..k PROVE u[i] = s[i]
    <3>1. i \in 1..(k + m)
      OBVIOUS
    <3> QED
      BY <1>2, <3>1
  <2>3. ASSUME NEW i \in 1..m PROVE u[k + i] = t[i]
    <3>1. k + i \in 1..(k + m)
      OBVIOUS
    <3> QED
      BY <1>2, <3>1
  <2> QED
    BY <1>1, <2>1, <2>2, <2>3
<1>4. s \o t = u
  BY <1>1, <1>3, ConcatIs
<1> QED
  BY <1>4 DEF s, t, u

\* The batches as sequences of events; Corpus is all of them.
LEMMA BatchEventsType ==
    /\ BatchEvents \in Seq(Seq(Positions))
    /\ Len(BatchEvents) = Len(Batches)
    /\ \A b \in 1..Len(Batches) : BatchEvents[b] = FirstOf(b, Batches[b])
    /\ Corpus = FlattenSeq(BatchEvents)
<1>1. DOMAIN Batches = 1..Len(Batches) /\ Len(Batches) \in Nat
  BY CorpusAssumption
<1>2. \A b \in 1..Len(Batches) : FirstOf(b, Batches[b]) \in Seq(Positions)
  BY Constants, EventsType DEF FirstOf
<1>3. BatchEvents = [b \in 1..Len(Batches) |-> FirstOf(b, Batches[b])]
  BY <1>1 DEF BatchEvents
<1>4. BatchEvents \in Seq(Seq(Positions)) /\ Len(BatchEvents) = Len(Batches)
  BY <1>1, <1>2, <1>3
<1>5. Corpus = FlattenSeq(BatchEvents)
  BY DEF Corpus, BatchEvents, FirstOf
<1> QED
  BY <1>3, <1>4, <1>5

\* The types of what lies before a cursor; nothing lies before the first batch.
LEMMA BeforeType ==
    ASSUME NEW b \in 1..(Len(Batches) + 1)
    PROVE  Before(b) \in Seq(Positions)
<1>1. /\ BatchEvents \in Seq(Seq(Positions))
      /\ \A i \in 1..Len(Batches) : BatchEvents[i] \in Seq(Positions)
      /\ Len(BatchEvents) = Len(Batches) /\ Len(Batches) \in Nat
  BY BatchEventsType, Constants, ElementOfSeq
<1>2. SubSeq(BatchEvents, 1, b - 1) \in Seq(Seq(Positions))
  <2> DEFINE S == Seq(Positions)
             ss == BatchEvents
  <2>1. /\ b - 1 \in Int /\ ss \in Seq(S)
        /\ \A i \in 1..(b - 1) : ss[i] \in S
    BY <1>1
  <2> HIDE DEF S, ss
  <2>2. SubSeq(ss, 1, b - 1) \in Seq(S)
    BY <2>1, SubSeqProperties
  <2> QED
    BY <2>2 DEF S, ss
<1> QED
  BY <1>2, FlattenType DEF Before

\* The events up to a place in a batch, and how many they are.
LEMMA UptoType ==
    ASSUME NEW b \in 1..Len(Batches), NEW k \in Nat
    PROVE  /\ Upto(b, k) \in Seq(Positions)
           /\ Len(Upto(b, k)) = Len(Before(b)) + k
<1>1. Before(b) \in Seq(Positions)
  BY BeforeType, Constants
<1>2. FirstOf(b, k) \in Seq(Positions) /\ Len(FirstOf(b, k)) = k
  BY EventsType, Constants DEF FirstOf
<1> QED
  BY <1>1, <1>2, ConcatProperties DEF Upto

\* There are none before the first batch.
LEMMA UptoFirst == Upto(1, 0) = <<>>
<1>1. FirstOf(1, 0) = <<>>
  BY DEF FirstOf, Events
<1>2. SubSeq(BatchEvents, 1, 0) = <<>>
  BY SubSeqEmpty
<1>3. Before(1) = <<>>
  BY <1>2 DEF Before, FlattenSeq
<1> QED
  BY <1>1, <1>3 DEF Upto

\* A chunk further into the batch.
LEMMA UptoAdvance ==
    ASSUME NEW b \in 1..Len(Batches), NEW k \in Nat, NEW m \in Nat
    PROVE  Upto(b, k) \o Events([batch |-> b, from |-> k, len |-> m])
             = Upto(b, k + m)
<1> DEFINE e == Events([batch |-> b, from |-> k, len |-> m])
<1>1. Before(b) \in Seq(Positions)
  BY BeforeType, Constants
<1>2. FirstOf(b, k) \in Seq(Positions) /\ e \in Seq(Positions)
  BY EventsType, Constants DEF FirstOf
<1>3. FirstOf(b, k) \o e = FirstOf(b, k + m)
  <2>1. b \in Nat
    BY Constants
  <2> QED
    BY <2>1, EventsJoin
<1> HIDE DEF e
<1>4. (Before(b) \o FirstOf(b, k)) \o e = Before(b) \o (FirstOf(b, k) \o e)
  <2> DEFINE x == Before(b)
             y == FirstOf(b, k)
  <2>1. x \in Seq(Positions) /\ y \in Seq(Positions) /\ e \in Seq(Positions)
    BY <1>1, <1>2
  <2> HIDE DEF x, y
  <2>2. Cat(Cat(x, y), e) = Cat(x, Cat(y, e))
    BY <2>1, CatIn
  <2> QED
    BY <2>2 DEF Cat, x, y
<1> QED
  BY <1>3, <1>4 DEF Upto, e

\* The end of a batch, like the beginning of the next, is all batches to there.
LEMMA UptoWhole ==
    ASSUME NEW b \in 1..Len(Batches)
    PROVE  /\ Upto(b, Batches[b]) = FlattenSeq(SubSeq(BatchEvents, 1, b))
           /\ b < Len(Batches) => Upto(b + 1, 0) = Upto(b, Batches[b])
<1> DEFINE Whole == FlattenSeq(SubSeq(BatchEvents, 1, b))
<1>1. BatchEvents \in Seq(Seq(Positions)) /\ b \in 1..Len(BatchEvents)
  BY BatchEventsType
<1>2. Whole = Before(b) \o BatchEvents[b]
  BY <1>1, FlattenFirst DEF Before
<1>3. Upto(b, Batches[b]) = Whole
  BY <1>2, BatchEventsType DEF Upto
<1>4. ASSUME b < Len(Batches) PROVE Upto(b + 1, 0) = Whole
  <2>1. b + 1 \in 1..(Len(Batches) + 1) /\ (b + 1) - 1 = b
    BY <1>4, Constants
  <2>2. Before(b + 1) \in Seq(Positions) /\ Before(b + 1) = Whole
    BY <2>1, BeforeType DEF Before
  <2>3. FirstOf(b + 1, 0) = <<>>
    BY DEF FirstOf, Events
  <2> HIDE DEF Whole
  <2> QED
    BY <2>2, <2>3, ConcatEmptySeq DEF Upto
<1> QED
  BY <1>3, <1>4

\* What lies before a cursor is a prefix of the corpus, and shorter as long as
\* the batch has events left.
LEMMA UptoPrefix ==
    ASSUME NEW b \in 1..Len(Batches), NEW k \in 0..Batches[b]
    PROVE  \E t \in Seq(Positions) : /\ Corpus = Upto(b, k) \o t
                                     /\ Len(t) >= Batches[b] - k
<1>0. b \in Nat /\ Batches[b] \in Nat /\ k \in Nat /\ Batches[b] - k \in Nat
      /\ Len(Batches) \in Nat
  BY Constants
<1> DEFINE m == Batches[b] - k
           e == Events([batch |-> b, from |-> k, len |-> m])
           N == Len(Batches)
           ss == BatchEvents
<1>1. e \in Seq(Positions) /\ Len(e) = m
  BY <1>0, EventsType
<1>2. Upto(b, k) \o e = Upto(b, Batches[b])
  <2>1. k + m = Batches[b]
    BY <1>0
  <2>2. m \in Nat
    BY <1>0
  <2> HIDE DEF m
  <2>3. Upto(b, k) \o Events([batch |-> b, from |-> k, len |-> m]) = Upto(b, k + m)
    BY <1>0, <2>2, UptoAdvance
  <2> QED
    BY <2>1, <2>3
<1>3. Corpus = FlattenSeq(SubSeq(ss, 1, N))
  <2>1. SubSeq(ss, 1, N) = ss
    BY BatchEventsType, SubSeqFull
  <2> QED
    BY <2>1, BatchEventsType
<1>4. PICK r \in Seq(Positions) : Corpus = Upto(b, Batches[b]) \o r
  <2>1. ss \in Seq(Seq(Positions)) /\ b \in 0..Len(ss) /\ N \in b..Len(ss)
    BY <1>0, BatchEventsType
  <2> HIDE DEF ss, N
  <2>2. \E t \in Seq(Positions) :
          FlattenSeq(SubSeq(ss, 1, N)) = FlattenSeq(SubSeq(ss, 1, b)) \o t
    BY <2>1, FlattenPrefix
  <2> QED
    BY <1>3, <2>2, UptoWhole DEF ss
<1>5. Upto(b, k) \in Seq(Positions)
  BY <1>0, UptoType
<1> HIDE DEF e, m
<1>6. (Upto(b, k) \o e) \o r = Upto(b, k) \o (e \o r)
  <2> DEFINE x == Upto(b, k)
  <2>1. x \in Seq(Positions) /\ e \in Seq(Positions)
    BY <1>1, <1>5
  <2> HIDE DEF x
  <2>2. Cat(Cat(x, e), r) = Cat(x, Cat(e, r))
    BY <2>1, CatIn
  <2> QED
    BY <2>2 DEF Cat, x
<1>7. e \o r \in Seq(Positions) /\ Len(e \o r) >= m
  BY <1>1, ConcatProperties, LenProperties
<1> QED
  BY <1>2, <1>4, <1>6, <1>7 DEF m

\* The cursor reaches the end of the last batch with the whole corpus.
LEMMA UptoEnd == Upto(Len(Batches), Batches[Len(Batches)]) = Corpus
<1>1. Len(Batches) \in 1..Len(Batches)
  BY Constants
<1>2. SubSeq(BatchEvents, 1, Len(Batches)) = BatchEvents
  BY BatchEventsType, SubSeqFull
<1> QED
  BY <1>1, <1>2, UptoWhole, BatchEventsType

\* The parts that were sent are sequences of positions.
LEMMA PartsType ==
    ASSUME NEW l \in Seq(Chunks)
    PROVE  Parts(l) \in Seq(Seq(Positions)) /\ Len(Parts(l)) = Len(l)
<1>1. DOMAIN l = 1..Len(l) /\ Len(l) \in Nat
  OBVIOUS
<1>2. ASSUME NEW k \in 1..Len(l) PROVE Events(l[k]) \in Seq(Positions)
  <2>1. l[k] \in Chunks
    OBVIOUS
  <2>2. PICK b \in 1..Len(Batches), f \in Nat, m \in Nat :
             l[k] = [batch |-> b, from |-> f, len |-> m]
    BY <2>1 DEF Chunks
  <2>3. b \in Nat
    BY Constants
  <2> QED
    BY <2>2, <2>3, EventsType
<1> QED
  BY <1>1, <1>2 DEF Parts

\* A chunk acknowledged is a chunk delivered.
LEMMA DeliveredAppend ==
    ASSUME NEW l \in Seq(Chunks), NEW c \in Chunks
    PROVE  FlattenSeq(Parts(Append(l, c))) = FlattenSeq(Parts(l)) \o Events(c)
<1>1. Events(c) \in Seq(Positions)
  <2>1. PICK b \in 1..Len(Batches), f \in Nat, m \in Nat :
             c = [batch |-> b, from |-> f, len |-> m]
    BY DEF Chunks
  <2>2. b \in Nat
    BY Constants
  <2> QED
    BY <2>1, <2>2, EventsType
<1>2. Parts(Append(l, c)) = Append(Parts(l), Events(c))
  <2> DEFINE m == Append(l, c)
             s == Parts(m)
             t == Append(Parts(l), Events(c))
  <2>1. /\ m \in Seq(Chunks) /\ Len(m) = Len(l) + 1
        /\ \A k \in 1..Len(l) : m[k] = l[k]
        /\ m[Len(l) + 1] = c
    OBVIOUS
  <2>2. s \in Seq(Seq(Positions)) /\ Len(s) = Len(l) + 1
    BY <2>1, PartsType
  <2>3. /\ t \in Seq(Seq(Positions)) /\ Len(t) = Len(l) + 1
        /\ \A k \in 1..Len(l) : t[k] = Parts(l)[k]
        /\ t[Len(l) + 1] = Events(c)
    BY <1>1, PartsType, AppendProperties
  <2>4. /\ \A k \in 1..(Len(l) + 1) : s[k] = Events(m[k])
        /\ \A k \in 1..Len(l) : Parts(l)[k] = Events(l[k])
    BY <2>1 DEF Parts
  <2> HIDE DEF m, s, t
  <2>5. \A k \in 1..(Len(l) + 1) : s[k] = t[k]
    <3>1. ASSUME NEW k \in 1..(Len(l) + 1) PROVE s[k] = t[k]
      <4>1. Len(l) \in Nat
        OBVIOUS
      <4>2. CASE k = Len(l) + 1
        BY <2>1, <2>3, <2>4, <4>2
      <4>3. CASE k \in 1..Len(l)
        BY <2>1, <2>3, <2>4, <4>3
      <4> QED
        BY <4>1, <4>2, <4>3
    <3> QED
      BY <3>1
  <2>6. s = t
    BY <2>2, <2>3, <2>5, SeqEqual
  <2> QED
    BY <2>6 DEF m, s, t
<1> QED
  BY <1>1, <1>2, PartsType, FlattenAppend

(***************************************************************************)
(* The chunks acknowledged are the corpus up to the cursor                 *)
(***************************************************************************)
\* A chunk is not empty, whatever the limit; what was acknowledged ends where
\* the next chunk begins; SendBatches counts it and returns nil at the end.
DeliveryAt(a) ==
    /\ pc[a] \in {"write", "send"} => n[a] \in 1..Rest(a)
    /\ Delivered(a) = Upto(batch[a], off[a])
    /\ pc[a] = "loop" => Looping
    /\ ~Looping => sent[a] = Len(Delivered(a))
    /\ ~Looping /\ pc[a] = "idle" /\ ret[a] = "nil" => AtEnd(a)

DeliveryInv == \A a \in Agents : DeliveryAt(a)

\* What is delivered are the parts, one after the other.
LEMMA DeliveredParts ==
    ASSUME NEW a \in Agents
    PROVE  Delivered(a) = FlattenSeq(Parts(log[a]))
  BY DEF Delivered, Parts

\* Where the cursor of an agent is in the corpus.
LEMMA CursorRange ==
    ASSUME TypeOK, NEW a \in Agents
    PROVE  /\ batch[a] \in 1..Len(Batches)
           /\ off[a] \in 0..Batches[batch[a]]
           /\ Batches[batch[a]] \in Nat
           /\ Rest(a) \in Nat
  BY Constants DEF TypeOK, CursorType, Rest

\* As long as the cursor and the log stay, so does what was delivered.
LEMMA DeliveryKept ==
    ASSUME NEW a \in Agents, DeliveryAt(a),
           UNCHANGED <<batch[a], off[a], log[a]>>
    PROVE  /\ Delivered(a)' = Delivered(a)
           /\ Delivered(a)' = Upto(batch[a], off[a])'
           /\ Rest(a)' = Rest(a)
           /\ AtEnd(a)' = AtEnd(a)
  BY DEF DeliveryAt, Delivered, Rest, AtEnd

\* A pass starts with nothing delivered.
LEMMA StartDelivery ==
    ASSUME TypeOK, NEW a \in Agents, StartPass(a)
    PROVE  /\ Delivered(a)' = <<>>
           /\ Delivered(a)' = Upto(batch[a], off[a])'
           /\ pc'[a] = "pass"
<1>1. batch'[a] = 1 /\ off'[a] = 0 /\ log'[a] = <<>> /\ pc'[a] = "pass"
  BY DEF StartPass, TypeOK, CursorType, HistoryType, ControlType
<1>2. Delivered(a)' = <<>>
  BY <1>1 DEF Delivered, FlattenSeq
<1> QED
  BY <1>1, <1>2, UptoFirst

\* What a chunk adds to the log it adds to the cursor and to sent.
LEMMA AcknowledgeLength ==
    ASSUME TypeOK, NEW a \in Agents, DeliveryAt(a), Acknowledge(a),
           UNCHANGED batch
    PROVE  /\ Delivered(a)' = Upto(batch[a], off[a])'
           /\ Len(Delivered(a)') = Len(Delivered(a)) + n[a]
<1>1. /\ pc'[a] = "pass" /\ sent'[a] = sent[a] + n[a]
      /\ off'[a] = off[a] + n[a] /\ log'[a] = Append(log[a], Chunk(a))
      /\ batch'[a] = batch[a]
  BY DEF Acknowledge, TypeOK, CursorType, HistoryType, ControlType
<1>2. /\ log[a] \in Seq(Chunks) /\ Chunk(a) \in Chunks
      /\ sent[a] \in Nat /\ n[a] \in Nat /\ off[a] \in Nat
      /\ batch[a] \in 1..Len(Batches)
  BY DEF TypeOK, CursorType, HistoryType, Chunk, Chunks
<1>3. Delivered(a)' = Delivered(a) \o Events(Chunk(a))
  <2>1. Delivered(a)' = FlattenSeq(Parts(log'[a]))
    BY DEF Delivered, Parts
  <2> QED
    BY <1>1, <1>2, <2>1, DeliveredAppend, DeliveredParts
<1>4. Delivered(a) = Upto(batch[a], off[a])
  BY DEF DeliveryAt
<1>5. Delivered(a)' = Upto(batch[a], off[a] + n[a])
  BY <1>2, <1>3, <1>4, UptoAdvance DEF Chunk
<1>6. Len(Delivered(a)') = Len(Delivered(a)) + n[a]
  <2>1. Len(Upto(batch[a], off[a] + n[a])) = Len(Upto(batch[a], off[a])) + n[a]
    <3>1. Before(batch[a]) \in Seq(Positions)
      BY <1>2, BeforeType, Constants
    <3>2. Len(Before(batch[a])) \in Nat
      BY <3>1, LenProperties
    <3>3. off[a] + n[a] \in Nat
      BY <1>2
    <3>4. /\ Len(Upto(batch[a], off[a])) = Len(Before(batch[a])) + off[a]
          /\ Len(Upto(batch[a], off[a] + n[a]))
               = Len(Before(batch[a])) + (off[a] + n[a])
      BY <1>2, <3>3, UptoType
    <3> QED
      BY <1>2, <3>2, <3>4
  <2> QED
    BY <1>4, <1>5, <2>1
<1> QED
  BY <1>1, <1>5, <1>6

\* A chunk that is acknowledged moves the cursor past what was delivered.
LEMMA AcknowledgeDelivery ==
    ASSUME TypeOK, NEW a \in Agents, DeliveryAt(a), Acknowledge(a),
           UNCHANGED batch
    PROVE  DeliveryAt(a)'
<1>1. pc'[a] = "pass" /\ sent'[a] = sent[a] + n[a]
  BY DEF Acknowledge, TypeOK, CursorType, ControlType
<1> QED
  BY <1>1, AcknowledgeLength DEF DeliveryAt

\* Giving up leaves the log and the cursor, and returns no nil.
LEMMA FailedDelivery ==
    ASSUME TypeOK, NEW a \in Agents, DeliveryAt(a), PassFailed(a),
           UNCHANGED <<sent[a], batch[a], off[a], log[a]>>
    PROVE  DeliveryAt(a)'
<1>1. /\ pc'[a] \in {"loop", "idle"} /\ (pc'[a] = "loop" => Looping)
      /\ Looping \/ ret'[a] = "failed"
  BY DEF PassFailed, Return, TypeOK, ControlType
<1> QED
  BY <1>1, DeliveryKept DEF DeliveryAt

\* A step of the agent itself.
LEMMA OwnDelivery ==
    ASSUME IInv, NEW x \in Agents, DeliveryAt(x), Call(x) \/ Step(x)
    PROVE  DeliveryAt(x)'
<1>0. TypeOK /\ ChunkAt(x)
  BY DEF IInv, ChunkInv
<1> USE <1>0 DEF TypeOK, ControlType, CursorType, HistoryType
<1>1. CASE Call(x)
  <2>1. sent'[x] = 0 /\ pc'[x] # "idle" /\ pc'[x] \notin {"write", "send"}
    BY <1>1 DEF Call, StartPass
  <2>2. CASE Looping
    BY <1>1, <2>1, <2>2, DeliveryKept, ModeAssumption DEF Call, DeliveryAt
  <2>3. CASE ~Looping
    BY <1>1, <2>1, <2>3, StartDelivery, EmptySeq DEF Call, DeliveryAt
  <2> QED
    BY <2>2, <2>3
<1>2. CASE Poll(x)
  <2>1. CASE StartPass(x)
    BY <1>2, <2>1, StartDelivery DEF Poll, DeliveryAt
  <2>2. CASE Return(x, "cancelled") /\ UNCHANGED <<batch, off, log>>
    <3>1. pc'[x] = "idle" /\ ret'[x] = "cancelled"
      BY <2>2 DEF Return
    <3> QED
      BY <1>2, <2>2, <3>1, DeliveryKept DEF Poll, DeliveryAt
  <2> QED
    BY <1>2, <2>1, <2>2 DEF Poll
<1>3. CASE PassDone(x)
  <2>1. /\ pc'[x] = (IF Looping THEN "loop" ELSE "idle") /\ AtEnd(x)
        /\ UNCHANGED <<batch[x], off[x], log[x]>>
        /\ ~Looping => sent'[x] = sent[x]
    BY <1>3 DEF PassDone, Return
  <2> QED
    BY <2>1, DeliveryKept DEF DeliveryAt
<1>4. CASE NextBatch(x)
  <2>1. /\ pc[x] = "pass" /\ pc'[x] = "pass" /\ sent'[x] = sent[x]
        /\ batch'[x] = batch[x] + 1 /\ off'[x] = 0 /\ log'[x] = log[x]
        /\ off[x] = Batches[batch[x]] /\ batch[x] < Len(Batches)
    BY <1>4, CursorRange DEF NextBatch, Rest
  <2>2. Upto(batch[x], off[x])' = Upto(batch[x], off[x])
    BY <2>1, CursorRange, UptoWhole
  <2>3. Delivered(x)' = Delivered(x)
    BY <2>1 DEF Delivered
  <2> QED
    BY <2>1, <2>2, <2>3 DEF DeliveryAt
<1>5. CASE CutChunk(x) \/ BurstGranted(x)
  <2>1. /\ Rest(x) > 0
        /\ pc'[x] = "write" /\ n'[x] = ChunkLen(x)
        /\ UNCHANGED <<sent, batch, off, log>>
    BY <1>5 DEF CutChunk, BurstGranted, BeginChunk, ChunkAt
  <2>2. ChunkLen(x) \in 1..Rest(x)
    BY <2>1, ChunkLenRange
  <2> QED
    BY <2>1, <2>2, DeliveryKept DEF DeliveryAt
<1>6. CASE WaitForBurst(x)
  <2>1. CASE PassFailed(x)
    BY <1>6, <2>1, FailedDelivery DEF WaitForBurst, state
  <2>2. CASE pc' = [pc EXCEPT ![x] = "wait"]
    <3>1. pc'[x] = "wait" /\ UNCHANGED <<sent, batch, off, log>>
      BY <1>6, <2>2 DEF WaitForBurst, state
    <3> QED
      BY <3>1, DeliveryKept DEF DeliveryAt
  <2> QED
    BY <1>6, <2>1, <2>2 DEF WaitForBurst
<1>7. CASE WaitCancelled(x)
  BY <1>7, FailedDelivery DEF WaitCancelled, state
<1>8. CASE SendEvents(x)
  BY <1>8, DeliveryKept DEF SendEvents, state, DeliveryAt
<1>9. ASSUME NEW class \in {2, 3, 4, 5}, Respond(x, class)
      PROVE  DeliveryAt(x)'
  BY <1>9, FailedDelivery, AcknowledgeDelivery DEF Respond
<1>10. CASE ConnectionFails(x)
  BY <1>10, FailedDelivery DEF ConnectionFails
<1> QED
  BY <1>1, <1>2, <1>3, <1>4, <1>5, <1>6, <1>7, <1>8, <1>9, <1>10 DEF Step

\* Nothing is delivered at first.
LEMMA DeliveryInit == Init => DeliveryInv
<1> SUFFICES ASSUME Init, NEW a \in Agents PROVE DeliveryAt(a)
  BY DEF DeliveryInv
<1>1. Delivered(a) = <<>>
  BY DEF Init, Delivered, FlattenSeq
<1> QED
  BY <1>1, UptoFirst, EmptySeq DEF Init, DeliveryAt

\* Every step keeps the deliveries as DeliveryInv says.
LEMMA DeliveryStep ==
    ASSUME IInv, DeliveryInv, [Next]_vars
    PROVE  DeliveryInv'
<1> SUFFICES ASSUME NEW x \in Agents PROVE DeliveryAt(x)'
  BY DEF DeliveryInv
<1>0. TypeOK /\ DeliveryAt(x)
  BY DEF IInv, DeliveryInv
<1>1. ASSUME UNCHANGED Local(x) PROVE DeliveryAt(x)'
  BY <1>0, <1>1, DeliveryKept DEF Local, DeliveryAt
<1>2. ASSUME NEW a \in Agents, Call(a) \/ Step(a) PROVE DeliveryAt(x)'
  <2>1. CASE a = x
    BY <1>0, <1>2, <2>1, OwnDelivery
  <2>2. CASE a # x
    BY <1>0, <1>1, <1>2, <2>2, Locality
  <2> QED
    BY <2>1, <2>2
<1>3. CASE Refill \/ Cancel \/ UNCHANGED vars
  <2>1. UNCHANGED Local(x)
    BY <1>3 DEF Refill, Cancel, vars, state, Local
  <2> QED
    BY <1>1, <2>1
<1>4. ASSUME NEW b \in Buffers, BodyTransmitted(b) PROVE DeliveryAt(x)'
  <2>1. UNCHANGED Local(x)
    BY <1>4 DEF BodyTransmitted, state, Local
  <2> QED
    BY <1>1, <2>1
<1> QED
  BY <1>2, <1>3, <1>4 DEF Next

\* In every reachable state an agent has delivered the corpus to its cursor.
THEOREM DeliveryInvariance == Spec => [](IInv /\ DeliveryInv)
<1>1. IInv /\ DeliveryInv /\ [Next]_vars => DeliveryInv'
  BY DeliveryStep
<1> QED
  BY <1>1, DeliveryInit, InitInv, StepInv, PTL DEF Spec

\* What was delivered, and what is left of the corpus.
LEMMA DeliveredPrefix ==
    ASSUME TypeOK, NEW a \in Agents, DeliveryAt(a)
    PROVE  \E t \in Seq(Positions) : /\ Corpus = Delivered(a) \o t
                                     /\ Len(t) >= Rest(a)
                                     /\ Delivered(a) \in Seq(Positions)
<1> DEFINE b == batch[a]
           k == off[a]
<1>1. b \in 1..Len(Batches) /\ k \in 0..Batches[b] /\ k \in Nat
  BY CursorRange
<1>2. Delivered(a) = Upto(b, k) /\ Rest(a) = Batches[b] - k
  BY DEF DeliveryAt, Rest
<1> HIDE DEF b, k
<1>3. PICK t \in Seq(Positions) : /\ Corpus = Upto(b, k) \o t
                                  /\ Len(t) >= Batches[b] - k
  BY <1>1, UptoPrefix
<1> QED
  BY <1>1, <1>2, <1>3, UptoType

\* At the end of the last batch the corpus is delivered.
LEMMA DeliveredAll ==
    ASSUME TypeOK, NEW a \in Agents, DeliveryAt(a), AtEnd(a)
    PROVE  Delivered(a) = Corpus
<1>1. batch[a] = Len(Batches) /\ off[a] = Batches[batch[a]]
  BY CursorRange DEF AtEnd, Rest
<1> QED
  BY <1>1, UptoEnd DEF DeliveryAt

\* sendBatches and sendBatch deliver the events of the corpus once each and in
\* order, however batches and bursts cut them into chunks and whatever fails.
THEOREM DeliversInOrder == Spec => []InOrder
<1>1. ASSUME IInv, DeliveryInv, NEW a \in Agents
      PROVE  IsPrefix(Delivered(a), Corpus)
  <2>1. PICK t \in Seq(Positions) : /\ Corpus = Delivered(a) \o t
                                    /\ Delivered(a) \in Seq(Positions)
    BY <1>1, DeliveredPrefix DEF IInv, DeliveryInv
  <2> QED
    BY <2>1, ConcatPrefix
<1>2. IInv /\ DeliveryInv => InOrder
  BY <1>1 DEF InOrder
<1> QED
  BY <1>2, DeliveryInvariance, PTL

\* SendBatches returns nil for the whole corpus only, and the number of events
\* delivered with an error as without one.
THEOREM CountsDelivered == Spec => []ReturnsDelivered
<1>1. IInv /\ DeliveryInv => ReturnsDelivered
  BY DeliveredAll DEF IInv, DeliveryInv, DeliveryAt, ReturnsDelivered
<1> QED
  BY <1>1, DeliveryInvariance, PTL

(***************************************************************************)
(* The buffers                                                             *)
(***************************************************************************)
\* Agents hold different buffers, and write to none that is transmitted.
BufferInv ==
    /\ \A a, x \in Agents : a # x /\ buf[a] = buf[x] => buf[a] = NoBuffer
    /\ \A a \in Agents : pc[a] = "write" => buf[a] \notin reading

\* A buffer is written to only from newEventWriter to Close: a step that
\* neither takes a buffer, nor sends one, nor returns one changes nothing.
LEMMA BufferKept ==
    ASSUME TypeOK, BufferInv, UNCHANGED buf, reading' \subseteq reading,
           \A a \in Agents : pc'[a] = "write" => pc[a] = "write"
    PROVE  BufferInv'
  BY DEF BufferInv

\* The buffer of a new eventWriter is no agent's and no request body.
LEMMA BufferTaken ==
    ASSUME TypeOK, BufferInv, NEW a \in Agents, BeginChunk(a),
           UNCHANGED reading
    PROVE  BufferInv'
<1>1. PICK b \in Buffers \ (reading \cup {buf[x] : x \in Agents}) :
         buf' = [buf EXCEPT ![a] = b]
  BY DEF BeginChunk, NewEventWriter
<1>2. /\ buf'[a] = b /\ \A x \in Agents \ {a} : buf'[x] = buf[x] /\ pc'[x] = pc[x]
      /\ b \notin reading /\ \A x \in Agents : buf[x] # b
  BY <1>1 DEF TypeOK, BufferType, ControlType, BeginChunk
<1> QED
  BY <1>2 DEF BufferInv

\* A buffer that is given back is nobody's.
LEMMA BufferReleased ==
    ASSUME TypeOK, BufferInv, NEW a \in Agents, Release(a),
           UNCHANGED reading,
           \A x \in Agents : pc'[x] = "write" => pc[x] = "write" /\ x # a
    PROVE  BufferInv'
<1>1. buf'[a] = NoBuffer /\ \A x \in Agents \ {a} : buf'[x] = buf[x]
  BY DEF Release, TypeOK, BufferType
<1> QED
  BY <1>1 DEF BufferInv

\* Every step keeps the buffers apart.
LEMMA BufferStep ==
    ASSUME TypeOK, BufferInv, [Next]_vars
    PROVE  BufferInv'
<1> USE DEF TypeOK, ControlType, BufferType
<1>1. ASSUME NEW a \in Agents, PassFailed(a) \/ StartPass(a) \/ Acknowledge(a)
      PROVE  \A x \in Agents : pc'[x] = "write" => pc[x] = "write" /\ x # a
  BY <1>1 DEF PassFailed, StartPass, Return, Acknowledge
<1>2. ASSUME NEW a \in Agents, Call(a) \/ Poll(a) PROVE BufferInv'
  BY <1>1, <1>2, BufferKept DEF Call, Poll, Return, network
<1>3. ASSUME NEW a \in Agents, PassDone(a) \/ NextBatch(a) PROVE BufferInv'
  BY <1>3, BufferKept DEF PassDone, NextBatch, Return, network
<1>4. ASSUME NEW a \in Agents, CutChunk(a) \/ BurstGranted(a)
      PROVE  BufferInv'
  BY <1>4, BufferTaken DEF CutChunk, BurstGranted
<1>5. ASSUME NEW a \in Agents, WaitForBurst(a) \/ WaitCancelled(a)
      PROVE  BufferInv'
  BY <1>1, <1>5, BufferKept DEF WaitForBurst, WaitCancelled, network
<1>6. ASSUME NEW a \in Agents, SendEvents(a) PROVE BufferInv'
  <2>1. /\ pc[a] = "write" /\ pc'[a] = "send" /\ buf' = buf
        /\ reading' = reading \cup {buf[a]}
        /\ \A x \in Agents \ {a} : pc'[x] = pc[x]
    BY <1>6 DEF SendEvents
  <2>2. buf[a] \in Buffers
    BY <2>1
  <2>3. ASSUME NEW x \in Agents, pc'[x] = "write" PROVE buf[x] \notin reading'
    <3>1. x # a /\ pc[x] = "write"
      BY <2>1, <2>3
    <3>2. buf[x] # buf[a] /\ buf[x] \notin reading
      BY <2>2, <3>1, BufferAssumption DEF BufferInv
    <3> QED
      BY <2>1, <3>2
  <2> QED
    BY <2>1, <2>3 DEF BufferInv
<1>7. ASSUME NEW a \in Agents, NEW class \in {2, 3, 4, 5}, Respond(a, class)
      PROVE  BufferInv'
  BY <1>1, <1>7, BufferReleased DEF Respond
<1>8. ASSUME NEW a \in Agents, ConnectionFails(a) PROVE BufferInv'
  BY <1>1, <1>8, BufferReleased DEF ConnectionFails
<1>9. CASE Refill \/ Cancel \/ UNCHANGED vars
  BY <1>9, BufferKept DEF Refill, Cancel, vars, network
<1>10. ASSUME NEW b \in Buffers, BodyTransmitted(b) PROVE BufferInv'
  BY <1>10, BufferKept DEF BodyTransmitted
<1> QED
  BY <1>2, <1>3, <1>4, <1>5, <1>6, <1>7, <1>8, <1>9, <1>10 DEF Next, Step

\* newEventWriter hands every call of sendBatch a buffer of its own: never one
\* net/http may still read from, and never one another agent writes to.
THEOREM BuffersApart == Spec => []NoSharedBuffer
<1>1. Init => BufferInv
  BY DEF Init, BufferInv
<1>2. TypeOK /\ BufferInv /\ [Next]_vars => BufferInv'
  BY BufferStep
<1>3. TypeOK /\ BufferInv => NoSharedBuffer
  <2> SUFFICES ASSUME TypeOK, BufferInv, NEW a \in Agents, pc[a] = "write"
               PROVE  buf[a] \notin reading \cup {buf[x] : x \in Agents \ {a}}
    BY DEF NoSharedBuffer
  <2>1. buf[a] \in Buffers
    BY DEF TypeOK, BufferType
  <2> QED
    BY <2>1, BufferAssumption DEF BufferInv
<1> QED
  BY <1>1, <1>2, <1>3, TypeCorrect, PTL DEF Spec

(***************************************************************************)
(* The handler is a paced replay                                           *)
(***************************************************************************)
\* The total is a number, never exceeded, and reached only at the end.
LEMMA TotalRange ==
    ASSUME TypeOK, NEW a \in Agents, DeliveryAt(a)
    PROVE  /\ Len(Corpus) \in Nat
           /\ Len(Delivered(a)) \in Nat
           /\ Len(Delivered(a)) + Rest(a) <= Len(Corpus)
           /\ Rest(a) > 0 => Len(Delivered(a)) < Len(Corpus)
<1>1. PICK t \in Seq(Positions) : /\ Corpus = Delivered(a) \o t
                                  /\ Len(t) >= Rest(a)
                                  /\ Delivered(a) \in Seq(Positions)
  BY DeliveredPrefix
<1>2. Rest(a) \in Nat
  BY CursorRange
<1>3. /\ Len(Corpus) = Len(Delivered(a)) + Len(t)
      /\ Len(Delivered(a)) \in Nat /\ Len(t) \in Nat
  BY <1>1, ConcatProperties, LenProperties
<1> QED
  BY <1>1, <1>2, <1>3

\* The state functions of the refinement mapping.
PhaseOf(a) == CASE pc[a] = "idle" -> "off"
                [] pc[a] = "loop" -> "ready"
                [] OTHER -> "replaying"
Phase == [a \in Agents |-> PhaseOf(a)]
Progress == [a \in Agents |-> Len(Delivered(a))]

\* A step of an agent moves the mapped state of that agent only.
LEMMA OwnMapping ==
    ASSUME IInv, IInv', NEW a \in Agents, Call(a) \/ Step(a)
    PROVE  /\ Phase' = [Phase EXCEPT ![a] = PhaseOf(a)']
           /\ Progress' = [Progress EXCEPT ![a] = Len(Delivered(a))']
           /\ credit' = [credit EXCEPT ![a] = credit'[a]]
           /\ ctxDone' = ctxDone
<1>0. TypeOK /\ TypeOK'
  BY DEF IInv
<1>1. ASSUME NEW x \in Agents, x # a
      PROVE  /\ pc'[x] = pc[x] /\ credit'[x] = credit[x]
             /\ Delivered(x)' = Delivered(x)
  BY <1>0, <1>1, Locality DEF Local, Delivered
<1>2. Phase' = [Phase EXCEPT ![a] = PhaseOf(a)']
  BY <1>1 DEF Phase, PhaseOf
<1>3. Progress' = [Progress EXCEPT ![a] = Len(Delivered(a))']
  BY <1>1 DEF Progress
<1>4. credit' = [credit EXCEPT ![a] = credit'[a]]
  BY <1>0, <1>1 DEF TypeOK, HistoryType
<1>5. ctxDone' = ctxDone
  BY DEF Call, Step, Poll, PassDone, NextBatch, CutChunk, WaitForBurst,
     BurstGranted, WaitCancelled, SendEvents, Respond, ConnectionFails
<1> QED
  BY <1>2, <1>3, <1>4, <1>5

\* The actions of PacedReplay, on the mapped state of one agent.
LEMMA MappedGiveUp ==
    ASSUME NEW a \in Agents, PhaseOf(a) = "replaying",
           Phase' = [Phase EXCEPT ![a] =
                       IF Looping /\ RunForever THEN "ready" ELSE "off"],
           credit' = credit, Progress' = Progress, ctxDone' = ctxDone
    PROVE  Paced!GiveUp(a)
  BY DEF Paced!GiveUp, Phase, PhaseOf, Progress

\* A chunk is delivered.
LEMMA MappedDeliver ==
    ASSUME NEW a \in Agents, NEW k, PhaseOf(a) = "replaying",
           Len(Delivered(a)) + k <= Len(Corpus),
           Burst > 0 => k <= credit[a],
           Progress' = [Progress EXCEPT ![a] = @ + k],
           credit' = [credit EXCEPT ![a] = IF Burst > 0 THEN @ - k ELSE 0],
           Phase' = Phase, ctxDone' = ctxDone
    PROVE  Paced!Deliver(a, k)
  BY DEF Paced!Deliver, Phase, PhaseOf, Progress

\* A burst is paid for.
LEMMA MappedPay ==
    ASSUME NEW a \in Agents, PhaseOf(a) = "replaying", Burst > 0,
           \/ credit[a] = 0
           \/ credit[a] = Burst /\ Len(Delivered(a)) = 0,
           Len(Delivered(a)) < Len(Corpus),
           credit' = [credit EXCEPT ![a] = Burst],
           Phase' = Phase, Progress' = Progress, ctxDone' = ctxDone
    PROVE  Paced!Pay(a)
  BY DEF Paced!Pay, Phase, PhaseOf, Progress

\* Nothing that is shown changes.
LEMMA MappedStutter ==
    ASSUME Phase' = Phase, Progress' = Progress, credit' = credit,
           ctxDone' = ctxDone
    PROVE  UNCHANGED Paced!vars
  BY DEF Paced!vars, Phase, PhaseOf, Progress

\* A replay starts.
LEMMA MappedStart ==
    ASSUME NEW a \in Agents, PhaseOf(a) = "off",
           Phase' = [Phase EXCEPT ![a] =
                       IF Looping THEN "ready" ELSE "replaying"],
           Progress' = IF Looping THEN Progress ELSE [Progress EXCEPT ![a] = 0],
           credit' = [credit EXCEPT ![a] = 0], ctxDone' = ctxDone
    PROVE  Paced!Start(a)
  BY DEF Paced!Start, Phase, PhaseOf, Progress

\* A pass begins.
LEMMA MappedBegin ==
    ASSUME NEW a \in Agents, PhaseOf(a) = "ready", ~ctxDone,
           Phase' = [Phase EXCEPT ![a] = "replaying"],
           Progress' = [Progress EXCEPT ![a] = 0],
           credit' = credit, ctxDone' = ctxDone
    PROVE  Paced!Begin(a)
  BY DEF Paced!Begin, Phase, PhaseOf, Progress

\* A pass ends.
LEMMA MappedFinish ==
    ASSUME NEW a \in Agents, PhaseOf(a) = "replaying",
           Len(Delivered(a)) = Len(Corpus),
           Phase' = [Phase EXCEPT ![a] = IF Looping THEN "ready" ELSE "off"],
           Progress' = Progress, credit' = credit, ctxDone' = ctxDone
    PROVE  Paced!Finish(a)
  BY DEF Paced!Finish, Phase, PhaseOf, Progress

\* A replay is stopped.
LEMMA MappedStop ==
    ASSUME NEW a \in Agents, PhaseOf(a) = "ready", ctxDone,
           Phase' = [Phase EXCEPT ![a] = "off"],
           Progress' = Progress, credit' = credit, ctxDone' = ctxDone
    PROVE  Paced!Stop(a)
  BY DEF Paced!Stop, Phase, PhaseOf, Progress

\* What a step leaves alone of an agent's mapped state.
LEMMA PhaseStays ==
    ASSUME NEW a \in Agents, PhaseOf(a)' = PhaseOf(a),
           Phase' = [Phase EXCEPT ![a] = PhaseOf(a)']
    PROVE  Phase' = Phase
  BY DEF Phase

\* What was delivered, if it stays the same.
LEMMA ProgressStays ==
    ASSUME NEW a \in Agents, Delivered(a)' = Delivered(a),
           Progress' = [Progress EXCEPT ![a] = Len(Delivered(a))']
    PROVE  Progress' = Progress
  BY DEF Progress

\* The credit, if it stays the same.
LEMMA CreditStays ==
    ASSUME TypeOK, NEW a \in Agents, credit'[a] = credit[a],
           credit' = [credit EXCEPT ![a] = credit'[a]]
    PROVE  credit' = credit
  BY DEF TypeOK, HistoryType

\* A pass is given up: wait, response or connection.
LEMMA FailedMaps ==
    ASSUME IInv, NEW a \in Agents, PassFailed(a), PhaseOf(a) = "replaying",
           UNCHANGED <<log[a], credit, ctxDone>>,
           Phase' = [Phase EXCEPT ![a] = PhaseOf(a)'],
           Progress' = [Progress EXCEPT ![a] = Len(Delivered(a))']
    PROVE  Paced!GiveUp(a)
<1>1. pc'[a] = IF Looping /\ RunForever THEN "loop" ELSE "idle"
  BY DEF PassFailed, Return, IInv, TypeOK, ControlType
<1>2. PhaseOf(a)' = IF Looping /\ RunForever THEN "ready" ELSE "off"
  BY <1>1 DEF PhaseOf
<1>3. Progress' = Progress
  BY ProgressStays DEF Delivered
<1> QED
  BY <1>2, <1>3, MappedGiveUp

\* Every step of an agent is a step of the paced replay, or changes nothing
\* that it shows.
LEMMA OwnMaps ==
    ASSUME IInv, IInv', DeliveryInv, DeliveryInv',
           NEW a \in Agents, Call(a) \/ Step(a)
    PROVE  \/ Paced!Start(a) \/ Paced!Begin(a) \/ Paced!Pay(a)
           \/ Paced!Finish(a) \/ Paced!GiveUp(a) \/ Paced!Stop(a)
           \/ \E k \in 1..Len(Corpus) : Paced!Deliver(a, k)
           \/ UNCHANGED Paced!vars
<1>0. /\ TypeOK /\ ChunkAt(a) /\ CreditAt(a) /\ DeliveryAt(a)
      /\ TypeOK' /\ DeliveryAt(a)'
  BY DEF IInv, ChunkInv, CreditInv, DeliveryInv
<1>m. /\ Phase' = [Phase EXCEPT ![a] = PhaseOf(a)']
      /\ Progress' = [Progress EXCEPT ![a] = Len(Delivered(a))']
      /\ credit' = [credit EXCEPT ![a] = credit'[a]]
      /\ ctxDone' = ctxDone
  BY OwnMapping
<1>t. /\ Len(Corpus) \in Nat /\ Len(Delivered(a)) \in Nat
      /\ Len(Delivered(a)) + Rest(a) <= Len(Corpus)
      /\ Rest(a) > 0 => Len(Delivered(a)) < Len(Corpus)
  BY <1>0, TotalRange
<1>s. ASSUME PhaseOf(a)' = PhaseOf(a), Delivered(a)' = Delivered(a),
             credit'[a] = credit[a]
      PROVE  UNCHANGED Paced!vars
  BY <1>0, <1>m, <1>s, PhaseStays, ProgressStays, CreditStays, MappedStutter
<1> USE DEF TypeOK, ControlType, CursorType, HistoryType
<1>1. CASE Call(a)
  <2>1. /\ pc[a] = "idle" /\ credit' = [credit EXCEPT ![a] = 0]
        /\ pc'[a] = IF Looping THEN "loop" ELSE "pass"
        /\ IF Looping THEN log' = log ELSE StartPass(a)
    BY <1>0, <1>1, ModeAssumption DEF Call, StartPass
  <2>2. PhaseOf(a) = "off" /\ PhaseOf(a)' = IF Looping THEN "ready" ELSE "replaying"
    BY <2>1 DEF PhaseOf
  <2>3. Progress' = IF Looping THEN Progress ELSE [Progress EXCEPT ![a] = 0]
    <3>1. CASE Looping
      BY <1>m, <2>1, <3>1, ProgressStays DEF Delivered
    <3>2. CASE ~Looping
      BY <1>0, <1>m, <2>1, <3>2, StartDelivery, EmptySeq
    <3> QED
      BY <3>1, <3>2
  <2>4. Paced!Start(a)
    BY <1>m, <2>1, <2>2, <2>3, MappedStart
  <2> QED
    BY <2>4
<1>2. CASE Poll(a)
  <2>0. PhaseOf(a) = "ready" /\ credit' = credit
    BY <1>2 DEF Poll, PhaseOf
  <2>1. CASE ctxDone /\ Return(a, "cancelled") /\ UNCHANGED log
    <3>1. PhaseOf(a)' = "off"
      BY <1>0, <2>1 DEF Return, PhaseOf
    <3>2. Progress' = Progress
      BY <1>m, <2>1, ProgressStays DEF Delivered
    <3>3. Paced!Stop(a)
      BY <1>m, <2>0, <2>1, <3>1, <3>2, MappedStop
    <3> QED
      BY <3>3
  <2>2. CASE ~ctxDone /\ StartPass(a)
    <3>1. Delivered(a)' = <<>> /\ pc'[a] = "pass"
      BY <1>0, <2>2, StartDelivery
    <3>2. PhaseOf(a)' = "replaying" /\ Len(Delivered(a))' = 0
      BY <3>1, EmptySeq DEF PhaseOf
    <3>3. Paced!Begin(a)
      BY <1>m, <2>0, <2>2, <3>2, MappedBegin
    <3> QED
      BY <3>3
  <2> QED
    BY <1>2, <2>1, <2>2 DEF Poll
<1>3. CASE PassDone(a)
  <2>1. /\ pc[a] = "pass" /\ AtEnd(a) /\ UNCHANGED <<log, credit>>
        /\ pc'[a] = IF Looping THEN "loop" ELSE "idle"
    BY <1>0, <1>3 DEF PassDone, Return
  <2>2. PhaseOf(a) = "replaying" /\ PhaseOf(a)' = IF Looping THEN "ready" ELSE "off"
    BY <2>1 DEF PhaseOf
  <2>3. Progress' = Progress
    BY <1>m, <2>1, ProgressStays DEF Delivered
  <2>4. Delivered(a) = Corpus
    BY <1>0, <2>1, DeliveredAll
  <2>5. Paced!Finish(a)
    BY <1>m, <2>1, <2>2, <2>3, <2>4, MappedFinish
  <2> QED
    BY <2>5
<1>4. CASE NextBatch(a)
  <2>1. pc' = pc /\ log' = log /\ credit' = credit
    BY <1>4 DEF NextBatch
  <2>2. UNCHANGED Paced!vars
    BY <1>s, <2>1 DEF PhaseOf, Delivered
  <2> QED
    BY <2>2
<1>5. CASE CutChunk(a)
  <2>1. pc[a] = "pass" /\ pc'[a] = "write" /\ log' = log /\ credit' = credit
    BY <1>0, <1>5 DEF CutChunk, BeginChunk
  <2>2. UNCHANGED Paced!vars
    BY <1>s, <2>1 DEF PhaseOf, Delivered
  <2> QED
    BY <2>2
<1>6. CASE WaitForBurst(a)
  <2>1. CASE PassFailed(a)
    <3>1. PhaseOf(a) = "replaying" /\ log' = log /\ credit' = credit
      BY <1>6 DEF WaitForBurst, PhaseOf
    <3>2. Paced!GiveUp(a)
      BY <1>m, <2>1, <3>1, FailedMaps
    <3> QED
      BY <3>2
  <2>2. CASE pc' = [pc EXCEPT ![a] = "wait"]
    <3>1. /\ pc[a] = "pass" /\ pc'[a] = "wait"
          /\ log' = log /\ credit' = credit
      BY <1>0, <1>6, <2>2 DEF WaitForBurst
    <3>2. UNCHANGED Paced!vars
      BY <1>s, <2>2, <3>1 DEF PhaseOf, Delivered
    <3> QED
      BY <3>2
  <2> QED
    BY <1>6, <2>1, <2>2 DEF WaitForBurst
<1>7. CASE BurstGranted(a)
  <2>1. /\ pc[a] = "wait" /\ pc'[a] = "write" /\ log' = log
        /\ credit' = [credit EXCEPT ![a] = Burst]
    BY <1>0, <1>7 DEF BurstGranted, BeginChunk
  <2>2. Rest(a) > 0 /\ Burst > 0
    BY <1>0, <2>1 DEF ChunkAt, AtBurst
  <2>3. \/ credit[a] = 0
        \/ credit[a] = Burst /\ Len(Delivered(a)) = 0
    <3>1. \/ credit[a] = 0
          \/ credit[a] = Burst /\ log[a] = <<>>
      BY <1>0, <2>1, <2>2 DEF CreditAt, ChunkAt, Unused, Forgotten, AtBurst
    <3>2. log[a] = <<>> => Delivered(a) = <<>>
      BY DEF Delivered, FlattenSeq
    <3> QED
      BY <3>1, <3>2, EmptySeq
  <2>4. Phase' = Phase /\ PhaseOf(a) = "replaying"
    BY <1>m, <2>1, PhaseStays DEF PhaseOf
  <2>5. Progress' = Progress
    BY <1>m, <2>1, ProgressStays DEF Delivered
  <2>6. Len(Delivered(a)) < Len(Corpus)
    BY <1>t, <2>2
  <2>7. Paced!Pay(a)
    BY <1>m, <2>1, <2>2, <2>3, <2>4, <2>5, <2>6, MappedPay
  <2> QED
    BY <2>7
<1>8. CASE WaitCancelled(a)
  <2>1. PhaseOf(a) = "replaying" /\ log' = log /\ credit' = credit
    BY <1>8 DEF WaitCancelled, PhaseOf
  <2>2. Paced!GiveUp(a)
    BY <1>8, <1>m, <2>1, FailedMaps DEF WaitCancelled
  <2> QED
    BY <2>2
<1>9. CASE SendEvents(a)
  <2>1. pc[a] = "write" /\ pc'[a] = "send" /\ log' = log /\ credit' = credit
    BY <1>0, <1>9 DEF SendEvents
  <2>2. UNCHANGED Paced!vars
    BY <1>s, <2>1 DEF PhaseOf, Delivered
  <2> QED
    BY <2>2
<1>10. ASSUME NEW class \in {2, 3, 4, 5}, Respond(a, class)
       PROVE  Paced!GiveUp(a) \/ \E k \in 1..Len(Corpus) : Paced!Deliver(a, k)
  <2>0. pc[a] = "send" /\ PhaseOf(a) = "replaying"
    BY <1>10 DEF Respond, PhaseOf
  <2>1. CASE PassFailed(a) /\ UNCHANGED <<log, credit>>
    BY <1>m, <2>0, <2>1, FailedMaps
  <2>2. CASE Acknowledge(a)
    <3>1. /\ pc'[a] = "pass"
          /\ credit' = [credit EXCEPT ![a] = IF Burst > 0 THEN @ - n[a] ELSE 0]
      BY <1>0, <2>2 DEF Acknowledge
    <3>2. Phase' = Phase
      BY <1>m, <2>0, <3>1, PhaseStays DEF PhaseOf
    <3>3. Len(Delivered(a)') = Len(Delivered(a)) + n[a]
      BY <1>0, <1>10, <2>2, AcknowledgeLength DEF Respond
    <3>4. Progress' = [Progress EXCEPT ![a] = @ + n[a]]
      BY <1>m, <3>3 DEF Progress
    <3>5. n[a] \in 1..Len(Corpus) /\ Len(Delivered(a)) + n[a] <= Len(Corpus)
      <4>1. n[a] \in 1..Rest(a) /\ Rest(a) \in Nat
        BY <1>0, <2>0, CursorRange DEF DeliveryAt
      <4> QED
        BY <1>t, <4>1
    <3>6. Burst > 0 => n[a] <= credit[a]
      BY <1>0, <2>0 DEF ChunkAt, CreditAt, Unused, Forgotten
    <3>7. Paced!Deliver(a, n[a])
      BY <1>m, <2>0, <3>1, <3>2, <3>4, <3>5, <3>6, MappedDeliver
    <3> QED
      BY <3>5, <3>7
  <2> QED
    BY <1>10, <2>1, <2>2 DEF Respond
<1>11. CASE ConnectionFails(a)
  <2>1. PhaseOf(a) = "replaying" /\ log' = log /\ credit' = credit
    BY <1>11 DEF ConnectionFails, PhaseOf
  <2>2. Paced!GiveUp(a)
    BY <1>11, <1>m, <2>1, FailedMaps DEF ConnectionFails
  <2> QED
    BY <2>2
<1> QED
  BY <1>1, <1>2, <1>3, <1>4, <1>5, <1>6, <1>7, <1>8, <1>9, <1>10, <1>11
     DEF Step

\* The handler starts as the paced replay does.
LEMMA PacedInit == Init => Paced!Init
<1> SUFFICES ASSUME Init PROVE Paced!Init
  OBVIOUS
<1>1. \A a \in Agents : Len(Delivered(a)) = 0
  BY EmptySeq DEF Init, Delivered, FlattenSeq
<1> QED
  BY <1>1 DEF Init, Paced!Init

\* Every step of the handler is one of the paced replay, or does not show.
LEMMA PacedStep ==
    ASSUME IInv, IInv', DeliveryInv, DeliveryInv', [Next]_vars
    PROVE  [Paced!Next]_(Paced!vars)
<1>1. ASSUME NEW a \in Agents, Call(a) \/ Step(a)
      PROVE  [Paced!Next]_(Paced!vars)
  <2>1. \/ Paced!Start(a) \/ Paced!Begin(a) \/ Paced!Pay(a)
        \/ Paced!Finish(a) \/ Paced!GiveUp(a) \/ Paced!Stop(a)
        \/ \E k \in 1..Len(Corpus) : Paced!Deliver(a, k)
        \/ UNCHANGED Paced!vars
    BY <1>1, OwnMaps
  <2> QED
    BY <2>1 DEF Paced!Next
<1>2. CASE Cancel
  <2>1. Phase' = Phase /\ Progress' = Progress /\ credit' = credit /\ ctxDone'
    BY <1>2 DEF Cancel, Phase, PhaseOf, Progress, Delivered
  <2>2. Paced!Cancel
    BY <2>1 DEF Paced!Cancel, Phase, PhaseOf, Progress
  <2> QED
    BY <2>2 DEF Paced!Next
<1>3. CASE Refill \/ UNCHANGED vars
  <2>1. UNCHANGED <<pc, log, credit, ctxDone>>
    BY <1>3 DEF Refill, vars
  <2> QED
    BY <2>1, MappedStutter DEF Phase, PhaseOf, Progress, Delivered
<1>4. ASSUME NEW b \in Buffers, BodyTransmitted(b)
      PROVE  [Paced!Next]_(Paced!vars)
  <2>1. UNCHANGED <<pc, log, credit, ctxDone>>
    BY <1>4 DEF BodyTransmitted
  <2> QED
    BY <2>1, MappedStutter DEF Phase, PhaseOf, Progress, Delivered
<1> QED
  BY <1>1, <1>2, <1>3, <1>4 DEF Next

\* SendBatchesInLoop and SendBatches are a paced replay of the corpus: batches,
\* chunks, buffers and the limiter are no more than how they do it.
THEOREM Refinement == Spec => ImplementsPacedReplay
<1>1. IInv /\ IInv' /\ DeliveryInv /\ DeliveryInv' /\ [Next]_vars
        => [Paced!Next]_(Paced!vars)
  BY PacedStep
<1> QED
  BY <1>1, PacedInit, DeliveryInvariance, PTL
     DEF Spec, ImplementsPacedReplay, Paced!Spec
=============================================================================
