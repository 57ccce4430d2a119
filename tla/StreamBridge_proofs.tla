------------------------ MODULE StreamBridge_proofs ------------------------
(***************************************************************************)
(* Safety of the reader thread bridge for every number of rows, batch size *)
(* and channel capacity.  The inductive invariant IInv says where every    *)
(* row of the source is: returned, queued, in the chunk or in the buffer,  *)
(* in this order and without a gap.                                        *)
(***************************************************************************)
EXTENDS StreamBridge, SequenceTheorems, TLAPS

----------------------------------------------------------------------------
(* The inductive invariant. *)

\* Batches queued: an error can only be the last message.
NOk == IF chan # <<>> /\ chan[Len(chan)].tag = "err"
       THEN Len(chan) - 1 ELSE Len(chan)

\* Rows returned or queued in the first n messages.
EndOf(n) == IF n = 0 THEN Len(seen) ELSE chan[n].to

\* A batch is full, or holds the last rows of the source.
WellCut(b) == /\ b.from < b.to
              /\ Size(b) <= BatchSize
              /\ Size(b) = BatchSize \/ b.to = NRows

QueueOK ==
    /\ Len(chan) <= Capacity
    /\ \A i \in 1..NOk : /\ chan[i].tag = "ok"
                         /\ chan[i].from = EndOf(i - 1)
                         /\ WellCut(chan[i])
    /\ \A i, j \in 1..NOk : i <= j => chan[j].to <= chan[i].to + (j - i) * BatchSize

BufferOK ==
    /\ buf.to = fetched /\ buf.from <= fetched
    /\ wpc = "open" => fetched = 0 /\ final = FALSE
    /\ wpc = "fetch" => fetched - buf.from < BatchSize /\ final = FALSE
    /\ wpc \in {"convert", "send"} =>
          /\ buf.from = fetched /\ chunk.to = fetched /\ chunk.tag = "ok"
          /\ WellCut(chunk)
          /\ final = TRUE => fetched = NRows

WorkerOK ==
    /\ wpc # "exit" => NOk = Len(chan)
    /\ wpc \in {"open", "fetch"} => buf.from = EndOf(NOk)
    /\ wpc \in {"convert", "send"} => chunk.from = EndOf(NOk)
    /\ wpc \in {"open", "fetch", "convert", "send"} => fault = "none"
    /\ wpc = "sendErr" => fault \in {"query", "stream", "convert"}
    /\ fetched <= EndOf(NOk) + BatchSize
    /\ wpc = "exit" => \/ fault = "none" /\ NOk = Len(chan) /\ EndOf(NOk) = NRows
                       \/ NOk # Len(chan)
                       \/ fault = "panic"

AfterDrop ==
    /\ atDrop <= fetched
    /\ fetched - atDrop <= BatchSize
    /\ wpc \in {"open", "fetch"} => buf.from <= atDrop

IInv == /\ TypeOK
        /\ PrefixInOrder
        /\ BufferOK
        /\ RxAlive <=> cpc # "done"
        /\ RxAlive => QueueOK /\ WorkerOK
        /\ ~RxAlive => AfterDrop
        /\ EndIsComplete
        /\ outcome = "end" => wpc = "exit"
        /\ Len(seen) <= NRows

----------------------------------------------------------------------------
(* Facts about the data. *)

\* A function on 1..n is a sequence of length n.
LEMMA FunIsSeq ==
    ASSUME NEW S, NEW n \in Nat, NEW f \in [1..n -> S]
    PROVE  f \in Seq(S) /\ Len(f) = n
<1>1. f \in Seq(S)
  BY SeqDef
<1> QED
  BY <1>1

\* The rows of a batch, appended in order, are rows of the source.
LEMMA RowsOfType ==
    ASSUME NEW b \in Intervals
    PROVE  RowsOf(b) \in Seq(1..NRows)
<1>1. Size(b) \in Int /\ b.from \in 0..NRows /\ b.to \in 0..NRows
  BY StreamBridgeAssumption DEF Size, Intervals
<1>2. \A i \in 1..Size(b) : b.from + i \in 1..NRows
  BY <1>1, StreamBridgeAssumption DEF Size
<1>3. CASE Size(b) \in Nat
  <2>1. [i \in 1..Size(b) |-> b.from + i] \in [1..Size(b) -> 1..NRows]
    BY <1>2
  <2> QED
    BY <1>3, <2>1, FunIsSeq DEF RowsOf
<1>4. CASE Size(b) < 0
  <2>1. 1..Size(b) = 1..0
    BY <1>1, <1>4
  <2>2. RowsOf(b) = [i \in 1..0 |-> b.from + i]
    BY <2>1 DEF RowsOf
  <2> QED
    BY <2>2
<1> QED
  BY <1>1, <1>3, <1>4

\* Both messages are messages.
LEMMA MsgTypes ==
    /\ \A f, t \in 0..NRows : Batch(f, t) \in Intervals
    /\ \A f, t : Batch(f, t).from = f /\ Batch(f, t).to = t /\ Batch(f, t).tag = "ok"
    /\ ErrMsg.tag = "err"
  BY DEF Batch, Intervals, ErrMsg

----------------------------------------------------------------------------
(* Type correctness. *)

\* The invariant TypeOK holds: the states of both threads stay in range.
LEMMA TypeInit == Init => TypeOK
<1> SUFFICES ASSUME Init PROVE TypeOK
  OBVIOUS
<1>1. Batch(0, 0) \in Intervals
  BY StreamBridgeAssumption DEF Batch, Intervals
<1>2. <<>> \in Seq(Intervals \cup {ErrMsg}) /\ <<>> \in Seq(1..NRows)
  OBVIOUS
<1>3. chan \in Seq(Intervals \cup {ErrMsg}) /\ seen \in Seq(1..NRows)
  BY <1>2, Zenon DEF Init
<1>4. buf \in Intervals /\ chunk \in Intervals
  BY <1>1 DEF Init
<1>5. final \in BOOLEAN
  BY Zenon DEF Init
<1>6. fetched \in 0..NRows /\ atDrop \in 0..NRows
  BY StreamBridgeAssumption DEF Init
<1>7. fault \in {"none"} \cup AllFaults
  BY DEF Init
<1> QED
  BY <1>3, <1>4, <1>5, <1>6, <1>7 DEF Init, TypeOK

\* Every step keeps the type invariant.
LEMMA TypeStep == TypeOK /\ [Next]_vars => TypeOK'
<1> SUFFICES ASSUME TypeOK, [Next]_vars PROVE TypeOK'
  OBVIOUS
<1> USE StreamBridgeAssumption, MsgTypes DEF wvars, cvars
<1>1. CASE OpenSource
  BY <1>1 DEF OpenSource, TypeOK, AllFaults
<1>2. CASE FetchRow
  <2>1. fetched + 1 \in 0..NRows /\ buf.from \in 0..NRows
    BY SMTT(20), <1>2 DEF FetchRow, TypeOK, Intervals
  <2>2. [buf EXCEPT !.to = fetched + 1] \in Intervals
    BY <2>1 DEF TypeOK, Intervals
  <2> QED
    BY ZenonT(60), <1>2, <2>1, <2>2 DEF FetchRow, TakeChunk, TypeOK
<1>3. CASE StreamEnd
  <2>1. buf.from \in 0..NRows
    BY DEF TypeOK, Intervals
  <2> QED
    BY ZenonT(60), <1>3, <2>1 DEF StreamEnd, TakeChunk, TypeOK
<1>4. CASE StreamFails
  BY <1>4 DEF StreamFails, TypeOK, AllFaults
<1>5. CASE Convert
  BY <1>5 DEF Convert, TypeOK, AllFaults
<1>6. CASE SendBatch
  BY <1>6 DEF SendBatch, TypeOK
<1>7. CASE SendError
  BY <1>7 DEF SendError, TypeOK
<1>8. CASE SendDisconnected
  BY <1>8 DEF SendDisconnected, TypeOK
<1>9. CASE Batches \/ CallNext
  BY <1>9 DEF Batches, CallNext, TypeOK
<1>10. CASE RecvBatch
  <2>1. Head(chan) \in Intervals
    BY <1>10 DEF RecvBatch, TypeOK, ErrMsg
  <2>2. seen' \in Seq(1..NRows)
    BY <1>10, <2>1, RowsOfType DEF RecvBatch, TypeOK
  <2> QED
    BY <1>10, <2>2 DEF RecvBatch, TypeOK
<1>11. CASE RecvUnconvertible \/ RecvError \/ RecvDisconnected \/ Cancel
  <2>1. chan' = <<>>
    BY <1>11 DEF RecvUnconvertible, RecvError, RecvDisconnected, Cancel, DropRx
  <2>2. chan' \in Seq(Intervals \cup {ErrMsg})
    BY <2>1, EmptySeq, Zenon
  <2> QED
    BY <1>11, <2>2 DEF RecvUnconvertible, RecvError, RecvDisconnected, Cancel,
                       DropRx, TypeOK, AllFaults
<1>12. CASE UNCHANGED vars
  BY <1>12 DEF vars, TypeOK
<1> QED
  BY <1>1, <1>2, <1>3, <1>4, <1>5, <1>6, <1>7, <1>8, <1>9, <1>10, <1>11, <1>12
     DEF Next, Worker, Consumer, Terminated

\* Every variable of the bridge keeps to its type.
THEOREM TypeCorrect == Spec => []TypeOK
<1> QED
  BY TypeInit, TypeStep, PTL DEF Spec

----------------------------------------------------------------------------
(* How the queue's part of IInv moves with the channel operations. *)

Msg == Intervals \cup {ErrMsg}

\* One batch more is BatchSize rows more (the only product the proofs need).
LEMMA NextMultiple ==
    ASSUME NEW k \in Int PROVE (k + 1) * BatchSize = k * BatchSize + BatchSize
  BY StreamBridgeAssumption

\* Bounds on consecutive batches add up.
LEMMA AddBounds ==
    ASSUME NEW a \in Int, NEW b \in Int, NEW c \in Int, NEW k \in Int,
           NEW s \in Int, b <= c + k, a <= b + s
    PROVE  a <= c + (k + s)
  OBVIOUS

\* What a message of the channel is made of.
LEMMA QueueTypes ==
    ASSUME TypeOK, NEW i \in 1..Len(chan)
    PROVE  /\ chan[i] \in Msg
           /\ chan[i].to \in 0..NRows /\ chan[i].from \in 0..NRows
<1>1. chan[i] \in Msg
  BY ElementOfSeq DEF TypeOK, Msg
<1> QED
  BY <1>1, StreamBridgeAssumption DEF Msg, Intervals, ErrMsg

\* Sending a batch that continues the queue keeps the queue in order.
LEMMA QueueAppend ==
    ASSUME TypeOK, QueueOK, NOk = Len(chan), Len(chan) < Capacity,
           NEW m \in Intervals, m.tag = "ok", m.from = EndOf(NOk), WellCut(m),
           chan' = Append(chan, m), seen' = seen
    PROVE  QueueOK' /\ NOk' = Len(chan') /\ EndOf(NOk)' = m.to
<1> DEFINE n == Len(chan)
<1>1. n \in Nat /\ Len(chan') = n + 1 /\ chan'[n + 1] = m
  BY DEF TypeOK
<1>2. \A i \in 1..n : chan'[i] = chan[i]
  BY DEF TypeOK
<1>3. NOk' = n + 1
  BY <1>1, EmptySeq DEF NOk, TypeOK
<1>4. \A i \in 0..n : EndOf(i)' = EndOf(i)
  BY <1>1, <1>2 DEF EndOf
<1>5. ASSUME NEW i \in 1..(n + 1)
      PROVE  chan'[i].tag = "ok" /\ chan'[i].from = EndOf(i - 1)' /\ WellCut(chan'[i])
  <2>1. CASE i = n + 1
    BY <2>1, <1>1, <1>4
  <2>2. CASE i \in 1..n
    BY <2>2, <1>1, <1>2, <1>4 DEF QueueOK
  <2> QED
    BY <2>1, <2>2, <1>1
<1>6. ASSUME NEW i \in 1..(n + 1), NEW j \in 1..(n + 1), i <= j
      PROVE  chan'[j].to <= chan'[i].to + (j - i) * BatchSize
  <2>1. CASE j \in 1..n
    BY <2>1, <1>1, <1>2, <1>6 DEF QueueOK
  <2>2. CASE i = n + 1 /\ j = n + 1
    <3>1. (j - i) * BatchSize = 0 /\ m.to \in Int
      BY <2>2, StreamBridgeAssumption DEF Intervals
    <3> QED
      BY <2>2, <3>1, <1>1
  <2>3. CASE i \in 1..n /\ j = n + 1
    <3>1. chan[n].to <= chan[i].to + (n - i) * BatchSize
      BY <2>3, <1>1 DEF QueueOK
    <3>2. m.from = chan[n].to /\ m.to <= m.from + BatchSize
      BY <2>3, <1>1, StreamBridgeAssumption DEF EndOf, WellCut, Size, Intervals
    <3>3. (j - i) * BatchSize = (n - i) * BatchSize + BatchSize
      BY <2>3, <1>1, NextMultiple
    <3>4. chan[i].to \in Int /\ chan[n].to \in Int /\ (n - i) * BatchSize \in Int
      BY <2>3, <1>1, StreamBridgeAssumption, QueueTypes
    <3>5. m.to \in Int /\ BatchSize \in Int
      BY StreamBridgeAssumption DEF Intervals
    <3>6. m.to <= chan[i].to + ((n - i) * BatchSize + BatchSize)
      <4>1. m.to <= chan[n].to + BatchSize
        BY <3>2
      <4> HIDE DEF n
      <4> QED
        BY <4>1, <3>1, <3>4, <3>5, AddBounds
    <3>7. chan'[j] = m /\ chan'[i] = chan[i]
      BY <2>3, <1>1, <1>2
    <3> QED
      BY <3>3, <3>6, <3>7
  <2> QED
    BY <2>1, <2>2, <2>3, <1>1, <1>6
<1>7. Len(chan') <= Capacity
  BY <1>1, StreamBridgeAssumption
<1> QED
  BY SMTT(20), <1>1, <1>3, <1>5, <1>6, <1>7 DEF QueueOK, WellCut, Size, EndOf

\* Sending an error leaves the batches before it as they are.
LEMMA QueueAppendError ==
    ASSUME TypeOK, QueueOK, NOk = Len(chan), Len(chan) < Capacity,
           chan' = Append(chan, ErrMsg), seen' = seen
    PROVE  QueueOK' /\ NOk' = NOk /\ NOk' # Len(chan') /\ EndOf(NOk)' = EndOf(NOk)
<1> DEFINE n == Len(chan)
<1>1. n \in Nat /\ Len(chan') = n + 1 /\ chan'[n + 1] = ErrMsg
  BY DEF TypeOK
<1>2. \A i \in 1..n : chan'[i] = chan[i]
  BY DEF TypeOK
<1>3. NOk' = n
  BY <1>1, MsgTypes, EmptySeq DEF NOk, TypeOK
<1>4. \A i \in 0..n : EndOf(i)' = EndOf(i)
  BY <1>1, <1>2 DEF EndOf
<1>5. Len(chan') <= Capacity
  BY <1>1, StreamBridgeAssumption
<1>6. \A i \in 1..n : /\ chan'[i].tag = "ok"
                      /\ chan'[i].from = EndOf(i - 1)'
                      /\ WellCut(chan'[i])
  BY <1>1, <1>2, <1>4 DEF QueueOK
<1>7. \A i, j \in 1..n : i <= j => chan'[j].to <= chan'[i].to + (j - i) * BatchSize
  BY <1>1, <1>2 DEF QueueOK
<1> QED
  BY <1>1, <1>3, <1>4, <1>5, <1>6, <1>7 DEF QueueOK, WellCut, Size, EndOf

\* Receiving a batch moves its rows from the queue to the caller.
LEMMA QueueTail ==
    ASSUME TypeOK, QueueOK, PrefixInOrder, chan # <<>>, Head(chan).tag = "ok",
           chan' = Tail(chan), seen' = seen \o RowsOf(Head(chan))
    PROVE  /\ QueueOK' /\ PrefixInOrder'
           /\ Len(chan') = Len(chan) - 1
           /\ NOk' = NOk - 1 /\ EndOf(NOk)' = EndOf(NOk)
           /\ Len(seen') = Head(chan).to
<1> DEFINE n == Len(chan)  b == chan[1]
<1>1. n \in Nat \ {0} /\ Head(chan) = b /\ Len(chan') = n - 1
  BY EmptySeq DEF TypeOK
<1>2. \A i \in 1..(n - 1) : chan'[i] = chan[i + 1]
  BY <1>1 DEF TypeOK
<1>3. NOk \in 1..n /\ NOk' = NOk - 1
  <2>1. CASE n = 1
    <3>1. chan' = <<>>
      <4>1. chan' \in Seq(Intervals \cup {ErrMsg})
        BY EmptySeq DEF TypeOK
      <4>2. Len(chan') = 0
        BY <2>1, <1>1
      <4> QED
        BY <4>1, <4>2, EmptySeq
    <3>2. NOk' = 0
      BY <3>1, EmptySeq DEF NOk
    <3>3. chan[1].tag = "ok"
      BY <1>1
    <3>4. NOk = 1
      BY <2>1, <3>3 DEF NOk
    <3> QED
      BY <2>1, <3>2, <3>4
  <2>2. CASE n # 1
    <3>1. n - 1 \in 1..(n - 1) /\ (n - 1) + 1 = n
      BY <2>2, <1>1
    <3>2. chan'[Len(chan')] = chan[n]
      <4>1. chan'[n - 1] = chan[(n - 1) + 1]
        BY <3>1, <1>2
      <4> QED
        BY <4>1, <3>1, <1>1
    <3>3. chan' # <<>>
      <4>1. Len(chan') # 0
        BY <2>2, <1>1
      <4>2. Len(<<>>) = 0
        OBVIOUS
      <4> QED
        BY <4>1, <4>2, Zenon
    <3>4. NOk' = IF chan[n].tag = "err" THEN n - 2 ELSE n - 1
      BY <3>2, <3>3, <1>1 DEF NOk
    <3>5. NOk = IF chan[n].tag = "err" THEN n - 1 ELSE n
      BY DEF NOk
    <3>6. n \in Nat /\ n >= 2
      BY <2>2, <1>1
    <3>7. CASE chan[n].tag = "err"
      BY <3>4, <3>5, <3>6, <3>7
    <3>8. CASE chan[n].tag # "err"
      BY <3>4, <3>5, <3>6, <3>8
    <3> QED
      BY <3>7, <3>8
  <2> QED
    BY <2>1, <2>2
<1>4. b \in Intervals /\ b.from = Len(seen) /\ WellCut(b) /\ Size(b) \in Nat
  <2>1. b \in Msg /\ b.tag = "ok"
    BY <1>1, ElementOfSeq DEF TypeOK, Msg
  <2>2. b \in Intervals
    BY <2>1 DEF Msg, ErrMsg
  <2>3. b.from = Len(seen) /\ WellCut(b)
    BY <1>1, <1>3 DEF QueueOK, EndOf
  <2> QED
    BY <2>2, <2>3, StreamBridgeAssumption DEF WellCut, Size, Intervals
<1>5. /\ RowsOf(b) \in Seq(1..NRows) /\ Len(RowsOf(b)) = Size(b)
      /\ \A i \in 1..Size(b) : RowsOf(b)[i] = b.from + i
  <2>1. RowsOf(b) \in [1..Size(b) -> {b.from + i : i \in 1..Size(b)}]
    BY DEF RowsOf
  <2>2. Len(RowsOf(b)) = Size(b)
    BY <2>1, <1>4, FunIsSeq
  <2> QED
    BY <2>2, <1>4, RowsOfType DEF RowsOf
<1>6. Len(seen) \in Nat /\ Len(seen') = b.to
  <2>1. Len(seen') = Len(seen) + Size(b) /\ Len(seen) \in Nat
    BY <1>1, <1>5, ConcatProperties DEF TypeOK
  <2> QED
    BY <2>1, <1>4, StreamBridgeAssumption DEF Size, Intervals
<1>7. PrefixInOrder'
  <2> SUFFICES ASSUME NEW i \in 1..Len(seen') PROVE seen'[i] = i
    BY DEF PrefixInOrder
  <2>1. CASE i <= Len(seen)
    <3>1. seen'[i] = seen[i]
      BY <2>1, <1>1, <1>5, <1>6, ConcatProperties DEF TypeOK
    <3> QED
      BY <2>1, <3>1, <1>6 DEF PrefixInOrder
  <2>2. CASE i > Len(seen)
    <3>1. i - Len(seen) \in 1..Size(b)
      BY <2>2, <1>4, <1>6, StreamBridgeAssumption DEF Size, Intervals
    <3>2. seen'[i] = RowsOf(b)[i - Len(seen)]
      BY <2>2, <1>1, <1>5, <1>6, ConcatProperties DEF TypeOK
    <3> QED
      BY <3>1, <3>2, <1>4, <1>5, <1>6
  <2> QED
    BY <2>1, <2>2, <1>6
<1>8. \A i \in 0..(NOk - 1) : EndOf(i)' = EndOf(i + 1)
  BY <1>1, <1>2, <1>3, <1>6 DEF EndOf
<1>9. \A i \in 1..(NOk - 1) : /\ chan'[i].tag = "ok"
                              /\ chan'[i].from = EndOf(i - 1)'
                              /\ WellCut(chan'[i])
  <2> SUFFICES ASSUME NEW i \in 1..(NOk - 1)
               PROVE  /\ chan'[i].tag = "ok"
                      /\ chan'[i].from = EndOf(i - 1)'
                      /\ WellCut(chan'[i])
    OBVIOUS
  <2>1. /\ chan'[i] = chan[i + 1] /\ i + 1 \in 1..NOk /\ i - 1 \in 0..(NOk - 1)
        /\ (i + 1) - 1 = i /\ (i - 1) + 1 = i
    BY <1>1, <1>2, <1>3
  <2>2. EndOf(i - 1)' = EndOf(i)
    BY <2>1, <1>8
  <2> QED
    BY <2>1, <2>2 DEF QueueOK
<1>10. ASSUME NEW i \in 1..(NOk - 1), NEW j \in 1..(NOk - 1), i <= j
       PROVE  chan'[j].to <= chan'[i].to + (j - i) * BatchSize
  <2>1. /\ chan'[i] = chan[i + 1] /\ chan'[j] = chan[j + 1]
        /\ i + 1 \in 1..NOk /\ j + 1 \in 1..NOk /\ i + 1 <= j + 1
        /\ (j + 1) - (i + 1) = j - i
    BY <1>1, <1>2, <1>3, <1>10
  <2>2. chan[j + 1].to <= chan[i + 1].to + ((j + 1) - (i + 1)) * BatchSize
    BY <2>1 DEF QueueOK
  <2> QED
    BY <2>1, <2>2
<1>11. QueueOK'
  <2>1. Len(chan') <= Capacity
    BY <1>1, StreamBridgeAssumption DEF QueueOK
  <2> QED
    BY <2>1, <1>3, <1>9, <1>10 DEF QueueOK, WellCut, Size, EndOf
<1>12. EndOf(NOk)' = EndOf(NOk)
  <2>1. PICK k \in Nat : k = NOk - 1
    BY <1>1, <1>3
  <2>2. EndOf(NOk)' = EndOf(k)'
    BY <2>1, <1>3 DEF EndOf
  <2>3. EndOf(k)' = EndOf(k + 1) /\ k + 1 = NOk
    BY <2>1, <1>1, <1>3, <1>8
  <2> QED
    BY <2>2, <2>3
<1> QED
  BY <1>1, <1>3, <1>6, <1>7, <1>11, <1>12

\* Steps that touch neither the queue nor what was returned keep both parts.
LEMMA QueueFrame ==
    ASSUME chan' = chan, seen' = seen
    PROVE  /\ QueueOK => QueueOK'
           /\ NOk' = NOk /\ EndOf(NOk)' = EndOf(NOk)
           /\ PrefixInOrder => PrefixInOrder'
           /\ Len(seen)' = Len(seen) /\ Len(chan)' = Len(chan)
<1>1. NOk' = NOk
  BY DEF NOk
<1>2. EndOf(NOk)' = EndOf(NOk)
  BY <1>1 DEF EndOf
<1>3. QueueOK => QueueOK'
  BY <1>1 DEF QueueOK, EndOf, WellCut, Size
<1> QED
  BY <1>1, <1>2, <1>3 DEF PrefixInOrder

----------------------------------------------------------------------------
(* IInv is inductive. *)

\* The inductive invariant holds initially.
LEMMA InvInit == Init => IInv
<1> SUFFICES ASSUME Init PROVE IInv
  OBVIOUS
<1> USE StreamBridgeAssumption
<1>1. Len(seen) = 0 /\ Len(chan) = 0 /\ chan = <<>>
  BY DEF Init
<1>2. NOk = 0 /\ EndOf(NOk) = 0
  BY <1>1 DEF NOk, EndOf
<1>3. QueueOK
  BY <1>1, <1>2 DEF QueueOK
<1>4. buf.from = 0 /\ buf.to = 0
  BY DEF Init, Batch
<1>5. BufferOK /\ WorkerOK
  BY <1>1, <1>2, <1>4 DEF Init, BufferOK, WorkerOK
<1>6. PrefixInOrder /\ EndIsComplete
  BY <1>1 DEF Init, PrefixInOrder, EndIsComplete
<1> QED
  BY <1>1, <1>3, <1>5, <1>6, TypeInit DEF Init, IInv, RxAlive

\* A full or final buffer becomes a chunk: the rows change hands, no more.
LEMMA ChunkStep ==
    ASSUME IInv, wpc = "fetch", NEW final2 \in BOOLEAN,
           fetched' \in 0..NRows, TakeChunk(fetched', final2),
           \/ fetched' = fetched + 1 /\ fetched + 1 - buf.from = BatchSize /\ final2 = FALSE
           \/ fetched' = fetched /\ fetched = NRows /\ Size(buf) > 0 /\ final2 = TRUE,
           UNCHANGED <<chan, cvars, fault>>, TypeOK'
    PROVE  IInv'
<1> USE StreamBridgeAssumption DEF cvars
<1>1. /\ chunk'.from = buf.from /\ chunk'.to = fetched' /\ chunk'.tag = "ok"
      /\ buf'.from = fetched' /\ buf'.to = fetched' /\ final' = final2
      /\ wpc' \in {"convert", "send"}
  BY DEF TakeChunk, Batch
<1>2. buf.from \in 0..NRows /\ fetched \in 0..NRows
  BY DEF IInv, TypeOK, Intervals
<1>3. WellCut(chunk')
  BY SMTT(20), <1>1, <1>2 DEF WellCut, Size, IInv, BufferOK
<1>4. BufferOK'
  <2>1. (final' = TRUE) => fetched' = NRows
    BY <1>1
  <2>2. WellCut(chunk)'
    BY <1>3 DEF WellCut, Size
  <2>3. fetched' <= fetched'
    BY <1>2
  <2> QED
    BY <1>1, <2>1, <2>2, <2>3 DEF BufferOK
<1>5. RxAlive => QueueOK' /\ WorkerOK'
  <2> SUFFICES ASSUME RxAlive PROVE QueueOK' /\ WorkerOK'
    OBVIOUS
  <2>1. /\ QueueOK' /\ NOk' = NOk /\ EndOf(NOk)' = EndOf(NOk)
        /\ Len(chan)' = Len(chan)
    BY QueueFrame DEF IInv
  <2>2. chunk'.from = EndOf(NOk)' /\ NOk' = Len(chan)' /\ fault' = "none"
    BY <1>1, <2>1 DEF IInv, WorkerOK
  <2>3. fetched' <= EndOf(NOk)' + BatchSize
    BY <1>1, <1>2, <1>3, <2>2 DEF WellCut, Size
  <2> QED
    BY <1>1, <2>1, <2>2, <2>3 DEF WorkerOK
<1>6. ~RxAlive => AfterDrop'
  <2> SUFFICES ASSUME ~RxAlive PROVE AfterDrop'
    OBVIOUS
  <2>1. atDrop \in 0..NRows /\ buf.from <= atDrop /\ atDrop <= fetched /\ atDrop' = atDrop
    BY DEF IInv, AfterDrop, TypeOK
  <2>2. fetched' - buf.from <= BatchSize /\ fetched' >= fetched
    BY <1>1, <1>2, <1>3 DEF WellCut, Size
  <2>3. fetched' - atDrop <= BatchSize /\ atDrop <= fetched'
    <3>1. PICK x \in Int : x = fetched'
      BY <1>2
    <3>2. x - buf.from <= BatchSize /\ x >= fetched
      BY <2>2, <3>1
    <3>3. x - atDrop <= BatchSize /\ atDrop <= x
      BY <1>2, <2>1, <3>2
    <3> QED
      BY <3>1, <3>3
  <2>4. wpc' \notin {"open", "fetch"}
    BY <1>1
  <2> QED
    BY <2>1, <2>3, <2>4 DEF AfterDrop
<1>7. PrefixInOrder' /\ EndIsComplete'
  BY QueueFrame DEF IInv, EndIsComplete
<1> QED
  BY <1>1, <1>4, <1>5, <1>6, <1>7 DEF IInv, RxAlive

\* The source answers or fails, one row arrives, the stream ends or breaks.
LEMMA SourceStep ==
    ASSUME IInv, TypeOK', OpenSource \/ FetchRow \/ StreamEnd \/ StreamFails
    PROVE  IInv'
<1> USE StreamBridgeAssumption DEF cvars
<1>0. chan' = chan /\ seen' = seen /\ outcome' = outcome /\ cpc' = cpc /\ atDrop' = atDrop
  BY DEF OpenSource, FetchRow, StreamEnd, StreamFails
<1>1. /\ PrefixInOrder'
      /\ RxAlive => QueueOK'
      /\ NOk' = NOk /\ EndOf(NOk)' = EndOf(NOk)
      /\ Len(chan)' = Len(chan) /\ Len(seen)' = Len(seen)
  BY <1>0, QueueFrame DEF IInv
<1>2. buf.from \in 0..NRows /\ buf.to \in 0..NRows /\ fetched \in 0..NRows
  BY DEF IInv, TypeOK, Intervals
<1>3. CASE OpenSource
  <2>1. BufferOK' /\ (RxAlive => WorkerOK') /\ (~RxAlive => AfterDrop')
    <3>1. /\ wpc = "open" /\ UNCHANGED <<fetched, buf, chunk, final>>
          /\ \/ wpc' = "fetch" /\ fault' = fault
             \/ wpc' = "sendErr" /\ fault' = "query"
      BY <1>3 DEF OpenSource
    <3>2. BufferOK'
      BY <1>2, <3>1 DEF IInv, BufferOK
    <3>3. RxAlive => WorkerOK'
      BY <1>1, <3>1 DEF IInv, WorkerOK
    <3>4. ~RxAlive => AfterDrop'
      BY <1>0, <3>1 DEF IInv, AfterDrop
    <3> QED
      BY <3>2, <3>3, <3>4
  <2> QED
    BY <1>0, <1>1, <1>3, <2>1 DEF OpenSource, IInv, RxAlive, EndIsComplete
<1>4. CASE FetchRow
  <2>1. CASE fetched + 1 - buf.from >= BatchSize
    <3>1. fetched + 1 - buf.from = BatchSize
      BY <1>2, <1>4, <2>1 DEF FetchRow, IInv, BufferOK
    <3>2. fetched' = fetched + 1 /\ TakeChunk(fetched', FALSE)
      BY <1>4, <2>1 DEF FetchRow
    <3> QED
      BY <1>2, <1>4, <3>1, <3>2, ChunkStep DEF FetchRow, TypeOK
  <2>2. CASE ~(fetched + 1 - buf.from >= BatchSize)
    <3>1. /\ buf'.from = buf.from /\ buf'.to = fetched' /\ fetched' = fetched + 1
          /\ wpc = "fetch" /\ wpc' = "fetch" /\ final' = final /\ fault' = fault
      BY <1>4, <2>2 DEF FetchRow, IInv, TypeOK, Intervals
    <3>2. BufferOK'
      BY <1>2, <2>2, <3>1 DEF IInv, BufferOK
    <3>3. RxAlive => WorkerOK'
      BY <1>1, <1>2, <2>2, <3>1 DEF IInv, WorkerOK
    <3>4. ~RxAlive => AfterDrop'
      BY <1>0, <1>2, <2>2, <3>1 DEF IInv, AfterDrop, BufferOK, TypeOK
    <3> QED
      BY <1>0, <1>1, <3>1, <3>2, <3>3, <3>4 DEF IInv, RxAlive, EndIsComplete
  <2> QED
    BY <2>1, <2>2
<1>5. CASE StreamEnd
  <2>1. CASE Size(buf) > 0
    <3>1. TakeChunk(fetched', TRUE) /\ fetched' = fetched
      BY <1>5, <2>1 DEF StreamEnd
    <3> QED
      BY <1>2, <1>5, <2>1, <3>1, ChunkStep DEF StreamEnd, TypeOK
  <2>2. CASE ~(Size(buf) > 0)
    <3>1. /\ wpc = "fetch" /\ wpc' = "exit" /\ fetched = NRows
          /\ UNCHANGED <<fetched, buf, chunk, final, fault>>
      BY <1>5, <2>2 DEF StreamEnd
    <3>2. buf.from = fetched
      BY <1>2, <2>2 DEF Size, IInv, BufferOK
    <3>3. BufferOK' /\ (RxAlive => WorkerOK') /\ (~RxAlive => AfterDrop')
      BY <1>0, <1>1, <1>2, <3>1, <3>2 DEF IInv, BufferOK, WorkerOK, AfterDrop
    <3> QED
      BY <1>0, <1>1, <3>1, <3>3 DEF IInv, RxAlive, EndIsComplete
  <2> QED
    BY <2>1, <2>2
<1>6. CASE StreamFails
  <2>1. /\ wpc = "fetch" /\ wpc' = "sendErr" /\ fault' = "stream"
        /\ UNCHANGED <<fetched, buf, chunk, final>>
    BY <1>6 DEF StreamFails
  <2>2. BufferOK' /\ (RxAlive => WorkerOK') /\ (~RxAlive => AfterDrop')
    BY <1>0, <1>1, <1>2, <2>1 DEF IInv, BufferOK, WorkerOK, AfterDrop
  <2> QED
    BY <1>0, <1>1, <2>1, <2>2 DEF IInv, RxAlive, EndIsComplete
<1> QED
  BY <1>3, <1>4, <1>5, <1>6

\* The worker converts, sends, or finds the receiver gone.
LEMMA SendStep ==
    ASSUME IInv, TypeOK', Convert \/ SendBatch \/ SendError \/ SendDisconnected
    PROVE  IInv'
<1> USE StreamBridgeAssumption DEF cvars
<1>0. /\ UNCHANGED <<fetched, buf, chunk, final, seen, outcome, cpc, atDrop>>
      /\ wpc # "exit"
  BY DEF Convert, SendBatch, SendError, SendDisconnected
<1>1. PrefixInOrder' /\ Len(seen)' = Len(seen) /\ (RxAlive' <=> RxAlive)
  BY <1>0 DEF IInv, PrefixInOrder, RxAlive
<1>2. fetched \in 0..NRows
  BY DEF IInv, TypeOK
<1>3. EndIsComplete' /\ (outcome' = "end" => wpc' = "exit")
  BY <1>0 DEF IInv, EndIsComplete
<1>4. CASE Convert
  <2>1. chan' = chan /\ wpc = "convert" /\ wpc' \in {"send", "sendErr", "exit"}
    BY <1>4 DEF Convert
  <2>2. /\ RxAlive => QueueOK'
        /\ NOk' = NOk /\ EndOf(NOk)' = EndOf(NOk) /\ Len(chan)' = Len(chan)
    BY <1>0, <2>1, QueueFrame DEF IInv
  <2>3. BufferOK' /\ (RxAlive => WorkerOK') /\ (~RxAlive => AfterDrop')
    BY <1>0, <1>2, <1>4, <2>1, <2>2
       DEF Convert, IInv, BufferOK, WorkerOK, AfterDrop, WellCut, Size
  <2> QED
    BY <1>0, <1>1, <1>3, <2>2, <2>3 DEF IInv
<1>5. CASE SendBatch
  <2>1. /\ RxAlive /\ wpc = "send" /\ chan' = Append(chan, chunk) /\ fault' = fault
        /\ Len(chan) < Capacity /\ wpc' = IF final THEN "exit" ELSE "fetch"
    BY <1>5 DEF SendBatch
  <2>2. chunk \in Intervals /\ chunk.tag = "ok" /\ WellCut(chunk) /\ chunk.to = fetched
    BY <2>1 DEF IInv, BufferOK, TypeOK
  <2>3. NOk = Len(chan) /\ chunk.from = EndOf(NOk) /\ fault = "none"
    BY <2>1 DEF IInv, WorkerOK
  <2>4. QueueOK' /\ NOk' = Len(chan') /\ EndOf(NOk)' = fetched
    BY <1>0, <2>1, <2>2, <2>3, QueueAppend DEF IInv
  <2>5. BufferOK' /\ WorkerOK'
    BY <1>0, <1>2, <2>1, <2>3, <2>4 DEF IInv, BufferOK, WorkerOK
  <2> QED
    BY <1>0, <1>1, <1>3, <2>1, <2>4, <2>5 DEF IInv
<1>6. CASE SendError
  <2>1. /\ RxAlive /\ wpc = "sendErr" /\ chan' = Append(chan, ErrMsg) /\ fault' = fault
        /\ Len(chan) < Capacity /\ wpc' = "exit"
    BY <1>6 DEF SendError
  <2>2. NOk = Len(chan)
    BY <2>1 DEF IInv, WorkerOK
  <2>3. QueueOK' /\ NOk' = NOk /\ NOk' # Len(chan') /\ EndOf(NOk)' = EndOf(NOk)
    BY <1>0, <2>1, <2>2, QueueAppendError DEF IInv
  <2>4. BufferOK' /\ WorkerOK'
    BY <1>0, <2>1, <2>3 DEF IInv, BufferOK, WorkerOK
  <2> QED
    BY <1>0, <1>1, <1>3, <2>1, <2>3, <2>4 DEF IInv
<1>7. CASE SendDisconnected
  <2>1. ~RxAlive /\ wpc' = "exit"
    BY <1>7 DEF SendDisconnected
  <2>2. BufferOK' /\ AfterDrop'
    BY <1>0, <2>1 DEF IInv, BufferOK, AfterDrop
  <2> QED
    BY <1>0, <1>1, <1>3, <2>1, <2>2 DEF IInv
<1> QED
  BY <1>4, <1>5, <1>6, <1>7

\* The caller asks, receives, fails or gives up.
LEMMA ConsumerStep ==
    ASSUME IInv, TypeOK', Consumer
    PROVE  IInv'
<1> USE StreamBridgeAssumption DEF wvars
<1>0. UNCHANGED <<wpc, fetched, buf, chunk, final>>
  BY DEF Consumer, Batches, CallNext, RecvBatch, RecvUnconvertible, RecvError,
         RecvDisconnected, Cancel
<1>1. BufferOK'
  BY <1>0 DEF IInv, BufferOK, WellCut, Size
<1>2. RxAlive /\ cpc # "done"
  BY DEF Consumer, Batches, CallNext, RecvBatch, RecvUnconvertible, RecvError,
         RecvDisconnected, Cancel, IInv
<1>3. CASE Batches \/ CallNext
  <2>1. /\ UNCHANGED <<chan, seen, outcome, atDrop, fault>>
        /\ cpc' # "done"
    BY <1>3 DEF Batches, CallNext
  <2>2. /\ QueueOK' /\ PrefixInOrder' /\ NOk' = NOk /\ EndOf(NOk)' = EndOf(NOk)
        /\ Len(chan)' = Len(chan) /\ Len(seen)' = Len(seen)
    BY <1>2, <2>1, QueueFrame DEF IInv
  <2>3. WorkerOK'
    BY <1>0, <1>2, <2>1, <2>2 DEF IInv, WorkerOK
  <2> QED
    BY <1>0, <1>1, <1>2, <2>1, <2>2, <2>3 DEF IInv, RxAlive, EndIsComplete
<1>4. CASE RecvBatch
  <2>1. /\ UNCHANGED <<outcome, atDrop, fault>> /\ cpc' = "idle"
        /\ chan # <<>> /\ Head(chan).tag = "ok"
        /\ chan' = Tail(chan) /\ seen' = seen \o RowsOf(Head(chan))
    BY <1>4 DEF RecvBatch
  <2>2. /\ QueueOK' /\ PrefixInOrder' /\ Len(chan') = Len(chan) - 1
        /\ NOk' = NOk - 1 /\ EndOf(NOk)' = EndOf(NOk) /\ Len(seen') = Head(chan).to
    BY <1>2, <2>1, QueueTail DEF IInv
  <2>3. Len(chan) \in Nat /\ NOk \in Int
    BY DEF IInv, TypeOK, NOk
  <2>4. WorkerOK'
    <3>1. WorkerOK
      BY <1>2 DEF IInv
    <3>2. (NOk' = Len(chan)') <=> (NOk = Len(chan))
      BY <2>2, <2>3
    <3> QED
      BY <1>0, <2>1, <2>2, <3>1, <3>2 DEF WorkerOK
  <2>5. Len(seen') <= NRows
    <3>1. 1 \in 1..Len(chan) /\ Head(chan) = chan[1]
      BY <2>1, EmptySeq DEF IInv, TypeOK
    <3> QED
      BY <2>2, <3>1, QueueTypes DEF IInv
  <2> QED
    BY <1>0, <1>1, <1>2, <2>1, <2>2, <2>4, <2>5 DEF IInv, RxAlive, EndIsComplete
<1>5. CASE RecvUnconvertible \/ RecvError \/ RecvDisconnected \/ Cancel
  <2>1. /\ seen' = seen /\ cpc' = "done" /\ outcome' # "open" /\ atDrop' = fetched
    BY <1>5 DEF RecvUnconvertible, RecvError, RecvDisconnected, Cancel, DropRx
  <2>2. AfterDrop'
    BY <1>0, <2>1 DEF AfterDrop, IInv, BufferOK, TypeOK
  <2>3. EndIsComplete' /\ (outcome' = "end" => wpc' = "exit")
    <3>1. CASE RecvDisconnected
      <4>1. chan = <<>> /\ wpc = "exit" /\ fault' = fault
        BY <3>1 DEF RecvDisconnected
      <4>2. Len(chan) = 0 /\ NOk = 0 /\ EndOf(NOk) = Len(seen)
        BY <4>1 DEF NOk, EndOf
      <4>3. (fault = "none" /\ Len(seen) = NRows) \/ fault = "panic"
        BY <1>2, <4>1, <4>2 DEF IInv, WorkerOK
      <4> QED
        BY <1>0, <2>1, <4>1, <4>3 DEF EndIsComplete
    <3>2. CASE RecvUnconvertible \/ RecvError \/ Cancel
      BY <3>2 DEF RecvUnconvertible, RecvError, Cancel, DropRx, EndIsComplete
    <3> QED
      BY <1>5, <3>1, <3>2
  <2> QED
    BY <1>0, <1>1, <2>1, <2>2, <2>3 DEF IInv, RxAlive, PrefixInOrder
<1> QED
  BY <1>3, <1>4, <1>5 DEF Consumer

\* Every step keeps the inductive invariant.
LEMMA InvStep == IInv /\ [Next]_vars => IInv'
<1> SUFFICES ASSUME IInv, [Next]_vars PROVE IInv'
  OBVIOUS
<1>1. TypeOK'
  BY TypeStep DEF IInv
<1>2. CASE Worker
  BY <1>1, <1>2, SourceStep, SendStep DEF Worker
<1>3. CASE Consumer
  BY <1>1, <1>3, ConsumerStep
<1>4. CASE UNCHANGED vars
  <2>1. UNCHANGED <<wpc, fetched, buf, chunk, final, chan, seen, outcome, cpc,
                    atDrop, fault>>
    BY <1>4 DEF vars, wvars, cvars
  <2>2. /\ QueueOK => QueueOK'
        /\ NOk' = NOk /\ EndOf(NOk)' = EndOf(NOk) /\ Len(chan)' = Len(chan)
        /\ PrefixInOrder => PrefixInOrder'
    BY <2>1, QueueFrame
  <2>3. BufferOK' /\ (RxAlive => WorkerOK') /\ (~RxAlive => AfterDrop')
    BY <2>1, <2>2 DEF IInv, BufferOK, WorkerOK, AfterDrop, WellCut, Size
  <2> QED
    BY <1>1, <2>1, <2>2, <2>3 DEF IInv, RxAlive, EndIsComplete
<1> QED
  BY <1>2, <1>3, <1>4 DEF Next, Terminated

\* The inductive invariant holds throughout.
LEMMA Invariance == Spec => []IInv
<1> QED
  BY InvInit, InvStep, PTL DEF Spec

----------------------------------------------------------------------------
(* The theorems. *)

\* The rows returned are a prefix of the source, in order and once each.
THEOREM Order == Spec => []PrefixInOrder
<1>1. IInv => PrefixInOrder
  BY DEF IInv
<1> QED
  BY <1>1, Invariance, PTL

\* next() says None only after every row, or after a panic of the worker.
THEOREM EndOfStream == Spec => []EndIsComplete
<1>1. IInv => EndIsComplete
  BY DEF IInv
<1> QED
  BY <1>1, Invariance, PTL

\* A dropped receiver costs the source at most one more batch.
THEOREM BoundedCancel == Spec => []CancelBound
<1>1. IInv => CancelBound
  BY DEF IInv, AfterDrop, CancelBound
<1> QED
  BY <1>1, Invariance, PTL

\* Queued batches, and one more, bound the rows between source and caller.
THEOREM BoundedMemory == Spec => []InFlightBound
<1>1. IInv => InFlightBound
  <2> SUFFICES ASSUME IInv, RxAlive
               PROVE  fetched - Len(seen) <= (Capacity + 1) * BatchSize
    BY DEF InFlightBound
  <2> USE StreamBridgeAssumption
  <2>1. /\ Len(seen) \in Nat /\ Len(chan) \in Nat /\ fetched \in Nat
        /\ Len(chan) <= Capacity /\ NOk \in 0..Len(chan)
    BY EmptySeq DEF IInv, TypeOK, QueueOK, NOk
  <2>2. fetched <= EndOf(NOk) + BatchSize
    BY DEF IInv, WorkerOK
  <2>3. EndOf(NOk) <= Len(seen) + NOk * BatchSize /\ EndOf(NOk) \in Nat
    <3>1. CASE NOk = 0
      BY <2>1, <3>1 DEF EndOf
    <3>2. CASE NOk # 0
      <4>1. /\ 1 \in 1..NOk /\ NOk \in 1..NOk
            /\ chan[1].to \in Nat /\ chan[NOk].to \in Nat /\ chan[1].from \in Nat
        BY <2>1, <3>2, QueueTypes DEF IInv
      <4>2. chan[1].to <= Len(seen) + BatchSize
        BY <2>1, <4>1 DEF IInv, QueueOK, EndOf, WellCut, Size
      <4>3. chan[NOk].to <= chan[1].to + (NOk - 1) * BatchSize
        BY SMTT(20), <2>1, <4>1 DEF IInv, QueueOK
      <4>4. NOk * BatchSize = (NOk - 1) * BatchSize + BatchSize
        <5>1. NOk - 1 \in Int /\ (NOk - 1) + 1 = NOk
          BY <2>1
        <5> QED
          BY <5>1, NextMultiple
      <4>5. (NOk - 1) * BatchSize \in Int
        BY <2>1
      <4> QED
        BY SMTT(20), <2>1, <3>2, <4>1, <4>2, <4>3, <4>4, <4>5 DEF EndOf
    <3> QED
      BY <3>1, <3>2
  <2>4. NOk * BatchSize <= Capacity * BatchSize
    BY <2>1
  <2>5. (Capacity + 1) * BatchSize = Capacity * BatchSize + BatchSize
    BY NextMultiple
  <2>6. NOk * BatchSize \in Int /\ Capacity * BatchSize \in Int
    BY <2>1
  <2> QED
    BY <2>1, <2>2, <2>3, <2>4, <2>5, <2>6
<1> QED
  BY <1>1, Invariance, PTL

\* A finished iterator delivers nothing more.
THEOREM NothingAfterTheEnd == Spec => FinishedStaysFinished
<1>1. IInv /\ [Next]_vars => [~RxAlive => UNCHANGED <<seen, outcome>>]_vars
  <2> SUFFICES ASSUME IInv, Next, ~RxAlive PROVE UNCHANGED <<seen, outcome>>
    OBVIOUS
  <2>1. ~Consumer
    BY DEF IInv, Consumer, Batches, CallNext, RecvBatch, RecvUnconvertible,
           RecvError, RecvDisconnected, Cancel
  <2>2. CASE Worker
    BY <2>2 DEF Worker, OpenSource, FetchRow, StreamEnd, StreamFails, Convert,
                SendBatch, SendError, SendDisconnected, cvars
  <2>3. CASE Terminated
    BY <2>3 DEF Terminated, vars, cvars
  <2> QED
    BY <2>1, <2>2, <2>3 DEF Next
<1> QED
  BY <1>1, Invariance, PTL DEF Spec, FinishedStaysFinished

----------------------------------------------------------------------------
(* The bridge implements the iterator of LayerReader::batches(). *)

\* Receiving a batch is the abstract Yield.
LEMMA RecvIsYield ==
    ASSUME IInv, RecvBatch PROVE Layer!Yield
<1> USE StreamBridgeAssumption
<1> DEFINE b == Head(chan)
<1>1. /\ RxAlive /\ UNCHANGED outcome /\ seen' = seen \o RowsOf(b)
      /\ chan # <<>> /\ b.tag = "ok" /\ b = chan[1]
      /\ 1 \in 1..Len(chan) /\ Len(chan) \in Nat /\ Len(seen) \in Nat
  BY EmptySeq DEF RecvBatch, IInv, TypeOK
<1>2. 1 \in 1..NOk
  BY <1>1 DEF NOk
<1>3. b.from = Len(seen) /\ WellCut(b) /\ b.from \in 0..NRows /\ b.to \in 0..NRows
  BY <1>1, <1>2, QueueTypes DEF IInv, QueueOK, EndOf
<1>4. RowsOf(b) = Layer!RowsAfter(Len(seen), Size(b))
  BY <1>3 DEF RowsOf, Layer!RowsAfter
<1>5. /\ Size(b) \in 1..BatchSize /\ Len(seen) + Size(b) = b.to
      /\ Size(b) = BatchSize \/ b.to = NRows
  BY <1>3 DEF WellCut, Size
<1>6. seen' = seen \o Layer!RowsAfter(Len(seen), Size(b))
  BY <1>1, <1>4
<1>7. \E n \in 1..BatchSize : /\ Len(seen) + n <= NRows
                              /\ n = BatchSize \/ Len(seen) + n = NRows
                              /\ seen' = seen \o Layer!RowsAfter(Len(seen), n)
  <2>1. Len(seen) + Size(b) <= NRows
    BY <1>3, <1>5
  <2>2. Size(b) = BatchSize \/ Len(seen) + Size(b) = NRows
    BY <1>5
  <2> QED
    BY <1>5, <1>6, <2>1, <2>2
<1> QED
  BY <1>1, <1>7 DEF Layer!Yield, RxAlive, Verdict, RecvBatch

\* Every step of the bridge is a step of the iterator, or hidden from it.
LEMMA StepRefines ==
    ASSUME IInv, [Next]_vars PROVE [Layer!Next]_(Layer!vars)
<1>1. CASE Worker
  <2>1. UNCHANGED <<seen, outcome>>
    BY <1>1 DEF Worker, OpenSource, FetchRow, StreamEnd, StreamFails, Convert,
       SendBatch, SendError, SendDisconnected, cvars
  <2>2. outcome = "end" => fault' = fault
    BY <1>1 DEF IInv, Worker, OpenSource, FetchRow, StreamEnd, StreamFails,
       Convert, SendBatch, SendError, SendDisconnected
  <2> QED
    BY <2>1, <2>2 DEF Layer!vars, Verdict
<1>2. CASE RecvBatch
  BY <1>2, RecvIsYield DEF Layer!Next
<1>3. CASE Batches \/ CallNext
  BY <1>3 DEF Batches, CallNext, Layer!vars, Verdict
<1>4. CASE RecvUnconvertible \/ RecvError
  <2>1. RxAlive
    BY <1>4 DEF RecvUnconvertible, RecvError, IInv
  <2>2. Layer!Fail
    BY <1>4, <2>1 DEF RecvUnconvertible, RecvError, DropRx, Layer!Fail, RxAlive,
       Verdict
  <2> QED
    BY <2>2 DEF Layer!Next
<1>5. CASE RecvDisconnected
  <2>1. RxAlive /\ outcome' = "end" /\ seen' = seen /\ fault' = fault
    BY <1>5 DEF RecvDisconnected, DropRx, IInv
  <2>2. IInv'
    BY InvStep
  <2>3. CASE fault = "panic"
    BY <2>1, <2>3 DEF Layer!Next, Layer!Fail, RxAlive, Verdict
  <2>4. CASE fault # "panic"
    <3>1. Len(seen) = NRows
      BY <2>1, <2>2, <2>4 DEF IInv, EndIsComplete
    <3> QED
      BY <2>1, <2>4, <3>1 DEF Layer!Next, Layer!End, RxAlive, Verdict
  <2> QED
    BY <2>3, <2>4
<1>6. CASE Cancel
  <2>1. RxAlive
    BY <1>6 DEF Cancel, IInv
  <2> QED
    BY <1>6, <2>1 DEF Cancel, DropRx, Layer!Next, Layer!Cancel, RxAlive, Verdict
<1>7. CASE UNCHANGED vars
  BY <1>7 DEF vars, cvars, Layer!vars, Verdict
<1> QED
  BY <1>1, <1>2, <1>3, <1>4, <1>5, <1>6, <1>7 DEF Next, Consumer, Terminated

\* The safety part of RefinesLayerStream: the thread, the channel and the
\* iterator implement LayerStream.
THEOREM Implements == Spec => Layer!Init /\ [][Layer!Next]_(Layer!vars)
<1>1. Init => Layer!Init
  BY StreamBridgeAssumption DEF Init, Layer!Init, Verdict
<1>2. IInv /\ [Next]_vars => [Layer!Next]_(Layer!vars)
  BY StepRefines
<1> QED
  BY <1>1, <1>2, Invariance, PTL DEF Spec
============================================================================
