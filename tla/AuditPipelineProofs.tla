------------------------ MODULE AuditPipelineProofs ------------------------
(***************************************************************************)
(* The audit pipeline for any number of events, any capacities and any     *)
(* combination of faults: where a logged event is, or what became of it,   *)
(* and where a second row can come from.                                   *)
(***************************************************************************)
EXTENDS AuditPipeline, FiniteSetTheorems, SequenceTheorems, TLAPS

\* What TypeOK needs to be inductive: the buffer is finite, and only a consumer, reader, loop
\* that is about to flush holds a full batch.
Shape ==
  /\ IsFiniteSet(fallback)
  /\ cpc # "full" => Len(batch) < BatchMax

\* A consumer that has stopped, or whose process is gone, holds nothing.
Idle == phase \in {"stopped", "closed", "down"} => batch = <<>>

PipeInv == TypeOK /\ Shape /\ Idle

LEMMA EmptyBatch ==
  /\ Cardinality({}) = 0 /\ IsFiniteSet({}) /\ Len(<<>>) = 0 /\ 0 < BatchMax
  /\ \A S : <<>> \in Seq(S)
<1>1. Len(<<>>) = 0 /\ \A S : <<>> \in Seq(S)
  OBVIOUS
<1> QED BY <1>1, FS_EmptySet, PipelineAssumption

\* A number within a bound is within a greater one.
LEMMA Wider ==
  ASSUME NEW m \in Nat, NEW n \in Nat, m <= n
  PROVE  /\ \A x \in 0..m : x \in 0..n
         /\ \A q \in Seq(1..m) : q \in Seq(1..n)
<1>1. \A x \in 0..m : x \in 0..n OBVIOUS
<1>2. 1..m \subseteq 1..n OBVIOUS
<1>3. ASSUME NEW q \in Seq(1..m) PROVE q \in Seq(1..n)
  <2>1. Len(q) \in Nat /\ q \in [1..Len(q) -> 1..m] BY LenProperties
  <2>2. q \in [1..Len(q) -> 1..n] BY <2>1, <1>2
  <2>3. q \in UNION {[1..k -> 1..n] : k \in Nat} BY <2>1, <2>2
  <2> QED BY <2>3, SeqDef, Zenon
<1> QED BY <1>1, <1>3

LEMMA InitPipe == Init => PipeInv
<1> SUFFICES ASSUME Init PROVE PipeInv
  OBVIOUS
<1>1. TypeOK
  <2>1. topic = <<>> /\ topic \in Seq(Events) /\ Len(topic) = 0
    BY DEF Init
  <2>2. Cardinality(fallback) <= FallbackCap /\ batch \in Seq(1..seen) /\ Len(batch) <= BatchMax
    BY EmptyBatch, PipelineAssumption DEF Init
  <2>3. rows \in [Events -> 0 .. 2] /\ why \in [Events -> SUBSET Causes]
    BY DEF Init
  <2>4. /\ seen \in 0..Len(topic) /\ Len(topic) <= MaxTopic /\ rebalances \in 0..MaxRebalances
        /\ pos \in 0..seen /\ msg \in 0..seen /\ pending \in 0..seen /\ committed \in 0..seen
    BY <2>1, PipelineAssumption DEF Init
  <2> QED
    BY <2>1, <2>2, <2>3, <2>4 DEF Init, TypeOK, Phases
<1>2. Shape
  BY EmptyBatch DEF Init, Shape
<1> QED
  BY <1>1, <1>2 DEF PipeInv, Idle, Init

\* Discarding only adds causes.
LEMMA DiscardType ==
  ASSUME why \in [Events -> SUBSET Causes], NEW S, NEW c \in Causes, Discard(S, c)
  PROVE  /\ why' \in [Events -> SUBSET Causes]
         /\ \A e \in Events : why[e] \subseteq why'[e]
         /\ \A e \in Events : e \in S => why'[e] # {}
BY DEF Discard

\* The offsets of the batch are those of messages in the topic.
LEMMA HeldType ==
  ASSUME PipeInv
  PROVE  /\ Len(batch) \in Nat /\ DOMAIN batch = 1..Len(batch)
         /\ Len(topic) \in Nat /\ seen \in Nat /\ seen <= Len(topic)
         /\ \A n \in DOMAIN batch : /\ batch[n] \in 1..seen /\ batch[n] \in 1..Len(topic)
                                    /\ batch[n] \in Held /\ topic[batch[n]] \in Events
         /\ \A i \in Held : i \in 1..seen /\ i \in 1..Len(topic) /\ topic[i] \in Events
<1>1. Len(batch) \in Nat /\ DOMAIN batch = 1..Len(batch) /\ \A n \in DOMAIN batch : batch[n] \in 1..seen
  BY DEF PipeInv, TypeOK
<1>2. Len(topic) \in Nat /\ seen \in Nat /\ seen <= Len(topic)
      /\ \A i \in 1..Len(topic) : topic[i] \in Events
  BY DEF PipeInv, TypeOK
<1>3. \A i \in 1..seen : i \in 1..Len(topic) BY <1>2
<1> QED BY <1>1, <1>2, <1>3 DEF Held

LEMMA CopiesType ==
  ASSUME PipeInv, NEW e
  PROVE  /\ IsFiniteSet({n \in DOMAIN batch : topic[batch[n]] = e})
         /\ Copies(e) \in Nat
<1>1. Len(batch) \in Nat /\ DOMAIN batch = 1..Len(batch)
  BY HeldType
<1>2. IsFiniteSet(DOMAIN batch)
  BY <1>1, FS_Interval
<1>3. IsFiniteSet({n \in DOMAIN batch : topic[batch[n]] = e})
  BY <1>2, FS_Subset
<1> QED
  BY <1>3, FS_CardinalityType DEF Copies

\* A flush empties the batch: what it held has a row now, or a cause of loss.
LEMMA FlushResult ==
  ASSUME PipeInv, NEW ok \in BOOLEAN, Flush(ok)
  PROVE  /\ batch' = <<>> /\ rows' \in [Events -> 0 .. 2]
         /\ why' \in [Events -> SUBSET Causes]
         /\ \A e \in Events : why[e] \subseteq why'[e] /\ (rows[e] > 0 => rows'[e] > 0)
         /\ \A i \in Held : rows'[topic[i]] > 0 \/ why'[topic[i]] # {}
         /\ \A e \in Events : rows'[e] \in {rows[e], AtMost2(rows[e] + Copies(e))}
<1>1. batch' = <<>> /\ rows \in [Events -> 0 .. 2] /\ why \in [Events -> SUBSET Causes]
  BY DEF Flush, PipeInv, TypeOK
<1>2. \A e \in Events : Copies(e) \in Nat
  BY CopiesType
<1>3. \A i \in Held : topic[i] \in Events
  BY HeldType
<1>4. CASE ok /\ Content(Held) \cap Poison = {}
  <2>1. rows' = [e \in Events |-> AtMost2(rows[e] + Copies(e))] /\ why' = why
    BY <1>4 DEF Flush
  <2>2. \A e \in Events : AtMost2(rows[e] + Copies(e)) \in 0 .. 2
                          /\ (rows[e] + Copies(e) > 0 => AtMost2(rows[e] + Copies(e)) > 0)
                          /\ (rows[e] > 0 => rows[e] + Copies(e) > 0)
    BY <1>1, <1>2 DEF AtMost2
  <2>3. ASSUME NEW i \in Held PROVE Copies(topic[i]) > 0
    <3> DEFINE S == {n \in DOMAIN batch : topic[batch[n]] = topic[i]}
    <3>1. PICK n \in DOMAIN batch : batch[n] = i BY DEF Held
    <3>2. IsFiniteSet(S) /\ n \in S
      BY <3>1, CopiesType
    <3>3. Cardinality(S) # 0
      BY <3>2, FS_EmptySet
    <3>4. Copies(topic[i]) = Cardinality(S)
      BY DEF Copies
    <3> QED
      BY <1>2, <1>3, <3>3, <3>4
  <2>4. \A i \in Held : rows'[topic[i]] > 0
    <3> SUFFICES ASSUME NEW i \in Held PROVE rows'[topic[i]] > 0
      OBVIOUS
    <3>1. rows[topic[i]] \in 0 .. 2 /\ Copies(topic[i]) \in Nat
          /\ Copies(topic[i]) > 0 /\ topic[i] \in Events
      BY <1>1, <1>2, <1>3, <2>3
    <3> QED
      BY <2>1, <2>2, <3>1
  <2> QED
    BY <1>1, <2>1, <2>2, <2>4
<1>5. CASE ~(ok /\ Content(Held) \cap Poison = {})
  <2>1. rows' = rows /\ Discard(Content(Held), "flush")
    BY <1>5 DEF Flush
  <2>2. \A i \in Held : topic[i] \in Content(Held)
    BY DEF Content
  <2> QED
    BY <1>1, <1>3, <2>1, <2>2, DiscardType DEF Causes
<1> QED
  BY <1>4, <1>5

\* What appending one offset does to the batch.
LEMMA BatchGrows ==
  ASSUME PipeInv, NEW x, batch' = Append(batch, x)
  PROVE  /\ Len(batch') = Len(batch) + 1 /\ DOMAIN batch' = 1..(Len(batch) + 1)
         /\ batch'[Len(batch) + 1] = x
         /\ \A n \in 1..Len(batch) : batch'[n] = batch[n]
         /\ Held' = Held \cup {x}
<1>1. batch \in Seq(1..seen) /\ Len(batch) \in Nat /\ DOMAIN batch = 1..Len(batch)
  BY HeldType DEF PipeInv, TypeOK
<1>2. /\ Len(batch') = Len(batch) + 1 /\ DOMAIN batch' = 1..(Len(batch) + 1)
      /\ batch'[Len(batch) + 1] = x
      /\ \A n \in 1..Len(batch) : batch'[n] = batch[n]
  BY <1>1, AppendProperties
<1>3. \A n \in 1..(Len(batch) + 1) : n \in 1..Len(batch) \/ n = Len(batch) + 1
  BY <1>1
<1>4. \A n \in 1..Len(batch) : n \in 1..(Len(batch) + 1)
  BY <1>1
<1>5. Len(batch) + 1 \in 1..(Len(batch) + 1)
  BY <1>1
<1>6. Held' = {batch'[n] : n \in DOMAIN batch'} BY DEF Held
<1> QED BY <1>1, <1>2, <1>3, <1>4, <1>5, <1>6 DEF Held

LEMMA LogKeeps ==
  ASSUME PipeInv, NEW e \in Events, LogDirect(e) \/ PublishFallback(e) \/ Publish(e)
  PROVE  PipeInv'
<1> USE DEF PipeInv, TypeOK, Shape, Idle
<1>1. CASE LogDirect(e)
  <2>1. /\ logged' = logged \cup {e}
        /\ UNCHANGED <<enabled, phase, brokerUp, producer, topic, consumer, doubled>>
    BY <1>1 DEF LogDirect
  <2>2. rows' \in [Events -> 0 .. 2] /\ why' \in [Events -> SUBSET Causes]
    BY <1>1, DiscardType DEF LogDirect, Causes
  <2> QED
    BY <2>1, <2>2 DEF producer, consumer, reader, loop
<1>2. CASE PublishFallback(e)
  <2>1. /\ logged' = logged \cup {e}
        /\ UNCHANGED <<enabled, phase, brokerUp, writer, topic, consumer, rows, doubled>>
    BY <1>2 DEF PublishFallback
  <2>2. /\ fallback' \in SUBSET logged' /\ IsFiniteSet(fallback')
        /\ Cardinality(fallback') <= FallbackCap /\ why' \in [Events -> SUBSET Causes]
    <3>1. CASE Cardinality(fallback) < FallbackCap /\ fallback' = fallback \cup {e} /\ why' = why
      <4>1. /\ IsFiniteSet(fallback \cup {e}) /\ Cardinality(fallback) \in Nat
            /\ Cardinality(fallback \cup {e}) \in
                 {Cardinality(fallback), Cardinality(fallback) + 1}
        BY FS_AddElement, FS_CardinalityType
      <4> QED
        BY <2>1, <3>1, <4>1, PipelineAssumption
    <3>2. CASE fallback' = fallback /\ Discard({e}, "saturated")
      BY <2>1, <3>2, DiscardType DEF Causes
    <3> QED
      BY <1>2, <3>1, <3>2 DEF PublishFallback
  <2> QED
    BY <2>1, <2>2 DEF consumer, reader, loop
<1>3. CASE Publish(e)
  BY <1>3 DEF Publish, consumer, reader, loop
<1> QED
  BY <1>1, <1>2, <1>3

LEMMA ProducerKeeps ==
  ASSUME PipeInv, NEW e \in Events, WriterSend(e) \/ WriterGiveUp(e) \/ DrainFallback(e)
  PROVE  PipeInv'
<1> USE DEF PipeInv, TypeOK, Shape, Idle
<1>1. CASE WriterSend(e)
  <2>1. /\ topic' = Append(topic, e) /\ Len(topic) < MaxTopic
        /\ UNCHANGED <<enabled, phase, brokerUp, logged, fallback, consumer, rows, why>>
        /\ writer' \subseteq writer /\ doubled' \in SUBSET Events
    BY <1>1 DEF WriterSend
  <2>2. topic' \in Seq(Events) /\ Len(topic') = Len(topic) + 1 /\ Len(topic) \in Nat
    BY <2>1
  <2>3. Len(topic') <= MaxTopic /\ seen \in 0..Len(topic')
    BY <2>1, <2>2, PipelineAssumption
  <2> QED
    BY <2>1, <2>2, <2>3 DEF consumer, reader, loop
<1>2. CASE WriterGiveUp(e)
  <2>1. why' \in [Events -> SUBSET Causes]
    BY <1>2, DiscardType DEF WriterGiveUp, Causes
  <2> QED
    BY <1>2, <2>1 DEF WriterGiveUp, consumer, reader, loop
<1>3. CASE DrainFallback(e)
  <2>1. why' \in [Events -> SUBSET Causes]
    BY <1>3, DiscardType DEF DrainFallback, Causes
  <2>2. fallback' = fallback \ {e} /\ e \in fallback
    BY <1>3 DEF DrainFallback
  <2>3. /\ IsFiniteSet(fallback') /\ Cardinality(fallback') = Cardinality(fallback) - 1
        /\ Cardinality(fallback) \in Nat
    BY <2>2, FS_RemoveElement, FS_CardinalityType
  <2>4. Cardinality(fallback') <= FallbackCap
    BY <2>3, PipelineAssumption
  <2> QED
    BY <1>3, <2>1, <2>2, <2>3, <2>4 DEF DrainFallback, consumer, reader, loop
<1> QED
  BY <1>1, <1>2, <1>3

LEMMA ConsumerKeeps ==
  ASSUME PipeInv, ConsumerStep \/ AutoCommit \/ Rebalance
  PROVE  PipeInv'
<1> USE DEF PipeInv, TypeOK, Shape, Idle
<1>1. Len(batch) \in Nat /\ seen \in Nat /\ Len(topic) \in Nat
  BY HeldType
<1>2. CASE Fetch
  <2>1. /\ pos < Len(topic) /\ pos' = pos + 1 /\ msg' = pos + 1 /\ batch' = Append(batch, pos + 1)
        /\ cpc = "loop" /\ phase = "up"
        /\ seen' = IF pos < seen THEN seen ELSE pos + 1
        /\ reread' = IF pos < seen THEN reread \cup {topic[pos + 1]} ELSE reread
        /\ UNCHANGED <<enabled, phase, brokerUp, logged, producer, topic, pending, committed,
                       rebalances, rows, doubled, why>>
    BY <1>2 DEF Fetch
  <2>2. cpc' \in {"full", "commit"} /\ (cpc' # "full" => ~(Len(batch) + 1 >= BatchMax))
    BY <1>2 DEF Fetch
  <2>3. Len(batch') = Len(batch) + 1 /\ Len(batch) < BatchMax
    BY <2>1, BatchGrows
  <2>4. Len(batch') <= BatchMax /\ (cpc' # "full" => Len(batch') < BatchMax)
    BY <1>1, <2>2, <2>3, PipelineAssumption
  <2>5. /\ seen' \in 0..Len(topic) /\ seen' \in Nat /\ seen <= seen' /\ pos + 1 \in 1..seen'
        /\ pos + 1 \in 0..seen' /\ pos + 1 \in 1..Len(topic)
    BY <1>1, <2>1
  <2>6. /\ batch \in Seq(1..seen') /\ pending \in 0..seen' /\ committed \in 0..seen'
    BY <1>1, <2>5, Wider
  <2>7. batch' \in Seq(1..seen')
    BY <2>1, <2>5, <2>6, AppendProperties
  <2>8. reread' \in SUBSET Events
    BY <2>1, <2>5
  <2> QED
    BY <2>1, <2>2, <2>4, <2>5, <2>6, <2>7, <2>8 DEF producer
<1>3. CASE FlushFull
  <2>1. PICK ok \in CtxOutcome : Flush(ok)
    BY <1>3 DEF FlushFull
  <2>2. ok \in BOOLEAN
    BY <2>1 DEF CtxOutcome, DbOutcome
  <2>3. /\ batch' = <<>> /\ rows' \in [Events -> 0 .. 2] /\ why' \in [Events -> SUBSET Causes]
    BY <2>1, <2>2, FlushResult
  <2> QED
    BY <1>3, <2>3, EmptyBatch, PipelineAssumption DEF FlushFull, producer, reader
<1>4. CASE CommitMessages
  <2>1. pending' \in {msg, pending} /\ msg' = 0
    BY <1>4 DEF CommitMessages
  <2> QED
    BY <1>1, <1>4, <2>1 DEF CommitMessages, producer
<1>5. CASE TickFlush
  <2>1. PICK ok \in CtxOutcome : Flush(ok)
    BY <1>5 DEF TickFlush
  <2>2. ok \in BOOLEAN
    BY <2>1 DEF CtxOutcome, DbOutcome
  <2>3. /\ batch' = <<>> /\ rows' \in [Events -> 0 .. 2] /\ why' \in [Events -> SUBSET Causes]
    BY <2>1, <2>2, FlushResult
  <2> QED
    BY <1>5, <2>3, EmptyBatch, PipelineAssumption DEF TickFlush, producer, reader
<1>6. CASE AutoCommit
  BY <1>1, <1>6 DEF AutoCommit, producer, loop
<1>7. CASE Rebalance
  <2>1. committed' \in {pending, committed} /\ pos' = committed' /\ pending' = 0
        /\ rebalances' \in 0..MaxRebalances
    BY <1>7, PipelineAssumption DEF Rebalance
  <2> QED
    BY <1>1, <1>7, <2>1 DEF Rebalance, producer, loop
<1> QED
  BY <1>2, <1>3, <1>4, <1>5, <1>6, <1>7 DEF ConsumerStep

LEMMA MainKeeps ==
  ASSUME PipeInv,
         Signal \/ StopConsumer \/ ConsumerStops \/ CloseProducer \/ Exit \/ Crash
           \/ Restart \/ Broker
  PROVE  PipeInv'
<1> USE DEF PipeInv, TypeOK, Shape, Idle
<1>0. Len(batch) \in Nat /\ seen \in Nat /\ Len(topic) \in Nat
  BY HeldType
<1>1. CASE Signal \/ StopConsumer \/ CloseProducer \/ Restart \/ Broker
  BY <1>1 DEF Signal, StopConsumer, CloseProducer, Restart, Broker, producer, consumer, reader,
              loop, Phases
<1>2. CASE ConsumerStops
  <2>1. PICK ok \in DbOutcome : Flush(ok)
    BY <1>2 DEF ConsumerStops
  <2>2. ok \in BOOLEAN
    BY <2>1 DEF DbOutcome
  <2>3. /\ batch' = <<>> /\ rows' \in [Events -> 0 .. 2] /\ why' \in [Events -> SUBSET Causes]
    BY <2>1, <2>2, FlushResult
  <2>4. committed' \in {pending, committed} /\ pending' = 0
    BY <1>2 DEF ConsumerStops
  <2> QED
    BY <1>0, <1>2, <2>3, <2>4, EmptyBatch, PipelineAssumption DEF ConsumerStops, producer, Phases
<1>3. CASE Exit
  <2>1. why' \in [Events -> SUBSET Causes]
    BY <1>3, DiscardType DEF Exit, Causes
  <2> QED
    BY <1>0, <1>3, <2>1, EmptyBatch, PipelineAssumption DEF Exit, ProcessEnds, Phases
<1>4. CASE Crash
  <2>1. why' \in [Events -> SUBSET Causes]
    BY <1>4, DiscardType DEF Crash, Causes
  <2> QED
    BY <1>0, <1>4, <2>1, EmptyBatch, PipelineAssumption DEF Crash, ProcessEnds, Phases
<1> QED
  BY <1>1, <1>2, <1>3, <1>4

LEMMA NextPipe == PipeInv /\ [Next]_vars => PipeInv'
<1> SUFFICES ASSUME PipeInv, [Next]_vars PROVE PipeInv'
  OBVIOUS
<1>1. CASE UNCHANGED vars
  BY <1>1 DEF vars, producer, consumer, reader, loop, PipeInv, TypeOK, Shape, Idle
<1> QED
  BY <1>1, LogKeeps, ProducerKeeps, ConsumerKeeps, MainKeeps DEF Next

LEMMA PipeInvariant == Spec => []PipeInv
BY InitPipe, NextPipe, PTL DEF Spec

\* The sets, the topic and the batch, the counters and the histories keep their
\* types, for any capacities and any number of events.
THEOREM PipelineTypeCorrect == Spec => []TypeOK
BY PipeInvariant, PTL DEF PipeInv

-----------------------------------------------------------------------------
(* Nothing is lost without a cause. *)

\* The message at offset i will not be given to the consumer any more, unless
\* the reader is set back.
Covered(i) == i <= pos \/ i <= committed \/ i <= pending \/ i <= msg

\* It is in the batch, or stored, or discarded.
Handled(i) == i \in Held \/ rows[topic[i]] > 0 \/ why[topic[i]] # {}

\* No offset runs ahead of what has been handled, wherever it is kept: what is
\* committed may be lost from memory, but then for a cause.
Behind == \A i \in 1 .. Len(topic) : Covered(i) => Handled(i)

\* An event that was logged is somewhere.
Somewhere(e) ==
  \/ rows[e] > 0 \/ why[e] # {} \/ e \in writer \/ e \in fallback
  \/ \E i \in 1 .. Len(topic) : topic[i] = e

LossInv == Behind /\ \A e \in logged : Somewhere(e)

\* Rows and causes are not taken back.
Lasting == \A e \in Events : why[e] \subseteq why'[e] /\ (rows[e] > 0 => rows'[e] > 0)

\* A step that covers nothing new keeps Behind if what it takes out of the batch
\* is stored or discarded.
LEMMA BehindKept ==
  ASSUME PipeInv, Behind, Lasting, topic' = topic,
         \A i \in 1 .. Len(topic) : Covered(i)' => Covered(i),
         \A i \in Held : Covered(i)' =>
            i \in Held' \/ rows'[topic[i]] > 0 \/ why'[topic[i]] # {}
  PROVE  Behind'
<1> SUFFICES ASSUME NEW i \in 1 .. Len(topic), Covered(i)'
             PROVE  i \in Held' \/ rows'[topic[i]] > 0 \/ why'[topic[i]] # {}
  BY DEF Behind, Handled
<1>1. Handled(i)
  BY DEF Behind
<1>2. topic[i] \in Events
  BY DEF PipeInv, TypeOK
<1> QED BY <1>1, <1>2 DEF Handled, Lasting

LEMMA AlwaysLasting == PipeInv /\ [Next]_vars => Lasting
<1> SUFFICES ASSUME PipeInv, [Next]_vars PROVE Lasting
  OBVIOUS
<1>0. why \in [Events -> SUBSET Causes] /\ rows \in [Events -> 0..2]
  BY DEF PipeInv, TypeOK
<1>1. ASSUME NEW f \in Events, LogDirect(f) PROVE Lasting
  <2>1. \A e \in Events : rows[e] > 0 => rows'[e] > 0
    BY <1>0, <1>1 DEF LogDirect
  <2>2. \A e \in Events : why[e] \subseteq why'[e]
    BY <1>0, <1>1, DiscardType DEF LogDirect, Causes
  <2> QED BY <2>1, <2>2 DEF Lasting
<1>2. ASSUME NEW f \in Events, PublishFallback(f) \/ WriterGiveUp(f) \/ DrainFallback(f)
      PROVE  Lasting
  <2>1. rows' = rows
    BY <1>2 DEF PublishFallback, WriterGiveUp, DrainFallback
  <2>2. \A e \in Events : why[e] \subseteq why'[e]
    BY <1>0, <1>2, DiscardType DEF PublishFallback, WriterGiveUp, DrainFallback, Causes
  <2> QED BY <2>1, <2>2 DEF Lasting
<1>3. ASSUME NEW f \in Events, Publish(f) \/ WriterSend(f) PROVE Lasting
  BY <1>3 DEF Publish, WriterSend, Lasting
<1>4. CASE FlushFull \/ TickFlush \/ ConsumerStops
  <2>1. PICK ok \in BOOLEAN : Flush(ok)
    BY <1>4 DEF FlushFull, TickFlush, ConsumerStops, CtxOutcome, DbOutcome
  <2> QED BY <2>1, FlushResult DEF Lasting
<1>5. CASE Fetch \/ CommitMessages \/ AutoCommit \/ Rebalance \/ Signal \/ StopConsumer
           \/ CloseProducer \/ Restart \/ Broker \/ UNCHANGED vars
  BY <1>5 DEF Fetch, CommitMessages, AutoCommit, Rebalance, Signal, StopConsumer, CloseProducer,
              Restart, Broker, vars, Lasting
<1>6. CASE Exit \/ Crash
  <2>1. rows' = rows
    BY <1>6 DEF Exit, Crash
  <2>2. \A e \in Events : why[e] \subseteq why'[e]
    BY <1>0, <1>6, DiscardType DEF Exit, Crash, Causes
  <2> QED BY <2>1, <2>2 DEF Lasting
<1> QED BY <1>1, <1>2, <1>3, <1>4, <1>5, <1>6 DEF Next, ConsumerStep

LEMMA BehindNext == PipeInv /\ Behind /\ [Next]_vars => Behind'
<1> SUFFICES ASSUME PipeInv, Behind, [Next]_vars PROVE Behind'
  OBVIOUS
<1> USE DEF PipeInv, TypeOK
<1>0. Lasting /\ Len(topic) \in Nat /\ seen \in Nat
  BY AlwaysLasting
<1>1. CASE UNCHANGED <<topic, consumer>>
  BY <1>0, <1>1, BehindKept DEF consumer, reader, loop, Covered, Held
<1>2. ASSUME NEW f \in Events, WriterSend(f) PROVE Behind'
  <2>1. topic' = Append(topic, f) /\ UNCHANGED <<consumer, rows, why>>
    BY <1>2 DEF WriterSend
  <2>2. /\ Len(topic') = Len(topic) + 1
        /\ \A i \in 1 .. Len(topic) : topic'[i] = topic[i]
    BY <2>1
  <2>3. ASSUME NEW i \in 1 .. Len(topic'), Covered(i) PROVE i \in 1 .. Len(topic)
    BY <1>0, <2>2, <2>3 DEF Covered
  <2>4. ASSUME NEW i \in 1 .. Len(topic'), Covered(i)' PROVE Handled(i)'
    <3>1. Covered(i)
      BY <2>1, <2>4 DEF Covered, consumer, reader, loop
    <3>2. i \in 1 .. Len(topic) /\ Handled(i)
      BY <2>3, <3>1 DEF Behind
    <3> QED BY <2>1, <2>2, <3>2 DEF Handled, Held, consumer, loop
  <2> QED BY <2>4 DEF Behind
<1>3. CASE Fetch
  <2>1. /\ pos' = pos + 1 /\ msg' = pos + 1 /\ batch' = Append(batch, pos + 1)
        /\ UNCHANGED <<topic, pending, committed>>
    BY <1>3 DEF Fetch
  <2>2. Held' = Held \cup {pos + 1}
    BY <2>1, BatchGrows
  <2>3. ASSUME NEW i \in 1 .. Len(topic), Covered(i)' PROVE Covered(i) \/ i = pos + 1
    BY <2>1, <2>3 DEF Covered
  <2>4. ASSUME NEW i \in 1 .. Len(topic), Covered(i)' PROVE Handled(i)'
    <3>1. CASE i = pos + 1
      BY <2>2, <3>1 DEF Handled
    <3>2. CASE i # pos + 1
      <4>1. Handled(i) /\ topic[i] \in Events BY <2>3, <2>4, <3>2 DEF Behind
      <4> QED BY <4>1, <2>1, <2>2, <1>0 DEF Handled, Lasting
    <3> QED BY <3>1, <3>2
  <2> QED BY <2>1, <2>4 DEF Behind
<1>4. CASE FlushFull \/ TickFlush \/ ConsumerStops
  <2>1. PICK ok \in BOOLEAN : Flush(ok)
    BY <1>4 DEF FlushFull, TickFlush, ConsumerStops, CtxOutcome, DbOutcome
  <2>2. /\ topic' = topic /\ pos' = pos /\ msg' = msg
        /\ committed' \in {committed, pending} /\ pending' \in {pending, 0}
    BY <1>4 DEF FlushFull, TickFlush, ConsumerStops, reader
  <2>3. \A i \in 1 .. Len(topic) : Covered(i)' => Covered(i)
    BY <1>0, <2>2 DEF Covered
  <2>4. \A i \in Held : rows'[topic[i]] > 0 \/ why'[topic[i]] # {}
    BY <2>1, FlushResult
  <2> QED BY <1>0, <2>2, <2>3, <2>4, BehindKept
<1>5. CASE CommitMessages \/ AutoCommit \/ Rebalance
  <2>1. /\ topic' = topic /\ batch' = batch
        /\ pos' \in {pos, committed, pending} /\ msg' \in {msg, 0}
        /\ committed' \in {committed, pending} /\ pending' \in {pending, msg, 0}
    BY <1>5 DEF CommitMessages, AutoCommit, Rebalance, loop
  <2>2. \A i \in 1 .. Len(topic) : Covered(i)' => Covered(i)
    BY <1>0, <2>1 DEF Covered
  <2>3. Held' = Held
    BY <2>1 DEF Held
  <2> QED BY <1>0, <2>1, <2>2, <2>3, BehindKept
<1>6. CASE Exit \/ Crash
  <2> DEFINE lost == {i \in Held : i <= committed}
  <2>1. /\ topic' = topic /\ pos' = committed /\ msg' = 0 /\ pending' = 0
        /\ committed' = committed
    BY <1>6 DEF Exit, Crash, ProcessEnds
  <2>2. \A i \in 1 .. Len(topic) : Covered(i)' => Covered(i) /\ i <= committed
    BY <1>0, <2>1 DEF Covered
  <2>3. ASSUME NEW i \in Held, Covered(i)' PROVE why'[topic[i]] # {}
    <3>0. i \in 1 .. Len(topic) /\ topic[i] \in Events
      BY HeldType
    <3>1. i \in lost BY <2>2, <2>3, <3>0
    <3>2. CASE Crash
      <4>1. topic[i] \in Content(lost) BY <3>1 DEF Content
      <4>2. Discard(writer \cup fallback \cup Content(lost), "crash") BY <3>2 DEF Crash
      <4> QED BY <3>0, <4>1, <4>2, DiscardType DEF Causes
    <3>3. CASE Exit
      <4>1. DOMAIN batch = {} BY <3>3, EmptyBatch DEF Exit, Idle
      <4> QED BY <4>1 DEF Held
    <3> QED BY <1>6, <3>2, <3>3
  <2> QED BY <1>0, <2>1, <2>2, <2>3, BehindKept
<1>7. UNCHANGED <<topic, consumer>> \/ Fetch \/ FlushFull \/ TickFlush \/ ConsumerStops
      \/ CommitMessages \/ AutoCommit \/ Rebalance \/ Exit \/ Crash
      \/ \E f \in Events : WriterSend(f)
  BY DEF Next, ConsumerStep, LogDirect, PublishFallback, Publish, WriterGiveUp, DrainFallback,
         Signal, StopConsumer, CloseProducer, Restart, Broker, vars
<1> QED BY <1>1, <1>2, <1>3, <1>4, <1>5, <1>6, <1>7

LEMMA SomewhereNext ==
  ASSUME PipeInv, \A e \in logged : Somewhere(e), [Next]_vars
  PROVE  (\A e \in logged : Somewhere(e))'
<1> SUFFICES ASSUME NEW e \in logged' PROVE Somewhere(e)'
  OBVIOUS
<1> USE DEF PipeInv, TypeOK
<1>0. Lasting /\ PipeInv' /\ e \in Events
  BY AlwaysLasting, NextPipe
<1>1. ASSUME UNCHANGED <<topic, logged>>, e \in writer => e \in writer' \/ why'[e] # {},
             e \in fallback => e \in fallback' \/ why'[e] # {}
      PROVE  Somewhere(e)'
  BY <1>0, <1>1 DEF Somewhere, Lasting
<1>2. ASSUME NEW f \in Events, LogDirect(f) \/ PublishFallback(f) \/ Publish(f)
      PROVE  Somewhere(e)'
  <2>1. logged' = logged \cup {f} /\ topic' = topic
    BY <1>2 DEF LogDirect, PublishFallback, Publish
  <2>2. CASE e = f
    <3>1. CASE LogDirect(f)
      BY <2>2, <3>1, DiscardType DEF LogDirect, Somewhere, Causes
    <3>2. CASE PublishFallback(f)
      BY <2>2, <3>2, DiscardType DEF PublishFallback, Somewhere, Causes
    <3>3. CASE Publish(f)
      BY <2>2, <3>3 DEF Publish, Somewhere
    <3> QED
      BY <1>2, <3>1, <3>2, <3>3
  <2>3. CASE e # f
    <3>1. Somewhere(e) BY <2>1, <2>3
    <3>2. writer \subseteq writer' /\ fallback \subseteq fallback'
      BY <1>2 DEF LogDirect, PublishFallback, Publish, producer
    <3> QED BY <1>0, <2>1, <3>1, <3>2 DEF Somewhere, Lasting
  <2> QED
    BY <2>2, <2>3
<1>3. ASSUME NEW f \in Events, WriterSend(f) PROVE Somewhere(e)'
  <2>1. topic' = Append(topic, f) /\ writer \subseteq writer' \cup {f}
        /\ UNCHANGED <<fallback, rows, why, logged>>
    BY <1>3 DEF WriterSend
  <2>2. /\ Len(topic') = Len(topic) + 1 /\ topic'[Len(topic) + 1] = f /\ Len(topic) \in Nat
        /\ \A i \in 1 .. Len(topic) : topic'[i] = topic[i] /\ i \in 1 .. Len(topic')
        /\ Len(topic) + 1 \in 1 .. Len(topic')
    BY <2>1
  <2>3. Somewhere(e) BY <2>1
  <2> QED BY <2>1, <2>2, <2>3 DEF Somewhere
<1>4. ASSUME NEW f \in Events, WriterGiveUp(f) \/ DrainFallback(f) PROVE Somewhere(e)'
  <2>1. UNCHANGED <<topic, logged>> /\ writer \subseteq writer' \cup {f}
        /\ fallback \subseteq fallback' \cup {f}
    BY <1>4 DEF WriterGiveUp, DrainFallback
  <2>2. why'[f] # {}
    BY <1>4, DiscardType DEF WriterGiveUp, DrainFallback, Causes
  <2> QED BY <1>1, <2>1, <2>2
<1>5. CASE Exit
  <2>1. e \in fallback => why'[e] # {}
    BY <1>0, <1>5, DiscardType DEF Exit, Causes
  <2> QED BY <1>1, <1>5, <2>1 DEF Exit
<1>6. CASE Crash
  <2>1. Discard(writer \cup fallback \cup Content({i \in Held : i <= committed}), "crash")
        /\ UNCHANGED <<topic, logged>>
    BY <1>6 DEF Crash
  <2>2. e \in writer \/ e \in fallback => why'[e] # {}
    <3> DEFINE lost == writer \cup fallback \cup Content({i \in Held : i <= committed})
    <3>1. Discard(lost, "crash") BY <2>1
    <3>2. e \in writer \/ e \in fallback => e \in lost OBVIOUS
    <3> HIDE DEF lost
    <3>3. why \in [Events -> SUBSET Causes] /\ "crash" \in Causes BY DEF Causes
    <3>4. \A x \in Events : x \in lost => why'[x] # {} BY <3>1, <3>3, DiscardType
    <3> QED BY <1>0, <3>2, <3>4
  <2> QED BY <1>1, <2>1, <2>2
<1>7. CASE UNCHANGED <<topic, logged, producer>>
  BY <1>1, <1>7 DEF producer
<1>8. \/ UNCHANGED <<topic, logged, producer>> \/ Exit \/ Crash
      \/ \E f \in Events : LogDirect(f) \/ PublishFallback(f) \/ Publish(f) \/ WriterSend(f)
                          \/ WriterGiveUp(f) \/ DrainFallback(f)
  BY DEF Next, ConsumerStep, Fetch, FlushFull, CommitMessages, TickFlush, AutoCommit, Rebalance,
         Signal, StopConsumer, ConsumerStops, CloseProducer, Restart, Broker, vars
<1> QED
  BY <1>2, <1>3, <1>4, <1>5, <1>6, <1>7, <1>8

\* An audit event that Log was called for is stored, is still on its way to the
\* table or was discarded for one of the named causes, whatever fails, whenever
\* the gateway crashes, stops and starts again, and wherever a rebalance sets the
\* reader back to.
THEOREM NothingLostSilently == Spec => []LossExplained
<1>1. Init => LossInv
  <2> SUFFICES ASSUME Init PROVE LossInv
    OBVIOUS
  <2>1. Len(topic) = 0 /\ logged = {}
    BY DEF Init
  <2> QED BY <2>1 DEF LossInv, Behind
<1>2. PipeInv /\ LossInv /\ [Next]_vars => LossInv'
  BY BehindNext, SomewhereNext DEF LossInv
<1>3. PipeInv /\ LossInv => LossExplained
  <2> SUFFICES ASSUME PipeInv, LossInv, NEW e \in logged PROVE OnItsWay(e) \/ why[e] # {}
    BY DEF LossExplained
  <2>1. Somewhere(e) BY DEF LossInv
  <2>2. ASSUME NEW i \in 1 .. Len(topic), topic[i] = e
        PROVE  OnItsWay(e) \/ why[e] # {}
    <3>1. CASE i <= pos
      <4>1. Handled(i) BY <3>1 DEF LossInv, Behind, Covered
      <4> QED BY <2>2, <4>1 DEF Handled, OnItsWay
    <3>2. CASE ~(i <= pos)
      <4>1. i > pos BY <3>2 DEF PipeInv, TypeOK
      <4> QED BY <2>2, <4>1 DEF OnItsWay
    <3> QED BY <3>1, <3>2
  <2> QED BY <2>1, <2>2 DEF Somewhere, OnItsWay
<1> QED
  BY <1>1, <1>2, <1>3, PipeInvariant, PTL DEF Spec

-----------------------------------------------------------------------------
(* Where a second row comes from. *)

\* An event that the writer did not double, and whose message the reader gave at
\* most once, exists in one place only: not logged, in the writer, once in the
\* topic ahead of all the reader ever gave, once in the batch, or behind with at
\* most one row.
Once(e) ==
  /\ e \in writer => \A i \in 1 .. Len(topic) : topic[i] # e
  /\ \A i, j \in 1 .. Len(topic) : topic[i] = e /\ topic[j] = e => i = j
  /\ e \notin logged => rows[e] = 0 /\ \A i \in 1 .. Len(topic) : topic[i] # e
  /\ rows[e] <= 1
  /\ \A m, n \in DOMAIN batch : topic[batch[m]] = e /\ topic[batch[n]] = e => m = n
  /\ rows[e] > 0 => /\ e \notin writer
                    /\ \A i \in 1 .. Len(topic) : topic[i] = e => i <= seen /\ i \notin Held

OnceInv == \A e \in Events \ (doubled \cup reread) : Once(e)

LEMMA OneCopy ==
  ASSUME PipeInv, NEW e \in Events, Once(e)
  PROVE  /\ Copies(e) \in {0, 1}
         /\ Copies(e) = 1 => \E i \in Held : topic[i] = e
<1> DEFINE S == {n \in DOMAIN batch : topic[batch[n]] = e}
<1>1. Copies(e) = Cardinality(S)
  BY DEF Copies
<1>2. CASE S = {}
  BY <1>1, <1>2, FS_EmptySet
<1>3. CASE S # {}
  <2>1. PICK n \in DOMAIN batch : topic[batch[n]] = e
    BY <1>3
  <2>2. S = {n}
    BY <2>1 DEF Once
  <2> QED
    BY <1>1, <2>1, <2>2, FS_Singleton DEF Held
<1> QED
  BY <1>2, <1>3

LEMMA FlushOnce ==
  ASSUME PipeInv, NEW e \in Events, Once(e), NEW ok \in BOOLEAN, Flush(ok),
         UNCHANGED <<topic, producer, seen, logged>>
  PROVE  Once(e)'
<1> USE DEF PipeInv, TypeOK, Shape
<1>1. /\ batch' = <<>> /\ rows'[e] \in {rows[e], AtMost2(rows[e] + Copies(e))}
      /\ rows[e] \in 0 .. 2
  BY FlushResult
<1>0. DOMAIN batch' = {} /\ Held' = {}
  <2>1. DOMAIN batch' = {} BY <1>1, EmptyBatch
  <2> QED BY <2>1 DEF Held
<1>2. CASE Copies(e) = 0
  <2>1. rows'[e] = rows[e]
    BY <1>1, <1>2 DEF AtMost2
  <2> QED
    BY <1>0, <2>1 DEF Once, producer
<1>3. CASE Copies(e) = 1
  <2>1. PICK i \in Held : topic[i] = e
    BY <1>3, OneCopy
  <2>2. i \in 1 .. Len(topic) /\ i <= seen
    BY HeldType
  <2>3. rows[e] = 0 /\ e \notin writer /\ e \in logged
    BY <1>1, <2>1, <2>2 DEF Once
  <2>4. rows'[e] \in {0, 1}
    BY <1>1, <1>3, <2>3 DEF AtMost2
  <2>5. \A j \in 1 .. Len(topic) : topic[j] = e => j = i
    BY <2>1, <2>2 DEF Once
  <2> QED
    BY <1>0, <2>2, <2>3, <2>4, <2>5 DEF Once, producer
<1> QED
  BY <1>2, <1>3, OneCopy

LEMMA OnceNext == PipeInv /\ OnceInv /\ [Next]_vars => OnceInv'
<1> SUFFICES ASSUME PipeInv, OnceInv, [Next]_vars, NEW e \in Events \ (doubled' \cup reread')
             PROVE  Once(e)'
  BY DEF OnceInv
<1> USE DEF PipeInv, TypeOK, Shape
<1>1. e \in Events /\ e \notin doubled /\ e \notin reread
  <2>1. doubled \subseteq doubled' /\ reread \subseteq reread'
    BY DEF Next, ConsumerStep, LogDirect, PublishFallback, Publish, WriterSend, WriterGiveUp,
       DrainFallback, Fetch, FlushFull, CommitMessages, TickFlush, AutoCommit, Rebalance, Signal,
       StopConsumer, ConsumerStops, CloseProducer, Exit, Crash, Restart, Broker, vars, consumer,
       reader
  <2> QED BY <2>1
<1>2. Once(e) /\ Len(topic) \in Nat /\ seen \in Nat
  BY <1>1 DEF OnceInv
<1>3. ASSUME UNCHANGED <<topic, logged>>, rows'[e] = rows[e], writer' \subseteq writer,
             seen' = seen, batch' = batch \/ batch' = <<>>
      PROVE  Once(e)'
  <2>1. /\ Held' \subseteq Held
        /\ \A n \in DOMAIN batch' : n \in DOMAIN batch /\ batch'[n] = batch[n]
    <3>1. CASE batch' = batch BY <3>1 DEF Held
    <3>2. CASE batch' = <<>>
      <4>1. DOMAIN batch' = {} BY <3>2, EmptyBatch
      <4> QED BY <4>1 DEF Held
    <3> QED BY <1>3, <3>1, <3>2
  <2> QED BY <1>2, <1>3, <2>1 DEF Once
<1>4. ASSUME NEW f \in Events, LogDirect(f) \/ PublishFallback(f) \/ Publish(f)
      PROVE  Once(e)'
  <2>1. /\ logged' = logged \cup {f} /\ UNCHANGED <<topic, consumer>> /\ f \notin logged
    BY <1>4 DEF LogDirect, PublishFallback, Publish
  <2>a. seen' = seen /\ batch' = batch /\ Held' = Held
    BY <2>1 DEF consumer, reader, loop, Held
  <2>2. CASE e # f
    <3>1. rows'[e] = rows[e] /\ (e \in writer' => e \in writer)
      BY <1>4, <2>2 DEF LogDirect, PublishFallback, Publish, producer
    <3> QED
      BY <1>2, <2>1, <2>a, <2>2, <3>1 DEF Once
  <2>3. CASE e = f
    <3>1. /\ rows[e] = 0 /\ e \notin writer /\ \A i \in 1 .. Len(topic) : topic[i] # e
      BY <1>2, <2>1, <2>3 DEF Once
    <3>2. rows'[e] \in {0, 1} /\ (e \in writer' => rows'[e] = 0)
      BY <1>4, <2>3, <3>1 DEF LogDirect, PublishFallback, Publish, producer
    <3> QED
      BY <1>2, <2>1, <2>a, <2>3, <3>1, <3>2 DEF Once
  <2> QED
    BY <2>2, <2>3
<1>5. ASSUME NEW f \in Events, WriterSend(f) PROVE Once(e)'
  <2>1. /\ topic' = Append(topic, f) /\ f \in writer /\ e \notin doubled'
        /\ UNCHANGED <<logged, consumer, rows>>
        /\ (writer' = writer \ {f} \/ (f \in doubled' /\ writer' = writer))
    BY <1>1, <1>5 DEF WriterSend
  <2>2. /\ Len(topic') = Len(topic) + 1 /\ topic'[Len(topic) + 1] = f
        /\ \A i \in 1 .. Len(topic) : topic'[i] = topic[i]
    BY <2>1
  <2>3. \A i \in 1 .. Len(topic') : i \in 1 .. Len(topic) \/ i = Len(topic) + 1
    BY <1>2, <2>2
  <2>a. seen' = seen /\ batch' = batch /\ Held' = Held
        /\ \A n \in DOMAIN batch : topic'[batch[n]] = topic[batch[n]]
    BY <2>1, <2>2, HeldType DEF consumer, reader, loop, Held
  <2>4. CASE e # f
    <3>1. \A i \in 1 .. Len(topic') : topic'[i] = e => i \in 1 .. Len(topic) /\ topic[i] = e
      BY <2>2, <2>3, <2>4
    <3>2. UNCHANGED <<rows, logged>> /\ (e \in writer' => e \in writer)
          /\ (e \in writer => e \in writer')
      BY <2>1, <2>4
    <3>3. \A i \in 1 .. Len(topic') : topic[i] = e /\ topic'[i] = e => i \in 1 .. Len(topic)
      BY <3>1
    <3>4. \A i, j \in 1 .. Len(topic') : topic'[i] = e /\ topic'[j] = e => i = j
      BY <1>2, <3>1, Zenon DEF Once
    <3>5. /\ e \in writer' => \A i \in 1 .. Len(topic') : topic'[i] # e
          /\ e \notin logged => rows[e] = 0 /\ \A i \in 1 .. Len(topic') : topic'[i] # e
          /\ rows[e] <= 1
      BY <1>2, <3>1, <3>2, Zenon DEF Once
    <3>6. \A m, n \in DOMAIN batch : topic'[batch[m]] = e /\ topic'[batch[n]] = e => m = n
      BY <1>2, <2>a, Zenon DEF Once
    <3>7. rows[e] > 0 => /\ e \notin writer'
                         /\ \A i \in 1 .. Len(topic') : topic'[i] = e => i <= seen /\ i \notin Held
      BY <1>2, <3>1, <3>2, Zenon DEF Once
    <3> QED BY <2>a, <3>2, <3>4, <3>5, <3>6, <3>7, Zenon DEF Once
  <2>5. CASE e = f
    <3>1. /\ e \notin writer' /\ e \in logged /\ rows[e] = 0
          /\ \A i \in 1 .. Len(topic) : topic[i] # e
      BY <1>2, <2>1, <2>5 DEF Once
    <3>2. \A i \in 1 .. Len(topic') : topic'[i] = e => i = Len(topic) + 1
      BY <2>2, <2>3, <3>1
    <3>3. \A n \in DOMAIN batch : topic'[batch[n]] # e
      BY <2>a, <3>1, HeldType
    <3> QED
      BY <2>1, <2>a, <3>1, <3>2, <3>3 DEF Once
  <2> QED
    BY <2>4, <2>5
<1>6. ASSUME NEW f \in Events, WriterGiveUp(f) \/ DrainFallback(f) PROVE Once(e)'
  BY <1>3, <1>6 DEF WriterGiveUp, DrainFallback, consumer, reader, loop
<1>7. CASE Fetch
  <2>1. /\ UNCHANGED <<topic, producer, rows, logged>> /\ batch' = Append(batch, pos + 1)
        /\ pos + 1 \in 1 .. Len(topic)
        /\ seen' = IF pos < seen THEN seen ELSE pos + 1
        /\ pos < seen => topic[pos + 1] # e
    BY <1>7 DEF Fetch
  <2>2. /\ Len(batch) \in Nat /\ DOMAIN batch = 1..Len(batch)
        /\ DOMAIN batch' = 1..(Len(batch) + 1) /\ batch'[Len(batch) + 1] = pos + 1
        /\ \A n \in 1..Len(batch) : batch'[n] = batch[n]
        /\ Held' = Held \cup {pos + 1}
    BY <2>1, HeldType, BatchGrows
  <2>3. \A n \in DOMAIN batch' : \/ n \in DOMAIN batch /\ batch'[n] = batch[n]
                                 \/ n = Len(batch) + 1 /\ batch'[n] = pos + 1
    <3>1. \A n \in 1..(Len(batch) + 1) : n \in 1..Len(batch) \/ n = Len(batch) + 1
      BY <2>2
    <3>2. SUFFICES ASSUME NEW n \in DOMAIN batch'
                   PROVE  \/ n \in DOMAIN batch /\ batch'[n] = batch[n]
                          \/ n = Len(batch) + 1 /\ batch'[n] = pos + 1
      OBVIOUS
    <3>3. n \in 1..(Len(batch) + 1) BY <2>2
    <3>4. n \in 1..Len(batch) => n \in DOMAIN batch /\ batch'[n] = batch[n] BY <2>2
    <3> QED BY <2>2, <3>1, <3>3, <3>4
  <2>4. CASE topic[pos + 1] # e
    <3>1. \A m, n \in DOMAIN batch' : topic'[batch'[m]] = e /\ topic'[batch'[n]] = e => m = n
      BY <1>2, <2>1, <2>3, <2>4 DEF Once
    <3>2. \A i \in 1 .. Len(topic) : i <= seen => i <= seen'
      BY <2>1, <1>2
    <3> QED BY <1>2, <2>1, <2>2, <2>4, <3>1, <3>2 DEF Once, producer
  <2>5. CASE topic[pos + 1] = e
    <3>1. ~(pos < seen) BY <2>1, <2>5
    <3>2. ~(pos + 1 <= seen) BY <3>1, <1>2
    <3>3. rows[e] = 0 /\ e \notin writer /\ e \in logged
      <4>1. rows[e] \in 0..2 BY <1>1
      <4>2. ~(rows[e] > 0) BY <1>2, <2>1, <2>5, <3>2 DEF Once
      <4> QED BY <4>1, <4>2, <1>2, <2>1, <2>5 DEF Once
    <3>4. \A n \in DOMAIN batch : topic[batch[n]] # e
      <4> SUFFICES ASSUME NEW n \in DOMAIN batch, topic[batch[n]] = e PROVE FALSE
        OBVIOUS
      <4>1. batch[n] \in 1..seen /\ batch[n] \in 1..Len(topic) BY HeldType
      <4>2. batch[n] = pos + 1 BY <4>1, <1>2, <2>1, <2>5 DEF Once
      <4> QED BY <4>1, <4>2, <3>2
    <3>5. \A m, n \in DOMAIN batch' : topic'[batch'[m]] = e /\ topic'[batch'[n]] = e => m = n
      BY <2>1, <2>3, <3>4
    <3> QED BY <1>2, <2>1, <3>3, <3>5 DEF Once, producer
  <2> QED BY <2>4, <2>5
<1>8. CASE FlushFull \/ TickFlush \/ ConsumerStops
  <2>1. PICK ok \in BOOLEAN : Flush(ok)
    BY <1>8 DEF FlushFull, TickFlush, ConsumerStops, CtxOutcome, DbOutcome
  <2>2. UNCHANGED <<topic, producer, seen, logged>>
    BY <1>8 DEF FlushFull, TickFlush, ConsumerStops, reader
  <2> QED
    BY <1>1, <1>2, <2>1, <2>2, FlushOnce
<1>9. CASE CommitMessages \/ AutoCommit \/ Rebalance \/ Signal \/ StopConsumer \/ CloseProducer
           \/ Restart \/ Broker
  BY <1>3, <1>9 DEF CommitMessages, AutoCommit, Rebalance, Signal, StopConsumer, CloseProducer,
                    Restart, Broker, producer, consumer, reader, loop
<1>10. CASE Exit \/ Crash
  BY <1>3, <1>10 DEF Exit, Crash, ProcessEnds
<1>11. CASE UNCHANGED vars
  BY <1>3, <1>11 DEF vars, producer, consumer, reader, loop
<1> QED
  BY <1>4, <1>5, <1>6, <1>7, <1>8, <1>9, <1>10, <1>11 DEF Next, ConsumerStep

\* Two rows of one event mean that the writer sent it twice, for want of an
\* acknowledgement, or that the reader gave its message again: a new process, or
\* a rebalance in this one, had set it back to the committed offset.  The loop of
\* the consumer itself never inserts twice what it was given once.
THEOREM NothingStoredTwiceSilently == Spec => []DuplicateExplained
<1>1. Init => OnceInv
  <2> SUFFICES ASSUME Init, NEW e \in Events PROVE Once(e)
    BY DEF OnceInv
  <2>1. writer = {} /\ rows[e] = 0 /\ Len(topic) = 0 /\ DOMAIN batch = {}
    BY EmptyBatch DEF Init
  <2> QED
    BY <2>1 DEF Once
<1>2. PipeInv /\ OnceInv => DuplicateExplained
  BY DEF PipeInv, TypeOK, OnceInv, Once, DuplicateExplained
<1> QED
  BY <1>1, <1>2, OnceNext, PipeInvariant, PTL DEF Spec
=============================================================================
