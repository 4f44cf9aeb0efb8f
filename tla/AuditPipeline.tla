--------------------------- MODULE AuditPipeline ---------------------------
(***************************************************************************)
(* Audit events on their way from AuditLogger.Log to the table audit_logs: *)
(* through the asynchronous Kafka writer or the fallback buffer, the topic *)
(* and the consumer that inserts batches.  The gateway may be told to stop *)
(* or may crash between any two steps, and is then started again.          *)
(***************************************************************************)
EXTENDS Naturals, Sequences, FiniteSets

CONSTANTS
  Events,       \* audit events
  Poison,       \* events whose insert Postgres rejects (a user that is gone)
  Faults,       \* what may happen: "broker", "db", "crash", "shutdown"
  BatchMax,     \* bound: capacity of a consumer batch (50 in the code)
  FallbackCap,  \* bound: capacity of fallbackCh (5000 in the code)
  MaxTopic,     \* bound: length of the topic
  MaxRebalances \* bound: rebalances of the consumer group

ASSUME PipelineAssumption ==
  /\ Poison \subseteq Events
  /\ Faults \subseteq {"broker", "db", "crash", "shutdown"}
  /\ BatchMax \in Nat \ {0} /\ FallbackCap \in Nat /\ MaxTopic \in Nat
  /\ MaxRebalances \in Nat

VARIABLES
  enabled,    \* kafka.enabled of the configuration
  phase,      \* how far main is in its life
  brokerUp,   \* environment: the brokers answer
  logged,     \* events Log was called for
  writer,     \* accepted by the asynchronous kafka.Writer
  fallback,   \* content of fallbackCh
  topic,      \* the topic's single partition
  pos,        \* the reader's position: offset of the message it gave last
  batch,      \* offsets of the messages the consumer holds in its batch
  cpc,        \* where the consumer loop is
  msg,        \* offset of the message it handles, 0 if none
  pending,    \* offset noted by CommitMessages and not yet sent, 0 if none
  committed,  \* offset committed at the broker
  rebalances, \* rebalances of the consumer group so far
  rows,       \* rows of audit_logs per event; 2 stands for several
  doubled,    \* history: events the writer sent twice
  seen,       \* history: the highest offset the reader ever gave
  reread,     \* history: events of messages the reader gave again
  why         \* history: what discarded a copy of the event

producer == <<writer, fallback>>
reader == <<pos, pending, committed, rebalances, seen, reread>>
loop == <<batch, cpc, msg>>
consumer == <<reader, loop>>
vars == <<enabled, phase, brokerUp, logged, producer, topic, consumer, rows, doubled, why>>

Phases == {"up", "stopping", "draining", "stopped", "closed", "down"}
Causes == {"direct", "drained", "saturated", "gaveUp", "flush", "crash", "exit"}

TypeOK ==
  /\ enabled \in BOOLEAN /\ phase \in Phases /\ brokerUp \in BOOLEAN
  /\ logged \in SUBSET Events /\ writer \in SUBSET logged
  /\ fallback \in SUBSET logged /\ Cardinality(fallback) <= FallbackCap
  /\ topic \in Seq(Events) /\ Len(topic) <= MaxTopic
  /\ seen \in 0..Len(topic)
  /\ pos \in 0..seen /\ msg \in 0..seen /\ pending \in 0..seen /\ committed \in 0..seen
  /\ batch \in Seq(1..seen) /\ Len(batch) <= BatchMax
  /\ cpc \in {"loop", "full", "commit", "stopped"}
  /\ rebalances \in 0..MaxRebalances
  /\ rows \in [Events -> 0..2]
  /\ doubled \in SUBSET Events /\ reread \in SUBSET Events
  /\ why \in [Events -> SUBSET Causes]

Init ==
  /\ enabled \in BOOLEAN /\ phase = "up" /\ brokerUp = TRUE
  /\ logged = {} /\ writer = {} /\ fallback = {}
  /\ topic = <<>> /\ pos = 0 /\ batch = <<>> /\ cpc = "loop" /\ msg = 0
  /\ pending = 0 /\ committed = 0 /\ rebalances = 0 /\ seen = 0
  /\ rows = [e \in Events |-> 0]
  /\ doubled = {} /\ reread = {}
  /\ why = [e \in Events |-> {}]

Alive == phase # "down"
Discard(S, cause) == why' = [e \in Events |-> why[e] \cup IF e \in S THEN {cause} ELSE {}]

---------------------------------------------------------------------------
(* AuditLogger.Log and KafkaProducer *)

\* Without Kafka the event is inserted at once, with the context of the request,
\* which the signal cancels; every caller of Log ignores its error.
LogDirect(e) ==
  /\ Alive /\ ~enabled
  /\ e \notin logged
  /\ logged' = logged \cup {e}
  /\ \/ /\ e \notin Poison /\ phase = "up"
        /\ rows' = [rows EXCEPT ![e] = 1]
        /\ UNCHANGED why
     \/ /\ e \in Poison \/ "db" \in Faults \/ phase # "up"
        /\ Discard({e}, "direct")
        /\ UNCHANGED rows
  /\ UNCHANGED <<enabled, phase, brokerUp, producer, topic, consumer, doubled>>

\* Mutant: a full buffer makes room by overwriting what it holds.
PublishFallbackOverwriting(e) ==
  /\ Alive /\ enabled
  /\ e \notin logged
  /\ ~brokerUp \/ phase # "up"
  /\ logged' = logged \cup {e}
  /\ fallback' = IF Cardinality(fallback) < FallbackCap THEN fallback \cup {e} ELSE {e}
  /\ UNCHANGED <<enabled, phase, brokerUp, writer, topic, consumer, rows, doubled, why>>

\* Publish when WriteMessages fails: the writer is closed, the context of the
\* request was cancelled by the signal, or the brokers do not answer the lookup
\* of the topic.
PublishFallback(e) ==
  /\ Alive /\ enabled
  /\ e \notin logged
  /\ ~brokerUp \/ phase # "up"
  /\ logged' = logged \cup {e}
  /\ \/ /\ Cardinality(fallback) < FallbackCap
        /\ fallback' = fallback \cup {e}
        /\ UNCHANGED why
     \/ /\ Cardinality(fallback) >= FallbackCap
        /\ Discard({e}, "saturated")
        /\ UNCHANGED fallback
  /\ UNCHANGED <<enabled, phase, brokerUp, writer, topic, consumer, rows, doubled>>

\* Publish: the writer is asynchronous, so WriteMessages succeeds at once.
Publish(e) ==
  /\ Alive /\ enabled
  /\ e \notin logged
  /\ phase # "closed"
  /\ logged' = logged \cup {e}
  /\ writer' = writer \cup {e}
  /\ UNCHANGED <<enabled, phase, brokerUp, fallback, topic, consumer, rows, doubled, why>>

\* The writer sends a message; when the acknowledgement is lost it sends again.
WriterSend(e) ==
  /\ Alive /\ brokerUp
  /\ e \in writer
  /\ Len(topic) < MaxTopic
  /\ topic' = Append(topic, e)
  /\ \/ /\ writer' = writer \ {e}
        /\ UNCHANGED doubled
     \/ /\ "broker" \in Faults /\ e \notin doubled
        /\ doubled' = doubled \cup {e}
        /\ UNCHANGED writer
  /\ UNCHANGED <<enabled, phase, brokerUp, logged, fallback, consumer, rows, why>>

\* After its attempts are used up the writer drops the message; nobody hears.
WriterGiveUp(e) ==
  /\ Alive /\ ~brokerUp
  /\ e \in writer
  /\ writer' = writer \ {e}
  /\ Discard({e}, "gaveUp")
  /\ UNCHANGED <<enabled, phase, brokerUp, logged, fallback, topic, consumer, rows,
                 doubled>>

\* drainFallbackWorker receives a message and does nothing with it.
DrainFallback(e) ==
  /\ phase \in {"up", "stopping", "draining", "stopped"}
  /\ e \in fallback
  /\ fallback' = fallback \ {e}
  /\ Discard({e}, "drained")
  /\ UNCHANGED <<enabled, phase, brokerUp, logged, writer, topic, consumer, rows,
                 doubled>>

---------------------------------------------------------------------------
(* KafkaAuditConsumer *)

Held == {batch[n] : n \in DOMAIN batch}
Content(B) == {topic[i] : i \in B}
Copies(e) == Cardinality({n \in DOMAIN batch : topic[batch[n]] = e})
AtMost2(n) == IF n > 2 THEN 2 ELSE n

\* flushBatch: one transaction; a rejected insert aborts it as a whole, and the
\* caller clears the batch either way.
Flush(ok) ==
  /\ batch' = <<>>
  /\ IF ok /\ Content(Held) \cap Poison = {}
       THEN /\ rows' = [e \in Events |-> AtMost2(rows[e] + Copies(e))]
            /\ UNCHANGED why
       ELSE /\ Discard(Content(Held), "flush")
            /\ UNCHANGED rows

DbOutcome == IF "db" \in Faults THEN BOOLEAN ELSE {TRUE}

\* With ctx cancelled by the signal no transaction can begin.
CtxOutcome == IF phase = "up" THEN DbOutcome ELSE {FALSE}

Running == enabled /\ phase \in {"up", "stopping", "draining"}

\* The reader may be behind where it was: the message is then given again.
Fetch ==
  /\ Running /\ phase = "up" /\ brokerUp
  /\ cpc = "loop" /\ pos < Len(topic)
  /\ pos' = pos + 1 /\ msg' = pos + 1
  /\ batch' = Append(batch, pos + 1)
  /\ cpc' = IF Len(batch) + 1 >= BatchMax THEN "full" ELSE "commit"
  /\ seen' = IF pos < seen THEN seen ELSE pos + 1
  /\ reread' = IF pos < seen THEN reread \cup {topic[pos + 1]} ELSE reread
  /\ UNCHANGED <<enabled, phase, brokerUp, logged, producer, topic, pending, committed,
                 rebalances, rows, doubled, why>>

FlushFull ==
  /\ Running
  /\ cpc = "full"
  /\ \E ok \in CtxOutcome : Flush(ok)
  /\ cpc' = "commit"
  /\ UNCHANGED <<enabled, phase, brokerUp, logged, producer, topic, reader, msg, doubled>>

\* CommitMessages only notes the offset, unless a higher one is noted; with ctx
\* cancelled it does not.
CommitMessages ==
  /\ Running
  /\ cpc = "commit"
  /\ cpc' = "loop" /\ msg' = 0
  /\ pending' = IF phase = "up" /\ pending < msg THEN msg ELSE pending
  /\ UNCHANGED <<enabled, phase, brokerUp, logged, producer, topic, pos, batch, committed,
                 rebalances, seen, reread, rows, doubled, why>>

\* Mutant: the ticker branch forgets to empty the batch.
TickFlushKeeping ==
  /\ Running
  /\ cpc = "loop" /\ batch # <<>>
  /\ rows' = [e \in Events |-> AtMost2(rows[e] + Copies(e))]
  /\ UNCHANGED <<enabled, phase, brokerUp, logged, producer, topic, consumer, doubled, why>>

\* Mutant: the batch is emptied before it is handed to flushBatch.
TickFlushEmptied ==
  /\ Running
  /\ cpc = "loop" /\ batch # <<>>
  /\ batch' = <<>>
  /\ UNCHANGED <<enabled, phase, brokerUp, logged, producer, topic, reader, cpc, msg,
                 rows, doubled, why>>

\* The ticker fired; with stopCh closed too, select may still choose it.
TickFlush ==
  /\ Running
  /\ cpc = "loop" /\ batch # <<>>
  /\ \E ok \in CtxOutcome : Flush(ok)
  /\ UNCHANGED <<enabled, phase, brokerUp, logged, producer, topic, reader, cpc, msg,
                 doubled>>

\* The reader sends the noted offset every CommitInterval, also one below an
\* offset that was committed before.
AutoCommit ==
  /\ Alive /\ enabled /\ brokerUp
  /\ pending > 0
  /\ committed' = pending /\ pending' = 0
  /\ UNCHANGED <<enabled, phase, brokerUp, logged, producer, topic, pos, rebalances, seen,
                 reread, loop, rows, doubled, why>>

\* The group is rebalanced, or the reader was taken for dead and joins again: it
\* sends the noted offset while it still may, and resumes at the committed one.
\* The loop keeps its batch and the message it handles.
Rebalance ==
  /\ Running /\ brokerUp
  /\ rebalances < MaxRebalances /\ rebalances' = rebalances + 1
  /\ \/ pending > 0 /\ committed' = pending
     \/ UNCHANGED committed
  /\ pending' = 0 /\ pos' = committed'
  /\ UNCHANGED <<enabled, phase, brokerUp, logged, producer, topic, seen, reread, loop, rows,
                 doubled, why>>

---------------------------------------------------------------------------
(* main: signal, shutdown, crash and restart *)

Signal ==
  /\ "shutdown" \in Faults
  /\ phase = "up"
  /\ phase' = "stopping"
  /\ UNCHANGED <<enabled, brokerUp, logged, producer, topic, consumer, rows, doubled, why>>

\* Stop closes stopCh.
StopConsumer ==
  /\ phase = "stopping"
  /\ phase' = "draining"
  /\ UNCHANGED <<enabled, brokerUp, logged, producer, topic, consumer, rows, doubled, why>>

\* The loop sees stopCh, flushes with a context of its own, and the reader's
\* Close sends the noted offset.
ConsumerStops ==
  /\ phase = "draining"
  /\ cpc = "loop"
  /\ \E ok \in DbOutcome : Flush(ok)
  /\ cpc' = "stopped"
  /\ committed' = IF brokerUp /\ pending > 0 THEN pending ELSE committed
  /\ pending' = 0
  /\ phase' = "stopped"
  /\ UNCHANGED <<enabled, brokerUp, logged, producer, topic, pos, rebalances, seen, reread,
                 msg, doubled>>

\* KafkaProducer.Close: the drain worker ends and the writers are closed, while
\* the HTTP server still serves.
CloseProducer ==
  /\ phase = "stopped"
  /\ phase' = "closed"
  /\ UNCHANGED <<enabled, brokerUp, logged, producer, topic, consumer, rows, doubled, why>>

\* The process is gone, with what it had in memory; a new one will read from
\* the committed offset.
ProcessEnds ==
  /\ phase' = "down"
  /\ fallback' = {} /\ batch' = <<>> /\ cpc' = "loop" /\ msg' = 0
  /\ pending' = 0 /\ pos' = committed

\* The process ends once Close has seen the writers empty.
Exit ==
  /\ phase = "closed" /\ writer = {}
  /\ ProcessEnds
  /\ Discard(fallback, "exit")
  /\ UNCHANGED <<enabled, brokerUp, logged, writer, topic, committed, rebalances, seen, reread,
                 rows, doubled>>

Crash ==
  /\ "crash" \in Faults
  /\ Alive
  /\ ProcessEnds
  /\ writer' = {}
  /\ Discard(writer \cup fallback \cup Content({i \in Held : i <= committed}), "crash")
  /\ UNCHANGED <<enabled, brokerUp, logged, topic, committed, rebalances, seen, reread, rows,
                 doubled>>

Restart ==
  /\ phase = "down"
  /\ phase' = "up"
  /\ UNCHANGED <<enabled, brokerUp, logged, producer, topic, consumer, rows, doubled, why>>

Broker ==
  /\ "broker" \in Faults
  /\ brokerUp' = ~brokerUp
  /\ UNCHANGED <<enabled, phase, logged, producer, topic, consumer, rows, doubled, why>>

ConsumerStep == Fetch \/ FlushFull \/ CommitMessages \/ TickFlush

Next ==
  \/ \E e \in Events : \/ LogDirect(e) \/ PublishFallback(e) \/ Publish(e)
                       \/ WriterSend(e) \/ WriterGiveUp(e) \/ DrainFallback(e)
  \/ ConsumerStep \/ AutoCommit \/ Rebalance
  \/ Signal \/ StopConsumer \/ ConsumerStops \/ CloseProducer \/ Exit
  \/ Crash \/ Restart \/ Broker

Spec == Init /\ [][Next]_vars

\* The writer goroutine, the drain worker and the consumer loop keep running.
FairSpec ==
  /\ Spec
  /\ \A e \in Events : WF_vars(WriterSend(e)) /\ WF_vars(DrainFallback(e))
  /\ WF_vars(Fetch) /\ WF_vars(FlushFull) /\ WF_vars(CommitMessages)
  /\ SF_vars(TickFlush)

---------------------------------------------------------------------------
(* Properties *)

\* A copy of the event is stored or can still reach the table.
OnItsWay(e) ==
  \/ rows[e] > 0 \/ e \in writer \/ e \in fallback
  \/ \E i \in 1..Len(topic) :
       topic[i] = e /\ (i \in Held \/ i > pos)

\* An audit event disappears only through one of the windows of the code: the
\* fallback buffer is full, drained into nothing or abandoned at exit, the
\* writer gives up, a flush fails, or a crash finds it in memory, or in a batch
\* whose offset was committed first.
LossExplained == \A e \in logged : OnItsWay(e) \/ why[e] # {}

\* An event has two rows only when the writer sent it twice or the reader, set
\* back by a restart or a rebalance, gave this very message again: however the
\* batch, the ticker and the offsets interleave, the loop stores what it is given
\* once at most once.
DuplicateExplained == \A e \in Events : rows[e] > 1 => e \in doubled \cup reread

\* Once brokers and gateway keep running, every logged event gets its row or is
\* lost through one of those windows: nothing waits for ever in the writer, in
\* the buffer, in the topic or in a batch that does not fill.
EventuallyStored ==
  <>[](phase = "up" /\ brokerUp) =>
    \A e \in Events : (e \in logged) ~> (rows[e] > 0 \/ why[e] # {})
=============================================================================
