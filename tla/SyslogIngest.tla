---------------------------- MODULE SyslogIngest ----------------------------
(***************************************************************************)
(* The syslog server: messages are queued as they arrive, a writer task    *)
(* takes them in batches, and a worker thread parses and stores a batch    *)
(* (SyslogServer.store, through asyncio.to_thread).                        *)
(*                                                                         *)
(* stop() closes the sockets, cancels the writer wherever it is, and       *)
(* stores what is in the queue.  A worker thread cannot be cancelled once  *)
(* it has started, so two can be storing then.  Connections already open   *)
(* are not closed by stop() and go on queueing messages.  On Python 3.10   *)
(* and 3.11 asyncio.wait_for may swallow the cancellation: see             *)
(* CancelIsSwallowed.                                                      *)
(***************************************************************************)
EXTENDS Naturals, Sequences, FiniteSets, Functions

CONSTANTS Messages,      \* datagrams and frames, each of which may arrive
          Datagrams,     \* those that come by UDP
          Unparsable,    \* those for which parse raises
          QueueSize,     \* queue_size
          BatchSize,     \* batch_size
          InsertFails,   \* the insert of a batch may raise
          Stops          \* stop() is called

ASSUME MessagesAssumption == Datagrams \subseteq Messages /\ Unparsable \subseteq Messages
ASSUME SizesAssumption == QueueSize \in Nat \ {0} /\ BatchSize \in Nat \ {0}
ASSUME SwitchesAssumption == InsertFails \in BOOLEAN /\ Stops \in BOOLEAN

VARIABLES arrived,       \* what enqueue was called with, stats.received long
          queue,         \* SyslogServer.queue
          writer,        \* where _writer is
          batch,         \*   and what it has taken from the queue
          thread,        \* the worker threads of the writer and of stop()
          table,         \* table syslog, in rowid order
          stored,        \* stats.stored
          dropped,       \* stats.dropped
          errors,        \* stats.errors
          server,        \* how far stop() is
          swallowed      \* wait_for swallowed the cancellation of the writer

stats == <<stored, dropped, errors>>
vars == <<arrived, queue, writer, batch, thread, table, stats, server, swallowed>>

Owners == {"writer", "stop"}

NoThread == [phase |-> "none", batch |-> <<>>, rows |-> <<>>, read |-> 0]

-----------------------------------------------------------------------------
(* Arrival.                                                                *)

HasRoom == Len(queue) < QueueSize

\* A datagram, or a frame of a connection, which stop() does not end.
Arrive(m) ==
    /\ m \notin Range(arrived)
    /\ server = "running" \/ m \notin Datagrams
    /\ arrived' = Append(arrived, m)
    /\ IF HasRoom
         THEN queue' = Append(queue, m) /\ UNCHANGED dropped
         ELSE dropped' = dropped + 1 /\ UNCHANGED queue
    /\ UNCHANGED <<writer, batch, thread, table, stored, errors, server, swallowed>>

-----------------------------------------------------------------------------
(* The writer.                                                             *)

\* Mutant of WriterTakes: the batch is built back to front.
WriterTakesInFront ==
    /\ \/ writer = "getting"
       \/ writer = "filling" /\ Len(batch) < BatchSize
    /\ queue # <<>>
    /\ queue' = Tail(queue)
    /\ batch' = <<Head(queue)>> \o batch
    /\ writer' = "filling"
    /\ UNCHANGED <<arrived, thread, table, stats, server, swallowed>>

\* queue.get(), for the first message of a batch or for one more.
WriterTakes ==
    /\ \/ writer = "getting"
       \/ writer = "filling" /\ Len(batch) < BatchSize
    /\ queue # <<>>
    /\ queue' = Tail(queue)
    /\ batch' = Append(batch, Head(queue))
    /\ writer' = "filling"
    /\ UNCHANGED <<arrived, thread, table, stats, server, swallowed>>

Submitted(messages) == [NoThread EXCEPT !.phase = "submitted", !.batch = messages]

\* Mutant of WriterSubmits: the writer waits for a full batch.
WriterSubmitsFull ==
    /\ writer = "filling" /\ Len(batch) = BatchSize
    /\ writer' = "storing"
    /\ thread' = [thread EXCEPT !["writer"] = Submitted(batch)]
    /\ UNCHANGED <<arrived, queue, batch, table, stats, server, swallowed>>

\* The batch is full, or flush_interval is over.
WriterSubmits ==
    /\ writer = "filling"
    /\ writer' = "storing"
    /\ thread' = [thread EXCEPT !["writer"] = Submitted(batch)]
    /\ UNCHANGED <<arrived, queue, batch, table, stats, server, swallowed>>

\* Mutant of WriterResumes: an exception of store is logged but not counted.
WriterResumesUncounted ==
    /\ writer = "storing" /\ thread["writer"].phase \in {"done", "failed"}
    /\ writer' = "getting"
    /\ batch' = <<>>
    /\ thread' = [thread EXCEPT !["writer"] = NoThread]
    /\ UNCHANGED <<arrived, queue, table, stats, server, swallowed>>

\* store returned or raised; a batch that failed counts as errors.
WriterResumes ==
    /\ writer = "storing" /\ thread["writer"].phase \in {"done", "failed"}
    /\ writer' = "getting"
    /\ batch' = <<>>
    /\ thread' = [thread EXCEPT !["writer"] = NoThread]
    /\ errors' = IF thread["writer"].phase = "failed" THEN errors + Len(batch) ELSE errors
    /\ UNCHANGED <<arrived, queue, table, stored, dropped, server, swallowed>>

-----------------------------------------------------------------------------
(* store, in a worker thread.                                              *)

Parsable(m) == m \notin Unparsable

\* The rows a batch gives, up to its i-th message: what parse raises for gives none.
RowsUpTo(messages) ==
    LET upTo[i \in 0..Len(messages)] ==
            IF i = 0 THEN <<>>
            ELSE IF Parsable(messages[i]) THEN Append(upTo[i - 1], messages[i]) ELSE upTo[i - 1]
    IN  upTo

RowsOf(messages) == RowsUpTo(messages)[Len(messages)]

\* Parse the batch: what parse raises for is counted and left out.
Parse(o) ==
    LET rows == RowsOf(thread[o].batch) IN
    /\ thread[o].phase = "submitted"
    /\ thread' = [thread EXCEPT ![o].phase = "parsed", ![o].rows = rows]
    /\ errors' = errors + (Len(thread[o].batch) - Len(rows))
    /\ UNCHANGED <<arrived, queue, writer, batch, table, stored, dropped, server, swallowed>>

\* The rows are inserted in one transaction; then stats.stored is read.
Insert(o) ==
    /\ thread[o].phase = "parsed"
    /\ table' = table \o thread[o].rows
    /\ thread' = [thread EXCEPT ![o].phase = "inserted", ![o].read = stored]
    /\ UNCHANGED <<arrived, queue, writer, batch, stats, server, swallowed>>

\* The transaction raises (disk full, database locked) and leaves nothing behind.
InsertRaises(o) ==
    /\ InsertFails
    /\ thread[o].phase = "parsed"
    /\ thread[o].rows # <<>>
    /\ thread' = [thread EXCEPT ![o].phase = "failed"]
    /\ UNCHANGED <<arrived, queue, writer, batch, table, stats, server, swallowed>>

NewlyStored(o) == Len(thread[o].rows)

\* stats.stored is written, over whatever another thread wrote since it was read.
Count(o) ==
    /\ thread[o].phase = "inserted"
    /\ stored' = thread[o].read + NewlyStored(o)
    /\ thread' = [thread EXCEPT ![o].phase = "done"]
    /\ UNCHANGED <<arrived, queue, writer, batch, table, dropped, errors, server, swallowed>>

StoreStep(o) == Parse(o) \/ Insert(o) \/ InsertRaises(o) \/ Count(o)

-----------------------------------------------------------------------------
(* stop.                                                                   *)

\* The sockets are closed; up to two seconds are spent waiting for connections.
StopBegins ==
    /\ Stops
    /\ server = "running"
    /\ server' = "closing"
    /\ UNCHANGED <<arrived, queue, writer, batch, thread, table, stats, swallowed>>

\* Mutant of StopCancels: the writer is awaited but not cancelled.
StopOnlyAwaits ==
    /\ server = "closing"
    /\ server' = "cancelling"
    /\ UNCHANGED <<arrived, queue, writer, batch, thread, table, stats, swallowed>>

\* The writer is cancelled, with the batch it holds.  A thread that has started
\* goes on; one that has not is cancelled too.
StopCancels ==
    /\ server = "closing"
    /\ server' = "cancelling"
    /\ writer' = "cancelled"
    /\ batch' = <<>>
    /\ thread' = IF thread["writer"].phase = "submitted"
                   THEN [thread EXCEPT !["writer"] = NoThread] ELSE thread
    /\ UNCHANGED <<arrived, queue, table, stats, swallowed>>

\* Until Python 3.12 a wait_for that is cancelled when its queue.get() is done returns
\* the message instead: the writer goes on, and stop() awaits it for good.
CancelIsSwallowed ==
    /\ server = "closing"
    /\ writer = "filling" /\ Len(batch) < BatchSize
    /\ queue # <<>>
    /\ server' = "cancelling"
    /\ queue' = Tail(queue)
    /\ batch' = Append(batch, Head(queue))
    /\ swallowed' = TRUE
    /\ UNCHANGED <<arrived, writer, thread, table, stats>>

\* Mutant of Flush: the queue is emptied but not stored.
FlushForgets ==
    /\ server = "cancelling" /\ writer = "cancelled"
    /\ queue' = <<>>
    /\ server' = "stopped"
    /\ UNCHANGED <<arrived, writer, batch, thread, table, stats, swallowed>>

\* The writer has ended: what is in the queue goes to a thread of its own.
Flush ==
    /\ server = "cancelling" /\ writer = "cancelled"
    /\ queue' = <<>>
    /\ IF queue = <<>>
         THEN server' = "stopped" /\ UNCHANGED thread
         ELSE /\ server' = "flushing"
              /\ thread' = [thread EXCEPT !["stop"] = Submitted(queue)]
    /\ UNCHANGED <<arrived, writer, batch, table, stats, swallowed>>

\* stop returns, or raises what store raised.
StopEnds ==
    /\ server = "flushing" /\ thread["stop"].phase \in {"done", "failed"}
    /\ server' = IF thread["stop"].phase = "failed" THEN "raised" ELSE "stopped"
    /\ UNCHANGED <<arrived, queue, writer, batch, thread, table, stats, swallowed>>

StopStep == StopCancels \/ CancelIsSwallowed \/ Flush \/ StopEnds

-----------------------------------------------------------------------------
Init ==
    /\ arrived = <<>>
    /\ queue = <<>>
    /\ writer = "getting"
    /\ batch = <<>>
    /\ thread = [o \in Owners |-> NoThread]
    /\ table = <<>>
    /\ stored = 0 /\ dropped = 0 /\ errors = 0
    /\ server = "running"
    /\ swallowed = FALSE

WriterStep == WriterTakes \/ WriterSubmits \/ WriterResumes

Next ==
    \/ \E m \in Messages : Arrive(m)
    \/ WriterStep
    \/ \E o \in Owners : StoreStep(o)
    \/ StopBegins
    \/ StopStep

Spec == Init /\ [][Next]_vars

\* Tasks that can run do, the writer's deadline passes, and threads end.
Fairness ==
    /\ WF_vars(WriterStep)
    /\ \A o \in Owners : WF_vars(StoreStep(o))
    /\ WF_vars(StopStep)

FairSpec == Spec /\ Fairness

-----------------------------------------------------------------------------
(* Properties.                                                             *)

\* Messages on their way: queued, in the writer's hands, or in a thread that can
\* still insert them.
Pending ==
    Range(queue) \cup Range(batch) \cup
    UNION {Range(thread[o].batch) : o \in {p \in Owners : thread[p].phase = "submitted"}} \cup
    UNION {Range(thread[o].rows) : o \in {p \in Owners : thread[p].phase = "parsed"}}

\* Messages that arrived and will not be in the table.
Missing == Range(arrived) \ (Range(table) \cup Pending)

\* No message is stored twice, whatever is cancelled; and until the writer is
\* cancelled messages are stored in the order of their arrival.
StoredOnceInOrder ==
    \A i, k \in DOMAIN table : i < k =>
        /\ table[i] # table[k]
        /\ writer # "cancelled" =>
              \E p, q \in DOMAIN arrived : p < q /\ arrived[p] = table[i] /\ arrived[q] = table[k]

\* "Drop + count on overflow": as long as the server runs, every message that got
\* lost, on whatever way, is in one of the counters; and stats.stored is the number
\* of rows, but between the insert and the count of a thread.
LossesAreCounted ==
    server = "running" =>
        /\ Cardinality(Missing) <= dropped + errors
        /\ thread["writer"].phase # "inserted" => stored = Len(table)

\* stop() stores what was queued: when it returns, at most the batch of the
\* cancelled writer is lost uncounted.
StopLosesOneBatchAtMost ==
    server = "stopped" => Cardinality(Missing) <= dropped + errors + BatchSize

\* A queued message is stored or counted in the end, unless the server stops:
\* no failing batch and no lull in the traffic keeps it.
QueuedIsSettled ==
    \A m \in Messages :
        m \in Pending ~> m \in Range(table) \/ m \in Missing \/ server # "running"

\* stop() comes to an end wherever the writer and its thread are, unless wait_for
\* swallowed the cancellation (Python 3.10, 3.11), after which the writer never ends.
StopReturnsUnlessSwallowed ==
    server = "closing" ~> server \in {"stopped", "raised"} \/ swallowed
=============================================================================
