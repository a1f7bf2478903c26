----------------------------- MODULE WebStreams -----------------------------
(***************************************************************************)
(* A TransformStream of builtins/js/webstreams.js: chunks written to its   *)
(* WritableStream pass the transformer one at a time and are enqueued on   *)
(* its ReadableStream (of builtins/js/fetch.js), which readers pull from.  *)
(* Promises are settled between the steps of the program.                  *)
(***************************************************************************)
EXTENDS Naturals, Sequences, FiniteSets, SequencesExt

CONSTANTS MaxSinkWrites,      \* calls of write()
          MaxReads,       \* calls of read()
          Ends            \* what else may happen: "abort", "error", "terminate", "fails", "cancel"

VARIABLES sink,           \* the WritableStream and what its sink was asked
          wrote,          \* of each write(): "waits", "ok" or "err"
          closing,        \* of close(): "none", "waits", "ok" or "err"
          source,         \* the controller of the ReadableStream
          reads,          \* of each read(): the reader, and what it settled to
          text            \* Response.text() over the readable: its state, and its parts

webVars == <<sink, wrote, closing, source, reads, text>>

WebInit ==
  /\ sink = [state |-> "writable", queue |-> <<>>, writing |-> 0, called |-> FALSE, total |-> 0,
             pendingClose |-> FALSE, finishing |-> FALSE, flushed |-> FALSE, error |-> "none", passed |-> <<>>]
  /\ wrote = <<>> /\ closing = "none"
  /\ source = [queue |-> <<>>, pending |-> <<>>, closed |-> FALSE, errored |-> FALSE, locked |-> 0,
               readers |-> 0, given |-> <<>>]
  /\ reads = <<>> /\ text = [state |-> "none", parts |-> <<>>, read |-> 0]

-----------------------------------------------------------------------------
(* The ReadableStream.  A chunk goes to the oldest read that waits.        *)
Over(r) == r.closed \/ r.errored
Settle(r, rs, what) == [i \in DOMAIN rs |-> IF i \in ToSet(r.pending) THEN [rs[i] EXCEPT !.got = what] ELSE rs[i]]

\* Mutant: a chunk is queued although a read waits.
EnqueueOnly(chunk) ==
  /\ source' = IF Over(source) THEN source
               ELSE [source EXCEPT !.queue = Append(@, chunk), !.given = Append(@, chunk)]
  /\ UNCHANGED reads

Enqueue(chunk) ==
  LET first == Head(source.pending)
  IN IF Over(source) THEN UNCHANGED <<source, reads>>
     ELSE IF source.pending # <<>>
     THEN /\ source' = [source EXCEPT !.pending = Tail(@), !.given = Append(@, chunk)]
          /\ reads' = [reads EXCEPT ![first].got = "chunk", ![first].chunk = chunk]
     ELSE /\ source' = [source EXCEPT !.queue = Append(@, chunk), !.given = Append(@, chunk)]
          /\ UNCHANGED reads
CloseSource ==
  IF Over(source) THEN UNCHANGED <<source, reads>>
  ELSE /\ source' = [source EXCEPT !.closed = TRUE, !.pending = <<>>]
       /\ reads' = Settle(source, reads, "done")
ErrorSource ==
  IF Over(source) THEN UNCHANGED <<source, reads>>
  ELSE /\ source' = [source EXCEPT !.errored = TRUE, !.pending = <<>>]
       /\ reads' = Settle(source, reads, "err")

(* getReader locks the stream; read() pulls: the error first, then what is *)
(* queued, then the end, else it waits.  A reader whose lock was released  *)
(* or that cancelled still pulls.                                          *)
GetReader ==
  /\ source.locked = 0 /\ source.readers < 2
  /\ source' = [source EXCEPT !.readers = @ + 1, !.locked = source.readers + 1]
  /\ UNCHANGED <<sink, wrote, closing, reads, text>>
Pull(r, reader) ==
  LET id == Len(reads) + 1
      read(got, chunk) == Append(reads, [reader |-> reader, got |-> got, chunk |-> chunk])
  IN IF r.errored THEN reads' = read("err", 0) /\ source' = r
     ELSE IF r.queue # <<>>
     THEN reads' = read("chunk", Head(r.queue)) /\ source' = [r EXCEPT !.queue = Tail(@)]
     ELSE IF r.closed THEN reads' = read("done", 0) /\ source' = r
     ELSE reads' = read("waits", 0) /\ source' = [r EXCEPT !.pending = Append(@, id)]
ReadStream(reader) ==
  /\ reader <= source.readers /\ Len(reads) < MaxReads
  /\ Pull(source, reader)
  /\ UNCHANGED <<sink, wrote, closing, text>>
(* releaseLock, and cancel, which a TransformStream's readable has no      *)
(* callback for: neither settles a read.                                   *)
Release(reader) ==
  /\ "cancel" \in Ends /\ reader <= source.readers /\ source.locked # 0
  /\ source' = [source EXCEPT !.locked = 0]
  /\ UNCHANGED <<sink, wrote, closing, reads, text>>

(* Response.text: _drainStream locks the body and pumps until its end.     *)
Text ==
  /\ text.state = "none"
  /\ IF source.locked # 0 THEN text' = [text EXCEPT !.state = "err"] /\ UNCHANGED <<source, reads>>
     ELSE /\ Pull([source EXCEPT !.locked = 3], 3)
          /\ text' = [text EXCEPT !.state = "reads", !.read = Len(reads) + 1]
  /\ UNCHANGED <<sink, wrote, closing>>
PumpPipe ==
  /\ text.state = "reads"
  /\ LET r == reads[text.read]
     IN /\ r.got # "waits"
        /\ IF r.got = "chunk"
           THEN /\ Pull(source, 3)
                /\ text' = [text EXCEPT !.parts = Append(@, r.chunk), !.read = Len(reads) + 1]
           ELSE /\ source' = [source EXCEPT !.locked = 0] /\ UNCHANGED reads
                /\ text' = [text EXCEPT !.state = IF r.got = "done" THEN "ok" ELSE "err"]
  /\ UNCHANGED <<sink, wrote, closing>>

-----------------------------------------------------------------------------
(* The WritableStream.                                                     *)
Rejected(k, why) == [i \in DOMAIN k |-> IF i \in why THEN "err" ELSE k[i]]
DropQueue(more) == wrote' = Rejected(wrote, ToSet(sink.queue) \cup more)
(* _error: what is queued, and a close that waits, are rejected.           *)
Errs(s) == [s EXCEPT !.state = "errored", !.queue = <<>>, !.pendingClose = FALSE, !.error = "error"]
SinkError(more) ==
  IF sink.state \in {"errored", "closed"}
  THEN wrote' = Rejected(wrote, more) /\ UNCHANGED closing
  ELSE DropQueue(more) /\ closing' = IF sink.pendingClose THEN "err" ELSE closing
Errored(s) == IF s.state \in {"errored", "closed"} THEN s ELSE Errs(s)

\* Mutant: the next write does not wait for the one the sink has.
ProcessAtOnce(s) ==
  IF s.queue # <<>> THEN [s EXCEPT !.writing = Head(s.queue), !.queue = Tail(@), !.called = FALSE]
  ELSE IF s.state = "closing" /\ s.pendingClose /\ ~s.finishing THEN [s EXCEPT !.finishing = TRUE] ELSE s

(* _processWriteQueue: one write at a time, then the close that waits.     *)
Process(s) ==
  IF s.writing # 0 THEN s
  ELSE IF s.queue # <<>> THEN [s EXCEPT !.writing = Head(s.queue), !.queue = Tail(@), !.called = FALSE]
  ELSE IF s.state = "closing" /\ s.pendingClose /\ ~s.finishing THEN [s EXCEPT !.finishing = TRUE] ELSE s

WriteChunk ==
  LET id == Len(wrote) + 1
  IN /\ id <= MaxSinkWrites
     /\ IF sink.state # "writable" THEN wrote' = Append(wrote, "err") /\ UNCHANGED sink
        ELSE /\ wrote' = Append(wrote, "waits")
             /\ sink' = Process([sink EXCEPT !.queue = Append(@, id), !.total = @ + 1])
     /\ UNCHANGED <<closing, source, reads, text>>

(* The sink's write: the transformer is given the chunk, and enqueues it.  *)
CallsSink ==
  /\ sink.writing # 0 /\ ~sink.called
  /\ sink' = [sink EXCEPT !.called = TRUE, !.passed = Append(@, sink.writing)]
  /\ Enqueue(sink.writing)
  /\ UNCHANGED <<wrote, closing, text>>
\* Mutant: a write that is done does not let the next one, or the close, go.
WriteDoneIdle ==
  /\ sink.called
  /\ wrote' = [wrote EXCEPT ![sink.writing] = "ok"]
  /\ sink' = [sink EXCEPT !.writing = 0, !.called = FALSE, !.total = @ - 1]
  /\ UNCHANGED <<closing, source, reads, text>>

WriteDone ==
  /\ sink.called
  /\ wrote' = [wrote EXCEPT ![sink.writing] = "ok"]
  /\ sink' = Process([sink EXCEPT !.writing = 0, !.called = FALSE, !.total = @ - 1])
  /\ UNCHANGED <<closing, source, reads, text>>
SinkFails ==
  /\ "fails" \in Ends /\ sink.called
  /\ sink' = Errored([sink EXCEPT !.writing = 0, !.called = FALSE])
  /\ SinkError({sink.writing})
  /\ UNCHANGED <<source, reads, text>>

Close ==
  /\ closing = "none"
  /\ IF sink.state = "writable"
     THEN /\ closing' = "waits"
          /\ sink' = Process([sink EXCEPT !.state = "closing", !.pendingClose = TRUE])
     ELSE closing' = (IF sink.state = "errored" THEN "err" ELSE "ok") /\ UNCHANGED sink
  /\ UNCHANGED <<wrote, source, reads, text>>
(* _finishClose: flush, then the readable closes, then the stream is       *)
(* closed, whatever became of it meanwhile.                                *)
Flushes ==
  /\ sink.finishing /\ ~sink.flushed
  /\ sink' = [sink EXCEPT !.flushed = TRUE]
  /\ CloseSource /\ UNCHANGED <<wrote, closing, text>>
FinishClose ==
  /\ sink.flushed /\ sink.finishing
  /\ sink' = [sink EXCEPT !.state = "closed", !.pendingClose = FALSE, !.finishing = FALSE]
  /\ closing' = IF closing = "waits" THEN "ok" ELSE closing
  /\ UNCHANGED <<wrote, source, reads, text>>

(* _abort: what is queued is rejected; the sink's abort errors the         *)
(* readable.  A close that waits is not told.                              *)
AbortStream ==
  /\ "abort" \in Ends /\ sink.state \in {"writable", "closing"}
  /\ sink' = [sink EXCEPT !.state = "errored", !.queue = <<>>, !.error = "aborting"]
  /\ DropQueue({}) /\ UNCHANGED <<closing, source, reads, text>>
AbortsSink ==
  /\ sink.error = "aborting" /\ sink' = [sink EXCEPT !.error = "aborted"]
  /\ ErrorSource /\ UNCHANGED <<wrote, closing, text>>

(* TransformStreamDefaultController.error and terminate.                   *)
ControllerError ==
  /\ "error" \in Ends /\ sink.error = "none"
  /\ ErrorSource /\ sink' = Errored(sink) /\ SinkError({}) /\ UNCHANGED text
Terminate ==
  /\ "terminate" \in Ends /\ sink.error = "none"
  /\ CloseSource /\ sink' = Errored(sink) /\ SinkError({}) /\ UNCHANGED text

WebNext ==
  \/ WriteChunk \/ CallsSink \/ WriteDone \/ SinkFails \/ Close \/ Flushes \/ FinishClose
  \/ AbortStream \/ AbortsSink \/ ControllerError \/ Terminate \/ GetReader \/ Text \/ PumpPipe
  \/ \E reader \in 1..2 : ReadStream(reader) \/ Release(reader)
WebFairness ==
  /\ WF_webVars(CallsSink) /\ WF_webVars(WriteDone \/ SinkFails) /\ WF_webVars(Flushes)
  /\ WF_webVars(FinishClose) /\ WF_webVars(AbortsSink) /\ WF_webVars(PumpPipe)
WebSpec == WebInit /\ [][WebNext]_webVars /\ WebFairness

-----------------------------------------------------------------------------
Chunks == LET some == SelectSeq(reads, LAMBDA r : r.got = "chunk") IN [i \in DOMAIN some |-> some[i].chunk]

(* In the order of their calls, reads are given the chunks in the order    *)
(* they were written, none twice and none left out, whoever reads; none    *)
(* waits while a chunk or an end is there, and 'done' comes after all.     *)
ReadsInOrder ==
  /\ IsPrefix(Chunks, source.given)
  /\ ~source.errored => source.given = Chunks \o source.queue
  /\ (\E i \in DOMAIN reads : reads[i].got = "waits") => source.queue = <<>> /\ ~Over(source)
  /\ (\E i \in DOMAIN reads : reads[i].got = "done") => ~source.errored /\ Chunks = source.given

(* text() resolves with the whole body if nobody else reads it.            *)
TextIsWhole ==
  text.state = "ok" /\ (\A i \in DOMAIN reads : reads[i].reader = 3) => source.closed /\ text.parts = source.given

(* The transformer has one chunk at a time, in the order of the writes;    *)
(* a write is told of success only if its chunk passed, and close only     *)
(* after every write that was accepted, unless something went wrong.       *)
SinkInOrder ==
  /\ \A i, j \in DOMAIN sink.passed : i < j => sink.passed[i] < sink.passed[j]
  /\ \A i \in DOMAIN wrote : wrote[i] = "ok" => i \in ToSet(sink.passed)
  /\ closing = "ok" /\ sink.error = "none" => \A i \in DOMAIN wrote : wrote[i] # "waits"
  /\ sink.total = Len(sink.queue) + (IF sink.writing = 0 THEN 0 ELSE 1) \/ sink.error # "none"

Waiting(i) == i \in DOMAIN wrote /\ wrote[i] = "waits"

(* Every write settles, and so does close, unless the stream is aborted.   *)
WritesSettle ==
  /\ \A i \in 1..MaxSinkWrites : Waiting(i) ~> ~Waiting(i)
  /\ closing = "waits" ~> closing # "waits" \/ sink.error = "aborted"
=============================================================================
