------------------------------ MODULE Streams ------------------------------
(***************************************************************************)
(* The node:stream library of the engine: Readable, Writable, Transform,   *)
(* pipe, destroy and pipeline (builtins/js/stream.js).  A handler runs to  *)
(* completion on the call stack, what it hands to process.nextTick waits   *)
(* in the tick queue, and an answer of the outside (a read, a transform or *)
(* a write that completes later) comes when both are empty.                *)
(*                                                                         *)
(* A pipeline is a chain of streams.  Chunks are 1..n, in objectMode, and  *)
(* 0 is the null that ends a readable side.                                *)
(***************************************************************************)
EXTENDS Integers, Sequences, SequencesExt

CONSTANT Plans   \* the pipelines: records [chain, source, script, read, transform, write, hwm, chunks, faults]

VARIABLES plan,     \* the pipeline that runs
          rd,       \* the _readableState of each stream
          wr,       \* the _writableState of each stream
          ts,       \* the _transformState of the Transform
          piped,    \* the pipes that are still connected, by their source
          gone,     \* the streams with destroyed = true
          stack,    \* what still has to run of the present turn
          ticks,    \* the process.nextTick queue
          io,       \* the operations of the outside that will answer
          made,     \* how many chunks the source has produced
          written,  \* the chunks given to the _write of the last stream
          pl        \* what the callback of pipeline was told: open, ok, err
streamVars == <<plan, rd, wr, ts, piped, gone, stack, ticks, io, made, written, pl>>

Streams == {"src", "mid", "dst"}
Eof == 0
T(op, s, c) == [op |-> op, s |-> s, c |-> c]

At(s) == CHOOSE i \in DOMAIN plan.chain : plan.chain[i] = s
IsFirst(s) == At(s) = 1
IsLast(s) == At(s) = Len(plan.chain)
To(s) == plan.chain[At(s) + 1]
From(s) == plan.chain[At(s) - 1]

ReadableState == [buf |-> <<>>, ended |-> FALSE, endEmitted |-> FALSE, reading |-> FALSE,
                  needReadable |-> FALSE, emittedReadable |-> FALSE, flowing |-> "null",
                  moreScheduled |-> FALSE, pumpWaits |-> FALSE]
WritableState == [buf |-> <<>>, ending |-> FALSE, finished |-> FALSE, finalCalled |-> FALSE,
                  corked |-> 0, pendingcb |-> 0, writing |-> FALSE]
TransformState == [chunk |-> Eof, transforming |-> FALSE, given |-> Eof]

Links == {plan.chain[i] : i \in 1 .. Len(plan.chain) - 1}

(* pipeline(): each pipe attaches its 'data' listener, which starts the    *)
(* flow of its source, before the next pipe is made.                       *)
Pipeline ==
    [i \in 1 .. Len(plan.chain) - 1 |-> T("listen", plan.chain[i], 0)]

StreamInit ==
    /\ plan \in Plans
    /\ rd = [s \in Streams |-> ReadableState]
    /\ wr = [s \in Streams |-> WritableState]
    /\ ts = TransformState
    /\ piped = {} /\ gone = {}
    /\ stack = Pipeline
    /\ ticks = IF plan.source = "from" THEN <<T("pump", "src", 0)>> ELSE <<>>
    /\ io = {} /\ made = 0 /\ written = <<>>
    /\ pl = "open"

----------------------------------------------------------------------------
Top == Head(stack)
Run(op) == stack # <<>> /\ Top.op = op
Call(tasks) == stack' = tasks \o Tail(stack)
Later(tasks) == ticks' = ticks \o tasks
Idle == stack = <<>> /\ ticks = <<>>
None == <<>>

(* What listens to an event of s: the closures of pipe, of pipeline and of *)
(* the eos of the last stream, in the order of their registration.         *)
Listeners(s, event, c) ==
    CASE event = "data"  -> IF s \in piped THEN <<T("write", To(s), c)>> ELSE None
      [] event = "end"   -> IF s \in piped THEN <<T("end", To(s), 0)>> ELSE None
      [] event = "close" -> (IF s \in piped THEN <<T("end", To(s), 0)>> ELSE None)
                              \o (IF IsLast(s) THEN <<T("done", s, 0)>> ELSE None)
      [] event = "error" -> <<T("unpipe", s, 0), T("onError", s, 0)>>
      [] event = "finish" -> (IF IsFirst(s) \/ From(s) \notin piped THEN None ELSE <<T("end", s, 0)>>)
                              \o (IF IsLast(s) THEN <<T("done", s, 0)>> ELSE None)
      [] event = "drain" -> IF ~IsFirst(s) /\ From(s) \in piped THEN <<T("ondrain", From(s), 0)>> ELSE None
      [] event = "readable" -> IF rd[s].pumpWaits THEN <<T("pump", s, 0)>> ELSE None

(* destroy: once, the error and then 'close' on later ticks.               *)
Destroyed(s, err) ==
    IF s \in gone THEN None
    ELSE (IF err THEN <<T("error", s, 0)>> ELSE None) \o <<T("close", s, 0)>>

(* errorOrDestroy emits the error itself, and destroy emits it again.      *)
Failed(s) == <<T("error", s, 0)>> \o Destroyed(s, TRUE)

----------------------------------------------------------------------------
\* The readable side

(* Readable.prototype.on("data"): flow, and a read(0).                     *)
Listen ==
    /\ Run("listen")
    /\ rd' = [rd EXCEPT ![Top.s].flowing = "on"]
    /\ piped' = piped \cup {Top.s}
    /\ Call(<<T("read", Top.s, 0), T("flow", Top.s, 0)>>)
    /\ UNCHANGED <<plan, wr, ts, gone, ticks, io, made, written, pl>>

(* emitReadable, without the listener it schedules.                        *)
AnnouncesReadable(r) == r.needReadable /\ ~r.emittedReadable
EmitReadable(r) ==
    IF r.needReadable \/ r.emittedReadable
    THEN [r EXCEPT !.needReadable = FALSE, !.emittedReadable = TRUE] ELSE r

(* readableAddChunk with null: onEofChunk.                                 *)
PushEof ==
    /\ Run("push") /\ Top.c = Eof
    /\ LET s == Top.s
           r == [rd[s] EXCEPT !.ended = TRUE]
       IN IF s \in gone \/ rd[s].ended
          THEN Call(None) /\ UNCHANGED <<rd, ticks>>
          ELSE CASE r.flowing = "on" -> /\ rd' = [rd EXCEPT ![s] = r]
                                        /\ Call(<<T("flow", s, 0)>>) /\ UNCHANGED ticks
                 [] r.flowing # "on" /\ r.buf = <<>> ->
                        /\ rd' = [rd EXCEPT ![s] = EmitReadable(r)]
                        /\ Later(IF AnnouncesReadable(r) THEN <<T("readable", s, 0)>> ELSE None)
                        /\ Call(None)
                 [] OTHER -> /\ rd' = [rd EXCEPT ![s] = [r EXCEPT !.needReadable = TRUE]]
                             /\ Call(None) /\ UNCHANGED ticks
    /\ UNCHANGED <<plan, wr, ts, piped, gone, io, made, written, pl>>

(* readableAddChunk with a chunk: buffered, and given at once to a stream  *)
(* that flows, which is then asked for more.                               *)
PushChunk ==
    /\ Run("push") /\ Top.c # Eof
    /\ LET s == Top.s
       IN IF s \in gone THEN Call(None) /\ UNCHANGED rd
          ELSE /\ rd' = [rd EXCEPT ![s].buf = Append(@, Top.c)]
               /\ Call(IF rd[s].flowing = "on"
                       THEN <<T("flow", s, 0), T("arm", s, 0)>> ELSE None)
    /\ UNCHANGED <<plan, wr, ts, piped, gone, ticks, io, made, written, pl>>

ReadMore ==
    /\ Run("arm")
    /\ LET s == Top.s
           r == rd[s]
       IN IF ~r.ended /\ ~r.moreScheduled /\ Len(r.buf) < plan.hwm
          THEN /\ rd' = [rd EXCEPT ![s].moreScheduled = TRUE]
               /\ Later(<<T("rearmed", s, 0)>>)
          ELSE UNCHANGED <<rd, ticks>>
    /\ Call(None)
    /\ UNCHANGED <<plan, wr, ts, piped, gone, io, made, written, pl>>

NeedMoreData(r) == ~r.ended /\ (Len(r.buf) < plan.hwm \/ r.buf = <<>>)

(* flow: one turn of its loop, or the 'end' of a stream that is drained.   *)
Flow ==
    /\ Run("flow")
    /\ LET s == Top.s
           r == rd[s]
       IN IF r.flowing = "on" /\ r.buf # <<>>
          THEN /\ rd' = [rd EXCEPT ![s].buf = Tail(@)]
               /\ Call(Listeners(s, "data", Head(r.buf)) \o <<T("flow", s, 0)>>)
               /\ UNCHANGED ticks
          ELSE /\ Call(None)
               /\ IF r.buf = <<>> /\ r.ended /\ ~r.endEmitted
                  THEN rd' = [rd EXCEPT ![s].endEmitted = TRUE] /\ Later(<<T("ended", s, 0)>>)
                  ELSE UNCHANGED <<rd, ticks>>
    /\ UNCHANGED <<plan, wr, ts, piped, gone, io, made, written, pl>>

(* Readable.prototype.read(0): a chunk of the buffer is taken out and      *)
(* returned to a caller that does not look at it.                          *)
Read ==
    /\ Run("read")
    /\ LET s == Top.s
           r == rd[s]
       IN IF s \in gone THEN Call(None) /\ UNCHANGED rd
          ELSE /\ rd' = [rd EXCEPT ![s].reading = TRUE,
                                   ![s].buf = IF r.buf = <<>> THEN r.buf ELSE Tail(r.buf)]
               /\ Call((IF r.ended THEN None ELSE <<T("_read", s, 0)>>) \o <<T("readDone", s, 0)>>)
    /\ UNCHANGED <<plan, wr, ts, piped, gone, ticks, io, made, written, pl>>

ReadDone ==
    /\ Run("readDone")
    /\ rd' = [rd EXCEPT ![Top.s].reading = FALSE]
    /\ Call(IF rd[Top.s].flowing = "on" THEN <<T("flow", Top.s, 0)>> ELSE None)
    /\ UNCHANGED <<plan, wr, ts, piped, gone, ticks, io, made, written, pl>>

Produced == IF made < plan.chunks THEN made + 1 ELSE Eof

(* The _read of the source: it pushes what comes next, at once or later.   *)
(* A source made by Readable.from has a _read that does nothing.           *)
SourceRead ==
    /\ Run("_read") /\ Top.s = "src"
    /\ IF plan.source = "from" \/ "read" \in io THEN Call(None) /\ UNCHANGED <<io, made>>
       ELSE \/ /\ "sync" \in plan.read
               /\ made' = IF made < plan.chunks THEN made + 1 ELSE made
               /\ Call(<<T("push", "src", Produced)>>)
               /\ UNCHANGED io
            \/ /\ "async" \in plan.read
               /\ io' = io \cup {"read"}
               /\ Call(None)
               /\ UNCHANGED made
    /\ UNCHANGED <<plan, rd, wr, ts, piped, gone, ticks, written, pl>>

(* Readable.from: pumpIterable takes a value of the async iterator, and    *)
(* after a push that returns false it waits for 'readable'.                *)
Pump ==
    /\ Run("pump")
    /\ rd' = [rd EXCEPT !["src"].pumpWaits = FALSE]
    /\ io' = io \cup {"next"}
    /\ Call(None)
    /\ UNCHANGED <<plan, wr, ts, piped, gone, ticks, made, written, pl>>

Pumped ==
    /\ Run("pumped")
    /\ LET r == rd["src"]
       IN IF "src" \notin gone /\ NeedMoreData(r)
          THEN Call(<<T("pump", "src", 0)>>) /\ UNCHANGED <<rd, ticks>>
          ELSE /\ rd' = [rd EXCEPT !["src"] = EmitReadable([r EXCEPT !.pumpWaits = TRUE])]
               /\ Later(IF AnnouncesReadable(r) THEN <<T("readable", "src", 0)>> ELSE None)
               /\ Call(None)
    /\ UNCHANGED <<plan, wr, ts, piped, gone, io, made, written, pl>>
----------------------------------------------------------------------------
\* The writable side

NeedDrain(w) == w.ending \/ w.finished \/ w.corked # 0 \/ Len(w.buf) >= plan.hwm

(* Mutant: a write goes ahead of what is buffered.                         *)
WriteAhead ==
    /\ Run("write")
    /\ LET s == Top.s
       IN CASE s \in gone \/ wr[s].ending -> Call(<<T("pause", s, 0)>>) /\ UNCHANGED wr
            [] s \notin gone /\ ~wr[s].ending /\ wr[s].corked = 0 ->
                   Call(<<T("doWrite", s, Top.c), T("wrote", s, 0)>>) /\ UNCHANGED wr
            [] OTHER -> wr' = [wr EXCEPT ![s].buf = Append(@, Top.c)] /\ Call(<<T("wrote", s, 0)>>)
    /\ UNCHANGED <<plan, rd, ts, piped, gone, ticks, io, made, written, pl>>

(* Writable.prototype.write, and what ondata of pipe does with its result. *)
Write ==
    /\ Run("write")
    /\ LET s == Top.s
           w == wr[s]
           refused == <<T("pause", s, 0)>>
       IN CASE s \in gone -> Call(refused) /\ UNCHANGED <<wr, ticks>>
            [] s \notin gone /\ w.ending ->
                   Call(refused) /\ Later(<<T("fail", s, 0)>>) /\ UNCHANGED wr
            [] s \notin gone /\ ~w.ending /\ ~w.writing /\ w.corked = 0 /\ w.buf = <<>> ->
                   Call(<<T("doWrite", s, Top.c), T("wrote", s, 0)>>) /\ UNCHANGED <<wr, ticks>>
            [] OTHER -> /\ wr' = [wr EXCEPT ![s].buf = Append(@, Top.c)]
                        /\ Call(<<T("wrote", s, 0)>>) /\ UNCHANGED ticks
    /\ UNCHANGED <<plan, rd, ts, piped, gone, io, made, written, pl>>

WriteReturns ==
    /\ Run("wrote")
    /\ Call(IF wr[Top.s].writing \/ NeedDrain(wr[Top.s]) THEN <<T("pause", Top.s, 0)>> ELSE None)
    /\ UNCHANGED <<plan, rd, wr, ts, piped, gone, ticks, io, made, written, pl>>

(* ondata of pipe: write returned false, so the source is paused.          *)
Pause ==
    /\ Run("pause")
    /\ rd' = IF IsFirst(Top.s) THEN rd ELSE [rd EXCEPT ![From(Top.s)].flowing = "off"]
    /\ Call(None)
    /\ UNCHANGED <<plan, wr, ts, piped, gone, ticks, io, made, written, pl>>

(* ondrain of pipe, and resume: flow now, and read on the next tick.       *)
Resume ==
    /\ Run("ondrain")
    /\ IF rd[Top.s].flowing = "off"
       THEN /\ rd' = [rd EXCEPT ![Top.s].flowing = "on"]
            /\ Call(<<T("flow", Top.s, 0), T("resumed", Top.s, 0)>>)
       ELSE Call(None) /\ UNCHANGED rd
    /\ UNCHANGED <<plan, wr, ts, piped, gone, ticks, io, made, written, pl>>

Resumed ==
    /\ Run("resumed")
    /\ Later(<<T("pull", Top.s, 0)>>)
    /\ Call(None)
    /\ UNCHANGED <<plan, rd, wr, ts, piped, gone, io, made, written, pl>>

(* doWrite: the callback counts only after _write has returned, also when  *)
(* _write has called it already.                                           *)
DoWrite ==
    /\ Run("doWrite")
    /\ wr' = [wr EXCEPT ![Top.s].writing = TRUE]
    /\ Call(<<T("_write", Top.s, Top.c), T("counted", Top.s, 0)>>)
    /\ UNCHANGED <<plan, rd, ts, piped, gone, ticks, io, made, written, pl>>

Counted ==
    /\ Run("counted")
    /\ wr' = [wr EXCEPT ![Top.s].pendingcb = @ + 1]
    /\ Call(None)
    /\ UNCHANGED <<plan, rd, ts, piped, gone, ticks, io, made, written, pl>>

(* The _write of the last stream: it has the chunk, and calls back at once *)
(* or later.                                                               *)
SinkWrite ==
    /\ Run("_write") /\ IsLast(Top.s)
    /\ written' = Append(written, Top.c)
    /\ \/ "sync" \in plan.write /\ Call(<<T("onwrite", Top.s, 0)>>) /\ UNCHANGED io
       \/ "async" \in plan.write /\ Call(None) /\ io' = io \cup {"write"}
    /\ UNCHANGED <<plan, rd, wr, ts, piped, gone, ticks, made, pl>>

(* Mutant: the end of a buffered write is not told to the pipe.            *)
OnWriteSilent ==
    /\ Run("onwrite") /\ Top.c = 0
    /\ wr' = [wr EXCEPT ![Top.s].writing = FALSE, ![Top.s].pendingcb = @ - 1]
    /\ Call(<<T("finishMaybe", Top.s, 0), T("clearBuffer", Top.s, 0)>>)
    /\ UNCHANGED <<plan, rd, ts, piped, gone, ticks, io, made, written, pl>>

OnWrite ==
    /\ Run("onwrite") /\ Top.c = 0
    /\ wr' = [wr EXCEPT ![Top.s].writing = FALSE, ![Top.s].pendingcb = @ - 1]
    /\ Call(<<T("finishMaybe", Top.s, 0), T("clearBuffer", Top.s, 0), T("drained", Top.s, 0)>>)
    /\ UNCHANGED <<plan, rd, ts, piped, gone, ticks, io, made, written, pl>>

OnWriteError ==
    /\ Run("onwrite") /\ Top.c # 0
    /\ wr' = [wr EXCEPT ![Top.s].writing = FALSE]
    /\ Later(Failed(Top.s))
    /\ gone' = gone \cup {Top.s}
    /\ Call(None)
    /\ UNCHANGED <<plan, rd, ts, piped, io, made, written, pl>>

ClearBuffer ==
    /\ Run("clearBuffer")
    /\ LET s == Top.s
           w == wr[s]
       IN IF w.buf # <<>> /\ ~w.writing
          THEN /\ wr' = [wr EXCEPT ![s].buf = Tail(@)]
               /\ Call(<<T("doWrite", s, Head(w.buf)), T("clearBuffer", s, 0)>>)
          ELSE Call(None) /\ UNCHANGED wr
    /\ UNCHANGED <<plan, rd, ts, piped, gone, ticks, io, made, written, pl>>

Drained ==
    /\ Run("drained")
    /\ LET w == wr[Top.s]
       IN Call(IF ~w.writing /\ ~NeedDrain(w) THEN Listeners(Top.s, "drain", 0) ELSE None)
    /\ UNCHANGED <<plan, rd, wr, ts, piped, gone, ticks, io, made, written, pl>>

(* Writable.prototype.end                                                  *)
End ==
    /\ Run("end")
    /\ IF wr[Top.s].ending THEN Call(None) /\ UNCHANGED wr
       ELSE wr' = [wr EXCEPT ![Top.s].ending = TRUE] /\ Call(<<T("finishMaybe", Top.s, 0)>>)
    /\ UNCHANGED <<plan, rd, ts, piped, gone, ticks, io, made, written, pl>>

(* Mutant: the end of a stream does not wait for what is buffered.         *)
FinishableEarly(w) == w.ending /\ ~w.finished

Finishable(w) == w.ending /\ w.pendingcb = 0 /\ w.buf = <<>> /\ ~w.finished

(* finishMaybe and prefinish: the _final of a Transform flushes, ends the  *)
(* readable side, and only then finishes.                                  *)
FinishMaybe ==
    /\ Run("finishMaybe")
    /\ LET s == Top.s
       IN IF ~Finishable(wr[s]) THEN Call(None) /\ UNCHANGED <<wr, io>>
          ELSE IF s # "mid" \/ wr[s].finalCalled THEN Call(<<T("finish", s, 0)>>) /\ UNCHANGED <<wr, io>>
          ELSE /\ wr' = [wr EXCEPT ![s].finalCalled = TRUE]
               /\ \/ /\ "sync" \in plan.transform
                     /\ Call(<<T("push", s, Eof), T("finish", s, 0)>>) /\ UNCHANGED io
                  \/ "async" \in plan.transform /\ Call(None) /\ io' = io \cup {"flush"}
    /\ UNCHANGED <<plan, rd, ts, piped, gone, ticks, made, written, pl>>

(* finish: 'finish' now and 'close' on the next tick, of a Transform too,  *)
(* whose readable side may hold chunks still.                              *)
Finish ==
    /\ Run("finish")
    /\ wr' = [wr EXCEPT ![Top.s].finished = TRUE]
    /\ Call(Listeners(Top.s, "finish", 0) \o <<T("finished", Top.s, 0)>>)
    /\ UNCHANGED <<plan, rd, ts, piped, gone, ticks, io, made, written, pl>>

Finished ==
    /\ Run("finished")
    /\ Later(IF Top.s \in gone THEN None ELSE <<T("close", Top.s, 0)>>)
    /\ Call(None)
    /\ UNCHANGED <<plan, rd, wr, ts, piped, gone, io, made, written, pl>>

Uncorked(w) == IF w.corked > 0 THEN w.corked - 1 ELSE 0

(* A program that writes to the first stream itself, without looking at    *)
(* what write returns: the next call of its script.                        *)
UserCall ==
    /\ Idle /\ plan.source = "writer" /\ plan.script # <<>>
    /\ LET s == plan.chain[1]
           call == Head(plan.script)
       IN CASE call = "write"  -> /\ stack' = <<T("write", s, made + 1)>>
                                  /\ made' = made + 1 /\ UNCHANGED wr
            [] call = "cork"   -> /\ wr' = [wr EXCEPT ![s].corked = @ + 1]
                                  /\ UNCHANGED <<made, stack>>
            [] call = "uncork" -> /\ wr' = [wr EXCEPT ![s].corked = Uncorked(wr[s])]
                                  /\ stack' = IF wr[s].writing THEN <<>> ELSE <<T("clearBuffer", s, 0)>>
                                  /\ UNCHANGED made
            [] call = "end"    -> stack' = <<T("end", s, 0)>> /\ UNCHANGED <<made, wr>>
    /\ plan' = [plan EXCEPT !.script = Tail(@)]
    /\ UNCHANGED <<rd, ts, piped, gone, ticks, io, written, pl>>
----------------------------------------------------------------------------
\* The Transform

Transforms(c) ==
    \/ "sync" \in plan.transform /\ Call(<<T("afterTransform", "mid", c)>>) /\ UNCHANGED io
    \/ "async" \in plan.transform /\ Call(None) /\ io' = io \cup {"transform"}

TransformWrite ==
    /\ Run("_write") /\ Top.s = "mid"
    /\ IF ts.transforming
       THEN ts' = [ts EXCEPT !.chunk = Top.c] /\ Call(None) /\ UNCHANGED io
       ELSE ts' = [chunk |-> Top.c, transforming |-> TRUE, given |-> Top.c] /\ Transforms(Top.c)
    /\ UNCHANGED <<plan, rd, wr, piped, gone, ticks, made, written, pl>>

TransformRead ==
    /\ Run("_read") /\ Top.s = "mid"
    /\ IF ts.chunk # Eof /\ ~ts.transforming
       THEN ts' = [ts EXCEPT !.transforming = TRUE, !.given = ts.chunk] /\ Transforms(ts.chunk)
       ELSE Call(None) /\ UNCHANGED <<ts, io>>
    /\ UNCHANGED <<plan, rd, wr, piped, gone, ticks, made, written, pl>>

(* afterTransform: push what came out, answer the write, and look for a    *)
(* buffered chunk once more.                                               *)
AfterTransform ==
    /\ Run("afterTransform")
    /\ ts' = TransformState
    /\ Call(<<T("push", "mid", Top.c), T("onwrite", "mid", 0), T("next", "mid", 0)>>)
    /\ UNCHANGED <<plan, rd, wr, piped, gone, ticks, io, made, written, pl>>

TransformNext ==
    /\ Run("next")
    /\ Call(CASE wr["mid"].buf # <<>> -> <<T("_write", "mid", Head(wr["mid"].buf))>>
              [] wr["mid"].buf = <<>> /\ rd["mid"].needReadable -> <<T("read", "mid", 0)>>
              [] OTHER -> None)
    /\ UNCHANGED <<plan, rd, wr, ts, piped, gone, ticks, io, made, written, pl>>
----------------------------------------------------------------------------
\* Errors, destroy, and pipeline

(* onerror of pipe disconnects the pipes on both sides of the stream.      *)
Unpipe ==
    /\ Run("unpipe")
    /\ piped' = piped \ ({Top.s} \cup (IF IsFirst(Top.s) THEN {} ELSE {From(Top.s)}))
    /\ Call(None)
    /\ UNCHANGED <<plan, rd, wr, ts, gone, ticks, io, made, written, pl>>

(* What the streams of the chain schedule when all of them are destroyed.  *)
DestroyedAll ==
    FlattenSeq([i \in DOMAIN plan.chain |-> Destroyed(plan.chain[i], TRUE)])

(* onError of pipeline: destroy every stream, tell the callback, once.     *)
OnError ==
    /\ Run("onError")
    /\ IF pl # "open" THEN UNCHANGED <<gone, ticks, pl>>
       ELSE /\ gone' = gone \cup ToSet(plan.chain)
            /\ Later(DestroyedAll)
            /\ pl' = "err"
    /\ Call(None)
    /\ UNCHANGED <<plan, rd, wr, ts, piped, io, made, written>>

(* eos of the last stream: 'finish' or 'close', whichever comes first.     *)
Done ==
    /\ Run("done")
    /\ pl' = IF pl = "open" THEN "ok" ELSE pl
    /\ Call(None)
    /\ UNCHANGED <<plan, rd, wr, ts, piped, gone, ticks, io, made, written>>

(* The first of the tick queue runs: an event that is emitted, or a        *)
(* function that looks again at a stream that may have changed.            *)
Tick ==
    /\ stack = <<>> /\ ticks # <<>>
    /\ LET t == Head(ticks)
           s == t.s
           r == rd[s]
           pulls == r.flowing = "on" /\ ~r.ended /\ s \notin gone /\ ~r.reading
       IN /\ stack' = CASE t.op = "ended" -> IF s \in gone THEN None ELSE Listeners(s, "end", 0)
                        [] t.op \in {"pull", "rearmed"} -> IF pulls THEN <<T("read", s, 0)>> ELSE None
                        [] t.op = "readable" -> Listeners(s, "readable", 0)
                        [] t.op = "close" -> Listeners(s, "close", 0)
                        [] t.op = "error" -> Listeners(s, "error", 0)
                        [] t.op = "pump" -> <<t>>
                        [] t.op = "fail" -> None
          /\ rd' = CASE t.op = "rearmed" -> [rd EXCEPT ![s].moreScheduled = FALSE]
                     [] t.op = "readable" -> [rd EXCEPT ![s].emittedReadable = FALSE]
                     [] OTHER -> rd
          /\ ticks' = Tail(ticks) \o (IF t.op = "fail" THEN Failed(s) ELSE None)
          /\ gone' = IF t.op = "fail" THEN gone \cup {s} ELSE gone
    /\ UNCHANGED <<plan, wr, ts, piped, io, made, written, pl>>

(* An answer of the outside.  A plan with faults may turn one of them into *)
(* an error.                                                               *)
Answer(op) ==
    /\ Idle /\ op \in io
    /\ io' = io \ {op}
    /\ UNCHANGED <<plan, rd, wr, piped, gone, ticks, written, pl>>

ReadAnswers ==
    /\ Answer("read")
    /\ stack' = <<T("push", "src", Produced)>>
    /\ made' = IF made < plan.chunks THEN made + 1 ELSE made
    /\ UNCHANGED ts

NextAnswers ==
    /\ Answer("next")
    /\ stack' = <<T("push", "src", Produced)>> \o (IF Produced = Eof THEN None ELSE <<T("pumped", "src", 0)>>)
    /\ made' = IF made < plan.chunks THEN made + 1 ELSE made
    /\ UNCHANGED ts

WriteAnswers ==
    /\ Answer("write")
    /\ stack' = <<T("onwrite", plan.chain[Len(plan.chain)], 0)>>
    /\ UNCHANGED <<made, ts>>

TransformAnswers ==
    /\ Answer("transform")
    /\ stack' = <<T("afterTransform", "mid", ts.given)>>
    /\ UNCHANGED <<made, ts>>

FlushAnswers ==
    /\ Answer("flush")
    /\ stack' = <<T("push", "mid", Eof), T("finish", "mid", 0)>>
    /\ UNCHANGED <<made, ts>>

Fault(kind) ==
    /\ Idle /\ kind \in plan.faults
    /\ plan' = [plan EXCEPT !.faults = {}]
    /\ UNCHANGED <<rd, wr, piped, made, written>>

WriteFails ==
    /\ Fault("sink") /\ "write" \in io
    /\ io' = io \ {"write"}
    /\ stack' = <<T("onwrite", plan.chain[Len(plan.chain)], 1)>>
    /\ UNCHANGED <<ts, gone, ticks, pl>>

(* afterTransform with an error: the stream fails, and then its write.     *)
TransformFails ==
    /\ Fault("transform") /\ "transform" \in io
    /\ io' = io \ {"transform"}
    /\ ts' = TransformState
    /\ gone' = gone \cup {"mid"}
    /\ Later(Failed("mid"))
    /\ stack' = <<T("onwrite", "mid", 1)>>
    /\ UNCHANGED pl

SourceFails ==
    /\ Fault("source")
    /\ gone' = gone \cup {plan.chain[1]}
    /\ Later(Destroyed(plan.chain[1], TRUE))
    /\ UNCHANGED <<ts, stack, io, pl>>

(* The AbortSignal of pipeline's options.                                  *)
Abort ==
    /\ Fault("abort")
    /\ IF pl # "open" THEN UNCHANGED <<gone, ticks, pl>>
       ELSE gone' = gone \cup ToSet(plan.chain) /\ Later(DestroyedAll) /\ pl' = "err"
    /\ UNCHANGED <<ts, stack, io>>

StreamTurn ==
    \/ Listen \/ PushEof \/ PushChunk \/ ReadMore \/ Flow \/ Read \/ ReadDone \/ SourceRead
    \/ Pump \/ Pumped \/ Write \/ WriteReturns \/ Pause \/ Resume \/ Resumed \/ DoWrite \/ Counted
    \/ SinkWrite \/ OnWrite \/ OnWriteError \/ ClearBuffer \/ Drained \/ End \/ FinishMaybe
    \/ Finish \/ Finished \/ UserCall \/ TransformWrite \/ TransformRead \/ AfterTransform
    \/ TransformNext \/ Unpipe \/ OnError \/ Done \/ Tick \/ ReadAnswers \/ NextAnswers
    \/ WriteAnswers \/ TransformAnswers \/ FlushAnswers
StreamFault == WriteFails \/ TransformFails \/ SourceFails \/ Abort
StreamNext == StreamTurn \/ StreamFault

StreamFairness == WF_streamVars(StreamTurn)
StreamSpec == StreamInit /\ [][StreamNext]_streamVars /\ StreamFairness
----------------------------------------------------------------------------
AllChunks == [i \in 1 .. plan.chunks |-> i]

(* The last stream is given the chunks of the source in their order, none  *)
(* left out and none twice, whatever the pauses, the buffering and the     *)
(* order in which reads, transforms and writes answer.                     *)
ChunksInOrder == IsPrefix(written, AllChunks)

(* A pipeline whose callback is told of success has given the last stream  *)
(* everything.                                                             *)
SuccessIsWhole == pl = "ok" => written = AllChunks

(* The callback of pipeline is called in the end: no pause waits for a     *)
(* 'drain' that never comes, and no stream waits for an 'end'.             *)
PipelineSettles == <>(pl # "open")
=============================================================================
