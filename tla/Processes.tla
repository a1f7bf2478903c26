------------------------------ MODULE Processes ------------------------------
(***************************************************************************)
(* node:child_process and node:readline: a child with its pipes, the       *)
(* bridge that reads them and queues events, the drain that hands these to *)
(* the ChildProcess, and a readline Interface over its stdout.  The child  *)
(* and the kernel's pipes are the outside; JavaScript runs one turn at a   *)
(* time, and a write to stdin keeps it busy until the pipe has taken it.   *)
(***************************************************************************)
EXTENDS Integers, Sequences, SequencesExt

CONSTANTS Programs,       \* what the child may be: sequences of "read" and the characters it writes
          PipeSize,       \* units a pipe holds
          MaxUnits,       \* units written to stdin
          MaxUses        \* calls of ref, unref, kill, question and close

VARIABLES child,          \* the process: [program, pc, status, signal, read, said]
          pipe,           \* stdin and stdout: [inp, open, out]
          bridge,         \* [reaped, events]
          proc,           \* ChildProcess: [st, active, scheduled, evs, draining, unrefed, ended, heard, end]
          call,           \* units of the write to stdin under way
          line,           \* Interface: [buf, scan, question, lines, closed, byUser]
          spent           \* [units, calls]
procVars == <<child, pipe, bridge, proc, call, line, spent>>

Cr == "cr"
Lf == "lf"

ProcInit ==
  /\ child \in {[program |-> p, pc |-> 1, status |-> "none", signal |-> FALSE, read |-> <<>>, said |-> <<>>] : p \in Programs}
  /\ pipe = [inp |-> <<>>, open |-> TRUE, out |-> <<>>]
  /\ bridge = [reaped |-> FALSE, events |-> <<>>]
  /\ proc = [st |-> "new", active |-> FALSE, scheduled |-> FALSE, evs |-> <<>>, draining |-> FALSE,
             unrefed |-> FALSE, ended |-> FALSE, heard |-> <<>>, end |-> "no"]
  /\ call = <<>>
  /\ line = [buf |-> <<>>, scan |-> FALSE, question |-> FALSE, lines |-> <<>>, closed |-> FALSE, byUser |-> FALSE]
  /\ spent = [units |-> 0, calls |-> 0]

Runs == proc.st = "spawned" /\ child.status = "none"
(* JavaScript is between two turns; a listener may act within one.         *)
BetweenTurns == call = <<>> /\ ~proc.draining /\ ~line.scan /\ proc.end # "ticks"
CanCall == proc.st = "spawned" /\ call = <<>>

-----------------------------------------------------------------------------
(* The child: it reads a unit, ends where there is no more to read, writes *)
(* a character where the pipe has room, and exits after its last step.     *)
ChildReads ==
  /\ Runs /\ child.pc <= Len(child.program) /\ child.program[child.pc] = "read"
  /\ \/ /\ pipe.inp # <<>>
        /\ child' = [child EXCEPT !.pc = @ + 1, !.read = Append(@, Head(pipe.inp))]
        /\ pipe' = [pipe EXCEPT !.inp = Tail(@)]
     \/ /\ pipe.inp = <<>> /\ ~pipe.open
        /\ child' = [child EXCEPT !.status = "0"] /\ UNCHANGED pipe
  /\ UNCHANGED <<bridge, proc, call, line, spent>>
ChildWrites ==
  /\ Runs /\ child.pc <= Len(child.program) /\ child.program[child.pc] # "read" /\ Len(pipe.out) < PipeSize
  /\ child' = [child EXCEPT !.pc = @ + 1, !.said = Append(@, child.program[child.pc])]
  /\ pipe' = [pipe EXCEPT !.out = Append(@, child.program[child.pc])]
  /\ UNCHANGED <<bridge, proc, call, line, spent>>
ChildExits ==
  /\ Runs /\ (child.signal \/ child.pc > Len(child.program))
  /\ child' = [child EXCEPT !.status = IF child.signal THEN "SIGTERM" ELSE "0"]
  /\ UNCHANGED <<pipe, bridge, proc, call, line, spent>>

-----------------------------------------------------------------------------
(* The bridge. What a pipe holds becomes one event.                        *)
Queued(events, out) == IF out = <<>> THEN events ELSE Append(events, <<"stdout", out>>)

(* A bug: what the child left in the pipe is not read before its close.    *)
TryFinishAtOnce(events, out) ==
  IF bridge.reaped \/ child.status = "none" THEN events
  ELSE events \o << <<"exit", child.status>>, <<"close", child.status>> >>

(* waitpid without waiting: once, and the rest of the pipe comes first.    *)
TryFinish(events, out) ==
  IF bridge.reaped \/ child.status = "none" THEN events
  ELSE Queued(events, out) \o << <<"exit", child.status>>, <<"close", child.status>> >>
Reaped == bridge.reaped \/ child.status # "none"

(* spawnAsync, or its failure, which is told on the next tick.             *)
Spawns ==
  /\ proc.st = "new"
  /\ \/ /\ proc' = [proc EXCEPT !.st = "spawned", !.active = TRUE, !.scheduled = TRUE]
        /\ bridge' = [bridge EXCEPT !.events = << <<"spawn", "">> >>]
     \/ proc' = [proc EXCEPT !.st = "failed", !.heard = << <<"error", "EAGAIN">> >>] /\ UNCHANGED bridge
  /\ UNCHANGED <<child, pipe, call, line, spent>>

(* The callback of uv_poll or the reap of a tick: what there is, and then  *)
(* whether the child is gone.                                              *)
BridgeReads ==
  /\ proc.st = "spawned" /\ BetweenTurns /\ ~bridge.reaped /\ (pipe.out # <<>> \/ child.status # "none")
  /\ bridge' = [reaped |-> Reaped, events |-> TryFinish(Queued(bridge.events, pipe.out), <<>>)]
  /\ pipe' = [pipe EXCEPT !.out = <<>>]
  /\ UNCHANGED <<child, proc, call, line, spent>>
(* The poll callback reads one piece; more may have come when it looks     *)
(* whether the child has exited.                                           *)
BridgeReadsSome(n) ==
  /\ proc.st = "spawned" /\ BetweenTurns /\ ~bridge.reaped /\ child.status # "none" /\ n < Len(pipe.out)
  /\ bridge' = [reaped |-> TRUE, events |-> TryFinish(Queued(bridge.events, SubSeq(pipe.out, 1, n)), SubSeq(pipe.out, n + 1, Len(pipe.out)))]
  /\ pipe' = [pipe EXCEPT !.out = <<>>]
  /\ UNCHANGED <<child, proc, call, line, spent>>

-----------------------------------------------------------------------------
(* A write to stdin: _cp_write_all goes on until the pipe has taken all.   *)
Writes(n) ==
  /\ CanCall /\ ~proc.ended /\ spent.units + n <= MaxUnits
  /\ call' = [k \in 1..n |-> spent.units + k]
  /\ spent' = [spent EXCEPT !.units = @ + n]
  /\ UNCHANGED <<child, pipe, bridge, proc, line>>
WriteSome ==
  LET room == PipeSize - Len(pipe.inp)
      n == IF room < Len(call) THEN room ELSE Len(call)
  IN /\ call # <<>> /\ Runs /\ room > 0
     /\ pipe' = [pipe EXCEPT !.inp = @ \o SubSeq(call, 1, n)]
     /\ call' = SubSeq(call, n + 1, Len(call))
     /\ UNCHANGED <<child, bridge, proc, line, spent>>
(* A bug: what the pipe has no room for is dropped.                        *)
WaitFullDrops ==
  /\ call # <<>> /\ Runs /\ Len(pipe.inp) = PipeSize /\ call' = <<>>
  /\ UNCHANGED <<child, pipe, bridge, proc, line, spent>>

(* While it is full, what the child writes meanwhile is read.              *)
WaitFull ==
  /\ call # <<>> /\ Runs /\ Len(pipe.inp) = PipeSize /\ pipe.out # <<>>
  /\ bridge' = [bridge EXCEPT !.events = Queued(@, pipe.out)]
  /\ pipe' = [pipe EXCEPT !.out = <<>>]
  /\ UNCHANGED <<child, proc, call, line, spent>>
(* The child is gone: the rest is dropped, and nobody is told.             *)
WriteBroken ==
  /\ call # <<>> /\ child.status # "none" /\ call' = <<>>
  /\ UNCHANGED <<child, pipe, bridge, proc, line, spent>>

StdinEnd(p) == IF p.ended THEN p ELSE [p EXCEPT !.ended = TRUE]
EndsStdin ==
  /\ CanCall /\ ~proc.ended
  /\ proc' = StdinEnd(proc) /\ pipe' = [pipe EXCEPT !.open = FALSE]
  /\ UNCHANGED <<child, bridge, call, line, spent>>

(* kill signals the number of the child, which is another's once reaped.   *)
Uses == CanCall /\ spent.calls < MaxUses /\ spent' = [spent EXCEPT !.calls = @ + 1]
Kills ==
  /\ Uses /\ child' = [child EXCEPT !.signal = @ \/ child.status = "none"]
  /\ UNCHANGED <<pipe, bridge, proc, call, line>>
Refs ==
  /\ Uses /\ proc' = [proc EXCEPT !.unrefed = FALSE, !.scheduled = TRUE]
  /\ UNCHANGED <<child, pipe, bridge, call, line>>
Unrefs ==
  /\ Uses /\ proc' = [proc EXCEPT !.unrefed = TRUE]
  /\ UNCHANGED <<child, pipe, bridge, call, line>>

-----------------------------------------------------------------------------
(* The drain takes the events there are and emits them one by one; it runs *)
(* when it was scheduled, and in each turn of the loop that finds events.  *)
DrainBegins ==
  /\ BetweenTurns /\ (proc.scheduled \/ bridge.events # <<>>)
  /\ proc' = [proc EXCEPT !.scheduled = FALSE, !.draining = TRUE, !.evs = bridge.events]
  /\ bridge' = [bridge EXCEPT !.events = <<>>]
  /\ UNCHANGED <<child, pipe, call, line, spent>>
DrainEvent ==
  LET e == Head(proc.evs)
      p == [proc EXCEPT !.evs = Tail(@), !.heard = IF proc.active THEN Append(@, e) ELSE @]
      ends == e[1] = "close" /\ proc.active
      hears == proc.active /\ e[1] = "stdout" /\ ~line.closed
  IN /\ proc.draining /\ call = <<>> /\ ~line.scan /\ proc.evs # <<>>
     /\ proc' = IF ends THEN [StdinEnd(p) EXCEPT !.active = FALSE, !.end = "ticks"] ELSE p
     /\ pipe' = [pipe EXCEPT !.open = @ /\ ~ends]
     /\ line' = IF hears THEN [line EXCEPT !.buf = @ \o e[2], !.scan = TRUE] ELSE line
     /\ UNCHANGED <<child, bridge, call, spent>>
DrainOver ==
  /\ proc.draining /\ call = <<>> /\ ~line.scan /\ proc.evs = <<>>
  /\ proc' = [proc EXCEPT !.draining = FALSE, !.scheduled = @ \/ (proc.active /\ ~proc.unrefed)]
  /\ UNCHANGED <<child, pipe, bridge, call, line, spent>>

(* What exec has collected of stdout, given to its callback at 'close'.    *)
Collected == FlattenSeq([i \in DOMAIN proc.heard |-> IF proc.heard[i][1] = "stdout" THEN proc.heard[i][2] ELSE <<>>])

-----------------------------------------------------------------------------
(* readline: the buffer is cut at each newline, and a line goes to the     *)
(* question that waits or to the listeners of 'line'.                      *)
Trimmed(s) == IF s # <<>> /\ Last(s) = Cr THEN Front(s) ELSE s
Told(l, s) == [l EXCEPT !.question = FALSE, !.lines = Append(@, s)]
OnData ==
  LET breaks == {i \in DOMAIN line.buf : line.buf[i] = Lf}
      idx == CHOOSE i \in breaks : \A j \in breaks : i <= j
  IN /\ line.scan /\ call = <<>>
     /\ line' = IF breaks = {} THEN [line EXCEPT !.scan = FALSE]
                ELSE Told([line EXCEPT !.buf = SubSeq(@, idx + 1, Len(@))], Trimmed(SubSeq(line.buf, 1, idx - 1)))
     /\ UNCHANGED <<child, pipe, bridge, proc, call, spent>>
(* 'end' of stdout, on the tick after the drain that closed the child.     *)
OnEnd ==
  LET rest == [line EXCEPT !.buf = <<>>]
  IN /\ proc.end = "ticks" /\ call = <<>> /\ ~proc.draining /\ ~line.scan
     /\ proc' = [proc EXCEPT !.end = "told"]
     /\ line' = IF line.closed THEN line
                ELSE [IF line.buf = <<>> THEN line ELSE Told(rest, line.buf) EXCEPT !.closed = TRUE]
     /\ UNCHANGED <<child, pipe, bridge, call, spent>>
Question ==
  /\ Uses /\ line' = [line EXCEPT !.question = TRUE]
  /\ UNCHANGED <<child, pipe, bridge, proc, call>>
CloseLine ==
  /\ Uses /\ ~line.closed /\ line' = [line EXCEPT !.closed = TRUE, !.byUser = TRUE]
  /\ UNCHANGED <<child, pipe, bridge, proc, call>>

-----------------------------------------------------------------------------
ChildSteps == ChildReads \/ ChildWrites \/ ChildExits
Turns == DrainBegins \/ DrainEvent \/ DrainOver \/ OnData \/ OnEnd
Bridges == BridgeReads \/ (\E n \in 1..PipeSize : BridgeReadsSome(n))
WriteGoesOn == WriteSome \/ WaitFull \/ WriteBroken
ProcNext ==
  \/ Spawns \/ ChildSteps \/ Turns \/ Bridges \/ WriteGoesOn
  \/ (\E n \in 1..MaxUnits : Writes(n)) \/ EndsStdin \/ Kills \/ Refs \/ Unrefs \/ Question \/ CloseLine
ProcSpec == ProcInit /\ [][ProcNext]_procVars

-----------------------------------------------------------------------------
(* When 'close' is heard all that the child wrote was heard, in order;     *)
(* 'exit' came just before it, and nothing comes after it.                 *)
OutputIsWhole ==
  LET closes == {i \in DOMAIN proc.heard : proc.heard[i][1] = "close"}
  IN /\ IsPrefix(Collected, child.said)
     /\ \A i \in closes : /\ i = Len(proc.heard) /\ Collected = child.said
                          /\ proc.heard[i - 1] = <<"exit", proc.heard[i][2]>>

(* A child reads what was written to its stdin, in order, without loss     *)
(* while it lives.                                                         *)
InputIsWhole ==
  LET taken == child.read \o pipe.inp
  IN /\ \A i \in DOMAIN taken : taken[i] = i
     /\ Runs => taken \o call = [i \in 1..spent.units |-> i]

(* Lines are those of the text, however the pipe cut it up, also where a   *)
(* line end came in two pieces.                                            *)
LinesOf(text) ==
  LET breaks == {i \in DOMAIN text : text[i] = Lf}
      before == [i \in breaks |-> {j \in breaks : j < i}]
      first(i) == IF before[i] = {} THEN 1 ELSE 1 + CHOOSE j \in before[i] : \A k \in before[i] : k <= j
      all == SetToSortSeq(breaks, LAMBDA a, b : a < b)
  IN [k \in DOMAIN all |-> Trimmed(SubSeq(text, first(all[k]), all[k] - 1))]
LinesAreWhole ==
  LET lines == LinesOf(Collected) IN
  ~line.byUser /\ ~line.scan =>
     IF ~line.closed THEN line.lines = lines
     ELSE /\ Len(line.lines) \in {Len(lines), Len(lines) + 1} /\ IsPrefix(lines, line.lines)
          /\ Len(line.lines) = Len(lines) <=> (child.said = <<>> \/ Last(child.said) = Lf)

(* A write to stdin never waits for a child that waits for it, and the     *)
(* close of a child that was reaped is on its way to be heard.             *)
ProcessGoesOn ==
  /\ call # <<>> => ENABLED (WriteGoesOn \/ ChildSteps)
  /\ bridge.reaped /\ proc.active => \E i \in DOMAIN (proc.evs \o bridge.events) : (proc.evs \o bridge.events)[i][1] = "close"
=============================================================================
