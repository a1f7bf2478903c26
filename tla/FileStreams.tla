----------------------------- MODULE FileStreams -----------------------------
(***************************************************************************)
(* Streams and handles of files. An operation of the file system takes     *)
(* effect when it is called and its callback is queued; ticks run before   *)
(* callbacks. Descriptors are numbers that are used again. The content of  *)
(* a file is a sequence of units, each of which says whose it is.          *)
(***************************************************************************)
EXTENDS Naturals, Sequences, FiniteSets, SequencesExt

CONSTANTS Readers, Writers,    \* the streams
          FileOf, Begins, Ends_, \* of each stream: its file, its start (0: none given), its end (0: none)
          OfHandle,            \* the streams made from the file handle, which is of HandleFile
          HandleFile,
          Content,             \* what files hold at first
          Mark,                \* highWaterMark
          Pieces,              \* chunks a writer is given, of two units each
          Shorts,              \* the chunks <<writer, number>> of which the system takes only the first unit
          Waiting,             \* bounds what is queued when a stream is paused or resumed
          FsHabits             \* "pause", "late" (listens late), "destroy", "close" (of the handle), "abort", "noent"

VARIABLES disk,                \* the files
          fds,                 \* descriptors: [file, at], or Unused
          strm,                \* ReadStream and WriteStream
          hand,                \* FileHandle
          ticks, cbs           \* what is queued
fileVars == <<disk, fds, strm, hand, ticks, cbs>>

Streams_ == Readers \cup Writers
Unused == [file |-> "", at |-> 0]
Fds == 1..Cardinality(Streams_) + 1

NewStream(s) ==
  [st |-> "new", fd |-> 0, pos |-> Begins[s], flow |-> FALSE, listens |-> FALSE, buf |-> <<>>, ended |-> FALSE,
   endEmitted |-> FALSE, more |-> FALSE, flying |-> 0, given |-> <<>>, odd |-> FALSE,
   writing |-> FALSE, ending |-> FALSE, waits |-> FALSE,
   done |-> 0, put |-> 0, told |-> {}]

FileInit ==
  /\ disk = Content
  /\ fds = [d \in Fds |-> Unused]
  /\ strm = [s \in Streams_ |-> NewStream(s)]
  /\ hand = [fd |-> 0, st |-> "idle", n |-> 0, aborted |-> FALSE, added |-> FALSE, spoilt |-> FALSE]
  /\ ticks = <<>> /\ cbs = <<>>

W_ == [disk |-> disk, fds |-> fds, strm |-> strm, hand |-> hand, ticks |-> ticks, cbs |-> cbs]
FileBecomes(w) ==
  /\ disk' = w.disk /\ fds' = w.fds /\ strm' = w.strm /\ hand' = w.hand /\ ticks' = w.ticks /\ cbs' = w.cbs
Tick(w, s, what) == [w EXCEPT !.ticks = Append(@, <<s, what>>)]
Back(w, s, what, d) == [w EXCEPT !.cbs = Append(@, [s |-> s, what |-> what, data |-> d])]

-----------------------------------------------------------------------------
(* The file system                                                         *)
FreeFd(w) == CHOOSE d \in Fds : w.fds[d] = Unused /\ \A e \in 1..d - 1 : w.fds[e] # Unused
OpenFile(w, file, truncates) ==
  [w EXCEPT !.fds[FreeFd(w)] = [file |-> file, at |-> 1], !.disk[file] = IF truncates THEN <<>> ELSE @]
CloseFile(w, d) == [w EXCEPT !.fds[d] = Unused]

Least(a, b) == IF a < b THEN a ELSE b
(* read and write at a position, or at the descriptor's own when it is 0.  *)
AtPos(w, d, pos) == IF pos = 0 THEN w.fds[d].at ELSE pos
Moves(w, d, pos, n) == IF pos = 0 THEN [w EXCEPT !.fds[d].at = @ + n] ELSE w
ReadFrom(w, d, pos, n) ==
  LET p == AtPos(w, d, pos)
      f == w.disk[w.fds[d].file]
  IN SubSeq(f, p, Least(p + n - 1, Len(f)))
WriteTo(w, d, pos, units) ==
  LET p == AtPos(w, d, pos)
      f == w.disk[w.fds[d].file]
      n == p + Len(units) - 1
  IN Moves([w EXCEPT !.disk[w.fds[d].file] =
              [i \in 1..IF n > Len(f) THEN n ELSE Len(f) |->
                 IF i < p THEN IF i <= Len(f) THEN f[i] ELSE <<"hole", 0>>
                 ELSE IF i <= n THEN units[i - p + 1] ELSE f[i]]], d, pos, Len(units))

-----------------------------------------------------------------------------
(* The reading stream                                                      *)
Flow(w, s) ==
  LET x == w.strm[s]
      v == [w EXCEPT !.strm[s].given = @ \o x.buf, !.strm[s].buf = <<>>]
      ends == x.ended /\ ~x.endEmitted
  IN IF ~x.flow THEN w
     ELSE IF ends THEN Tick([v EXCEPT !.strm[s].endEmitted = TRUE], s, "end") ELSE v

Push(w, s, units) ==
  LET v == [w EXCEPT !.strm[s].buf = @ \o units]
      u == Flow(v, s)
      arms == ~u.strm[s].ended /\ ~u.strm[s].more /\ Len(u.strm[s].buf) < Mark
  IN CASE w.strm[s].st = "destroyed" -> w
       [] units = <<>> -> IF w.strm[s].ended THEN w ELSE Flow([w EXCEPT !.strm[s].ended = TRUE], s)
       [] v.strm[s].flow /\ arms -> Tick([u EXCEPT !.strm[s].more = TRUE], s, "more")
       [] OTHER -> u

(* A bug: one unit too many.                                               *)
ReadFileOver(w, s) ==
  LET x == w.strm[s]
      left == (Ends_[s] + 2) - x.pos
      n == IF x.pos # 0 /\ Ends_[s] # 0 THEN Least(Mark, left) ELSE Mark
      units == ReadFrom(w, x.fd, x.pos, n)
      v == [w EXCEPT !.strm[s].flying = @ + 1, !.strm[s].odd = @ \/ x.flying > 0]
  IN CASE x.fd = 0 -> w
       [] x.pos # 0 /\ Ends_[s] # 0 /\ left <= 0 -> Push(w, s, <<>>)
       [] w.fds[x.fd] = Unused -> Back(v, s, "failed", <<>>)
       [] OTHER -> Back(Moves(v, x.fd, x.pos, Len(units)), s, "read", units)

(* _read: the position is that of the last read that has come back.        *)
ReadFile(w, s) ==
  LET x == w.strm[s]
      left == (Ends_[s] + 1) - x.pos
      n == IF x.pos # 0 /\ Ends_[s] # 0 THEN Least(Mark, left) ELSE Mark
      units == ReadFrom(w, x.fd, x.pos, n)
      v == [w EXCEPT !.strm[s].flying = @ + 1, !.strm[s].odd = @ \/ x.flying > 0]
  IN CASE x.fd = 0 -> w
       [] x.pos # 0 /\ Ends_[s] # 0 /\ left <= 0 -> Push(w, s, <<>>)
       [] w.fds[x.fd] = Unused -> Back(v, s, "failed", <<>>)
       [] OTHER -> Back(Moves(v, x.fd, x.pos, Len(units)), s, "read", units)

(* read(0) takes a chunk that is buffered, and nobody gets it.             *)
Read0(w, s) ==
  LET x == w.strm[s]
      v == [w EXCEPT !.strm[s].buf = <<>>, !.strm[s].odd = @ \/ x.buf # <<>>]
  IN IF x.st = "destroyed" THEN w ELSE Flow(IF x.ended THEN v ELSE ReadFile(v, s), s)

(* The end of destroy, and destroy: what waits for the file to be opened   *)
(* is not told.                                                            *)
Destroyed(w, s) ==
  IF w.strm[s].st = "destroyed" THEN w ELSE Tick([w EXCEPT !.strm[s].st = "destroyed"], s, "close")
(* A bug: the number is kept when the file is closed.                      *)
DestroyKeeps(w, s) ==
  LET d == w.strm[s].fd IN
  IF d # 0 /\ s \notin OfHandle THEN Back(CloseFile(w, d), s, "closed", <<>>) ELSE Destroyed(w, s)

Destroy(w, s) ==
  LET d == w.strm[s].fd IN
  IF d # 0 /\ s \notin OfHandle THEN Back(CloseFile([w EXCEPT !.strm[s].fd = 0], d), s, "closed", <<>>)
  ELSE Destroyed(w, s)

(* The constructors, with a file or with the descriptor a handle has now.  *)
OpenStream(s, found) ==
  LET opening == [W_ EXCEPT !.strm[s].st = "opening"]
  IN /\ strm[s].st = "new" /\ s \notin OfHandle /\ (found \/ "noent" \in FsHabits)
     /\ FileBecomes(IF found THEN Back(OpenFile(opening, FileOf[s], s \in Writers), s, "opened", <<FreeFd(W_)>>)
                    ELSE Back(opening, s, "nofile", <<>>))
StreamOfHandle(s) ==
  /\ strm[s].st = "new" /\ s \in OfHandle /\ hand.fd # 0
  /\ FileBecomes(Tick([W_ EXCEPT !.strm[s].st = "open", !.strm[s].fd = hand.fd], s, "ready"))

OnData(s) ==
  LET v == [W_ EXCEPT !.strm[s].flow = TRUE, !.strm[s].listens = TRUE]
  IN /\ s \in Readers /\ ~strm[s].listens /\ strm[s].st # "new"
     /\ strm[s].st = "opening" \/ (s \in OfHandle /\ ticks # <<>>) \/ "late" \in FsHabits
     /\ FileBecomes(Flow(Read0(v, s), s))

Pause(s) ==
  /\ strm[s].flow /\ "pause" \in FsHabits /\ Len(ticks) + Len(cbs) < Waiting
  /\ FileBecomes([W_ EXCEPT !.strm[s].flow = FALSE])
Resume(s) ==
  /\ strm[s].listens /\ ~strm[s].flow /\ Len(ticks) + Len(cbs) < Waiting
  /\ FileBecomes(Tick(Flow([W_ EXCEPT !.strm[s].flow = TRUE], s), s, "resume"))

DestroyStream(s) ==
  /\ strm[s].st \in {"opening", "open"} /\ "destroy" \in FsHabits
  /\ FileBecomes(Destroy(W_, s))

-----------------------------------------------------------------------------
(* The writing stream                                                      *)
Chunk(s, k) == <<<<s, k, "a">>, <<s, k, "b">>>>
Taken(s, k) == IF <<s, k>> \in Shorts THEN <<<<s, k, "a">>>> ELSE Chunk(s, k)

(* _write waits for the file to be open; of what the system did not take   *)
(* nothing is written again.                                               *)
WriteFile(w, s) ==
  LET x == w.strm[s]
      units == Taken(s, x.done + 1)
  IN CASE x.fd = 0 -> [w EXCEPT !.strm[s].waits = TRUE]
       [] w.fds[x.fd] = Unused -> Back(w, s, "failed", <<>>)
       [] OTHER -> Back(WriteTo(w, x.fd, x.pos, units), s, "written", units)

(* The stream is finished, and nothing closes its file.                    *)
Finishes(w, s) ==
  LET x == w.strm[s]
      v == [w EXCEPT !.strm[s].told = @ \cup {"finish"}]
  IN IF x.ending /\ ~x.writing /\ x.done = x.put /\ "finish" \notin x.told
     THEN IF x.st = "destroyed" THEN v ELSE Tick(v, s, "close") ELSE w

Put(s) ==
  LET v == [W_ EXCEPT !.strm[s].put = @ + 1, !.strm[s].writing = TRUE]
  IN /\ s \in Writers /\ strm[s].st \in {"opening", "open"} /\ ~strm[s].ending /\ strm[s].put < Pieces
     /\ FileBecomes(IF strm[s].writing THEN v ELSE WriteFile(v, s))

EndWrites(s) ==
  /\ s \in Writers /\ strm[s].st \in {"opening", "open"} /\ ~strm[s].ending
  /\ FileBecomes(Finishes([W_ EXCEPT !.strm[s].ending = TRUE], s))

Written(w, s, units) ==
  LET n == w.strm[s].done + 1
      v == [w EXCEPT !.strm[s].done = n, !.strm[s].writing = w.strm[s].put > n,
                     !.strm[s].pos = IF @ = 0 THEN 0 ELSE @ + Len(units)]
  IN IF w.strm[s].put > n THEN WriteFile(v, s) ELSE Finishes(v, s)

-----------------------------------------------------------------------------
(* The queues                                                              *)
OnTick(w, s, what) ==
  LET x == w.strm[s]
      live == x.st # "destroyed"
  IN CASE what = "ready" ->
            IF ~live THEN w
            ELSE IF s \in Readers THEN Read0(w, s)
            ELSE IF x.waits THEN WriteFile([w EXCEPT !.strm[s].waits = FALSE], s) ELSE w
       [] what = "more" -> LET v == [w EXCEPT !.strm[s].more = FALSE]
                           IN IF live /\ x.flow /\ ~x.ended THEN Read0(v, s) ELSE v
       [] what = "resume" -> IF live /\ x.flow /\ ~x.ended THEN Read0(w, s) ELSE w
       [] what = "fail" -> Destroy(w, s)
       [] what = "end" -> IF live THEN [w EXCEPT !.strm[s].told = @ \cup {"end"}] ELSE w
       [] OTHER -> [w EXCEPT !.strm[s].told = @ \cup {"close"}]

OnCallback(w, s, what, units) ==
  LET x == w.strm[s]
      v == IF what = "read" THEN [w EXCEPT !.strm[s].flying = @ - 1] ELSE w
  IN CASE what = "opened" ->
            Tick([w EXCEPT !.strm[s].fd = units[1], !.strm[s].st = IF @ = "opening" THEN "open" ELSE @], s, "ready")
       [] what = "closed" -> Destroyed(w, s)
       [] what = "nofile" -> Tick(w, s, "fail")
       [] what = "failed" -> IF s \in Writers THEN Destroyed([w EXCEPT !.strm[s].writing = FALSE], s) ELSE IF x.st = "destroyed" THEN w ELSE Destroy(w, s)
       [] what = "written" -> Written(w, s, units)
       [] x.st = "destroyed" -> v
       [] OTHER -> Push([v EXCEPT !.strm[s].pos = IF @ = 0 THEN 0 ELSE @ + Len(units)], s, units)

RunTick ==
  /\ ticks # <<>>
  /\ FileBecomes(OnTick([W_ EXCEPT !.ticks = Tail(@)], ticks[1][1], ticks[1][2]))
RunCallback ==
  /\ ticks = <<>> /\ cbs # <<>>
  /\ FileBecomes(OnCallback([W_ EXCEPT !.cbs = Tail(@)], cbs[1].s, cbs[1].what, cbs[1].data))

-----------------------------------------------------------------------------
(* The handle: every operation is done when it is called, but a writeFile  *)
(* with a signal gives way before each chunk.                              *)
HOpen ==
  /\ hand.st = "idle" /\ hand.fd = 0 /\ OfHandle # {}
  /\ FileBecomes([OpenFile(W_, HandleFile, FALSE) EXCEPT !.hand.fd = FreeFd(W_), !.hand.st = "open"])
HClose ==
  /\ hand.fd # 0 /\ "close" \in FsHabits
  /\ FileBecomes(CloseFile([W_ EXCEPT !.hand.fd = 0], hand.fd))
HWriteFile ==
  /\ hand.st = "open" /\ hand.fd # 0
  /\ FileBecomes([W_ EXCEPT !.hand.st = "writing", !.hand.n = 0])
HStep ==
  LET w == IF hand.n = 0 THEN [W_ EXCEPT !.disk[HandleFile] = <<>>] ELSE W_
      n == hand.n + 1
  IN /\ hand.st = "writing"
     /\ FileBecomes(
          IF hand.aborted \/ hand.fd = 0 THEN [W_ EXCEPT !.hand.st = "rejected"]
          ELSE [WriteTo(w, hand.fd, n, <<<<"handle", n>>>>)
                  EXCEPT !.hand.n = n, !.hand.st = IF n = Pieces THEN "resolved" ELSE "writing"])
HAppend ==
  /\ hand.fd # 0 /\ hand.st \in {"writing", "resolved"} /\ ~hand.added
  /\ FileBecomes([WriteTo(W_, hand.fd, Len(disk[HandleFile]) + 1, <<<<"handle", "appended">>>>)
                    EXCEPT !.hand.added = TRUE, !.hand.spoilt = hand.st = "writing"])
HAbort ==
  /\ hand.st = "writing" /\ ~hand.aborted /\ "abort" \in FsHabits
  /\ FileBecomes([W_ EXCEPT !.hand.aborted = TRUE])

FileNext ==
  \/ \E s \in Streams_ : \/ \E found \in BOOLEAN : OpenStream(s, found)
                         \/ StreamOfHandle(s) \/ OnData(s) \/ Pause(s) \/ Resume(s) \/ DestroyStream(s)
                         \/ Put(s) \/ EndWrites(s)
  \/ RunTick \/ RunCallback
  \/ HOpen \/ HClose \/ HWriteFile \/ HStep \/ HAppend \/ HAbort
FileSpec == FileInit /\ [][FileNext]_fileVars

-----------------------------------------------------------------------------
(* Streams whose descriptor has not been closed under them, and streams    *)
(* whose file nobody else writes.                                          *)
Sound(s) == s \in OfHandle => hand.fd # 0
Alone(s) ==
  /\ \A t \in Streams_ \ {s} : t \in Writers \/ s \in Writers => FileOf[t] # FileOf[s]
  /\ FileOf[s] = HandleFile => hand.st \in {"idle", "open"}
AskedFor(s) ==
  LET f == Content[FileOf[s]]
      from == IF Begins[s] = 0 THEN 1 ELSE Begins[s]
  IN SubSeq(f, from, IF Ends_[s] = 0 THEN Len(f) ELSE Least(Ends_[s], Len(f)))

(* A reading stream gives its range of the file, in order and once, and    *)
(* all of it when it ends, unless two of its reads were in the air at once *)
(* or a chunk was there before anyone listened.                            *)
ReadIsExact ==
  \A s \in Readers :
    Sound(s) /\ Alone(s) /\ ~strm[s].odd =>
      /\ IsPrefix(strm[s].given, AskedFor(s))
      /\ "end" \in strm[s].told => strm[s].given = AskedFor(s)

(* When a writing stream finishes, its file holds its chunks, in order and *)
(* once each, when the system took each in one piece.                      *)
WriteIsWhole ==
  \A s \in Writers \ OfHandle :
    Alone(s) /\ "finish" \in strm[s].told /\ strm[s].put > 0 /\ s \notin {c[1] : c \in Shorts} =>
      disk[FileOf[s]] = FoldLeft(LAMBDA all, k : all \o Chunk(s, k), <<>>, [k \in 1..strm[s].put |-> k])

(* A descriptor belongs to who opened it: it is of its file, nobody else   *)
(* has it, and one that is open is known to its owner.                     *)
DescriptorsAreOwn ==
  LET has(d) == {s \in Streams_ \ OfHandle : strm[s].fd = d}
      owners(d) == has(d) \cup {cbs[i].s : i \in {j \in DOMAIN cbs : cbs[j].what = "opened" /\ cbs[j].data = <<d>>}}
                          \cup (IF hand.fd = d THEN {"handle"} ELSE {})
  IN \A d \in Fds :
       /\ fds[d] = Unused <=> owners(d) = {}
       /\ Cardinality(owners(d)) <= 1
       /\ \A s \in has(d) : fds[d].file = FileOf[s]

(* A writeFile that resolves has written all its data, and nothing else is *)
(* in the file but what was appended later.                                *)
HandleWrites ==
  hand.st = "resolved" /\ ~hand.spoilt /\ (\A s \in Writers : FileOf[s] # HandleFile) =>
    SubSeq(disk[HandleFile], 1, Pieces) = [n \in 1..Pieces |-> <<"handle", n>>]
=============================================================================
