------------------------------ MODULE Watchers ------------------------------
(***************************************************************************)
(* fs.promises.watch of a directory with all that is in it: the watcher of *)
(* the root, one watcher for each directory that is found or appears, and  *)
(* the asynchronous iterator over what they report.  The file system goes  *)
(* on while the tree is walked.                                            *)
(***************************************************************************)
EXTENDS Integers, Sequences, FiniteSets, SequencesExt

CONSTANTS Dirs,           \* the directories there may be, and Root
          Root,
          ParentOf,         \* the parent of each other one
          MaxFsSteps,     \* changes of the file system
          MaxNexts,       \* calls of next
          Again           \* TRUE: a name may be made again after it was removed

VARIABLES tree,           \* [dirs, ever, n]: what there is, what there was, changes so far
          watchers,       \* FSWatchers in the order they were made, the first of the root: [dir, alive, closed]
          watchedDirs,    \* _watchedDirs
          todo,           \* what of a walk is left: <<step, directory>>
          native,         \* callbacks of the watches that wait: [id, type, dir, name, n]
          iter            \* the iterator: [closed, failed, queue, waiters, resolved, got, asked, ended]
watchVars == <<tree, watchers, watchedDirs, todo, native, iter>>

None == "none"
WatchInit ==
  /\ tree \in {[dirs |-> d, ever |-> d, n |-> 0] : d \in {e \in SUBSET Dirs : Root \in e /\ \A x \in e \ {Root} : ParentOf[x] \in e}}
  /\ watchers = <<>> /\ watchedDirs = {} /\ todo = <<>> /\ native = <<>>
  /\ iter = [closed |-> FALSE, failed |-> FALSE, queue |-> <<>>, waiters |-> 0, resolved |-> <<>>,
             got |-> <<>>, asked |-> 0, ended |-> 0]

-----------------------------------------------------------------------------
(* The file system: each change is told to the watches that are on its     *)
(* directory; that of a directory which is removed tells so and ends.      *)
Watching(d) == SelectSeq([i \in DOMAIN watchers |-> i], LAMBDA i : watchers[i].dir = d /\ watchers[i].alive /\ ~watchers[i].closed)
TellsOf(d, type, name) ==
  LET ids == Watching(d)
  IN [k \in DOMAIN ids |-> [id |-> ids[k], type |-> type, dir |-> d, name |-> name, n |-> tree.n + 1]]
FsStep == tree.n < MaxFsSteps
Mkdir(x) ==
  /\ FsStep /\ x \notin tree.dirs /\ ParentOf[x] \in tree.dirs /\ (x \in tree.ever => Again)
  /\ tree' = [dirs |-> tree.dirs \cup {x}, ever |-> tree.ever \cup {x}, n |-> tree.n + 1]
  /\ native' = native \o TellsOf(ParentOf[x], "rename", x)
  /\ UNCHANGED <<watchers, watchedDirs, todo, iter>>
Rmdir(x) ==
  /\ FsStep /\ x \in tree.dirs /\ \A y \in tree.dirs \ {Root} : ParentOf[y] # x
  /\ tree' = [tree EXCEPT !.dirs = @ \ {x}, !.n = @ + 1]
  /\ native' = native \o TellsOf(x, "rename", x) \o TellsOf(ParentOf[x], "rename", x)
  /\ watchers' = [i \in DOMAIN watchers |-> [watchers[i] EXCEPT !.alive = @ /\ watchers[i].dir # x]]
  /\ UNCHANGED <<watchedDirs, todo, iter>>
Modify(d) ==
  /\ FsStep /\ d \in tree.dirs
  /\ tree' = [tree EXCEPT !.n = @ + 1] /\ native' = native \o TellsOf(d, "change", None)
  /\ UNCHANGED <<watchers, watchedDirs, todo, iter>>

-----------------------------------------------------------------------------
(* Walking: a directory is looked at, watched, and then listed.            *)
Started == watchers # <<>>
Create(d) == Append(watchers, [dir |-> d, alive |-> TRUE, closed |-> FALSE])
Start ==
  /\ ~Started /\ watchers' = Create(Root) /\ todo' = << <<"look", Root>> >>
  /\ UNCHANGED <<tree, watchedDirs, native, iter>>
Look ==
  LET d == todo[1][2] IN
  /\ todo # <<>> /\ todo[1][1] = "look"
  /\ todo' = (IF d \in tree.dirs THEN << <<"watch", d>> >> ELSE <<>>) \o Tail(todo)
  /\ UNCHANGED <<tree, watchers, watchedDirs, native, iter>>
(* A directory that cannot be watched any more is passed over in silence.  *)
(* A bug: what appears is watched, and not what was put into it meanwhile. *)
WatchDirOnly ==
  LET d == todo[1][2] IN
  /\ todo # <<>> /\ todo[1][1] = "watch" /\ d \notin watchedDirs
  /\ watchedDirs' = watchedDirs \cup {d}
  /\ watchers' = IF d \in tree.dirs /\ ~watchers[1].closed THEN Create(d) ELSE watchers
  /\ todo' = (IF d = Root THEN << <<"list", d>> >> ELSE <<>>) \o Tail(todo)
  /\ UNCHANGED <<tree, native, iter>>

WatchDir ==
  LET d == todo[1][2] IN
  /\ todo # <<>> /\ todo[1][1] = "watch"
  /\ IF watchers[1].closed \/ d \in watchedDirs THEN UNCHANGED <<watchers, watchedDirs>> /\ todo' = Tail(todo)
     ELSE /\ watchedDirs' = watchedDirs \cup {d}
          /\ watchers' = IF d \in tree.dirs THEN Create(d) ELSE watchers
          /\ todo' = << <<"list", d>> >> \o Tail(todo)
  /\ UNCHANGED <<tree, native, iter>>
ListDir ==
  LET d == todo[1][2]
      found == {y \in tree.dirs \ {Root} : ParentOf[y] = d}
  IN /\ todo # <<>> /\ todo[1][1] = "list"
     /\ todo' = SetToSeq({<<"look", y>> : y \in found}) \o Tail(todo)
     /\ UNCHANGED <<tree, watchers, watchedDirs, native, iter>>

(* A callback of a watch: who is not closed dispatches it to the iterator, *)
(* and a directory that a child watcher names is walked.                   *)
Pushed(it, n) ==
  IF it.closed THEN it
  ELSE IF it.waiters > 0 THEN [it EXCEPT !.waiters = @ - 1, !.resolved = Append(@, n)]
  ELSE [it EXCEPT !.queue = Append(@, n)]
Dispatch ==
  LET e == Head(native)
      heard == ~watchers[e.id].closed /\ ~watchers[1].closed
      walks == heard /\ e.id # 1 /\ e.type = "rename" /\ e.name # e.dir /\ e.name \in tree.dirs
  IN /\ todo = <<>> /\ native # <<>> /\ iter.resolved = <<>>
     /\ native' = Tail(native)
     /\ iter' = IF heard THEN Pushed(iter, e.n) ELSE iter
     /\ todo' = IF walks THEN << <<"watch", e.name>> >> ELSE <<>>
     /\ UNCHANGED <<tree, watchers, watchedDirs>>

-----------------------------------------------------------------------------
(* The iterator. An event goes to the oldest that waits, which comes back  *)
(* a microtask later, or into the queue.                                   *)
NextCalled ==
  /\ Started /\ todo = <<>> /\ iter.asked < MaxNexts
  /\ iter' = LET it == [iter EXCEPT !.asked = @ + 1] IN
             IF it.failed \/ it.closed THEN [it EXCEPT !.ended = @ + 1]
             ELSE IF it.queue # <<>> THEN [it EXCEPT !.queue = Tail(@), !.got = Append(@, Head(it.queue))]
             ELSE [it EXCEPT !.waiters = @ + 1]
  /\ UNCHANGED <<tree, watchers, watchedDirs, todo, native>>
(* What was resolved before the iterator closed is not given any more.     *)
Resumes ==
  /\ iter.resolved # <<>>
  /\ iter' = LET it == [iter EXCEPT !.resolved = Tail(@)] IN
             IF it.closed THEN [it EXCEPT !.ended = @ + 1] ELSE [it EXCEPT !.got = Append(@, Head(iter.resolved))]
  /\ UNCHANGED <<tree, watchers, watchedDirs, todo, native>>

(* FSWatcher.close closes the child watchers too. Who waits is told.       *)
CloseAll == watchers' = [i \in DOMAIN watchers |-> [watchers[i] EXCEPT !.closed = TRUE]]
Settled(it, failed) == [it EXCEPT !.closed = TRUE, !.failed = failed, !.ended = @ + it.waiters, !.waiters = 0]
Return ==
  /\ Started /\ todo = <<>> /\ ~iter.closed /\ CloseAll /\ iter' = Settled(iter, FALSE)
  /\ UNCHANGED <<tree, watchedDirs, todo, native>>
(* The signal, throw, or an error of the root's watch.                     *)
RejectAll ==
  /\ Started /\ todo = <<>> /\ ~iter.closed /\ CloseAll /\ iter' = Settled(iter, TRUE)
  /\ UNCHANGED <<tree, watchedDirs, todo, native>>

WatchNext ==
  \/ \E x \in Dirs \ {Root} : Mkdir(x) \/ Rmdir(x)
  \/ \E d \in Dirs : Modify(d)
  \/ Start \/ Look \/ WatchDir \/ ListDir \/ Dispatch
  \/ NextCalled \/ Resumes \/ Return \/ RejectAll
WatchSpec == WatchInit /\ [][WatchNext]_watchVars

-----------------------------------------------------------------------------
(* Once nothing is left to do every directory is watched, once, whatever   *)
(* appeared while the tree was walked.                                     *)
TreeIsWatched ==
  LET children == {i \in DOMAIN watchers : i > 1}
  IN /\ \A i, j \in children : watchers[i].dir = watchers[j].dir => i = j
     /\ Started /\ ~watchers[1].closed /\ todo = <<>> /\ native = <<>> =>
          \A d \in tree.dirs : \E i \in children : watchers[i].dir = d /\ watchers[i].alive

(* An iterator that is closed leaves no watcher open and nobody waiting.   *)
ClosedIsClosed == iter.closed => iter.waiters = 0 /\ \A i \in DOMAIN watchers : watchers[i].closed

(* What is reported is given in the order of the changes, each next gets   *)
(* one answer, and nobody waits beside an event that is there.             *)
GivenInOrder ==
  LET given == iter.got \o iter.resolved \o iter.queue
  IN /\ \A i, j \in DOMAIN iter.got : i < j => iter.got[i] <= iter.got[j]
     /\ ~iter.closed => \A i, j \in DOMAIN given : i < j => given[i] <= given[j]
     /\ iter.asked = Len(iter.got) + Len(iter.resolved) + iter.waiters + iter.ended
     /\ iter.waiters = 0 \/ iter.queue = <<>>

-----------------------------------------------------------------------------
(* fs.watchFile and fs.unwatchFile of one path: a state that its listeners *)
(* share, polled by a timer.  A listener is told what the file is and what *)
(* it was, and may watch and unwatch while the others are still to be told.*)
CONSTANTS Listeners,
          MaxVersions,    \* changes of the file
          MaxWatches,     \* calls of watchFile
          Liberties       \* of "inside", "all": what listeners and callers may do besides

VARIABLES version,        \* [now, n]: what the file is, 0 when there is none, and the changes so far
          states,         \* the states there were: [listeners, prev, enoentEmitted, timer, soon]
          current,        \* the one of _watchFileState, or 0
          regs,           \* the calls of watchFile: [listener, known]
          tick            \* the tick that tells: [state, at, curr, prev]
statVars == <<version, states, current, regs, tick>>

NoTick == [state |-> 0, at |-> 0, curr |-> 0, prev |-> 0]
Telling == tick # NoTick
StatInit ==
  /\ version \in {[now |-> v, n |-> v] : v \in {0, 1}}
  /\ states = <<>> /\ current = 0 /\ regs = <<>> /\ tick = NoTick

Changes ==
  /\ version.n < MaxVersions
  /\ \E v \in {0, version.n + 1} : v # version.now /\ version' = [now |-> v, n |-> version.n + 1]
  /\ UNCHANGED <<states, current, regs, tick>>

(* The first of a path takes what the file is as known, or asks for a tick *)
(* at once when there is no file; the others join, and the timer restarts. *)
NewState(r) == [listeners |-> <<r>>, prev |-> version.now, enoentEmitted |-> FALSE, timer |-> TRUE, soon |-> version.now = 0]
WatchFile(l) ==
  LET r == Len(regs) + 1 IN
  /\ r <= MaxWatches
  /\ IF current = 0 THEN states' = Append(states, NewState(r)) /\ current' = Len(states')
     ELSE states' = [states EXCEPT ![current].listeners = Append(@, r), ![current].timer = TRUE] /\ UNCHANGED current
  /\ regs' = Append(regs, [listener |-> l, known |-> states'[current'].prev])
  /\ UNCHANGED <<version, tick>>
Of(l, rs) == SelectSeq(rs, LAMBDA r : regs[r].listener = l)
(* A bug: the timer goes on as long as the process.                        *)
UnwatchKeepsTimer(l) ==
  LET left == SelectSeq(states[current].listeners, LAMBDA r : regs[r].listener # l) IN
  /\ current # 0 /\ Of(l, states[current].listeners) # <<>> /\ ~Telling
  /\ states' = [states EXCEPT ![current].listeners = left]
  /\ current' = IF left = <<>> THEN 0 ELSE current
  /\ UNCHANGED <<version, regs, tick>>

UnwatchFile(l) ==
  LET left == SelectSeq(states[current].listeners, LAMBDA r : regs[r].listener # l) IN
  /\ current # 0 /\ Of(l, states[current].listeners) # <<>> /\ (Telling => "inside" \in Liberties)
  /\ states' = [states EXCEPT ![current].listeners = left, ![current].timer = left # <<>>]
  /\ current' = IF left = <<>> THEN 0 ELSE current
  /\ UNCHANGED <<version, regs, tick>>
(* The listeners of a path that is given up as a whole stay with its state.*)
UnwatchAll ==
  /\ current # 0 /\ (Telling \/ states[current].soon => "all" \in Liberties)
  /\ states' = [states EXCEPT ![current].timer = FALSE] /\ current' = 0
  /\ UNCHANGED <<version, regs, tick>>

(* A tick looks at the file. That it is gone is told once.                 *)
Looks(s, soon) ==
  LET st == states[s]
      starts == IF version.now = 0 THEN ~st.enoentEmitted ELSE version.now # st.prev
  IN /\ ~Telling
     /\ states' = [states EXCEPT ![s].soon = @ /\ ~soon, ![s].enoentEmitted = @ /\ version.now = 0]
     /\ tick' = IF starts THEN [state |-> s, at |-> 1, curr |-> version.now, prev |-> st.prev] ELSE NoTick
     /\ UNCHANGED <<version, current, regs>>
TimerTick(s) == states[s].timer /\ Looks(s, FALSE)
SoonTick(s) == states[s].soon /\ Looks(s, TRUE)
Told == states[tick.state].listeners
Tell ==
  /\ Telling /\ tick.at <= Len(Told)
  /\ regs' = [regs EXCEPT ![Told[tick.at]].known = tick.curr]
  /\ tick' = [tick EXCEPT !.at = @ + 1]
  /\ UNCHANGED <<version, states, current>>
TickEnds ==
  /\ Telling /\ tick.at > Len(Told)
  /\ states' = [states EXCEPT ![tick.state].prev = tick.curr, ![tick.state].enoentEmitted = tick.curr = 0]
  /\ tick' = NoTick /\ UNCHANGED <<version, current, regs>>
StatNext ==
  \/ Changes \/ UnwatchAll \/ Tell \/ TickEnds
  \/ \E l \in Listeners : WatchFile(l) \/ UnwatchFile(l)
  \/ \E s \in DOMAIN states : TimerTick(s) \/ SoonTick(s)
StatSpec == StatInit /\ [][StatNext]_statVars

-----------------------------------------------------------------------------
(* Between two ticks all the listeners of a path know the same file: none  *)
(* was passed over, and none was told of a change from something else than *)
(* what it was told before.                                                *)
NonePassedOver ==
  ~Telling /\ current # 0 =>
    \A k \in DOMAIN states[current].listeners : regs[states[current].listeners[k]].known = states[current].prev

(* A path is polled for somebody: by one timer, that of its state, and no  *)
(* listener is told once it was removed.                                   *)
PolledForSomebody ==
  /\ \A s \in DOMAIN states : states[s].timer <=> s = current
  /\ \A s \in DOMAIN states : states[s].soon \/ tick.state = s => s = current \/ states[s].listeners = <<>>
  /\ current # 0 => states[current].listeners # <<>>
=============================================================================
