----------------------------- MODULE Iterators -----------------------------
(***************************************************************************)
(* The iterator helpers of the engine's prelude (builtins_stubs.js): map,  *)
(* filter, take, drop and flatMap, the joining helpers concat and zip, and *)
(* the methods that consume an iterator.  What they share is the duty to   *)
(* close the iterators that they leave unfinished.  The methods of a Set   *)
(* that go through another one follow at the end of the module.            *)
(*                                                                         *)
(* A source, when it is asked, gives a value, is done, or throws; so does  *)
(* a user's callback.  The helper asks one source at a time.               *)
(***************************************************************************)
EXTENDS Integers, Sequences, FiniteSets, SequencesExt

CONSTANTS Kinds,     \* the methods a program uses
          Joined,    \* how many sources zip and concat join
          MaxGot,    \* bound: values that a source gives
          MaxCalls   \* bound: calls of next and return on the helper

VARIABLES kind,    \* the method in use
          src,     \* per source: open, done or threw; unopened for a part of concat that is not due
          got,     \* per source: how many values it has given
          returned,  \* per source: how often its return was called
          late,    \* the sources that were asked after they had been closed
          pc,      \* idle, or step while next runs; build while zip opens its sources
          at,      \* the source that is asked next
          left,    \* what take and drop still count
          done,    \* the _done of the helper
          rows,    \* how many values the helper has returned
          gave,    \* what the last call did: value, done or throw
          calls
iterVars == <<kind, src, got, returned, late, pc, at, left, done, rows, gave, calls>>

Zips == {"shortest", "longest", "strict"}
Eager == {"find", "some", "every", "forEach", "reduce", "toArray"}
Counted == {"take", "drop"}
Sources == 1 .. Joined
Used == IF kind \in Zips \cup {"concat"} THEN Sources ELSE IF kind = "flatMap" THEN {1, 2} ELSE {1}

IterInit ==
    /\ kind \in Kinds
    /\ src = [i \in Sources |-> IF kind \in {"concat", "flatMap"} \cup Zips /\ (i > 1 \/ kind # "flatMap")
                                THEN "unopened" ELSE "open"]
    /\ got = [i \in Sources |-> 0] /\ returned = [i \in Sources |-> 0] /\ late = {}
    /\ pc = IF kind \in Zips THEN "build" ELSE "idle"
    /\ at = 1
    /\ left \in IF kind \in Counted THEN 0 .. 2 ELSE {0}
    /\ done = FALSE /\ rows = 0 /\ gave = "none" /\ calls = 0
----------------------------------------------------------------------------
Open == {i \in Used : src[i] = "open"}
CloseAll(S) == returned' = [i \in Sources |-> IF i \in S THEN returned[i] + 1 ELSE returned[i]]
Give(out) == pc' = "idle" /\ gave' = out /\ rows' = IF out = "value" THEN rows + 1 ELSE rows
Finish(out) == Give(out) /\ done' = (done \/ out = "done")

(* IteratorHelper.prototype.next: done stays done, else a step begins.     *)
Next_ ==
    /\ pc = "idle" /\ calls < MaxCalls
    /\ calls' = calls + 1
    /\ IF done THEN gave' = "done" /\ UNCHANGED <<pc, at>>
       ELSE /\ pc' = "step" /\ UNCHANGED gave
            /\ at' = IF kind \in Zips THEN 1 ELSE at
    /\ UNCHANGED <<kind, src, got, returned, late, left, done, rows>>

(* IteratorHelper.prototype.return: the first one closes what is open,     *)
(* flatMap the inner iterator before the outer.                            *)
Return ==
    /\ pc = "idle" /\ calls < MaxCalls /\ kind \notin Eager
    /\ calls' = calls + 1
    /\ done' = TRUE /\ gave' = "done"
    /\ IF done THEN UNCHANGED <<returned, src>>
       ELSE /\ CloseAll(CASE kind = "flatMap" -> {1} \cup (IF at = 2 THEN {2} ELSE {})
                          [] kind = "concat" -> IF at \in Used /\ src[at] # "unopened" THEN {at} ELSE {}
                          [] kind \in Zips -> Open
                          [] OTHER -> {1})
            /\ UNCHANGED src
    /\ UNCHANGED <<kind, got, late, pc, at, left, rows>>

(* record.next() on the source at hand: what it answered.                  *)
Ask(out) ==
    /\ pc = "step" /\ at \in Used /\ src[at] # "unopened"
    /\ src[at] = "done" => out = "done"
    /\ out = "value" => got[at] < MaxGot
    /\ late' = IF returned[at] > 0 THEN late \cup {at} ELSE late
    /\ got' = IF out = "value" THEN [got EXCEPT ![at] = @ + 1] ELSE got
    /\ src' = CASE out = "value" -> src
                [] out = "done" -> [src EXCEPT ![at] = "done"]
                [] out = "throw" -> [src EXCEPT ![at] = "threw"]
    /\ UNCHANGED <<kind, calls>>

(* The callback of a lazy or consuming method throws: the source is closed   *)
(* and the error goes on.  _done is left as it is.                         *)
CallbackThrows ==
    /\ kind \in {"map", "filter", "flatMap"} \cup (Eager \ {"toArray"})
    /\ Ask("value") /\ (kind = "flatMap" => at = 1)
    /\ CloseAll({1}) /\ Finish("throw")
    /\ UNCHANGED <<at, left>>

(* A step in which the one source of the method ends it.                   *)
SourceEnds ==
    /\ kind \notin Zips \cup {"concat", "flatMap"}
    /\ \E out \in {"done", "throw"} :
           /\ Ask(out) /\ Finish(out)
           /\ CloseAll(IF kind = "reduce" /\ out = "throw" THEN {1} ELSE {})
    /\ left' = IF kind \in Counted /\ left > 0 THEN left - 1 ELSE left
    /\ kind = "take" => left > 0
    /\ UNCHANGED at

(* map returns each value; filter and drop may pass over it.               *)
MapValue ==
    /\ kind \in {"map", "filter"} /\ Ask("value") /\ Finish("value")
    /\ UNCHANGED <<returned, at, left>>
FilterSkips ==
    /\ kind = "filter" /\ Ask("value")
    /\ UNCHANGED <<returned, pc, at, left, done, rows, gave>>

(* take: at zero the source is closed and the helper done, else one value  *)
(* less is left.                                                           *)
TakeValue ==
    /\ kind = "take" /\ left > 0 /\ Ask("value") /\ Finish("value")
    /\ left' = left - 1
    /\ UNCHANGED <<returned, at>>
(* Mutant: take has enough and does not close its source.                  *)
TakeKeepsOpen ==
    /\ kind = "take" /\ left = 0 /\ pc = "step"
    /\ Finish("done")
    /\ UNCHANGED <<kind, src, got, returned, late, at, left, calls>>

TakeEnds ==
    /\ kind = "take" /\ left = 0 /\ pc = "step"
    /\ CloseAll({1}) /\ Finish("done")
    /\ UNCHANGED <<kind, src, got, late, at, left, calls>>

DropValue ==
    /\ kind = "drop" /\ Ask("value")
    /\ IF left > 0 THEN left' = left - 1 /\ UNCHANGED <<pc, done, rows, gave>>
                   ELSE Finish("value") /\ UNCHANGED left
    /\ UNCHANGED <<returned, at>>

(* flatMap: a value of the outer source is mapped to an iterator, whose    *)
(* values are returned; an error of that iterator is not caught.           *)
FlatMapOuter ==
    /\ kind = "flatMap" /\ at = 1
    /\ \E out \in {"value", "done", "throw"} :
           /\ Ask(out)
           /\ IF out = "value" THEN at' = 2 /\ UNCHANGED <<pc, done, rows, gave>>
                               ELSE Finish(out) /\ UNCHANGED at
    /\ UNCHANGED <<returned, left>>
InnerOpens ==
    /\ kind = "flatMap" /\ at = 2 /\ pc = "step" /\ src[2] = "unopened"
    /\ src' = [src EXCEPT ![2] = "open"]
    /\ UNCHANGED <<kind, got, returned, late, pc, at, left, done, rows, gave, calls>>
FlatMapInner ==
    /\ kind = "flatMap" /\ at = 2
    /\ \E out \in {"value", "throw"} : Ask(out) /\ Finish(out)
    /\ UNCHANGED <<returned, at, left>>
InnerEnds ==
    /\ kind = "flatMap" /\ at = 2 /\ pc = "step" /\ src[2] = "open"
    /\ src' = [src EXCEPT ![2] = "unopened"] /\ got' = [got EXCEPT ![2] = 0]
    /\ at' = 1
    /\ UNCHANGED <<kind, returned, late, pc, left, done, rows, gave, calls>>

(* concat: each iterable is opened when it is due.                         *)
ConcatOpens ==
    /\ kind = "concat" /\ pc = "step"
    /\ IF at > Joined THEN Finish("done") /\ UNCHANGED src
       ELSE src[at] = "unopened" /\ src' = [src EXCEPT ![at] = "open"] /\ UNCHANGED <<pc, done, rows, gave>>
    /\ UNCHANGED <<kind, got, returned, late, at, left, calls>>
ConcatStep ==
    /\ kind = "concat" /\ at <= Joined
    /\ \E out \in {"value", "done", "throw"} :
           /\ Ask(out)
           /\ IF out = "done" THEN at' = at + 1 /\ UNCHANGED <<pc, done, rows, gave>>
                              ELSE Finish(out) /\ UNCHANGED at
    /\ UNCHANGED <<returned, left>>
----------------------------------------------------------------------------
(* Iterator.zip and zipKeyed open their sources in order.  One that cannot *)
(* be opened closes those before it - in zip twice, since the error that   *)
(* the inner catch throws is caught by the outer one.                      *)
ZipOpens ==
    /\ pc = "build" /\ at <= Joined
    /\ \/ src' = [src EXCEPT ![at] = "open"] /\ at' = at + 1 /\ UNCHANGED <<returned, done, gave>>
       \/ /\ \E times \in {1, 2} : returned' = [i \in Sources |-> IF i \in Open THEN times ELSE 0]
          /\ done' = TRUE /\ gave' = "throw"
          /\ at' = Joined + 2 /\ UNCHANGED src
    /\ UNCHANGED <<kind, got, late, pc, left, rows, calls>>
ZipOpened ==
    /\ pc = "build" /\ at = Joined + 1
    /\ pc' = "idle" /\ at' = 1
    /\ UNCHANGED <<kind, src, got, returned, late, left, done, rows, gave, calls>>

(* The sources of a row are asked in their order; with padding an          *)
(* exhausted one is passed over.                                           *)
Following == IF at < Joined THEN at' = at + 1 /\ UNCHANGED <<pc, done, rows, gave>>
                       ELSE Finish("value") /\ UNCHANGED at
ZipValue ==
    /\ kind \in Zips /\ pc = "step" /\ src[at] # "done" /\ left = 0
    /\ Ask("value") /\ Following
    /\ UNCHANGED <<returned, left>>
ZipPads ==
    /\ kind = "longest" /\ pc = "step" /\ at <= Joined /\ src[at] = "done"
    /\ Following
    /\ UNCHANGED <<kind, src, got, returned, late, left, calls>>
ZipThrows ==
    /\ kind \in Zips /\ pc = "step" /\ src[at] # "done"
    /\ Ask("throw")
    /\ CloseAll(Open \ {at}) /\ Finish("throw")
    /\ left' = 0 /\ UNCHANGED at

(* Mutant: strict does not ask whether the row had begun.                  *)
ZipDoneAnywhere ==
    /\ kind \in Zips /\ pc = "step" /\ src[at] # "done" /\ left = 0
    /\ Ask("done")
    /\ IF kind = "strict" /\ at < Joined
       THEN at' = at + 1 /\ left' = 1 /\ UNCHANGED <<returned, pc, done, rows, gave>>
       ELSE CloseAll(Open \ {at}) /\ Finish("done") /\ UNCHANGED <<at, left>>

(* A source is exhausted.  shortest closes the others.  longest goes on    *)
(* while another is open.  strict has no row only if the first source is   *)
(* the first to end, and then asks the others to be done too: left = 1.    *)
ZipDone ==
    /\ kind \in Zips /\ pc = "step" /\ src[at] # "done" /\ left = 0
    /\ Ask("done")
    /\ LET others == Open \ {at}
       IN CASE kind = "shortest" -> CloseAll(others) /\ Finish("done") /\ UNCHANGED <<at, left>>
            [] kind = "longest" -> /\ IF others = {} THEN Finish("done") /\ UNCHANGED at ELSE Following
                                   /\ UNCHANGED <<returned, left>>
            [] kind = "strict" /\ at > 1 -> CloseAll(others) /\ Finish("throw") /\ UNCHANGED <<at, left>>
            [] OTHER -> IF Joined = 1 THEN Finish("done") /\ UNCHANGED <<returned, at, left>>
                        ELSE at' = 2 /\ left' = 1 /\ UNCHANGED <<returned, pc, done, rows, gave>>
StrictRest ==
    /\ kind = "strict" /\ left = 1
    /\ \/ /\ Ask("done")
          /\ IF at < Joined THEN at' = at + 1 /\ UNCHANGED <<left, pc, done, rows, gave>>
                       ELSE Finish("done") /\ left' = 0 /\ UNCHANGED at
          /\ UNCHANGED returned
       \/ Ask("value") /\ CloseAll(Open) /\ Finish("throw") /\ left' = 0 /\ UNCHANGED at
----------------------------------------------------------------------------
(* find, some and every stop at a value that decides, and close; the       *)
(* others go on to the end.                                                *)
Decides ==
    /\ kind \in {"find", "some", "every"} /\ Ask("value")
    /\ CloseAll({1}) /\ Finish("value") /\ UNCHANGED <<at, left>>
GoesOn ==
    /\ kind \in Eager /\ Ask("value")
    /\ UNCHANGED <<returned, pc, at, left, done, rows, gave>>

IterNext ==
    \/ Next_ \/ Return \/ CallbackThrows \/ SourceEnds \/ MapValue \/ FilterSkips \/ TakeValue
    \/ TakeEnds \/ DropValue \/ FlatMapOuter \/ InnerOpens \/ FlatMapInner \/ InnerEnds \/ ConcatOpens
    \/ ConcatStep \/ ZipOpens \/ ZipOpened \/ ZipValue \/ ZipPads \/ ZipThrows \/ ZipDone
    \/ StrictRest \/ Decides \/ GoesOn
IterSpec == IterInit /\ [][IterNext]_iterVars
----------------------------------------------------------------------------
(* No iterator is left open: when the helper is done, or a step of it has  *)
(* thrown, each source it had opened was exhausted, threw or was closed.   *)
(* Not of flatMap: an error of its inner iterator leaves the outer open.   *)
NothingLeaks ==
    kind # "flatMap" /\ pc # "step" /\ (done \/ gave = "throw") =>
        \A i \in Used : src[i] = "open" => returned[i] > 0

(* zip goes in step: between two calls the sources that can still give     *)
(* have given one value for each row, and a strict zip that is done had    *)
(* sources of one length.                                                  *)
ZipInStep ==
    kind \in Zips /\ pc = "idle" /\ (\A i \in Used : returned[i] = 0 /\ src[i] # "threw") =>
        /\ ~done => \A i \in Open : got[i] = rows
        /\ kind = "strict" /\ done => \A i \in Used : got[i] = rows

(* An iterator is closed at most once.                                     *)
ClosedOnce == \A i \in Sources : returned[i] <= 1

-----------------------------------------------------------------------------
(***************************************************************************)
(* union, intersection and the other methods of a Set that take another    *)
(* one, while the other, a Set whose has and keys are the program's own,   *)
(* changes either of the two whenever it is asked.                         *)
(***************************************************************************)
CONSTANTS Values,         \* positive integers
          SetOps,         \* the methods that are called
          MaxAlters       \* changes made by callbacks

VARIABLES data,           \* of "this" and "other": the values in order of insertion, 0 where one was deleted
          task,             \* [of, st, size, at, value, result, answer, alters]
          seen            \* of each set: [ever, always]: the values it had at some time, and all the time
setVars == <<data, task, seen>>

Values_(d, s) == ToSet(d[s]) \ {0}
Has(s, v) == Contains(data[s], v)
SizeOf(s) == Cardinality(Values_(data, s))
(* A bug: an iterator counts its way through the values there are.         *)
AheadByCount(s) ==
  {i \in DOMAIN data[s] : data[s][i] # 0 /\ Cardinality({j \in 1..i : data[s][j] # 0}) > task.at}

(* An iterator goes on with the next of the values there are by then.      *)
Ahead(s) == {i \in (task.at + 1)..Len(data[s]) : data[s][i] # 0}
NextAt(s) == CHOOSE i \in Ahead(s) : \A j \in Ahead(s) : i <= j

SetInit ==
  /\ data \in [{"this", "other"} -> {SetToSeq(v) : v \in SUBSET Values}]
  /\ seen = [s \in {"this", "other"} |-> [ever |-> Values_(data, s), always |-> Values_(data, s)]]
  /\ task = [of |-> "none", st |-> "idle", size |-> 0, at |-> 0, value |-> 0, result |-> {},
           answer |-> TRUE, alters |-> 0]

(* The size of the other is read first, and says which of the two is gone  *)
(* through.  A result that begins as this set is a copy of it.             *)
AsksOther(of, size) ==
  of = "isSubsetOf" \/ (of \in {"intersection", "difference", "isDisjointFrom"} /\ SizeOf("this") <= size)
BeginsAsThis == {"union", "symmetricDifference", "difference"}
Begins_(of) ==
  LET size == SizeOf("other")
      no == (of = "isSubsetOf" /\ SizeOf("this") > size) \/ (of = "isSupersetOf" /\ SizeOf("this") < size)
  IN /\ task.st = "idle"
     /\ task' = [task EXCEPT !.of = of, !.size = size, !.answer = ~no,
                 !.st = IF no THEN "done" ELSE IF AsksOther(of, size) THEN "asking" ELSE "keys",
                 !.result = IF of \in BeginsAsThis /\ ~AsksOther(of, size) THEN Values_(data, "this") ELSE {}]
     /\ UNCHANGED <<data, seen>>
Answers_(no) == task' = [task EXCEPT !.st = "done", !.answer = ~no] /\ UNCHANGED <<data, seen>>

(* Each value of this set is asked for in the other.                       *)
Asks ==
  /\ task.st = "asking" /\ Ahead("this") # {}
  /\ task' = [task EXCEPT !.st = "has", !.at = NextAt("this"), !.value = data["this"][NextAt("this")]]
  /\ UNCHANGED <<data, seen>>
AskedAll == task.st = "asking" /\ Ahead("this") = {} /\ Answers_(FALSE)
HasAnswers ==
  /\ task.st = "has"
  /\ LET there == Has("other", task.value)
         taken == IF task.of = "intersection" THEN there ELSE task.of = "difference" /\ ~there
         no == IF task.of = "isSubsetOf" THEN ~there ELSE task.of = "isDisjointFrom" /\ there
     IN task' = [task EXCEPT !.st = IF no THEN "done" ELSE "asking", !.answer = ~no,
                         !.result = IF taken THEN @ \cup {task.value} ELSE @]
  /\ UNCHANGED <<data, seen>>

(* Or each key of the other is looked for in this one.                     *)
KeysGiven == task.st = "keys" /\ task' = [task EXCEPT !.st = "next"] /\ UNCHANGED <<data, seen>>
NextKey ==
  /\ task.st = "next" /\ Ahead("other") # {}
  /\ LET v == data["other"][NextAt("other")]
         here == Has("this", v)
         no == IF task.of = "isSupersetOf" THEN ~here ELSE task.of = "isDisjointFrom" /\ here
     IN task' = [task EXCEPT !.at = NextAt("other"), !.answer = ~no, !.st = IF no THEN "done" ELSE @,
                         !.result = CASE task.of = "union" \/ (task.of = "intersection" /\ here) -> @ \cup {v}
                                      [] task.of = "difference" -> @ \ {v}
                                      [] task.of = "symmetricDifference" -> IF here THEN @ \ {v} ELSE @ \cup {v}
                                      [] OTHER -> @]
  /\ UNCHANGED <<data, seen>>
NoMoreKeys == task.st = "next" /\ Ahead("other") = {} /\ Answers_(FALSE)

(* While it is asked, the other changes one of the two.                    *)
Alters(s, v) ==
  /\ task.st \in {"has", "keys", "next"} /\ task.alters < MaxAlters
  /\ data' = [data EXCEPT ![s] = IF Has(s, v) THEN [i \in DOMAIN @ |-> IF @[i] = v THEN 0 ELSE @[i]] ELSE Append(@, v)]
  /\ task' = [task EXCEPT !.alters = @ + 1]
  /\ seen' = [t \in DOMAIN seen |-> [ever |-> seen[t].ever \cup Values_(data', t),
                                     always |-> seen[t].always \cap Values_(data', t)]]

SetNext ==
  \/ \E of \in SetOps : Begins_(of)
  \/ Asks \/ AskedAll \/ HasAnswers \/ KeysGiven \/ NextKey \/ NoMoreKeys
  \/ \E s \in {"this", "other"}, v \in Values : Alters(s, v)
SetSpec == SetInit /\ [][SetNext]_setVars

-----------------------------------------------------------------------------
(* What is true of a value all the time is what the method says of it,     *)
(* whatever happens to the others meanwhile.                               *)
Never(s) == Values \ seen[s].ever
StableAreRight ==
  LET both == seen["this"].always \cap seen["other"].always
      onlyThis == seen["this"].always \cap Never("other")
      onlyOther == Never("this") \cap seen["other"].always
      neither == Never("this") \cap Never("other")
      holds(in, out) == in \subseteq task.result /\ task.result \cap (out \cup neither) = {}
  IN task.st = "done" =>
       CASE task.of = "union" -> holds(both \cup onlyThis \cup onlyOther, {})
         [] task.of = "intersection" -> holds(both, Never("this") \cup Never("other"))
         [] task.of = "difference" -> holds(onlyThis, both \cup Never("this"))
         [] task.of = "symmetricDifference" -> holds(onlyThis \cup onlyOther, both)
         [] task.of = "isSubsetOf" -> IF task.answer THEN onlyThis = {} ELSE ~(seen["this"].ever \subseteq seen["other"].always)
         [] task.of = "isSupersetOf" -> IF task.answer THEN onlyOther = {} ELSE ~(seen["other"].ever \subseteq seen["this"].always)
         [] OTHER -> IF task.answer THEN both = {} ELSE seen["this"].ever \cap seen["other"].ever # {}
=============================================================================
