----------------------------- MODULE BinaryViews -----------------------------
(***************************************************************************)
(* ArrayBuffer, the typed arrays and DataView: operations that stop in the *)
(* middle for a callback, the conversion of an argument or a constructor,  *)
(* which may resize or detach the buffer they work on. Memory is a list of *)
(* blocks of bytes; a buffer that is resized or transferred gets a new one.*)
(***************************************************************************)
EXTENDS Integers, Sequences, FiniteSets, SequencesExt

CONSTANTS ViewsOf,        \* the views, [off, len, fixed, bpe]; len counts elements
          Bytes0,         \* the bytes of the buffer at first
          MaxBytes,       \* maxByteLength
          Results,        \* what conversions and callbacks return
          Sizes,          \* what callbacks resize the buffer to
          MaxChanges,     \* times they do, or detach it
          Careless        \* TRUE: also in the middle of transfer and of slice of the buffer

VARIABLES mem,            \* [data, live] of each block
          ab,             \* ArrayBuffer
          over,           \* the view
          op              \* the operation under way
viewVars == <<mem, ab, over, op>>

BufferOps == {"resize", "transfer", "abSlice", "abSliceFixed", "newView", "newDataView"}
DataOps == {"get", "set"}
ArrayOps == {"fill", "slice", "subarray", "subarrayRest", "copyWithin", "setList", "setArray", "map", "sort", "reverse", "with", "at", "indexOf"}

NoOp == [name |-> "none", args |-> <<>>, len |-> 0, before |-> <<>>, out |-> <<>>, made |-> <<>>,
         changes |-> 0, st |-> "none", wild |-> FALSE]
ViewInit ==
  /\ mem = << [data |-> Bytes0, live |-> TRUE] >>
  /\ ab = [ptr |-> 1, len |-> Len(Bytes0), detached |-> FALSE]
  /\ over \in ViewsOf
  /\ op = NoOp

Here == [mem |-> mem, ab |-> ab, view |-> over, op |-> op]
Goes(w) == mem' = w.mem /\ ab' = w.ab /\ over' = w.view /\ op' = w.op

Lesser(a, b) == IF a < b THEN a ELSE b
Above0(a) == IF a > 0 THEN a ELSE 0

-----------------------------------------------------------------------------
(* Memory: an access of n bytes that a live block does not have is wild.   *)
Reached(w, p, from, n) ==
  LET inside == p # 0 /\ w.mem[p].live /\ from >= 0 /\ from + n <= Len(w.mem[p].data)
  IN [w EXCEPT !.op.wild = @ \/ (n > 0 /\ ~inside)]
PeekAt(w, p, from, n) ==
  [i \in 1..n |-> IF p # 0 /\ from + i <= Len(w.mem[p].data) THEN w.mem[p].data[from + i] ELSE 0]
Poke(w, p, from, bytes) ==
  Reached([w EXCEPT !.mem = [b \in DOMAIN @ |-> IF b # p THEN @[b] ELSE
             [@[b] EXCEPT !.data = [i \in DOMAIN @ |-> IF i > from /\ i <= from + Len(bytes) THEN bytes[i - from] ELSE @[i]]]]],
          p, from, Len(bytes))
Alloc(w, data) == [w EXCEPT !.mem = Append(@, [data |-> data, live |-> TRUE])]
Free(w, p) == IF p = 0 THEN w ELSE [w EXCEPT !.mem[p].live = FALSE]

(* Numbers of n bytes, the lowest first.                                   *)
ToBytes(v, n) == [k \in 1..n |-> (v \div 256 ^ (k - 1)) % 256]
FromBytes(s) == IF Len(s) = 1 THEN s[1] ELSE s[1] + 256 * s[2]
Swapped(s) == [k \in 1..Len(s) |-> s[Len(s) + 1 - k]]
Wrap(v, n) == v % (256 ^ n)

-----------------------------------------------------------------------------
(* How long a view is, now                                                 *)
OutOfBounds(w) ==
  \/ w.ab.detached \/ w.view.off > w.ab.len
  \/ w.view.fixed /\ w.view.off + w.view.len * w.view.bpe > w.ab.len
ViewLength(w) ==
  IF OutOfBounds(w) THEN 0 ELSE IF w.view.fixed THEN w.view.len ELSE (w.ab.len - w.view.off) \div w.view.bpe
DvLength(w) ==
  IF OutOfBounds(w) THEN 0 ELSE IF w.view.fixed THEN w.view.len * w.view.bpe ELSE w.ab.len - w.view.off

At_(w, i) == w.view.off + i * w.view.bpe
RawGet(w, i) == FromBytes(PeekAt(w, w.ab.ptr, At_(w, i), w.view.bpe))
RawSet(w, i, v) == Poke(w, w.ab.ptr, At_(w, i), ToBytes(v, w.view.bpe))
(* _readAt and _writeAt look at the length first.                          *)
ReadAt(w, i) == IF i >= 0 /\ i < ViewLength(w) THEN RawGet(w, i) ELSE -1
WriteAt(w, i, v) == IF i >= 0 /\ i < ViewLength(w) THEN RawSet(w, i, v) ELSE w
Elements(w) == [i \in 1..ViewLength(w) |-> RawGet(w, i - 1)]

Throws(w) == [w EXCEPT !.op.st = "threw"]
Returns(w, out) == [w EXCEPT !.op.st = "done", !.op.out = out]
(* A view that has no memory any more ends the operation.                  *)
Revalidate(w, next) == IF OutOfBounds(w) THEN Throws(w) ELSE next
Relative(v, n) == IF v < 0 THEN Above0(n + v) ELSE Lesser(v, n)

WriteAll(w, i, values) == FoldLeft(LAMBDA x, k : WriteAt(x, i + k - 1, values[k]), w, [k \in 1..Len(values) |-> k])

-----------------------------------------------------------------------------
(* Operations of typed arrays. Each says what happens when its next value  *)
(* has come, x.args so far; those that return w ask for another.           *)
Fill(w) ==
  LET x == w.op
      s == Relative(x.args[2], x.len)
      e == Lesser(Relative(x.args[3], x.len), ViewLength(w))
  IN CASE Len(x.args) = 1 -> Revalidate(w, [w EXCEPT !.op.len = ViewLength(w)])
       [] Len(x.args) = 2 -> Revalidate(w, w)
       [] OTHER -> Revalidate(w, Returns(FoldLeft(LAMBDA y, k : RawSet(y, s + k - 1, x.args[1]), w,
                                                  [k \in 1..Above0(e - s) |-> k]), <<>>))

(* A bug: the length is not looked at again after the constructor.         *)
SliceStale(w) ==
  LET x == w.op
      s == Relative(x.args[1], x.len)
      n == Above0(Relative(x.args[2], x.len) - s)
      copied == Returns(Reached(w, w.ab.ptr, At_(w, s), n * w.view.bpe), [i \in 1..n |-> RawGet(w, s + i - 1)])
  IN CASE Len(x.args) = 1 -> w
       [] Len(x.args) = 2 -> Revalidate(w, w)
       [] n = 0 /\ OutOfBounds(w) -> Returns(w, <<>>)
       [] OTHER -> Revalidate(w, copied)

(* After its bounds comes the constructor of the result.                   *)
Slice(w) ==
  LET x == w.op
      s == Relative(x.args[1], x.len)
      n == Above0(Relative(x.args[2], x.len) - s)
      k == Lesser(n, ViewLength(w) - s)
      copied == Returns(Reached(w, w.ab.ptr, At_(w, s), k * w.view.bpe),
                        [i \in 1..n |-> IF i <= k THEN RawGet(w, s + i - 1) ELSE 0])
  IN CASE Len(x.args) = 1 -> w
       [] Len(x.args) = 2 -> Revalidate(w, w)
       [] n = 0 /\ OutOfBounds(w) -> Returns(w, <<>>)
       [] OTHER -> Revalidate(w, copied)

(* The constructor of a view, with numbers for arguments.                  *)
MakeView(w, off, fixed, len, bpe) ==
  LET rest == w.ab.len - off IN
  IF w.ab.detached \/ off % bpe # 0 \/ off > w.ab.len \/ (fixed /\ off + len * bpe > w.ab.len) \/ (~fixed /\ rest % bpe # 0)
  THEN Throws(w)
  ELSE [Returns(w, <<>>) EXCEPT !.op.made = <<[off |-> off, len |-> IF fixed THEN len ELSE rest \div bpe, fixed |-> fixed, bpe |-> bpe]>>]

Subarray(w, hasEnd) ==
  LET x == w.op
      s == Relative(x.args[1], x.len)
      e == IF hasEnd THEN Relative(x.args[2], x.len) ELSE x.len
  IN CASE Len(x.args) = 1 -> IF hasEnd THEN w ELSE Revalidate(w, w)
       [] Len(x.args) = 2 /\ hasEnd -> Revalidate(w, w)
       [] OTHER -> Revalidate(w, MakeView(w, At_(w, s), w.view.fixed \/ hasEnd, Above0(Lesser(e, ViewLength(w)) - s), w.view.bpe))

CopyWithin(w) ==
  LET x == w.op
      to == Relative(x.args[1], x.len)
      s == Relative(x.args[2], x.len)
      n0 == Lesser(Relative(x.args[3], x.len) - s, x.len - to)
      n == Lesser(n0, Lesser(ViewLength(w) - to, ViewLength(w) - s)) * w.view.bpe
      moved == Poke(Reached(w, w.ab.ptr, At_(w, s), n), w.ab.ptr, At_(w, to), PeekAt(w, w.ab.ptr, At_(w, s), n))
  IN IF Len(x.args) < 3 THEN w
     ELSE Revalidate(w, Returns(IF n0 > 0 /\ n > 0 THEN moved ELSE w, <<>>))

(* set from an array, whose length and elements are asked for one by one.  *)
SetFromList(w) ==
  LET x == w.op
      off == x.args[1]
      j == Len(x.args) - 3
      v == WriteAt(w, off + j, x.args[Len(x.args)])
  IN CASE Len(x.args) = 1 -> Revalidate(w, IF off < 0 THEN Throws(w) ELSE w)
       [] Len(x.args) = 2 ->
            Revalidate(w, IF off + Above0(x.args[2]) > ViewLength(w) THEN Throws(w)
                          ELSE IF x.args[2] <= 0 THEN Returns(w, <<>>) ELSE w)
       [] OTHER -> IF j + 1 = x.args[2] \/ off + j + 1 >= ViewLength(v) THEN Returns(v, <<>>) ELSE v

(* set from a typed array of the same buffer, from its first byte on.      *)
SetFromArray(w) ==
  LET off == w.op.args[1]
      n == Lesser(2, w.ab.len)
  IN Revalidate(w, IF off < 0 \/ off + n > ViewLength(w) THEN Throws(w)
                   ELSE Returns(WriteAll(w, off, PeekAt(w, w.ab.ptr, 0, n)), <<>>))

(* map and its like: an element, then the callback with it.                *)
Map(w) ==
  LET i == Len(w.op.args)
      v == [w EXCEPT !.op.out = Append(@, ReadAt(w, i))]
  IN IF i >= w.op.len THEN Returns(w, w.op.out) ELSE v

Sorted(s) == SortSeq(s, LAMBDA a, b : a < b)
Sort(w) ==
  LET n == Lesser(Len(w.op.out), ViewLength(w)) IN
  IF OutOfBounds(w) THEN Throws(w) ELSE Returns(WriteAll(w, 0, SubSeq(Sorted(w.op.out), 1, n)), <<>>)

Reverse_(w) == Returns(WriteAll(w, 0, Swapped(Elements(w))), <<>>)

With(w) ==
  LET x == w.op
      n == IF Len(x.args) = 1 THEN ViewLength(w) ELSE x.len
      k == IF x.args[1] < 0 THEN n + x.args[1] ELSE x.args[1]
  IN Revalidate(w,
       CASE Len(x.args) = 1 -> IF k < 0 \/ k >= n THEN Throws(w) ELSE [w EXCEPT !.op.len = n]
         [] OTHER -> Returns(w, [i \in 1..ViewLength(w) |->
                                   IF i - 1 = k THEN Wrap(x.args[2], w.view.bpe) ELSE ReadAt(w, i - 1)]))

At(w) ==
  LET k == IF w.op.args[1] < 0 THEN w.op.len + w.op.args[1] ELSE w.op.args[1]
  IN IF OutOfBounds(w) \/ k < 0 \/ k >= w.op.len \/ k >= ViewLength(w) THEN Returns(w, <<>>)
     ELSE Returns(w, <<ReadAt(w, k)>>)

(* indexOf of the last element there was.                                  *)
Sought(x) == x.before[Len(x.before)]
IndexOf(w) ==
  LET x == w.op
      found == {i \in Relative(x.args[1], x.len)..x.len - 1 : ReadAt(w, i) = Sought(x)}
  IN IF OutOfBounds(w) \/ found = {} THEN Returns(w, <<-1>>)
     ELSE Returns(w, <<CHOOSE i \in found : \A j \in found : i <= j>>)

-----------------------------------------------------------------------------
(* DataView, two bytes at an index, the highest first                      *)
DvGet(w) ==
  LET at == w.op.args[1]
      p == w.view.off + at
  IN IF at < 0 \/ OutOfBounds(w) \/ at + 2 > DvLength(w) THEN Throws(w)
     ELSE Returns(Reached(w, w.ab.ptr, p, 2), <<FromBytes(Swapped(PeekAt(w, w.ab.ptr, p, 2)))>>)
DvSet(w) ==
  LET at == w.op.args[1] IN
  CASE Len(w.op.args) = 1 -> IF at < 0 THEN Throws(w) ELSE w
    [] OutOfBounds(w) \/ at + 2 > DvLength(w) -> Throws(w)
    [] OTHER -> Returns(Poke(w, w.ab.ptr, w.view.off + at, Swapped(ToBytes(w.op.args[2], 2))), <<>>)

-----------------------------------------------------------------------------
(* ArrayBuffer                                                             *)
Zeros(n) == [i \in 1..n |-> 0]
ResizeTo(w, n) ==
  LET kept == Lesser(w.ab.len, n)
      copied == Reached(w, w.ab.ptr, 0, kept)
      made == Alloc(copied, PeekAt(w, w.ab.ptr, 0, kept) \o Zeros(n - kept))
  IN IF n = w.ab.len THEN w
     ELSE [Free(made, w.ab.ptr) EXCEPT !.ab.ptr = Len(made.mem), !.ab.len = n]
Resize_(w) ==
  LET n == w.op.args[1] IN
  IF n < 0 \/ w.ab.detached \/ n > MaxBytes THEN Throws(w) ELSE Returns(ResizeTo(w, n), <<>>)

(* _transferTo: the length is taken before that of the result is asked for. *)
Detach(w) == [Free(w, w.ab.ptr) EXCEPT !.ab = [ptr |-> 0, len |-> 0, detached |-> TRUE]]
TransferTo(w, oldLen, n) ==
  LET kept == Lesser(oldLen, n)
      copied == Reached(w, w.ab.ptr, 0, kept)
      made == Alloc(copied, PeekAt(w, w.ab.ptr, 0, kept) \o Zeros(n - kept))
  IN [Detach(made) EXCEPT !.op.out = made.mem[Len(made.mem)].data]
Transfer(w) ==
  LET n == w.op.args[1] IN
  IF n < 0 \/ w.ab.detached \/ n > MaxBytes THEN Throws(w)
  ELSE [TransferTo(w, w.op.len, n) EXCEPT !.op.st = "done"]

(* slice asks for its constructor last; sliceToImmutable has none, and     *)
(* looks at the length again.                                              *)
AbSlice(w, fixed) ==
  LET x == w.op
      s == Relative(x.args[1], x.len)
      e == Relative(x.args[2], x.len)
      n == Above0(e - s)
      copied == Returns(Reached(w, w.ab.ptr, s, n), PeekAt(w, w.ab.ptr, s, n))
  IN CASE Len(x.args) = 1 -> w
       [] Len(x.args) = 2 -> IF w.ab.detached \/ (fixed /\ w.ab.len < e) THEN Throws(w) ELSE IF fixed THEN copied ELSE w
       [] OTHER -> copied

(* The constructors over a buffer: of an array of elements of bpe bytes,   *)
(* and of a DataView.                                                      *)
NewView(w, bpe) ==
  LET off == w.op.args[1]
      bad == off < 0 \/ w.ab.detached \/ off % bpe # 0 \/ off > w.ab.len
  IN CASE Len(w.op.args) = 1 -> IF bad THEN Throws(w) ELSE w
       [] w.op.args[2] < 0 -> Throws(w)
       [] OTHER -> MakeView(w, off, TRUE, w.op.args[2], bpe)
NewDataView(w) == NewView(w, 1)

-----------------------------------------------------------------------------
(* What an operation does before it asks for anything, and after.          *)
Begin(name) ==
  LET n == ViewLength(Here)
      x == [NoOp EXCEPT !.name = name, !.st = "asks", !.before = IF name \in BufferOps THEN PeekAt(Here, ab.ptr, 0, ab.len) ELSE Elements(Here),
                        !.len = IF name \in BufferOps THEN ab.len ELSE n]
      w == [Here EXCEPT !.op = x]
  IN /\ op.name = "none"
     /\ name = "setArray" => over.bpe = 1
     /\ Goes(CASE name \in ArrayOps /\ OutOfBounds(w) -> Throws(w)
                [] name = "sort" -> IF n <= 1 THEN Returns(w, <<>>) ELSE [w EXCEPT !.op.out = Elements(w)]
                [] name = "reverse" -> Reverse_(w)
                [] name = "map" -> Map(w)
                [] name = "indexOf" /\ n = 0 -> Returns(w, <<-1>>)
                [] name \in {"abSlice", "abSliceFixed"} /\ ab.detached -> Throws(w)
                [] OTHER -> w)

Answer_(w) ==
  CASE w.op.name = "fill" -> Fill(w)
    [] w.op.name = "slice" -> Slice(w)
    [] w.op.name = "subarray" -> Subarray(w, TRUE)
    [] w.op.name = "subarrayRest" -> Subarray(w, FALSE)
    [] w.op.name = "copyWithin" -> CopyWithin(w)
    [] w.op.name = "setList" -> SetFromList(w)
    [] w.op.name = "setArray" -> SetFromArray(w)
    [] w.op.name = "map" -> Map(w)
    [] w.op.name = "sort" -> Sort(w)
    [] w.op.name = "with" -> With(w)
    [] w.op.name = "at" -> At(w)
    [] w.op.name = "indexOf" -> IndexOf(w)
    [] w.op.name = "get" -> DvGet(w)
    [] w.op.name = "set" -> DvSet(w)
    [] w.op.name = "resize" -> Resize_(w)
    [] w.op.name = "transfer" -> Transfer(w)
    [] w.op.name = "abSlice" -> AbSlice(w, FALSE)
    [] w.op.name = "abSliceFixed" -> AbSlice(w, TRUE)
    [] w.op.name = "newView" -> NewView(w, 2)
    [] OTHER -> NewDataView(w)

(* Code of the program answers, and before it does it may resize the       *)
(* buffer, or transfer it.                                                 *)
Answers(v) ==
  /\ op.st = "asks"
  /\ Goes(Answer_([Here EXCEPT !.op.args = Append(@, v)]))
Changes(w) ==
  /\ op.st = "asks" /\ op.changes < MaxChanges /\ ~ab.detached
  /\ op.name \in {"transfer", "abSlice"} => Careless
  /\ Goes([w EXCEPT !.op.changes = @ + 1, !.op.out = op.out])

ViewNext ==
  \/ \E name \in BufferOps \cup DataOps \cup ArrayOps : Begin(name)
  \/ \E v \in Results : Answers(v)
  \/ \E n \in Sizes : Changes(ResizeTo(Here, n))
  \/ Changes(TransferTo(Here, ab.len, ab.len))
ViewSpec == ViewInit /\ [][ViewNext]_viewVars

-----------------------------------------------------------------------------
(* Whatever a callback did to the buffer, an operation reads and writes    *)
(* only bytes of a live block, and a view is made only inside its buffer.  *)
AccessInBounds ==
  /\ ~op.wild
  /\ \A i \in DOMAIN op.made : /\ ~ab.detached
                                /\ op.made[i].off + op.made[i].len * op.made[i].bpe <= ab.len

(* The block of a buffer is live and as long as the buffer says.           *)
BlockIsOwn ==
  IF ab.detached THEN ab.ptr = 0 /\ ab.len = 0
  ELSE mem[ab.ptr].live /\ Len(mem[ab.ptr].data) = ab.len /\ ab.len <= MaxBytes

(* An operation nobody interfered with does what it is there for.          *)
Now_ == Elements(Here)
Arg(i, n) ==
  LET k == IF op.args[i] < 0 THEN n + op.args[i] ELSE op.args[i]
  IN CASE k < 0 -> 0 [] k > n -> n [] OTHER -> k
ExactWhenAlone ==
  LET b == op.before
      n == Len(b)
      big == over.bpe
  IN op.st = "done" /\ op.changes = 0 =>
     CASE op.name = "fill" ->
            Now_ = [i \in 1..n |-> IF i > Arg(2, n) /\ i <= Arg(3, n) THEN Wrap(op.args[1], big) ELSE b[i]]
       [] op.name = "slice" -> op.out = SubSeq(b, Arg(1, n) + 1, Arg(2, n))
       [] op.name = "copyWithin" ->
            Now_ = [i \in 1..n |-> LET from == i - Arg(1, n) + Arg(2, n)
                                   IN IF i > Arg(1, n) /\ from <= Arg(3, n) THEN b[from] ELSE b[i]]
       [] op.name = "setList" ->
            Now_ = [i \in 1..n |-> LET k == i - op.args[1]
                                   IN IF k >= 1 /\ k <= op.args[2] THEN Wrap(op.args[k + 2], big) ELSE b[i]]
       [] op.name = "sort" -> /\ \A i \in 2..n : Now_[i - 1] <= Now_[i]
                              /\ \A e \in ToSet(b) : Cardinality({i \in 1..n : Now_[i] = e}) = Cardinality({i \in 1..n : b[i] = e})
       [] op.name = "reverse" -> \A i \in 1..n : Now_[i] = b[n + 1 - i]
       [] op.name = "with" -> \E k \in 1..n : op.out = [b EXCEPT ![k] = Wrap(op.args[2], big)]
       [] op.name = "map" -> op.out = b
       [] op.name = "resize" -> LET all == PeekAt(Here, ab.ptr, 0, ab.len) IN
            \A i \in 1..ab.len : all[i] = IF i <= n THEN b[i] ELSE 0
       [] op.name = "transfer" -> \A i \in DOMAIN op.out : op.out[i] = IF i <= n THEN b[i] ELSE 0
       [] op.name \in {"abSlice", "abSliceFixed"} -> op.out = SubSeq(b, Arg(1, n) + 1, Arg(2, n))
       [] OTHER -> TRUE
=============================================================================
