------------------------------ MODULE Atomics ------------------------------
(***************************************************************************)
(* Atomics on a shared buffer (builtins_stubs.js): read-modify-write with  *)
(* the width and sign of the view, the waiters of waitAsync with their     *)
(* timers, notify, and a growable SharedArrayBuffer.  Widths are small     *)
(* stand-ins: Bits for a cell, two halves of Half bits for a BigInt.       *)
(***************************************************************************)
EXTENDS Integers, Sequences, SequencesExt, FiniteSets

CONSTANTS Views,        \* the kinds of view: [signed, big]
          Bits, Half,   \* width of a number's cell; of half a BigInt's
          Operands,     \* the values the program passes
          MaxOps,       \* read-modify-writes and grows
          Keys,         \* the locations waited on
          MaxWaiters    \* calls of waitAsync

VARIABLES view,
          cell,         \* the element the program works on
          bytes,        \* byteLength and maxByteLength of the buffer
          last,         \* the last read-modify-write: [op, old, arg, ret]
          ops,
          registry,     \* _atomicsWaiters: key |-> entries in order
          entry,        \* each entry: its key, done, timer ("none", "set", "off")
          promise,      \* what its promise was resolved with
          order         \* the entries notify woke, in order

atomicVars == <<view, cell, bytes, last, ops, registry, entry, promise, order>>
cellVars == <<view, cell, bytes, last, ops>>
waiterVars == <<registry, entry, promise, order>>

-----------------------------------------------------------------------------
(* Arithmetic.                                                             *)

Unsigned(n, w) == n % 2^w
SignedOf(n, w) == LET u == n % 2^w IN IF u >= 2^(w - 1) THEN u - 2^w ELSE u
Width == IF view.big THEN 2 * Half ELSE Bits

(* _atomicsToTypedValue: two's complement of the view's width.             *)
ToTypedValue(n) == IF view.signed THEN SignedOf(n, Width) ELSE Unsigned(n, Width)

Bit(n, i) == (n \div 2^i) % 2
Bitwise_(op, a, b, w) ==
  LET b1(i) == Bit(Unsigned(a, w), i)
      b2(i) == Bit(Unsigned(b, w), i)
      r(i)  == CASE op = "and" -> b1(i) * b2(i)
                 [] op = "or"  -> IF b1(i) + b2(i) > 0 THEN 1 ELSE 0
                 [] op = "xor" -> (b1(i) + b2(i)) % 2
  IN FoldSet(LAMBDA i, acc : acc + r(i) * 2^i, 0, 0..(w - 1))

(* Division and remainder of BigInt truncate towards zero.                 *)
Quot(v, m) == IF v >= 0 THEN v \div m ELSE -((-v) \div m)
Rem(v, m)  == v - m * Quot(v, m)

(* Mutant: the high half of a negative value without its borrow.           *)
BigIntPartsTruncated(v) ==
  LET m == 2^Half
  IN <<Unsigned(Rem(Quot(v, m), m), Half), Unsigned(Rem(v, m), Half)>>

(* _atomicsBigIntParts: the two halves of a BigInt as unsigned numbers.    *)
BigIntParts(v) ==
  LET m  == 2^Half
      lo == Unsigned(Rem(v, m), Half)
      hi == Quot(v, m) - (IF v < 0 /\ lo # 0 THEN 1 ELSE 0)
  IN <<Unsigned(Rem(hi, m), Half), lo>>

(* _atomicsPartsToBigInt: the signed value of the two halves.              *)
PartsToBigInt(hi, lo) == SignedOf(hi * 2^Half + lo, 2 * Half)

BigIntBitop(op, a, b) ==
  LET pa == BigIntParts(a)
      pb == BigIntParts(b)
  IN PartsToBigInt(Bitwise_(op, pa[1], pb[1], Half), Bitwise_(op, pa[2], pb[2], Half))

(* _atomicsBinop before the write: a number passes through a signed word,  *)
(* as wide as the cell or wider; a BigInt is brought to the view's type.            *)
Word == IF view.signed THEN Bits + 1 ELSE Bits   \* a Uint32Array's cell is a word
Binop(op, old, v) ==
  IF view.big
  THEN ToTypedValue(CASE op = "add" -> old + v
                      [] op = "sub" -> old - v
                      [] op \in {"and", "or", "xor"} -> BigIntBitop(op, old, v)
                      [] OTHER -> v)
  ELSE SignedOf(CASE op = "add" -> old + v
                  [] op = "sub" -> old - v
                  [] op \in {"and", "or", "xor"} -> Bitwise_(op, old, v, Word)
                  [] OTHER -> v, Word)

-----------------------------------------------------------------------------
AtomicInit ==
  /\ view \in Views /\ cell = 0
  /\ bytes = [length |-> 1, max |-> 3] /\ last = [op |-> "none"] /\ ops = 0
  /\ registry = [k \in Keys |-> <<>>] /\ entry = <<>> /\ promise = <<>> /\ order = <<>>

(* Waiting does not look at the arithmetic: a behaviour does one or the other. *)
Computes == ops < MaxOps /\ entry = <<>> /\ ops' = ops + 1

(* add, sub, and, or, xor, exchange: the store of the view truncates.      *)
Rmw(op, arg) ==
  /\ Computes
  /\ cell' = ToTypedValue(Binop(op, cell, ToTypedValue(arg)))
  /\ last' = [op |-> op, old |-> cell, arg |-> arg]
  /\ UNCHANGED <<view, bytes, waiterVars>>

CompareExchange(expected, replacement) ==
  /\ Computes
  /\ cell' = IF cell = ToTypedValue(expected) THEN ToTypedValue(replacement) ELSE cell
  /\ last' = [op |-> "cas", old |-> cell, arg |-> replacement, expected |-> expected]
  /\ UNCHANGED <<view, bytes, waiterVars>>

(* store returns the argument as it came and keeps what fits.              *)
Store_(arg) ==
  /\ Computes
  /\ cell' = ToTypedValue(arg)
  /\ last' = [op |-> "xchg", old |-> cell, arg |-> arg]
  /\ UNCHANGED <<view, bytes, waiterVars>>

(* SharedArrayBuffer.grow: within the maximum, never back; the contents    *)
(* move with it.                                                           *)
Grow(n) ==
  /\ Computes
  /\ n > bytes.length /\ n <= bytes.max
  /\ bytes' = [bytes EXCEPT !.length = n]
  /\ UNCHANGED <<view, cell, last, waiterVars>>

-----------------------------------------------------------------------------
Without(k, e) == [registry EXCEPT ![k] = SelectSeq(@, LAMBDA x : x # e)]

(* waitAsync on a matching value: an entry, and a timer when the timeout is *)
(* finite.  (A value that differs, or a timeout of 0, answers at once.)     *)
WaitAsync(k, finite) ==
  /\ Len(entry) < MaxWaiters /\ ops = 0
  /\ registry' = [registry EXCEPT ![k] = Append(@, Len(entry) + 1)]
  /\ entry' = Append(entry, [key |-> k, done |-> FALSE,
                             timer |-> IF finite THEN "set" ELSE "none"])
  /\ promise' = Append(promise, <<>>)
  /\ UNCHANGED <<order, cellVars>>

(* Mutants: a timer does not ask whether its waiter was woken; one that    *)
(* fires early is not set again.                                           *)
TimerFiresAnyway(e, early) ==
  /\ entry[e].timer = "set" /\ ~early
  /\ entry' = [entry EXCEPT ![e].done = TRUE, ![e].timer = "off"]
  /\ registry' = Without(entry[e].key, e)
  /\ promise' = [promise EXCEPT ![e] = Append(@, "timed-out")]
  /\ UNCHANGED <<order, cellVars>>
TimerFiresOnce(e, early) ==
  /\ entry[e].timer = "set"
  /\ entry' = [entry EXCEPT ![e].done = @ \/ ~early, ![e].timer = "off"]
  /\ registry' = IF early THEN registry ELSE Without(entry[e].key, e)
  /\ promise' = IF early \/ entry[e].done THEN promise
                ELSE [promise EXCEPT ![e] = Append(@, "timed-out")]
  /\ UNCHANGED <<order, cellVars>>

(* The callback `fire`: nothing for an entry that was woken; too early by  *)
(* the wall clock, another timer; else the wait is over.                   *)
TimerFires(e, early) ==
  /\ entry[e].timer = "set"
  /\ IF entry[e].done
     THEN entry' = [entry EXCEPT ![e].timer = "off"] /\ UNCHANGED <<registry, promise>>
     ELSE IF early THEN UNCHANGED <<entry, registry, promise>>
     ELSE /\ entry' = [entry EXCEPT ![e].done = TRUE, ![e].timer = "off"]
          /\ registry' = Without(entry[e].key, e)
          /\ promise' = [promise EXCEPT ![e] = Append(@, "timed-out")]
  /\ UNCHANGED <<order, cellVars>>

(* notify(count): the first entries that are not done, in order; the rest  *)
(* stay, done entries are dropped on the way.                              *)
Notify(k, count) ==
  LET live  == SelectSeq(registry[k], LAMBDA e : ~entry[e].done)
      n     == IF count < Len(live) THEN count ELSE Len(live)
      woken == SubSeq(live, 1, n)
  IN /\ n > 0
     /\ entry' = [e \in DOMAIN entry |->
                    [entry[e] EXCEPT !.done = @ \/ e \in ToSet(woken)]]
     /\ promise' = [e \in DOMAIN promise |->
                      IF e \in ToSet(woken) THEN Append(promise[e], "ok") ELSE promise[e]]
     /\ registry' = [registry EXCEPT ![k] = SubSeq(live, n + 1, Len(live))]
     /\ order' = order \o woken
     /\ UNCHANGED cellVars

AtomicNext ==
  \/ \E op \in {"add", "sub", "and", "or", "xor", "xchg"}, v \in Operands : Rmw(op, v)
  \/ \E v, w \in Operands : CompareExchange(v, w)
  \/ \E v \in Operands : Store_(v)
  \/ \E n \in 1..3 : Grow(n)
  \/ \E k \in Keys, finite \in BOOLEAN : WaitAsync(k, finite)
  \/ \E e \in DOMAIN entry, early \in BOOLEAN : TimerFires(e, early)
  \/ \E k \in Keys, count \in 1..MaxWaiters : Notify(k, count)

(* A timer that is set fires, and not for ever too early.                  *)
AtomicFairness == \A e \in 1..MaxWaiters :
  WF_atomicVars(e \in DOMAIN entry /\ TimerFires(e, FALSE))

AtomicSpec == AtomicInit /\ [][AtomicNext]_atomicVars /\ AtomicFairness

-----------------------------------------------------------------------------
(* What an operation must leave: the exact result modulo the width of the  *)
(* view, whatever word or halves it was computed in.                       *)
Exact(l) ==
  LET a == ToTypedValue(l.arg) IN
  CASE l.op = "add" -> ToTypedValue(l.old + a)
    [] l.op = "sub" -> ToTypedValue(l.old - a)
    [] l.op \in {"and", "or", "xor"} -> ToTypedValue(Bitwise_(l.op, l.old, a, Width))
    [] l.op = "xchg" -> a
    [] l.op = "cas" -> IF l.old = ToTypedValue(l.expected) THEN a ELSE l.old

ModularArithmetic == last.op # "none" => cell = Exact(last)

(* The registry holds exactly the waiters that nobody woke and whose time  *)
(* is not up, in the order they came, and each waiter is answered once:    *)
(* whichever of notify and the timer comes first wins.  notify wakes the   *)
(* waiters of a location first come, first served.                         *)
RegistryIsTruth ==
  /\ \A k \in Keys : registry[k] =
       SelectSeq([e \in DOMAIN entry |-> e], LAMBDA e : entry[e].key = k /\ promise[e] = <<>>)
  /\ \A e \in DOMAIN promise : Len(promise[e]) <= 1
  /\ \A i, j \in DOMAIN order :
       i < j /\ entry[order[i]].key = entry[order[j]].key => order[i] < order[j]

(* A wait with a finite timeout is answered, by a notify or by its timer.  *)
WaitsEnd == \A e \in 1..MaxWaiters :
  (e \in DOMAIN entry /\ entry[e].timer = "set") ~> (e \in DOMAIN promise /\ promise[e] # <<>>)
=============================================================================
