---------------------------- MODULE Comparisons ----------------------------
(***************************************************************************)
(* How an assertion tells two values apart: the difference of their lines  *)
(* (Myers), what of it is printed, whether objects that refer to each      *)
(* other are deeply equal.                                                 *)
(***************************************************************************)
EXTENDS Integers, Sequences, FiniteSets, SequencesExt

CONSTANTS Texts,          \* sequences of lines: a line is [text, comma]
          NopLines,       \* equal lines that are printed before the rest of them is left out
          Nodes,          \* positive integers: objects
          Shapes          \* functions of Nodes to [kind, of]: of is a function of some keys to a node, or 0

VARIABLES compared        \* [what, a, b, comma, graph, result, printed]: two texts or two objects, and what came of it
cmpVars == <<compared>>

-----------------------------------------------------------------------------
(* Myers: how far along each diagonal one gets with so many differences.   *)
AreLinesEqual(a, b, comma) == a = b \/ (comma /\ a.text = b.text)
(* v[offset] of the code is at offset + 1.                                 *)
Along(v, offset) == IF offset + 1 \in DOMAIN v THEN v[offset + 1] ELSE 0
(* A bug: the diagonal is always reached from the left.                    *)
FromLeft(v, k, d, most) == k = -d
FromBelow(v, k, d, most) == k = -d \/ (k # d /\ Along(v, k - 1 + most) < Along(v, k + 1 + most))

Slide(a, b, comma, x, k) ==
  LET stops == {i \in x..Len(a) : i = Len(a) \/ i - k >= Len(b) \/ i - k < 0 \/ ~AreLinesEqual(a[i + 1], b[i - k + 1], comma)}
  IN IF stops = {} THEN x ELSE CHOOSE i \in stops : \A j \in stops : i <= j
OnLevel(k, d) == k \in -d..d /\ (k + d) % 2 = 0
Level(v, a, b, comma, d) ==
  LET most == Len(a) + Len(b) IN
  <<>> \o [i \in DOMAIN v |->
             LET k == i - 1 - most
                 x == IF FromBelow(v, k, d, most) THEN Along(v, i) ELSE Along(v, i - 2) + 1
             IN IF OnLevel(k, d) THEN Slide(a, b, comma, x, k) ELSE v[i]]
IsReached(v, a, b, d) ==
  \E k \in -d..d : OnLevel(k, d) /\ LET x == Along(v, k + Len(a) + Len(b)) IN x >= Len(a) /\ x - k >= Len(b)
Trace(a, b, comma) ==
  LET most == Len(a) + Len(b) IN
  FoldLeft(LAMBDA t, d : Append(t, Level(t[d], a, b, comma, d - 1)),
           <<[i \in 1..(2 * most + 1) |-> 0]>>, [d \in 1..(most + 1) |-> d])
(* The way back from the end, one difference at a time.                    *)
MyersDiff(a, b, comma) ==
  LET most == Len(a) + Len(b)
      trace == Trace(a, b, comma)
      last == CHOOSE d \in 0..most : IsReached(trace[d + 2], a, b, d) /\ \A e \in 0..(d - 1) : ~IsReached(trace[e + 2], a, b, e)
      back[d \in 0..most, x \in 0..Len(a), y \in 0..Len(b)] ==
        LET k == x - y
            prev == IF FromBelow(trace[d + 1], k, d, most) THEN k + 1 ELSE k - 1
            px == Along(trace[d + 1], prev + most)
            n == CHOOSE i \in 0..x : (x - i <= px \/ y - i <= px - prev) /\ \A j \in 0..(i - 1) : x - j > px /\ y - j > px - prev
            nops == [i \in 1..n |-> [do |-> "nop", line |-> IF comma /\ ~a[x - i + 1].comma THEN b[y - i + 1] ELSE a[x - i + 1]]]
        IN IF d = 0 THEN nops
           ELSE IF x - n > px THEN nops \o <<[do |-> "insert", line |-> a[x - n]]>> \o back[d - 1, x - n - 1, y - n]
           ELSE nops \o <<[do |-> "delete", line |-> b[y - n]]>> \o back[d - 1, x - n, y - n - 1]
  IN back[last, Len(a), Len(b)]

(* What is printed of a difference: of equal lines the first, and when     *)
(* others follow the last; "..." stands for the rest.                      *)
PrintMyersDiff(diff) ==
  LET n == Len(diff)
      op(i) == diff[n - i + 1].do
      ends(i) == i > 1 /\ op(i - 1) = "nop" /\ op(i) # "nop"
      run(i) == i - 1 - CHOOSE j \in 0..(i - 1) : (j = 0 \/ op(j) # "nop") /\ \A k \in (j + 1)..(i - 1) : op(k) = "nop"
      caught(i) == IF ~ends(i) THEN <<>>
                   ELSE CASE run(i) = NopLines + 1 -> <<i - 1>>
                          [] run(i) = NopLines + 2 -> <<i - 2, i - 1>>
                          [] run(i) >= NopLines + 3 -> <<0, i - 1>>
                          [] OTHER -> <<>>
      shown(i) == IF op(i) # "nop" \/ run(i) < NopLines THEN <<i>> ELSE <<>>
  IN FlattenSeq([i \in 1..n |-> caught(i) \o shown(i)])

-----------------------------------------------------------------------------
(* Deep equality remembers the pairs of objects, not of arrays, that it    *)
(* compares; these count as equal meanwhile.                               *)
KeysOf(g, n) == DOMAIN g[n].of
RECURSIVE DeepEqual(_, _, _, _), AllEqual(_, _, _, _, _)
AllEqual(g, keys, a, b, sofar) ==
  IF keys = <<>> \/ ~sofar.eq THEN sofar
  ELSE LET k == Head(keys) IN
       IF k \notin KeysOf(g, b) THEN [sofar EXCEPT !.eq = FALSE]
       ELSE AllEqual(g, Tail(keys), a, b, DeepEqual(g, g[a].of[k], g[b].of[k], sofar.seen))
DeepEqual(g, a, b, seen) ==
  IF a = b THEN [eq |-> TRUE, seen |-> seen]
  ELSE IF a = 0 \/ b = 0 \/ g[a].kind # g[b].kind THEN [eq |-> FALSE, seen |-> seen]
  ELSE IF g[a].kind = "object" /\ <<a, b>> \in seen THEN [eq |-> TRUE, seen |-> seen]
  ELSE IF Cardinality(KeysOf(g, a)) # Cardinality(KeysOf(g, b)) THEN [eq |-> FALSE, seen |-> seen]
  ELSE AllEqual(g, SetToSeq(KeysOf(g, a)), a, b,
                [eq |-> TRUE, seen |-> IF g[a].kind = "object" THEN seen \cup {<<a, b>>} ELSE seen])

-----------------------------------------------------------------------------
NoGraph == [n \in {} |-> 0]
CmpInit ==
  compared \in
    [what : {"lines"}, a : Texts, b : Texts, comma : BOOLEAN, graph : {NoGraph},
     result : {<<>>}, printed : {<<>>}]
    \cup [what : {"objects"}, a : {1}, b : Nodes \ {1}, comma : {FALSE}, graph : Shapes, result : {<<>>}, printed : {<<>>}]
DiffLines ==
  /\ compared.what = "lines" /\ compared.a \o compared.b # <<>>
  /\ LET diff == MyersDiff(compared.a, compared.b, compared.comma) IN
     compared' = [compared EXCEPT !.what = "difference", !.result = diff, !.printed = PrintMyersDiff(diff)]
IsDeepStrictEqual ==
  /\ compared.what = "objects"
  /\ compared' = [compared EXCEPT !.what = "equality", !.result = <<DeepEqual(compared.graph, compared.a, compared.b, {}).eq>>]
CmpNext == DiffLines \/ IsDeepStrictEqual
CmpSpec == CmpInit /\ [][CmpNext]_cmpVars

-----------------------------------------------------------------------------
(* A difference, read backwards, makes one text from the other with no     *)
(* more changes than needed.                                               *)
Common(a, b, comma) ==
  LET most[i \in 0..Len(a), j \in 0..Len(b)] ==
        IF i = 0 \/ j = 0 THEN 0
        ELSE LET skip == IF most[i - 1, j] > most[i, j - 1] THEN most[i - 1, j] ELSE most[i, j - 1] IN
             IF AreLinesEqual(a[i], b[j], comma) /\ most[i - 1, j - 1] + 1 > skip THEN most[i - 1, j - 1] + 1 ELSE skip
  IN most[Len(a), Len(b)]
Side(diff, without) == LET of == SelectSeq(Reverse(diff), LAMBDA c : c.do # without) IN [i \in DOMAIN of |-> of[i].line]
Alike(s, t, comma) == Len(s) = Len(t) /\ \A i \in DOMAIN s : AreLinesEqual(s[i], t[i], comma)
DifferenceIsLeast ==
  compared.what = "difference" =>
    LET d == compared.result IN
    /\ Alike(Side(d, "delete"), compared.a, compared.comma) /\ Alike(Side(d, "insert"), compared.b, compared.comma)
    /\ Len(SelectSeq(d, LAMBDA c : c.do # "nop")) =
         Len(compared.a) + Len(compared.b) - 2 * Common(compared.a, compared.b, compared.comma)

(* Whatever differs is printed, in order and once; and where equal lines   *)
(* are left out something is printed for them, except at the end.          *)
PrintIsFaithful ==
  compared.what = "difference" =>
    LET d == Reverse(compared.result)
        p == compared.printed
        lines == SelectSeq(p, LAMBDA i : i > 0)
        changes == {i \in DOMAIN d : d[i].do # "nop"}
    IN /\ \A i \in DOMAIN lines : i > 1 => lines[i - 1] < lines[i]
       /\ changes \subseteq ToSet(lines)
       /\ \A i \in DOMAIN p :
            LET before == IF i = 1 THEN 0 ELSE p[i - 1] IN
            IF p[i] = 0 THEN i < Len(p) /\ p[i + 1] - before > 2
            ELSE p[i] = before + 1 \/ (i > 1 /\ before = 0)

(* Two objects are deeply equal when no way of keys tells them apart,      *)
(* however they refer to each other.                                       *)
SameHere(g, a, b) ==
  a = b \/ (a # 0 /\ b # 0 /\ g[a].kind = g[b].kind /\ KeysOf(g, a) = KeysOf(g, b))
Apart(g) ==
  LET apart[n \in 0..Cardinality(Nodes) * Cardinality(Nodes)] ==
        IF n = 0 THEN {p \in (Nodes \cup {0}) \X (Nodes \cup {0}) : ~SameHere(g, p[1], p[2])}
        ELSE apart[n - 1] \cup {p \in Nodes \X Nodes : KeysOf(g, p[1]) = KeysOf(g, p[2])
                                   /\ \E k \in KeysOf(g, p[1]) : <<g[p[1]].of[k], g[p[2]].of[k]>> \in apart[n - 1]}
  IN apart[Cardinality(Nodes) * Cardinality(Nodes)]
EqualityIsDeep ==
  compared.what = "equality" => compared.result[1] = (<<compared.a, compared.b>> \notin Apart(compared.graph))
=============================================================================
