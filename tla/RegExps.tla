------------------------------- MODULE RegExps -------------------------------
(***************************************************************************)
(* match, matchAll, search, replace and split with a regular expression    *)
(* that is not left as it was made (sticky, of a subclass, or replaced by  *)
(* a function): the program, and the function that replaces, may use the   *)
(* same expression meanwhile, whose lastIndex all of them share.           *)
(* One matchAll or replace is under way at a time.                         *)
(* What the pattern matches where is a function; a subject is a sequence   *)
(* of code units, of which "hi" and "lo" are a surrogate pair.             *)
(***************************************************************************)
EXTENDS Integers, Sequences, SequencesExt

CONSTANTS Subjects,       \* sequences of code units
          MatchLengths,   \* how long a match may be; -1 where there is none
          Captured,       \* how many groups a match captures
          Limits,         \* of split
          Templates,      \* replacements, as sequences of characters
          MaxReCalls      \* calls of the program

VARIABLES subj,           \* the subject
          rx,             \* [len, global, sticky, unicode, captures, lastIndex]
          iter,           \* of matchAll: [st, rx, got, from]
          repl,           \* of replace: [st, found, next, pieces, pos]
          out             \* the last answer of a call that is made at once: [of, items, calls]
reVars == <<subj, rx, iter, repl, out>>

Size == Len(subj)
Unit_(i) == subj[i + 1]                   \* positions are counted from 0
InPair(i) == i > 0 /\ i < Size /\ Unit_(i - 1) = "hi" /\ Unit_(i) = "lo"
ToLast(i) == IF i > Size THEN Size ELSE i

(* A bug: half of a pair is a character.                                   *)
AdvanceByUnit(i, unicode) == i + 1

AdvanceStringIndex(i, unicode) == IF unicode /\ InPair(i + 1) THEN i + 2 ELSE i + 1

(* exec: where it matches from lastIndex on, and the lastIndex after it.   *)
Exec(r) ==
  LET start == IF r.global \/ r.sticky THEN r.lastIndex ELSE 0
      at == {i \in start..Size : r.len[i] >= 0 /\ (r.sticky => i = start)}
      first == CHOOSE i \in at : \A j \in at : i <= j
      moves == r.global \/ r.sticky
  IN IF start > Size \/ at = {} THEN [found |-> <<>>, rx |-> IF moves THEN [r EXCEPT !.lastIndex = 0] ELSE r]
     ELSE [found |-> <<[at |-> first, len |-> r.len[first]]>>,
           rx |-> IF moves THEN [r EXCEPT !.lastIndex = first + r.len[first]] ELSE r]
(* After an empty match lastIndex is moved on, or it would be found again. *)
PastEmpty(r, found) ==
  IF found[1].len > 0 THEN r ELSE [r EXCEPT !.lastIndex = AdvanceStringIndex(@, r.unicode)]
AllFrom(r) ==
  LET from[i \in 0..(Size + 2)] ==
        LET e == Exec([r EXCEPT !.lastIndex = i]) IN
        IF e.found = <<>> THEN <<>> ELSE e.found \o from[PastEmpty(e.rx, e.found).lastIndex]
  IN from[r.lastIndex]

-----------------------------------------------------------------------------
Idle == [of |-> "none", items |-> <<>>, calls |-> 0]
Answered(of, items) ==
  /\ out.calls < MaxReCalls
  /\ out' = [of |-> of, items |-> items, calls |-> out.calls + 1]
SymbolMatch ==
  /\ IF rx.global THEN Answered("match", AllFrom([rx EXCEPT !.lastIndex = 0])) /\ rx' = [rx EXCEPT !.lastIndex = 0]
     ELSE Answered("match", Exec(rx).found) /\ rx' = Exec(rx).rx
  /\ UNCHANGED <<subj, iter, repl>>
SymbolSearch ==
  /\ Answered("search", Exec([rx EXCEPT !.lastIndex = 0]).found)
  /\ UNCHANGED <<subj, rx, iter, repl>>

Piece(from, to) == [at |-> from, len |-> to - from, captured |-> FALSE]
Capture(m) == [i \in 1..rx.captures |-> [m EXCEPT !.captured = TRUE]]
(* The splitter is a sticky copy: it is tried at one position after the    *)
(* other, and a match that ends where the piece begins does not split.     *)
Split(lim) ==
  LET splitter(q) == Exec([rx EXCEPT !.sticky = TRUE, !.lastIndex = q])
      from[p \in 0..Size, q \in 0..(Size + 1)] ==
        IF q >= Size THEN <<Piece(p, Size)>>
        ELSE LET z == splitter(q) e == ToLast(z.rx.lastIndex) IN
             IF z.found = <<>> \/ e = p THEN from[p, AdvanceStringIndex(q, rx.unicode)]
             ELSE <<Piece(p, q)>> \o Capture(Piece(q, e)) \o from[e, e]
      all == IF Size > 0 THEN from[0, 0] ELSE IF splitter(0).found # <<>> THEN <<>> ELSE <<Piece(0, 0)>>
  IN IF lim < Len(all) THEN SubSeq(all, 1, lim) ELSE all
SymbolSplit ==
  /\ \E lim \in Limits : Answered("split", Split(lim))
  /\ UNCHANGED <<subj, rx, iter, repl>>
(* The program's own use of the expression.                                *)
ProgramExec ==
  /\ Answered("exec", <<>>) /\ rx' = Exec(rx).rx
  /\ UNCHANGED <<subj, iter, repl>>
SetsLastIndex ==
  /\ Answered("set", <<>>) /\ \E i \in 0..(Size + 1) : ~InPair(i) /\ rx' = [rx EXCEPT !.lastIndex = i]
  /\ UNCHANGED <<subj, iter, repl>>

(* matchAll goes on with a copy of the expression.                         *)
SymbolMatchAll ==
  /\ iter.st = "none" /\ repl.st = "none"
  /\ iter' = [st |-> "open", rx |-> rx, got |-> <<>>, from |-> rx.lastIndex]
  /\ UNCHANGED <<subj, rx, repl, out>>
(* A bug: the iterator goes on where the expression is.                    *)
IterNextShared ==
  LET e == Exec(rx) IN
  /\ iter.st = "open"
  /\ IF e.found = <<>> THEN iter' = [iter EXCEPT !.st = "done"] /\ rx' = e.rx
     ELSE /\ iter' = [iter EXCEPT !.got = @ \o e.found, !.st = IF rx.global THEN @ ELSE "done"]
          /\ rx' = PastEmpty(e.rx, e.found)
  /\ UNCHANGED <<subj, repl, out>>

IterNext_ ==
  LET e == Exec(iter.rx) IN
  /\ iter.st = "open"
  /\ iter' = IF e.found = <<>> THEN [iter EXCEPT !.st = "done"]
             ELSE [iter EXCEPT !.got = @ \o e.found, !.rx = IF @.global THEN PastEmpty(e.rx, e.found) ELSE e.rx,
                               !.st = IF rx.global THEN @ ELSE "done"]
  /\ UNCHANGED <<subj, rx, repl, out>>

(* replace finds all before it calls the function the first time.          *)
SymbolReplace ==
  /\ repl.st = "none" /\ iter.st = "none"
  /\ repl' = [st |-> "calling", next |-> 1, pieces |-> <<>>, pos |-> 0,
              found |-> IF rx.global THEN AllFrom([rx EXCEPT !.lastIndex = 0]) ELSE Exec(rx).found]
  /\ rx' = IF rx.global THEN [rx EXCEPT !.lastIndex = 0] ELSE Exec(rx).rx
  /\ UNCHANGED <<subj, iter, out>>
(* The text up to a match, and what the function gave for it.              *)
Replaced_ ==
  LET m == repl.found[repl.next] IN
  /\ repl.st = "calling" /\ repl.next <= Len(repl.found)
  /\ repl' = IF m.at >= repl.pos
             THEN [repl EXCEPT !.next = @ + 1, !.pos = m.at + m.len,
                               !.pieces = Append(Append(@, Piece(repl.pos, m.at)), [at |-> m.at, len |-> m.len, captured |-> TRUE])]
             ELSE [repl EXCEPT !.next = @ + 1]
  /\ UNCHANGED <<subj, rx, iter, out>>
ReplaceEnds ==
  /\ repl.st = "calling" /\ repl.next > Len(repl.found)
  /\ repl' = [repl EXCEPT !.st = "done", !.pieces = IF repl.pos >= Size THEN @ ELSE Append(@, Piece(repl.pos, Size))]
  /\ UNCHANGED <<subj, rx, iter, out>>

-----------------------------------------------------------------------------
(* What a template stands for: characters of its own, and what is put in:  *)
(* the match, what is before and after it, and its captures.               *)
Digits == [d \in {"0", "1", "2", "9"} |-> CASE d = "0" -> 0 [] d = "1" -> 1 [] d = "2" -> 2 [] OTHER -> 9]
GetSubstitution(t, captures, named) ==
  LET c(i) == IF i <= Len(t) THEN t[i] ELSE "end"
      number(i) ==
        LET two == IF c(i + 1) \in DOMAIN Digits THEN Digits[c(i)] * 10 + Digits[c(i + 1)] ELSE 0 IN
        IF two \in 1..captures THEN [group |-> two, digits |-> 2]
        ELSE IF Digits[c(i)] \in 1..captures THEN [group |-> Digits[c(i)], digits |-> 1]
        ELSE [group |-> 0, digits |-> 0]
      ends(i) == {j \in (i + 1)..Len(t) : t[j] = ">"}
      from[i \in 1..(Len(t) + 1)] ==
        IF i > Len(t) THEN <<>>
        ELSE IF t[i] # "$" THEN <<t[i]>> \o from[i + 1]
        ELSE CASE c(i + 1) = "$" -> <<"$">> \o from[i + 2]
               [] c(i + 1) = "&" -> <<"matched">> \o from[i + 2]
               [] c(i + 1) = "`" -> <<"before">> \o from[i + 2]
               [] c(i + 1) = "'" -> <<"after">> \o from[i + 2]
               [] c(i + 1) \in DOMAIN Digits /\ number(i + 1).group > 0 ->
                    <<number(i + 1).group>> \o from[i + 1 + number(i + 1).digits]
               [] c(i + 1) = "<" /\ named /\ ends(i + 1) # {} ->
                    LET e == CHOOSE j \in ends(i + 1) : \A k \in ends(i + 1) : j <= k IN
                    <<SubSeq(t, i + 2, e - 1)>> \o from[e + 1]
               [] OTHER -> <<"$">> \o from[i + 1]
  IN from[1]
ByTemplate ==
  /\ out = Idle /\ subj = <<>> /\ iter.st = "none" /\ repl.st = "none"
  /\ \E t \in Templates, named \in BOOLEAN, captures \in {0, 1, 9, 10} :
       Answered("template", <<t, captures, named, GetSubstitution(t, captures, named)>>)
  /\ UNCHANGED <<subj, rx, iter, repl>>

RegExpInit ==
  /\ subj \in Subjects
  /\ rx \in [len : [0..Size -> MatchLengths], global : BOOLEAN, sticky : BOOLEAN, unicode : BOOLEAN,
             captures : Captured, lastIndex : {0}]
  /\ \A i \in {j \in 0..Size : rx.len[j] >= 0} :
       i + rx.len[i] <= Size /\ (rx.unicode => ~InPair(i) /\ ~InPair(i + rx.len[i]))
  /\ iter = [st |-> "none", rx |-> rx, got |-> <<>>, from |-> 0]
  /\ repl = [st |-> "none", found |-> <<>>, next |-> 1, pieces |-> <<>>, pos |-> 0]
  /\ out = Idle
RegExpNext ==
  \/ SymbolMatch \/ SymbolSearch \/ SymbolSplit \/ ProgramExec \/ SetsLastIndex
  \/ SymbolMatchAll \/ IterNext_ \/ SymbolReplace \/ Replaced_ \/ ReplaceEnds \/ ByTemplate
RegExpSpec == RegExpInit /\ [][RegExpNext]_reVars

-----------------------------------------------------------------------------
(* Between the end of one match and the next there is nothing that matches *)
(* (an empty match ends behind the character it precedes), nor, once the   *)
(* search is over, after the last; a sticky expression finds its matches   *)
(* end to end.                                                             *)
After(m) ==
  IF m.len > 0 THEN m.at + m.len
  ELSE CHOOSE j \in {m.at + 1, m.at + 2} : ~(rx.unicode /\ InPair(j)) /\ (j = m.at + 2 => rx.unicode /\ InPair(m.at + 1))
EndOf_(ms, i, from) == IF i = 0 THEN from ELSE After(ms[i])
Leftmost(ms, from, over) ==
  /\ \A i \in DOMAIN ms :
       /\ ms[i].at >= EndOf_(ms, i - 1, from) /\ rx.len[ms[i].at] = ms[i].len
       /\ IF rx.sticky THEN ms[i].at = EndOf_(ms, i - 1, from)
          ELSE \A j \in EndOf_(ms, i - 1, from)..(ms[i].at - 1) : rx.len[j] = -1
  /\ over => LET e == EndOf_(ms, Len(ms), from) IN
             e > Size \/ IF rx.sticky THEN rx.len[e] = -1 ELSE \A j \in e..Size : rx.len[j] = -1
MatchesAreAll ==
  /\ out.of = "match" /\ rx.global => Leftmost(out.items, 0, TRUE)
  /\ repl.st # "none" /\ rx.global => Leftmost(repl.found, 0, TRUE)
  /\ rx.global => Leftmost(iter.got, iter.from, iter.st = "done")

(* What is replaced is put where it was found, once, and the rest of the   *)
(* subject is kept, whatever the function does with the expression.        *)
RestIsKept ==
  LET ps == repl.pieces IN
  /\ \A i \in DOMAIN ps : ps[i].at = (IF i = 1 THEN 0 ELSE ps[i - 1].at + ps[i - 1].len)
  /\ repl.st = "done" =>
       /\ (IF ps = <<>> THEN 0 ELSE ps[Len(ps)].at + ps[Len(ps)].len) = Size
       /\ [i \in DOMAIN repl.found |-> [repl.found[i] EXCEPT !.len = 0]] =
            LET put == SelectSeq(ps, LAMBDA x : x.captured) IN [i \in DOMAIN put |-> [at |-> put[i].at, len |-> 0]]

(* What is split is the subject: its pieces and what matches between them, *)
(* in order, cut at every match, to the end unless there is a limit; and   *)
(* the captures of each match follow the piece before it.                  *)
SplitIsWhole ==
  LET ps == SelectSeq(out.items, LAMBDA x : ~x.captured)
      end(i) == ps[i].at + ps[i].len
  IN out.of = "split" /\ ps # <<>> =>
       /\ ps[1].at = 0
       /\ \A i \in 2..Len(ps) : rx.len[end(i - 1)] = ps[i].at - end(i - 1) /\ end(i - 1) < Size
       /\ \A i \in DOMAIN ps :
            /\ ps[i].at < Size => rx.len[ps[i].at] <= 0 \/ ps[i].len = 0
            /\ \A j \in (ps[i].at + 1)..(end(i) - 1) : rx.len[j] = -1
       /\ \A i \in DOMAIN out.items : ~out.items[i].captured /\ i > 1 => out.items[i - 1].captured \/ rx.captures = 0
       /\ (\E lim \in Limits : lim > Len(out.items)) /\ (\A lim \in Limits : lim # Len(out.items)) => end(Len(ps)) = Size

(* A template whose dollars are doubled stands for itself, and one that    *)
(* names a capture names one that there is.                                *)
Doubled(t) == FoldLeft(LAMBDA d, ch : d \o (IF ch = "$" THEN <<"$", "$">> ELSE <<ch>>), <<>>, t)
TemplatesAreText ==
  out.of = "template" => GetSubstitution(Doubled(out.items[1]), out.items[2], out.items[3]) = out.items[1]
=============================================================================
