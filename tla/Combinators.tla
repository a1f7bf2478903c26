---------------------------- MODULE Combinators ----------------------------
(***************************************************************************)
(* Promise.all, allSettled, any, race and the keyed forms of the first two *)
(* (builtins_stubs.js), over thenables that report when they like: at once *)
(* in `then`, later, twice, or both ways.  And the two disposal stacks of  *)
(* the same file, whose disposers run one after another.                   *)
(***************************************************************************)
EXTENDS Naturals, Sequences, SequencesExt, FiniteSets

CONSTANTS Methods,      \* the combinators and stacks to check
          N,            \* elements, or disposers
          MaxReports,   \* how often a rogue thenable calls back
          MayFail       \* whether a disposer may throw

ASSUME CombAssumption == N \in Nat

VARIABLES method,
          handed,       \* elements given their callbacks
          phase,        \* "iterating", "exhausted" or "threw"
          used,         \* the `once` guard of each element
          remaining,    \* state.remaining
          values,       \* state.values
          outcome,      \* what the capability was settled with
          reports,      \* what the elements reported, in order
          stacks,       \* the disposers of a stack and of the one it moved to
          closed,       \* _disposed of each; the second is not there before a move
          running,      \* the stack that is disposing, or 0
          disposals     \* the disposers that ran, in order

combVars == <<method, handed, phase, used, remaining, values, outcome, reports,
              stacks, closed, running, disposals>>
promiseVars == <<handed, phase, used, remaining, values, outcome, reports>>
stackVars == <<stacks, closed, running, disposals>>

Promised == {"all", "allSettled", "any", "race", "allKeyed", "allSettledKeyed"}
Stacked  == {"DisposableStack", "AsyncDisposableStack"}
Pending  == [kind |-> "pending"]

CombInit ==
  /\ method \in Methods
  /\ handed = 0 /\ phase = "iterating" /\ remaining = 1
  /\ used = {} /\ values = <<>> /\ outcome = Pending /\ reports = <<>>
  /\ stacks = <<<<>>, <<>>>> /\ closed = <<FALSE, TRUE>> /\ running = 0
  /\ disposals = <<>>

-----------------------------------------------------------------------------
(* capResolve, capReject: the first settlement of a promise counts.        *)
Settles(o) == outcome' = IF outcome = Pending THEN o ELSE outcome

(* What remains when it is all counted: settleAll, settleKeyed, the        *)
(* AggregateError of any, nothing for race.                                *)
Whole(vs) ==
  CASE method = "any"  -> [kind |-> "rejected", errors |-> vs]
    [] method = "race" -> Pending
    [] OTHER           -> [kind |-> "fulfilled", values |-> vs]

(* One less to wait for; the last one settles.                             *)
CountDown(vs) ==
  /\ remaining' = remaining - 1
  /\ IF remaining = 1 THEN Settles(Whole(vs)) ELSE UNCHANGED outcome

(* performCombinator, performKeyedCombinator: the next element is counted  *)
(* before it is given its callbacks.                                       *)
HandNext ==
  /\ method \in Promised /\ phase = "iterating" /\ handed < N
  /\ handed' = handed + 1 /\ remaining' = remaining + 1
  /\ values' = Append(values, "empty")
  /\ UNCHANGED <<method, phase, used, outcome, reports, stackVars>>

(* Mutant: the iteration's own count is not taken back.                    *)
ExhaustedKeepsOne ==
  /\ method \in Promised /\ phase = "iterating"
  /\ phase' = "exhausted"
  /\ UNCHANGED <<method, handed, used, values, remaining, outcome, reports, stackVars>>

(* The iterator is exhausted: the 1 the count started with is taken back.  *)
Exhausted ==
  /\ method \in Promised /\ phase = "iterating"
  /\ phase' = "exhausted" /\ CountDown(values)
  /\ UNCHANGED <<method, handed, used, values, reports, stackVars>>

(* next, C.resolve or an element's then throws.                            *)
IterationThrows ==
  /\ method \in Promised /\ phase = "iterating"
  /\ phase' = "threw" /\ Settles([kind |-> "rejected", by |-> 0])
  /\ UNCHANGED <<method, handed, used, remaining, values, reports, stackVars>>

(* Mutant: an element function that may be called twice.                   *)
ElementTwice(i, how) ==
  /\ used' = used \cup {i}
  /\ values' = [values EXCEPT ![i] = how]
  /\ CountDown(values')

(* An element function with its guard: the first call stores and counts.   *)
Element(i, how) ==
  IF i \in used THEN UNCHANGED <<used, values, remaining, outcome>>
  ELSE /\ used' = used \cup {i}
       /\ values' = [values EXCEPT ![i] = how]
       /\ CountDown(values')

(* The capability's own function handed to the element.                    *)
Direct(i, how) ==
  /\ Settles([kind |-> how, by |-> i])
  /\ UNCHANGED <<used, values, remaining>>

ThenAll(i, how)  == IF how = "fulfilled" THEN Element(i, how) ELSE Direct(i, how)
ThenAllSettled(i, how) == Element(i, how)
ThenAny(i, how)  == IF how = "fulfilled" THEN Direct(i, how) ELSE Element(i, how)
ThenRace(i, how) == Direct(i, how)

Calls(i) == Len(SelectSeq(reports, LAMBDA r : r[1] = i))

Report(i, how) ==
  /\ method \in Promised /\ i <= handed /\ Calls(i) < MaxReports
  /\ reports' = Append(reports, <<i, how>>)
  /\ CASE method \in {"all", "allKeyed"} -> ThenAll(i, how)
       [] method \in {"allSettled", "allSettledKeyed"} -> ThenAllSettled(i, how)
       [] method = "any" -> ThenAny(i, how)
       [] OTHER -> ThenRace(i, how)
  /\ UNCHANGED <<method, handed, phase, stackVars>>

-----------------------------------------------------------------------------
(* use, adopt, defer: a disposer goes on the stack.                        *)
Push(s) ==
  /\ method \in Stacked /\ ~closed[s] /\ handed < N
  /\ handed' = handed + 1
  /\ stacks' = [stacks EXCEPT ![s] = Append(@, handed + 1)]
  /\ UNCHANGED <<method, phase, used, remaining, values, outcome, reports, closed,
                 running, disposals>>

(* Mutant: the stack that was moved from keeps its disposers.              *)
MoveCopies ==
  /\ method \in Stacked /\ ~closed[1]
  /\ stacks' = <<stacks[1], stacks[1]>> /\ closed' = <<FALSE, FALSE>>
  /\ UNCHANGED <<method, running, disposals, promiseVars>>

Move ==
  /\ method \in Stacked /\ ~closed[1]
  /\ stacks' = <<<<>>, stacks[1]>> /\ closed' = <<TRUE, FALSE>>
  /\ UNCHANGED <<method, running, disposals, promiseVars>>

(* dispose, disposeAsync: closed first, so a second call does nothing.     *)
Dispose(s) ==
  /\ method \in Stacked /\ ~closed[s] /\ running = 0
  /\ closed' = [closed EXCEPT ![s] = TRUE] /\ running' = s
  /\ UNCHANGED <<method, stacks, disposals, promiseVars>>

(* The loop of dispose, or disposeNext: pop, then call; a disposer that    *)
(* throws or rejects ends it.                                              *)
DisposeNext(fails) ==
  /\ running # 0 /\ stacks[running] # <<>> /\ (fails => MayFail)
  /\ disposals' = Append(disposals, Last(stacks[running]))
  /\ stacks' = [stacks EXCEPT ![running] = Front(@)]
  /\ running' = IF fails THEN 0 ELSE running
  /\ UNCHANGED <<method, closed, promiseVars>>

DisposeEnds ==
  /\ running # 0 /\ stacks[running] = <<>>
  /\ running' = 0
  /\ UNCHANGED <<method, stacks, closed, disposals, promiseVars>>

CombNext ==
  \/ HandNext \/ Exhausted \/ IterationThrows
  \/ \E i \in 1..N, how \in {"fulfilled", "rejected"} : Report(i, how)
  \/ Move \/ DisposeEnds
  \/ \E s \in 1..2 : Push(s) \/ Dispose(s)
  \/ \E fails \in BOOLEAN : DisposeNext(fails)

CombSpec == CombInit /\ [][CombNext]_combVars

-----------------------------------------------------------------------------
Reported(i) == \E k \in DOMAIN reports : reports[k][1] = i
IsFirst(i, k) == reports[k][1] = i /\ \A l \in 1..k - 1 : reports[l][1] # i
FirstReport(i) == reports[CHOOSE k \in DOMAIN reports : IsFirst(i, k)][2]
EveryoneReported == phase = "exhausted" /\ \A i \in 1..handed : Reported(i)

(* A result made of all the elements is made when the iteration is over and *)
(* every element has reported, and holds what each reported first: a count  *)
(* that starts at 1 and a guard on each element's functions, against an     *)
(* element that reports before the next is reached and one that reports     *)
(* twice.                                                                   *)
WholeIsWhole ==
  LET all == IF outcome.kind = "fulfilled" THEN {"values"} ELSE {"errors"} IN
  all \subseteq DOMAIN outcome =>
    /\ EveryoneReported
    /\ outcome.kind = "rejected" => \A i \in 1..handed : FirstReport(i) = "rejected"
    /\ method \in {"allSettled", "allSettledKeyed"} =>
         outcome.values = [i \in 1..handed |-> FirstReport(i)]

(* A combinator with nothing left to wait for has settled, except race     *)
(* over nothing.                                                           *)
NothingLeftIsSettled == EveryoneReported /\ ~(method = "race" /\ handed = 0) => outcome # Pending

(* Disposers run in the reverse order of their registration, each once,    *)
(* through a move and a second dispose; one that failed may be the last    *)
(* ever to run, see AllDisposed.                                           *)
LastInFirstOut ==
  /\ \A i, j \in DOMAIN disposals : i < j => disposals[i] > disposals[j]
  /\ \A s \in 1..2 : \A i \in DOMAIN stacks[s] : \A j \in DOMAIN disposals :
       stacks[s][i] < disposals[j]

(* A combinator settles when nothing is left, with what each element said  *)
(* first; and a stack disposes in reverse.                                 *)
CombinatorsSettle == NothingLeftIsSettled /\ WholeIsWhole /\ LastInFirstOut

(* A stack that was disposed of has run every disposer.                    *)
AllDisposed == running = 0 /\ closed[2] => stacks[2] = <<>>
=============================================================================
