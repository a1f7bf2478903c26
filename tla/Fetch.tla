-------------------------------- MODULE Fetch --------------------------------
(***************************************************************************)
(* fetch(): the pool of connections, one exchange per hop of a request,    *)
(* redirects, abort, and the body that is streamed after the promise is    *)
(* resolved, with the connection that goes back to the pool at its end.    *)
(* A response arrives as tokens <<exchange, "head" | "data" | "last" |     *)
(* "crlf">>, the last two of a chunked body.                               *)
(***************************************************************************)
EXTENDS Naturals, Sequences, FiniteSets, SequencesExt

CONSTANTS Fetches,        \* the calls of fetch
          Replies,        \* what servers answer: [framing, close, redirect, parts], the framing "length",
                          \* "chunked", "packed" (compressed chunks) or "close"
          Pooled,         \* maxSocketsPerOrigin: connections kept idle
          MaxRedirects,   \* hops that are followed
          Habits          \* what may happen: "abort" (or a timeout) before the head, "abortBody",
                          \* "cut", "split", "idleClose", "refuse", "h2", "tunnel", "sync"

VARIABLES call,           \* fetch
          exch,           \* _fetchOneHTTPStreamAsync, one for each hop
          line,           \* the connections
          idle            \* ConnectionPool
fetchVars == <<call, exch, line, idle>>

FetchInit ==
  /\ call = [f \in Fetches |-> [st |-> "new", hops |-> 0, aborted |-> FALSE]]
  /\ exch = <<>> /\ line = <<>>
  /\ idle = [free |-> <<>>, active |-> 0]

W == [call |-> call, exch |-> exch, line |-> line, idle |-> idle]
Becomes(w) == call' = w.call /\ exch' = w.exch /\ line' = w.line /\ idle' = w.idle

NewExchange(f, via) ==
  [f |-> f, st |-> "connecting", h |-> 0, reused |-> FALSE, fired |-> FALSE, via |-> via, acc |-> <<>>,
   framing |-> "", close |-> FALSE, left |-> 0, size |-> 0, given |-> <<>>, stream |-> "none", cut |-> FALSE]
NewLine == [open |-> TRUE, eof |-> FALSE, asked |-> <<>>, out |-> <<>>, wire |-> <<>>, h2 |-> FALSE]

-----------------------------------------------------------------------------
(* The pool                                                                *)
CloseHandle(w, h) ==
  IF h = 0 THEN w ELSE [w EXCEPT !.line[h].open = FALSE]
Less(n) == IF n > 0 THEN n - 1 ELSE 0
(* release: a connection the server wants closed, or one too many, is      *)
(* closed; any other is kept, whatever state it is in.                     *)
Release(w, h, serverClose) ==
  LET v == [w EXCEPT !.idle.active = Less(@)]
  IN IF serverClose \/ h = 0 \/ Len(v.idle.free) >= Pooled THEN CloseHandle(v, h)
     ELSE [v EXCEPT !.idle.free = Append(@, h)]

Evict(h) ==
  /\ h \in ToSet(idle.free)
  /\ Becomes(CloseHandle([W EXCEPT !.idle.free = Remove(@, h)], h))

DestroyPool ==
  /\ idle.free # <<>>
  /\ Becomes([W EXCEPT !.idle.free = <<>>,
        !.line = [h \in DOMAIN line |-> IF h \in ToSet(idle.free)
                                        THEN [line[h] EXCEPT !.open = FALSE] ELSE line[h]]])

-----------------------------------------------------------------------------
(* A hop: a kept connection or a new one                                   *)
Settle(w, f, how) == IF w.call[f].st \in {"ok", "error"} THEN w ELSE [w EXCEPT !.call[f].st = how]

Asks(w, h, e) ==
  IF w.line[h].h2 THEN [w EXCEPT !.line[h].eof = TRUE]      \* no http/1.1 is spoken there
  ELSE [w EXCEPT !.line[h].asked = Append(@, e)]

(* A bug: the connection taken stays in the pool.                          *)
FetchFollowShares(w, f) ==
  LET e == Len(w.exch) + 1
      x == NewExchange(f, "direct")
      h == Last(w.idle.free)
      v == [w EXCEPT !.call[f].st = "waiting", !.idle.active = @ + 1]
  IN CASE w.call[f].hops > MaxRedirects \/ w.call[f].aborted -> Settle(w, f, "error")
       [] w.idle.free # <<>> ->
            Asks([v EXCEPT !.exch = Append(@, [x EXCEPT !.st = "head", !.h = h, !.reused = TRUE])], h, e)
       [] OTHER -> [v EXCEPT !.exch = Append(@, x)]

FetchFollow(w, f) ==
  LET e == Len(w.exch) + 1
      x == NewExchange(f, "direct")
      h == Last(w.idle.free)
      v == [w EXCEPT !.call[f].st = "waiting", !.idle.active = @ + 1]
  IN CASE w.call[f].hops > MaxRedirects \/ w.call[f].aborted -> Settle(w, f, "error")
       [] w.idle.free # <<>> ->
            Asks([v EXCEPT !.idle.free = Front(@),
                           !.exch = Append(@, [x EXCEPT !.st = "head", !.h = h, !.reused = TRUE])], h, e)
       [] OTHER -> [v EXCEPT !.exch = Append(@, x)]

Fetch(f) == call[f].st = "new" /\ Becomes(FetchFollow(W, f))

(* With a proxy, a secure connection is a tunnel nobody tracks or aborts.  *)
FetchViaProxy(f) ==
  /\ call[f].st = "new" /\ "tunnel" \in Habits
  /\ Becomes([W EXCEPT !.call[f].st = "waiting", !.exch = Append(@, NewExchange(f, "tunnel"))])

(* The blocking path: a connection of its own, a whole response.           *)
FetchSync(f) ==
  /\ call[f].st \in {"new", "again"} /\ "sync" \in Habits
  /\ \E how \in {"ok", "error", "redirect"} :
       Becomes(IF how # "redirect" THEN Settle(W, f, how)
               ELSE IF call[f].hops >= MaxRedirects THEN Settle(W, f, "error")
               ELSE [W EXCEPT !.call[f].hops = @ + 1, !.call[f].st = "again"])

(* _abortNow: the listener of the signal, or a connection that failed.     *)
AbortNow(w, e) ==
  LET x == w.exch[e]
      v == CloseHandle([w EXCEPT !.exch[e].fired = TRUE, !.exch[e].st = IF x.h = 0 THEN @ ELSE "aborted"], x.h)
      u == IF x.reused THEN Release(v, 0, TRUE) ELSE v
  IN IF x.fired THEN w ELSE Settle(u, x.f, "error")

(* The signal of a fetch, its own or the one of its timeout, fires: until  *)
(* the head has come an exchange listens to it.                            *)
Listening(e) == exch[e].st \in {"connecting", "head"} /\ ~exch[e].fired /\ exch[e].via = "direct"
Abort(f) ==
  LET mine == {e \in DOMAIN exch : exch[e].f = f /\ Listening(e)}
      v == [W EXCEPT !.call[f].aborted = TRUE]
  IN /\ ~call[f].aborted /\ call[f].st # "new"
     /\ IF call[f].st = "waiting" THEN "abort" \in Habits ELSE "abortBody" \in Habits
     /\ Becomes(IF mine = {} THEN v ELSE AbortNow(v, CHOOSE e \in mine : TRUE))

Connected(e, how) ==
  LET x == exch[e]
      h == Len(line) + 1
      made == [W EXCEPT !.line = Append(@, [NewLine EXCEPT !.h2 = how = "h2"])]
      v == [made EXCEPT !.exch[e].h = h, !.exch[e].st = "head"]
  IN /\ x.st = "connecting"
     /\ how \in {"refuse", "h2"} => how \in Habits
     /\ how = "h2" => x.via = "direct"
     /\ Becomes(
          CASE x.fired -> IF how = "refuse" THEN [W EXCEPT !.exch[e].st = "over"]
                          ELSE CloseHandle([made EXCEPT !.exch[e].st = "over"], h)
            [] how = "refuse" /\ x.via = "direct" -> AbortNow([W EXCEPT !.exch[e].st = "over"], e)
            [] how = "refuse" -> Settle([W EXCEPT !.exch[e].st = "over"], x.f, "error")
            [] how = "h2" -> [v EXCEPT !.exch[e].st = "h2", !.exch[e].fired = TRUE, !.line[h].asked = <<e>>]
            [] OTHER -> Asks(v, h, e))

-----------------------------------------------------------------------------
(* The server: answers requests in their order, and closes                 *)
Tokens(e, framing, n) ==
  << <<e, "head">> >> \o [i \in 1..n |-> <<e, "data">>]
    \o IF framing \in {"chunked", "packed"} THEN << <<e, "last">>, <<e, "crlf">> >> ELSE <<>>

Reply(h) ==
  \E reply \in Replies :
    LET e == line[h].asked[1]
        framing == IF line[h].h2 THEN "length" ELSE reply.framing
    IN /\ line[h].asked # <<>> /\ line[h].out = <<>> /\ ~line[h].eof
       /\ line' = [line EXCEPT ![h].asked = Tail(@), ![h].out = Tokens(e, framing, reply.parts)]
       /\ exch' = [exch EXCEPT ![e].framing = framing, ![e].close = reply.close, ![e].left = reply.parts,
                               ![e].size = reply.parts,
                               ![e].stream = IF reply.redirect THEN "redirect" ELSE "none"]
       /\ UNCHANGED <<call, idle>>

Arrives(h) ==
  LET k == IF Len(line[h].out) > 1 /\ line[h].out[1][2] = "last" /\ "split" \notin Habits THEN 2 ELSE 1
  IN /\ line[h].out # <<>>
     /\ line' = [line EXCEPT ![h].wire = @ \o SubSeq(line[h].out, 1, k), ![h].out = SubSeq(@, k + 1, Len(@))]
     /\ UNCHANGED <<call, exch, idle>>

Ends(h, how) ==
  /\ line[h].open /\ ~line[h].eof
  /\ CASE how = "served" -> line[h].out = <<>> /\ \E e \in DOMAIN exch : exch[e].h = h /\ exch[e].framing # "" /\ exch[e].close
       [] how = "idleClose" -> how \in Habits /\ line[h].out = <<>>
       [] OTHER -> how \in Habits /\ line[h].out # <<>>
  /\ line' = [line EXCEPT ![h].eof = TRUE, ![h].out = <<>>, ![h].asked = <<>>]
  /\ exch' = [e \in DOMAIN exch |-> IF how = "cut" /\ exch[e].h = h THEN [exch[e] EXCEPT !.cut = TRUE] ELSE exch[e]]
  /\ UNCHANGED <<call, idle>>

-----------------------------------------------------------------------------
(* Reading the response                                                    *)
Data(tokens) == SelectSeq(tokens, LAMBDA t : t[2] = "data")
Drained(w, h) == [w EXCEPT !.line[h].wire = <<>>]

(* The onDone of the body: the stream ends and the connection is released. *)
BodyEnds(w, e, how) ==
  Release([w EXCEPT !.exch[e].stream = how, !.exch[e].st = "over", !.exch[e].acc = <<>>],
          w.exch[e].h, w.exch[e].close)

(* Before each read a loop looks at the signal.                            *)
ReadsOn(w, e) == IF w.call[w.exch[e].f].aborted THEN BodyEnds(w, e, "errored") ELSE w
Given(w, e, s) == [w EXCEPT !.exch[e].given = @ \o s, !.exch[e].acc = <<>>]

(* A bug: what was read is not deducted.                                   *)
ByLengthWhole(w, e, tokens) ==
  LET v == Given(w, e, tokens)
  IN IF Len(tokens) >= w.exch[e].left - 1 THEN BodyEnds(v, e, "closed") ELSE ReadsOn(v, e)

ByLength(w, e, tokens) ==
  LET v == [Given(w, e, tokens) EXCEPT !.exch[e].left = @ - Len(tokens)]
  IN IF Len(tokens) >= w.exch[e].left THEN BodyEnds(v, e, "closed") ELSE ReadsOn(v, e)

(* Chunks up to the last one: what follows "0 CRLF" is left.               *)
Chunks(w, e, acc, last) ==
  IF last = 0 THEN ReadsOn(Given(w, e, acc), e)
  ELSE BodyEnds(Given(w, e, SubSeq(acc, 1, last - 1)), e, "closed")

(* A compressed body is collected, and given whole.                        *)
Packed(w, e, acc, last) ==
  IF last = 0 THEN ReadsOn([w EXCEPT !.exch[e].acc = acc], e)
  ELSE BodyEnds(Given(w, e, SubSeq(acc, 1, last - 1)), e, "closed")

(* What each loop does with what it has, up to its next read.              *)
FeedBody(w, e, tokens) ==
  LET x == w.exch[e]
      acc == x.acc \o tokens
      last == SelectInSeq(acc, LAMBDA t : t[2] # "data")
  IN CASE x.framing = "length" -> ByLength(w, e, tokens)
       [] x.framing = "close" -> ReadsOn(Given(w, e, tokens), e)
       [] last # 0 /\ acc[last][2] # "last" -> BodyEnds(w, e, "errored")
       [] x.framing = "chunked" -> Chunks(w, e, acc, last)
       [] OTHER -> Packed(w, e, acc, last)

(* _handleFetchResponse: a redirect is followed before the rest of its own *)
(* body is read, any other response resolves the promise.                  *)
HandleResponse(w, e) ==
  LET f == w.exch[e].f IN
  IF w.exch[e].stream = "redirect"
  THEN FetchFollow([w EXCEPT !.call[f].hops = @ + 1], f)
  ELSE Settle(w, f, "ok")

(* _buildStreamingResponse. What is left of an earlier response is taken   *)
(* for the beginning of the head: a status of 0 and no headers, at worst.  *)
Build(w, e, before, prefix) ==
  LET odd == before[1][2] \notin {"data", "head"} \/ Last(before)[2] # "head"
      v == IF odd THEN [w EXCEPT !.exch[e].framing = "close", !.exch[e].close = FALSE, !.exch[e].stream = "none"] ELSE w
      u == [HandleResponse(v, e) EXCEPT !.exch[e].st = "body", !.exch[e].stream = "open", !.exch[e].acc = <<>>]
  IN FeedBody(u, e, prefix)

(* An empty line ends a head, and so does the end of a chunked body that   *)
(* was left on the connection.                                             *)
Separates(acc, i) == acc[i][2] = "head" \/ (acc[i][2] = "crlf" /\ i > 1 /\ acc[i - 1][2] = "last")

ReadHead(e) ==
  LET x == exch[e]
      acc == x.acc \o line[x.h].wire
      sep == CHOOSE i \in 0..Len(acc) : /\ i = 0 \/ Separates(acc, i)
                                        /\ \A j \in DOMAIN acc : Separates(acc, j) => i # 0 /\ i <= j
      eof == line[x.h].wire = <<>> \/ (sep = 0 /\ call[x.f].aborted)
      w == Drained(W, x.h)
      gone == [w EXCEPT !.exch[e].st = "over", !.exch[e].fired = TRUE]
  IN /\ x.st = "head" /\ ~x.fired /\ (line[x.h].wire # <<>> \/ line[x.h].eof)
     /\ Becomes(
          CASE eof /\ x.via = "direct" -> Settle(gone, x.f, "error")
            [] eof -> Settle(CloseHandle(gone, x.h), x.f, "error")
            [] sep = 0 -> [w EXCEPT !.exch[e].acc = acc]
            [] OTHER -> Build([w EXCEPT !.exch[e].fired = TRUE], e,
                              SubSeq(acc, 1, sep), SubSeq(acc, sep + 1, Len(acc))))

(* The read of a connection that was closed under it returns, and closes   *)
(* it again.                                                               *)
ReadAborted(e) ==
  /\ exch[e].st = "aborted"
  /\ Becomes(CloseHandle([W EXCEPT !.exch[e].st = "over"], exch[e].h))

ReadBody(e) ==
  LET x == exch[e]
      n == IF x.framing = "length" /\ x.left < Len(line[x.h].wire) THEN x.left ELSE Len(line[x.h].wire)
      tokens == SubSeq(line[x.h].wire, 1, n)
      w == [W EXCEPT !.line[x.h].wire = SubSeq(@, n + 1, Len(@))]
  IN /\ x.st = "body" /\ (line[x.h].wire # <<>> \/ line[x.h].eof)
     /\ Becomes(IF n > 0 THEN FeedBody(w, e, tokens)
                ELSE BodyEnds([w EXCEPT !.exch[e].given = @ \o Data(x.acc)], e, "closed"))

(* The loop of an http2 exchange: it collects, answers at the end of the   *)
(* stream or of the connection, and never looks at the signal.             *)
ReadH2(e) ==
  LET x == exch[e]
      tokens == Data(line[x.h].wire)
      v == [Drained(W, x.h) EXCEPT !.exch[e].given = @ \o tokens]
      over == x.framing # "" /\ Len(v.exch[e].given) = x.size /\ line[x.h].out = <<>>
      w == [Release(v, x.h, FALSE) EXCEPT !.exch[e].st = "over", !.exch[e].stream = "closed"]
  IN /\ x.st = "h2" /\ (line[x.h].wire # <<>> \/ line[x.h].eof)
     /\ Becomes(IF ~over /\ line[x.h].wire # <<>> THEN v
                ELSE IF x.stream = "redirect" THEN FetchFollow([w EXCEPT !.call[x.f].hops = @ + 1], x.f)
                ELSE Settle(w, x.f, "ok"))

-----------------------------------------------------------------------------
Reads(e) == ReadHead(e) \/ ReadBody(e) \/ ReadH2(e) \/ ReadAborted(e)
FetchNext ==
  \/ \E f \in Fetches : Fetch(f) \/ FetchViaProxy(f) \/ FetchSync(f) \/ Abort(f)
  \/ \E e \in DOMAIN exch : Reads(e) \/ \E how \in {"ok", "refuse", "h2"} : Connected(e, how)
  \/ \E h \in DOMAIN line : Evict(h) \/ Reply(h) \/ Arrives(h)
                            \/ \E how \in {"served", "idleClose", "cut"} : Ends(h, how)
  \/ DestroyPool

FetchSpec == FetchInit /\ [][FetchNext]_fetchVars

-----------------------------------------------------------------------------
(* A connection a fetch was aborted on is given back with what was not     *)
(* read of its response.                                                   *)
Spoilt(h) == \E e \in DOMAIN exch : exch[e].h = h /\ call[exch[e].f].aborted

(* What a body is given is of its own response, in full when its stream    *)
(* closes, unless the server broke off.                                    *)
BodyIsItsOwn ==
  \A e \in DOMAIN exch :
    LET x == exch[e] IN
    Spoilt(x.h) \/
    /\ \A i \in DOMAIN x.given : x.given[i] = <<e, "data">>
    /\ Len(x.given) <= x.size
    /\ x.stream = "closed" /\ ~x.cut => Len(x.given) = x.size

(* A connection in the pool is open, is there once, and has nothing of an  *)
(* earlier exchange: no reader, and nothing to read, now or later.         *)
PoolIsClean ==
  \A i \in DOMAIN idle.free :
    LET h == idle.free[i] IN
    Spoilt(h) \/
    /\ line[h].open /\ line[h].wire = <<>> /\ line[h].out = <<>> /\ line[h].asked = <<>>
    /\ \A j \in DOMAIN idle.free : idle.free[j] = h => i = j
    /\ \A e \in DOMAIN exch : exch[e].h = h => exch[e].st = "over"

(* A fetch that waits has an exchange that will answer it: one that        *)
(* connects, or that reads a connection on which its answer, or the end,   *)
(* is still to come.                                                       *)
NobodyForgotten ==
  \A f \in Fetches : call[f].st = "waiting" =>
    \E e \in DOMAIN exch :
      LET x == exch[e]
          l == line[x.h]
      IN /\ x.f = f /\ (x.st = "h2" \/ ~x.fired)
         /\ \/ x.st = "connecting"
            \/ x.st \in {"head", "h2"} /\ (l.eof \/ e \in ToSet(l.asked) \/ \E t \in ToSet(l.out \o l.wire \o x.acc) : t[1] = e)
=============================================================================
