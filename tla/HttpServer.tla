----------------------------- MODULE HttpServer -----------------------------
(***************************************************************************)
(* The HTTP server (Server and ServerResponse of builtins/js/http.js).  A  *)
(* client sends requests in units - the start of a head, its end, a body - *)
(* and data brings some of them; the 'data' handler takes one request per  *)
(* step, and the program runs in the listener of 'request' and later.      *)
(***************************************************************************)
EXTENDS Naturals, Sequences, SequencesExt, FiniteSets

CONSTANTS Conns,         \* connections, numbers from 1
          Scripts,       \* what a client may send: sequences of requests
          Pipelines,     \* whether a client sends on before it was answered
          MaxWrites      \* writes of a response

VARIABLES script,        \* c |-> the requests of the client
          conn,          \* c |-> the socket and the variables of _onConnection
          active,        \* _activeSockets
          open_,         \* whether the server listens
          loop,          \* the connection whose 'data' handler runs, or 0
          res,           \* c |-> the responses, one for each request so far
          wire           \* c |-> what was written: <<request, what>>

serverVars == <<script, conn, active, open_, loop, res, wire>>

ServerInit ==
  /\ script \in [Conns -> Scripts]
  /\ conn = [c \in Conns |-> [st |-> "new", sent |-> 0, buf |-> <<>>, idle |-> FALSE,
                              keepT |-> FALSE, headT |-> FALSE, reqT |-> FALSE, upgraded |-> FALSE]]
  /\ active = <<>> /\ open_ = TRUE /\ loop = 0
  /\ res = [c \in Conns |-> <<>>] /\ wire = [c \in Conns |-> <<>>]

(* The units of a client's requests: request i has its start, the end of   *)
(* its head, and its body.                                                 *)
Units(reqs) ==
  FoldLeft(LAMBDA s, i : s \o << <<i, "start">>, <<i, "head">> >>
                           \o (IF reqs[i].body THEN << <<i, "body">> >> ELSE <<>>),
           <<>>, [i \in DOMAIN reqs |-> i])

Live(c) == conn[c].st \in {"open", "ending"}
(* What is written on a dead socket goes nowhere.                          *)
Puts(c, list) == wire' = IF Live(c) THEN [wire EXCEPT ![c] = @ \o list] ELSE wire

-----------------------------------------------------------------------------
(* ServerResponse.  A response is [st, mode, wish, writes]: its state, how *)
(* its body is framed, the header the program set, and its writes.         *)
Bodyless(c, i) == script[c][i].bodyless
Mode(c, i, otherwise) ==
  IF res[c][i].wish # "none" THEN res[c][i].wish
  ELSE IF Bodyless(c, i) THEN "bodyless" ELSE otherwise
Body(c, i, mode) == IF Bodyless(c, i) THEN <<>>
                    ELSE << <<i, IF mode = "chunked" THEN "chunk" ELSE "raw">> >>
LastChunk(c, i, mode) == IF mode = "chunked" /\ ~Bodyless(c, i) THEN << <<i, "last">> >> ELSE <<>>

SetHeader(c, i, wish) ==
  /\ res[c][i].st = "open" /\ res[c][i].mode = "none" /\ res[c][i].wish = "none"
  /\ res' = [res EXCEPT ![c][i].wish = wish]
  /\ UNCHANGED <<script, conn, active, open_, loop, wire>>

FlushHeaders(c, i) ==
  /\ res[c][i].st = "open" /\ res[c][i].mode = "none"
  /\ LET mode == Mode(c, i, "chunked")
     IN res' = [res EXCEPT ![c][i].mode = mode] /\ Puts(c, << <<i, "head">> >>)
  /\ UNCHANGED <<script, conn, active, open_, loop>>

ResWrite(c, i) ==
  /\ res[c][i].st = "open" /\ res[c][i].writes < MaxWrites
  /\ LET first == res[c][i].mode = "none"
         mode == IF first THEN Mode(c, i, "chunked") ELSE res[c][i].mode
     IN /\ res' = [res EXCEPT ![c][i].mode = mode, ![c][i].writes = @ + 1]
        /\ Puts(c, (IF first THEN << <<i, "head">> >> ELSE <<>>) \o Body(c, i, mode))
  /\ UNCHANGED <<script, conn, active, open_, loop>>

\* Mutant: end writes the last chunk only when it writes the head.
EndShort(c, i, data) ==
  /\ res[c][i].st = "open"
  /\ LET first == res[c][i].mode = "none"
         mode == IF first THEN Mode(c, i, "length") ELSE res[c][i].mode
     IN /\ res' = [res EXCEPT ![c][i].mode = mode, ![c][i].st = "ended"]
        /\ Puts(c, (IF first THEN << <<i, "head">> >> ELSE <<>>)
                     \o (IF data THEN Body(c, i, mode) ELSE <<>>)
                     \o (IF first THEN LastChunk(c, i, mode) ELSE <<>>))
  /\ UNCHANGED <<script, conn, active, open_, loop>>

(* end: a response that fits in one call has its length.                   *)
ResEnd(c, i, data) ==
  /\ res[c][i].st = "open"
  /\ LET first == res[c][i].mode = "none"
         mode == IF first THEN Mode(c, i, "length") ELSE res[c][i].mode
     IN /\ res' = [res EXCEPT ![c][i].mode = mode, ![c][i].st = "ended"]
        /\ Puts(c, (IF first THEN << <<i, "head">> >> ELSE <<>>)
                     \o (IF data THEN Body(c, i, mode) ELSE <<>>) \o LastChunk(c, i, mode))
  /\ UNCHANGED <<script, conn, active, open_, loop>>

\* Mutant: an idle connection has no timer, the sweep will find it.
FinishesIdle(c, i) ==
  /\ loop = 0 /\ res[c][i].st = "ended"
  /\ res' = [res EXCEPT ![c][i].st = "finished"]
  /\ conn' = IF script[c][i].close
             THEN [conn EXCEPT ![c].reqT = FALSE, ![c].st = IF @ = "open" THEN "ending" ELSE @]
             ELSE [conn EXCEPT ![c].reqT = FALSE, ![c].idle = TRUE]
  /\ UNCHANGED <<script, active, open_, loop, wire>>

(* 'finish', when all of it has left: the connection ends, or is idle and  *)
(* has a timer.                                                            *)
Finishes(c, i) ==
  /\ loop = 0 /\ res[c][i].st = "ended"
  /\ res' = [res EXCEPT ![c][i].st = "finished"]
  /\ conn' = IF script[c][i].close
             THEN [conn EXCEPT ![c].reqT = FALSE, ![c].st = IF @ = "open" THEN "ending" ELSE @]
             ELSE [conn EXCEPT ![c].reqT = FALSE, ![c].idle = TRUE, ![c].keepT = TRUE]
  /\ UNCHANGED <<script, active, open_, loop, wire>>

-----------------------------------------------------------------------------
(* Connections.                                                            *)
Closed_(s) == [s EXCEPT !.st = "dead", !.headT = FALSE, !.reqT = FALSE]
Closes(set) == conn' = [c \in Conns |-> IF c \in set THEN Closed_(conn[c]) ELSE conn[c]]
Dies(c) == Closes({c}) /\ active' = SelectSeq(active, LAMBDA x : x # c)

Connects(c) ==
  /\ loop = 0 /\ open_ /\ conn[c].st = "new" /\ \A d \in Conns : d < c => conn[d].st # "new"
  /\ conn' = [conn EXCEPT ![c].st = "open", ![c].headT = TRUE] /\ active' = Append(active, c)
  /\ UNCHANGED <<script, open_, loop, res, wire>>

(* A client that does not pipeline waits for the response before it sends  *)
(* the next request.                                                       *)
MaySend(c, unit) ==
  \/ Pipelines
  \/ unit[1] = 1
  \/ unit[1] - 1 \in DOMAIN res[c] /\ res[c][unit[1] - 1].st = "finished"

\* Mutant: data clears the timer of an idle connection and leaves it idle.
ArrivesIdle(c) ==
  /\ loop = 0 /\ Live(c)
  /\ LET units == Units(script[c])
     IN \E n \in conn[c].sent + 1..Len(units) :
          /\ \A i \in conn[c].sent + 1..n : MaySend(c, units[i])
          /\ conn' = [conn EXCEPT ![c].sent = n, ![c].keepT = FALSE,
                                  ![c].buf = @ \o SubSeq(units, conn[c].sent + 1, n)]
          /\ loop' = c
  /\ UNCHANGED <<script, active, open_, res, wire>>

(* 'data': the connection is not idle any more.                            *)
Arrives(c) ==
  /\ loop = 0 /\ Live(c)
  /\ LET units == Units(script[c])
     IN \E n \in conn[c].sent + 1..Len(units) :
          /\ \A i \in conn[c].sent + 1..n : MaySend(c, units[i])
          /\ IF conn[c].upgraded
             THEN conn' = [conn EXCEPT ![c].sent = n] /\ UNCHANGED loop
             ELSE /\ conn' = [conn EXCEPT ![c].sent = n, ![c].keepT = FALSE, ![c].idle = FALSE,
                                          ![c].buf = @ \o SubSeq(units, conn[c].sent + 1, n)]
                  /\ loop' = c
  /\ UNCHANGED <<script, active, open_, res, wire>>

(* A turn of the loop over the buffer: nothing whole, or a request that is *)
(* refused, or waits for its body, or upgrades, or is given to 'request'.  *)
TakeRequest ==
  /\ loop # 0
  /\ LET c == loop
         buf == conn[c].buf
         i == Head(buf)[1]
         q == script[c][i]
         whole == 2 + (IF q.body THEN 1 ELSE 0)
         timed == [conn[c] EXCEPT !.headT = FALSE, !.reqT = TRUE]
         go == IF q.expect THEN << <<i, "continue">> >> ELSE <<>>
     IN CASE Len(buf) < 2 -> loop' = 0 /\ UNCHANGED <<conn, res, wire>>
          [] Len(buf) >= 2 /\ ~q.host ->
               /\ conn' = [conn EXCEPT ![c] = [timed EXCEPT !.st = IF @ = "open" THEN "ending" ELSE @]]
               /\ Puts(c, << <<i, "400">> >>) /\ loop' = 0 /\ UNCHANGED res
          [] Len(buf) >= 2 /\ q.host /\ Len(buf) < whole ->
               conn' = [conn EXCEPT ![c] = timed] /\ Puts(c, go) /\ loop' = 0 /\ UNCHANGED res
          [] Len(buf) >= whole /\ q.host /\ q.upgrade ->
               /\ conn' = [conn EXCEPT ![c] = [timed EXCEPT !.reqT = FALSE, !.upgraded = TRUE, !.buf = <<>>]]
               /\ Puts(c, go) /\ loop' = 0 /\ UNCHANGED res
          [] OTHER ->
               /\ conn' = [conn EXCEPT ![c] = [timed EXCEPT !.buf = SubSeq(buf, whole + 1, Len(buf))]]
               /\ Puts(c, go) /\ UNCHANGED loop
               /\ res' = [res EXCEPT ![c] = Append(@, [st |-> "open", mode |-> "none",
                                                       wish |-> "none", writes |-> 0])]
  /\ UNCHANGED <<script, active, open_>>

(* The timers of a connection, the end of what end() began, and the peer.  *)
TimerEnds(c) ==
  /\ loop = 0 /\ Live(c) /\ (conn[c].headT \/ conn[c].reqT \/ conn[c].keepT) /\ Dies(c)
  /\ UNCHANGED <<script, open_, loop, res, wire>>
Ended_(c) ==
  /\ loop = 0 /\ conn[c].st = "ending" /\ Dies(c)
  /\ UNCHANGED <<script, open_, loop, res, wire>>
PeerCloses(c) ==
  /\ loop = 0 /\ Live(c) /\ Dies(c)
  /\ UNCHANGED <<script, open_, loop, res, wire>>

(* closeIdleConnections and closeAllConnections walk _activeSockets while  *)
(* each 'close' takes its socket out of it: the one behind is passed over. *)
RECURSIVE Walk(_, _, _)
Walk(list, at, which) ==
  IF at > Len(list) THEN {}
  ELSE LET c == list[at]
       IN IF c \in which THEN {c} \cup Walk(RemoveAt(list, at), at + 1, which)
          ELSE Walk(list, at + 1, which)

IdleSweep ==
  /\ loop = 0 /\ open_
  /\ LET gone == Walk(active, 1, {c \in Conns : conn[c].idle})
     IN gone # {} /\ Closes(gone) /\ active' = SelectSeq(active, LAMBDA x : x \notin gone)
  /\ UNCHANGED <<script, open_, loop, res, wire>>

CloseServer ==
  /\ open_ /\ open_' = FALSE
  /\ Closes(Walk(active, 1, Conns)) /\ active' = <<>>
  /\ UNCHANGED <<script, loop, res, wire>>

Respond(c, i) == ResWrite(c, i) \/ FlushHeaders(c, i) \/ \E data \in BOOLEAN : ResEnd(c, i, data)
ServerTurn(c) == TimerEnds(c) \/ Ended_(c) \/ \E i \in DOMAIN res[c] : Finishes(c, i)
ServerNext ==
  \/ TakeRequest \/ IdleSweep \/ CloseServer
  \/ \E c \in Conns :
       \/ Connects(c) \/ Arrives(c) \/ PeerCloses(c) \/ ServerTurn(c)
       \/ \E i \in DOMAIN res[c] : Respond(c, i) \/ \E w \in {"length", "chunked"} : SetHeader(c, i, w)

(* Handlers return, ticks and timers run, and the program ends each        *)
(* response.                                                               *)
ServerFairness ==
  /\ WF_serverVars(TakeRequest)
  /\ \A c \in Conns : /\ WF_serverVars(ServerTurn(c))
                      /\ \A i \in 1..2 : WF_serverVars(i \in DOMAIN res[c] /\ ResEnd(c, i, TRUE))
ServerSpec == ServerInit /\ [][ServerNext]_serverVars /\ ServerFairness

-----------------------------------------------------------------------------
(* What a client reads is one response after the other, in the order of    *)
(* its requests: one head, a body in the framing the head promised, and    *)
(* for chunks the last one, once and at the end.                           *)
Of(c, i) == SelectSeq(wire[c], LAMBDA e : e[1] = i /\ e[2] \notin {"continue", "400"})
Framed(r, out) ==
  /\ out # <<>> => out[1][2] = "head"
  /\ \A k \in 2..Len(out) : out[k][2] # "head"
  /\ \A k \in DOMAIN out :
       /\ out[k][2] = "chunk" => r.mode = "chunked"
       /\ out[k][2] = "raw" => r.mode = "length"
       /\ out[k][2] = "last" => r.mode = "chunked" /\ k = Len(out)
WireIsFramed ==
  \A c \in Conns :
    /\ \A j, k \in DOMAIN wire[c] : j < k => wire[c][j][1] <= wire[c][k][1]
    /\ \A i \in DOMAIN res[c] : Framed(res[c][i], Of(c, i))
    /\ conn[c].st = "open" => \A i \in DOMAIN res[c] :
         res[c][i].st \in {"ended", "finished"} /\ res[c][i].mode = "chunked" /\ ~Bodyless(c, i) =>
           Last(Of(c, i))[2] = "last"

(* Neither the sweep of idle connections nor a keep-alive timer ends a     *)
(* connection with a request that is read or answered.                     *)
Busy(c) == conn[c].buf # <<>> \/ \E i \in DOMAIN res[c] : res[c][i].st \in {"open", "ended"}
BusyIsSpared == \A c \in Conns : conn[c].st = "open" /\ (conn[c].idle \/ conn[c].keepT) => ~Busy(c)

(* No connection stays open for ever, also when its client goes silent in  *)
(* the middle of a head or a body; except that of an upgraded protocol,    *)
(* and one whose next head began and was not finished: no timer is set.    *)
HalfHead(c) == Len(conn[c].buf) = 1 /\ conn[c].buf[1][1] > 1
ConnectionsEnd ==
  \A c \in Conns : conn[c].st = "open" ~> conn[c].st # "open" \/ conn[c].upgraded \/ HalfHead(c)

(* "Drain keep-alive sockets so close callbacks run": after close no       *)
(* connection is left open and idle.                                       *)
DrainsIdle == ~open_ => \A c \in Conns : ~(Live(c) /\ conn[c].idle)
=============================================================================
