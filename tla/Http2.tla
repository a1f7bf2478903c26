------------------------------- MODULE Http2 -------------------------------
(***************************************************************************)
(* An HTTP/2 connection of builtins/js/http2.js: a client session and a    *)
(* server session, the streams of the client's requests, and the frames    *)
(* between them.  Frames, stream states and the events they cause belong   *)
(* to nghttp2 (external); sessions, streams and what listeners are told    *)
(* are the JavaScript code's.                                              *)
(***************************************************************************)
EXTENDS Naturals, Sequences, FiniteSets, SequencesExt

CONSTANTS H2Requests,       \* the requests a client may make
          MaxData,      \* writes of the application on one stream
          H2Methods,      \* of "GET" and "POST", the methods of the requests made
          Trailered,      \* the methods of those that wait for trailers
          MaxActs,        \* how often applications do the following
          Acts            \* what they do: "destroy", "reset", "close", "settings"

VARIABLES ses,            \* of each side, the fields of its session
          str,            \* of each side, the stream object of each request
          told,           \* of each side and request, what its stream emitted
          line            \* external: frames under way, stream states, events

h2Vars == <<ses, str, told, line>>

Sides == {"client", "server"}
Peer(s) == IF s = "client" THEN "server" ELSE "client"

Session(s) ==
  [connecting |-> s = "client", destroyed |-> FALSE, closing |-> FALSE,
   timer |-> FALSE, streams |-> {}, pending |-> <<>>, closes |-> 0, reading |-> FALSE,
   local |-> 0, announced |-> 0, remote |-> 0, unacked |-> FALSE]

(* A stream object; said: the writes of the application, fin: its end(),   *)
(* late: asked for after close(), or made again by the server.            *)
NoStream ==
  [made |-> FALSE, method |-> "POST", pendingLocal |-> FALSE, writes |-> <<>>, pendingEnd |-> FALSE,
   wait |-> FALSE, ended |-> FALSE, headers |-> FALSE, destroyed |-> FALSE, closed |-> FALSE,
   ready |-> FALSE, sentTrailers |-> FALSE, headersSent |-> FALSE, said |-> <<>>, fin |-> FALSE,
   late |-> FALSE]

H2Init ==
  /\ ses = [s \in Sides |-> Session(s)]
  /\ str = [s \in Sides |-> [r \in H2Requests |-> NoStream]]
  /\ told = [s \in Sides |-> [r \in H2Requests |-> <<>>]]
  /\ line = [up |-> [s \in Sides |-> s = "server"],
             wire |-> [s \in Sides |-> <<>>],
             out |-> [s \in Sides |-> [r \in H2Requests |-> "idle"]],
             in |-> [s \in Sides |-> [r \in H2Requests |-> "idle"]],
             ev |-> [s \in Sides |-> <<>>]]

-----------------------------------------------------------------------------
(* nghttp2.  A frame leaves when its stream may still send; a stream that  *)
(* both sides ended closes, and its session hears of it at its next read.  *)
\* A frame of data that only ends the stream (v = 0) has no chunk.
Event(kind, r, v) == [e |-> kind, r |-> r, v |-> v]
Submit(l, s, r, kind, v, end) ==
  IF ~l.up[s] \/ l.out[s][r] # (IF kind = "headers" THEN "idle" ELSE "open") THEN l
  ELSE [l EXCEPT !.wire[s] = Append(@, [f |-> kind, r |-> r, v |-> v, end |-> end]),
                 !.out[s][r] = IF end THEN "ended" ELSE "open",
                 !.ev[s] = IF end /\ l.in[s][r] = "ended" THEN Append(@, Event("closed", r, 0)) ELSE @]
ResetLine(l, s, r, v) ==
  IF ~l.up[s] \/ l.out[s][r] = "reset" \/ {l.out[s][r], l.in[s][r]} \in {{"ended"}, {"idle"}} THEN l
  ELSE [l EXCEPT !.wire[s] = Append(@, [f |-> "rst", r |-> r, v |-> v, end |-> FALSE]),
                 !.out[s][r] = "reset", !.in[s][r] = "reset"]
Control(l, s, kind, v) == [l EXCEPT !.wire[s] = Append(@, [f |-> kind, r |-> 0, v |-> v, end |-> FALSE])]

EventsOf(s, f) ==
  IF f.f \in {"goaway", "settings", "ack"} THEN <<Event(f.f, f.r, f.v)>>
  ELSE IF line.in[s][f.r] \in {"ended", "reset"} THEN <<>>
  ELSE IF f.f = "rst" THEN <<Event("closed", f.r, f.v)>>
  ELSE (IF f.f = "data" /\ f.v = 0 THEN <<>> ELSE <<Event(f.f, f.r, f.v)>>)
       \o (IF ~f.end THEN <<>> ELSE IF f.f = "data" THEN <<Event("end", f.r, 0)>> ELSE <<Event("endOf", f.r, 0)>>)
       \o (IF f.end /\ line.out[s][f.r] = "ended" THEN <<Event("closed", f.r, 0)>> ELSE <<>>)

(* _h2ReadLoopCb: bytes go to the session, what it answers is flushed, and *)
(* its events are drained one by one, with the listeners' code in between. *)
Receives(s) ==
  /\ line.up[s] /\ ~ses[s].reading /\ line.wire[Peer(s)] # <<>>
  /\ LET f == Head(line.wire[Peer(s)])
         l == [line EXCEPT !.wire[Peer(s)] = Tail(@), !.ev[s] = @ \o EventsOf(s, f)]
     IN line' = IF f.f = "settings" THEN Control(l, s, "ack", f.v)
                ELSE IF f.r = 0 \/ l.in[s][f.r] \in {"ended", "reset"} THEN l
                ELSE IF f.f = "rst" THEN [l EXCEPT !.in[s][f.r] = "reset", !.out[s][f.r] = "reset"]
                ELSE [l EXCEPT !.in[s][f.r] = IF f.end THEN "ended" ELSE "open"]
  /\ ses' = [ses EXCEPT ![s].reading = TRUE]
  /\ UNCHANGED <<str, told>>

Told(what, v) == [e |-> what, v |-> v]
Tells(s, r, what) == told' = [told EXCEPT ![s][r] = @ \o [i \in DOMAIN what |-> Told(what[i], 0)]]
Known(s, r) == r \in ses[s].streams

\* Mutant: any HEADERS frame is taken for the first.
OnHeadersAgain(s, r) ==
  /\ str' = [str EXCEPT ![s][r].headers = TRUE, ![s][r].made = TRUE]
  /\ ses' = [ses EXCEPT ![s].streams = @ \cup {r}]
  /\ Tells(s, r, <<IF s = "server" THEN "stream" ELSE "response">>)

(* The first headers of a stream are the request or the response; later    *)
(* ones are trailers.  A server makes a stream for headers of any stream   *)
(* it does not know, one that was destroyed before included.               *)
OnHeaders(s, r) ==
  LET made  == s = "server" /\ ~Known(s, r)
      first == made \/ ~str[s][r].headers
      x == IF made THEN [NoStream EXCEPT !.made = TRUE, !.said = str[s][r].said, !.late = str[s][r].made] ELSE str[s][r]
  IN IF Known(s, r) \/ made
     THEN /\ str' = [str EXCEPT ![s][r] = [x EXCEPT !.headers = TRUE]]
          /\ ses' = [ses EXCEPT ![s].streams = @ \cup {r}]
          /\ Tells(s, r, <<IF ~first THEN "trailers" ELSE IF s = "server" THEN "stream" ELSE "response">>)
     ELSE UNCHANGED <<ses, str, told>>

OnData(s, r, v) ==
  /\ IF Known(s, r) THEN told' = [told EXCEPT ![s][r] = Append(@, Told("data", v))] ELSE UNCHANGED told
  /\ UNCHANGED <<ses, str>>
(* The 'end' of a HEADERS frame goes to the stream its headers went to.    *)
OnEnd(s, r, held) ==
  /\ IF Known(s, r) \/ held THEN Tells(s, r, <<"end">>) ELSE UNCHANGED told
  /\ UNCHANGED <<ses, str>>
OnClosed(s, r, code) ==
  /\ IF Known(s, r)
     THEN /\ Tells(s, r, IF code # 0 THEN <<"error", "close">> ELSE <<"close">>)
          /\ str' = [str EXCEPT ![s][r].closed = TRUE]
          /\ ses' = [ses EXCEPT ![s].streams = @ \ {r}]
     ELSE UNCHANGED <<told, str, ses>>

\* Mutant: an acknowledgement leaves the session waiting for it.
OnAckUnheard(s) == UNCHANGED ses
OnAck(s) == ses' = [ses EXCEPT ![s].unacked = FALSE]

(* _h2DrainEvents, one event.                                              *)
Drains(s) ==
  /\ line.up[s] /\ ses[s].reading /\ line.ev[s] # <<>>
  /\ LET e == Head(line.ev[s])
     IN \/ e.e \in {"headers", "trailers"} /\ OnHeaders(s, e.r)
        \/ e.e = "data" /\ OnData(s, e.r, e.v)
        \/ e.e \in {"end", "endOf"} /\ OnEnd(s, e.r, e.e = "endOf")
        \/ e.e = "closed" /\ OnClosed(s, e.r, e.v)
        \/ e.e = "settings" /\ ses' = [ses EXCEPT ![s].remote = e.v] /\ UNCHANGED <<str, told>>
        \/ e.e = "ack" /\ OnAck(s) /\ UNCHANGED <<str, told>>
        \/ e.e = "goaway" /\ UNCHANGED <<ses, str, told>>
  /\ line' = [line EXCEPT !.ev[s] = Tail(@)]
Drained(s) ==
  /\ line.up[s] /\ ses[s].reading /\ line.ev[s] = <<>>
  /\ ses' = [ses EXCEPT ![s].reading = FALSE]
  /\ UNCHANGED <<str, told, line>>

(* Http2Session.destroy: the handle and the socket go.                     *)
Gone(s, times) ==
  /\ ses' = [ses EXCEPT ![s].destroyed = TRUE, ![s].connecting = FALSE, ![s].timer = FALSE,
                         ![s].closes = @ + times]
  /\ line' = [line EXCEPT !.up[s] = FALSE]
  /\ UNCHANGED <<str, told>>
(* isEOF, after the last frame: 'close' is emitted, and destroy emits it.  *)
EndOfFile(s) ==
  /\ line.up[s] /\ ~ses[s].reading /\ ses[Peer(s)].destroyed /\ line.wire[Peer(s)] = <<>>
  /\ Gone(s, 2)
CloseTimer(s) == ses[s].timer /\ ~ses[s].reading /\ Gone(s, 1)

(* What the applications did so far besides their exchange (a bound).      *)
Spent == Cardinality({p \in Sides \X H2Requests : str[p[1]][p[2]].destroyed})
         + Cardinality({s \in Sides : ses[s].closing}) + ses["client"].local + ses["server"].local
May(act) == act \in Acts /\ Spent < MaxActs

(* Http2Session.close: GOAWAY, an error for what is incomplete or waits    *)
(* for the connection, and destroy at the next turn of the timers.         *)
Incomplete(s, r) == ~str[s][r].destroyed /\ ~(str[s][r].ended /\ str[s][r].headers)
CloseSession(s) ==
  /\ May("close") /\ ~ses[s].destroyed /\ ~ses[s].closing
  /\ line' = IF line.up[s] THEN Control(line, s, "goaway", 0) ELSE line
  /\ LET hear == {r \in ses[s].streams : Incomplete(s, r)}
                 \cup {r \in H2Requests : r \in ToSet(ses[s].pending) /\ ~str[s][r].destroyed}
     IN told' = [told EXCEPT ![s] = [r \in H2Requests |-> IF r \in hear THEN Append(@[r], Told("error", 0)) ELSE @[r]]]
  /\ ses' = [ses EXCEPT ![s].closing = TRUE, ![s].timer = TRUE, ![s].pending = <<>>]
  /\ UNCHANGED str

(* Http2Session.settings: the local settings are the new ones at once.     *)
Settings(s) ==
  /\ May("settings")
  /\ ses' = [ses EXCEPT ![s].local = @ + 1, ![s].unacked = @ \/ line.up[s],
                         ![s].announced = IF line.up[s] THEN ses[s].local + 1 ELSE @]
  /\ line' = IF line.up[s] THEN Control(line, s, "settings", ses[s].local + 1) ELSE line
  /\ UNCHANGED <<str, told>>

-----------------------------------------------------------------------------
(* Writing: each operator gives the stream and the line after the call.    *)
EndsWithHeaders(x) == x.method = "GET" /\ ~x.wait
Wrote(x, l, s, r, v) ==
  IF x.ended \/ x.destroyed THEN <<x, l>> ELSE <<x, Submit(l, s, r, "data", v, FALSE)>>
EndsWith(x, l, s, r) ==
  IF x.ended THEN <<x, l>>
  ELSE <<IF x.wait THEN [x EXCEPT !.ready = TRUE] ELSE [x EXCEPT !.ended = TRUE],
         IF x.wait THEN l ELSE Submit(l, s, r, "data", 0, TRUE)>>

\* Mutant: the end that was kept is sent before the writes that were.
ActivateEndFirst(x, l, s, r) ==
  LET opened == [x EXCEPT !.pendingLocal = FALSE, !.writes = <<>>, !.pendingEnd = FALSE, !.ended = EndsWithHeaders(x)]
      sent   == Submit(l, s, r, "headers", 0, EndsWithHeaders(x))
      ended  == IF x.pendingEnd THEN EndsWith(opened, sent, s, r) ELSE <<opened, sent>>
  IN FoldLeft(LAMBDA acc, v : Wrote(acc[1], acc[2], s, r, v), ended, x.writes)

\* Mutant: an end() called before the connection was there is forgotten.
ActivateNoEnd(x, l, s, r) ==
  LET opened == [x EXCEPT !.pendingLocal = FALSE, !.writes = <<>>, !.pendingEnd = FALSE, !.ended = EndsWithHeaders(x)]
      sent   == Submit(l, s, r, "headers", 0, EndsWithHeaders(x))
  IN FoldLeft(LAMBDA acc, v : Wrote(acc[1], acc[2], s, r, v), <<opened, sent>>, x.writes)

(* _activatePendingStream: headers, the writes kept, the end kept.         *)
Activate(x, l, s, r) ==
  LET opened == [x EXCEPT !.pendingLocal = FALSE, !.writes = <<>>, !.pendingEnd = FALSE, !.ended = EndsWithHeaders(x)]
      sent   == Submit(l, s, r, "headers", 0, EndsWithHeaders(x))
      wrote  == FoldLeft(LAMBDA acc, v : Wrote(acc[1], acc[2], s, r, v), <<opened, sent>>, x.writes)
  IN IF x.pendingEnd THEN EndsWith(wrote[1], wrote[2], s, r) ELSE wrote

(* _attachSocket, when the connection is there: the requests go in order;  *)
(* what settings() recorded before stays with this side.                   *)
AttachSocket ==
  LET s == "client"
      after == FoldLeft(LAMBDA acc, r : LET a == Activate(acc[1][r], acc[2], s, r)
                                        IN <<[acc[1] EXCEPT ![r] = a[1]], a[2]>>,
                        <<str[s], [line EXCEPT !.up[s] = TRUE]>>, ses[s].pending)
  IN /\ ses[s].connecting
     /\ str' = [str EXCEPT ![s] = after[1]] /\ line' = after[2]
     /\ ses' = [ses EXCEPT ![s].connecting = FALSE, ![s].pending = <<>>,
                           ![s].streams = @ \cup ToSet(ses[s].pending)]
     /\ UNCHANGED told
(* ClientHttp2Session.request: kept while the session connects.            *)
Request(r, method, wait) ==
  LET s == "client"
      x == [NoStream EXCEPT !.made = TRUE, !.method = method, !.wait = wait, !.late = ses[s].closing]
  IN /\ ~ses[s].destroyed /\ ~str[s][r].made /\ \A q \in 1..r - 1 : str[s][q].made
     /\ IF ses[s].connecting
        THEN /\ str' = [str EXCEPT ![s][r] = [x EXCEPT !.pendingLocal = TRUE]]
             /\ ses' = [ses EXCEPT ![s].pending = Append(@, r)]
             /\ UNCHANGED line
        ELSE /\ str' = [str EXCEPT ![s][r] = [x EXCEPT !.ended = EndsWithHeaders(x)]]
             /\ ses' = [ses EXCEPT ![s].streams = @ \cup {r}]
             /\ line' = Submit(line, s, r, "headers", 0, EndsWithHeaders(x))
     /\ UNCHANGED told

(* A body has chunks and an end; only a POST has one.                      *)
Sends(s, r) == str[s][r].made /\ ~str[s][r].fin /\ (s = "server" \/ str[s][r].method = "POST")
ClientWrite(r) ==
  LET x == str["client"][r]
      v == Len(x.said) + 1
      y == [x EXCEPT !.said = Append(@, v)]
      w == IF x.pendingLocal THEN <<[y EXCEPT !.writes = Append(@, v)], line>> ELSE Wrote(y, line, "client", r, v)
  IN /\ Sends("client", r) /\ v <= MaxData
     /\ str' = [str EXCEPT !["client"][r] = w[1]] /\ line' = w[2]
     /\ UNCHANGED <<ses, told>>
ClientEnd(r) ==
  LET x == [str["client"][r] EXCEPT !.fin = TRUE]
      w == IF x.pendingLocal THEN <<[x EXCEPT !.pendingEnd = TRUE], line>> ELSE EndsWith(x, line, "client", r)
  IN /\ str["client"][r].made /\ ~str["client"][r].fin
     /\ str' = [str EXCEPT !["client"][r] = w[1]] /\ line' = w[2]
     /\ UNCHANGED <<ses, told>>

(* ServerHttp2Stream.respond, write and end: headers go out with the first *)
(* of them, and an end without a body ends with its headers.               *)
SendHead(x, l, r, end) ==
  <<[x EXCEPT !.headersSent = TRUE, !.ended = @ \/ end], Submit(l, "server", r, "headers", 0, end)>>
ServerRespond(r, wait) ==
  LET x == [str["server"][r] EXCEPT !.wait = wait]
      w == SendHead(x, line, r, FALSE)
  IN /\ Sends("server", r) /\ ~x.headersSent
     /\ str' = [str EXCEPT !["server"][r] = w[1]] /\ line' = w[2]
     /\ UNCHANGED <<ses, told>>
ServerWrite(r) ==
  LET x == str["server"][r]
      v == Len(x.said) + 1
      y == [x EXCEPT !.said = Append(@, v)]
      h == IF x.headersSent THEN <<y, line>> ELSE SendHead(y, line, r, FALSE)
      w == IF x.ended \/ x.destroyed THEN <<y, line>> ELSE Wrote(h[1], h[2], "server", r, v)
  IN /\ Sends("server", r) /\ v <= MaxData
     /\ str' = [str EXCEPT !["server"][r] = w[1]] /\ line' = w[2]
     /\ UNCHANGED <<ses, told>>
ServerEnd(r) ==
  LET x == [str["server"][r] EXCEPT !.fin = TRUE]
      w == IF x.ended THEN <<x, line>>
           ELSE IF x.headersSent THEN EndsWith(x, line, "server", r)
           ELSE SendHead(x, line, r, TRUE)
  IN /\ Sends("server", r)
     /\ str' = [str EXCEPT !["server"][r] = w[1]] /\ line' = w[2]
     /\ UNCHANGED <<ses, told>>

(* Http2Stream.sendTrailers: after end(), once.                            *)
SendTrailers(s, r) ==
  LET x == str[s][r]
  IN /\ x.made /\ ~x.destroyed /\ ~x.pendingLocal /\ ~x.closed /\ ~x.sentTrailers /\ x.ready
     /\ line' = Submit(line, s, r, "trailers", 0, TRUE)
     /\ str' = [str EXCEPT ![s][r].sentTrailers = TRUE, ![s][r].ended = TRUE]
     /\ UNCHANGED <<ses, told>>

(* Http2Stream.destroy, with an error or without, and close.               *)
DestroyStream(s, r, err, resets) ==
  /\ str[s][r].made /\ ~str[s][r].destroyed /\ ~str[s][r].closed
  /\ str' = [str EXCEPT ![s][r].destroyed = TRUE]
  /\ line' = IF (err \/ resets) /\ ~str[s][r].pendingLocal THEN ResetLine(line, s, r, IF err THEN 2 ELSE 0) ELSE line
  /\ Tells(s, r, IF err THEN <<"error", "close">> ELSE <<"close">>)
  /\ ses' = [ses EXCEPT ![s].streams = @ \ {r}]

-----------------------------------------------------------------------------
SideMoves(s) ==
  \/ Receives(s) \/ Drains(s) \/ Drained(s) \/ EndOfFile(s)
  \/ CloseSession(s) \/ CloseTimer(s) \/ Settings(s)
  \/ \E r \in H2Requests : SendTrailers(s, r)
  \/ \E r \in H2Requests : May("destroy") /\ DestroyStream(s, r, FALSE, FALSE)
  \/ \E r \in H2Requests, err \in BOOLEAN : May("reset") /\ DestroyStream(s, r, err, TRUE)

H2Next ==
  \/ \E s \in Sides : SideMoves(s)
  \/ AttachSocket
  \/ \E r \in H2Requests, m \in H2Methods : Request(r, m, m \in Trailered)
  \/ \E r \in H2Requests : ClientWrite(r) \/ ClientEnd(r) \/ ServerWrite(r) \/ ServerEnd(r)
  \/ \E r \in H2Requests, wait \in BOOLEAN : ServerRespond(r, wait)

Heard(s, r, what) == \E i \in DOMAIN told[s][r] : told[s][r][i].e = what
(* The network delivers, sessions read, and both applications end what     *)
(* they began: the server's once it heard the request end.                 *)
ServerAnswers(r) == Heard("server", r, "end") /\ ServerEnd(r)
H2Fairness ==
  /\ \A s \in Sides : /\ WF_h2Vars(Receives(s))
                      /\ WF_h2Vars(Drains(s)) /\ WF_h2Vars(Drained(s))
  /\ WF_h2Vars(AttachSocket)
  /\ \A r \in H2Requests : /\ WF_h2Vars(ClientEnd(r)) /\ WF_h2Vars(ServerAnswers(r))
                           /\ \A s \in Sides : WF_h2Vars(SendTrailers(s, r))
H2Spec == H2Init /\ [][H2Next]_h2Vars /\ H2Fairness

-----------------------------------------------------------------------------
BodyHeard(s, r) ==
  LET data == SelectSeq(told[s][r], LAMBDA t : t.e = "data") IN [i \in DOMAIN data |-> data[i].v]
Left(s, r) == str[s][r].destroyed \/ (s = "server" /\ str[s][r].late) \/ line.out[s][r] = "reset"

(* What a side is given of a body is a prefix of what the other side wrote *)
(* and, at 'end', all of it, for a stream neither side gave up: whether    *)
(* writes and end went out at once or waited for the connection.           *)
BodyIsWhole ==
  \A s \in Sides, r \in H2Requests :
    /\ IsPrefix(BodyHeard(s, r), str[Peer(s)][r].said)
    /\ Heard(s, r, "end") /\ ~Left(s, r) /\ ~Left(Peer(s), r) =>
         (str[Peer(s)][r].fin \/ EndsWithHeaders(str[Peer(s)][r])) /\ BodyHeard(s, r) = str[Peer(s)][r].said

(* Up to its close, a stream tells of its head first and once, then of its *)
(* body and trailers, and of one end, after which only an error follows.   *)
Life(s, r) == SubSeq(told[s][r], 1, SelectInSeq(told[s][r], LAMBDA t : t.e = "close") - 1)
ToldInOrder ==
  \A s \in Sides, r \in H2Requests :
    LET life == IF Heard(s, r, "close") THEN Life(s, r) ELSE told[s][r]
        Heads == {i \in DOMAIN life : life[i].e \in {"stream", "response"}}
    IN /\ Cardinality(Heads) <= 1
       /\ \A j \in DOMAIN life : life[j].e \in {"data", "trailers", "end"} => \E i \in Heads : i < j
       /\ \A i, j \in DOMAIN life : life[i].e = "end" /\ j > i => life[j].e = "error"

(* Both sessions come to agree on the settings each sent: when nothing is  *)
(* under way each has applied the other's last ones and waits for nothing. *)
SettingsSettle ==
  (\A s \in Sides : line.up[s] /\ line.wire[s] = <<>> /\ line.ev[s] = <<>> /\ ~ses[s].reading) =>
    \A s \in Sides : ~ses[s].unacked /\ ses[Peer(s)].remote = ses[s].announced

(* A request is over in the end: it hears an end, an error or its close,   *)
(* unless a session or the server's stream was destroyed.                  *)
Over(r) == Heard("client", r, "end") \/ Heard("client", r, "error") \/ Heard("client", r, "close")
RequestsEnd ==
  \A r \in H2Requests :
    str["client"][r].made ~> Over(r) \/ str["server"][r].destroyed \/ str["server"][r].late \/ \E s \in Sides : ses[s].destroyed \/ ses[s].closing
=============================================================================
