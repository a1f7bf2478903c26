----------------------------- MODULE WebSockets -----------------------------
(***************************************************************************)
(* The WebSocket client and the WebSocketServer, over connections that     *)
(* carry whole frames in order: the handshake, the two read loops, the     *)
(* closing handshake, and what listeners do in the middle of a buffer of   *)
(* frames. Messages are numbered in the order they are sent.               *)
(***************************************************************************)
EXTENDS Naturals, Sequences, FiniteSets, SequencesExt

CONSTANTS WsConns,        \* the connections
          WsMessages,     \* messages a side sends, at most
          Reactions,      \* what listeners do at the first message: "none", "echo", "close", "terminate"
          Outcomes,       \* how upgrades end: "open", "serve" (the fetch server's), "denied", "silent", "bad"
          WsHabits        \* "early" (close before open), "kill" (terminate, or the server's close), "down", "ping"

VARIABLES cli,            \* WebSocket
          srv,            \* ServerWebSocket
          up, down,       \* frames on their way
          wss             \* WebSocketServer
wsVars == <<cli, srv, up, down, wss>>

Side(st, step, react) ==
  [st |-> st, h |-> "none", step |-> step, sent |-> 0, heard |-> <<>>, told |-> <<>>, errors |-> 0,
   byPeer |-> FALSE, tracked |-> FALSE, react |-> react]

WsInit ==
  /\ \E r \in Reactions, s \in Reactions :
       /\ cli = [c \in WsConns |-> Side("CONNECTING", "connect", r)]
       /\ srv = [c \in WsConns |-> Side("none", "none", s)]
  /\ up = [c \in WsConns |-> <<>>] /\ down = [c \in WsConns |-> <<>>]
  /\ wss = [running |-> TRUE, clients |-> {}]

(* One side and what it puts on the wire: <<"message", number>> and others. *)
Control(kind) == <<kind, 0>>
At(me, out) == [me |-> me, out |-> out]
SendFrame(x, t) == IF x.me.h = "open" THEN [x EXCEPT !.out = Append(@, t)] ELSE x

-----------------------------------------------------------------------------
(* The client                                                              *)
CClose_(x, code) ==
  IF x.me.st = "CLOSED" THEN x
  ELSE [x EXCEPT !.me.st = "CLOSED", !.me.h = IF @ = "open" THEN "closed" ELSE @, !.me.told = Append(@, code)]

(* An error, for which there is a listener.                                *)
EmitError(x) == [x EXCEPT !.me.errors = @ + 1]

(* A bug: a socket that is closing still sends.                            *)
CSendClosing(x) == IF x.me.st \in {"OPEN", "CLOSING"} /\ x.me.sent < WsMessages
                   THEN SendFrame([x EXCEPT !.me.sent = @ + 1], <<"message", x.me.sent + 1>>) ELSE x

CSend(x) == IF x.me.st = "OPEN" /\ x.me.sent < WsMessages
            THEN SendFrame([x EXCEPT !.me.sent = @ + 1], <<"message", x.me.sent + 1>>) ELSE x
CClose(x) ==
  IF x.me.st \in {"CLOSING", "CLOSED"} THEN x ELSE SendFrame([x EXCEPT !.me.st = "CLOSING"], Control("close"))
CTerminate(x) == CClose_(x, "abnormal")

Heard(x, t) == [x EXCEPT !.me.heard = Append(@, t[2])]
CReacts(x) ==
  IF Len(x.me.heard) # 1 THEN x
  ELSE CASE x.me.react = "echo" -> CSend(x) [] x.me.react = "close" -> CClose(x)
         [] x.me.react = "terminate" -> CTerminate(x) [] OTHER -> x

CHandleFrame(x, t) ==
  CASE t[1] = "close" ->
         CClose_([IF x.me.st = "OPEN" THEN SendFrame([x EXCEPT !.me.st = "CLOSING"], Control("close")) ELSE x
                    EXCEPT !.me.byPeer = x.me.st # "CLOSED"], "normal")
    [] t[1] = "ping" -> IF x.me.st = "OPEN" THEN SendFrame(x, Control("pong")) ELSE x
    [] t[1] = "pong" -> x
    [] OTHER -> CReacts(Heard(x, t))

(* _processFrames goes on to the end of the buffer, whatever its listeners *)
(* did, and _readLoop reads on while the socket is not closed.             *)
CProcess(x, frames) ==
  LET y == FoldLeft(CHandleFrame, x, frames)
  IN [y EXCEPT !.me.step = IF y.me.st \in {"OPEN", "CLOSING"} THEN "read" ELSE "stop"]

CBecomes(c, x, rest) ==
  /\ cli' = [cli EXCEPT ![c] = x.me]
  /\ up' = [up EXCEPT ![c] = @ \o IF srv[c].h = "closed" THEN <<>> ELSE x.out]
  /\ down' = [down EXCEPT ![c] = rest]
Now(c) == At(cli[c], <<>>)

Connect(c, ok) ==
  LET x == [Now(c) EXCEPT !.me.h = "open", !.me.step = "answer"]
  IN /\ cli[c].step = "connect"
     /\ ok => wss.running
     /\ CBecomes(c, IF ok THEN SendFrame(x, Control("request")) ELSE CClose_(EmitError([Now(c) EXCEPT !.me.step = "stop"]), "abnormal"),
                 down[c])
     /\ srv' = [srv EXCEPT ![c].step = IF ok THEN "accept" ELSE @]
     /\ UNCHANGED wss

ReadAnswer(c) ==
  \E k \in 0..Len(down[c]) :
    LET rest == SubSeq(down[c], k + 1, Len(down[c]))
        x == Now(c)
        fails == CClose_(EmitError([x EXCEPT !.me.step = "stop"]), "abnormal")
    IN /\ cli[c].step = "answer" /\ (k = 0 => down[c] = <<>> /\ (srv[c].h = "closed" \/ cli[c].h # "open"))
       /\ CBecomes(c, IF k = 0 \/ cli[c].h # "open" \/ down[c][1] # Control("101") THEN fails
                      ELSE CProcess([x EXCEPT !.me.st = "OPEN", !.me.told = Append(@, "open")], SubSeq(down[c], 2, k)),
                   rest)
       /\ UNCHANGED <<srv, wss>>

(* The end of the connection closes the socket, unless it is closing.      *)
CRead(c) ==
  \E k \in 0..Len(down[c]) :
    /\ cli[c].step = "read" /\ (k = 0 => down[c] = <<>> /\ (srv[c].h = "closed" \/ cli[c].h # "open"))
    /\ CBecomes(c, IF k = 0 \/ cli[c].h # "open"
                   THEN LET x == [Now(c) EXCEPT !.me.step = "stop"]
                        IN IF cli[c].st = "CLOSING" THEN x ELSE CClose_(x, "abnormal")
                   ELSE CProcess(Now(c), SubSeq(down[c], 1, k)),
                SubSeq(down[c], k + 1, Len(down[c])))
    /\ UNCHANGED <<srv, wss>>

CCalls(c, what) ==
  /\ what # "send" /\ cli[c].st = "CONNECTING" => "early" \in WsHabits
  /\ what = "terminate" => "kill" \in WsHabits
  /\ what = "ping" => "ping" \in WsHabits /\ ~\E kind \in {"ping", "pong"} : Control(kind) \in ToSet(up[c] \o down[c])
  /\ CBecomes(c, CASE what = "send" -> CSend(Now(c)) [] what = "close" -> CClose(Now(c))
                   [] what = "terminate" -> CTerminate(Now(c))
                   [] OTHER -> IF cli[c].st = "OPEN" THEN SendFrame(Now(c), Control("ping")) ELSE Now(c), down[c])
  /\ UNCHANGED <<srv, wss>>

-----------------------------------------------------------------------------
(* The server's side of a connection                                       *)
SDoClose(x, code) ==
  IF x.me.st = "CLOSED" THEN x
  ELSE [x EXCEPT !.me.st = "CLOSED", !.me.h = "closed", !.me.told = Append(@, code), !.me.step = "stop"]
SSend(x) == IF x.me.st = "OPEN" /\ x.me.sent < WsMessages
            THEN SendFrame([x EXCEPT !.me.sent = @ + 1], <<"message", x.me.sent + 1>>) ELSE x
SClose(x) == IF x.me.st = "OPEN" THEN SDoClose(SendFrame(x, Control("close")), "normal") ELSE x
STerminate(x) == SDoClose(x, "abnormal")
SReacts(x) ==
  IF Len(x.me.heard) # 1 THEN x
  ELSE CASE x.me.react = "echo" -> SSend(x) [] x.me.react = "close" -> SClose(x)
         [] x.me.react = "terminate" -> STerminate(x) [] OTHER -> x

(* One turn of _processRecvBuf, which does not look whether the socket is  *)
(* still open.                                                             *)
SHandleFrame(x, t) ==
  CASE t[1] = "close" ->
         SDoClose([IF x.me.st = "OPEN" THEN SendFrame(x, Control("close")) ELSE x
                     EXCEPT !.me.byPeer = @ \/ x.me.st = "OPEN"], "normal")
    [] t[1] = "ping" -> SendFrame(x, Control("pong"))
    [] t[1] = "pong" -> x
    [] OTHER -> SReacts(Heard(x, t))

(* A closed socket is no longer among the clients.                         *)
SBecomes(c, x, rest) ==
  /\ srv' = [srv EXCEPT ![c] = x.me]
  /\ down' = [down EXCEPT ![c] = @ \o IF cli[c].h = "closed" THEN <<>> ELSE x.out]
  /\ up' = [up EXCEPT ![c] = rest]
  /\ wss' = [wss EXCEPT !.clients = IF x.me.st = "CLOSED" THEN @ \ {c} ELSE @]
Then(c) == At(srv[c], <<>>)

(* _acceptLoop: a connection is accepted while the server listens; those   *)
(* nobody accepts are reset with the listener.                             *)
Accept(c) ==
  /\ srv[c].step = "accept"
  /\ srv' = [srv EXCEPT ![c].step = IF wss.running THEN "request" ELSE "stop",
                        ![c].h = IF wss.running THEN "open" ELSE "closed"]
  /\ UNCHANGED <<cli, up, down, wss>>

(* _readUpgradeRequest and handleUpgrade: what came with the request is    *)
(* dropped, and some who are turned away are not told.                     *)
Upgrade(c) ==
  \E k \in 0..Len(up[c]), outcome \in Outcomes :
    LET rest == SubSeq(up[c], k + 1, Len(up[c]))
        x == [Then(c) EXCEPT !.me.step = "stop"]
        opens == [x EXCEPT !.me.st = "OPEN", !.me.step = "read", !.me.told = <<"open">>,
                             !.me.tracked = outcome = "open"]
        admits == k > 0 /\ outcome = "open"
    IN /\ srv[c].step = "request" /\ (k = 0 => up[c] = <<>> /\ cli[c].h = "closed")
       /\ LET y == CASE k = 0 -> [x EXCEPT !.me.h = "closed"]
                     [] outcome \in {"open", "serve"} -> SendFrame(opens, Control("101"))
                     [] outcome = "denied" -> SendFrame(x, Control("401"))
                     [] outcome = "bad" -> [SendFrame(x, Control("400")) EXCEPT !.me.h = "closed"]
                     [] OTHER -> x
          IN /\ srv' = [srv EXCEPT ![c] = y.me]
             /\ down' = [down EXCEPT ![c] = @ \o IF cli[c].h = "closed" THEN <<>> ELSE y.out]
       /\ up' = [up EXCEPT ![c] = rest]
       /\ wss' = [wss EXCEPT !.clients = IF admits THEN @ \cup {c} ELSE @]
       /\ UNCHANGED cli

SRead(c) ==
  \E k \in 0..Len(up[c]) :
    /\ srv[c].step = "read" /\ (k = 0 => up[c] = <<>> /\ cli[c].h = "closed")
    /\ SBecomes(c, IF k = 0 THEN SDoClose(Then(c), "abnormal")
                   ELSE FoldLeft(SHandleFrame, Then(c), SubSeq(up[c], 1, k)),
                SubSeq(up[c], k + 1, Len(up[c])))
    /\ UNCHANGED cli

SCalls(c, what) ==
  /\ srv[c].st = "OPEN"
  /\ what = "terminate" => "kill" \in WsHabits
  /\ SBecomes(c, CASE what = "send" -> SSend(Then(c)) [] what = "close" -> SClose(Then(c))
                   [] OTHER -> STerminate(Then(c)), up[c])
  /\ UNCHANGED cli

(* close of the server terminates the clients it has.                      *)
WssClose ==
  /\ wss.running /\ "down" \in WsHabits
  /\ wss' = [running |-> FALSE, clients |-> {}]
  /\ srv' = [c \in WsConns |-> IF c \in wss.clients THEN STerminate(Then(c)).me ELSE srv[c]]
  /\ UNCHANGED <<cli, up, down>>

-----------------------------------------------------------------------------
ClientMoves(c) == ReadAnswer(c) \/ CRead(c)
ServerMoves(c) == Accept(c) \/ Upgrade(c) \/ SRead(c)
WsNext ==
  \/ \E c \in WsConns :
       \/ \E ok \in BOOLEAN : Connect(c, ok)
       \/ ClientMoves(c) \/ ServerMoves(c)
       \/ \E what \in {"send", "close", "terminate", "ping"} : CCalls(c, what)
       \/ \E what \in {"send", "close", "terminate"} : SCalls(c, what)
  \/ WssClose
WsSpec == WsInit /\ [][WsNext]_wsVars

-----------------------------------------------------------------------------
UpTo(n) == [i \in 1..n |-> i]
IsPartOf(s, n) == Len(s) <= n /\ s = UpTo(Len(s))

(* Each side hears what the other sent, in order and once; and all of it,  *)
(* when it was the other's close frame that closed it.                     *)
MessagesHeardInOrder ==
  \A c \in WsConns :
    /\ IsPartOf(cli[c].heard, srv[c].sent) /\ IsPartOf(srv[c].heard, cli[c].sent)
    /\ cli[c].byPeer => Len(cli[c].heard) = srv[c].sent
    /\ srv[c].byPeer => Len(srv[c].heard) = cli[c].sent

(* A socket that was opened is closed once, and a client is not opened     *)
(* again after it was closed, unless it was closed before it was open.     *)
OpensAndClosesOnce ==
  \A c \in WsConns : \A told \in {cli[c].told, srv[c].told} :
    /\ Len(told) <= 2 /\ (Len(told) = 2 => told[1] = "open" /\ told[2] # "open")

(* The server tracks the sockets it opened that are open, and no others.   *)
ClientsAreTheOpen ==
  wss.clients = {c \in WsConns : srv[c].st = "OPEN" /\ srv[c].tracked}

(* A client that is closing will be closed: the server has its frame, or   *)
(* will, or an answer is on its way.                                       *)
ClosingEnds ==
  \A c \in WsConns :
    cli[c].st = "CLOSING" => \/ Control("close") \in ToSet(down[c]) \/ (Control("close") \in ToSet(up[c]) /\ srv[c].st = "OPEN")
                             \/ srv[c].told # <<>> /\ Last(srv[c].told) = "abnormal"
=============================================================================
