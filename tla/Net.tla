-------------------------------- MODULE Net --------------------------------
(***************************************************************************)
(* TCP sockets and servers of the engine (builtins/js/net.js).  A scene is *)
(* one socket that connects, writes, reads and is closed in every order,   *)
(* or one server with the connections it accepts.  Handlers run to their   *)
(* end; what they give to nextTick waits in ticks, and user code runs      *)
(* between them and inside the callbacks of writes and of 'drain'.         *)
(***************************************************************************)
EXTENDS Naturals, Sequences, SequencesExt, FiniteSets

CONSTANTS SocketScenes,  \* "socket", "server"
          MaxWrites,     \* writes of the program
          ChunkSize,     \* how many sends a chunk takes at most
          HighWater,     \* writableHighWaterMark, in sends
          MaxChunks,     \* chunks the peer sends before it ends
          MaxPeers,      \* connections to the server
          MaxListens     \* calls of listen

VARIABLES netScene,
          socket,        \* the fields of the Socket
          wq,            \* its write queue: entries [id, left]
          netTicks,      \* the nextTick closures
          user,          \* what is left of the function that called user code
          netIo,         \* native operations under way: connect, read, wait
          peer,          \* what the peer has: chunks received, FIN, chunks sent
          told,          \* write callbacks: id |-> what they were called with
          events,        \* what the socket has emitted
          server         \* the Server, its clients and the waiting connections

netVars == <<netScene, socket, wq, netTicks, user, netIo, peer, told, events, server>>

Socket == [handle |-> FALSE, connecting |-> FALSE, connected |-> FALSE, destroyed |-> FALSE,
           readEnded |-> FALSE, writeEnded |-> FALSE, reading |-> FALSE, paused |-> FALSE,
           waiting |-> FALSE, needDrain |-> FALSE, ending |-> FALSE, finished |-> FALSE,
           halfOpen |-> FALSE, timer |-> FALSE, timeout |-> FALSE]

NetInit ==
  /\ netScene \in SocketScenes
  /\ \E half \in (IF netScene = "socket" THEN BOOLEAN ELSE {FALSE}) :
        socket = [Socket EXCEPT !.halfOpen = half]
  /\ wq = <<>> /\ netTicks = <<>> /\ user = <<>> /\ netIo = {}
  /\ peer = [got |-> <<>>, fin |-> FALSE, sent |-> 0]
  /\ told = [w \in 1..MaxWrites |-> <<>>] /\ events = <<>>
  /\ server = [listening |-> FALSE, closed |-> FALSE, accepting |-> FALSE, retry |-> FALSE,
               count |-> 0, clients |-> {}, born |-> 0, listens |-> 0]

(* User code runs between the turns, and where a function calls it.        *)
UserRuns(scene_) == netScene = scene_ /\ (user # <<>> => Head(user)[1] = "called")
Quiet == netScene = "socket" /\ user = <<>> /\ netTicks = <<>>
Resumes(step) == user # <<>> /\ Head(user)[1] = step
Rest == Tail(user)
Known == socket.connecting \/ socket.connected \/ events # <<>>

-----------------------------------------------------------------------------
(* destroy: the fields, what is emitted, and the tick that answers what    *)
(* was queued.                                                             *)
Dead(s) == [s EXCEPT !.destroyed = TRUE, !.reading = FALSE, !.handle = FALSE, !.needDrain = FALSE,
                     !.timer = FALSE]
CloseEvents(err) == (IF err THEN <<"error">> ELSE <<>>) \o <<"close">>
Ids(q) == [i \in DOMAIN q |-> q[i].id]
Discarded(q) == IF q = <<>> THEN <<>> ELSE << <<"discarded", Ids(q)>> >>

Destroyed_(s, err) ==
  IF s.destroyed THEN socket' = s /\ UNCHANGED <<wq, netTicks, events>>
  ELSE /\ socket' = Dead(s) /\ wq' = <<>>
       /\ netTicks' = netTicks \o Discarded(wq)
       /\ events' = events \o CloseEvents(err)

Destroy(err) ==
  /\ UserRuns("socket") /\ Known /\ Destroyed_(socket, err)
  /\ UNCHANGED <<netScene, user, netIo, peer, told, server>>

(* The queue after `room` sends, and the writes that have left entirely.   *)
Size(q) == FoldSeq(LAMBDA e, n : e.left + n, 0, q)
Sent(q, room) == CHOOSE n \in 0..Len(q) : /\ Size(SubSeq(q, 1, n)) <= room
                                          /\ n = Len(q) \/ Size(SubSeq(q, 1, n + 1)) > room
\* Mutant: the bytes sent are not taken off the queue.
LeftStays(q, room) == q

Left(q, room) ==
  LET n == Sent(q, room)
      rest == SubSeq(q, n + 1, Len(q))
  IN IF rest = <<>> THEN rest
     ELSE <<[rest[1] EXCEPT !.left = @ - (room - Size(SubSeq(q, 1, n)))]>> \o Tail(rest)

(* _flushWrites: the kernel takes all of the queue; or some, and the       *)
(* socket waits for room; or a send fails, and the writes that have left   *)
(* in this call are not answered.                                          *)
Flush(s, q, least, io, adding) ==
  IF s.waiting \/ s.destroyed \/ ~s.handle
  THEN /\ socket' = [s EXCEPT !.needDrain = @ \/ (adding /\ Size(q) >= HighWater)]
       /\ wq' = q /\ netIo' = io /\ UNCHANGED <<netTicks, peer, events>>
  ELSE \E room \in (IF q = <<>> THEN {0} ELSE least..Size(q)) :
         LET left == Left(q, room)
             done == SubSeq(Ids(q), 1, Sent(q, room))
             full == adding /\ Size(left) >= HighWater
             tick == IF done # <<>> \/ left = <<>> THEN << <<"flushed", done>> >> ELSE <<>>
         IN /\ peer' = [peer EXCEPT !.got = @ \o done]
            /\ \/ /\ socket' = [s EXCEPT !.waiting = left # <<>>, !.needDrain = @ \/ full]
                  /\ wq' = left /\ netTicks' = netTicks \o tick
                  /\ netIo' = IF left = <<>> THEN io ELSE io \cup {"wait"}
                  /\ UNCHANGED events
               \/ /\ left # <<>>
                  /\ socket' = Dead(s) /\ wq' = <<>> /\ netIo' = io
                  /\ netTicks' = netTicks \o Discarded(left)
                  /\ events' = events \o CloseEvents(TRUE)

(* write: EPIPE on the next tick, or queued and flushed.                   *)
Writes_(w) ==
  /\ UserRuns("socket") /\ Known
  /\ told[w] = <<>> /\ \A v \in 1..w - 1 : told[v] # <<>>
  /\ told' = [told EXCEPT ![w] = <<"asked">>]
  /\ IF socket.destroyed \/ socket.writeEnded \/ ~(socket.handle \/ socket.connecting)
     THEN /\ netTicks' = Append(netTicks, <<"discarded", <<w>>>>)
          /\ UNCHANGED <<socket, wq, netIo, peer, events>>
     ELSE Flush(socket, Append(wq, [id |-> w, left |-> ChunkSize]), 0, netIo, TRUE)
  /\ UNCHANGED <<netScene, user, server>>

\* Mutant: end leaves the finish to the next flush.
EndsSilent ==
  /\ UserRuns("socket") /\ Known /\ ~socket.writeEnded
  /\ socket' = [socket EXCEPT !.writeEnded = TRUE, !.ending = TRUE]
  /\ UNCHANGED <<netScene, wq, user, netTicks, netIo, peer, told, events, server>>

(* end: with nothing queued the socket finishes on the next tick.          *)
Ends_ ==
  /\ UserRuns("socket") /\ Known /\ ~socket.writeEnded
  /\ socket' = [socket EXCEPT !.writeEnded = TRUE, !.ending = TRUE]
  /\ netTicks' = IF wq = <<>> /\ ~socket.connecting THEN Append(netTicks, <<"end", <<>>>>) ELSE netTicks
  /\ UNCHANGED <<netScene, wq, user, netIo, peer, told, events, server>>

(* The closures of nextTick.  That of a flush emits 'drain', calls the     *)
(* callbacks, and finishes, by what it found at its start.                 *)
NextTick ==
  /\ netScene = "socket" /\ user = <<>> /\ netTicks # <<>>
  /\ netTicks' = Tail(netTicks)
  /\ LET t == Head(netTicks)
         empty == wq = <<>> /\ ~socket.destroyed
         drains == t[1] = "flushed" /\ empty /\ socket.needDrain /\ ~socket.ending
         calls == [i \in DOMAIN t[2] |-> <<"answer", t[2][i], IF t[1] = "flushed" THEN "ok" ELSE "failed">>]
     IN /\ user' = (IF drains THEN << <<"called">> >> ELSE <<>>) \o calls
                     \o CASE t[1] = "end" /\ empty -> << <<"finish">> >>
                          [] t[1] = "flushed" /\ empty -> << <<"finishIfEnding">> >>
                          [] OTHER -> <<>>
        /\ socket' = IF drains THEN [socket EXCEPT !.needDrain = FALSE] ELSE socket
        /\ events' = IF drains THEN Append(events, "drain") ELSE events
  /\ UNCHANGED <<netScene, wq, netIo, peer, told, server>>

Answer_ ==
  /\ Resumes("answer")
  /\ told' = [told EXCEPT ![Head(user)[2]] = Append(@, Head(user)[3])]
  /\ user' = << <<"called">> >> \o Rest
  /\ UNCHANGED <<netScene, socket, wq, netTicks, netIo, peer, events, server>>

Returned_ ==
  /\ Resumes("called") /\ user' = Rest
  /\ UNCHANGED <<netScene, socket, wq, netTicks, netIo, peer, told, events, server>>

\* Mutant: 'finish' does not ask again whether the queue is empty.
FinishAnyway ==
  /\ Resumes("finish") \/ Resumes("finishIfEnding")
  /\ user' = Rest
  /\ IF socket.finished \/ (Resumes("finishIfEnding") /\ ~socket.ending)
     THEN UNCHANGED <<socket, wq, netTicks, peer, events>>
     ELSE /\ peer' = [peer EXCEPT !.fin = @ \/ socket.handle]
          /\ socket' = [socket EXCEPT !.finished = TRUE, !.ending = FALSE]
          /\ events' = Append(events, "finish")
          /\ UNCHANGED <<wq, netTicks>>
  /\ UNCHANGED <<netScene, netIo, told, server>>

(* _wqFinish: once; a FIN, 'finish', and the end of a socket that is not   *)
(* half-open or was ended by the peer.                                     *)
Finish_ ==
  /\ Resumes("finish") \/ Resumes("finishIfEnding")
  /\ user' = Rest
  /\ IF socket.finished \/ (Resumes("finishIfEnding") /\ ~(socket.ending /\ wq = <<>>))
     THEN UNCHANGED <<socket, wq, netTicks, peer, events>>
     ELSE LET s == [socket EXCEPT !.finished = TRUE, !.ending = FALSE]
              dies == (s.readEnded \/ ~s.halfOpen) /\ ~s.destroyed
          IN /\ peer' = [peer EXCEPT !.fin = @ \/ s.handle]
             /\ socket' = IF dies THEN Dead(s) ELSE s
             /\ wq' = IF dies THEN <<>> ELSE wq
             /\ netTicks' = IF dies THEN netTicks \o Discarded(wq) ELSE netTicks
             /\ events' = events \o <<"finish">> \o (IF dies THEN CloseEvents(FALSE) ELSE <<>>)
  /\ UNCHANGED <<netScene, netIo, told, server>>

-----------------------------------------------------------------------------
(* Connecting and reading.                                                 *)
Connect ==
  /\ UserRuns("socket") /\ ~Known
  /\ socket' = [socket EXCEPT !.connecting = TRUE] /\ netIo' = {"connect"}
  /\ UNCHANGED <<netScene, wq, netTicks, user, peer, told, events, server>>

(* The connect callback emits 'connect', starts reading, and flushes what  *)
(* was written meanwhile.                                                  *)
Connected ==
  /\ Quiet /\ "connect" \in netIo /\ netIo' = netIo \ {"connect"}
  /\ IF socket.destroyed THEN UNCHANGED <<socket, user, events>>
     ELSE /\ socket' = [socket EXCEPT !.handle = TRUE, !.connecting = FALSE, !.connected = TRUE]
          /\ events' = Append(events, "connect")
          /\ user' = << <<"called">>, <<"start">> >>
  /\ UNCHANGED <<netScene, wq, netTicks, peer, told, server>>

Starts_ ==
  /\ Resumes("start") /\ user' = Rest
  /\ LET reads == ~socket.reading /\ ~socket.destroyed /\ ~socket.paused
     IN Flush([socket EXCEPT !.reading = @ \/ reads], wq, 0,
              IF reads THEN netIo \cup {"read"} ELSE netIo, FALSE)
  /\ UNCHANGED <<netScene, told, server>>

(* A refused connection: 'error' and 'close', and yet not destroyed.       *)
Refused ==
  /\ Quiet /\ "connect" \in netIo /\ ~socket.destroyed
  /\ netIo' = netIo \ {"connect"}
  /\ socket' = [socket EXCEPT !.connecting = FALSE, !.needDrain = @ /\ wq = <<>>]
  /\ wq' = <<>> /\ netTicks' = Discarded(wq)
  /\ events' = events \o CloseEvents(TRUE)
  /\ UNCHANGED <<netScene, user, peer, told, server>>

(* waitIo: there is room, or the wait fails.                               *)
Room ==
  /\ Quiet /\ "wait" \in netIo
  /\ Flush([socket EXCEPT !.waiting = FALSE], wq, 1, netIo \ {"wait"}, FALSE)
  /\ UNCHANGED <<netScene, user, told, server>>
WaitFails ==
  /\ Quiet /\ "wait" \in netIo
  /\ netIo' = netIo \ {"wait"} /\ Destroyed_([socket EXCEPT !.waiting = FALSE], TRUE)
  /\ UNCHANGED <<netScene, user, peer, told, server>>

(* readOne: a chunk is emitted, and then the next read begins, unless the  *)
(* listener paused or destroyed the socket.                                *)
Data ==
  /\ Quiet /\ "read" \in netIo /\ peer.sent < MaxChunks
  /\ peer' = [peer EXCEPT !.sent = @ + 1] /\ netIo' = netIo \ {"read"}
  /\ IF socket.destroyed THEN UNCHANGED <<socket, events, user>>
     ELSE /\ events' = Append(events, "data")
          /\ socket' = [socket EXCEPT !.timer = socket.timeout]
          /\ user' = << <<"called">>, <<"readOne">> >>
  /\ UNCHANGED <<netScene, wq, netTicks, told, server>>

ReadOne ==
  /\ Resumes("readOne") /\ user' = Rest
  /\ LET goes == ~socket.destroyed /\ socket.handle /\ ~socket.paused
     IN /\ socket' = [socket EXCEPT !.reading = goes]
        /\ netIo' = IF goes THEN netIo \cup {"read"} ELSE netIo
  /\ UNCHANGED <<netScene, wq, netTicks, peer, told, events, server>>

(* _onReadEOF: 'end', and unless half-open destroyed at once, with         *)
(* whatever the queue still holds.                                         *)
ReadEof ==
  /\ Quiet /\ "read" \in netIo /\ netIo' = netIo \ {"read"}
  /\ IF socket.destroyed THEN UNCHANGED <<socket, events, user>>
     ELSE /\ socket' = [socket EXCEPT !.readEnded = TRUE, !.reading = FALSE]
          /\ events' = Append(events, "end")
          /\ user' = << <<"called">>, <<"eof">> >>
  /\ UNCHANGED <<netScene, wq, netTicks, peer, told, server>>
EofCloses ==
  /\ Resumes("eof") /\ user' = Rest
  /\ IF socket.halfOpen THEN UNCHANGED <<socket, wq, netTicks, events>>
     ELSE Destroyed_(socket, FALSE)
  /\ UNCHANGED <<netScene, netIo, peer, told, server>>

Pause_ ==
  /\ UserRuns("socket") /\ Known /\ socket' = [socket EXCEPT !.paused = TRUE]
  /\ UNCHANGED <<netScene, wq, netTicks, user, netIo, peer, told, events, server>>
\* Mutant: resume starts a read without asking whether one runs.
ResumeAgain ==
  /\ UserRuns("socket") /\ Known
  /\ LET starts == ~socket.destroyed /\ socket.handle /\ ~socket.readEnded
     IN /\ socket' = [socket EXCEPT !.paused = FALSE, !.reading = @ \/ starts]
        /\ netIo' = IF starts THEN netIo \cup {"read"} ELSE netIo
  /\ UNCHANGED <<netScene, wq, netTicks, user, peer, told, events, server>>

Resume_ ==
  /\ UserRuns("socket") /\ Known
  /\ LET starts == ~socket.reading /\ ~socket.destroyed /\ socket.handle /\ ~socket.readEnded
     IN /\ socket' = [socket EXCEPT !.paused = FALSE, !.reading = @ \/ starts]
        /\ netIo' = IF starts THEN netIo \cup {"read"} ELSE netIo
  /\ UNCHANGED <<netScene, wq, netTicks, user, peer, told, events, server>>

(* setTimeout: an idle socket is told, and goes on.                        *)
SetTimeout_ ==
  /\ UserRuns("socket") /\ Known /\ ~socket.destroyed
  /\ socket' = [socket EXCEPT !.timeout = TRUE, !.timer = TRUE]
  /\ UNCHANGED <<netScene, wq, netTicks, user, netIo, peer, told, events, server>>
TimesOut ==
  /\ Quiet /\ socket.timer /\ "timeout" \notin ToSet(events)
  /\ socket' = [socket EXCEPT !.timer = FALSE] /\ events' = Append(events, "timeout")
  /\ UNCHANGED <<netScene, wq, netTicks, user, netIo, peer, told, server>>

-----------------------------------------------------------------------------
(* The server.                                                             *)
noServer == <<netScene, socket, wq, netTicks, netIo, peer, told, events>>
AcceptLoop(sv) == [sv EXCEPT !.accepting = @ \/ (sv.listening /\ ~sv.closed)]

Listen_ ==
  /\ UserRuns("server") /\ ~server.listening /\ server.listens < MaxListens
  /\ server' = AcceptLoop([server EXCEPT !.listening = TRUE, !.listens = @ + 1])
  /\ UNCHANGED <<user, noServer>>

(* tcpAcceptNb calls back: a connection, or an error and a retry in 10 ms. *)
Accepts ==
  /\ netScene = "server" /\ user = <<>> /\ server.accepting /\ server.born < MaxPeers
  /\ LET sv == [server EXCEPT !.accepting = FALSE, !.born = @ + 1]
     IN IF server.closed \/ ~server.listening THEN server' = sv /\ UNCHANGED user
        ELSE \/ server' = [sv EXCEPT !.retry = TRUE] /\ UNCHANGED user
             \/ /\ server' = [sv EXCEPT !.count = @ + 1, !.clients = @ \cup {sv.born}]
                /\ user' = << <<"called">>, <<"accept">> >>
  /\ UNCHANGED noServer
AcceptAgain ==
  /\ \/ Resumes("accept") /\ user' = Rest /\ server' = AcceptLoop(server)
     \/ /\ user = <<>> /\ server.retry /\ UNCHANGED user
        /\ server' = AcceptLoop([server EXCEPT !.retry = FALSE])
  /\ UNCHANGED noServer

ClientCloses(c) ==
  /\ UserRuns("server") /\ c \in server.clients
  /\ server' = [server EXCEPT !.count = @ - 1, !.clients = @ \ {c}]
  /\ UNCHANGED <<user, noServer>>

ServerCloses ==
  /\ UserRuns("server") /\ server.listening
  /\ server' = [server EXCEPT !.listening = FALSE, !.closed = TRUE]
  /\ UNCHANGED <<user, noServer>>

NetTurn == NextTick \/ Answer_ \/ Returned_ \/ Finish_ \/ Starts_ \/ ReadOne \/ EofCloses \/ Room
           \/ Connected \/ AcceptAgain
NetNext ==
  \/ NetTurn \/ Connect \/ Refused \/ WaitFails \/ Data \/ ReadEof \/ Pause_ \/ Resume_
  \/ SetTimeout_ \/ TimesOut \/ Ends_ \/ Listen_ \/ Accepts \/ ServerCloses
  \/ \E err \in BOOLEAN : Destroy(err)
  \/ \E w \in 1..MaxWrites : Writes_(w)
  \/ \E c \in 1..MaxPeers : ClientCloses(c)

(* Ticks run, native calls answer, and a peer that is slow reads on.       *)
NetFairness == WF_netVars(NetTurn)
NetSpec == NetInit /\ [][NetNext]_netVars /\ NetFairness

-----------------------------------------------------------------------------
Increasing_(s) == \A i, j \in DOMAIN s : i < j => s[i] < s[j]

(* The chunks leave in the order of their writes, each write is answered   *)
(* at most once, and with success only when all of it has left.            *)
WritesInOrder ==
  /\ Increasing_(peer.got)
  /\ \A w \in DOMAIN told : /\ Len(told[w]) <= 2
                            /\ "ok" \in ToSet(told[w]) => w \in ToSet(peer.got)

(* 'finish' and the FIN come after the bytes: a connected socket that      *)
(* finishes has sent every write that was not refused, whatever is written *)
(* and ended from the callbacks of earlier writes.                         *)
FinishIsWhole ==
  [][socket'.finished /\ ~socket.finished /\ socket.connected /\ ~socket.destroyed =>
       /\ peer'.fin
       /\ \A w \in DOMAIN told : "asked" \in ToSet(told[w]) =>
            \/ w \in ToSet(peer'.got)
            \/ "failed" \in ToSet(told[w])
            \/ \E i \in DOMAIN netTicks : /\ netTicks[i][1] = "discarded"
                                          /\ w \in ToSet(netTicks[i][2])]_netVars

(* One read loop runs: never two, and none is lost by a pause and a        *)
(* resume, from a listener or from outside.  A server that listens is      *)
(* waiting for a connection, or for the end of a pause after an error.     *)
OneReadLoop ==
  /\ socket.handle => (socket.reading <=> ("read" \in netIo \/ <<"readOne">> \in ToSet(user)))
  /\ ~("read" \in netIo /\ <<"readOne">> \in ToSet(user))
  /\ socket.connected /\ ~socket.paused /\ ~socket.readEnded /\ ~socket.destroyed
       /\ <<"start">> \notin ToSet(user) => socket.reading
  /\ server.listening /\ user = <<>> => server.accepting \/ server.retry

(* end() is carried through: the socket finishes or is destroyed, and no   *)
(* wait for room is lost on the way.                                       *)
EndCompletes == socket.writeEnded /\ socket.connected ~> socket.finished \/ socket.destroyed

(* "A chunk's callback fires once all of its bytes have left": a write     *)
(* whose bytes have left is answered, also when a later send fails.        *)
CallbackFires ==
  netScene = "socket" /\ user = <<>> /\ netTicks = <<>> =>
    \A w \in ToSet(peer.got) : "ok" \in ToSet(told[w])
=============================================================================
