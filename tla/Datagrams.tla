------------------------------ MODULE Datagrams ------------------------------
(***************************************************************************)
(* node:dgram: sockets of one host that bind, connect, send, receive and   *)
(* close.  A receive is asked for once at a time and answered later; what  *)
(* a call leaves for later waits in the timers or among the callbacks the  *)
(* bridge has fired.  The network loses and reorders.                      *)
(***************************************************************************)
EXTENDS Integers, Sequences, FiniteSets, SequencesExt

CONSTANTS Peers,          \* the sockets
          Ports,          \* the ports a program asks for; a socket that does not gets its own, named like it
          Targets,        \* the ports it sends to
          MaxSent,        \* datagrams
          MaxDgCalls      \* calls of bind, connect, disconnect and close

VARIABLES udp,            \* the sockets
          timers,         \* setTimeout of 0, in order: <<kind, socket, remote>>
          fired,          \* callbacks of the bridge: <<kind, socket, number, failed>>
          flying,         \* datagrams on their way: [n, to]
          telling,        \* the sockets whose 'message' listener runs
          made_           \* [sent, calls, told], told the datagrams whose callback was called
dgVars == <<udp, timers, fired, flying, telling, made_>>

Unbound == "none"
DgInit ==
  /\ udp = [s \in Peers |-> [handle |-> FALSE, port |-> Unbound, receiving |-> FALSE, watched |-> FALSE, deaf |-> FALSE,
                             queue |-> <<>>, waits |-> <<>>, closed |-> FALSE, remote |-> Unbound,
                             heard |-> <<>>, listens |-> 0, closes |-> 0]]
  /\ timers = <<>> /\ fired = <<>> /\ flying = {} /\ telling = {}
  /\ made_ = [sent |-> 0, calls |-> 0, told |-> <<>>]

IsConnected(s) == udp[s].remote # Unbound
Own(s) == s
PortTaken(p) == \E t \in Peers : udp[t].handle /\ udp[t].port = p
(* A turn of a timer or callback begins when no listener runs.             *)
NewTurn == telling = {}
DgCalls == made_.calls < MaxDgCalls /\ made_' = [made_ EXCEPT !.calls = @ + 1]

-----------------------------------------------------------------------------
(* bind: 'listening', or 'error', comes with a timer. A socket that could  *)
(* not be bound keeps its handle.                                          *)
Bound(s, p) == [udp EXCEPT ![s].handle = TRUE, ![s].port = p]
Bind(s, p) ==
  /\ DgCalls /\ udp[s].port = Unbound
  /\ IF udp[s].closed THEN timers' = Append(timers, <<"error", s, Unbound>>) /\ UNCHANGED udp
     ELSE IF PortTaken(p) THEN timers' = Append(timers, <<"error", s, Unbound>>) /\ udp' = [udp EXCEPT ![s].handle = TRUE]
     ELSE timers' = Append(timers, <<"listening", s, Unbound>>) /\ udp' = Bound(s, p)
  /\ UNCHANGED <<fired, flying, telling>>

(* connect and send bind a socket that is not bound.                       *)
BoundAnyway(s) == IF udp[s].port = Unbound THEN Bound(s, Own(s)) ELSE udp
BindTimer(s) == IF udp[s].port = Unbound THEN Append(timers, <<"listening", s, Unbound>>) ELSE timers

ConnectTo(s, p) ==
  /\ DgCalls /\ ~udp[s].closed /\ ~IsConnected(s)
  /\ udp' = BoundAnyway(s)
  /\ timers' = Append(BindTimer(s), <<"connect", s, p>>)
  /\ UNCHANGED <<fired, flying, telling>>
Disconnect(s) ==
  /\ DgCalls /\ IsConnected(s) /\ udp' = [udp EXCEPT ![s].remote = Unbound]
  /\ UNCHANGED <<timers, fired, flying, telling>>

(* send goes out at once, waits for room, or fails; the callback is fired. *)
Send(s, p) ==
  LET n == made_.sent + 1 IN
  /\ ~udp[s].closed /\ made_.sent < MaxSent
  /\ IsConnected(s) => p = udp[s].remote
  /\ made_' = [made_ EXCEPT !.sent = n] /\ timers' = BindTimer(s)
  /\ \/ udp' = BoundAnyway(s) /\ fired' = Append(fired, <<"sent", s, n, FALSE>>) /\ flying' = flying \cup {[n |-> n, to |-> p]}
     \/ udp' = BoundAnyway(s) /\ fired' = Append(fired, <<"sent", s, n, TRUE>>) /\ UNCHANGED flying
     \/ udp' = [BoundAnyway(s) EXCEPT ![s].waits = Append(@, [n |-> n, to |-> p])] /\ UNCHANGED <<fired, flying>>
  /\ UNCHANGED telling
HasRoom(s) ==
  LET m == Head(udp[s].waits) IN
  /\ udp[s].waits # <<>>
  /\ udp' = [udp EXCEPT ![s].waits = Tail(@)]
  /\ fired' = Append(fired, <<"sent", s, m.n, FALSE>>) /\ flying' = flying \cup {m}
  /\ UNCHANGED <<timers, telling, made_>>

(* close: what is watched is cancelled, and sends that wait are forgotten. *)
CloseSocket(s) ==
  /\ DgCalls
  /\ IF udp[s].closed THEN UNCHANGED <<udp, timers>>
     ELSE /\ udp' = [udp EXCEPT ![s].closed = TRUE, ![s].receiving = FALSE, ![s].handle = FALSE, ![s].port = Unbound,
                                ![s].watched = FALSE, ![s].queue = <<>>, ![s].waits = <<>>]
          /\ timers' = Append(timers, <<"close", s, Unbound>>)
  /\ UNCHANGED <<fired, flying, telling>>

-----------------------------------------------------------------------------
(* _startReceiving: a datagram that is there is taken at once, its         *)
(* callback comes later.                                                   *)
StartReceiving(u, s) ==
  IF u[s].receiving \/ u[s].closed \/ ~u[s].handle THEN [udp |-> u, fires |-> <<>>]
  ELSE IF u[s].queue = <<>> THEN [udp |-> [u EXCEPT ![s].receiving = TRUE, ![s].watched = TRUE], fires |-> <<>>]
  ELSE [udp |-> [u EXCEPT ![s].receiving = TRUE, ![s].queue = Tail(@)], fires |-> << <<"message", s, Head(u[s].queue), FALSE>> >>]

TimerOf(t) ==
  LET s == t[2]
      u == CASE t[1] = "listening" /\ ~udp[s].closed -> [udp EXCEPT ![s].listens = @ + 1]
             [] t[1] = "connect" /\ ~udp[s].closed -> [udp EXCEPT ![s].remote = t[3]]
             [] t[1] = "close" -> [udp EXCEPT ![s].closes = @ + 1]
             [] OTHER -> udp
      r == IF t[1] = "listening" THEN StartReceiving(u, s) ELSE [udp |-> u, fires |-> <<>>]
  IN udp' = r.udp /\ fired' = fired \o r.fires
TimerFires_ ==
  /\ NewTurn /\ timers # <<>> /\ timers' = Tail(timers) /\ TimerOf(Head(timers))
  /\ UNCHANGED <<flying, telling, made_>>

(* A datagram arrives where a socket has its port, or is lost.             *)
Comes(m) ==
  /\ m \in flying /\ flying' = flying \ {m}
  /\ \/ UNCHANGED <<udp, fired>>
     \/ \E s \in Peers :
          /\ udp[s].handle /\ udp[s].port = m.to
          /\ IF udp[s].watched
             THEN udp' = [udp EXCEPT ![s].watched = FALSE] /\ fired' = Append(fired, <<"message", s, m.n, FALSE>>)
             ELSE udp' = [udp EXCEPT ![s].queue = Append(@, m.n)] /\ UNCHANGED fired
  /\ UNCHANGED <<timers, telling, made_>>
(* The answer of an earlier send, that nobody was there, is an error here. *)
ReceiveFails(s) ==
  /\ udp[s].watched /\ udp' = [udp EXCEPT ![s].watched = FALSE]
  /\ fired' = Append(fired, <<"message", s, 0, TRUE>>)
  /\ UNCHANGED <<timers, flying, telling, made_>>

-----------------------------------------------------------------------------
(* A bug: the receive is over only when the listener has returned.         *)
OnMsgLate(f) ==
  LET s == f[2]
      open == ~udp[s].closed /\ udp[s].handle
  IN /\ udp' = IF ~open THEN udp ELSE IF f[4] THEN [udp EXCEPT ![s].deaf = TRUE] ELSE [udp EXCEPT ![s].heard = Append(@, f[3])]
     /\ telling' = IF open /\ ~f[4] THEN {s} ELSE {}
     /\ UNCHANGED made_

(* onMsg: the receive is over, the listener is told, and then the next one *)
(* is asked for, unless this was an error or the socket is closed by now.  *)
OnMsg(f) ==
  LET s == f[2]
      over == [udp EXCEPT ![s].receiving = FALSE]
      open == ~udp[s].closed /\ udp[s].handle
  IN /\ udp' = IF ~open THEN over ELSE IF f[4] THEN [over EXCEPT ![s].deaf = TRUE] ELSE [over EXCEPT ![s].heard = Append(@, f[3])]
     /\ telling' = IF open /\ ~f[4] THEN {s} ELSE {}
     /\ UNCHANGED made_
OnSent(f) == made_' = [made_ EXCEPT !.told = Append(@, f[3])] /\ UNCHANGED <<udp, telling>>
Fires ==
  /\ NewTurn /\ fired # <<>> /\ fired' = Tail(fired)
  /\ IF Head(fired)[1] = "message" THEN OnMsg(Head(fired)) ELSE OnSent(Head(fired))
  /\ UNCHANGED <<timers, flying>>
ListenerDone(s) ==
  LET r == IF udp[s].port # Unbound THEN StartReceiving(udp, s) ELSE [udp |-> udp, fires |-> <<>>]
  IN /\ s \in telling /\ telling' = {} /\ udp' = r.udp /\ fired' = fired \o r.fires
     /\ UNCHANGED <<timers, flying, made_>>

DgNext ==
  \/ \E s \in Peers :
       \/ (\E p \in Ports : Bind(s, p)) \/ (\E p \in Targets : ConnectTo(s, p) \/ Send(s, p)) \/ Disconnect(s) \/ CloseSocket(s)
       \/ HasRoom(s) \/ ReceiveFails(s) \/ ListenerDone(s)
  \/ TimerFires_ \/ Fires
  \/ \E m \in flying : Comes(m)
DgSpec == DgInit /\ [][DgNext]_dgVars

-----------------------------------------------------------------------------
(* A socket that listens has exactly one receive on its way, in the kernel *)
(* or fired, until a receive fails; a listener that closes, sends or binds *)
(* makes no second one.                                                    *)
OneReceive ==
  \A s \in Peers :
    LET fires == {i \in DOMAIN fired : fired[i][1] = "message" /\ fired[i][2] = s}
        asked == Cardinality(fires) + (IF udp[s].watched THEN 1 ELSE 0)
    IN ~udp[s].closed => asked = IF udp[s].listens > 0 /\ ~udp[s].deaf /\ s \notin telling THEN 1 ELSE 0

(* 'listening' comes once and before any message, 'close' once, and no     *)
(* message is heard twice.                                                 *)
InTheirOrder ==
  \A s \in Peers :
    /\ udp[s].listens <= 1 /\ (udp[s].heard # <<>> => udp[s].listens = 1)
    /\ udp[s].closes <= 1 /\ (udp[s].closes = 1 => udp[s].closed)
    /\ IsInjective(udp[s].heard)

(* The callback of a send is called once, or it is on its way, as long as  *)
(* the socket is not closed.                                               *)
SendersTold ==
  /\ IsInjective(made_.told)
  /\ (\A s \in Peers : ~udp[s].closed) =>
       \A n \in 1..made_.sent : \/ n \in ToSet(made_.told)
                                \/ \E i \in DOMAIN fired : fired[i][1] = "sent" /\ fired[i][3] = n
                                \/ \E s \in Peers, i \in 1..MaxSent : i \in DOMAIN udp[s].waits /\ udp[s].waits[i].n = n
=============================================================================
