----------------------------- MODULE TlsSockets -----------------------------
(***************************************************************************)
(* A tls server that accepts one connection at a time, with its handshake, *)
(* and the sockets of its clients and of programs that connect: how they   *)
(* read, time out and close.  Their writes are those of Net.               *)
(***************************************************************************)
EXTENDS Integers, Sequences, FiniteSets, SequencesExt

CONSTANTS Outgoing,       \* sockets that connect
          Incoming,       \* those of connections that come to the server
          HalfOpen,       \* those that allow it
          PauseOnConnect,
          MaxTlsCalls,    \* calls of the program
          MaxChunksIn,    \* pieces that come to a socket
          Destroyable,    \* states in which a socket is destroyed
          Throwing        \* what does not go on because a listener throws

VARIABLES tls,            \* of each socket: [st, handle, reading, paused, ended, inFlight, timer, told, comes, asked]
          tserver,        \* [st, loop, count, coming]: loop is the bag of what it waits for
          after,          \* what goes on when the listener returns: [do, on]
          tcalls
tlsVars == <<tls, tserver, after, tcalls>>

Sockets_ == Outgoing \cup Incoming
NewSocket == [st |-> "new", handle |-> "none", reading |-> FALSE, paused |-> FALSE, ended |-> FALSE, inFlight |-> 0,
              timer |-> "off", told |-> <<>>, comes |-> 0, asked |-> FALSE]
TlsInit ==
  /\ tls = [s \in Sockets_ |-> NewSocket]
  /\ tserver = [st |-> "new", loop |-> <<>>, count |-> 0, coming |-> "none"]
  /\ after = <<>> /\ tcalls = 0

(* A call of the program, by a listener or between callbacks.              *)
TlsCalls == tcalls < MaxTlsCalls /\ tcalls' = tcalls + 1
(* The next callback comes when none is running.                           *)
TlsTurn == after = <<>> /\ UNCHANGED tcalls
Then(do, s) == <<[do |-> do, on |-> s]>>

TlsReadOne(k) ==
  IF k.st = "destroyed" \/ k.handle # "open" \/ k.paused THEN [k EXCEPT !.reading = FALSE]
  ELSE [k EXCEPT !.reading = TRUE, !.inFlight = @ + 1, !.asked = TRUE]
(* A bug: a read is begun though one is under way.                         *)
StartReadingAgain(k) == IF k.st = "destroyed" \/ k.handle # "open" THEN k ELSE TlsReadOne(k)

StartReading_(k) == IF k.reading \/ k.st = "destroyed" \/ k.handle # "open" THEN k ELSE TlsReadOne(k)
ResetTimeout(k) == IF k.timer = "off" THEN k ELSE [k EXCEPT !.timer = "armed"]
TlsDestroyed(k) ==
  IF k.st = "destroyed" THEN k
  ELSE [k EXCEPT !.st = "destroyed", !.reading = FALSE, !.timer = "off", !.told = Append(@, "close"),
                 !.handle = IF @ = "open" THEN "closed" ELSE @]
(* A connection of the server that is closed is no longer counted.         *)
CountWithout(s) ==
  tserver' = IF s \in Incoming /\ tls[s].st # "destroyed" THEN [tserver EXCEPT !.count = @ - 1] ELSE tserver

-----------------------------------------------------------------------------
(* A program connects; its listeners of 'secureConnect' go first.          *)
TlsConnect(s) ==
  /\ TlsCalls /\ tls[s].st = "new"
  /\ tls' = [tls EXCEPT ![s].st = "connecting", ![s].handle = "pending"] /\ UNCHANGED <<tserver, after>>
Connected_(s) ==
  /\ TlsTurn /\ tls[s].handle = "pending"
  /\ \/ /\ tls' = [tls EXCEPT ![s] = IF @.st = "destroyed" THEN [@ EXCEPT !.handle = "open"]
                                    ELSE [@ EXCEPT !.st = "open", !.handle = "open", !.told = Append(@, "secureConnect")]]
        /\ after' = IF tls[s].st = "destroyed" THEN <<>> ELSE Then("start", s)
     \/ /\ tls' = [tls EXCEPT ![s] = IF @.st = "destroyed" THEN [@ EXCEPT !.handle = "none"]
                                    ELSE [@ EXCEPT !.st = "failed", !.handle = "none", !.told = @ \o <<"error", "close">>]]
        /\ UNCHANGED after
  /\ UNCHANGED tserver

(* The accept loop: one connection comes and shakes hands before the next  *)
(* one is taken.                                                           *)
TlsAcceptLoop(srv) == IF srv.st # "listening" THEN srv ELSE [srv EXCEPT !.loop = Append(@, "accept")]
Without(loop, what) == SubSeq(loop, 1, SelectInSeq(loop, LAMBDA x : x = what) - 1)
                         \o SubSeq(loop, SelectInSeq(loop, LAMBDA x : x = what) + 1, Len(loop))
AwaitsNow(what) == Contains(tserver.loop, what)
Got(what) == [tserver EXCEPT !.loop = Without(@, what)]
TlsListen ==
  /\ TlsCalls /\ tserver.st = "new"
  /\ tserver' = TlsAcceptLoop([tserver EXCEPT !.st = "listening"]) /\ UNCHANGED <<tls, after>>
TlsAccepts ==
  /\ TlsTurn /\ AwaitsNow("accept")
  /\ \/ tserver' = IF tserver.st # "listening" THEN Got("accept") ELSE [Got("accept") EXCEPT !.loop = Append(@, "timer")]
     \/ \E s \in Incoming :
          /\ tls[s].st = "new" /\ tserver.coming = "none"
          /\ tserver' = IF tserver.st # "listening" THEN Got("accept")
                        ELSE [Got("accept") EXCEPT !.loop = Append(@, "handshake"), !.coming = s]
  /\ UNCHANGED <<tls, after>>
TriesAgain == TlsTurn /\ AwaitsNow("timer") /\ tserver' = TlsAcceptLoop(Got("timer")) /\ UNCHANGED <<tls, after>>
Handshaken ==
  LET s == tserver.coming srv == [Got("handshake") EXCEPT !.coming = "none"] IN
  /\ TlsTurn /\ AwaitsNow("handshake")
  /\ \/ /\ tserver.st = "closed" /\ tserver' = srv
        /\ tls' = [tls EXCEPT ![s].st = "refused", ![s].handle = "closed"] /\ UNCHANGED after
     \/ /\ tserver.st # "closed" /\ tserver' = srv
        /\ tls' = [tls EXCEPT ![s].st = "refused", ![s].handle = "closed"] /\ after' = Then("accept", s)
     \/ /\ tserver.st # "closed" /\ tserver' = [srv EXCEPT !.count = @ + 1]
        /\ tls' = [tls EXCEPT ![s].st = "open", ![s].handle = "open"] /\ after' = Then("given", s)
TlsServerClose ==
  /\ TlsCalls /\ tserver.st = "listening"
  /\ tserver' = [tserver EXCEPT !.st = "closed"] /\ UNCHANGED <<tls, after>>

-----------------------------------------------------------------------------
(* A read is answered: the timer begins anew, and the next one follows     *)
(* when the listeners return; at the end, the socket is destroyed unless   *)
(* it stays half open.                                                     *)
TlsAnswers(s) ==
  LET k == ResetTimeout([tls[s] EXCEPT !.inFlight = @ - 1]) IN
  /\ TlsTurn /\ tls[s].inFlight > 0
  /\ \/ tls[s].st = "destroyed" /\ tls' = [tls EXCEPT ![s].inFlight = @ - 1] /\ UNCHANGED after
     \/ /\ tls[s].st # "destroyed" /\ k.comes < MaxChunksIn
        /\ tls' = [tls EXCEPT ![s] = [k EXCEPT !.comes = @ + 1, !.told = Append(@, "data")]]
        /\ after' = Then("next", s)
     \/ /\ tls[s].st # "destroyed"
        /\ tls' = [tls EXCEPT ![s] = [k EXCEPT !.ended = TRUE, !.reading = FALSE, !.told = Append(@, "end")]]
        /\ after' = Then("ended", s)
  /\ UNCHANGED tserver

(* The listeners return and the caller goes on.                            *)
TlsReturn ==
  LET s == after[1].on do == after[1].do IN
  /\ after # <<>> /\ after' = Tail(after) /\ UNCHANGED tcalls
  /\ tls' = [tls EXCEPT ![s] =
               CASE do = "start" -> StartReading_(@)
                 [] do = "given" -> IF PauseOnConnect THEN @ ELSE StartReading_(@)
                 [] do = "next" -> TlsReadOne(@)
                 [] do = "ended" -> IF s \in HalfOpen THEN @ ELSE TlsDestroyed(@)
                 [] OTHER -> @]
  /\ IF do \in {"given", "accept"} THEN tserver' = TlsAcceptLoop(tserver)
     ELSE IF do = "ended" /\ s \notin HalfOpen THEN CountWithout(s) ELSE UNCHANGED tserver
(* Or one of them throws.                                                  *)
TlsThrows ==
  /\ after # <<>> /\ after[1].do \in Throwing /\ after' = Tail(after) /\ UNCHANGED <<tls, tserver, tcalls>>

TlsDestroy(s) ==
  /\ TlsCalls /\ tls[s].st \in Destroyable /\ tls' = [tls EXCEPT ![s] = TlsDestroyed(@)] /\ CountWithout(s)
  /\ UNCHANGED after
TlsPause(s) ==
  /\ TlsCalls /\ tls[s].st \in {"connecting", "open"} /\ ~tls[s].paused /\ tls' = [tls EXCEPT ![s].paused = TRUE] /\ UNCHANGED <<tserver, after>>
TlsResume(s) ==
  /\ TlsCalls /\ tls[s].st \in {"open", "destroyed"}
  /\ tls' = [tls EXCEPT ![s] = LET k == [@ EXCEPT !.paused = FALSE] IN IF k.ended THEN k ELSE StartReading_(k)]
  /\ UNCHANGED <<tserver, after>>
TlsSetTimeout(s) ==
  /\ TlsCalls /\ tls[s].st = "open" /\ \E on \in {"armed", "off"} : tls' = [tls EXCEPT ![s].timer = on]
  /\ UNCHANGED <<tserver, after>>
TlsTimesOut(s) ==
  /\ TlsTurn /\ tls[s].timer = "armed" /\ tls' = [tls EXCEPT ![s].timer = "fired"] /\ UNCHANGED <<tserver, after>>

TlsNext ==
  \/ \E s \in Outgoing : TlsConnect(s) \/ Connected_(s)
  \/ TlsListen \/ TlsAccepts \/ TriesAgain \/ Handshaken \/ TlsServerClose \/ TlsReturn \/ TlsThrows
  \/ \E s \in Sockets_ : TlsAnswers(s) \/ TlsDestroy(s) \/ TlsPause(s) \/ TlsResume(s) \/ TlsSetTimeout(s) \/ TlsTimesOut(s)
TlsSpec == TlsInit /\ [][TlsNext]_tlsVars

-----------------------------------------------------------------------------
(* A socket that is open, and not paused, reads: one piece at a time, and  *)
(* always, whatever its listeners did while it was in a callback.          *)
ReadsGoOn ==
  \A s \in Sockets_ :
    LET k == tls[s] IN
    /\ k.inFlight <= 1
    /\ k.st = "open" /\ ~k.paused /\ ~k.ended /\ k.asked /\ after = <<>> => k.inFlight = 1

(* A server that listens waits for one thing: a connection, its handshake, *)
(* or the time to try again; it is never deaf and never waits twice.       *)
AcceptGoesOn == tserver.st = "listening" /\ (\A i \in DOMAIN after : after[i].do \notin {"given", "accept"}) => Len(tserver.loop) = 1

(* What is told of a socket ends with its close, told once, after its end. *)
CloseIsLast ==
  \A s \in Sockets_ : LET t == tls[s].told IN
    \A i \in DOMAIN t : /\ t[i] = "close" => i = Len(t)
                        /\ t[i] = "end" => i = Len(t) \/ (i = Len(t) - 1 /\ t[i + 1] = "close")

(* The server counts the connections that are not closed.                  *)
CountIsExact == tserver.count = Cardinality({s \in Incoming : tls[s].st = "open"})

(* No handle outlives its socket.                                          *)
NoHandleLeft == \A s \in Sockets_ : tls[s].st \in {"destroyed", "refused", "failed"} => tls[s].handle # "open"
=============================================================================
