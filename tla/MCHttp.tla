------------------------------- MODULE MCHttp -------------------------------
(***************************************************************************)
(* The http agent and client and the http server of the JavaScript         *)
(* runtime, for one run: a behaviour plays one of the parts and leaves the *)
(* others at their initial state.                                          *)
(***************************************************************************)
EXTENDS HttpClient, HttpServer

CONSTANT Parts      \* the parts to play
VARIABLE part       \* the one a behaviour plays
webPartVars == <<part, httpVars, serverVars>>

(* What clients send on a connection.                                      *)
Plain == [body |-> FALSE, close |-> FALSE, expect |-> FALSE, upgrade |-> FALSE, host |-> TRUE, bodyless |-> FALSE]
Pages ==
  { <<Plain, [Plain EXCEPT !.close = TRUE, !.body = TRUE]>>,
    <<[Plain EXCEPT !.body = TRUE, !.expect = TRUE], [Plain EXCEPT !.host = FALSE]>>,
    <<[Plain EXCEPT !.bodyless = TRUE], [Plain EXCEPT !.upgrade = TRUE]>> }

HttpInit ==
  /\ part \in Parts /\ ClientInit
  /\ ServerInit /\ (part = "server" \/ script = [c \in Conns |-> <<Plain, [Plain EXCEPT !.close = TRUE, !.body = TRUE]>>])

Stays(p, vars) == IF part = p THEN TRUE ELSE UNCHANGED vars
HttpNext ==
  /\ \/ part = "client" /\ ClientNext
     \/ part = "server" /\ ServerNext
  /\ Stays("client", httpVars) /\ Stays("server", serverVars) /\ UNCHANGED part

(* The fairness of each part, while it plays.                              *)
HttpSpec ==
  /\ HttpInit /\ [][HttpNext]_webPartVars
  /\ WF_httpVars(part = "client" /\ (GivesBack \/ Leaves))
  /\ \A s \in 1..(MaxHops + 2) * Cardinality(Requests) :
       /\ WF_httpVars(part = "client" /\ s \in DOMAIN asock /\ Turn(s))
       /\ SF_httpVars(part = "client" /\ s \in DOMAIN asock /\ PeerEnds(s))
  /\ WF_serverVars(part = "server" /\ TakeRequest)
  /\ \A c \in Conns :
       /\ WF_serverVars(part = "server" /\ ServerTurn(c))
       /\ \A i \in 1..2 : WF_serverVars(part = "server" /\ i \in DOMAIN res[c] /\ ResEnd(c, i, TRUE))

-----------------------------------------------------------------------------
(* What a server sends is framed, and it ends no connection that is busy.  *)
ServerKeepsFrames == part = "server" => WireIsFramed /\ BusyIsSpared

(* Requests are sent or fail, and connections end.                         *)
HttpSettles == Served /\ ConnectionsEnd
=============================================================================
