------------------------------ MODULE MCStreams ------------------------------
(***************************************************************************)
(* The streams of the JavaScript runtime, for one run: pipelines, sockets, *)
(* those of tls, the web streams, and the body of an incoming message.  A  *)
(* behaviour plays one of the parts and leaves the others at their         *)
(* initial state.                                                          *)
(***************************************************************************)
EXTENDS Streams, Net, WebStreams, HttpMessage, TlsSockets

CONSTANT Parts      \* the parts to play
VARIABLE part       \* the one a behaviour plays
partVars == <<part, streamVars, netVars, webVars, msgVars, tlsVars>>

(* The pipelines: read and write answer now or later; with and without a   *)
(* transform; from an iterable, from a reader, or written to by hand.      *)
Direct == [chain |-> <<"src", "dst">>, source |-> "reader", script |-> <<>>, read |-> {"sync", "async"},
           transform |-> {"sync"}, write |-> {"async", "sync"}, hwm |-> 2, chunks |-> 3, faults |-> {}]
Through == [Direct EXCEPT !.chain = <<"src", "mid", "dst">>, !.transform = {"sync", "async"}, !.write = {"sync"}]
ByHand == [Direct EXCEPT !.chain = <<"dst">>, !.source = "writer"]
Pipelines ==
  { Direct, [Direct EXCEPT !.faults = {"sink", "source", "abort"}],
    [Through EXCEPT !.read = {"async"}, !.faults = {"transform"}],
    [Through EXCEPT !.source = "from", !.hwm = 4],
    [ByHand EXCEPT !.script = <<"cork", "write", "write", "uncork", "write", "end">>, !.write = {"async"}],
    [ByHand EXCEPT !.chain = <<"mid", "dst">>, !.script = <<"write", "write", "write", "end">>,
                   !.transform = {"async"}, !.write = {"sync"}] }

StreamsInit ==
  /\ part \in Parts
  /\ StreamInit /\ (part = "streams" \/ plan = Direct)
  /\ NetInit /\ (part = "net" \/ netScene = "server")
  /\ WebInit /\ MessageInit /\ TlsInit

Stays(p, vars) == IF part = p THEN TRUE ELSE UNCHANGED vars
StreamsNext ==
  /\ \/ part = "streams" /\ StreamNext
     \/ part = "net" /\ NetNext
     \/ part = "web" /\ WebNext
     \/ part = "message" /\ MessageNext
     \/ part = "tls" /\ TlsNext
  /\ Stays("streams", streamVars) /\ Stays("net", netVars)
  /\ Stays("web", webVars) /\ Stays("message", msgVars) /\ Stays("tls", tlsVars)
  /\ UNCHANGED part

(* The fairness of each part, while it plays.                              *)
StreamsSpec ==
  /\ StreamsInit /\ [][StreamsNext]_partVars
  /\ WF_streamVars(part = "streams" /\ StreamTurn) /\ WF_netVars(part = "net" /\ NetTurn)
  /\ WF_webVars(part = "web" /\ CallsSink) /\ WF_webVars(part = "web" /\ (WriteDone \/ SinkFails))
  /\ WF_webVars(part = "web" /\ Flushes) /\ WF_webVars(part = "web" /\ FinishClose)
  /\ WF_webVars(part = "web" /\ AbortsSink) /\ WF_webVars(part = "web" /\ PumpPipe)
  /\ WF_msgVars(part = "message" /\ (Push \/ Complete)) /\ WF_msgVars(part = "message" /\ FlushPending)

-----------------------------------------------------------------------------
(* Whoever waits on a stream is answered: the callback of a pipeline is    *)
(* called, a socket that was ended finishes, a write to a web stream and   *)
(* its close settle, and who keeps reading a message comes to its end.     *)
WaitersAnswered ==
  /\ part = "streams" => PipelineSettles
  /\ EndCompletes
  /\ WritesSettle
  /\ part = "message" => ReaderSeesEnd

(* Streams, sockets and web streams pass on in the order they were given,  *)
(* on both sides, and a socket has one read loop, as a server accepts one  *)
(* connection at a time and then the next.                                 *)
PassedOnInOrder ==
  /\ part = "streams" => ChunksInOrder
  /\ part = "net" => WritesInOrder /\ OneReadLoop
  /\ part = "web" => ReadsInOrder /\ SinkInOrder /\ TextIsWhole
  /\ part = "tls" => ReadsGoOn /\ AcceptGoesOn

(* A stream that reports success or its end has passed on everything; and  *)
(* the close of a socket is the last of it, with its handle closed, and    *)
(* the server's count without it.                                          *)
EndsAreWhole ==
  /\ part = "streams" => SuccessIsWhole
  /\ part = "message" => WholeBody
  /\ part = "tls" => CloseIsLast /\ CountIsExact /\ NoHandleLeft
=============================================================================
