----------------------------- MODULE HttpMessage -----------------------------
(***************************************************************************)
(* The body of an incoming HTTP message (IncomingMessage of                *)
(* builtins/js/http.js): chunks that arrive before a consumer wait in      *)
(* `pending`, and so does the end behind them.                             *)
(***************************************************************************)
EXTENDS Naturals, Sequences

CONSTANTS BodyChunks       \* chunks of the body

VARIABLES msg,            \* the fields of the message
          readers,        \* the 'data' listeners: "on", "once", "pipe"
          arrived,        \* chunks pushed so far; complete after the last
          got,            \* the chunks that a listener was given
          lost            \* the chunks that no listener was given

msgVars == <<msg, readers, arrived, got, lost>>

(* `pending` holds the list of the chunks that wait, or nothing (null).    *)
Waits(m) == m.pending # <<>>
MessageInit ==
  /\ msg = [pending |-> <<>>, endPending |-> FALSE, scheduled |-> FALSE, ended |-> FALSE,
            complete |-> FALSE, resumed |-> FALSE, destEnded |-> FALSE]
  /\ readers = <<>> /\ arrived = 0 /\ got = <<>> /\ lost = {}

(* emit("data") of one chunk after the other: a once listener goes after   *)
(* the first, and what follows it is given to nobody.                      *)
Stay == SelectSeq(readers, LAMBDA l : l # "once")
Emits(chunks) ==
  LET heard == IF readers = <<>> THEN 0 ELSE IF Stay = <<>> /\ chunks # <<>> THEN 1 ELSE Len(chunks)
  IN /\ got' = got \o SubSeq(chunks, 1, heard)
     /\ lost' = lost \cup {chunks[i] : i \in heard + 1..Len(chunks)}
     /\ readers' = IF chunks = <<>> THEN readers ELSE Stay

(* emit("end") waits while chunks do.                                      *)
EmitEnd(m) ==
  IF Waits(m) THEN [m EXCEPT !.endPending = TRUE]
  ELSE [m EXCEPT !.ended = TRUE, !.destEnded = @ \/ "pipe" \in {readers[i] : i \in DOMAIN readers}]

(* _pushBody.                                                              *)
Push ==
  /\ ~msg.complete /\ arrived < BodyChunks /\ arrived' = arrived + 1
  /\ IF Waits(msg) \/ readers = <<>>
     THEN /\ msg' = [msg EXCEPT !.pending = <<Append(IF Waits(msg) THEN @[1] ELSE <<>>, arrived')>>]
          /\ UNCHANGED <<readers, got, lost>>
     ELSE Emits(<<arrived'>>) /\ UNCHANGED msg

Complete ==
  /\ ~msg.complete
  /\ msg' = EmitEnd([msg EXCEPT !.complete = TRUE])
  /\ UNCHANGED <<readers, arrived, got, lost>>

(* _schedulePending, and its timeout: what waits is emitted, then the end. *)
Schedules(m) == IF ~Waits(m) THEN m ELSE [m EXCEPT !.scheduled = TRUE]

\* Mutant: the end is emitted before the chunks it waited for.
FlushLate ==
  /\ msg.scheduled /\ Emits(<<>>) /\ UNCHANGED arrived
  /\ LET m == [msg EXCEPT !.scheduled = FALSE, !.pending = <<>>]
     IN msg' = IF m.endPending THEN EmitEnd([m EXCEPT !.endPending = FALSE]) ELSE m

FlushPending ==
  /\ msg.scheduled /\ Emits(msg.pending[1])
  /\ LET m == [msg EXCEPT !.scheduled = FALSE, !.pending = <<>>]
     IN msg' = IF m.endPending THEN EmitEnd([m EXCEPT !.endPending = FALSE]) ELSE m
  /\ UNCHANGED arrived

\* Mutant: addListener does not schedule what waits.
OnlyOn(kind) ==
  /\ Len(readers) < 2 /\ readers' = Append(readers, kind)
  /\ UNCHANGED <<msg, arrived, got, lost>>

(* on, addListener and once.                                               *)
On(kind) ==
  /\ Len(readers) < 2 /\ readers' = Append(readers, kind) /\ msg' = Schedules(msg)
  /\ UNCHANGED <<arrived, got, lost>>

(* pipe: a listener, and dest ends with the message or at once.            *)
Pipe ==
  /\ Len(readers) < 2 /\ readers' = Append(readers, "pipe")
  /\ msg' = [Schedules(msg) EXCEPT !.destEnded = @ \/ msg.ended]
  /\ UNCHANGED <<arrived, got, lost>>

Off ==
  /\ readers # <<>> /\ readers' = Tail(readers) /\ UNCHANGED <<msg, arrived, got, lost>>

(* resume: with no consumer what waits is dropped, and the end comes.      *)
ResumeMessage ==
  /\ LET drops == Waits(msg) /\ readers = <<>>
         m == IF drops THEN Schedules([msg EXCEPT !.pending = << <<>> >>]) ELSE msg
     IN /\ msg' = [m EXCEPT !.resumed = TRUE]
        /\ lost' = IF drops THEN lost \cup {msg.pending[1][i] : i \in DOMAIN msg.pending[1]} ELSE lost
  /\ UNCHANGED <<readers, arrived, got>>

MessageNext == Push \/ Complete \/ FlushPending \/ On("once") \/ On("on") \/ Pipe \/ Off \/ ResumeMessage
MessageFairness == WF_msgVars(Push \/ Complete) /\ WF_msgVars(FlushPending)
MessageSpec == MessageInit /\ [][MessageNext]_msgVars /\ MessageFairness

-----------------------------------------------------------------------------
(* Chunks are given in their order, each once, and before 'end' each chunk *)
(* was given or dropped by a listener or a resume that went away.          *)
WholeBody ==
  /\ \A i, j \in DOMAIN got : i < j => got[i] < got[j]
  /\ msg.ended => {got[i] : i \in DOMAIN got} \cup lost = 1..arrived
  /\ \A i \in DOMAIN got : got[i] \notin lost
  /\ msg.ended /\ (\E i \in DOMAIN readers : readers[i] = "pipe") => msg.destEnded

(* Whoever keeps listening comes to the end, however late it came, and a   *)
(* destination that is piped to is ended.                                  *)
ReaderSeesEnd == <>[](readers # <<>>) => <>msg.ended

(* "a caller that resume()s just to finish the message still sees 'end'".  *)
ResumedEnds == msg.resumed ~> msg.ended \/ readers # <<>>
=============================================================================
