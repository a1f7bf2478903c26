------------------------------ MODULE Workers ------------------------------
(***************************************************************************)
(* Workers, message ports, broadcast channels and locks of the JavaScript  *)
(* runtime (worker_threads.js).  Everything runs on one event loop: a port *)
(* is a queue emptied by an immediate, a worker is a script run by an      *)
(* immediate under a pushed context, a lock is granted when it is asked    *)
(* for.  A behaviour plays one scene: a worker with its two ports, some    *)
(* broadcast channels of one name, or some requests for one lock.          *)
(***************************************************************************)
EXTENDS Naturals, Sequences, SequencesExt, FiniteSets

CONSTANTS Scenes,       \* the scenes to play
          MaxPosts,     \* messages the two ends post together
          Tabs,         \* the broadcast channels, numbered as they were made
          MaxCasts,     \* messages all of them broadcast
          Requests      \* the requests for one exclusive lock

ASSUME WorkerAssumption == Tabs \subseteq Nat /\ IsFiniteSet(Tabs)

VARIABLES scene,
          port,         \* the two ends of the worker's channel
          immediates,   \* callbacks given to setImmediate, oldest first
          turn,         \* what runs now: nothing, the script, or an end's drain
          slot,         \* the state of the worker in _workerTable
          terminated,   \* Worker._terminated
          context,      \* _ctxStack, outermost first
          events,       \* what the Worker object has emitted
          posted,       \* how many messages each end has posted
          heard,        \* the messages each end's listeners received
          closes,       \* how often each end emitted 'close'
          tab,          \* each broadcast channel: open?, and what it received
          casts,        \* how many messages were broadcast
          lock          \* each lock request: "new", "held" or "done"

workerVars == <<scene, port, immediates, turn, slot, terminated, context, events,
                posted, heard, closes, tab, casts, lock>>
portVars  == <<scene, slot, terminated, context, events, tab, casts, lock>>
otherVars == <<scene, tab, casts, lock>>
noPort    == <<scene, port, turn, slot, terminated, context, events, posted, heard, closes>>

Ends == {"main", "worker"}
Twin(e) == IF e = "main" THEN "worker" ELSE "main"

NewPort == [queue |-> <<>>, started |-> FALSE, closed |-> FALSE, draining |-> FALSE,
            ears |-> {}]

Increasing(s) == \A i, j \in DOMAIN s : i < j => s[i] < s[j]

(* Code of one end runs when the loop is idle or in that end's own handler. *)
MayCall(e) == /\ scene = "worker"
              /\ turn \in {"none", e} \/ (turn = "script" /\ e = "worker")

WorkerInit ==
  /\ scene \in Scenes
  /\ port = [e \in Ends |-> NewPort]
  /\ immediates = IF scene = "worker" THEN << <<"run">> >> ELSE <<>>
  /\ turn = "none" /\ slot = "created" /\ terminated = FALSE
  /\ context = <<>> /\ events = <<>>
  /\ posted = [e \in Ends |-> 0] /\ heard = [e \in Ends |-> <<>>]
  /\ closes = [e \in Ends |-> 0]
  /\ tab = [t \in Tabs |-> [closed |-> FALSE, heard |-> <<>>]] /\ casts = 0
  /\ lock = [r \in Requests |-> "new"]

-----------------------------------------------------------------------------
(* The ports.                                                              *)

(* A started end with something queued, and no drain on its way, gets one. *)
NeedsDrain(p) == p.started /\ p.queue # <<>> /\ ~p.draining /\ ~p.closed

ScheduleDrain(e, p) ==
  /\ port' = [port EXCEPT ![e] = [p EXCEPT !.draining = @ \/ NeedsDrain(p)]]
  /\ immediates' = IF NeedsDrain(p) THEN Append(immediates, <<"drain", e>>) ELSE immediates

AddListener(e, once) ==
  /\ MayCall(e) /\ port[e].ears = {}
  /\ ~(e = "main" /\ terminated)
  /\ ScheduleDrain(e, [port[e] EXCEPT !.ears = {once}, !.started = TRUE])
  /\ UNCHANGED <<turn, posted, heard, closes, portVars>>

Off(e) ==
  /\ MayCall(e) /\ port[e].ears # {}
  /\ port' = [port EXCEPT ![e].ears = {}]
  /\ UNCHANGED <<immediates, turn, posted, heard, closes, portVars>>

(* MessagePort.postMessage, on the worker's side. *)
PortPosts == ~port["worker"].closed /\ ~port["main"].closed

(* Worker.postMessage, on the main side. *)
WorkerPosts == ~terminated /\ ~port["worker"].closed

PostMessage(e) ==
  LET to == Twin(e) IN
  /\ MayCall(e) /\ posted["main"] + posted["worker"] < MaxPosts
  /\ posted' = [posted EXCEPT ![e] = @ + 1]
  /\ IF (IF e = "main" THEN WorkerPosts ELSE PortPosts)
     THEN ScheduleDrain(to, [port[to] EXCEPT !.queue = Append(@, posted[e] + 1)])
     ELSE UNCHANGED <<port, immediates>>
  /\ UNCHANGED <<turn, heard, closes, portVars>>

(* receiveMessageOnPort, on the end of the worker. *)
ReceiveMessageOnPort ==
  LET p == port["worker"] IN
  /\ MayCall("worker") /\ ~p.closed /\ p.queue # <<>>
  /\ port' = [port EXCEPT !["worker"].queue = Tail(@)]
  /\ heard' = [heard EXCEPT !["worker"] = Append(@, Head(p.queue))]
  /\ UNCHANGED <<immediates, turn, posted, closes, portVars>>

(* Mutant: the drain that starts does not clear its flag.                  *)
DrainStartsBusy ==
  /\ turn = "none" /\ immediates # <<>> /\ Head(immediates)[1] = "drain"
  /\ LET e == Head(immediates)[2] IN
       turn' = IF port[e].closed \/ ~port[e].started THEN "none" ELSE e
  /\ immediates' = Tail(immediates)
  /\ UNCHANGED <<port, posted, heard, closes, portVars>>

(* The immediate of _scheduleDrain. *)
DrainStarts ==
  /\ turn = "none" /\ immediates # <<>> /\ Head(immediates)[1] = "drain"
  /\ LET e == Head(immediates)[2] IN
       /\ port' = [port EXCEPT ![e].draining = FALSE]
       /\ turn' = IF port[e].closed \/ ~port[e].started THEN "none" ELSE e
  /\ immediates' = Tail(immediates)
  /\ UNCHANGED <<posted, heard, closes, portVars>>

(* One turn of the loop of _drain, with the emit of the message. *)
DrainEmits ==
  /\ turn \in Ends
  /\ LET e == turn
         p == port[e]
     IN /\ ~p.closed /\ p.queue # <<>>
        /\ port' = [port EXCEPT ![e] = [p EXCEPT !.queue = Tail(@), !.ears = @ \ {TRUE}]]
        /\ heard' = IF p.ears # {} THEN [heard EXCEPT ![e] = Append(@, Head(p.queue))] ELSE heard
  /\ UNCHANGED <<immediates, turn, posted, closes, portVars>>

DrainEnds ==
  /\ turn \in Ends
  /\ port[turn].closed \/ port[turn].queue = <<>>
  /\ turn' = "none"
  /\ UNCHANGED <<port, immediates, posted, heard, closes, portVars>>

(* The immediate that tells the listeners of e, when e is one that closes. *)
CloseTasks(e, es) == IF e \in es THEN << <<"close", e>> >> ELSE <<>>

(* Mutant: a close does not ask whether the port is closed.                *)
ClosePortsAgain(es, tasks) ==
  /\ port' = [e \in Ends |-> [port[e] EXCEPT !.closed = @ \/ e \in es]]
  /\ immediates' = tasks \o CloseTasks("worker", es) \o CloseTasks("main", es)

(* MessagePort.close of the ends in es that are still open: a flag now, the *)
(* event and the other end's close in an immediate.                         *)
ClosePorts(es, tasks) ==
  LET open == {e \in es : ~port[e].closed} IN
  /\ port' = [e \in Ends |-> [port[e] EXCEPT !.closed = @ \/ e \in open]]
  /\ immediates' = tasks \o CloseTasks("worker", open) \o CloseTasks("main", open)

Close(e) ==
  /\ MayCall(e) /\ ~port[e].closed
  /\ ClosePorts({e}, immediates)
  /\ UNCHANGED <<turn, posted, heard, closes, portVars>>

CloseEmits ==
  /\ turn = "none" /\ immediates # <<>> /\ Head(immediates)[1] = "close"
  /\ LET e == Head(immediates)[2] IN
       /\ closes' = [closes EXCEPT ![e] = @ + 1]
       /\ ClosePorts({Twin(e)}, Tail(immediates))
  /\ UNCHANGED <<turn, posted, heard, portVars>>

-----------------------------------------------------------------------------
(* The worker.                                                             *)

RunWorker ==
  /\ turn = "none" /\ immediates # <<>> /\ Head(immediates) = <<"run">>
  /\ immediates' = Tail(immediates)
  /\ IF slot = "terminated" THEN UNCHANGED <<slot, context, turn>>
     ELSE slot' = "running" /\ context' = Append(context, "worker") /\ turn' = "script"
  /\ UNCHANGED <<port, terminated, events, posted, heard, closes, otherVars>>

(* The script returned to _runWorker, or threw into it. *)
ScriptReturns(end, told) ==
  /\ turn = "script"
  /\ turn' = "none" /\ context' = Front(context)
  /\ slot' = end /\ events' = events \o told
  /\ UNCHANGED <<port, immediates, terminated, posted, heard, closes, otherVars>>

ScriptEnds   == ScriptReturns("idle", <<"online">>)
ScriptThrows == ScriptReturns("errored", <<"error", "exit">>)

Terminate ==
  /\ MayCall("main") /\ ~terminated
  /\ terminated' = TRUE /\ slot' = "terminated"
  /\ ClosePorts(Ends, immediates)
  /\ events' = Append(events, "exit")
  /\ UNCHANGED <<turn, context, posted, heard, closes, otherVars>>

-----------------------------------------------------------------------------
(* Broadcast channels: one immediate for each open sibling, in the order of *)
(* the registry.                                                            *)

InRegistry(tabs) == {f \in [1..Cardinality(tabs) -> tabs] : Increasing(f)}

Broadcast(t) ==
  /\ scene = "channels" /\ casts < MaxCasts /\ ~tab[t].closed
  /\ casts' = casts + 1
  /\ \E others \in InRegistry({s \in Tabs \ {t} : ~tab[s].closed}) :
       immediates' = immediates \o [i \in DOMAIN others |-> <<"cast", others[i], casts + 1>>]
  /\ UNCHANGED <<tab, lock, noPort>>

(* Mutant: the newest broadcast arrives first.                             *)
CastArrivesLast ==
  /\ immediates # <<>> /\ Last(immediates)[1] = "cast"
  /\ LET s == Last(immediates)[2] IN
       tab' = IF tab[s].closed THEN tab
              ELSE [tab EXCEPT ![s].heard = Append(@, Last(immediates)[3])]
  /\ immediates' = Front(immediates)
  /\ UNCHANGED <<casts, lock, noPort>>

CastArrives ==
  /\ immediates # <<>> /\ Head(immediates)[1] = "cast"
  /\ LET s == Head(immediates)[2] IN
       tab' = IF tab[s].closed THEN tab
              ELSE [tab EXCEPT ![s].heard = Append(@, Head(immediates)[3])]
  /\ immediates' = Tail(immediates)
  /\ UNCHANGED <<casts, lock, noPort>>

CloseChannel(t) ==
  /\ scene = "channels" /\ ~tab[t].closed
  /\ tab' = [tab EXCEPT ![t].closed = TRUE]
  /\ UNCHANGED <<immediates, casts, lock, noPort>>

-----------------------------------------------------------------------------
(* LockManager.request: held from the call of the callback until what it   *)
(* returned is settled; a signal aborted before the call rejects at once.  *)

LockAborted(r) ==
  /\ scene = "locks" /\ lock[r] = "new"
  /\ lock' = [lock EXCEPT ![r] = "done"]
  /\ UNCHANGED <<immediates, tab, casts, noPort>>

LockGranted(r) ==
  /\ scene = "locks" /\ lock[r] = "new"
  /\ lock' = [lock EXCEPT ![r] = "held"]
  /\ UNCHANGED <<immediates, tab, casts, noPort>>

LockReleased(r) ==
  /\ scene = "locks" /\ lock[r] = "held"
  /\ lock' = [lock EXCEPT ![r] = "done"]
  /\ UNCHANGED <<immediates, tab, casts, noPort>>

-----------------------------------------------------------------------------
PortCall(e) == \/ \E once \in BOOLEAN : AddListener(e, once)
               \/ Off(e) \/ PostMessage(e) \/ Close(e)

LoopTurn == DrainStarts \/ DrainEmits \/ DrainEnds \/ CloseEmits \/ RunWorker
            \/ ScriptEnds \/ ScriptThrows \/ CastArrives

WorkerNext ==
  \/ LoopTurn
  \/ \E e \in Ends : PortCall(e)
  \/ ReceiveMessageOnPort
  \/ Terminate
  \/ \E t \in Tabs : Broadcast(t) \/ CloseChannel(t)
  \/ \E r \in Requests : LockAborted(r) \/ LockGranted(r) \/ LockReleased(r)

(* The loop runs every immediate and every handler returns. *)
WorkerFairness == WF_workerVars(LoopTurn)

WorkerSpec == WorkerInit /\ [][WorkerNext]_workerVars /\ WorkerFairness

-----------------------------------------------------------------------------
(* A message reaches its port once and in the order of posting, whether it *)
(* is drained or taken with receiveMessageOnPort, and whatever the drains  *)
(* interleave with.                                                        *)
PostedInOrder == \A e \in Ends : Increasing(heard[e] \o port[e].queue)

(* No message is forgotten: while a started, open port holds messages, a   *)
(* drain of it is scheduled or running (worker_threads.js: three places    *)
(* decide whether to schedule one, and the drain resets the flag first).   *)
DrainOnItsWay ==
  \A e \in Ends :
    LET p == port[e] IN
    p.started /\ ~p.closed /\ p.queue # <<>> =>
      turn = e \/ \E i \in DOMAIN immediates : immediates[i] = <<"drain", e>>

(* Closing one end closes the other, and each tells its listeners exactly  *)
(* once, also when both ends close each other at the same time.            *)
BothEndsClose ==
  /\ \A e \in Ends : (port[e].closed ~> \A d \in Ends : closes[d] = 1)
  /\ [][\A e \in Ends : closes'[e] <= 1]_workerVars

(* Channels of one name hear the messages they both hear in one order. *)
SameOrderEverywhere ==
  \A s, t \in Tabs :
    \A i, j \in DOMAIN tab[s].heard : \A k, l \in DOMAIN tab[t].heard :
      (tab[s].heard[i] = tab[t].heard[k] /\ tab[s].heard[j] = tab[t].heard[l] /\ i < j)
        => k < l

(* Broadcasts are heard in one order, and no message waits at a port       *)
(* without a drain of it to come.                                          *)
MessagesInOrder == SameOrderEverywhere /\ DrainOnItsWay

(* "Single-threaded => no contention": one holder of an exclusive lock at  *)
(* a time (worker_threads.js, LockManager).                                *)
NoContention == Cardinality({r \in Requests : lock[r] = "held"}) <= 1

(* A worker exits once, whichever of its failure and terminate comes first. *)
ExitOnce == Len(SelectSeq(events, LAMBDA x : x = "exit")) <= 1
=============================================================================
