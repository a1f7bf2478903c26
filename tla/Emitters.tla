------------------------------ MODULE Emitters ------------------------------
(***************************************************************************)
(* The four dispatchers of the JavaScript runtime: EventEmitter            *)
(* (events.js), EventTarget (event_target.js), MessagePort                 *)
(* (worker_threads.js) and the channels of diagnostics_channel.js, on one  *)
(* event.  Each copies its list of listeners and calls the copy, so that a *)
(* listener may add, remove and dispatch; they differ in when a once       *)
(* listener leaves the list and in what an exception does.                 *)
(***************************************************************************)
EXTENDS Naturals, Sequences, SequencesExt, FiniteSets

CONSTANTS Dispatchers,  \* the dispatchers to check
          Fns,          \* the listener functions
          Licences(_),  \* the sets of things the listeners of a dispatcher may
                        \* do; with "twice" one function registers twice
          MaxAdded,     \* registrations in a behaviour
          MaxDispatch   \* dispatches in a behaviour

VARIABLES dispatcher, licence,
          arrays,       \* every listener array made, in the order of making
          current,      \* the index of the array in the table, 0 when deleted
          frames,       \* the dispatches under way, outermost first
          added,        \* the number of registrations
          dispatches,   \* the number of dispatches
          wanted,       \* registrations neither removed nor used up
          onces,        \* the once registrations
          called        \* how often each registration was called

emitterVars == <<dispatcher, licence, arrays, current, frames, added, dispatches, wanted,
                 onces, called>>
fixedVars == <<dispatcher, licence>>

(* A registration: the wrapper { fn, once } with its number. *)
Wrapper(f, once) == [n |-> added + 1, fn |-> f, once |-> once]
Listeners_ == IF current = 0 THEN <<>> ELSE arrays[current]
Numbers(s) == {s[i].n : i \in DOMAIN s}

EmitterInit ==
  /\ dispatcher \in Dispatchers /\ licence \in Licences(dispatcher)
  /\ arrays = <<>> /\ current = 0 /\ frames = <<>>
  /\ added = 0 /\ dispatches = 0 /\ wanted = {} /\ onces = {}
  /\ called = [n \in 1..MaxAdded |-> 0]

(* Code outside any dispatch may do anything; a listener what its licence allows. *)
May(op) == IF frames = <<>> THEN op # "throw"
           ELSE Last(frames).in /\ op \in licence

-----------------------------------------------------------------------------
(* Replace the listeners of the event; an empty list leaves the table.     *)
SetList(s) ==
  /\ arrays' = IF current = 0 THEN arrays ELSE [arrays EXCEPT ![current] = s]
  /\ current' = IF s = <<>> THEN 0 ELSE current

AddTo(f, once, front) ==
  /\ IF current = 0
     THEN arrays' = Append(arrays, <<Wrapper(f, once)>>) /\ current' = Len(arrays) + 1
     ELSE /\ arrays' = [arrays EXCEPT ![current] =
                          IF front THEN <<Wrapper(f, once)>> \o @ ELSE Append(@, Wrapper(f, once))]
          /\ UNCHANGED current
  /\ added' = added + 1 /\ wanted' = wanted \cup {added + 1}
  /\ onces' = IF once THEN onces \cup {added + 1} ELSE onces

(* EventEmitter.on, once, prependListener, prependOnceListener; the other  *)
(* dispatchers only append, and a channel knows no once.                   *)
On(f, once, front) ==
  /\ May("on") /\ added < MaxAdded
  /\ "twice" \in licence \/ \A i \in DOMAIN Listeners_ : Listeners_[i].fn # f
  /\ front => dispatcher = "emitter"
  /\ once => dispatcher # "channel"
  /\ AddTo(f, once, front)
  /\ UNCHANGED <<fixedVars, frames, dispatches, called>>

(* EventTarget.addEventListener: a listener already there is not added.    *)
AddEventListener(f, once) ==
  /\ May("on") /\ added < MaxAdded /\ dispatcher = "target"
  /\ \A i \in DOMAIN Listeners_ : Listeners_[i].fn # f
  /\ AddTo(f, once, FALSE)
  /\ UNCHANGED <<fixedVars, frames, dispatches, called>>

(* The newest registration of f; the oldest on a target and on a channel.  *)
Chosen(f) ==
  LET at == {i \in DOMAIN Listeners_ : Listeners_[i].fn = f} IN
  IF dispatcher \in {"emitter", "port"}
  THEN CHOOSE i \in at : \A j \in at : j <= i
  ELSE CHOOSE i \in at : \A j \in at : i <= j

Off_(f) ==
  /\ May("off") /\ \E i \in DOMAIN Listeners_ : Listeners_[i].fn = f
  /\ SetList(RemoveAt(Listeners_, Chosen(f)))
  /\ wanted' = wanted \ {Listeners_[Chosen(f)].n}
  /\ UNCHANGED <<fixedVars, onces, frames, added, dispatches, called>>

(* removeAllListeners deletes the entry and leaves the array as it was.    *)
RemoveAllListeners ==
  /\ May("off") /\ dispatcher \in {"emitter", "port"} /\ current # 0
  /\ current' = 0 /\ wanted' = wanted \ Numbers(Listeners_)
  /\ UNCHANGED <<fixedVars, onces, arrays, frames, added, dispatches, called>>

-----------------------------------------------------------------------------
(* emit, dispatchEvent, publish: copy the list, then call the copy.        *)
Dispatch ==
  /\ May("dispatch") /\ dispatches < MaxDispatch /\ current # 0
  /\ dispatches' = dispatches + 1
  /\ frames' = Append(frames, [copy |-> Listeners_, at |-> 1, list |-> current,
                               ran |-> {}, in |-> FALSE, stop |-> FALSE])
  /\ UNCHANGED <<fixedVars, onces, arrays, current, added, wanted, called>>

Top == Last(frames)
SetTop(f) == Front(frames) \o <<f>>
Running == frames # <<>> /\ ~Top.in
AtEnd == Top.at > Len(Top.copy) \/ Top.stop

(* Target and port take a once listener off the list before they call it:  *)
(* removeEventListener and off, by function.                               *)
TakenOff(w) ==
  IF w.once /\ dispatcher \in {"target", "port"} /\ \E i \in DOMAIN Listeners_ : Listeners_[i].fn = w.fn
  THEN {Chosen(w.fn)} ELSE {}

CallListener ==
  /\ Running /\ ~AtEnd
  /\ LET w == Top.copy[Top.at] IN
       /\ called' = [called EXCEPT ![w.n] = @ + 1]
       /\ frames' = SetTop([Top EXCEPT !.in = TRUE])
       /\ IF TakenOff(w) = {} THEN UNCHANGED <<arrays, current>>
          ELSE \A i \in TakenOff(w) : SetList(RemoveAt(Listeners_, i))
       /\ wanted' = wanted \ (IF w.once THEN {w.n} ELSE {})
  /\ UNCHANGED <<fixedVars, onces, added, dispatches>>

(* Mutant: the dispatch walks the list itself, not a copy.                 *)
ListenerReturnsToList(stop) ==
  /\ frames # <<>> /\ Top.in
  /\ stop => dispatcher = "target"
  /\ frames' = SetTop([Top EXCEPT !.in = FALSE, !.at = @ + 1, !.stop = stop, !.copy = Listeners_,
                                  !.ran = @ \cup {Top.copy[Top.at].n}])
  /\ UNCHANGED <<fixedVars, onces, arrays, current, added, dispatches, wanted, called>>

(* The listener returned, or the dispatcher swallows what it threw.        *)
ListenerReturns(stop) ==
  /\ frames # <<>> /\ Top.in
  /\ stop => dispatcher = "target"
  /\ frames' = SetTop([Top EXCEPT !.in = FALSE, !.at = @ + 1, !.stop = stop,
                                  !.ran = @ \cup {Top.copy[Top.at].n}])
  /\ UNCHANGED <<fixedVars, onces, arrays, current, added, dispatches, wanted, called>>

(* An exception leaves emit at once, on an emitter without captureRejections *)
(* and on a port; a listener that dispatched catches it or throws in turn.   *)
ListenerThrows ==
  /\ May("throw") /\ dispatcher \in {"emitter", "port"}
  /\ frames' = Front(frames)
  /\ UNCHANGED <<fixedVars, onces, arrays, current, added, dispatches, wanted, called>>

(* Mutant: the once listeners leave the list that is in the table now.     *)
EmitEndsInTable ==
  /\ Running /\ AtEnd /\ dispatcher = "emitter"
  /\ SetList(SelectSeq(Listeners_, LAMBDA w : w.n \notin Top.ran))
  /\ frames' = Front(frames)
  /\ UNCHANGED <<fixedVars, onces, added, dispatches, wanted, called>>

(* The end of emit: the once listeners of the copy that ran leave the array *)
(* that was copied, and when that is empty the entry of the table goes.     *)
EmitEnds ==
  /\ Running /\ AtEnd /\ dispatcher = "emitter"
  /\ LET used == {w.n : w \in {Top.copy[i] : i \in {j \in DOMAIN Top.copy : Top.copy[j].once}}}
         left == SelectSeq(arrays[Top.list], LAMBDA w : w.n \notin used)
     IN /\ arrays' = [arrays EXCEPT ![Top.list] = left]
        /\ current' = IF left = <<>> THEN 0 ELSE current
  /\ frames' = Front(frames)
  /\ UNCHANGED <<fixedVars, onces, added, dispatches, wanted, called>>

DispatchEnds ==
  /\ Running /\ AtEnd /\ dispatcher # "emitter"
  /\ frames' = Front(frames)
  /\ UNCHANGED <<fixedVars, onces, arrays, current, added, dispatches, wanted, called>>

EmitterNext ==
  \/ \E f \in Fns, once \in BOOLEAN : AddEventListener(f, once)
  \/ dispatcher # "target" /\ \E f \in Fns, once, front \in BOOLEAN : On(f, once, front)
  \/ \E f \in Fns : Off_(f)
  \/ RemoveAllListeners \/ Dispatch \/ CallListener
  \/ \E stop \in BOOLEAN : ListenerReturns(stop)
  \/ ListenerThrows \/ EmitEnds \/ DispatchEnds

EmitterSpec == EmitterInit /\ [][EmitterNext]_emitterVars

-----------------------------------------------------------------------------
(* Between dispatches the table holds the registrations nobody removed and *)
(* no call used up: whatever the listeners did during a dispatch ("Copy    *)
(* listener list to allow mutations during emit"), none is lost and none   *)
(* comes back.                                                             *)
ListenersKept == frames = <<>> => Numbers(Listeners_) = wanted

(* A once listener is called at most once, also when a listener dispatches *)
(* again before it has returned or throws.                                 *)
OnceCalledOnce == \A n \in onces : called[n] <= 1

(* A dispatch that runs to its end has called every listener of its start, *)
(* removed meanwhile or not, unless a listener stopped it.                 *)
EveryoneIsTold ==
  [][\A d \in DOMAIN frames :
        Len(frames') < d /\ ~frames[d].in /\ ~frames[d].stop
          => frames[d].ran = Numbers(frames[d].copy)]_emitterVars
=============================================================================
