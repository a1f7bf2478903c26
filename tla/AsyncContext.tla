---------------------------- MODULE AsyncContext ----------------------------
(***************************************************************************)
(* The asynchronous context of the JavaScript runtime (async_hooks.js):    *)
(* one AsyncLocalStorage kept on the resources of the code that runs.      *)
(* A resource is made for each timer, reaction of a promise or             *)
(* AsyncResource and takes over the store of the resource that runs;       *)
(* its callback runs between emitBefore and emitAfter, which stack the     *)
(* running resource.  The ghost `scope` is what the program means by its   *)
(* store: what the enclosing run, or the place that scheduled the          *)
(* callback, had.                                                          *)
(***************************************************************************)
EXTENDS Naturals, Sequences, SequencesExt, FiniteSets

CONSTANTS Stores,       \* the stores a program runs with
          MaxResources, \* resources made
          MaxScopes,    \* calls of run, exit and enterWith
          Habits        \* what the program does of "executor" (schedules inside a
                        \* promise's executor) and "exit" (uses the storage
                        \* inside exit)

VARIABLES resource,     \* _executionAsyncResource; 1 is the bootstrap resource
          resourceStack,
          store,        \* resource |-> its store
          enabled,      \* the storage is in _alsList and its init hook is on
          depth,        \* _promiseWrapDepth
          nested,       \* the calls under way: of run, exit, an executor, a callback
          scope,        \* the store the program means, one more than nested
          pending,      \* callbacks to run
          destroys,     \* how often destroy was emitted for a resource
          scopes        \* calls of run, exit and enterWith so far

contextVars == <<resource, resourceStack, store, enabled, depth, nested, scope,
                 pending, destroys, scopes>>
callVars == <<resource, resourceStack, depth, nested, scope, scopes>>

NoStore == "none"
GetStore == IF enabled THEN store[resource] ELSE NoStore
Meant == Last(scope)
Means(s) == scope' = Front(scope) \o <<s>>
InFrame(k) == \E i \in DOMAIN nested : nested[i].kind = k

ContextInit ==
  /\ resource = 1 /\ resourceStack = <<>> /\ store = <<NoStore>> /\ enabled = TRUE
  /\ depth = 0 /\ nested = <<>> /\ scope = <<NoStore>> /\ pending = {}
  /\ destroys = <<0>> /\ scopes = 0

(* The program uses the storage inside exit only when it has that habit.   *)
Allowed == "exit" \in Habits \/ ~InFrame("exit")

-----------------------------------------------------------------------------
EnterWith(s) ==
  /\ Allowed /\ scopes < MaxScopes /\ scopes' = scopes + 1
  /\ enabled' = TRUE /\ store' = [store EXCEPT ![resource] = s] /\ Means(s)
  /\ UNCHANGED <<resource, resourceStack, depth, nested, pending, destroys>>

(* run: a store that is already there is not set again, and no scope opens. *)
RunWith(s) ==
  /\ Allowed /\ scopes < MaxScopes /\ scopes' = scopes + 1
  /\ scope' = Append(scope, s)
  /\ nested' = Append(nested, [kind |-> "run", set |-> s # GetStore, old |-> store[resource]])
  /\ IF s = GetStore THEN UNCHANGED <<store, enabled>>
     ELSE enabled' = TRUE /\ store' = [store EXCEPT ![resource] = s]
  /\ UNCHANGED <<resource, resourceStack, depth, pending, destroys>>

(* Mutant: run restores the store only when there was one.                 *)
EndRunKeeps ==
  /\ nested # <<>> /\ Last(nested).kind = "run"
  /\ store' = IF Last(nested).set /\ Last(nested).old # NoStore
              THEN [store EXCEPT ![resource] = Last(nested).old] ELSE store
  /\ nested' = Front(nested)
  /\ scope' = IF Last(nested).set THEN Front(scope) ELSE Front(Front(scope)) \o <<Meant>>
  /\ UNCHANGED <<resource, resourceStack, enabled, depth, pending, destroys, scopes>>

EndRun ==
  /\ nested # <<>> /\ Last(nested).kind = "run"
  /\ store' = IF Last(nested).set THEN [store EXCEPT ![resource] = Last(nested).old] ELSE store
  /\ nested' = Front(nested)
  /\ scope' = IF Last(nested).set THEN Front(scope) ELSE Front(Front(scope)) \o <<Meant>>
  /\ UNCHANGED <<resource, resourceStack, enabled, depth, pending, destroys, scopes>>

(* exit takes the storage out of service until its callback returns.       *)
Exit ==
  /\ Allowed /\ enabled /\ scopes < MaxScopes /\ scopes' = scopes + 1
  /\ enabled' = FALSE
  /\ nested' = Append(nested, [kind |-> "exit"]) /\ scope' = Append(scope, NoStore)
  /\ UNCHANGED <<resource, resourceStack, store, depth, pending, destroys>>

EndExit ==
  /\ nested # <<>> /\ Last(nested).kind = "exit"
  /\ enabled' = TRUE /\ nested' = Front(nested) /\ scope' = Front(scope)
  /\ UNCHANGED <<resource, resourceStack, store, depth, pending, destroys, scopes>>

-----------------------------------------------------------------------------
(* Scheduling.  A callback with resource 0 is not wrapped: it will run     *)
(* under whatever resource runs then.                                      *)
NewResource(kind, wrapped) ==
  LET r == Len(store) + 1 IN
  /\ r <= MaxResources
  /\ store' = Append(store, GetStore) /\ destroys' = Append(destroys, 0)
  /\ pending' = pending \cup {[id |-> r, kind |-> kind, of |-> IF wrapped THEN r ELSE 0,
                               meant |-> Meant]}
  /\ UNCHANGED <<enabled, callVars>>

(* Promise.prototype.then: plain while a promise is being made.            *)
Then == /\ Allowed /\ (depth = 0 \/ "executor" \in Habits)
        /\ NewResource("reaction", depth = 0 /\ enabled)

(* setTimeout and setImmediate, setInterval: plain while no hook is on.    *)
SetTimer == Allowed /\ NewResource("timer", enabled)
SetInterval == Allowed /\ NewResource("interval", enabled)

(* new AsyncResource, or bind: always its own resource, with a store only  *)
(* when the init hook runs.                                                *)
MakeResource == Allowed /\ NewResource("bound", TRUE)

(* _clearWithDestroy: clearTimeout, clearInterval, clearImmediate.         *)
ClearTimer(p) ==
  /\ p \in pending /\ p.kind \in {"timer", "interval"}
  /\ pending' = pending \ {p}
  /\ destroys' = IF p.of = 0 THEN destroys ELSE [destroys EXCEPT ![p.id] = @ + 1]
  /\ UNCHANGED <<store, enabled, callVars>>

(* A timer whose own callback clears it; a one-shot timer is destroyed     *)
(* once more when the callback returns.                                    *)
ClearOwnTimer ==
  /\ nested # <<>> /\ Last(nested).kind \in {"timer", "interval"} /\ ~Last(nested).cleared
  /\ LET p == Last(nested).callback IN
       destroys' = IF p.of = 0 THEN destroys ELSE [destroys EXCEPT ![p.id] = @ + 1]
  /\ nested' = Front(nested) \o <<[Last(nested) EXCEPT !.cleared = TRUE]>>
  /\ UNCHANGED <<resource, resourceStack, depth, scope, scopes, store, enabled, pending>>

(* The executor of new Promise runs with _promiseWrapDepth raised.         *)
NewPromise ==
  /\ Allowed /\ ~InFrame("executor")
  /\ depth' = depth + 1
  /\ nested' = Append(nested, [kind |-> "executor"]) /\ scope' = Append(scope, Meant)
  /\ UNCHANGED <<resource, resourceStack, store, enabled, pending, destroys, scopes>>

ExecutorReturns ==
  /\ nested # <<>> /\ Last(nested).kind = "executor"
  /\ depth' = depth - 1
  /\ nested' = Front(nested)
  /\ scope' = Front(Front(scope)) \o <<Meant>>
  /\ UNCHANGED <<resource, resourceStack, store, enabled, pending, destroys, scopes>>

-----------------------------------------------------------------------------
(* Callbacks.  Those of timers and reactions start from the event loop, a  *)
(* bound function is called by any code.                                   *)

(* emitBefore, around a callback that is wrapped.                          *)
EmitBefore(p) ==
  IF p.of = 0 THEN UNCHANGED <<resource, resourceStack>>
  ELSE resource' = p.of /\ resourceStack' = Append(resourceStack, resource)

Fire(p) ==
  /\ p \in pending /\ (nested = <<>> \/ (p.kind = "bound" /\ Allowed))
  /\ EmitBefore(p)
  /\ pending' = pending \ {p}
  /\ nested' = Append(nested, [kind |-> p.kind, callback |-> p, cleared |-> FALSE])
  /\ scope' = Append(scope, p.meant)
  /\ UNCHANGED <<store, enabled, depth, destroys, scopes>>

(* Mutant: an interval is destroyed like a one-shot timer.                 *)
EveryTimer(p) == p.kind \in {"timer", "interval"} /\ p.of # 0

EndsWithCallback(p) == p.kind = "timer" /\ p.of # 0

(* emitAfter; a one-shot timer is destroyed, an interval and a bound       *)
(* function wait for their next call with the store they now have.         *)
EndCallback ==
  /\ nested # <<>> /\ Last(nested).kind \in {"reaction", "timer", "interval", "bound"}
  /\ LET p == Last(nested).callback IN
       /\ IF p.of = 0 THEN UNCHANGED <<resource, resourceStack>>
          ELSE resource' = Last(resourceStack) /\ resourceStack' = Front(resourceStack)
       /\ destroys' = IF EndsWithCallback(p)
                      THEN [destroys EXCEPT ![p.id] = @ + 1] ELSE destroys
       /\ pending' = IF p.kind \in {"interval", "bound"} /\ ~Last(nested).cleared
                     THEN pending \cup {[p EXCEPT !.meant = Meant]} ELSE pending
  /\ nested' = Front(nested) /\ scope' = Front(scope)
  /\ UNCHANGED <<store, enabled, depth, scopes>>

ContextNext ==
  \/ \E s \in Stores : EnterWith(s) \/ RunWith(s)
  \/ EndRun \/ Exit \/ EndExit
  \/ Then \/ SetTimer \/ SetInterval \/ MakeResource
  \/ \E p \in pending : ClearTimer(p) \/ Fire(p)
  \/ ClearOwnTimer \/ NewPromise \/ ExecutorReturns \/ EndCallback

ContextSpec == ContextInit /\ [][ContextNext]_contextVars

-----------------------------------------------------------------------------
(* The store the program reads is the one of the enclosing run or, in a    *)
(* callback, the one it was scheduled under, whatever ran in between.      *)
StoreFollowsCause == GetStore = Meant

(* emitBefore and emitAfter nest: the running resource is the one of the   *)
(* innermost wrapped callback, and the bootstrap resource when none runs.  *)
ResourceNests ==
  LET wrapped == SelectSeq(nested, LAMBDA f : f.kind \in {"reaction", "timer", "interval", "bound"}
                                              /\ f.callback.of # 0)
  IN /\ Len(resourceStack) = Len(wrapped)
     /\ resource = IF wrapped = <<>> THEN 1 ELSE Last(wrapped).callback.of

(* Nothing runs under a resource that was destroyed: no callback to come   *)
(* belongs to one, whoever cleared its timer, and from where.              *)
DestroyedIsOver == \A p \in pending : destroys[p.id] = 0

(* A callback finds the store of what caused it, and none is to come under *)
(* a resource that was destroyed (async_hooks.js).                         *)
ContextsHold == StoreFollowsCause /\ DestroyedIsOver
=============================================================================
