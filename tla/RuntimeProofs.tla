--------------------------- MODULE RuntimeProofs ---------------------------
(***************************************************************************)
(* What holds of parts of the JavaScript runtime for any number of stores, *)
(* resources, messages, listeners and promises: a callback finds the store *)
(* of what caused it; a promise combinator settles, with everything it was *)
(* told; and ports and broadcast channels neither forget nor reorder.      *)
(***************************************************************************)
EXTENDS AsyncContext, Combinators, Workers, SequenceTheorems, FiniteSetTheorems, TLAPS

-----------------------------------------------------------------------------
(* Sequences                                                               *)

LEMMA AppendIs ==
    ASSUME NEW S, NEW s \in Seq(S), NEW e \in S
    PROVE  /\ Append(s, e) \in Seq(S) /\ Len(s) \in Nat /\ Len(Append(s, e)) = Len(s) + 1
           /\ \A i \in 1 .. Len(s) : Append(s, e)[i] = s[i]
           /\ Append(s, e)[Len(s) + 1] = e
           /\ DOMAIN s = 1 .. Len(s) /\ DOMAIN Append(s, e) = 1 .. Len(s) + 1
  BY AppendProperties

LEMMA FrontIs ==
    ASSUME NEW S, NEW s \in Seq(S), s # <<>>
    PROVE  /\ Front(s) \in Seq(S) /\ Len(s) \in Nat \ {0} /\ Len(Front(s)) = Len(s) - 1
           /\ \A i \in 1 .. Len(s) - 1 : Front(s)[i] = s[i]
           /\ DOMAIN s = 1 .. Len(s) /\ DOMAIN Front(s) = 1 .. Len(s) - 1
           /\ Last(s) = s[Len(s)]
  BY DEF Front, Last

-----------------------------------------------------------------------------
(* The store of a callback (async_hooks.js)                                *)

(* The program does not schedule inside the executor of a promise, and     *)
(* does not use the storage inside exit: with either habit the store is    *)
(* lost.                                                                   *)
PlainHabits == Habits \cap {"executor", "exit"} = {}

Callbacks == {"reaction", "timer", "interval", "bound"}
Value == Stores \cup {NoStore}
Callback == [id : Nat, kind : Callbacks, of : Nat, meant : Value]
Frame == [kind : {"run"}, set : BOOLEAN, old : Value] \cup [kind : {"exit", "executor"}]
         \cup [kind : Callbacks, callback : Callback, cleared : BOOLEAN]

ContextTyped ==
    /\ resource \in Nat /\ resourceStack \in Seq(Nat)
    /\ store \in Seq(Value) /\ destroys \in Seq(Nat) /\ Len(destroys) = Len(store)
    /\ scope \in Seq(Value) /\ nested \in Seq(Frame) /\ Len(scope) = Len(nested) + 1
    /\ pending \subseteq Callback /\ enabled \in BOOLEAN

(* The resources of the callbacks under way, the innermost last.           *)
Running == Append(resourceStack, resource)

(* F says which frames are the callbacks: each runs under its own resource *)
(* and, when it returns, finds in the store of the one below what the code *)
(* around it means.                                                        *)
FramesMatch(F) ==
    /\ F \in Seq(Nat) /\ Len(F) = Len(resourceStack)
    /\ \A k, l \in 1 .. Len(F) : k < l => F[k] < F[l]
    /\ \A k \in 1 .. Len(F) :
         /\ F[k] \in 1 .. Len(nested) /\ nested[F[k]].kind \in Callbacks
         /\ store[Running[k]] = scope[F[k]]
         /\ Running[k + 1] = nested[F[k]].callback.id
    /\ \A i \in 1 .. Len(nested) : nested[i].kind \in Callbacks => \E k \in 1 .. Len(F) : F[k] = i

(* A resource runs once at a time, or waits for its callback with the      *)
(* store that was meant for it, not destroyed.                             *)
Owned ==
    /\ \A k \in 1 .. Len(resourceStack) + 1 : Running[k] \in 1 .. Len(store)
    /\ \A k, l \in 1 .. Len(resourceStack) + 1 : Running[k] = Running[l] => k = l
    /\ \A p \in pending :
         /\ p.id \in 1 .. Len(store) /\ p.of = p.id
         /\ store[p.id] = p.meant /\ destroys[p.id] = 0
         /\ \A k \in 1 .. Len(resourceStack) + 1 : Running[k] # p.id
         /\ \A q \in pending : q.id = p.id => q = p

(* What the other frames give back when they end.                          *)
Framed ==
    /\ enabled <=> \A i \in 1 .. Len(nested) : nested[i].kind # "exit"
    /\ \A i \in 1 .. Len(nested) :
         /\ nested[i].kind = "run" /\ nested[i].set => nested[i].old = scope[i]
         /\ nested[i].kind = "exit" => i = Len(nested) /\ store[resource] = scope[i]
         /\ nested[i].kind \in Callbacks =>
              /\ nested[i].callback.of = nested[i].callback.id
              /\ ~nested[i].cleared => destroys[nested[i].callback.id] = 0

ContextInv == /\ ContextTyped /\ Owned /\ Framed /\ StoreFollowsCause
              /\ \E F : FramesMatch(F)

LEMMA ContextInitInv == ContextInit => ContextInv
<1>1. SUFFICES ASSUME ContextInit PROVE ContextInv
  OBVIOUS
<1>2. NoStore \in Value
  BY DEF Value
<1>3. /\ resourceStack = <<>> /\ nested = <<>> /\ store = <<NoStore>> /\ destroys = <<0>>
      /\ scope = <<NoStore>> /\ pending = {} /\ enabled = TRUE /\ resource = 1
  BY <1>1 DEF ContextInit
<1>4. Running = <<1>>
  BY <1>3 DEF Running
<1>5. ContextTyped
  BY <1>2, <1>3 DEF ContextTyped
<1>6. Owned /\ Framed
  BY <1>3, <1>4 DEF Owned, Framed
<1>7. StoreFollowsCause
  BY <1>3 DEF StoreFollowsCause, GetStore, Meant, Last
<1>8. FramesMatch(<<>>)
  BY <1>3, <1>4 DEF FramesMatch
<1> QED
  BY <1>5, <1>6, <1>7, <1>8 DEF ContextInv

LEMMA RunningIs ==
    ASSUME ContextTyped
    PROVE  /\ Running \in Seq(Nat) /\ Len(resourceStack) \in Nat
           /\ \A k \in 1 .. Len(resourceStack) : Running[k] = resourceStack[k]
           /\ Running[Len(resourceStack) + 1] = resource
           /\ Len(store) \in Nat /\ Len(nested) \in Nat /\ Len(scope) \in Nat
           /\ DOMAIN nested = 1 .. Len(nested) /\ DOMAIN store = 1 .. Len(store)
  BY AppendIs DEF ContextTyped, Running

LEMMA AllowedIs ==
    ASSUME ContextInv, PlainHabits, Allowed
    PROVE  enabled /\ store[resource] = Meant /\ Meant = scope[Len(nested) + 1]
           /\ \A i \in 1 .. Len(nested) : nested[i].kind # "exit"
<1>1. DOMAIN nested = 1 .. Len(nested)
  BY RunningIs DEF ContextInv
<1>2. ~InFrame("exit")
  BY DEF Allowed, PlainHabits
<1>3. \A i \in 1 .. Len(nested) : nested[i].kind # "exit"
  BY <1>1, <1>2 DEF InFrame
<1>4. enabled
  BY <1>3 DEF ContextInv, Framed
<1> QED
  BY <1>3, <1>4 DEF ContextInv, StoreFollowsCause, GetStore, Meant, Last, ContextTyped

LEMMA TopIs ==
    ASSUME ContextInv
    PROVE  /\ resource \in 1 .. Len(store) /\ GetStore = Meant /\ Meant = scope[Len(nested) + 1]
           /\ GetStore \in Value /\ Meant \in Value /\ store[resource] \in Value
           /\ \A k \in 1 .. Len(resourceStack) : Running[k] # resource /\ Running[k] \in 1 .. Len(store)
<1>1. resource \in 1 .. Len(store)
  BY RunningIs DEF ContextInv, Owned
<1>2. store[resource] \in Value /\ NoStore \in Value
  BY <1>1 DEF ContextInv, ContextTyped, Value
<1>3. Meant = scope[Len(nested) + 1]
  BY DEF ContextInv, ContextTyped, Meant, Last
<1>4. \A k \in 1 .. Len(resourceStack) : Running[k] # resource /\ Running[k] \in 1 .. Len(store)
  <2>1. \A k \in 1 .. Len(resourceStack) :
          /\ k \in 1 .. Len(resourceStack) + 1 /\ k # Len(resourceStack) + 1
          /\ Len(resourceStack) + 1 \in 1 .. Len(resourceStack) + 1
    BY RunningIs DEF ContextInv
  <2> QED
    BY <2>1, RunningIs DEF ContextInv, Owned
<1> QED
  BY <1>1, <1>2, <1>3, <1>4 DEF ContextInv, StoreFollowsCause, GetStore

(* The callbacks under way have resources of their own.                    *)
LEMMA CallbackRuns ==
    ASSUME ContextInv, NEW F, FramesMatch(F),
           NEW i \in 1 .. Len(nested), nested[i].kind \in Callbacks
    PROVE  /\ \E k \in 1 .. Len(resourceStack) : F[k] = i /\ nested[i].callback.id = Running[k + 1]
           /\ nested[i].callback.id \in 1 .. Len(store)
           /\ \A p \in pending : p.id # nested[i].callback.id
<1>1. PICK k \in 1 .. Len(F) : F[k] = i
  BY DEF FramesMatch
<1>2. k \in 1 .. Len(resourceStack) /\ nested[i].callback.id = Running[k + 1]
  BY <1>1 DEF FramesMatch
<1>3. k + 1 \in 1 .. Len(resourceStack) + 1
  BY <1>2, RunningIs DEF ContextInv
<1> QED
  BY <1>1, <1>2, <1>3 DEF ContextInv, Owned

(* Scheduling.                                                             *)
LEMMA NewResourceInv ==
    ASSUME ContextInv, NEW kind \in Callbacks, NewResource(kind, TRUE)
    PROVE  ContextInv'
<1>1. PICK F : FramesMatch(F)
  BY DEF ContextInv
<1>2. PICK r : r = Len(store) + 1
  OBVIOUS
<1>3. PICK p : p = [id |-> r, kind |-> kind, of |-> r, meant |-> Meant]
  OBVIOUS
<1>4. /\ resource' = resource /\ resourceStack' = resourceStack /\ nested' = nested
      /\ scope' = scope /\ enabled' = enabled
      /\ store' = Append(store, GetStore) /\ destroys' = Append(destroys, 0)
      /\ pending' = pending \cup {p}
  BY <1>2, <1>3 DEF NewResource, callVars
<1>5. /\ r \in Nat /\ Len(store') = r /\ Len(destroys') = r
      /\ store' \in Seq(Value) /\ destroys' \in Seq(Nat)
      /\ \A i \in 1 .. Len(store) : store'[i] = store[i] /\ destroys'[i] = destroys[i]
      /\ store'[r] = Meant /\ destroys'[r] = 0
      /\ p \in Callback
  BY <1>2, <1>3, <1>4, TopIs, AppendIs DEF ContextInv, ContextTyped, Callback
<1>6. Running' = Running
  BY <1>4 DEF Running
<1>7. ContextTyped'
  BY <1>4, <1>5 DEF ContextInv, ContextTyped
<1>8. Owned'
  <2>1. \A k \in 1 .. Len(resourceStack) + 1 : Running[k] \in 1 .. Len(store) /\ Running[k] # r
    BY <1>2, RunningIs DEF ContextInv, Owned
  <2>2. \A q \in pending : q.id \in 1 .. Len(store) /\ q.id # r
    BY <1>2, RunningIs DEF ContextInv, Owned
  <2> QED
    BY <1>2, <1>3, <1>4, <1>5, <1>6, <2>1, <2>2, RunningIs, SMTT(30) DEF ContextInv, Owned
<1>9. Framed'
  <2>1. \A i \in 1 .. Len(nested) : nested[i].kind \in Callbacks =>
          nested[i].callback.id \in 1 .. Len(store)
    BY <1>1, CallbackRuns
  <2>2. \A i \in 1 .. Len(nested) : nested[i].kind \in Callbacks =>
          destroys'[nested[i].callback.id] = destroys[nested[i].callback.id]
    BY <1>5, <2>1
  <2>3. store'[resource] = store[resource]
    BY <1>5, TopIs
  <2> QED
    BY <1>4, <2>2, <2>3 DEF ContextInv, Framed
<1>10. FramesMatch(F)'
  <2>1. \A k \in 1 .. Len(F) : store'[Running[k]] = store[Running[k]]
    BY <1>1, <1>5, TopIs DEF FramesMatch
  <2> QED
    BY <1>1, <1>4, <1>6, <2>1 DEF FramesMatch
<1>11. StoreFollowsCause'
  BY <1>4, <1>5, TopIs DEF ContextInv, StoreFollowsCause, GetStore, Meant
<1> QED
  BY <1>7, <1>8, <1>9, <1>10, <1>11 DEF ContextInv

LEMMA SchedulesInv ==
    ASSUME ContextInv, PlainHabits, Then \/ SetTimer \/ SetInterval \/ MakeResource
    PROVE  ContextInv'
<1>1. Allowed /\ enabled
  BY AllowedIs DEF Then, SetTimer, SetInterval, MakeResource
<1>2. \E kind \in Callbacks : NewResource(kind, TRUE)
  <2>1. Then => NewResource("reaction", TRUE)
    BY <1>1 DEF Then, PlainHabits
  <2>2. SetTimer => NewResource("timer", TRUE)
    BY <1>1 DEF SetTimer
  <2>3. SetInterval => NewResource("interval", TRUE)
    BY <1>1 DEF SetInterval
  <2>4. MakeResource => NewResource("bound", TRUE)
    BY DEF MakeResource
  <2> QED
    BY <2>1, <2>2, <2>3, <2>4 DEF Callbacks
<1> QED
  BY <1>2, NewResourceInv

LEMMA ClearTimerInv ==
    ASSUME ContextInv, NEW p, ClearTimer(p)
    PROVE  ContextInv'
<1>1. PICK F : FramesMatch(F)
  BY DEF ContextInv
<1>2. /\ resource' = resource /\ resourceStack' = resourceStack /\ nested' = nested
      /\ scope' = scope /\ enabled' = enabled /\ store' = store
      /\ p \in pending /\ pending' = pending \ {p}
  BY DEF ClearTimer, callVars
<1>3. /\ p.id \in 1 .. Len(store) /\ p.of = p.id /\ p.id \in Nat /\ Len(destroys) = Len(store)
      /\ destroys \in Seq(Nat)
  BY <1>2 DEF ContextInv, ContextTyped, Owned
<1>4. p.of # 0
  BY <1>3
<1>5. destroys' = [destroys EXCEPT ![p.id] = @ + 1]
  BY <1>4 DEF ClearTimer
<1>6. /\ destroys' \in Seq(Nat) /\ Len(destroys') = Len(destroys)
      /\ \A i \in 1 .. Len(store) : i # p.id => destroys'[i] = destroys[i]
  BY <1>3, <1>5
<1>7. Running' = Running
  BY <1>2 DEF Running
<1>8. ContextTyped'
  BY <1>2, <1>6 DEF ContextInv, ContextTyped
<1>9. Owned'
  BY <1>2, <1>3, <1>6, <1>7 DEF ContextInv, Owned
<1>10. Framed'
  <2>1. \A i \in 1 .. Len(nested) : nested[i].kind \in Callbacks =>
          nested[i].callback.id \in 1 .. Len(store) /\ nested[i].callback.id # p.id
    BY <1>1, <1>2, CallbackRuns
  <2> QED
    BY <1>2, <1>6, <2>1, SMTT(30) DEF ContextInv, Framed
<1>11. FramesMatch(F)'
  BY <1>1, <1>2, <1>7 DEF FramesMatch
<1>12. StoreFollowsCause'
  BY <1>2 DEF ContextInv, StoreFollowsCause, GetStore, Meant
<1> QED
  BY <1>8, <1>9, <1>10, <1>11, <1>12 DEF ContextInv

(* enterWith and run, which set the store of the resource that runs.       *)
LEMMA SetsStore ==
    ASSUME ContextInv, NEW v \in Value, store' = [store EXCEPT ![resource] = v],
           resource' = resource, resourceStack' = resourceStack, destroys' = destroys
    PROVE  /\ store' \in Seq(Value) /\ Len(store') = Len(store) /\ store'[resource] = v
           /\ \A i \in 1 .. Len(store) : i # resource => store'[i] = store[i]
           /\ Running' = Running
           /\ pending' = pending => Owned'
           /\ \A k \in 1 .. Len(resourceStack) : store'[Running[k]] = store[Running[k]]
<1>1. store' \in Seq(Value) /\ Len(store') = Len(store) /\ store'[resource] = v
  BY TopIs DEF ContextInv, ContextTyped
<1>2. \A i \in 1 .. Len(store) : i # resource => store'[i] = store[i]
  BY TopIs DEF ContextInv, ContextTyped
<1>3. Running' = Running
  BY DEF Running
<1>4. \A p \in pending : p.id \in 1 .. Len(store) /\ p.id # resource
  BY RunningIs DEF ContextInv, Owned
<1>5. pending' = pending => Owned'
  BY <1>1, <1>2, <1>3, <1>4 DEF ContextInv, Owned
<1>6. \A k \in 1 .. Len(resourceStack) : store'[Running[k]] = store[Running[k]]
  BY <1>2, TopIs
<1> QED
  BY <1>1, <1>2, <1>3, <1>5, <1>6

LEMMA EnterWithInv ==
    ASSUME ContextInv, PlainHabits, NEW s \in Stores, EnterWith(s)
    PROVE  ContextInv'
<1>1. PICK F : FramesMatch(F)
  BY DEF ContextInv
<1>2. PICK n : n = Len(nested)
  OBVIOUS
<1>3. /\ resource' = resource /\ resourceStack' = resourceStack /\ nested' = nested
      /\ destroys' = destroys /\ pending' = pending /\ enabled' = TRUE
      /\ store' = [store EXCEPT ![resource] = s] /\ scope' = Front(scope) \o <<s>>
      /\ s \in Value
  BY DEF EnterWith, Means, Value
<1>4. enabled /\ \A i \in 1 .. n : nested[i].kind # "exit"
  BY <1>2, AllowedIs DEF EnterWith
<1>5. /\ n \in Nat /\ Len(scope) = n + 1 /\ scope' \in Seq(Value) /\ Len(scope') = n + 1
      /\ \A i \in 1 .. n : scope'[i] = scope[i]
      /\ scope'[n + 1] = s
  <2>1. scope \in Seq(Value) /\ scope # <<>> /\ Len(scope) = n + 1 /\ n \in Nat
    BY <1>2, RunningIs DEF ContextInv, ContextTyped
  <2>2. PICK f \in Seq(Value) : f = Front(scope) /\ Len(f) = n /\ \A i \in 1 .. n : f[i] = scope[i]
    BY <2>1, FrontIs
  <2>3. scope' = f \o <<s>>
    BY <1>3, <2>2
  <2> QED
    BY <1>3, <2>1, <2>2, <2>3
<1>6. /\ store' \in Seq(Value) /\ Len(store') = Len(store) /\ store'[resource] = s
      /\ Running' = Running /\ Owned'
      /\ \A k \in 1 .. Len(resourceStack) : store'[Running[k]] = store[Running[k]]
  BY <1>3, SetsStore
<1>7. ContextTyped'
  BY <1>2, <1>3, <1>5, <1>6 DEF ContextInv, ContextTyped
<1>8. Framed'
  BY <1>2, <1>3, <1>4, <1>5 DEF ContextInv, Framed
<1>9. FramesMatch(F)'
  BY <1>1, <1>2, <1>3, <1>5, <1>6 DEF FramesMatch
<1>10. StoreFollowsCause'
  BY <1>3, <1>5, <1>6 DEF StoreFollowsCause, GetStore, Meant, Last
<1> QED
  BY <1>6, <1>7, <1>8, <1>9, <1>10 DEF ContextInv

(* A frame opens or closes that is not a callback.                         *)
LEMMA Opens ==
    ASSUME ContextInv, NEW f \in Frame, f.kind \notin Callbacks, NEW v \in Value,
           nested' = Append(nested, f), scope' = Append(scope, v),
           UNCHANGED <<resource, resourceStack>>,
           \A k \in 1 .. Len(resourceStack) : store'[Running[k]] = store[Running[k]]
    PROVE  /\ nested' \in Seq(Frame) /\ scope' \in Seq(Value) /\ Len(scope') = Len(nested') + 1
           /\ Len(nested') = Len(nested) + 1 /\ Len(nested) \in Nat
           /\ nested'[Len(nested) + 1] = f /\ scope'[Len(nested) + 2] = v
           /\ \A i \in 1 .. Len(nested) : nested'[i] = nested[i]
           /\ \A i \in 1 .. Len(nested) + 1 : scope'[i] = scope[i]
           /\ \E F : FramesMatch(F)'
<1>1. PICK F : FramesMatch(F)
  BY SMTT(30) DEF ContextInv
<1>2. PICK n \in Nat : n = Len(nested)
  BY RunningIs DEF ContextInv
<1>3. /\ nested' \in Seq(Frame) /\ Len(nested') = n + 1 /\ nested'[n + 1] = f
      /\ \A i \in 1 .. n : nested'[i] = nested[i]
  BY <1>2, AppendIs DEF ContextInv, ContextTyped
<1>4. /\ scope' \in Seq(Value) /\ Len(scope') = n + 2 /\ scope'[n + 2] = v
      /\ \A i \in 1 .. n + 1 : scope'[i] = scope[i]
  <2>1. scope \in Seq(Value) /\ Len(scope) = n + 1
    BY <1>2 DEF ContextInv, ContextTyped
  <2> QED
    BY <2>1, AppendIs
<1>5. Running' = Running
  BY DEF Running
<1>6. FramesMatch(F)'
  <2>1. \A k \in 1 .. Len(F) : F[k] \in 1 .. n /\ F[k] \in 1 .. n + 1
    BY <1>1, <1>2, SMTT(30) DEF FramesMatch
  <2>2. \A k \in 1 .. Len(F) : nested'[F[k]] = nested[F[k]] /\ scope'[F[k]] = scope[F[k]]
    BY <1>3, <1>4, <2>1
  <2>3. \A i \in 1 .. n + 1 : nested'[i].kind \in Callbacks => i \in 1 .. n /\ nested'[i] = nested[i]
    BY <1>3
  <2>4. ASSUME NEW k \in 1 .. Len(F)
        PROVE  /\ F[k] \in 1 .. Len(nested') /\ nested'[F[k]].kind \in Callbacks
               /\ store'[Running'[k]] = scope'[F[k]]
               /\ Running'[k + 1] = nested'[F[k]].callback.id
    <3>1. /\ nested[F[k]].kind \in Callbacks /\ store[Running[k]] = scope[F[k]]
          /\ Running[k + 1] = nested[F[k]].callback.id /\ k \in 1 .. Len(resourceStack)
      BY <1>1 DEF FramesMatch
    <3> QED
      BY <1>3, <1>5, <2>1, <2>2, <3>1
  <2>5. \A i \in 1 .. Len(nested') : nested'[i].kind \in Callbacks => \E k \in 1 .. Len(F) : F[k] = i
    BY <1>1, <1>2, <1>3, <2>3 DEF FramesMatch
  <2> QED
    BY <1>1, <2>4, <2>5 DEF FramesMatch
<1> QED
  BY <1>2, <1>3, <1>4, <1>6

LEMMA RunWithInv ==
    ASSUME ContextInv, PlainHabits, NEW s \in Stores, RunWith(s)
    PROVE  ContextInv'
<1>1. PICK n \in Nat : n = Len(nested)
  BY RunningIs DEF ContextInv
<1>2. PICK f : f = [kind |-> "run", set |-> s # GetStore, old |-> store[resource]]
  OBVIOUS
<1>3. /\ f \in Frame /\ f.kind = "run" /\ f.set = (s # GetStore) /\ f.old = store[resource]
      /\ s \in Value
  BY <1>2, TopIs DEF Frame, Value
<1>4. /\ resource' = resource /\ resourceStack' = resourceStack /\ destroys' = destroys
      /\ pending' = pending
      /\ nested' = Append(nested, f) /\ scope' = Append(scope, s)
      /\ store' = [store EXCEPT ![resource] = s]
      /\ enabled' = TRUE
  <2>1. CASE s = GetStore
    <3>1. store' = store /\ enabled' = enabled
      BY <2>1 DEF RunWith
    <3>2. enabled /\ store[resource] = s
      BY <2>1, AllowedIs, TopIs DEF RunWith
    <3>3. store' = [store EXCEPT ![resource] = s]
      BY <3>1, <3>2, TopIs DEF ContextInv, ContextTyped
    <3> QED
      BY <1>2, <3>1, <3>2, <3>3 DEF RunWith, ContextInv, ContextTyped
  <2>2. CASE s # GetStore
    BY <1>2, <2>2 DEF RunWith
  <2> QED
    BY <2>1, <2>2
<1>5. enabled /\ store[resource] = scope[n + 1] /\ \A i \in 1 .. n : nested[i].kind # "exit"
  BY <1>1, AllowedIs DEF RunWith
<1>6. /\ store' \in Seq(Value) /\ Len(store') = Len(store) /\ store'[resource] = s
      /\ Running' = Running /\ Owned'
      /\ \A k \in 1 .. Len(resourceStack) : store'[Running[k]] = store[Running[k]]
  BY <1>3, <1>4, SetsStore
<1>7. /\ nested' \in Seq(Frame) /\ scope' \in Seq(Value) /\ Len(scope') = n + 2 /\ Len(nested') = n + 1
      /\ nested'[n + 1] = f /\ scope'[n + 2] = s
      /\ \A i \in 1 .. n : nested'[i] = nested[i]
      /\ \A i \in 1 .. n + 1 : scope'[i] = scope[i]
      /\ \E F : FramesMatch(F)'
  <2>1. f.kind \notin Callbacks
    BY <1>3 DEF Callbacks
  <2> QED
    BY <1>1, <1>3, <1>4, <1>6, <2>1, Opens
<1>8. ContextTyped'
  BY <1>4, <1>6, <1>7 DEF ContextInv, ContextTyped
<1>9. Framed'
  <2>1. \A i \in 1 .. n + 1 : nested'[i].kind # "exit"
    BY <1>3, <1>5, <1>7
  <2>2. ASSUME NEW i \in 1 .. n
        PROVE  /\ nested'[i].kind = "run" /\ nested'[i].set => nested'[i].old = scope'[i]
               /\ nested'[i].kind \in Callbacks =>
                    /\ nested'[i].callback.of = nested'[i].callback.id
                    /\ ~nested'[i].cleared => destroys'[nested'[i].callback.id] = 0
    BY <1>1, <1>4, <1>7, <2>2 DEF ContextInv, Framed
  <2>3. nested'[n + 1].kind \notin Callbacks /\ nested'[n + 1].old = scope'[n + 1]
    BY <1>3, <1>5, <1>7 DEF Callbacks
  <2> QED
    BY <1>4, <1>7, <2>1, <2>2, <2>3 DEF Framed
<1>10. StoreFollowsCause'
  BY <1>4, <1>6, <1>7 DEF StoreFollowsCause, GetStore, Meant, Last
<1> QED
  BY <1>6, <1>7, <1>8, <1>9, <1>10 DEF ContextInv

LEMMA Closes ==
    ASSUME ContextInv, nested # <<>>, Last(nested).kind \notin Callbacks,
           nested' = Front(nested), UNCHANGED <<resource, resourceStack>>,
           \A i \in 1 .. Len(nested) - 1 : scope'[i] = scope[i],
           \A k \in 1 .. Len(resourceStack) : store'[Running[k]] = store[Running[k]]
    PROVE  /\ nested' \in Seq(Frame) /\ Len(nested') = Len(nested) - 1 /\ Len(nested) \in Nat \ {0}
           /\ \A i \in 1 .. Len(nested) - 1 : nested'[i] = nested[i]
           /\ \E F : FramesMatch(F)'
<1>1. PICK F : FramesMatch(F)
  BY DEF ContextInv
<1>2. PICK n \in Nat : n = Len(nested)
  BY RunningIs DEF ContextInv
<1>3. /\ n \in Nat \ {0} /\ nested' \in Seq(Frame) /\ Len(nested') = n - 1
      /\ \A i \in 1 .. n - 1 : nested'[i] = nested[i]
      /\ nested[n].kind \notin Callbacks
  BY <1>2, FrontIs, SMTT(30) DEF ContextInv, ContextTyped
<1>4. Running' = Running
  BY DEF Running
<1>5. FramesMatch(F)'
  <2>1. \A k \in 1 .. Len(F) : F[k] \in 1 .. n - 1
    BY <1>1, <1>2, <1>3, SMTT(30) DEF FramesMatch
  <2>2. \A k \in 1 .. Len(F) : nested'[F[k]] = nested[F[k]] /\ scope'[F[k]] = scope[F[k]]
    BY <1>2, <1>3, <2>1
  <2>3. \A i \in 1 .. n - 1 : i \in 1 .. n /\ nested'[i] = nested[i]
    BY <1>3
  <2>4. ASSUME NEW k \in 1 .. Len(F)
        PROVE  /\ F[k] \in 1 .. Len(nested') /\ nested'[F[k]].kind \in Callbacks
               /\ store'[Running'[k]] = scope'[F[k]]
               /\ Running'[k + 1] = nested'[F[k]].callback.id
    <3>1. k \in 1 .. Len(resourceStack)
      BY <1>1 DEF FramesMatch
    <3>2. store'[Running[k]] = store[Running[k]]
      BY <3>1
    <3> QED
      BY <1>1, <1>3, <1>4, <2>1, <2>2, <3>2 DEF FramesMatch
  <2>5. ASSUME NEW i \in 1 .. Len(nested'), nested'[i].kind \in Callbacks
        PROVE  \E k \in 1 .. Len(F) : F[k] = i
    BY <1>1, <1>2, <1>3, <2>3, <2>5 DEF FramesMatch
  <2> QED
    BY <1>1, <2>4, <2>5 DEF FramesMatch
<1> QED
  BY <1>2, <1>3, <1>5, SMTT(30)

(* The stores and the callbacks that wait are not touched.                 *)
LEMMA SameStores ==
    ASSUME ContextInv, UNCHANGED <<resource, resourceStack, store, destroys, pending>>
    PROVE  /\ Owned'
           /\ \A k \in 1 .. Len(resourceStack) : store'[Running[k]] = store[Running[k]]
<1>1. Running' = Running
  BY DEF Running
<1> QED
  BY <1>1 DEF ContextInv, Owned

(* A call returns, with the scope around it or the one it leaves behind.   *)
LEMMA ScopeCloses ==
    ASSUME ContextInv, NEW n \in Nat \ {0}, n = Len(nested), NEW b \in BOOLEAN,
           scope' = IF b THEN Front(scope) ELSE Front(Front(scope)) \o <<Meant>>
    PROVE  /\ scope' \in Seq(Value) /\ Len(scope') = n
           /\ \A i \in 1 .. n - 1 : scope'[i] = scope[i]
           /\ scope'[n] = IF b THEN scope[n] ELSE scope[n + 1]
<1>1. scope \in Seq(Value) /\ scope # <<>> /\ Len(scope) = n + 1
  BY DEF ContextInv, ContextTyped
<1>2. PICK g \in Seq(Value) : g = Front(scope) /\ Len(g) = n /\ \A i \in 1 .. n : g[i] = scope[i]
  BY <1>1, FrontIs
<1>3. CASE b
  BY <1>2, <1>3
<1>4. CASE ~b
  <2>1. g # <<>>
    BY <1>2
  <2>2. PICK h \in Seq(Value) : h = Front(g) /\ Len(h) = n - 1 /\ \A i \in 1 .. n - 1 : h[i] = g[i]
    BY <1>2, <2>1, FrontIs
  <2>3. Meant = scope[n + 1] /\ Meant \in Value
    BY TopIs
  <2>4. scope' = h \o <<scope[n + 1]>>
    BY <1>2, <1>4, <2>2, <2>3
  <2> QED
    BY <1>2, <1>4, <2>2, <2>3, <2>4
<1> QED
  BY <1>3, <1>4

LEMMA EndRunInv ==
    ASSUME ContextInv, EndRun
    PROVE  ContextInv'
<1>1. PICK n \in Nat : n = Len(nested)
  BY RunningIs DEF ContextInv
<1>2. PICK f : f = Last(nested)
  OBVIOUS
<1>3. /\ nested # <<>> /\ f.kind = "run" /\ n \in Nat \ {0} /\ f = nested[n] /\ f \in Frame
      /\ f.set \in BOOLEAN /\ f.old \in Value /\ Len(scope) = n + 1
  <2>1. nested # <<>> /\ f.kind = "run"
    BY <1>2 DEF EndRun
  <2>2. n \in Nat \ {0} /\ f = nested[n] /\ nested \in Seq(Frame) /\ f \in Frame
    <3>1. nested \in Seq(Frame)
      BY DEF ContextInv, ContextTyped
    <3>2. f = nested[n] /\ n \in Nat \ {0}
      BY <1>1, <1>2, <2>1, <3>1, FrontIs
    <3>3. n \in 1 .. Len(nested)
      BY <1>1, <3>2
    <3> QED
      BY <3>1, <3>2, <3>3
  <2>3. f.set \in BOOLEAN /\ f.old \in Value
    BY <2>1, <2>2 DEF Frame, Callbacks
  <2> QED
    BY <1>1, <2>1, <2>2, <2>3 DEF ContextInv, ContextTyped
<1>4. /\ resource' = resource /\ resourceStack' = resourceStack /\ destroys' = destroys
      /\ pending' = pending /\ enabled' = enabled /\ nested' = Front(nested)
      /\ store' = IF f.set THEN [store EXCEPT ![resource] = f.old] ELSE store
      /\ scope' = IF f.set THEN Front(scope) ELSE Front(Front(scope)) \o <<Meant>>
  BY <1>2 DEF EndRun
<1>5. \A i \in 1 .. n : nested[i].kind # "exit"
  <2>1. \A i \in 1 .. n : nested[i].kind = "exit" => i = n
    BY <1>1 DEF ContextInv, Framed
  <2> QED
    BY <1>3, <2>1
<1>6. enabled /\ store[resource] = scope[n + 1] /\ Meant = scope[n + 1] /\ scope[n + 1] \in Value
  <2>1. enabled
    BY <1>1, <1>5 DEF ContextInv, Framed
  <2> QED
    BY <1>1, <2>1, TopIs DEF GetStore
<1>7. /\ store' \in Seq(Value) /\ Len(store') = Len(store) /\ Owned'
      /\ \A k \in 1 .. Len(resourceStack) : store'[Running[k]] = store[Running[k]]
      /\ store'[resource] = IF f.set THEN f.old ELSE scope[n + 1]
  <2>1. CASE f.set
    BY <1>3, <1>4, <2>1, SetsStore
  <2>2. CASE ~f.set
    BY <1>4, <1>6, <2>2, SameStores DEF ContextInv, ContextTyped
  <2> QED
    BY <1>3, <2>1, <2>2
<1>8. /\ scope' \in Seq(Value) /\ Len(scope') = n
      /\ \A i \in 1 .. n - 1 : scope'[i] = scope[i]
      /\ scope'[n] = IF f.set THEN scope[n] ELSE scope[n + 1]
  BY <1>1, <1>3, <1>4, ScopeCloses
<1>9. /\ nested' \in Seq(Frame) /\ Len(nested') = n - 1
      /\ \A i \in 1 .. n - 1 : nested'[i] = nested[i]
      /\ \E F : FramesMatch(F)'
  <2>1. Last(nested).kind \notin Callbacks
    BY <1>2, <1>3 DEF Callbacks
  <2> QED
    BY <1>1, <1>3, <1>4, <1>7, <1>8, <2>1, Closes
<1>10. ContextTyped'
  BY <1>3, <1>4, <1>7, <1>8, <1>9 DEF ContextInv, ContextTyped
<1>11. Framed'
  <2>1. \A i \in 1 .. n - 1 : i \in 1 .. n /\ nested'[i] = nested[i] /\ scope'[i] = scope[i]
    BY <1>8, <1>9
  <2>2. ASSUME NEW i \in 1 .. n - 1
        PROVE  /\ nested'[i].kind = "run" /\ nested'[i].set => nested'[i].old = scope'[i]
               /\ nested'[i].kind # "exit"
               /\ nested'[i].kind \in Callbacks =>
                    /\ nested'[i].callback.of = nested'[i].callback.id
                    /\ ~nested'[i].cleared => destroys'[nested'[i].callback.id] = 0
    <3>1. i \in 1 .. Len(nested)
      BY <1>1, <2>1
    <3>2. /\ nested[i].kind = "run" /\ nested[i].set => nested[i].old = scope[i]
          /\ nested[i].kind # "exit"
          /\ nested[i].kind \in Callbacks =>
               /\ nested[i].callback.of = nested[i].callback.id
               /\ ~nested[i].cleared => destroys[nested[i].callback.id] = 0
      BY <1>1, <1>5, <3>1 DEF ContextInv, Framed
    <3> QED
      BY <1>4, <2>1, <3>2
  <2> QED
    BY <1>4, <1>6, <1>9, <2>2 DEF Framed
<1>12. store'[resource] = scope'[n]
  <2>1. f.set => f.old = scope[n]
    BY <1>1, <1>3 DEF ContextInv, Framed
  <2> QED
    BY <1>7, <1>8, <2>1
<1>13. StoreFollowsCause'
  BY <1>4, <1>6, <1>8, <1>12 DEF StoreFollowsCause, GetStore, Meant, Last
<1> QED
  BY <1>7, <1>9, <1>10, <1>11, <1>13, SMTT(30) DEF ContextInv

(* exit and the executor of a promise.                                     *)
LEMMA OpensInv ==
    ASSUME ContextInv, PlainHabits, Exit \/ NewPromise
    PROVE  ContextInv'
<1>1. PICK n \in Nat : n = Len(nested)
  BY RunningIs DEF ContextInv
<1>2. Allowed
  BY DEF Exit, NewPromise
<1>3. PICK f, v : /\ f = [kind |-> IF Exit THEN "exit" ELSE "executor"]
                  /\ v = IF Exit THEN NoStore ELSE Meant
  OBVIOUS
<1>4. /\ resource' = resource /\ resourceStack' = resourceStack /\ destroys' = destroys
      /\ pending' = pending /\ store' = store /\ enabled' = (IF Exit THEN FALSE ELSE enabled)
      /\ nested' = Append(nested, f) /\ scope' = Append(scope, v)
  BY <1>3 DEF Exit, NewPromise
<1>5. f \in Frame /\ f.kind \in {"exit", "executor"} /\ (f.kind = "exit" <=> Exit) /\ v \in Value
  <2>1. f.kind = IF Exit THEN "exit" ELSE "executor"
    BY <1>3
  <2>2. f \in [kind : {"exit", "executor"}]
    BY <1>3
  <2>3. v \in Value
    BY <1>3, TopIs DEF Value
  <2> QED
    BY <2>1, <2>2, <2>3 DEF Frame
<1>6. enabled /\ store[resource] = scope[n + 1] /\ \A i \in 1 .. n : nested[i].kind # "exit"
  BY <1>1, <1>2, AllowedIs
<1>7. /\ Owned' /\ \A k \in 1 .. Len(resourceStack) : store'[Running[k]] = store[Running[k]]
  BY <1>4, SameStores
<1>8. /\ nested' \in Seq(Frame) /\ scope' \in Seq(Value) /\ Len(scope') = n + 2 /\ Len(nested') = n + 1
      /\ nested'[n + 1] = f /\ scope'[n + 2] = v
      /\ \A i \in 1 .. n : nested'[i] = nested[i]
      /\ \A i \in 1 .. n + 1 : scope'[i] = scope[i]
      /\ \E F : FramesMatch(F)'
  <2>1. f.kind \notin Callbacks
    BY <1>5 DEF Callbacks
  <2> QED
    BY <1>1, <1>4, <1>5, <1>7, <2>1, Opens
<1>9. ContextTyped'
  <2>1. enabled' \in BOOLEAN
    BY <1>4, <1>6
  <2>2. Len(scope') = Len(nested') + 1
    BY <1>8
  <2> QED
    BY <1>4, <1>8, <2>1, <2>2 DEF ContextInv, ContextTyped
<1>10. Framed'
  <2>1. enabled' <=> \A i \in 1 .. n + 1 : nested'[i].kind # "exit"
    <3>1. \A i \in 1 .. n + 1 : i # n + 1 => nested'[i].kind # "exit"
      BY <1>6, <1>8
    <3> QED
      BY <1>4, <1>5, <1>6, <1>8, <3>1
  <2>2. ASSUME NEW i \in 1 .. n
        PROVE  /\ nested'[i].kind = "run" /\ nested'[i].set => nested'[i].old = scope'[i]
               /\ nested'[i].kind # "exit"
               /\ nested'[i].kind \in Callbacks =>
                    /\ nested'[i].callback.of = nested'[i].callback.id
                    /\ ~nested'[i].cleared => destroys'[nested'[i].callback.id] = 0
    BY <1>1, <1>4, <1>6, <1>8, <2>2 DEF ContextInv, Framed
  <2>3. /\ nested'[n + 1].kind \notin Callbacks /\ nested'[n + 1].kind # "run"
        /\ store'[resource'] = scope'[n + 1]
    BY <1>4, <1>5, <1>6, <1>8 DEF Callbacks
  <2> QED
    BY <1>8, <2>1, <2>2, <2>3 DEF Framed
<1>11. StoreFollowsCause'
  <2>1. Meant' = v
    BY <1>8 DEF Meant, Last
  <2>2. v = IF Exit THEN NoStore ELSE store[resource]
    BY <1>2, <1>3, AllowedIs
  <2> QED
    BY <1>4, <1>6, <2>1, <2>2 DEF StoreFollowsCause, GetStore
<1> QED
  BY <1>7, <1>8, <1>9, <1>10, <1>11, SMTT(30) DEF ContextInv

LEMMA ClosesInv ==
    ASSUME ContextInv, EndExit \/ ExecutorReturns
    PROVE  ContextInv'
<1>1. PICK n \in Nat : n = Len(nested)
  BY RunningIs DEF ContextInv
<1>2. PICK f : f = Last(nested)
  OBVIOUS
<1>3. /\ nested # <<>> /\ f.kind \in {"exit", "executor"} /\ (f.kind = "exit" <=> EndExit)
      /\ f \notin [kind : Callbacks, callback : Callback, cleared : BOOLEAN]
  BY <1>2 DEF EndExit, ExecutorReturns, Callbacks
<1>4. n \in Nat \ {0} /\ f = nested[n] /\ n \in 1 .. n
  <2>1. nested \in Seq(Frame)
    BY DEF ContextInv, ContextTyped
  <2>2. n \in Nat \ {0} /\ f = nested[n]
    BY <1>1, <1>2, <1>3, <2>1, FrontIs
  <2> QED
    BY <2>2
<1>5. /\ resource' = resource /\ resourceStack' = resourceStack /\ destroys' = destroys
      /\ pending' = pending /\ store' = store /\ nested' = Front(nested)
      /\ enabled' = (IF EndExit THEN TRUE ELSE enabled)
      /\ scope' = IF EndExit THEN Front(scope) ELSE Front(Front(scope)) \o <<Meant>>
  BY DEF EndExit, ExecutorReturns
<1>6. \A i \in 1 .. n - 1 : i \in 1 .. n /\ nested[i].kind # "exit"
  <2>1. \A i \in 1 .. n : nested[i].kind = "exit" => i = n
    BY <1>1 DEF ContextInv, Framed
  <2> QED
    BY <1>4, <2>1
<1>7. /\ Owned' /\ \A k \in 1 .. Len(resourceStack) : store'[Running[k]] = store[Running[k]]
  BY <1>5, SameStores
<1>8. /\ scope' \in Seq(Value) /\ Len(scope') = n
      /\ \A i \in 1 .. n - 1 : scope'[i] = scope[i]
      /\ scope'[n] = IF EndExit THEN scope[n] ELSE scope[n + 1]
  <2>1. PICK b \in BOOLEAN : b <=> EndExit
    OBVIOUS
  <2>2. scope' = IF b THEN Front(scope) ELSE Front(Front(scope)) \o <<Meant>>
    BY <1>5, <2>1
  <2> QED
    BY <1>1, <1>4, <2>1, <2>2, ScopeCloses
<1>9. /\ nested' \in Seq(Frame) /\ Len(nested') = n - 1
      /\ \A i \in 1 .. n - 1 : nested'[i] = nested[i]
      /\ \E F : FramesMatch(F)'
  <2>1. Last(nested).kind \notin Callbacks
    BY <1>2, <1>3 DEF Callbacks
  <2> QED
    BY <1>1, <1>3, <1>5, <1>7, <1>8, <2>1, Closes
<1>10. enabled'
  <2>1. CASE EndExit
    BY <1>5, <2>1
  <2>2. CASE ~EndExit
    <3>1. \A i \in 1 .. n : nested[i].kind # "exit"
      BY <1>3, <1>4, <1>6, <2>2
    <3> QED
      BY <1>1, <1>5, <2>2, <3>1 DEF ContextInv, Framed
  <2> QED
    BY <2>1, <2>2
<1>11. store[resource] = scope'[n]
  <2>1. CASE EndExit
    BY <1>1, <1>3, <1>4, <1>8, <2>1 DEF ContextInv, Framed
  <2>2. CASE ~EndExit
    BY <1>1, <1>5, <1>8, <1>10, <2>2, TopIs DEF GetStore
  <2> QED
    BY <2>1, <2>2
<1>12. ContextTyped'
  <2>1. enabled' \in BOOLEAN
    BY <1>5, <1>10 DEF ContextInv, ContextTyped
  <2>2. Len(scope') = Len(nested') + 1
    BY <1>4, <1>8, <1>9
  <2> QED
    BY <1>5, <1>8, <1>9, <2>1, <2>2 DEF ContextInv, ContextTyped
<1>13. Framed'
  <2>1. ASSUME NEW i \in 1 .. n - 1
        PROVE  /\ nested'[i].kind = "run" /\ nested'[i].set => nested'[i].old = scope'[i]
               /\ nested'[i].kind # "exit"
               /\ nested'[i].kind \in Callbacks =>
                    /\ nested'[i].callback.of = nested'[i].callback.id
                    /\ ~nested'[i].cleared => destroys'[nested'[i].callback.id] = 0
    <3>1. i \in 1 .. Len(nested) /\ nested[i].kind # "exit"
      BY <1>1, <1>6
    <3>2. /\ nested[i].kind = "run" /\ nested[i].set => nested[i].old = scope[i]
          /\ nested[i].kind \in Callbacks =>
               /\ nested[i].callback.of = nested[i].callback.id
               /\ ~nested[i].cleared => destroys[nested[i].callback.id] = 0
      BY <3>1 DEF ContextInv, Framed
    <3> QED
      BY <1>5, <1>8, <1>9, <3>1, <3>2
  <2> QED
    BY <1>9, <1>10, <2>1 DEF Framed
<1>14. StoreFollowsCause'
  BY <1>5, <1>8, <1>10, <1>11 DEF StoreFollowsCause, GetStore, Meant, Last
<1> QED
  BY <1>7, <1>9, <1>12, <1>13, <1>14, SMTT(30) DEF ContextInv

(* No two callbacks under way share a resource.                            *)
LEMMA CallbacksApart ==
    ASSUME ContextInv, NEW i \in 1 .. Len(nested), nested[i].kind \in Callbacks,
           NEW j \in 1 .. Len(nested), nested[j].kind \in Callbacks, i # j
    PROVE  nested[i].callback.id # nested[j].callback.id
<1>1. PICK F : FramesMatch(F)
  BY DEF ContextInv
<1>2. PICK k \in 1 .. Len(resourceStack) : F[k] = i /\ nested[i].callback.id = Running[k + 1]
  BY <1>1, CallbackRuns, SMTT(30)
<1>3. PICK l \in 1 .. Len(resourceStack) : F[l] = j /\ nested[j].callback.id = Running[l + 1]
  BY <1>1, CallbackRuns
<1>4. k # l /\ k + 1 # l + 1
  BY <1>2, <1>3
<1>5. k + 1 \in 1 .. Len(resourceStack) + 1 /\ l + 1 \in 1 .. Len(resourceStack) + 1
  BY <1>2, <1>3, RunningIs DEF ContextInv
<1> QED
  BY <1>2, <1>3, <1>4, <1>5 DEF ContextInv, Owned
LEMMA ClearOwnTimerInv ==
    ASSUME ContextInv, ClearOwnTimer
    PROVE  ContextInv'
<1>1. PICK F : FramesMatch(F)
  BY DEF ContextInv
<1>2. PICK n \in Nat : n = Len(nested)
  BY RunningIs DEF ContextInv
<1>3. PICK f, p, g : f = Last(nested) /\ p = f.callback /\ g = [f EXCEPT !.cleared = TRUE]
  OBVIOUS
<1>4. nested # <<>> /\ f.kind \in {"timer", "interval"} /\ f.kind \in Callbacks
  BY <1>3 DEF ClearOwnTimer, Callbacks
<1>5. /\ n \in Nat \ {0} /\ f = nested[n] /\ n \in 1 .. n /\ nested \in Seq(Frame)
      /\ Front(nested) \in Seq(Frame) /\ Len(Front(nested)) = n - 1
      /\ \A i \in 1 .. n - 1 : Front(nested)[i] = nested[i]
  <2>1. nested \in Seq(Frame)
    BY DEF ContextInv, ContextTyped
  <2>2. n \in Nat \ {0} /\ f = nested[n]
    BY <1>2, <1>3, <1>4, <2>1, FrontIs
  <2> QED
    BY <1>2, <1>4, <2>1, <2>2, FrontIs
<1>6. f \in [kind : Callbacks, callback : Callback, cleared : BOOLEAN]
  BY <1>2, <1>4, <1>5 DEF Frame, Callbacks
<1>7. g \in Frame /\ g.kind = f.kind /\ g.callback = p /\ g.cleared
  BY <1>3, <1>6 DEF Frame
<1>8. /\ p.of = p.id /\ p.id \in 1 .. Len(store) /\ p.id \in Nat \ {0}
      /\ \A q \in pending : q.id # p.id
  BY <1>1, <1>2, <1>3, <1>4, <1>5, CallbackRuns DEF ContextInv, Framed
<1>9. /\ resource' = resource /\ resourceStack' = resourceStack /\ scope' = scope
      /\ store' = store /\ enabled' = enabled /\ pending' = pending
      /\ destroys' = [destroys EXCEPT ![p.id] = @ + 1]
      /\ nested' = Front(nested) \o <<g>>
  BY <1>3, <1>8 DEF ClearOwnTimer
<1>10. /\ destroys' \in Seq(Nat) /\ Len(destroys') = Len(destroys)
       /\ \A i \in 1 .. Len(store) : i # p.id => destroys'[i] = destroys[i]
  BY <1>8, <1>9 DEF ContextInv, ContextTyped
<1>11. /\ nested' \in Seq(Frame) /\ Len(nested') = n /\ nested'[n] = g
       /\ \A i \in 1 .. n - 1 : nested'[i] = nested[i]
  <2>1. PICK h \in Seq(Frame) : h = Front(nested) /\ Len(h) = n - 1 /\ \A i \in 1 .. n - 1 : h[i] = nested[i]
    BY <1>5
  <2> QED
    BY <1>5, <1>7, <1>9, <2>1
<1>12. \A i \in 1 .. n : /\ nested'[i].kind = nested[i].kind
                         /\ nested[i].kind \in Callbacks => nested'[i].callback = nested[i].callback
                         /\ i # n => nested'[i] = nested[i]
  <2>1. \A i \in 1 .. n : i = n \/ i \in 1 .. n - 1
    BY <1>5
  <2> QED
    BY <1>3, <1>5, <1>7, <1>11, <2>1
<1>13. Running' = Running
  BY <1>9 DEF Running
<1>14. ContextTyped'
  BY <1>2, <1>9, <1>10, <1>11 DEF ContextInv, ContextTyped
<1>15. Owned'
  BY <1>8, <1>9, <1>10, <1>13 DEF ContextInv, Owned
<1>16. Framed'
  <2>1. enabled' <=> \A i \in 1 .. n : nested'[i].kind # "exit"
    BY <1>2, <1>9, <1>12 DEF ContextInv, Framed
  <2>2. ASSUME NEW i \in 1 .. n
        PROVE  /\ nested'[i].kind = "run" /\ nested'[i].set => nested'[i].old = scope'[i]
               /\ nested'[i].kind = "exit" => i = n /\ store'[resource'] = scope'[i]
               /\ nested'[i].kind \in Callbacks =>
                    /\ nested'[i].callback.of = nested'[i].callback.id
                    /\ ~nested'[i].cleared => destroys'[nested'[i].callback.id] = 0
    <3>1. CASE i = n
      BY <1>4, <1>7, <1>8, <1>11, <3>1 DEF Callbacks
    <3>2. CASE i # n
      <4>1. nested'[i] = nested[i]
        BY <1>12, <3>2
      <4>2. nested[i].kind \in Callbacks =>
              nested[i].callback.id # p.id /\ nested[i].callback.id \in 1 .. Len(store)
        BY <1>1, <1>2, <1>3, <1>4, <1>5, <3>2, CallbacksApart, CallbackRuns
      <4>3. /\ nested[i].kind = "run" /\ nested[i].set => nested[i].old = scope[i]
            /\ nested[i].kind = "exit" => i = n /\ store[resource] = scope[i]
            /\ nested[i].kind \in Callbacks =>
                 /\ nested[i].callback.of = nested[i].callback.id
                 /\ ~nested[i].cleared => destroys[nested[i].callback.id] = 0
        BY <1>2 DEF ContextInv, Framed
      <4> QED
        BY <1>9, <1>10, <4>1, <4>2, <4>3
    <3> QED
      BY <3>1, <3>2
  <2> QED
    BY <1>11, <2>1, <2>2 DEF Framed
<1>17. FramesMatch(F)'
  BY <1>1, <1>2, <1>9, <1>11, <1>12, <1>13 DEF FramesMatch
<1>18. StoreFollowsCause'
  BY <1>9 DEF ContextInv, StoreFollowsCause, GetStore, Meant
<1> QED
  BY <1>14, <1>15, <1>16, <1>17, <1>18 DEF ContextInv

(* A callback begins under its own resource.                               *)
LEMMA FireInv ==
    ASSUME ContextInv, PlainHabits, NEW p, Fire(p)
    PROVE  ContextInv'
<1>1. PICK F : FramesMatch(F)
  BY SMTT(30) DEF ContextInv
<1>2. PICK n \in Nat : n = Len(nested)
  BY RunningIs DEF ContextInv
<1>3. PICK L \in Nat : L = Len(resourceStack)
  BY RunningIs DEF ContextInv
<1>4. PICK f, r : f = [kind |-> p.kind, callback |-> p, cleared |-> FALSE] /\ r = p.id
  OBVIOUS
<1>5. /\ p \in pending /\ p \in Callback /\ p.of = r /\ r \in 1 .. Len(store) /\ r \in Nat \ {0}
      /\ store[r] = p.meant /\ destroys[r] = 0 /\ p.meant \in Value
      /\ \A k \in 1 .. L + 1 : Running[k] # r
      /\ \A q \in pending : q.id = r => q = p
  <2>1. p \in pending /\ p \in Callback
    BY DEF Fire, ContextInv, ContextTyped
  <2>2. /\ p.of = r /\ r \in 1 .. Len(store)
        /\ store[r] = p.meant /\ destroys[r] = 0
        /\ \A k \in 1 .. L + 1 : Running[k] # r
        /\ \A q \in pending : q.id = r => q = p
    BY <1>3, <1>4, <2>1 DEF ContextInv, Owned
  <2>3. p.meant \in Value
    BY <2>1 DEF Callback
  <2> QED
    BY <2>1, <2>2, <2>3
<1>6. f \in Frame /\ f.kind \in Callbacks /\ f.callback = p
  <2>1. p.kind \in Callbacks
    BY <1>5 DEF Callback
  <2>2. f \in [kind : Callbacks, callback : Callback, cleared : BOOLEAN]
    BY <1>4, <1>5, <2>1
  <2> QED
    BY <1>4, <2>1, <2>2 DEF Frame
<1>7. /\ resource' = r /\ resourceStack' = Append(resourceStack, resource)
      /\ nested' = Append(nested, f) /\ scope' = Append(scope, p.meant)
      /\ store' = store /\ enabled' = enabled /\ destroys' = destroys
      /\ pending' = pending \ {p}
  BY <1>4, <1>5 DEF Fire, EmitBefore
<1>8. /\ enabled /\ store[resource] = scope[n + 1]
      /\ \A i \in 1 .. n : nested[i].kind # "exit"
  <2>1. CASE nested = <<>>
    <3>1. enabled /\ \A i \in 1 .. n : nested[i].kind # "exit"
      BY <1>2, <2>1 DEF ContextInv, Framed
    <3> QED
      BY <1>2, <3>1, TopIs DEF GetStore
  <2>2. CASE nested # <<>>
    <3>1. Allowed
      BY <2>2 DEF Fire
    <3> QED
      BY <1>2, <3>1, AllowedIs
  <2> QED
    BY <2>1, <2>2
<1>9. /\ nested' \in Seq(Frame) /\ Len(nested') = n + 1 /\ nested'[n + 1] = f
      /\ \A i \in 1 .. n : nested'[i] = nested[i]
  BY <1>2, <1>6, <1>7, AppendIs DEF ContextInv, ContextTyped
<1>10. /\ scope' \in Seq(Value) /\ Len(scope') = n + 2 /\ scope'[n + 2] = p.meant
       /\ \A i \in 1 .. n + 1 : scope'[i] = scope[i]
  <2>1. scope \in Seq(Value) /\ Len(scope) = n + 1
    BY <1>2 DEF ContextInv, ContextTyped
  <2> QED
    BY <1>5, <1>7, <2>1, AppendIs
<1>11. /\ resource \in Nat /\ resourceStack' \in Seq(Nat) /\ Len(resourceStack') = L + 1
       /\ Running' = Append(Running, r)
       /\ Running \in Seq(Nat) /\ Len(Running) = L + 1
  <2>1. resource \in Nat /\ resourceStack \in Seq(Nat)
    BY DEF ContextInv, ContextTyped
  <2>2. resourceStack' \in Seq(Nat) /\ Len(resourceStack') = L + 1
    BY <1>3, <1>7, <2>1, AppendIs
  <2>3. Running' = Append(Running, r)
    BY <1>7 DEF Running
  <2> QED
    BY <1>3, <2>1, <2>2, <2>3, AppendIs DEF Running
<1>12. Running'[L + 2] = r /\ \A k \in 1 .. L + 1 : Running'[k] = Running[k]
  BY <1>3, <1>5, <1>11, AppendIs
<1>13. Running[L + 1] = resource
  BY <1>3, RunningIs DEF ContextInv
<1>14. ContextTyped'
  BY <1>5, <1>7, <1>9, <1>10, <1>11, SMTT(30) DEF ContextInv, ContextTyped
<1>15. Owned'
  <2>1. \A k \in 1 .. L + 2 : k = L + 2 \/ k \in 1 .. L + 1
    BY <1>3
  <2>2. \A k \in 1 .. L + 1 : Running[k] \in 1 .. Len(store)
    BY <1>3 DEF ContextInv, Owned
  <2>3. \A k \in 1 .. L + 2 : Running'[k] \in 1 .. Len(store')
    BY <1>5, <1>7, <1>12, <2>1, <2>2
  <2>4. \A k, l \in 1 .. L + 1 : Running[k] = Running[l] => k = l
    BY <1>3 DEF ContextInv, Owned
  <2>5. \A k, l \in 1 .. L + 2 : Running'[k] = Running'[l] => k = l
    BY <1>5, <1>12, <2>1, <2>4
  <2>6. ASSUME NEW q \in pending'
        PROVE  /\ q.id \in 1 .. Len(store') /\ q.of = q.id
               /\ store'[q.id] = q.meant /\ destroys'[q.id] = 0
               /\ \A k \in 1 .. L + 2 : Running'[k] # q.id
               /\ \A u \in pending' : u.id = q.id => u = q
    <3>1. q \in pending /\ q # p /\ q.id # r /\ pending' \subseteq pending
      BY <1>5, <1>7
    <3>2. /\ q.id \in 1 .. Len(store) /\ q.of = q.id
          /\ store[q.id] = q.meant /\ destroys[q.id] = 0
          /\ \A k \in 1 .. L + 1 : Running[k] # q.id
          /\ \A u \in pending : u.id = q.id => u = q
      BY <1>3, <3>1 DEF ContextInv, Owned
    <3> QED
      BY <1>7, <1>12, <2>1, <3>1, <3>2
  <2>7. Len(resourceStack') + 1 = L + 2
    BY <1>11
  <2> QED
    BY <2>3, <2>5, <2>6, <2>7 DEF Owned
<1>16. Framed'
  <2>1. \A i \in 1 .. n + 1 : i = n + 1 \/ i \in 1 .. n
    BY <1>2
  <2>2. \A i \in 1 .. n + 1 : nested'[i].kind # "exit"
    BY <1>6, <1>8, <1>9, <2>1 DEF Callbacks
  <2>3. ASSUME NEW i \in 1 .. n + 1
        PROVE  /\ nested'[i].kind = "run" /\ nested'[i].set => nested'[i].old = scope'[i]
               /\ nested'[i].kind \in Callbacks =>
                    /\ nested'[i].callback.of = nested'[i].callback.id
                    /\ ~nested'[i].cleared => destroys'[nested'[i].callback.id] = 0
    <3>1. CASE i = n + 1
      BY <1>4, <1>5, <1>6, <1>7, <1>9, <3>1 DEF Callbacks
    <3>2. CASE i \in 1 .. n
      <4>1. /\ nested[i].kind = "run" /\ nested[i].set => nested[i].old = scope[i]
            /\ nested[i].kind \in Callbacks =>
                 /\ nested[i].callback.of = nested[i].callback.id
                 /\ ~nested[i].cleared => destroys[nested[i].callback.id] = 0
        BY <1>2, <3>2 DEF ContextInv, Framed
      <4> QED
        BY <1>7, <1>9, <1>10, <3>2, <4>1
    <3> QED
      BY <2>1, <3>1, <3>2
  <2> QED
    BY <1>7, <1>8, <1>9, <2>2, <2>3 DEF Framed
<1>17. PICK G : G = Append(F, n + 1)
  OBVIOUS
<1>18. FramesMatch(G)'
  <2>1. /\ G \in Seq(Nat) /\ Len(G) = L + 1 /\ Len(F) = L /\ G[L + 1] = n + 1
        /\ \A k \in 1 .. L : G[k] = F[k] /\ F[k] \in 1 .. n
    <3>1. F \in Seq(Nat) /\ Len(F) = L /\ \A k \in 1 .. L : F[k] \in 1 .. n
      BY <1>1, <1>2, <1>3 DEF FramesMatch
    <3> QED
      BY <1>17, <3>1, AppendIs
  <2>2. \A k \in 1 .. L + 1 : k = L + 1 \/ k \in 1 .. L
    BY <1>3
  <2>3. \A k, l \in 1 .. L + 1 : k < l => G[k] < G[l]
    <3>1. \A k, l \in 1 .. L : k < l => F[k] < F[l]
      BY <1>1, <2>1 DEF FramesMatch
    <3>2. \A k \in 1 .. L : G[k] < n + 1
      BY <2>1
    <3> QED
      BY <2>1, <2>2, <3>1, <3>2, SMTT(30)
  <2>4. ASSUME NEW k \in 1 .. L + 1
        PROVE  /\ G[k] \in 1 .. Len(nested') /\ nested'[G[k]].kind \in Callbacks
               /\ store'[Running'[k]] = scope'[G[k]]
               /\ Running'[k + 1] = nested'[G[k]].callback.id
    <3>1. CASE k = L + 1
      <4>1. k + 1 = L + 2 /\ n + 1 \in 1 .. n + 1 /\ L + 1 \in 1 .. L + 1
        BY <3>1
      <4> QED
        BY <1>4, <1>6, <1>7, <1>8, <1>9, <1>10, <1>12, <1>13, <2>1, <3>1, <4>1
    <3>2. CASE k \in 1 .. L
      <4>1. k \in 1 .. L + 1 /\ k + 1 \in 1 .. L + 1 /\ F[k] \in 1 .. n + 1
        BY <2>1, <3>2
      <4>2. /\ nested[F[k]].kind \in Callbacks /\ store[Running[k]] = scope[F[k]]
            /\ Running[k + 1] = nested[F[k]].callback.id
        BY <1>1, <2>1, <3>2 DEF FramesMatch
      <4> QED
        BY <1>7, <1>9, <1>10, <1>12, <2>1, <3>2, <4>1, <4>2
    <3> QED
      BY <2>2, <3>1, <3>2
  <2>5. ASSUME NEW i \in 1 .. Len(nested'), nested'[i].kind \in Callbacks
        PROVE  \E k \in 1 .. L + 1 : G[k] = i
    <3>1. CASE i = n + 1
      <4>1. L + 1 \in 1 .. L + 1
        OBVIOUS
      <4> QED
        BY <2>1, <3>1, <4>1
    <3>2. CASE i # n + 1
      <4>1. i \in 1 .. n /\ nested'[i] = nested[i]
        BY <1>9, <3>2
      <4>2. PICK k \in 1 .. L : F[k] = i
        BY <1>1, <1>2, <2>1, <2>5, <4>1 DEF FramesMatch
      <4> QED
        BY <2>1, <4>2
    <3> QED
      BY <3>1, <3>2
  <2> QED
    BY <1>11, <2>1, <2>3, <2>4, <2>5 DEF FramesMatch
<1>19. StoreFollowsCause'
  BY <1>5, <1>7, <1>8, <1>10 DEF StoreFollowsCause, GetStore, Meant, Last
<1> QED
  BY <1>14, <1>15, <1>16, <1>18, <1>19 DEF ContextInv
(* A callback ends: its resource is the one that runs.                     *)
LEMMA EndCallbackInv ==
    ASSUME ContextInv, EndCallback
    PROVE  ContextInv'
<1>1. PICK F : FramesMatch(F)
  BY DEF ContextInv
<1>2. PICK n \in Nat : n = Len(nested)
  BY RunningIs DEF ContextInv
<1>3. PICK L \in Nat : L = Len(resourceStack)
  BY RunningIs DEF ContextInv
<1>4. PICK f, p : f = Last(nested) /\ p = f.callback
  OBVIOUS
<1>5. nested # <<>> /\ f.kind \in Callbacks
  BY <1>4 DEF EndCallback, Callbacks
<1>6. /\ n \in Nat \ {0} /\ f = nested[n] /\ n \in 1 .. n
      /\ Front(nested) \in Seq(Frame) /\ Len(Front(nested)) = n - 1
      /\ \A i \in 1 .. n - 1 : Front(nested)[i] = nested[i]
  <2>1. nested \in Seq(Frame)
    BY DEF ContextInv, ContextTyped
  <2>2. n \in Nat \ {0} /\ f = nested[n]
    BY <1>2, <1>4, <1>5, <2>1, FrontIs
  <2> QED
    BY <1>2, <1>5, <2>1, <2>2, FrontIs
<1>7. p \in Callback /\ f.cleared \in BOOLEAN
  <2>1. f \in Frame
    BY <1>2, <1>6 DEF ContextInv, ContextTyped
  <2>2. f \in [kind : Callbacks, callback : Callback, cleared : BOOLEAN]
    BY <1>5, <2>1 DEF Frame, Callbacks
  <2> QED
    BY <1>4, <2>2
<1>8. /\ p.of = p.id /\ p.id \in 1 .. Len(store) /\ p.id \in Nat \ {0}
      /\ \A q \in pending : q.id # p.id
      /\ ~f.cleared => destroys[p.id] = 0
  BY <1>1, <1>2, <1>4, <1>5, <1>6, CallbackRuns, SMTT(30) DEF ContextInv, Framed
<1>9. /\ L \in Nat \ {0} /\ Len(F) = L /\ F[L] = n
      /\ L \in 1 .. L /\ p.id = Running[L + 1]
  <2>1. PICK k \in 1 .. L : F[k] = n /\ p.id = Running[k + 1]
    <3>1. n \in 1 .. Len(nested) /\ nested[n].kind \in Callbacks /\ nested[n].callback = p
      BY <1>2, <1>4, <1>5, <1>6
    <3> QED
      BY <1>1, <1>3, <3>1, CallbackRuns
  <2>2. Len(F) = L /\ L \in 1 .. L
    BY <1>1, <1>3, <2>1 DEF FramesMatch
  <2>3. F[L] \in Nat /\ F[L] <= n
    BY <1>1, <1>2, <2>2 DEF FramesMatch
  <2>4. k = L
    <3>1. k < L => F[k] < F[L]
      BY <1>1, <2>1, <2>2 DEF FramesMatch
    <3> QED
      BY <2>1, <2>3, <3>1
  <2> QED
    BY <2>1, <2>2, <2>4
<1>10. p.id = resource
  BY <1>3, <1>9, RunningIs DEF ContextInv
<1>11. /\ resource' = Last(resourceStack) /\ resourceStack' = Front(resourceStack)
       /\ nested' = Front(nested) /\ scope' = Front(scope)
       /\ store' = store /\ enabled' = enabled
       /\ destroys' = (IF EndsWithCallback(p) THEN [destroys EXCEPT ![p.id] = @ + 1] ELSE destroys)
       /\ pending' = IF p.kind \in {"interval", "bound"} /\ ~f.cleared
                     THEN pending \cup {[p EXCEPT !.meant = Meant]} ELSE pending
  BY <1>4, <1>8 DEF EndCallback, EndsWithCallback
<1>12. \A i \in 1 .. n : nested[i].kind # "exit"
  <2>1. \A i \in 1 .. n : nested[i].kind = "exit" => i = n
    BY <1>2 DEF ContextInv, Framed
  <2> QED
    BY <1>5, <1>6, <2>1 DEF Callbacks
<1>13. enabled /\ store[resource] = Meant /\ Meant \in Value
  <2>1. enabled
    BY <1>2, <1>12 DEF ContextInv, Framed
  <2> QED
    BY <2>1, TopIs DEF GetStore
<1>14. /\ resource' = Running[L] /\ resource' \in Nat
       /\ resourceStack' \in Seq(Nat) /\ Len(resourceStack') = L - 1
       /\ \A k \in 1 .. L - 1 : resourceStack'[k] = Running[k]
  <2>1. resourceStack \in Seq(Nat) /\ resourceStack # <<>>
    BY <1>3, <1>9 DEF ContextInv, ContextTyped
  <2>2. \A k \in 1 .. L : Running[k] = resourceStack[k]
    BY <1>3, RunningIs DEF ContextInv
  <2>3. \A k \in 1 .. L - 1 : k \in 1 .. L
    BY <1>9
  <2>4. /\ Front(resourceStack) \in Seq(Nat) /\ Len(Front(resourceStack)) = L - 1
        /\ \A k \in 1 .. L - 1 : Front(resourceStack)[k] = resourceStack[k]
        /\ Last(resourceStack) = resourceStack[L]
    BY <1>3, <2>1, FrontIs
  <2>5. resourceStack[L] \in Nat
    BY <1>3, <1>9, <2>1
  <2> QED
    BY <1>9, <1>11, <2>2, <2>3, <2>4, <2>5
<1>15. Running' \in Seq(Nat) /\ \A k \in 1 .. L : Running'[k] = Running[k]
  <2>1. Running' = Append(resourceStack', resource')
    BY DEF Running
  <2>2. \A k \in 1 .. L : k = L \/ k \in 1 .. L - 1
    BY <1>9
  <2>3. \A k \in 1 .. L - 1 : Running'[k] = resourceStack'[k]
    BY <1>14, <2>1, AppendIs
  <2>4. Running'[L] = resource' /\ Running' \in Seq(Nat)
    BY <1>9, <1>14, <2>1, AppendIs
  <2> QED
    BY <1>14, <2>2, <2>3, <2>4
<1>16. /\ scope' \in Seq(Value) /\ Len(scope') = n
       /\ \A i \in 1 .. n : scope'[i] = scope[i]
  <2>1. scope \in Seq(Value) /\ scope # <<>> /\ Len(scope) = n + 1
    BY <1>2 DEF ContextInv, ContextTyped
  <2> QED
    BY <1>11, <2>1, FrontIs
<1>17. /\ nested' \in Seq(Frame) /\ Len(nested') = n - 1
       /\ \A i \in 1 .. n - 1 : nested'[i] = nested[i]
  BY <1>6, <1>11
<1>18. /\ destroys' \in Seq(Nat) /\ Len(destroys') = Len(destroys)
       /\ \A i \in 1 .. Len(store) : i # p.id => destroys'[i] = destroys[i]
       /\ p.kind # "timer" => destroys' = destroys
  <2>1. destroys \in Seq(Nat) /\ p.id \in 1 .. Len(destroys) /\ Len(destroys) = Len(store)
    BY <1>8 DEF ContextInv, ContextTyped
  <2>2. CASE EndsWithCallback(p)
    BY <1>11, <2>1, <2>2 DEF EndsWithCallback
  <2>3. CASE ~EndsWithCallback(p)
    BY <1>11, <2>1, <2>3
  <2> QED
    BY <2>2, <2>3
<1>19. PICK w : w = [p EXCEPT !.meant = Meant]
  OBVIOUS
<1>20. w \in Callback /\ w.id = p.id /\ w.of = p.id /\ w.meant = Meant
  BY <1>7, <1>8, <1>13, <1>19 DEF Callback
<1>21. \A q \in pending' : q \in pending \/ (q = w /\ p.kind # "timer" /\ ~f.cleared)
  BY <1>11, <1>19
<1>22. ContextTyped'
  <2>1. pending' \subseteq Callback
    BY <1>20, <1>21 DEF ContextInv, ContextTyped
  <2>2. Len(scope') = Len(nested') + 1
    BY <1>6, <1>16, <1>17
  <2> QED
    BY <1>11, <1>14, <1>16, <1>17, <1>18, <2>1, <2>2 DEF ContextInv, ContextTyped
<1>23. \A k \in 1 .. L : /\ k \in 1 .. L + 1 /\ k # L + 1 /\ Running[k] # p.id
                         /\ Running[k] \in 1 .. Len(store)
  <2>1. \A k \in 1 .. L : k \in 1 .. L + 1 /\ k # L + 1 /\ L + 1 \in 1 .. L + 1
    OBVIOUS
  <2> QED
    BY <1>3, <1>9, <2>1 DEF ContextInv, Owned
<1>24. Owned'
  <2>1. Len(resourceStack') + 1 = L
    BY <1>9, <1>14
  <2>2. \A k \in 1 .. L : Running'[k] \in 1 .. Len(store')
    BY <1>11, <1>15, <1>23
  <2>3. \A k, l \in 1 .. L : Running'[k] = Running'[l] => k = l
    BY <1>3, <1>15, <1>23 DEF ContextInv, Owned
  <2>4. ASSUME NEW q \in pending'
        PROVE  /\ q.id \in 1 .. Len(store') /\ q.of = q.id
               /\ store'[q.id] = q.meant /\ destroys'[q.id] = 0
               /\ \A k \in 1 .. L : Running'[k] # q.id
               /\ \A u \in pending' : u.id = q.id => u = q
    <3>1. CASE q \in pending
      <4>1. q.id # p.id
        BY <1>8, <3>1
      <4>2. /\ q.id \in 1 .. Len(store) /\ q.of = q.id
            /\ store[q.id] = q.meant /\ destroys[q.id] = 0
            /\ \A k \in 1 .. L + 1 : Running[k] # q.id
            /\ \A u \in pending : u.id = q.id => u = q
        BY <1>3, <3>1 DEF ContextInv, Owned
      <4>3. \A u \in pending' : u.id = q.id => u = q
        BY <1>20, <1>21, <4>1, <4>2
      <4> QED
        BY <1>11, <1>15, <1>18, <1>23, <4>1, <4>2, <4>3
    <3>2. CASE q = w /\ p.kind # "timer" /\ ~f.cleared
      <4>1. destroys'[q.id] = 0
        BY <1>8, <1>18, <1>20, <3>2
      <4>2. store'[q.id] = q.meant /\ q.id = p.id /\ q.of = p.id
        BY <1>10, <1>11, <1>13, <1>20, <3>2
      <4>3. \A u \in pending' : u.id = q.id => u = q
        BY <1>8, <1>21, <3>2, <4>2
      <4> QED
        BY <1>8, <1>11, <1>15, <1>23, <4>1, <4>2, <4>3
    <3> QED
      BY <1>21, <3>1, <3>2
  <2> QED
    BY <2>1, <2>2, <2>3, <2>4 DEF Owned
<1>25. Framed'
  <2>1. ASSUME NEW i \in 1 .. n - 1
        PROVE  /\ nested'[i].kind = "run" /\ nested'[i].set => nested'[i].old = scope'[i]
               /\ nested'[i].kind # "exit"
               /\ nested'[i].kind \in Callbacks =>
                    /\ nested'[i].callback.of = nested'[i].callback.id
                    /\ ~nested'[i].cleared => destroys'[nested'[i].callback.id] = 0
    <3>1. i \in 1 .. n /\ i # n /\ nested'[i] = nested[i] /\ scope'[i] = scope[i]
      BY <1>6, <1>16, <1>17
    <3>2. nested[i].kind \in Callbacks =>
            nested[i].callback.id # p.id /\ nested[i].callback.id \in 1 .. Len(store)
      BY <1>1, <1>2, <1>4, <1>5, <1>6, <3>1, CallbacksApart, CallbackRuns
    <3>3. /\ nested[i].kind = "run" /\ nested[i].set => nested[i].old = scope[i]
          /\ nested[i].kind \in Callbacks =>
               /\ nested[i].callback.of = nested[i].callback.id
               /\ ~nested[i].cleared => destroys[nested[i].callback.id] = 0
      BY <1>2, <3>1 DEF ContextInv, Framed
    <3> QED
      BY <1>12, <1>18, <3>1, <3>2, <3>3
  <2> QED
    BY <1>11, <1>13, <1>17, <2>1 DEF Framed
<1>26. PICK G : G = Front(F)
  OBVIOUS
<1>27. /\ G \in Seq(Nat) /\ Len(G) = L - 1 /\ \A k \in 1 .. L - 1 : G[k] = F[k]
       /\ \A k \in 1 .. L - 1 : k \in 1 .. L /\ k + 1 \in 1 .. L /\ F[k] \in 1 .. n - 1
  <2>1. F \in Seq(Nat) /\ F # <<>>
    BY <1>1, <1>9 DEF FramesMatch
  <2>2. \A k \in 1 .. L - 1 : k \in 1 .. L /\ k + 1 \in 1 .. L /\ k < L
    BY <1>9
  <2>3. \A k \in 1 .. L - 1 : F[k] < F[L] /\ F[k] \in 1 .. n
    BY <1>1, <1>2, <1>9, <2>2 DEF FramesMatch
  <2>4. \A k \in 1 .. L - 1 : F[k] \in 1 .. n - 1
    BY <1>9, <2>3
  <2> QED
    BY <1>9, <1>26, <2>1, <2>2, <2>4, FrontIs
<1>28. FramesMatch(G)'
  <2>1. \A k, l \in 1 .. L - 1 : k < l => G[k] < G[l]
    BY <1>1, <1>9, <1>27 DEF FramesMatch
  <2>2. ASSUME NEW k \in 1 .. L - 1
        PROVE  /\ G[k] \in 1 .. Len(nested') /\ nested'[G[k]].kind \in Callbacks
               /\ store'[Running'[k]] = scope'[G[k]]
               /\ Running'[k + 1] = nested'[G[k]].callback.id
    <3>1. /\ nested[F[k]].kind \in Callbacks /\ store[Running[k]] = scope[F[k]]
          /\ Running[k + 1] = nested[F[k]].callback.id
      BY <1>1, <1>9, <1>27 DEF FramesMatch
    <3>2. F[k] \in 1 .. n
      BY <1>6, <1>27
    <3> QED
      BY <1>11, <1>15, <1>16, <1>17, <1>27, <3>1, <3>2, SMTT(30)
  <2>3. ASSUME NEW i \in 1 .. Len(nested'), nested'[i].kind \in Callbacks
        PROVE  \E k \in 1 .. L - 1 : G[k] = i
    <3>1. i \in 1 .. n - 1 /\ i \in 1 .. n /\ i # n /\ nested'[i] = nested[i]
      BY <1>6, <1>17, SMTT(30)
    <3>2. PICK k \in 1 .. L : F[k] = i
      BY <1>1, <1>2, <1>9, <2>3, <3>1 DEF FramesMatch
    <3>3. k \in 1 .. L - 1
      BY <1>9, <3>1, <3>2
    <3> QED
      BY <1>27, <3>2, <3>3
  <2> QED
    BY <1>14, <1>27, <2>1, <2>2, <2>3 DEF FramesMatch
<1>29. StoreFollowsCause'
  <2>1. store[Running[L]] = scope[n]
    BY <1>1, <1>9 DEF FramesMatch
  <2> QED
    BY <1>6, <1>11, <1>13, <1>14, <1>16, <2>1 DEF StoreFollowsCause, GetStore, Meant, Last
<1> QED
  BY <1>22, <1>24, <1>25, <1>28, <1>29 DEF ContextInv

LEMMA ContextNextInv ==
    ASSUME PlainHabits, ContextInv, [ContextNext]_contextVars
    PROVE  ContextInv'
<1>1. CASE ContextNext
  BY <1>1, EnterWithInv, RunWithInv, EndRunInv, OpensInv, ClosesInv, SchedulesInv, ClearTimerInv,
     FireInv, ClearOwnTimerInv, EndCallbackInv DEF ContextNext
<1>2. CASE UNCHANGED contextVars
  <2>1. Running' = Running
    BY <1>2 DEF contextVars, Running
  <2>2. ASSUME NEW F, FramesMatch(F) PROVE FramesMatch(F)'
    BY <1>2, <2>1, <2>2 DEF contextVars, FramesMatch
  <2>3. ContextTyped' /\ StoreFollowsCause'
    BY <1>2 DEF contextVars, ContextInv, ContextTyped, StoreFollowsCause, GetStore, Meant
  <2>4. Framed'
    BY <1>2 DEF contextVars, ContextInv, Framed
  <2>5. Owned'
    BY <1>2, <2>1 DEF contextVars, ContextInv, Owned
  <2> QED
    BY <2>2, <2>3, <2>4, <2>5 DEF ContextInv
<1> QED
  BY <1>1, <1>2

(* Whatever is scheduled, cleared and run in between, the program reads    *)
(* the store of the enclosing run, or the one its callback was scheduled   *)
(* under; and no callback is left whose resource was destroyed.            *)
THEOREM ContextsAreKept == PlainHabits => (ContextSpec => []ContextsHold)
<1>1. SUFFICES ASSUME PlainHabits PROVE ContextSpec => []ContextsHold
  OBVIOUS
<1>2. ContextInit => ContextInv
  BY ContextInitInv
<1>3. ContextInv /\ [ContextNext]_contextVars => ContextInv'
  BY <1>1, ContextNextInv
<1>4. ContextInv => ContextsHold
  BY DEF ContextInv, Owned, ContextsHold, DestroyedIsOver
<1> QED
  BY <1>2, <1>3, <1>4, PTL DEF ContextSpec
-----------------------------------------------------------------------------
(* Combinators and disposal stacks (builtins_stubs.js)                     *)

How == {"fulfilled", "rejected"}
Unused == (1 .. handed) \ used

CombTyped ==
    /\ handed \in Nat /\ phase \in {"iterating", "exhausted", "threw"}
    /\ used \subseteq 1 .. handed /\ remaining \in Nat
    /\ values \in Seq({"empty"} \cup How) /\ reports \in Seq((1 .. handed) \X How)

(* The capability is settled by one element, by the iteration, or with     *)
(* what there is when nothing is left to wait for.                         *)
ByOne == \E i \in Nat, how \in How : outcome = [kind |-> how, by |-> i]
ByAll == outcome = Whole(values) /\ method # "race" /\ phase = "exhausted" /\ Unused = {}

(* state.remaining counts the elements whose guard is not used, and the    *)
(* iteration; an element that reported was counted, or settled it all.     *)
PromiseInv ==
    /\ Len(values) = handed
    /\ remaining = (IF phase = "exhausted" THEN 0 ELSE 1) + Cardinality(Unused)
    /\ outcome = Pending \/ ByOne \/ ByAll
    /\ remaining = 0 /\ method # "race" => outcome # Pending
    /\ \A i \in used : Reported(i)
    /\ \A i \in 1 .. handed : Reported(i) =>
         /\ (i \in used /\ method # "race") \/ outcome # Pending
         /\ \E k \in DOMAIN reports :
              /\ IsFirst(i, k)
              /\ method \in {"allSettled", "allSettledKeyed"} => i \in used /\ values[i] = reports[k][2]
              /\ method = "any" /\ reports[k][2] = "fulfilled" => ByOne

(* A stack holds its disposers in the order of their registration, and     *)
(* none that is older than one that ran; none runs while one can be added. *)
Ordered(q, ds, h) ==
    /\ q \in Seq(Nat)
    /\ \A i \in 1 .. Len(q) :
         /\ q[i] <= h
         /\ \A j \in 1 .. Len(q) : i < j => q[i] < q[j]
         /\ \A j \in 1 .. Len(ds) : q[i] < ds[j]
StackInv ==
    /\ DOMAIN stacks = 1 .. 2 /\ DOMAIN closed = 1 .. 2 /\ running \in 0 .. 2
    /\ disposals \in Seq(Nat) /\ handed \in Nat
    /\ \A i, j \in 1 .. Len(disposals) : i < j => disposals[i] > disposals[j]
    /\ \A s \in 1 .. 2 : Ordered(stacks[s], disposals, handed) /\ (~closed[s] => running = 0 /\ disposals = <<>>)
    /\ \A s, t \in 1 .. 2 : s # t => /\ stacks[s] = <<>> \/ stacks[t] = <<>>
                                     /\ ~closed[s] => closed[t] /\ stacks[t] = <<>>

CombInv ==
    /\ StackInv
    /\ IF method \in Promised THEN CombTyped /\ PromiseInv
       ELSE outcome = Pending /\ phase = "iterating"

LEMMA UnusedIs ==
    ASSUME CombTyped
    PROVE  IsFiniteSet(Unused) /\ Cardinality(Unused) \in Nat /\ (Cardinality(Unused) = 0 <=> Unused = {})
<1>1. IsFiniteSet(1 .. handed)
  BY FS_Interval DEF CombTyped
<1>2. IsFiniteSet(Unused)
  BY <1>1, FS_Difference DEF Unused
<1> QED
  BY <1>2, FS_CardinalityType, FS_EmptySet

LEMMA FirstIs ==
    ASSUME CombTyped, NEW i, NEW k \in DOMAIN reports, IsFirst(i, k)
    PROVE  FirstReport(i) = reports[k][2]
<1>1. PICK c : c = CHOOSE l \in DOMAIN reports : IsFirst(i, l)
  OBVIOUS
<1>2. c \in DOMAIN reports /\ IsFirst(i, c)
  BY <1>1
<1>3. DOMAIN reports \subseteq Nat \ {0}
  BY DEF CombTyped
<1>4. ~ c < k /\ ~ k < c
  BY <1>2, <1>3 DEF IsFirst
<1>5. c = k
  BY <1>2, <1>3, <1>4
<1> QED
  BY <1>1, <1>5 DEF FirstReport

LEMMA WholeSettles ==
    ASSUME method # "race", NEW vs
    PROVE  Whole(vs) # Pending /\ Whole(vs).kind # "pending"
  BY DEF Whole, Pending

LEMMA ByOneIs ==
    ASSUME ByOne
    PROVE  outcome # Pending
  BY DEF ByOne, How, Pending

LEMMA CombInitInv == CombInit => CombInv
<1>1. SUFFICES ASSUME CombInit PROVE CombInv
  OBVIOUS
<1>2. /\ handed = 0 /\ phase = "iterating" /\ remaining = 1
      /\ used = {} /\ values = <<>> /\ outcome = Pending /\ reports = <<>>
  BY <1>1 DEF CombInit
<1>3. CombTyped
  BY <1>2 DEF CombTyped
<1>4. Unused = {} /\ Cardinality(Unused) = 0
  BY <1>2, FS_EmptySet DEF Unused
<1>5. PromiseInv
  BY <1>2, <1>4 DEF PromiseInv
<1>6. StackInv
  <2>1. stacks = <<<<>>, <<>>>> /\ closed = <<FALSE, TRUE>> /\ running = 0 /\ disposals = <<>>
    BY <1>1 DEF CombInit
  <2>2. DOMAIN stacks = 1 .. 2 /\ stacks[1] = <<>> /\ stacks[2] = <<>>
    BY <2>1
  <2>3. DOMAIN closed = 1 .. 2 /\ ~closed[1] /\ closed[2]
    BY <2>1
  <2>4. 1 .. 2 = {1, 2}
    OBVIOUS
  <2>5. Ordered(<<>>, disposals, handed)
    BY DEF Ordered
  <2> QED
    BY <1>2, <2>1, <2>2, <2>3, <2>4, <2>5 DEF StackInv
<1> QED
  BY <1>2, <1>3, <1>5, <1>6 DEF CombInv

(* The promises leave the stacks alone.                                    *)
LEMMA StacksStay ==
    ASSUME StackInv, UNCHANGED stackVars, handed' \in Nat, handed <= handed'
    PROVE  StackInv'
<1>1. stacks' = stacks /\ closed' = closed /\ running' = running /\ disposals' = disposals
  BY DEF stackVars
<1>2. ASSUME NEW q, Ordered(q, disposals, handed) PROVE Ordered(q, disposals', handed')
  <2>1. q \in Seq(Nat) /\ handed \in Nat
    BY <1>2 DEF StackInv, Ordered
  <2>2. \A i \in 1 .. Len(q) : q[i] \in Nat
    BY <2>1
  <2>3. \A i \in 1 .. Len(q) : q[i] <= handed'
    BY <1>2, <2>1, <2>2 DEF Ordered
  <2> QED
    BY <1>1, <1>2, <2>3 DEF Ordered
<1> QED
  BY <1>1, <1>2 DEF StackInv

LEMMA HandNextInv ==
    ASSUME CombInv, HandNext
    PROVE  CombInv'
<1>1. method \in Promised /\ method' = method /\ CombTyped /\ PromiseInv /\ StackInv
  BY DEF HandNext, CombInv
<1>2. PICK n \in Nat : n = handed
  BY <1>1 DEF CombTyped
<1>3. /\ handed' = n + 1 /\ remaining' = remaining + 1 /\ values' = Append(values, "empty")
      /\ phase' = phase /\ used' = used /\ outcome' = outcome /\ reports' = reports
      /\ phase = "iterating"
  BY <1>2 DEF HandNext
<1>4. StackInv'
  BY <1>1, <1>2, <1>3, StacksStay DEF HandNext
<1>5. /\ values' \in Seq({"empty"} \cup How) /\ Len(values') = n + 1
      /\ \A i \in 1 .. n : values'[i] = values[i]
  BY <1>1, <1>2, <1>3, AppendIs DEF CombTyped, PromiseInv
<1>6. \A k \in DOMAIN reports : reports[k] \in (1 .. n) \X How
  BY <1>1, <1>2 DEF CombTyped
<1>7. reports \in Seq((1 .. n + 1) \X How)
  <2>1. (1 .. n) \X How \subseteq (1 .. n + 1) \X How
    OBVIOUS
  <2> QED
    BY <1>1, <1>2, <2>1 DEF CombTyped
<1>8. CombTyped'
  BY <1>1, <1>2, <1>3, <1>5, <1>7 DEF CombTyped
<1>9. Cardinality(Unused') = Cardinality(Unused) + 1
  <2>1. n + 1 \notin 1 .. n /\ 1 .. n + 1 = (1 .. n) \cup {n + 1}
    OBVIOUS
  <2>2. used \subseteq 1 .. n /\ Unused = (1 .. n) \ used /\ Unused' = (1 .. n + 1) \ used
    BY <1>1, <1>2, <1>3 DEF Unused, CombTyped
  <2>3. Unused' = Unused \cup {n + 1} /\ n + 1 \notin Unused
    BY <2>1, <2>2
  <2> QED
    BY <1>1, <2>3, UnusedIs, FS_AddElement
<1>10. remaining' = (IF phase' = "exhausted" THEN 0 ELSE 1) + Cardinality(Unused') /\ remaining' # 0
  BY <1>1, <1>3, <1>9, UnusedIs DEF PromiseInv
<1>11. outcome' = Pending \/ ByOne'
  BY <1>1, <1>3 DEF PromiseInv, ByAll, ByOne
<1>12. (\A i : Reported(i)' <=> Reported(i)) /\ (\A i, k : IsFirst(i, k)' <=> IsFirst(i, k))
  BY <1>3 DEF Reported, IsFirst
<1>13. \A i \in 1 .. n + 1 : Reported(i) => i \in 1 .. n
  BY <1>6 DEF Reported
<1>14. ByOne' <=> ByOne
  BY <1>3 DEF ByOne
<1>15. PromiseInv'
  BY <1>1, <1>2, <1>3, <1>5, <1>10, <1>11, <1>12, <1>13, <1>14 DEF PromiseInv
<1> QED
  BY <1>1, <1>4, <1>8, <1>15 DEF CombInv

(* The iteration ends, with a count or with an error.                      *)
LEMMA IterationEnds ==
    ASSUME CombInv, Exhausted \/ IterationThrows
    PROVE  CombInv'
<1>1. method \in Promised /\ method' = method /\ CombTyped /\ PromiseInv /\ StackInv
  BY DEF Exhausted, IterationThrows, CombInv
<1>2. /\ handed' = handed /\ used' = used /\ values' = values /\ reports' = reports
      /\ phase = "iterating" /\ phase' \in {"exhausted", "threw"}
  BY DEF Exhausted, IterationThrows
<1>3. StackInv'
  BY <1>1, <1>2, StacksStay DEF Exhausted, IterationThrows, CombTyped
<1>4. Unused' = Unused
  BY <1>2 DEF Unused
<1>5. remaining = 1 + Cardinality(Unused) /\ (outcome = Pending \/ ByOne)
  BY <1>1, <1>2 DEF PromiseInv, ByAll
<1>6. /\ remaining' \in Nat
      /\ remaining' = (IF phase' = "exhausted" THEN 0 ELSE 1) + Cardinality(Unused')
      /\ outcome' = Pending \/ ByOne' \/ ByAll'
      /\ remaining' = 0 /\ method # "race" => outcome' # Pending
      /\ outcome # Pending => outcome' = outcome
  <2>1. CASE Exhausted
    <3>1. phase' = "exhausted" /\ remaining' = remaining - 1 /\ remaining' = Cardinality(Unused)
      BY <1>1, <1>5, <2>1, UnusedIs DEF Exhausted, CountDown
    <3>2. CASE remaining = 1
      <4>1. outcome' = IF outcome = Pending THEN Whole(values) ELSE outcome
        BY <2>1, <3>2 DEF Exhausted, CountDown, Settles
      <4>2. Unused = {}
        BY <1>1, <1>5, <3>2, UnusedIs
      <4>3. CASE outcome # Pending
        BY <1>1, <1>4, <1>5, <3>1, <4>1, <4>3, UnusedIs DEF ByOne
      <4>4. CASE outcome = Pending /\ method = "race"
        <5>1. outcome' = Pending
          BY <4>1, <4>4 DEF Whole
        <5> QED
          BY <1>1, <1>4, <3>1, <4>4, <5>1, UnusedIs
      <4>5. CASE outcome = Pending /\ method # "race"
        <5>1. Whole(values)' = Whole(values)
          BY <1>1, <1>2 DEF Whole
        <5>2. ByAll'
          BY <1>1, <1>4, <3>1, <4>1, <4>2, <4>5, <5>1 DEF ByAll
        <5>3. outcome' # Pending
          BY <4>1, <4>5, WholeSettles
        <5> QED
          BY <1>1, <1>4, <3>1, <4>5, <5>2, <5>3, UnusedIs
      <4> QED
        BY <4>3, <4>4, <4>5
    <3>3. CASE remaining # 1
      <4>1. outcome' = outcome
        BY <2>1, <3>3 DEF Exhausted, CountDown
      <4> QED
        BY <1>1, <1>4, <1>5, <3>1, <3>3, <4>1, UnusedIs DEF ByOne
    <3> QED
      BY <3>2, <3>3
  <2>2. CASE IterationThrows
    <3>1. phase' = "threw" /\ remaining' = remaining
      BY <2>2 DEF IterationThrows
    <3>2. outcome' = IF outcome = Pending THEN [kind |-> "rejected", by |-> 0] ELSE outcome
      BY <2>2 DEF IterationThrows, Settles
    <3>3. ByOne'
      BY <1>5, <3>2 DEF ByOne, How
    <3> QED
      BY <1>1, <1>4, <1>5, <3>1, <3>2, <3>3, UnusedIs
  <2> QED
    BY <2>1, <2>2
<1>7. CombTyped'
  BY <1>1, <1>2, <1>6 DEF CombTyped
<1>8. (\A i : Reported(i)' <=> Reported(i)) /\ (\A i, k : IsFirst(i, k)' <=> IsFirst(i, k))
  BY <1>2 DEF Reported, IsFirst
<1>9. ByOne => ByOne'
  BY <1>6, ByOneIs DEF ByOne
<1>10. PromiseInv'
  BY <1>1, <1>2, <1>6, <1>8, <1>9 DEF PromiseInv
<1> QED
  BY <1>1, <1>3, <1>7, <1>10 DEF CombInv

(* A thenable calls one of its two functions: its element's, counted once, *)
(* or the capability's.                                                    *)
LEMMA ReportIs ==
    ASSUME CombInv, NEW i \in 1 .. N, NEW how \in How, Report(i, how)
    PROVE  /\ i \in 1 .. handed /\ i \in Nat /\ reports' = Append(reports, <<i, how>>)
           /\ method \in Promised /\ method' = method /\ handed' = handed /\ phase' = phase
           /\ UNCHANGED stackVars
           /\ \/ /\ method # "race" /\ ~(method = "any" /\ how = "fulfilled")
                 /\ Element(i, how)
              \/ /\ method \notin {"allSettled", "allSettledKeyed"}
                 /\ Direct(i, how)
<1>1. method \in Promised /\ handed \in Nat
  BY DEF Report, CombInv, StackInv
<1>2. i \in Nat /\ 1 <= i /\ i <= handed
  BY CombAssumption DEF Report
<1>3. /\ reports' = Append(reports, <<i, how>>)
      /\ method' = method /\ handed' = handed /\ phase' = phase /\ UNCHANGED stackVars
  BY DEF Report
<1>4. CASE method \in {"all", "allKeyed"}
  BY <1>4 DEF Report, ThenAll, How
<1>5. CASE method \in {"allSettled", "allSettledKeyed"}
  BY <1>5 DEF Report, ThenAllSettled
<1>6. CASE method = "any"
  BY <1>6 DEF Report, ThenAny, How
<1>7. CASE method = "race"
  BY <1>7 DEF Report, ThenRace
<1>8. \/ /\ method # "race" /\ ~(method = "any" /\ how = "fulfilled")
         /\ Element(i, how)
      \/ /\ method \notin {"allSettled", "allSettledKeyed"}
         /\ Direct(i, how)
  BY <1>1, <1>4, <1>5, <1>6, <1>7 DEF Promised
<1> QED
  BY <1>1, <1>2, <1>3, <1>8

(* What the counts and the outcome are after it.                           *)
LEMMA ElementIs ==
    ASSUME CombTyped, PromiseInv, NEW i \in 1 .. handed, NEW how \in How, method # "race",
           Element(i, how), method' = method, handed' = handed, phase' = phase
    PROVE  /\ used' = used \cup {i} /\ values' \in Seq({"empty"} \cup How) /\ Len(values') = handed
           /\ \A j \in 1 .. handed : j # i \/ i \in used => values'[j] = values[j]
           /\ i \notin used => values'[i] = how
           /\ remaining' \in Nat
           /\ remaining' = (IF phase = "exhausted" THEN 0 ELSE 1) + Cardinality(Unused')
           /\ outcome' = Pending \/ ByOne' \/ ByAll'
           /\ remaining' = 0 => outcome' # Pending
           /\ outcome # Pending => outcome' = outcome
<1>1. handed \in Nat /\ i \in Nat /\ used \subseteq 1 .. handed
  BY DEF CombTyped
<1>2. CASE i \in used
  <2>1. used' = used /\ values' = values /\ remaining' = remaining /\ outcome' = outcome
    BY <1>2 DEF Element
  <2>2. Unused' = Unused
    BY <2>1 DEF Unused
  <2>3. (ByOne' <=> ByOne) /\ (ByAll => ByAll')
    BY <2>1, <2>2 DEF ByOne, ByAll, Whole
  <2> QED
    BY <1>2, <2>1, <2>2, <2>3 DEF CombTyped, PromiseInv
<1>3. CASE i \notin used
  <2>1. /\ used' = used \cup {i} /\ values' = [values EXCEPT ![i] = how]
        /\ remaining' = remaining - 1
        /\ remaining = 1 => outcome' = IF outcome = Pending THEN Whole(values') ELSE outcome
        /\ remaining # 1 => outcome' = outcome
    BY <1>3 DEF Element, CountDown, Settles
  <2>2. /\ values' \in Seq({"empty"} \cup How) /\ Len(values') = handed /\ values'[i] = how
        /\ \A j \in 1 .. handed : j # i => values'[j] = values[j]
    BY <1>1, <2>1 DEF CombTyped, PromiseInv
  <2>3. Unused' = Unused \ {i} /\ i \in Unused
    BY <1>1, <1>3, <2>1 DEF Unused
  <2>4. /\ Cardinality(Unused') = Cardinality(Unused) - 1 /\ Cardinality(Unused) \in Nat \ {0}
        /\ Cardinality(Unused') \in Nat
        /\ Cardinality(Unused') = 0 => Unused' = {}
    <3>1. IsFiniteSet(Unused')
      BY <2>3, UnusedIs, FS_RemoveElement
    <3>2. Cardinality(Unused') = Cardinality(Unused) - 1
      BY <2>3, UnusedIs, FS_RemoveElement
    <3> QED
      BY <2>3, <3>1, <3>2, UnusedIs, FS_CardinalityType, FS_EmptySet
  <2>5. remaining = (IF phase = "exhausted" THEN 0 ELSE 1) + Cardinality(Unused)
    BY DEF PromiseInv
  <2>6. remaining' \in Nat /\ remaining' = (IF phase = "exhausted" THEN 0 ELSE 1) + Cardinality(Unused')
    BY <2>1, <2>4, <2>5, UnusedIs
  <2>7. outcome = Pending \/ ByOne
    BY <2>3 DEF PromiseInv, ByAll
  <2>8. CASE outcome # Pending
    <3>1. outcome' = outcome
      BY <2>1, <2>8
    <3> QED
      BY <1>3, <2>1, <2>2, <2>6, <2>7, <2>8, <3>1 DEF ByOne
  <2>9. CASE outcome = Pending /\ remaining = 1
    <3>1. phase = "exhausted" /\ Unused' = {}
      BY <2>4, <2>5, <2>9
    <3>2. outcome' = Whole(values') /\ Whole(values') # Pending
      BY <2>1, <2>9, WholeSettles
    <3>3. Whole(values') = Whole(values)'
      BY DEF Whole
    <3>4. ByAll'
      BY <3>1, <3>2, <3>3 DEF ByAll
    <3> QED
      BY <1>3, <2>1, <2>2, <2>6, <2>9, <3>2, <3>4
  <2>10. CASE outcome = Pending /\ remaining # 1
    <3>1. outcome' = Pending /\ remaining' # 0
      BY <2>1, <2>4, <2>5, <2>6, <2>10
    <3> QED
      BY <1>3, <2>1, <2>2, <2>6, <2>10, <3>1
  <2> QED
    BY <2>8, <2>9, <2>10
<1> QED
  BY <1>2, <1>3

LEMMA DirectIs ==
    ASSUME CombTyped, PromiseInv, NEW i \in 1 .. handed, NEW how \in How,
           Direct(i, how), method' = method, handed' = handed, phase' = phase
    PROVE  /\ used' = used /\ values' = values /\ remaining' = remaining
           /\ Unused' = Unused
           /\ ByOne' \/ ByAll'
           /\ outcome' # Pending
           /\ outcome # Pending => outcome' = outcome
<1>1. used' = used /\ values' = values /\ remaining' = remaining
  BY DEF Direct
<1>2. outcome' = IF outcome = Pending THEN [kind |-> how, by |-> i] ELSE outcome
  BY DEF Direct, Settles
<1>3. Unused' = Unused
  BY <1>1 DEF Unused
<1>4. CASE outcome = Pending
  <2>1. i \in Nat
    BY DEF CombTyped
  <2>2. ByOne'
    BY <1>2, <1>4, <2>1 DEF ByOne
  <2>3. outcome' # Pending
    BY <1>2, <1>4 DEF How, Pending
  <2> QED
    BY <1>1, <1>3, <1>4, <2>2, <2>3
<1>5. CASE outcome # Pending
  <2>1. outcome' = outcome
    BY <1>2, <1>5
  <2>2. (ByOne => ByOne') /\ (ByAll => ByAll')
    BY <1>1, <1>3, <2>1 DEF ByOne, ByAll, Whole
  <2> QED
    BY <1>1, <1>3, <1>5, <2>1, <2>2 DEF PromiseInv
<1> QED
  BY <1>4, <1>5

LEMMA ReportInv ==
    ASSUME CombInv, NEW i \in 1 .. N, NEW how \in How, Report(i, how)
    PROVE  CombInv'
<1>1. /\ i \in 1 .. handed /\ i \in Nat /\ reports' = Append(reports, <<i, how>>)
      /\ method \in Promised /\ method' = method /\ handed' = handed /\ phase' = phase
      /\ UNCHANGED stackVars /\ CombTyped /\ PromiseInv /\ StackInv
  BY ReportIs DEF CombInv
<1>2. StackInv'
  BY <1>1, StacksStay DEF CombTyped
<1>3. PICK m \in Nat : m = Len(reports)
  BY <1>1 DEF CombTyped
<1>4. /\ reports' \in Seq((1 .. handed) \X How) /\ Len(reports') = m + 1
      /\ reports'[m + 1] = <<i, how>> /\ \A k \in 1 .. m : reports'[k] = reports[k]
      /\ DOMAIN reports = 1 .. m /\ DOMAIN reports' = 1 .. m + 1
  BY <1>1, <1>3, AppendIs DEF CombTyped
<1>5. \A j \in 1 .. handed : Reported(j)' <=> Reported(j) \/ j = i
  <2>1. \A k \in 1 .. m + 1 : k = m + 1 \/ k \in 1 .. m
    OBVIOUS
  <2>2. m + 1 \in 1 .. m + 1 /\ \A k \in 1 .. m : k \in 1 .. m + 1
    OBVIOUS
  <2>3. reports'[m + 1][1] = i
    BY <1>4
  <2>4. Reported(i)'
    BY <1>4, <2>2, <2>3 DEF Reported
  <2>5. \A j \in 1 .. handed : Reported(j) => Reported(j)'
    BY <1>4, <2>2 DEF Reported
  <2>6. \A j \in 1 .. handed : Reported(j)' => Reported(j) \/ j = i
    BY <1>4, <2>1, <2>3 DEF Reported
  <2> QED
    BY <2>4, <2>5, <2>6
<1>6. ASSUME NEW j \in 1 .. handed, NEW k \in 1 .. m, IsFirst(j, k)
      PROVE  IsFirst(j, k)' /\ k \in 1 .. m + 1 /\ reports'[k] = reports[k]
  <2>1. \A l \in 1 .. k - 1 : l \in 1 .. m
    OBVIOUS
  <2> QED
    BY <1>4, <1>6, <2>1 DEF IsFirst
<1>7. ~Reported(i) => IsFirst(i, m + 1)' /\ m + 1 \in 1 .. m + 1
  <2>1. SUFFICES ASSUME ~Reported(i) PROVE IsFirst(i, m + 1)'
    OBVIOUS
  <2>2. \A l \in 1 .. (m + 1) - 1 : l \in 1 .. m /\ reports'[l][1] # i
    BY <1>4, <2>1 DEF Reported
  <2>3. reports'[m + 1][1] = i
    BY <1>4
  <2> QED
    BY <2>2, <2>3 DEF IsFirst
<1>8. /\ used' \subseteq 1 .. handed /\ remaining' \in Nat
      /\ values' \in Seq({"empty"} \cup How) /\ Len(values') = handed
      /\ remaining' = (IF phase' = "exhausted" THEN 0 ELSE 1) + Cardinality(Unused')
      /\ outcome' = Pending \/ ByOne' \/ ByAll'
      /\ remaining' = 0 /\ method' # "race" => outcome' # Pending
      /\ used' \subseteq used \cup {i} /\ used \subseteq used'
      /\ outcome # Pending => outcome' = outcome
      /\ (i \in used' /\ method # "race") \/ outcome' # Pending
      /\ \A j \in 1 .. handed : j # i \/ i \in used => values'[j] = values[j]
      /\ method \in {"allSettled", "allSettledKeyed"} => i \in used' /\ (i \notin used => values'[i] = how)
      /\ method = "any" /\ how = "fulfilled" => outcome' # Pending
  <2>1. CASE method # "race" /\ ~(method = "any" /\ how = "fulfilled") /\ Element(i, how)
    <3>1. used \subseteq 1 .. handed
      BY <1>1 DEF CombTyped
    <3> QED
      BY <1>1, <2>1, <3>1, ElementIs
  <2>2. CASE method \notin {"allSettled", "allSettledKeyed"} /\ Direct(i, how)
    <3>1. /\ used \subseteq 1 .. handed /\ remaining \in Nat
          /\ values \in Seq({"empty"} \cup How) /\ Len(values) = handed
          /\ remaining = (IF phase = "exhausted" THEN 0 ELSE 1) + Cardinality(Unused)
      BY <1>1 DEF CombTyped, PromiseInv
    <3> QED
      BY <1>1, <2>2, <3>1, DirectIs
  <2> QED
    BY <2>1, <2>2, ReportIs
<1>9. CombTyped'
  BY <1>1, <1>4, <1>8 DEF CombTyped
<1>10. ByOne => ByOne'
  BY <1>8, ByOneIs DEF ByOne
<1>11. ~Reported(i) => outcome = Pending \/ ByOne
  <2>1. i \in used => Reported(i)
    BY <1>1 DEF PromiseInv
  <2>2. ByAll => i \in used
    BY <1>1 DEF ByAll, Unused
  <2> QED
    BY <1>1, <2>1, <2>2 DEF PromiseInv
<1>12. ~Reported(i) /\ method = "any" /\ how = "fulfilled" => ByOne'
  <2>1. SUFFICES ASSUME ~Reported(i), method = "any", how = "fulfilled" PROVE ByOne'
    OBVIOUS
  <2>2. CASE ByOne
    BY <1>10, <2>2
  <2>3. CASE outcome = Pending
    <3>1. Direct(i, how)
      BY <2>1, ReportIs
    <3>2. outcome' = [kind |-> how, by |-> i]
      BY <2>3, <3>1 DEF Direct, Settles
    <3> QED
      BY <1>1, <3>2 DEF ByOne
  <2> QED
    BY <1>11, <2>1, <2>2, <2>3
<1>13. \A j \in used' : Reported(j)'
  BY <1>1, <1>5, <1>8 DEF PromiseInv
<1>14. ASSUME NEW j \in 1 .. handed, Reported(j)'
       PROVE  /\ (j \in used' /\ method' # "race") \/ outcome' # Pending
              /\ \E k \in DOMAIN reports' :
                   /\ IsFirst(j, k)'
                   /\ method' \in {"allSettled", "allSettledKeyed"} =>
                        j \in used' /\ values'[j] = reports'[k][2]
                   /\ method' = "any" /\ reports'[k][2] = "fulfilled" => ByOne'
  <2>1. CASE Reported(j)
    <3>1. /\ (j \in used /\ method # "race") \/ outcome # Pending
          /\ \E k \in DOMAIN reports :
               /\ IsFirst(j, k)
               /\ method \in {"allSettled", "allSettledKeyed"} =>
                    j \in used /\ values[j] = reports[k][2]
               /\ method = "any" /\ reports[k][2] = "fulfilled" => ByOne
      BY <1>1, <2>1 DEF PromiseInv
    <3>2. PICK k \in 1 .. m :
               /\ IsFirst(j, k)
               /\ method \in {"allSettled", "allSettledKeyed"} =>
                    j \in used /\ values[j] = reports[k][2]
               /\ method = "any" /\ reports[k][2] = "fulfilled" => ByOne
      BY <1>4, <3>1
    <3>3. IsFirst(j, k)' /\ k \in DOMAIN reports' /\ reports'[k] = reports[k]
      BY <1>4, <1>6, <3>2
    <3>4. method \in {"allSettled", "allSettledKeyed"} => values'[j] = values[j]
      BY <1>8, <3>2
    <3>5. (j \in used' /\ method' # "race") \/ outcome' # Pending
      BY <1>1, <1>8, <3>1
    <3> QED
      BY <1>1, <1>8, <1>10, <3>2, <3>3, <3>4, <3>5
  <2>2. CASE ~Reported(j)
    <3>1. j = i /\ i \notin used
      BY <1>1, <1>5, <1>14, <2>2 DEF PromiseInv
    <3>2. IsFirst(i, m + 1)' /\ m + 1 \in DOMAIN reports' /\ reports'[m + 1][2] = how
      BY <1>4, <1>7, <2>2, <3>1
    <3> QED
      BY <1>1, <1>8, <1>12, <2>2, <3>1, <3>2
  <2> QED
    BY <2>1, <2>2
<1>15. PromiseInv'
  BY <1>1, <1>8, <1>13, <1>14 DEF PromiseInv
<1> QED
  BY <1>1, <1>2, <1>9, <1>15 DEF CombInv

(* The stacks leave the promises alone.                                    *)
LEMMA PromisesStay ==
    ASSUME CombInv, StackInv', method' = method, method \notin Promised \/ UNCHANGED promiseVars,
           outcome' = outcome, phase' = phase
    PROVE  CombInv'
<1>1. CASE method \notin Promised
  BY <1>1 DEF CombInv
<1>2. CASE method \in Promised
  <2>1. UNCHANGED <<handed, phase, used, remaining, values, outcome, reports>>
    BY <1>2 DEF promiseVars
  <2>2. Unused' = Unused
    BY <2>1 DEF Unused
  <2>3. (ByOne' <=> ByOne) /\ (ByAll' <=> ByAll)
    BY <2>1, <2>2 DEF ByOne, ByAll, Whole
  <2>4. (\A i : Reported(i)' <=> Reported(i)) /\ (\A i, k : IsFirst(i, k)' <=> IsFirst(i, k))
    BY <2>1 DEF Reported, IsFirst
  <2>5. CombTyped' /\ PromiseInv'
    BY <1>2, <2>1, <2>2, <2>3, <2>4 DEF CombInv, CombTyped, PromiseInv
  <2> QED
    BY <1>2, <2>5 DEF CombInv
<1> QED
  BY <1>1, <1>2

LEMMA PushInv ==
    ASSUME CombInv, NEW s \in 1 .. 2, Push(s)
    PROVE  CombInv'
<1>1. /\ StackInv /\ method \notin Promised /\ handed \in Nat
  BY DEF Push, CombInv, StackInv, Promised, Stacked
<1>2. PICK q : q = stacks[s]
  OBVIOUS
<1>3. PICK n : n = Len(q)
  OBVIOUS
<1>4. PICK r : r = Append(q, handed + 1)
  OBVIOUS
<1>5. /\ ~closed[s] /\ handed' = handed + 1 /\ stacks' = [stacks EXCEPT ![s] = r]
      /\ closed' = closed /\ running' = running /\ disposals' = disposals /\ method' = method
      /\ outcome' = outcome /\ phase' = phase
  BY <1>2, <1>4 DEF Push
<1>6. /\ Ordered(q, disposals, handed) /\ running = 0 /\ disposals = <<>>
      /\ \A t \in 1 .. 2 : t # s => stacks[t] = <<>> /\ closed[t]
  BY <1>1, <1>2, <1>5 DEF StackInv
<1>7. /\ q \in Seq(Nat) /\ n \in Nat
      /\ \A i \in 1 .. n : q[i] <= handed
      /\ \A i, j \in 1 .. n : i < j => q[i] < q[j]
  BY <1>3, <1>6 DEF Ordered
<1>8. \A i \in 1 .. n : q[i] \in Nat
  BY <1>3, <1>7
<1>9. /\ r \in Seq(Nat) /\ Len(r) = n + 1 /\ r[n + 1] = handed + 1
      /\ \A i \in 1 .. n : r[i] = q[i]
  BY <1>1, <1>3, <1>4, <1>7, AppendIs
<1>10. \A i \in 1 .. n + 1 : i = n + 1 \/ i \in 1 .. n
  BY <1>7
<1>11. ASSUME NEW i \in 1 .. n + 1 PROVE r[i] <= handed'
  <2>1. CASE i \in 1 .. n
    <3>1. q[i] \in Nat /\ q[i] <= handed /\ r[i] = q[i]
      BY <1>7, <1>8, <1>9, <2>1
    <3> QED
      BY <1>1, <1>5, <3>1
  <2>2. CASE i = n + 1
    BY <1>1, <1>5, <1>9, <2>2
  <2> QED
    BY <1>10, <2>1, <2>2
<1>12. \A i, j \in 1 .. n + 1 : i < j => r[i] < r[j]
  <2>1. ASSUME NEW i \in 1 .. n + 1, NEW j \in 1 .. n + 1, i < j PROVE r[i] < r[j]
    <3>1. i \in 1 .. n
      BY <1>7, <2>1
    <3>2. CASE j \in 1 .. n
      BY <1>7, <1>9, <2>1, <3>1, <3>2
    <3>3. CASE j = n + 1
      BY <1>1, <1>7, <1>8, <1>9, <3>1, <3>3, SMTT(30)
    <3> QED
      BY <1>10, <3>2, <3>3
  <2> QED
    BY <2>1
<1>13. Ordered(r, disposals', handed') /\ Ordered(<<>>, disposals', handed')
  BY <1>5, <1>6, <1>9, <1>11, <1>12 DEF Ordered
<1>14. /\ DOMAIN stacks' = 1 .. 2 /\ stacks'[s] = r
       /\ \A t \in 1 .. 2 : t # s => stacks'[t] = <<>>
  BY <1>1, <1>5, <1>6 DEF StackInv
<1>15. \A t \in 1 .. 2 : Ordered(stacks'[t], disposals', handed')
  BY <1>13, <1>14
<1>16. StackInv'
  BY <1>1, <1>5, <1>6, <1>14, <1>15 DEF StackInv
<1> QED
  BY <1>1, <1>5, <1>16, PromisesStay

LEMMA MoveInv ==
    ASSUME CombInv, Move
    PROVE  CombInv'
<1>1. /\ StackInv /\ ~closed[1] /\ stacks' = <<<<>>, stacks[1]>> /\ closed' = <<TRUE, FALSE>>
      /\ method' = method /\ running' = running /\ disposals' = disposals /\ UNCHANGED promiseVars
      /\ handed' = handed /\ outcome' = outcome /\ phase' = phase
  BY DEF Move, CombInv, promiseVars
<1>2. DOMAIN stacks' = 1 .. 2 /\ stacks'[1] = <<>> /\ stacks'[2] = stacks[1]
  BY <1>1
<1>3. DOMAIN closed' = 1 .. 2 /\ closed'[1] /\ ~closed'[2]
  BY <1>1
<1>4. (\A s \in 1 .. 2 : s = 1 \/ s = 2) /\ 1 \in 1 .. 2
  OBVIOUS
<1>5. running = 0 /\ disposals = <<>> /\ Ordered(stacks[1], disposals, handed)
  BY <1>1, <1>4 DEF StackInv
<1>6. \A s \in 1 .. 2 : Ordered(stacks'[s], disposals', handed')
  <2>1. ASSUME NEW q, Ordered(q, disposals, handed) PROVE Ordered(q, disposals', handed')
    BY <1>1, <2>1 DEF Ordered
  <2>2. Ordered(<<>>, disposals, handed)
    BY DEF Ordered
  <2> QED
    BY <1>2, <1>4, <1>5, <2>1, <2>2
<1>7. StackInv'
  BY <1>1, <1>2, <1>3, <1>4, <1>5, <1>6 DEF StackInv
<1> QED
  BY <1>1, <1>7, PromisesStay

(* dispose, and its end.                                                   *)
LEMMA DisposeInv ==
    ASSUME CombInv, (\E s \in 1 .. 2 : Dispose(s)) \/ DisposeEnds
    PROVE  CombInv'
<1>1. /\ StackInv /\ method' = method /\ stacks' = stacks /\ disposals' = disposals
      /\ UNCHANGED promiseVars /\ handed' = handed /\ outcome' = outcome /\ phase' = phase
  BY DEF Dispose, DisposeEnds, CombInv, promiseVars
<1>2. ASSUME NEW q, Ordered(q, disposals, handed) PROVE Ordered(q, disposals', handed')
  BY <1>1, <1>2 DEF Ordered
<1>3. \A s \in 1 .. 2 : Ordered(stacks'[s], disposals', handed')
  BY <1>1, <1>2 DEF StackInv
<1>4. ASSUME DisposeEnds PROVE StackInv'
  <2>1. closed' = closed /\ running' = 0
    BY <1>4 DEF DisposeEnds
  <2> QED
    BY <1>1, <1>3, <2>1 DEF StackInv
<1>5. ASSUME NEW s \in 1 .. 2, Dispose(s) PROVE StackInv'
  <2>1. closed' = [closed EXCEPT ![s] = TRUE] /\ running' = s /\ ~closed[s]
    BY <1>5 DEF Dispose
  <2>2. DOMAIN closed' = 1 .. 2 /\ closed'[s] /\ \A t \in 1 .. 2 : t # s => closed'[t] = closed[t]
    BY <1>1, <2>1 DEF StackInv
  <2>3. \A t \in 1 .. 2 : closed'[t]
    BY <1>1, <2>1, <2>2 DEF StackInv
  <2> QED
    BY <1>1, <1>3, <2>1, <2>2, <2>3 DEF StackInv
<1>6. StackInv'
  BY <1>4, <1>5
<1> QED
  BY <1>1, <1>6, PromisesStay

LEMMA DisposeNextInv ==
    ASSUME CombInv, NEW fails, DisposeNext(fails)
    PROVE  CombInv'
<1>1. PICK s : s = running
  OBVIOUS
<1>2. PICK q : q = stacks[s]
  OBVIOUS
<1>3. PICK n, e, r : n = Len(q) /\ e = Last(q) /\ r = Front(q)
  OBVIOUS
<1>4. /\ StackInv /\ s # 0 /\ q # <<>> /\ disposals' = Append(disposals, e)
      /\ stacks' = [stacks EXCEPT ![s] = r] /\ running' \in {0, s}
      /\ method' = method /\ closed' = closed
      /\ UNCHANGED promiseVars /\ handed' = handed /\ outcome' = outcome /\ phase' = phase
  BY <1>1, <1>2, <1>3 DEF DisposeNext, CombInv, promiseVars
<1>5. s \in 1 .. 2 /\ Ordered(q, disposals, handed)
  BY <1>1, <1>2, <1>4 DEF StackInv
<1>6. q \in Seq(Nat)
  BY <1>5 DEF Ordered
<1>7. /\ n \in Nat \ {0} /\ e = q[n]
      /\ r \in Seq(Nat) /\ Len(r) = n - 1 /\ \A i \in 1 .. n - 1 : r[i] = q[i]
  BY <1>3, <1>4, <1>6, FrontIs
<1>8. n \in 1 .. n /\ \A i \in 1 .. n - 1 : i \in 1 .. n /\ i < n
  BY <1>7
<1>9. \A i \in 1 .. n : q[i] \in Nat
  BY <1>3, <1>6
<1>10. PICK m : m = Len(disposals)
  OBVIOUS
<1>11. /\ disposals \in Seq(Nat) /\ m \in Nat
       /\ \A i, j \in 1 .. m : i < j => disposals[i] > disposals[j]
  BY <1>4, <1>10 DEF StackInv
<1>12. \A j \in 1 .. m : disposals[j] \in Nat
  BY <1>10, <1>11
<1>13. /\ disposals' \in Seq(Nat) /\ Len(disposals') = m + 1 /\ disposals'[m + 1] = e
       /\ \A j \in 1 .. m : disposals'[j] = disposals[j]
  BY <1>4, <1>7, <1>8, <1>9, <1>10, <1>11, AppendIs
<1>14. \A j \in 1 .. m + 1 : j = m + 1 \/ j \in 1 .. m
  BY <1>11
<1>15. /\ \A i \in 1 .. n : q[i] <= handed /\ \A j \in 1 .. m : q[i] < disposals[j]
       /\ \A i, j \in 1 .. n : i < j => q[i] < q[j]
  BY <1>3, <1>5, <1>10 DEF Ordered
<1>16. ASSUME NEW i \in 1 .. m + 1, NEW j \in 1 .. m + 1, i < j
       PROVE  disposals'[i] > disposals'[j]
  <2>1. i \in 1 .. m
    BY <1>11, <1>16
  <2>2. CASE j \in 1 .. m
    BY <1>11, <1>13, <1>16, <2>1, <2>2
  <2>3. CASE j = m + 1
    BY <1>7, <1>8, <1>9, <1>12, <1>13, <1>15, <2>1, <2>3
  <2> QED
    BY <1>14, <2>2, <2>3
<1>17. ASSUME NEW i \in 1 .. n - 1, NEW j \in 1 .. m + 1
       PROVE  r[i] < disposals'[j]
  <2>1. CASE j \in 1 .. m
    BY <1>7, <1>8, <1>13, <1>15, <2>1
  <2>2. CASE j = m + 1
    BY <1>7, <1>8, <1>13, <1>15, <2>2
  <2> QED
    BY <1>14, <2>1, <2>2
<1>18. /\ \A i \in 1 .. n - 1 : r[i] <= handed
       /\ \A i, j \in 1 .. n - 1 : i < j => r[i] < r[j]
  BY <1>7, <1>8, <1>15
<1>19. Ordered(r, disposals', handed') /\ Ordered(<<>>, disposals', handed')
  BY <1>4, <1>7, <1>13, <1>17, <1>18, SMTT(30) DEF Ordered
<1>20. \A t \in 1 .. 2 : t # s => stacks[t] = <<>>
  BY <1>2, <1>4, <1>5 DEF StackInv
<1>21. /\ DOMAIN stacks' = 1 .. 2 /\ stacks'[s] = r
       /\ \A t \in 1 .. 2 : t # s => stacks'[t] = <<>>
  BY <1>4, <1>5, <1>20 DEF StackInv
<1>22. \A t \in 1 .. 2 : closed[t] /\ Ordered(stacks'[t], disposals', handed')
  BY <1>1, <1>4, <1>19, <1>21 DEF StackInv
<1>23. running' \in 0 .. 2
  BY <1>4, <1>5
<1>24. StackInv'
  BY <1>4, <1>13, <1>16, <1>21, <1>22, <1>23 DEF StackInv
<1> QED
  BY <1>4, <1>24, PromisesStay

LEMMA CombNextInv ==
    ASSUME CombInv, [CombNext]_combVars
    PROVE  CombInv'
<1>1. CASE CombNext
  BY <1>1, HandNextInv, IterationEnds, ReportInv, PushInv, MoveInv, DisposeInv, DisposeNextInv
     DEF CombNext, How
<1>2. CASE UNCHANGED combVars
  <2>1. UNCHANGED stackVars /\ UNCHANGED promiseVars /\ method' = method
    BY <1>2 DEF combVars, stackVars, promiseVars
  <2>2. handed' = handed /\ outcome' = outcome /\ phase' = phase
    BY <2>1 DEF promiseVars
  <2>3. StackInv'
    BY <2>1, <2>2, StacksStay DEF CombInv, StackInv
  <2> QED
    BY <2>1, <2>2, <2>3, PromisesStay
<1> QED
  BY <1>1, <1>2

(* A combinator settles when the last element reports, with what each said *)
(* first, however often and when the elements call back; and a stack runs  *)
(* its disposers in the reverse order of their registration.               *)
THEOREM CombinatorsAreKept == CombSpec => []CombinatorsSettle
<1>1. CombInit => CombInv
  BY CombInitInv
<1>2. CombInv /\ [CombNext]_combVars => CombInv'
  BY CombNextInv
<1>3. CombInv => NothingLeftIsSettled
  <2>1. SUFFICES ASSUME CombInv, EveryoneReported, ~(method = "race" /\ handed = 0), outcome = Pending
                 PROVE  FALSE
    BY DEF NothingLeftIsSettled
  <2>2. method \in Promised /\ CombTyped /\ PromiseInv /\ phase = "exhausted"
    BY <2>1 DEF EveryoneReported, CombInv
  <2>3. \A i \in 1 .. handed : i \in used /\ method # "race"
    BY <2>1, <2>2 DEF EveryoneReported, PromiseInv
  <2>4. method # "race"
    <3>1. handed # 0 => 1 \in 1 .. handed
      BY <2>2 DEF CombTyped
    <3> QED
      BY <2>1, <2>3, <3>1
  <2>5. Unused = {}
    BY <2>3 DEF Unused
  <2>6. remaining = 0
    BY <2>2, <2>5, UnusedIs DEF PromiseInv
  <2> QED
    BY <2>1, <2>2, <2>4, <2>6 DEF PromiseInv
<1>4. CombInv => WholeIsWhole
  <2>1. SUFFICES ASSUME CombInv PROVE WholeIsWhole
    OBVIOUS
  <2>2. CASE outcome = Pending \/ ByOne
    <3>1. "values" \notin DOMAIN outcome /\ "errors" \notin DOMAIN outcome
      BY <2>2 DEF ByOne, Pending
    <3> QED
      BY <3>1 DEF WholeIsWhole
  <2>3. CASE ByAll /\ outcome # Pending /\ ~ByOne
    <3>1. method \in Promised /\ CombTyped /\ PromiseInv
      BY <2>1, <2>3 DEF CombInv
    <3>2. \A i \in 1 .. handed : i \in used /\ Reported(i)
      BY <2>3, <3>1 DEF ByAll, Unused, PromiseInv
    <3>3. EveryoneReported
      BY <2>3, <3>2 DEF ByAll, EveryoneReported
    <3>4. ASSUME NEW i \in 1 .. handed
          PROVE  /\ method = "any" => FirstReport(i) = "rejected"
                 /\ method \in {"allSettled", "allSettledKeyed"} => FirstReport(i) = values[i]
      <4>1. PICK k \in DOMAIN reports :
              /\ IsFirst(i, k)
              /\ method \in {"allSettled", "allSettledKeyed"} => i \in used /\ values[i] = reports[k][2]
              /\ method = "any" /\ reports[k][2] = "fulfilled" => ByOne
        BY <3>1, <3>2 DEF PromiseInv
      <4>2. FirstReport(i) = reports[k][2]
        BY <3>1, <4>1, FirstIs
      <4>3. reports[k][2] \in How
        BY <3>1 DEF CombTyped
      <4> QED
        BY <2>3, <4>1, <4>2, <4>3 DEF How
    <3>5. outcome.kind = "rejected" => method = "any"
      BY <2>3 DEF ByAll, Whole
    <3>6. method \in {"allSettled", "allSettledKeyed"} => outcome.values = values
      BY <2>3 DEF ByAll, Whole
    <3>7. method \in {"allSettled", "allSettledKeyed"} => values = [i \in 1 .. handed |-> FirstReport(i)]
      <4>1. values = [i \in 1 .. handed |-> values[i]]
        BY <3>1 DEF CombTyped, PromiseInv
      <4> QED
        BY <3>4, <4>1
    <3> QED
      BY <3>3, <3>4, <3>5, <3>6, <3>7 DEF WholeIsWhole
  <2> QED
    BY <2>1, <2>2, <2>3 DEF CombInv, PromiseInv
<1>5. CombInv => LastInFirstOut
  <2>1. SUFFICES ASSUME CombInv PROVE LastInFirstOut
    OBVIOUS
  <2>2. DOMAIN disposals = 1 .. Len(disposals)
    BY <2>1 DEF CombInv, StackInv
  <2>3. ASSUME NEW s \in 1 .. 2
        PROVE  Ordered(stacks[s], disposals, handed) /\ DOMAIN stacks[s] = 1 .. Len(stacks[s])
    <3>1. Ordered(stacks[s], disposals, handed)
      BY <2>1 DEF CombInv, StackInv
    <3>2. stacks[s] \in Seq(Nat)
      BY <3>1 DEF Ordered
    <3> QED
      BY <3>1, <3>2
  <2> QED
    BY <2>1, <2>2, <2>3 DEF CombInv, StackInv, Ordered, LastInFirstOut
<1>6. CombInv => CombinatorsSettle
  BY <1>3, <1>4, <1>5 DEF CombinatorsSettle
<1> QED
  BY <1>1, <1>2, <1>6, PTL DEF CombSpec

-----------------------------------------------------------------------------
(* Ports and broadcast channels (worker_threads.js)                        *)

Tasks == {<<"run">>} \cup ({"drain", "close"} \X Ends) \cup ({"cast"} \X Tabs \X Nat)
Port == [queue : Seq(Nat), started : BOOLEAN, closed : BOOLEAN, draining : BOOLEAN,
         ears : SUBSET BOOLEAN]
Tab == [closed : BOOLEAN, heard : Seq(Nat)]

Drains(im, e) == \E i \in 1 .. Len(im) : im[i] = <<"drain", e>>

(* The flag of a port is up only while its drain is on its way; and either *)
(* there is nothing to drain, or it drains, or the flag is up.             *)
Served(e, p, t, im) ==
    /\ p.draining => Drains(im, e)
    /\ p.started /\ ~p.closed /\ p.queue # <<>> => t = e \/ p.draining

(* What is cast and not yet heard is newer than what was, in order.        *)
Coming(im, tb, c) ==
    \A i \in 1 .. Len(im) : im[i][1] = "cast" =>
      /\ im[i][3] <= c
      /\ \A k \in 1 .. Len(tb[im[i][2]].heard) : tb[im[i][2]].heard[k] < im[i][3]
      /\ \A j \in 1 .. Len(im) : i < j /\ im[j][1] = "cast" /\ im[j][2] = im[i][2] => im[i][3] < im[j][3]

WorkerInv ==
    /\ immediates \in Seq(Tasks) /\ port \in [Ends -> Port] /\ posted \in [Ends -> Nat]
    /\ casts \in Nat /\ tab \in [Tabs -> Tab]
    /\ \A e \in Ends : Served(e, port[e], turn, immediates)
    /\ Coming(immediates, tab, casts)
    /\ \A t \in Tabs : Increasing(tab[t].heard)
                       /\ \A k \in 1 .. Len(tab[t].heard) : tab[t].heard[k] <= casts

LEMMA TaskIs ==
    /\ \A x \in Tasks : x[1] = "drain" => x[2] \in Ends /\ x = <<"drain", x[2]>>
    /\ \A x \in Tasks : x[1] = "close" => x[2] \in Ends
    /\ \A x \in Tasks : x[1] = "cast" => x[2] \in Tabs /\ x[3] \in Nat
    /\ \A e \in Ends : <<"drain", e>> \in Tasks /\ <<"close", e>> \in Tasks
    /\ <<"run">> \in Tasks
    /\ \A t \in Tabs, c \in Nat : <<"cast", t, c>> \in Tasks
  BY DEF Tasks

LEMMA TailIs ==
    ASSUME NEW S, NEW s \in Seq(S), s # <<>>
    PROVE  /\ Tail(s) \in Seq(S) /\ Len(s) \in Nat \ {0} /\ Len(Tail(s)) = Len(s) - 1
           /\ \A i \in 1 .. Len(s) - 1 : Tail(s)[i] = s[i + 1] /\ i + 1 \in 1 .. Len(s)
           /\ Head(s) = s[1] /\ s[1] \in S /\ 1 \in 1 .. Len(s)
  OBVIOUS

LEMMA BothIs ==
    ASSUME NEW S, NEW s \in Seq(S), NEW t \in Seq(S)
    PROVE  /\ s \o t \in Seq(S) /\ Len(s \o t) = Len(s) + Len(t) /\ Len(s) \in Nat /\ Len(t) \in Nat
           /\ \A i \in 1 .. Len(s) : (s \o t)[i] = s[i] /\ i \in 1 .. Len(s) + Len(t)
           /\ \A i \in 1 .. Len(t) : (s \o t)[Len(s) + i] = t[i] /\ Len(s) + i \in 1 .. Len(s) + Len(t)
           /\ \A i \in 1 .. Len(s) + Len(t) : i \in 1 .. Len(s) \/ i - Len(s) \in 1 .. Len(t)
  BY ConcatProperties

LEMMA DrainsTail ==
    ASSUME NEW im \in Seq(Tasks), im # <<>>, NEW e, Drains(im, e), im[1] # <<"drain", e>>
    PROVE  Drains(Tail(im), e)
<1>1. PICK i \in 1 .. Len(im) : im[i] = <<"drain", e>>
  BY DEF Drains
<1>2. i - 1 \in 1 .. Len(im) - 1 /\ (i - 1) + 1 = i
  BY <1>1, TailIs
<1>3. Tail(im)[i - 1] = im[i] /\ Len(Tail(im)) = Len(im) - 1
  BY <1>2, TailIs
<1> QED
  BY <1>1, <1>2, <1>3 DEF Drains

LEMMA DrainsMore ==
    ASSUME NEW im \in Seq(Tasks), NEW new \in Seq(Tasks), NEW e, Drains(im, e) \/ Drains(new, e)
    PROVE  Drains(im \o new, e)
<1>1. CASE Drains(im, e)
  <2>1. PICK i \in 1 .. Len(im) : im[i] = <<"drain", e>>
    BY <1>1 DEF Drains
  <2>2. i \in 1 .. Len(im \o new) /\ (im \o new)[i] = im[i]
    BY BothIs
  <2> QED
    BY <2>1, <2>2 DEF Drains
<1>2. CASE Drains(new, e)
  <2>1. PICK i \in 1 .. Len(new) : new[i] = <<"drain", e>>
    BY <1>2 DEF Drains
  <2>2. PICK k : k = Len(im) + i
    OBVIOUS
  <2>3. (im \o new)[k] = new[i] /\ k \in 1 .. Len(im \o new)
    BY <2>2, BothIs
  <2> QED
    BY <2>1, <2>3 DEF Drains
<1> QED
  BY <1>1, <1>2

LEMMA OneIs ==
    ASSUME NEW S, NEW x \in S, NEW s \in Seq(S)
    PROVE  <<x>> \in Seq(S) /\ Len(<<x>>) = 1 /\ <<x>>[1] = x /\ Append(s, x) = s \o <<x>>
  OBVIOUS

LEMMA ComingTail ==
    ASSUME NEW im \in Seq(Tasks), im # <<>>, NEW tb, NEW c, Coming(im, tb, c)
    PROVE  Coming(Tail(im), tb, c)
<1>1. PICK m \in Nat : m = Len(im) - 1
  BY TailIs
<1>2. /\ Len(Tail(im)) = m
      /\ \A i \in 1 .. m : Tail(im)[i] = im[i + 1] /\ i + 1 \in 1 .. Len(im)
  BY <1>1, TailIs
<1>3. \A i, j \in 1 .. m : i < j => i + 1 < j + 1
  OBVIOUS
<1> QED
  BY <1>2, <1>3 DEF Coming

LEMMA ComingMore ==
    ASSUME NEW im \in Seq(Tasks), NEW new \in Seq(Tasks), NEW tb, NEW c, Coming(im, tb, c),
           \A i \in 1 .. Len(new) : new[i][1] # "cast"
    PROVE  Coming(im \o new, tb, c)
<1>1. PICK all : all = im \o new
  OBVIOUS
<1>2. /\ Len(all) = Len(im) + Len(new)
      /\ \A i \in 1 .. Len(im) : all[i] = im[i]
      /\ \A i \in 1 .. Len(new) : all[Len(im) + i] = new[i]
      /\ \A i \in 1 .. Len(im) + Len(new) : i \in 1 .. Len(im) \/ i - Len(im) \in 1 .. Len(new)
      /\ Len(im) \in Nat
  BY <1>1, BothIs
<1>3. \A i \in 1 .. Len(all) : all[i][1] = "cast" => i \in 1 .. Len(im) /\ all[i] = im[i]
  <2>1. ASSUME NEW i \in 1 .. Len(all), i - Len(im) \in 1 .. Len(new) PROVE all[i][1] # "cast"
    <3>1. PICK k \in 1 .. Len(new) : k = i - Len(im)
      BY <2>1
    <3>2. Len(im) + k = i
      BY <1>2, <3>1
    <3>3. all[i] = new[k]
      BY <1>2, <3>2
    <3> QED
      BY <3>3
  <2> QED
    BY <1>2, <2>1
<1>4. Coming(all, tb, c)
  BY <1>3 DEF Coming
<1> QED
  BY <1>1, <1>4

LEMMA WorkerInitInv == WorkerInit => WorkerInv
<1>1. SUFFICES ASSUME WorkerInit PROVE WorkerInv
  OBVIOUS
<1>2. NewPort \in Port /\ ~NewPort.draining /\ ~NewPort.started
  BY DEF NewPort, Port
<1>3. port \in [Ends -> Port] /\ \A e \in Ends : port[e] = NewPort
  BY <1>1, <1>2 DEF WorkerInit
<1>4. posted \in [Ends -> Nat] /\ casts \in Nat
  BY <1>1 DEF WorkerInit
<1>5. tab \in [Tabs -> Tab] /\ \A t \in Tabs : tab[t].heard = <<>>
  BY <1>1 DEF WorkerInit, Tab
<1>6. immediates = <<>> \/ immediates = << <<"run">> >>
  BY <1>1 DEF WorkerInit
<1>7. immediates \in Seq(Tasks) /\ \A i \in 1 .. Len(immediates) : immediates[i] = <<"run">>
  <2>1. PICK x \in Tasks : x = <<"run">>
    BY TaskIs
  <2>2. <<>> \in Seq(Tasks) /\ Len(<<>>) = 0
    OBVIOUS
  <2>3. <<x>> \in Seq(Tasks) /\ Len(<<x>>) = 1 /\ <<x>>[1] = x
    OBVIOUS
  <2>4. CASE immediates = <<>>
    BY <2>2, <2>4
  <2>5. CASE immediates = <<x>>
    <3>1. \A i \in 1 .. Len(immediates) : i = 1
      BY <2>3, <2>5
    <3> QED
      BY <2>1, <2>3, <2>5, <3>1
  <2> QED
    BY <1>6, <2>1, <2>4, <2>5
<1>8. Coming(immediates, tab, casts)
  BY <1>7 DEF Coming
<1>9. \A e \in Ends : Served(e, port[e], turn, immediates)
  BY <1>2, <1>3 DEF Served
<1>10. \A t \in Tabs : Increasing(tab[t].heard)
                       /\ \A k \in 1 .. Len(tab[t].heard) : tab[t].heard[k] <= casts
  BY <1>5 DEF Increasing
<1> QED
  BY <1>3, <1>4, <1>5, <1>7, <1>8, <1>9, <1>10 DEF WorkerInv

(* The channels are left alone.                                            *)
LEMMA PortStep ==
    ASSUME WorkerInv, tab' = tab, casts' = casts, immediates' \in Seq(Tasks),
           Coming(immediates', tab, casts), port' \in [Ends -> Port], posted' \in [Ends -> Nat],
           \A e \in Ends : Served(e, port'[e], turn', immediates')
    PROVE  WorkerInv'
<1>1. Coming(immediates', tab', casts')
  OBVIOUS
<1>2. \A t \in Tabs : Increasing(tab'[t].heard)
                      /\ \A k \in 1 .. Len(tab'[t].heard) : tab'[t].heard[k] <= casts'
  BY DEF WorkerInv
<1> QED
  BY <1>1, <1>2 DEF WorkerInv

LEMMA ScheduleDrainIs ==
    ASSUME WorkerInv, NEW e \in Ends, NEW p \in Port, p.draining = port[e].draining,
           ScheduleDrain(e, p)
    PROVE  /\ immediates' \in Seq(Tasks) /\ Coming(immediates', tab, casts)
           /\ port' \in [Ends -> Port]
           /\ \A d \in Ends : Served(d, port'[d], turn, immediates')
<1>1. PICK q : q = [p EXCEPT !.draining = @ \/ NeedsDrain(p)]
  OBVIOUS
<1>2. /\ q \in Port /\ q.started = p.started /\ q.closed = p.closed /\ q.queue = p.queue
      /\ q.draining <=> p.draining \/ NeedsDrain(p)
  <2>1. PICK b \in BOOLEAN : b = (p.draining \/ NeedsDrain(p))
    OBVIOUS
  <2>2. q = [p EXCEPT !.draining = b]
    BY <1>1, <2>1
  <2> QED
    BY <2>1, <2>2 DEF Port
<1>3. port' = [port EXCEPT ![e] = q]
  BY <1>1 DEF ScheduleDrain
<1>4. port' \in [Ends -> Port] /\ port'[e] = q /\ \A d \in Ends : d # e => port'[d] = port[d]
  BY <1>2, <1>3 DEF WorkerInv
<1>5. /\ immediates' \in Seq(Tasks) /\ Coming(immediates', tab, casts)
      /\ NeedsDrain(p) => Drains(immediates', e)
      /\ \A d \in Ends : Drains(immediates, d) => Drains(immediates', d)
  <2>1. CASE NeedsDrain(p)
    <3>0. PICK x \in Tasks : x = <<"drain", e>>
      BY TaskIs
    <3>1. PICK new : new = <<x>>
      OBVIOUS
    <3>2. new \in Seq(Tasks) /\ Len(new) = 1 /\ new[1] = x /\ x[1] # "cast"
      BY <3>0, <3>1, OneIs
    <3>3. immediates' = immediates \o new
      <4>1. immediates' = Append(immediates, x)
        BY <2>1, <3>0 DEF ScheduleDrain
      <4> QED
        BY <3>1, <4>1, OneIs DEF WorkerInv
    <3>4. \A i \in 1 .. Len(new) : new[i][1] # "cast"
      BY <3>2
    <3>5. Drains(new, e)
      BY <3>0, <3>2 DEF Drains
    <3>6. immediates' \in Seq(Tasks)
      BY <3>2, <3>3, BothIs DEF WorkerInv
    <3> QED
      BY <3>2, <3>3, <3>4, <3>5, <3>6, DrainsMore, ComingMore DEF WorkerInv
  <2>2. CASE ~NeedsDrain(p)
    BY <2>2 DEF ScheduleDrain, WorkerInv
  <2> QED
    BY <2>1, <2>2
<1>6. ASSUME NEW d \in Ends PROVE Served(d, port'[d], turn, immediates')
  <2>1. CASE d = e
    BY <1>2, <1>4, <1>5, <2>1 DEF WorkerInv, Served, NeedsDrain
  <2>2. CASE d # e
    BY <1>4, <1>5, <2>2 DEF WorkerInv, Served
  <2> QED
    BY <2>1, <2>2
<1> QED
  BY <1>4, <1>5, <1>6

LEMMA TwinIs ==
    ASSUME NEW e \in Ends
    PROVE  Twin(e) \in Ends /\ e \notin {"none", "script"}
  BY DEF Ends, Twin

LEMMA PortCallInv ==
    ASSUME WorkerInv, NEW e \in Ends,
           (\E once \in BOOLEAN : AddListener(e, once)) \/ PostMessage(e)
    PROVE  WorkerInv'
<1>1. turn' = turn /\ tab' = tab /\ casts' = casts
  BY DEF AddListener, PostMessage, portVars
<1>2. ASSUME NEW once \in BOOLEAN, AddListener(e, once) PROVE WorkerInv'
  <2>1. PICK p : p = [port[e] EXCEPT !.ears = {once}, !.started = TRUE]
    OBVIOUS
  <2>2. p \in Port /\ p.draining = port[e].draining
    BY <2>1 DEF WorkerInv, Port
  <2>3. ScheduleDrain(e, p) /\ posted' = posted
    BY <1>2, <2>1 DEF AddListener
  <2> QED
    BY <1>1, <2>2, <2>3, ScheduleDrainIs, PortStep DEF WorkerInv
<1>3. CASE PostMessage(e)
  <2>1. PICK d \in Ends : d = Twin(e)
    BY TwinIs
  <2>2. posted' \in [Ends -> Nat]
    BY <1>3 DEF PostMessage, WorkerInv
  <2>3. PICK p : p = [port[d] EXCEPT !.queue = Append(@, posted[e] + 1)]
    OBVIOUS
  <2>4. p \in Port /\ p.draining = port[d].draining
    <3>1. Append(port[d].queue, posted[e] + 1) \in Seq(Nat)
      BY DEF WorkerInv, Port
    <3> QED
      BY <2>3, <3>1 DEF WorkerInv, Port
  <2>5. ScheduleDrain(d, p) \/ (port' = port /\ immediates' = immediates)
    BY <1>3, <2>1, <2>3 DEF PostMessage
  <2>6. CASE ScheduleDrain(d, p)
    BY <1>1, <2>2, <2>4, <2>6, ScheduleDrainIs, PortStep
  <2>7. CASE port' = port /\ immediates' = immediates
    BY <1>1, <2>2, <2>7, PortStep DEF WorkerInv
  <2> QED
    BY <2>5, <2>6, <2>7
<1> QED
  BY <1>2, <1>3

(* A step that gives nothing to the loop.                                  *)
LEMMA QuietStep ==
    ASSUME WorkerInv, tab' = tab, casts' = casts, immediates' = immediates, posted' = posted,
           NEW e \in Ends, NEW p \in Port, port' = [port EXCEPT ![e] = p],
           p.draining = port[e].draining, Served(e, p, turn', immediates),
           \A d \in Ends : d # e => turn' = d \/ turn # d
    PROVE  WorkerInv'
<1>1. port' \in [Ends -> Port] /\ port'[e] = p /\ \A d \in Ends : d # e => port'[d] = port[d]
  BY DEF WorkerInv
<1>2. \A d \in Ends : Served(d, port'[d], turn', immediates')
  BY <1>1 DEF WorkerInv, Served
<1> QED
  BY <1>1, <1>2, PortStep DEF WorkerInv

LEMMA QuietInv ==
    ASSUME WorkerInv, (\E e \in Ends : Off(e)) \/ ReceiveMessageOnPort \/ DrainEmits \/ DrainEnds
    PROVE  WorkerInv'
<1>1. tab' = tab /\ casts' = casts /\ immediates' = immediates /\ posted' = posted
  BY DEF Off, ReceiveMessageOnPort, DrainEmits, DrainEnds, portVars
<1>2. ASSUME NEW e \in Ends, Off(e) PROVE WorkerInv'
  <2>1. PICK p : p = [port[e] EXCEPT !.ears = {}]
    OBVIOUS
  <2>2. p \in Port /\ \A f \in {"draining", "started", "closed", "queue"} : p[f] = port[e][f]
    BY <2>1 DEF WorkerInv, Port
  <2>3. port' = [port EXCEPT ![e] = p] /\ turn' = turn
    BY <1>2, <2>1 DEF Off
  <2>4. Served(e, p, turn', immediates) /\ p.draining = port[e].draining
    BY <2>2, <2>3 DEF WorkerInv, Served
  <2> QED
    BY <1>1, <2>2, <2>3, <2>4, QuietStep
<1>3. CASE ReceiveMessageOnPort
  <2>1. PICK e \in Ends : e = "worker"
    BY DEF Ends
  <2>2. PICK p : p = [port[e] EXCEPT !.queue = Tail(@)]
    OBVIOUS
  <2>3. port[e].queue # <<>> /\ port' = [port EXCEPT ![e] = p] /\ turn' = turn
    BY <1>3, <2>1, <2>2 DEF ReceiveMessageOnPort
  <2>4. Tail(port[e].queue) \in Seq(Nat)
    BY <2>3, TailIs DEF WorkerInv, Port
  <2>5. p \in Port /\ p.draining = port[e].draining /\ p.started = port[e].started /\ p.closed = port[e].closed
    BY <2>2, <2>4 DEF WorkerInv, Port
  <2>6. Served(e, p, turn', immediates)
    BY <2>3, <2>5 DEF WorkerInv, Served
  <2> QED
    BY <1>1, <2>3, <2>5, <2>6, QuietStep
<1>4. CASE DrainEmits
  <2>1. PICK e \in Ends : e = turn
    BY <1>4 DEF DrainEmits
  <2>2. PICK p : p = [port[e] EXCEPT !.queue = Tail(@), !.ears = @ \ {TRUE}]
    OBVIOUS
  <2>3. port[e].queue # <<>> /\ port' = [port EXCEPT ![e] = p] /\ turn' = turn
    BY <1>4, <2>1, <2>2 DEF DrainEmits
  <2>4. Tail(port[e].queue) \in Seq(Nat)
    BY <2>3, TailIs DEF WorkerInv, Port
  <2>5. p \in Port /\ p.draining = port[e].draining
    BY <2>2, <2>4 DEF WorkerInv, Port
  <2>6. Served(e, p, turn', immediates)
    BY <2>1, <2>3, <2>5 DEF WorkerInv, Served
  <2> QED
    BY <1>1, <2>3, <2>5, <2>6, QuietStep
<1>5. CASE DrainEnds
  <2>1. PICK e \in Ends : e = turn
    BY <1>5 DEF DrainEnds
  <2>2. port' = port /\ turn' = "none" /\ (port[e].closed \/ port[e].queue = <<>>)
    BY <1>5, <2>1 DEF DrainEnds
  <2>3. \A d \in Ends : Served(d, port[d], turn', immediates)
    BY <2>1, <2>2 DEF WorkerInv, Served
  <2> QED
    BY <1>1, <2>2, <2>3, PortStep DEF WorkerInv
<1> QED
  BY <1>2, <1>3, <1>4, <1>5

LEMMA DrainStartsInv ==
    ASSUME WorkerInv, DrainStarts
    PROVE  WorkerInv'
<1>1. PICK e : e = Head(immediates)[2]
  OBVIOUS
<1>2. /\ turn = "none" /\ immediates # <<>> /\ Head(immediates)[1] = "drain"
      /\ port' = [port EXCEPT ![e].draining = FALSE]
      /\ turn' = (IF port[e].closed \/ ~port[e].started THEN "none" ELSE e)
      /\ immediates' = Tail(immediates)
      /\ tab' = tab /\ casts' = casts /\ posted' = posted
  BY <1>1 DEF DrainStarts, portVars
<1>3. e \in Ends /\ immediates[1] = <<"drain", e>>
  BY <1>1, <1>2, TailIs, TaskIs DEF WorkerInv
<1>4. immediates' \in Seq(Tasks) /\ Coming(immediates', tab, casts)
  BY <1>2, TailIs, ComingTail DEF WorkerInv
<1>5. PICK p : p = [port[e] EXCEPT !.draining = FALSE]
  OBVIOUS
<1>6. p \in Port /\ ~p.draining /\ p.started = port[e].started /\ p.closed = port[e].closed
  BY <1>3, <1>5 DEF WorkerInv, Port
<1>7. port' \in [Ends -> Port] /\ port'[e] = p /\ \A d \in Ends : d # e => port'[d] = port[d]
  BY <1>2, <1>3, <1>5, <1>6 DEF WorkerInv
<1>8. ASSUME NEW d \in Ends PROVE Served(d, port'[d], turn', immediates')
  <2>1. CASE d = e
    BY <1>2, <1>6, <1>7, <2>1 DEF Served
  <2>2. CASE d # e
    <3>1. <<"drain", e>> # <<"drain", d>>
      BY <2>2
    <3>2. Drains(immediates, d) => Drains(immediates', d)
      BY <1>2, <1>3, <3>1, DrainsTail DEF WorkerInv
    <3>3. turn # d
      BY <1>2, TwinIs
    <3> QED
      BY <1>7, <2>2, <3>2, <3>3 DEF WorkerInv, Served
  <2> QED
    BY <2>1, <2>2
<1> QED
  BY <1>2, <1>4, <1>7, <1>8, PortStep DEF WorkerInv

(* A close leaves what the other handlers gave to the loop.                *)
LEMMA ClosePortsIs ==
    ASSUME WorkerInv, NEW es \in SUBSET Ends, NEW tasks \in Seq(Tasks),
           Coming(tasks, tab, casts), ClosePorts(es, tasks),
           \A e \in Ends : Drains(immediates, e) => Drains(tasks, e)
    PROVE  /\ immediates' \in Seq(Tasks) /\ Coming(immediates', tab, casts)
           /\ port' \in [Ends -> Port]
           /\ \A e \in Ends : Served(e, port'[e], turn, immediates')
<1>1. PICK open \in SUBSET Ends : open = {e \in es : ~port[e].closed}
  OBVIOUS
<1>2. port' = [e \in Ends |-> [port[e] EXCEPT !.closed = @ \/ e \in open]]
  BY <1>1 DEF ClosePorts
<1>3. ASSUME NEW e \in Ends
      PROVE  /\ port'[e] \in Port /\ port'[e].draining = port[e].draining
             /\ port'[e].started = port[e].started /\ port'[e].queue = port[e].queue
             /\ port[e].closed => port'[e].closed
  <2>1. PICK b \in BOOLEAN : b = (port[e].closed \/ e \in open)
    OBVIOUS
  <2>2. port'[e] = [port[e] EXCEPT !.closed = b]
    BY <1>2, <2>1
  <2>3. port[e] \in Port
    BY DEF WorkerInv
  <2> QED
    BY <2>1, <2>2, <2>3 DEF Port
<1>4. port' \in [Ends -> Port]
  BY <1>2, <1>3
<1>5. PICK a, b : a = CloseTasks("worker", open) /\ b = CloseTasks("main", open)
  OBVIOUS
<1>6. /\ a \in Seq(Tasks) /\ \A i \in 1 .. Len(a) : a[i][1] # "cast"
      /\ b \in Seq(Tasks) /\ \A i \in 1 .. Len(b) : b[i][1] # "cast"
  <2>1. ASSUME NEW e \in Ends
        PROVE  CloseTasks(e, open) \in Seq(Tasks) /\ \A i \in 1 .. Len(CloseTasks(e, open)) : CloseTasks(e, open)[i][1] # "cast"
    <3>1. PICK x \in Tasks : x = <<"close", e>>
      BY TaskIs
    <3>2. <<x>> \in Seq(Tasks) /\ <<>> \in Seq(Tasks) /\ Len(<<x>>) = 1 /\ <<x>>[1] = x /\ x[1] # "cast"
      BY <3>1, OneIs
    <3>3. PICK told : told = CloseTasks(e, open)
      OBVIOUS
    <3>4. CASE told = <<x>>
      <4>1. \A i \in 1 .. Len(told) : i = 1
        BY <3>2, <3>4
      <4> QED
        BY <3>2, <3>3, <3>4, <4>1
    <3>5. CASE told = <<>>
      <4>1. Len(<<>>) = 0
        OBVIOUS
      <4> QED
        BY <3>2, <3>3, <3>5, <4>1
    <3>6. told = <<x>> \/ told = <<>>
      BY <3>1, <3>3 DEF CloseTasks
    <3> QED
      BY <3>4, <3>5, <3>6
  <2> QED
    BY <1>5, <2>1 DEF Ends
<1>7. immediates' = (tasks \o a) \o b
  BY <1>1, <1>5 DEF ClosePorts
<1>8. tasks \o a \in Seq(Tasks) /\ Coming(tasks \o a, tab, casts)
  BY <1>6, BothIs, ComingMore
<1>9. immediates' \in Seq(Tasks) /\ Coming(immediates', tab, casts)
  BY <1>6, <1>7, <1>8, BothIs, ComingMore
<1>10. \A e \in Ends : Drains(immediates, e) => Drains(immediates', e)
  BY <1>6, <1>7, <1>8, DrainsMore
<1>11. ASSUME NEW e \in Ends PROVE Served(e, port'[e], turn, immediates')
  BY <1>3, <1>10 DEF WorkerInv, Served
<1> QED
  BY <1>4, <1>9, <1>11

LEMMA CloseInv ==
    ASSUME WorkerInv, (\E e \in Ends : Close(e)) \/ Terminate \/ CloseEmits
    PROVE  WorkerInv'
<1>1. turn' = turn /\ tab' = tab /\ casts' = casts /\ posted' = posted
  BY DEF Close, Terminate, CloseEmits, portVars, otherVars
<1>2. \E es \in SUBSET Ends : \E tasks \in Seq(Tasks) :
        /\ Coming(tasks, tab, casts) /\ ClosePorts(es, tasks)
        /\ \A e \in Ends : Drains(immediates, e) => Drains(tasks, e)
  <2>1. ASSUME NEW e \in Ends, Close(e)
        PROVE  ClosePorts({e}, immediates) /\ {e} \in SUBSET Ends
    BY <2>1 DEF Close
  <2>2. Terminate => ClosePorts(Ends, immediates) /\ Ends \in SUBSET Ends
    BY DEF Terminate
  <2>3. CASE CloseEmits
    <3>1. PICK e : e = Head(immediates)[2]
      OBVIOUS
    <3>2. /\ immediates # <<>> /\ Head(immediates)[1] = "close"
          /\ ClosePorts({Twin(e)}, Tail(immediates))
      BY <2>3, <3>1 DEF CloseEmits
    <3>3. e \in Ends /\ immediates[1][1] = "close"
      BY <3>1, <3>2, TailIs, TaskIs DEF WorkerInv
    <3>4. {Twin(e)} \in SUBSET Ends
      BY <3>3, TwinIs
    <3>5. Tail(immediates) \in Seq(Tasks) /\ Coming(Tail(immediates), tab, casts)
      BY <3>2, TailIs, ComingTail DEF WorkerInv
    <3>6. \A d \in Ends : immediates[1] # <<"drain", d>>
      BY <3>3
    <3>7. \A d \in Ends : Drains(immediates, d) => Drains(Tail(immediates), d)
      BY <3>2, <3>6, DrainsTail DEF WorkerInv
    <3> QED
      BY <3>2, <3>4, <3>5, <3>7
  <2>4. immediates \in Seq(Tasks) /\ Coming(immediates, tab, casts)
    BY DEF WorkerInv
  <2> QED
    BY <2>1, <2>2, <2>3, <2>4
<1>3. /\ immediates' \in Seq(Tasks) /\ Coming(immediates', tab, casts)
      /\ port' \in [Ends -> Port]
      /\ \A e \in Ends : Served(e, port'[e], turn, immediates')
  BY <1>2, ClosePortsIs
<1> QED
  BY <1>1, <1>3, PortStep DEF WorkerInv

LEMMA ScriptInv ==
    ASSUME WorkerInv, RunWorker \/ ScriptEnds \/ ScriptThrows
    PROVE  WorkerInv'
<1>1. tab' = tab /\ casts' = casts /\ posted' = posted /\ port' = port
  BY DEF RunWorker, ScriptEnds, ScriptThrows, ScriptReturns, otherVars
<1>2. \A e \in Ends : turn # e
  <2>1. turn \in {"none", "script"}
    BY DEF RunWorker, ScriptEnds, ScriptThrows, ScriptReturns
  <2> QED
    BY <2>1, TwinIs
<1>3. immediates' \in Seq(Tasks) /\ Coming(immediates', tab, casts)
      /\ \A d \in Ends : Drains(immediates, d) => Drains(immediates', d)
  <2>1. CASE RunWorker
    <3>1. immediates # <<>> /\ Head(immediates) = <<"run">> /\ immediates' = Tail(immediates)
      BY <2>1 DEF RunWorker
    <3>2. immediates[1] = <<"run">>
      BY <3>1, TailIs DEF WorkerInv
    <3>3. \A d \in Ends : immediates[1] # <<"drain", d>>
      <4>1. immediates[1][1] = "run"
        BY <3>2
      <4> QED
        BY <4>1
    <3> QED
      BY <3>1, <3>3, TailIs, ComingTail, DrainsTail DEF WorkerInv
  <2>2. CASE ScriptEnds \/ ScriptThrows
    BY <2>2 DEF ScriptEnds, ScriptThrows, ScriptReturns, WorkerInv
  <2> QED
    BY <2>1, <2>2
<1>4. \A e \in Ends : Served(e, port'[e], turn', immediates')
  BY <1>1, <1>2, <1>3 DEF WorkerInv, Served
<1> QED
  BY <1>1, <1>3, <1>4, PortStep DEF WorkerInv

-----------------------------------------------------------------------------
LEMMA ChannelStep ==
    ASSUME WorkerInv, UNCHANGED <<port, turn, posted>>, immediates' \in Seq(Tasks),
           casts' \in Nat, tab' \in [Tabs -> Tab], Coming(immediates', tab', casts'),
           \A d \in Ends : Drains(immediates, d) => Drains(immediates', d),
           \A t \in Tabs : Increasing(tab'[t].heard)
                           /\ \A k \in 1 .. Len(tab'[t].heard) : tab'[t].heard[k] <= casts'
    PROVE  WorkerInv'
<1>1. \A e \in Ends : Served(e, port'[e], turn', immediates')
  BY DEF WorkerInv, Served
<1> QED
  BY <1>1 DEF WorkerInv

LEMMA BroadcastInv ==
    ASSUME WorkerInv, NEW t \in Tabs, Broadcast(t)
    PROVE  WorkerInv'
<1>1. PICK S : S = {s \in Tabs \ {t} : ~tab[s].closed}
  OBVIOUS
<1>2. PICK others \in InRegistry(S) :
        immediates' = immediates \o [i \in DOMAIN others |-> <<"cast", others[i], casts + 1>>]
  BY <1>1 DEF Broadcast
<1>3. casts' = casts + 1 /\ tab' = tab /\ casts \in Nat /\ UNCHANGED <<port, turn, posted>>
  BY DEF Broadcast, noPort, WorkerInv
<1>4. PICK n \in Nat : n = Cardinality(S)
  <2>1. IsFiniteSet(S)
    BY <1>1, WorkerAssumption, FS_Subset
  <2> QED
    BY <2>1, FS_CardinalityType
<1>5. /\ DOMAIN others = 1 .. n /\ \A i \in 1 .. n : others[i] \in Tabs
      /\ \A i, j \in 1 .. n : i < j => others[i] < others[j]
  BY <1>1, <1>4 DEF InRegistry, Increasing
<1>6. \A i, j \in 1 .. n : i < j => others[i] # others[j]
  <2>1. ASSUME NEW i \in 1 .. n, NEW j \in 1 .. n, i < j PROVE others[i] # others[j]
    <3>1. others[i] \in Nat /\ others[j] \in Nat
      BY <1>5, WorkerAssumption
    <3>2. others[i] < others[j]
      BY <1>5, <2>1
    <3> QED
      BY <3>1, <3>2
  <2> QED
    BY <2>1
<1>7. PICK new : new = [i \in 1 .. n |-> <<"cast", others[i], casts + 1>>]
  OBVIOUS
<1>8. \A i \in 1 .. n : new[i] \in Tasks
  BY <1>3, <1>5, <1>7, TaskIs
<1>9. new \in Seq(Tasks) /\ Len(new) = n
  <2>1. new \in [1 .. n -> Tasks]
    BY <1>7, <1>8
  <2> QED
    BY <2>1, SeqDef, LenProperties
<1>10. \A i \in 1 .. n : new[i][1] = "cast" /\ new[i][2] = others[i] /\ new[i][3] = casts + 1
  BY <1>7
<1>11. PICK m \in Nat : m = Len(immediates)
  BY DEF WorkerInv
<1>12. PICK all : all = immediates \o new
  OBVIOUS
<1>13. /\ all \in Seq(Tasks) /\ Len(all) = m + n /\ immediates' = all
       /\ \A i \in 1 .. m : all[i] = immediates[i]
       /\ \A i \in 1 .. n : all[m + i] = new[i]
       /\ \A i \in 1 .. m + n : i \in 1 .. m \/ i - m \in 1 .. n
  BY <1>2, <1>5, <1>7, <1>9, <1>11, <1>12, BothIs, SMTT(30) DEF WorkerInv
<1>14. \A i \in 1 .. m : immediates[i] \in Tasks
  BY <1>11 DEF WorkerInv
<1>15. ASSUME NEW i \in 1 .. m, all[i][1] = "cast"
       PROVE  /\ all[i][3] \in Nat /\ all[i][3] <= casts /\ all[i][2] \in Tabs
              /\ \A k \in 1 .. Len(tab[all[i][2]].heard) : tab[all[i][2]].heard[k] < all[i][3]
              /\ \A j \in 1 .. m : i < j /\ all[j][1] = "cast" /\ all[j][2] = all[i][2] => all[i][3] < all[j][3]
  <2>1. immediates[i] = all[i] /\ i \in 1 .. Len(immediates)
    BY <1>11, <1>13
  <2>2. PICK x \in Tasks : x = immediates[i]
    BY <1>14
  <2>3. x[1] = "cast" /\ x[2] \in Tabs /\ x[3] \in Nat
    BY <1>15, <2>1, <2>2, TaskIs
  <2>4. Coming(immediates, tab, casts)
    BY DEF WorkerInv
  <2>5. x[3] <= casts /\ \A k \in 1 .. Len(tab[x[2]].heard) : tab[x[2]].heard[k] < x[3]
    BY <2>1, <2>2, <2>3, <2>4 DEF Coming
  <2>6. ASSUME NEW j \in 1 .. m, i < j, all[j][1] = "cast", all[j][2] = all[i][2]
        PROVE  all[i][3] < all[j][3]
    <3>1. all[j] = immediates[j] /\ j \in 1 .. Len(immediates)
      BY <1>11, <1>13
    <3> QED
      BY <1>15, <2>1, <2>4, <2>6, <3>1 DEF Coming
  <2> QED
    BY <2>1, <2>2, <2>3, <2>5, <2>6
<1>16. ASSUME NEW i \in 1 .. m + n, i - m \in 1 .. n
       PROVE  /\ all[i][1] = "cast" /\ all[i][2] = others[i - m] /\ all[i][3] = casts + 1
              /\ all[i][2] \in Tabs /\ i > m
  <2>1. PICK k \in 1 .. n : k = i - m
    BY <1>16
  <2>2. m + k = i
    BY <2>1
  <2>3. all[i] = new[k]
    BY <1>13, <2>2
  <2> QED
    BY <1>5, <1>10, <2>1, <2>2, <2>3
<1>17. ASSUME NEW i \in 1 .. m + n, all[i][1] = "cast"
       PROVE  /\ all[i][3] <= casts + 1
              /\ \A k \in 1 .. Len(tab[all[i][2]].heard) : tab[all[i][2]].heard[k] < all[i][3]
              /\ \A j \in 1 .. m + n : i < j /\ all[j][1] = "cast" /\ all[j][2] = all[i][2] => all[i][3] < all[j][3]
  <2>1. CASE i \in 1 .. m
    <3>1. ASSUME NEW j \in 1 .. m + n, i < j, all[j][1] = "cast", all[j][2] = all[i][2]
          PROVE  all[i][3] < all[j][3]
      <4>1. CASE j \in 1 .. m
        BY <1>15, <1>17, <2>1, <3>1, <4>1
      <4>2. CASE j - m \in 1 .. n
        BY <1>3, <1>15, <1>16, <1>17, <2>1, <4>2, SMTT(30)
      <4> QED
        BY <1>13, <4>1, <4>2
    <3> QED
      BY <1>3, <1>15, <1>17, <2>1, <3>1
  <2>2. CASE i - m \in 1 .. n
    <3>1. all[i][2] \in Tabs /\ all[i][3] = casts + 1 /\ i > m /\ all[i][2] = others[i - m]
      BY <1>16, <2>2
    <3>2. PICK h : h = tab[all[i][2]].heard
      OBVIOUS
    <3>3. h \in Seq(Nat) /\ \A k \in 1 .. Len(h) : h[k] <= casts
      BY <3>1, <3>2 DEF WorkerInv, Tab
    <3>4. \A k \in 1 .. Len(h) : h[k] \in Nat
      BY <3>3
    <3>5. \A k \in 1 .. Len(h) : h[k] < casts + 1
      BY <1>3, <3>3, <3>4
    <3>6. ASSUME NEW j \in 1 .. m + n, i < j, all[j][2] = all[i][2] PROVE FALSE
      <4>1. j - m \in 1 .. n /\ i - m < j - m
        BY <1>13, <3>1, <3>6
      <4>2. all[j][2] = others[j - m]
        BY <1>16, <4>1
      <4> QED
        BY <1>6, <2>2, <3>1, <3>6, <4>1, <4>2
    <3> QED
      BY <1>3, <3>1, <3>2, <3>5, <3>6
  <2> QED
    BY <1>13, <2>1, <2>2
<1>18. Coming(immediates', tab', casts')
  BY <1>3, <1>13, <1>17 DEF Coming
<1>19. \A d \in Ends : Drains(immediates, d) => Drains(immediates', d)
  BY <1>9, <1>12, <1>13, DrainsMore DEF WorkerInv
<1>20. ASSUME NEW s \in Tabs
       PROVE  Increasing(tab'[s].heard) /\ \A k \in 1 .. Len(tab'[s].heard) : tab'[s].heard[k] <= casts'
  <2>1. PICK h : h = tab[s].heard
    OBVIOUS
  <2>2. h \in Seq(Nat) /\ Increasing(h) /\ \A k \in 1 .. Len(h) : h[k] <= casts
    BY <2>1 DEF WorkerInv, Tab
  <2>3. \A k \in 1 .. Len(h) : h[k] \in Nat
    BY <2>2
  <2> QED
    BY <1>3, <2>1, <2>2, <2>3
<1> QED
  BY <1>3, <1>13, <1>18, <1>19, <1>20, ChannelStep DEF WorkerInv

LEMMA CastArrivesInv ==
    ASSUME WorkerInv, CastArrives
    PROVE  WorkerInv'
<1>1. PICK s, n : s = Head(immediates)[2] /\ n = Head(immediates)[3]
  OBVIOUS
<1>2. /\ immediates # <<>> /\ Head(immediates)[1] = "cast" /\ immediates' = Tail(immediates)
      /\ tab' = (IF tab[s].closed THEN tab ELSE [tab EXCEPT ![s].heard = Append(@, n)])
      /\ casts' = casts /\ UNCHANGED <<port, turn, posted>>
  BY <1>1 DEF CastArrives, noPort
<1>3. /\ immediates \in Seq(Tasks) /\ s \in Tabs /\ n \in Nat
      /\ immediates[1][1] = "cast" /\ immediates[1][2] = s /\ immediates[1][3] = n
      /\ 1 \in 1 .. Len(immediates)
  BY <1>1, <1>2, TailIs, TaskIs DEF WorkerInv
<1>4. PICK h : h = tab[s].heard
  OBVIOUS
<1>5. /\ n <= casts /\ \A k \in 1 .. Len(h) : h[k] < n
      /\ \A j \in 1 .. Len(immediates) :
           1 < j /\ immediates[j][1] = "cast" /\ immediates[j][2] = s => n < immediates[j][3]
  BY <1>3, <1>4 DEF WorkerInv, Coming
<1>6. h \in Seq(Nat) /\ Increasing(h) /\ Len(h) \in Nat
  BY <1>3, <1>4 DEF WorkerInv, Tab
<1>7. /\ Tail(immediates) \in Seq(Tasks) /\ Coming(Tail(immediates), tab, casts)
      /\ \A d \in Ends : Drains(immediates, d) => Drains(Tail(immediates), d)
  <2>1. \A d \in Ends : immediates[1] # <<"drain", d>>
    BY <1>3
  <2> QED
    BY <1>2, <2>1, TailIs, ComingTail, DrainsTail DEF WorkerInv
<1>8. CASE tab[s].closed
  BY <1>2, <1>7, <1>8, ChannelStep DEF WorkerInv
<1>9. CASE ~tab[s].closed
  <2>1. PICK g : g = Append(h, n)
    OBVIOUS
  <2>2. /\ g \in Seq(Nat) /\ Len(g) = Len(h) + 1 /\ g[Len(h) + 1] = n
        /\ \A k \in 1 .. Len(h) : g[k] = h[k]
        /\ DOMAIN g = 1 .. Len(h) + 1 /\ DOMAIN h = 1 .. Len(h)
    BY <1>3, <1>6, <2>1, AppendIs
  <2>3. PICK r : r = [tab[s] EXCEPT !.heard = g]
    OBVIOUS
  <2>4. r \in Tab /\ r.heard = g
    BY <1>3, <2>2, <2>3 DEF WorkerInv, Tab
  <2>5. tab' = [tab EXCEPT ![s] = r]
    BY <1>2, <1>4, <1>9, <2>1, <2>3
  <2>6. tab' \in [Tabs -> Tab] /\ tab'[s].heard = g /\ \A t \in Tabs : t # s => tab'[t] = tab[t]
    BY <1>3, <2>4, <2>5 DEF WorkerInv
  <2>7. \A k \in 1 .. Len(h) + 1 : k = Len(h) + 1 \/ k \in 1 .. Len(h)
    BY <1>6
  <2>8. \A k \in 1 .. Len(h) : h[k] \in Nat
    BY <1>6
  <2>9. \A k \in 1 .. Len(h) + 1 : g[k] <= n
    BY <1>3, <1>5, <2>2, <2>7, <2>8
  <2>10. Increasing(g)
    <3>1. \A i, j \in 1 .. Len(h) : i < j => h[i] < h[j]
      BY <1>6, <2>2 DEF Increasing
    <3>2. ASSUME NEW i \in 1 .. Len(h) + 1, NEW j \in 1 .. Len(h) + 1, i < j PROVE g[i] < g[j]
      <4>1. i \in 1 .. Len(h)
        BY <1>6, <3>2
      <4>2. CASE j \in 1 .. Len(h)
        BY <2>2, <3>1, <3>2, <4>1, <4>2
      <4>3. CASE j = Len(h) + 1
        BY <1>5, <2>2, <4>1, <4>3
      <4> QED
        BY <2>7, <4>2, <4>3
    <3> QED
      BY <2>2, <3>2 DEF Increasing
  <2>11. casts \in Nat
    BY DEF WorkerInv
  <2>12. ASSUME NEW t \in Tabs
         PROVE  Increasing(tab'[t].heard) /\ \A k \in 1 .. Len(tab'[t].heard) : tab'[t].heard[k] <= casts'
    <3>1. CASE t = s
      <4>1. \A k \in 1 .. Len(h) + 1 : g[k] \in Nat
        BY <2>2
      <4>2. \A k \in 1 .. Len(h) + 1 : g[k] <= casts
        BY <1>3, <1>5, <2>9, <2>11, <4>1
      <4> QED
        BY <1>2, <2>2, <2>6, <2>10, <3>1, <4>2
    <3>2. CASE t # s
      BY <1>2, <2>6, <3>2 DEF WorkerInv
    <3> QED
      BY <3>1, <3>2
  <2>13. PICK m \in Nat : m = Len(immediates) - 1
    BY <1>2, TailIs DEF WorkerInv
  <2>14. PICK im : im = Tail(immediates)
    OBVIOUS
  <2>15. /\ Len(im) = m /\ im \in Seq(Tasks)
         /\ \A i \in 1 .. m : im[i] = immediates[i + 1] /\ i + 1 \in 1 .. Len(immediates) /\ 1 < i + 1
    BY <1>2, <2>13, <2>14, TailIs DEF WorkerInv
  <2>16. \A i \in 1 .. m : im[i] \in Tasks
    BY <2>15
  <2>17. ASSUME NEW i \in 1 .. m, im[i][1] = "cast"
         PROVE  /\ im[i][3] <= casts
                /\ \A k \in 1 .. Len(tab'[im[i][2]].heard) : tab'[im[i][2]].heard[k] < im[i][3]
                /\ \A j \in 1 .. m : i < j /\ im[j][1] = "cast" /\ im[j][2] = im[i][2] => im[i][3] < im[j][3]
    <3>1. im[i][2] \in Tabs /\ im[i][3] \in Nat
      BY <2>16, <2>17, TaskIs
    <3>2. /\ im[i][3] <= casts
          /\ \A k \in 1 .. Len(tab[im[i][2]].heard) : tab[im[i][2]].heard[k] < im[i][3]
          /\ \A j \in 1 .. m : i < j /\ im[j][1] = "cast" /\ im[j][2] = im[i][2] => im[i][3] < im[j][3]
      BY <1>7, <2>14, <2>15, <2>17 DEF Coming
    <3>3. CASE im[i][2] = s
      <4>1. n < im[i][3]
        BY <1>5, <2>15, <2>17, <3>3
      <4>2. \A k \in 1 .. Len(h) + 1 : g[k] \in Nat
        BY <2>2
      <4>3. \A k \in 1 .. Len(h) + 1 : g[k] < im[i][3]
        BY <1>3, <2>9, <3>1, <4>1, <4>2
      <4> QED
        BY <2>2, <2>6, <3>2, <3>3, <4>3
    <3>4. CASE im[i][2] # s
      BY <2>6, <3>1, <3>2, <3>4
    <3> QED
      BY <3>3, <3>4
  <2>18. Coming(immediates', tab', casts')
    BY <1>2, <2>14, <2>15, <2>17 DEF Coming
  <2>19. immediates' \in Seq(Tasks) /\ casts' \in Nat
    BY <1>2, <1>7, <2>11
  <2>20. \A d \in Ends : Drains(immediates, d) => Drains(immediates', d)
    BY <1>2, <1>7
  <2> QED
    BY <1>2, <2>6, <2>12, <2>18, <2>19, <2>20, ChannelStep
<1> QED
  BY <1>8, <1>9

LEMMA CloseChannelInv ==
    ASSUME WorkerInv, NEW t \in Tabs, CloseChannel(t)
    PROVE  WorkerInv'
<1>1. PICK r : r = [tab[t] EXCEPT !.closed = TRUE]
  OBVIOUS
<1>2. r \in Tab /\ r.heard = tab[t].heard
  BY <1>1 DEF WorkerInv, Tab
<1>3. tab' = [tab EXCEPT ![t] = r] /\ immediates' = immediates /\ casts' = casts /\ UNCHANGED <<port, turn, posted>>
  BY <1>1 DEF CloseChannel, noPort
<1>4. tab' \in [Tabs -> Tab] /\ \A s \in Tabs : tab'[s].heard = tab[s].heard
  BY <1>2, <1>3 DEF WorkerInv
<1>5. ASSUME NEW i \in 1 .. Len(immediates), immediates[i][1] = "cast"
      PROVE  immediates[i][2] \in Tabs
  <2>1. immediates[i] \in Tasks
    BY DEF WorkerInv
  <2> QED
    BY <1>5, <2>1, TaskIs
<1>6. Coming(immediates, tab', casts)
  BY <1>4, <1>5 DEF WorkerInv, Coming
<1> QED
  BY <1>3, <1>4, <1>6, ChannelStep DEF WorkerInv

LEMMA WorkerNextInv ==
    ASSUME WorkerInv, [WorkerNext]_workerVars
    PROVE  WorkerInv'
<1>1. CASE LoopTurn
  BY <1>1, DrainStartsInv, QuietInv, CloseInv, ScriptInv, CastArrivesInv DEF LoopTurn
<1>2. CASE \E e \in Ends : PortCall(e)
  BY <1>2, PortCallInv, QuietInv, CloseInv DEF PortCall
<1>3. CASE ReceiveMessageOnPort \/ Terminate
  BY <1>3, QuietInv, CloseInv
<1>4. CASE \E t \in Tabs : Broadcast(t) \/ CloseChannel(t)
  BY <1>4, BroadcastInv, CloseChannelInv
<1>5. ASSUME UNCHANGED <<immediates, tab, casts, noPort>> PROVE WorkerInv'
  BY <1>5 DEF noPort, WorkerInv
<1>6. CASE \E r \in Requests : LockAborted(r) \/ LockGranted(r) \/ LockReleased(r)
  BY <1>5, <1>6 DEF LockAborted, LockGranted, LockReleased
<1>7. CASE UNCHANGED workerVars
  BY <1>5, <1>7 DEF workerVars, noPort
<1> QED
  BY <1>1, <1>2, <1>3, <1>4, <1>6, <1>7 DEF WorkerNext

(* Two channels hear what both hear in one order, and no port that listens *)
(* keeps a message without a drain of it, running or to come.              *)
THEOREM MessagesAreKept == WorkerSpec => []MessagesInOrder
<1>1. WorkerInit => WorkerInv
  BY WorkerInitInv
<1>2. WorkerInv /\ [WorkerNext]_workerVars => WorkerInv'
  BY WorkerNextInv
<1>3. WorkerInv => SameOrderEverywhere
  <2>1. SUFFICES ASSUME WorkerInv, NEW s \in Tabs, NEW t \in Tabs,
                        NEW i \in DOMAIN tab[s].heard, NEW j \in DOMAIN tab[s].heard,
                        NEW k \in DOMAIN tab[t].heard, NEW l \in DOMAIN tab[t].heard,
                        tab[s].heard[i] = tab[t].heard[k], tab[s].heard[j] = tab[t].heard[l], i < j
                 PROVE  k < l
    BY DEF SameOrderEverywhere
  <2>2. PICK g, h : g = tab[s].heard /\ h = tab[t].heard
    OBVIOUS
  <2>3. g \in Seq(Nat) /\ h \in Seq(Nat) /\ Increasing(g) /\ Increasing(h)
    BY <2>1, <2>2 DEF WorkerInv, Tab
  <2>4. /\ k \in Nat /\ l \in Nat /\ g[i] \in Nat /\ g[j] \in Nat /\ h[k] = g[i] /\ h[l] = g[j]
        /\ k \in DOMAIN h /\ l \in DOMAIN h /\ i \in DOMAIN g /\ j \in DOMAIN g
    <3>1. /\ k \in DOMAIN h /\ l \in DOMAIN h /\ i \in DOMAIN g /\ j \in DOMAIN g
          /\ h[k] = g[i] /\ h[l] = g[j]
      BY <2>1, <2>2
    <3>2. DOMAIN g = 1 .. Len(g) /\ DOMAIN h = 1 .. Len(h)
      BY <2>3
    <3>3. k \in Nat /\ l \in Nat
      BY <3>1, <3>2
    <3>4. g[i] \in Nat /\ g[j] \in Nat
      BY <2>3, <3>1
    <3> QED
      BY <3>1, <3>3, <3>4
  <2>5. g[i] < g[j]
    BY <2>1, <2>3, <2>4 DEF Increasing
  <2>6. l < k => h[l] < h[k]
    BY <2>3, <2>4 DEF Increasing
  <2> QED
    BY <2>4, <2>5, <2>6
<1>4. WorkerInv => DrainOnItsWay
  <2>1. SUFFICES ASSUME WorkerInv, NEW e \in Ends, port[e].started, ~port[e].closed,
                        port[e].queue # <<>>, turn # e
                 PROVE  \E i \in DOMAIN immediates : immediates[i] = <<"drain", e>>
    BY DEF DrainOnItsWay
  <2>2. Drains(immediates, e)
    BY <2>1 DEF WorkerInv, Served
  <2>3. DOMAIN immediates = 1 .. Len(immediates)
    BY <2>1 DEF WorkerInv
  <2> QED
    BY <2>2, <2>3 DEF Drains
<1>5. WorkerInv => MessagesInOrder
  BY <1>3, <1>4 DEF MessagesInOrder
<1> QED
  BY <1>1, <1>2, <1>5, PTL DEF WorkerSpec
=============================================================================
