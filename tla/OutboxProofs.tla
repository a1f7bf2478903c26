---------------------------- MODULE OutboxProofs ----------------------------
(***************************************************************************)
(* The outbox is well typed; and while every pass of a worker is shorter   *)
(* than a lease, a lease excludes: a message is delivered by one worker at *)
(* a time, and the update of a delivery never overwrites a later outcome.  *)
(* A row that says delivered tells of a commit of its walker; and, where   *)
(* the waits of the two sides are in order, the walker commits once for a  *)
(* key while the receiver remembers it.                                    *)
(***************************************************************************)
EXTENDS Outbox, FiniteSetTheorems, TLAPS

-----------------------------------------------------------------------------
(* Type correctness                                                        *)

(* Ids are handed out in order, and an open row has attempts left.         *)
RowsOK ==
    \A k \in Keys :
        /\ row[k].id <= hist[k].made
        /\ row[k].status = "none" <=> row[k].id = 0
        /\ row[k].status \in Open => row[k].attempts < MaxAttempts

(* Whoever waits, waits for the spawn of a row.                            *)
CallsOK == \A c \in Calls : call[c].by # {} => call[c].id # 0

Typed == TypeOK /\ RowsOK /\ CallsOK

LEMMA ConstantTypes ==
    /\ Past \in Int /\ Past <= 0
    /\ NoRow \in Row /\ NoRow.status = "none" /\ NoRow.id = 0
    /\ Forgotten \in Seen
    /\ NoCall \in Call
    /\ MaxAttempts \in Nat /\ MaxAttempts > 0
    /\ 0 \in Tried
<1>1. (CHOOSE k \in Keys : TRUE) \in Keys
  BY ConstantsAssumption
<1> QED
  BY <1>1, ConstantsAssumption DEF Past, NoRow, Row, Forgotten, Seen, NoCall,
     Call, Tried, Open, Over, Underway, Answers

LEMMA BackoffType ==
    ASSUME NEW n \in Nat PROVE Backoff(n) \in Int /\ Backoff(n) >= 1
<1>1. CASE n \in 2 .. 16
  <2>1. Doubled[n] \in Nat /\ Doubled[n] >= 1
    BY <1>1 DEF Doubled
  <2> QED
    BY <1>1, <2>1, ConstantsAssumption DEF Backoff
<1> QED
  BY <1>1, ConstantsAssumption DEF Backoff

LEMMA InitType == Init => Typed
<1> SUFFICES ASSUME Init PROVE Typed
  OBVIOUS
<1>1. NoHist \in Hist /\ NoHist.made = 0
  BY ConstantsAssumption DEF NoHist, Hist
<1>2. row \in [Keys -> Row] /\ hist \in [Keys -> Hist]
  BY <1>1, ConstantTypes DEF Init
<1>3. RowsOK
  BY <1>1, ConstantTypes DEF Init, RowsOK, Open
<1>4. NoCall.by = {}
  BY DEF NoCall
<1> QED
  BY <1>2, <1>3, <1>4, ConstantTypes, ConstantsAssumption
     DEF Init, Typed, TypeOK, CallsOK

LEMMA AnsweredType ==
    ASSUME TypeOK, NEW c \in Calls, NEW answer \in Answers \cup {"none"}
    PROVE  Answered(c, answer) \in Call /\ Answered(c, answer).by = call[c].by
  BY ConstantTypes, ConstantsAssumption DEF TypeOK, Answered, Call, NoCall

LEMMA UpdatedType ==
    ASSUME TypeOK, RowsOK, NEW c \in Calls, NEW answer \in Answers \cup {"none"}
    PROVE  /\ Updated(c, answer) \in [Keys -> Row]
           /\ \A k \in Keys :
                LET r == Updated(c, answer)[k]
                IN  /\ r.id = row[k].id
                    /\ call[c].id # 0 => (r.status = "none" <=> r.id = 0)
                    /\ r.status \in Open => r.attempts < MaxAttempts
<1> DEFINE n == call[c].attempts + 1
           k == call[c].key
<1>1. n \in 1 .. MaxAttempts /\ k \in Keys
  BY ConstantTypes DEF TypeOK, Call, Tried
<1>2. Backoff(n) \in Int
  BY <1>1, BackoffType
<1>3. /\ Outcome(answer, n) \in {"delivered", "dead", "pending"}
      /\ Outcome(answer, n) = "pending" => n < MaxAttempts
  BY <1>1, ConstantTypes DEF Outcome
<1>4. CASE row[k].id # call[c].id
  BY <1>4 DEF Updated, TypeOK, RowsOK
<1>5. CASE row[k].id = call[c].id
  <2> DEFINE due == IF Outcome(answer, n) = "pending" THEN Backoff(n) ELSE Past
             r   == [row[k] EXCEPT !.status = Outcome(answer, n),
                                   !.attempts = n, !.due = due]
  <2>1. Updated(c, answer) = [row EXCEPT ![k] = r]
    BY <1>1, <1>5 DEF Updated, TypeOK
  <2>2. due \in Int
    BY <1>2, ConstantTypes
  <2>3. row[k] \in Row
    BY <1>1 DEF TypeOK
  <2>4. /\ r \in Row /\ r.id = row[k].id
        /\ r.status = Outcome(answer, n) /\ r.attempts = n
    <3>1. n \in 0 .. MaxAttempts
      BY <1>1, ConstantTypes
    <3> HIDE DEF due, n
    <3> QED
      BY <1>3, <2>2, <2>3, <3>1 DEF Row, Open, Over
  <2>5. r.status # "none" /\ (r.status \in Open => r.attempts < MaxAttempts)
    BY <1>3, <2>4 DEF Open
  <2> HIDE DEF r, n
  <2>6. \A j \in Keys : Updated(c, answer)[j] = IF j = k THEN r ELSE row[j]
    BY <1>1, <2>1 DEF TypeOK
  <2> QED
    BY <1>1, <1>5, <2>1, <2>4, <2>5, <2>6 DEF TypeOK, RowsOK
<1> QED
  BY <1>4, <1>5

LEMMA AbandonedType ==
    ASSUME TypeOK, NEW w \in Workers PROVE Abandoned(w) \in [Calls -> Call]
  BY ConstantTypes DEF Abandoned, TypeOK, Call

LEMMA EnqueueType ==
    ASSUME TypeOK, RowsOK, NEW k \in Keys, Enqueue(k) PROVE TypeOK' /\ RowsOK'
<1> DEFINE r == [NoRow EXCEPT !.id = hist[k].made + 1, !.status = "pending",
                              !.due = 0]
           h == [hist[k] EXCEPT !.made = hist[k].made + 1, !.claims = 0]
<1>1. hist[k] \in Hist /\ hist[k].made < MaxRows
  BY DEF Enqueue, TypeOK
<1> DEFINE n == hist[k].made + 1
<1>2. n \in 1 .. MaxRows /\ n \in 0 .. MaxRows
  BY <1>1, ConstantsAssumption DEF Hist
<1>3. /\ h \in Hist /\ h.made = n
      /\ r \in Row /\ r.id = n /\ r.status = "pending" /\ r.attempts = 0
  <2> HIDE DEF n
  <2>1. [hist[k] EXCEPT !.made = n, !.claims = 0] \in Hist
    BY <1>1, <1>2 DEF Hist
  <2>2. \A old \in Row, due \in Int :
            [old EXCEPT !.id = n, !.status = "pending", !.due = due] \in Row
    BY <1>2 DEF Row, Open, Over
  <2>3. [NoRow EXCEPT !.id = n, !.status = "pending", !.due = 0] \in Row
    <3>1. NoRow \in Row /\ 0 \in Int
      BY ConstantTypes
    <3> QED
      BY <2>2, <3>1, Zenon
  <2> QED
    BY <1>1, <2>1, <2>3 DEF n, NoRow, Hist
<1>4. row' = [row EXCEPT ![k] = r] /\ hist' = [hist EXCEPT ![k] = h]
  BY DEF Enqueue, TypeOK
<1> HIDE DEF r, h
<1>5. row' \in [Keys -> Row] /\ hist' \in [Keys -> Hist]
  BY <1>3, <1>4 DEF TypeOK
<1>6. RowsOK'
  BY <1>1, <1>2, <1>3, <1>4, ConstantTypes DEF TypeOK, RowsOK, Open, Hist
<1> QED
  BY <1>5, <1>6 DEF Enqueue, TypeOK, receiver, workers

LEMMA ListType ==
    ASSUME TypeOK, RowsOK, NEW w \in Workers, ListPending(w)
    PROVE  TypeOK' /\ RowsOK'
<1>1. \A k \in DueRows :
        [key |-> k, id |-> row[k].id, attempts |-> row[k].attempts] \in Item
  BY ConstantTypes, ConstantsAssumption
     DEF TypeOK, RowsOK, DueRows, Row, Item, Tried, RowIds, Open
<1> QED
  BY <1>1, ConstantTypes, ConstantsAssumption
     DEF ListPending, TypeOK, RowsOK, receiver

LEMMA ClaimType ==
    ASSUME TypeOK, RowsOK, NEW w \in Workers, NEW i \in batch[w],
           NEW c \in Calls, Claim(w, i, c)
    PROVE  TypeOK' /\ RowsOK'
<1>1. i \in Item /\ i.key \in Keys /\ i.id \in 0 .. MaxRows /\ i.attempts \in Tried
  BY DEF TypeOK, Item, RowIds
<1>2. LeaseUntil(w) \in Int
  BY ConstantsAssumption DEF LeaseUntil, TypeOK, Past
<1> DEFINE r == [row[i.key] EXCEPT !.status = "delivering", !.due = LeaseUntil(w)]
           d == [NoCall EXCEPT !.state = "sent", !.key = i.key, !.id = i.id,
                               !.attempts = i.attempts, !.by = {w}]
           h == [hist[i.key] EXCEPT !.claims = @ + 1]
<1>3. row[i.key] \in Row /\ row[i.key].status \in Open /\ hist[i.key] \in Hist
  BY <1>1 DEF Claim, Claimable, TypeOK
<1>4. /\ r \in Row /\ r.id = row[i.key].id /\ r.status = "delivering"
      /\ r.attempts = row[i.key].attempts
  BY <1>2, <1>3 DEF Row, Open, Over
<1>5. d \in Call
  BY <1>1, ConstantTypes, ConstantsAssumption DEF Call, NoCall, Underway
<1>6. h \in Hist /\ h.made = hist[i.key].made
  BY <1>3 DEF Hist
<1>7. /\ row' = [row EXCEPT ![i.key] = r] /\ hist' = [hist EXCEPT ![i.key] = h]
      /\ call' = [call EXCEPT ![c] = d]
  BY <1>1 DEF Claim, TypeOK
<1> HIDE DEF r, d, h
<1>8. /\ row' \in [Keys -> Row] /\ hist' \in [Keys -> Hist]
      /\ call' \in [Calls -> Call]
  BY <1>4, <1>5, <1>6, <1>7 DEF TypeOK
<1>9. RowsOK'
  BY <1>1, <1>3, <1>4, <1>6, <1>7 DEF TypeOK, RowsOK, Open
<1> QED
  BY <1>8, <1>9 DEF Claim, TypeOK

LEMMA SettleType ==
    ASSUME TypeOK, RowsOK, NEW w \in Workers, NEW c \in Calls,
           NEW answer \in Answers \cup {"none"}, Settle(w, c, answer),
           call[c].id # 0, call' \in [Calls -> Call], faults' \in 0 .. MaxFaults
    PROVE  TypeOK' /\ RowsOK'
<1>1. row' = Updated(c, answer) /\ hist' = hist
  BY DEF Settle
<1>2. row' \in [Keys -> Row]
  BY <1>1, UpdatedType
<1>3. RowsOK'
  BY <1>1, UpdatedType DEF RowsOK
<1> QED
  BY <1>2, <1>3 DEF Settle, TypeOK

LEMMA TakeAnswerType ==
    ASSUME Typed, NEW w \in Workers, NEW c \in Calls,
           TakeAnswer(w, c) \/ TimesOut(w, c) \/ LosesReply(w, c) \/ Unsent(w, c)
    PROVE  Typed'
<1>1. call[c].id # 0 /\ call[c].by # {}
  BY DEF TakeAnswer, TimesOut, LosesReply, Unsent, Settle, Waits, Typed, CallsOK
<1>2. call[c] \in Call /\ call[c].answer \in Answers \cup {"none"}
  BY DEF Typed, TypeOK, Call
<1>3. PICK answer \in Answers \cup {"none"} : Settle(w, c, answer)
  BY <1>2 DEF TakeAnswer, TimesOut, LosesReply, Unsent
<1>4. \/ call' = [call EXCEPT ![c] = NoCall]
      \/ call' = [call EXCEPT ![c] = [call[c] EXCEPT !.by = {}]]
  BY DEF TakeAnswer, TimesOut, LosesReply, Unsent, Typed, TypeOK
<1>5. [call[c] EXCEPT !.by = {}] \in Call
  BY <1>2 DEF Call
<1>6. call' \in [Calls -> Call] /\ CallsOK'
  BY <1>1, <1>2, <1>4, <1>5, ConstantTypes DEF Typed, TypeOK, CallsOK, NoCall, Call
<1>7. faults' \in 0 .. MaxFaults
  BY ConstantsAssumption
     DEF TakeAnswer, TimesOut, LosesReply, Unsent, Fault, Typed, TypeOK
<1> QED
  BY <1>1, <1>3, <1>6, <1>7, SettleType DEF Typed

LEMMA PassType ==
    ASSUME Typed, NEW w \in Workers,
           \/ ListPending(w) \/ EndPass(w) \/ Restarts(w)
           \/ \E i \in batch[w] : Skip(w, i) \/ \E c \in Calls : Claim(w, i, c)
    PROVE  Typed'
<1>1. CASE ListPending(w)
  BY <1>1, ListType DEF Typed, CallsOK, ListPending, receiver
<1>2. CASE EndPass(w)
  <2>1. row' \in [Keys -> Row] /\ RowsOK'
    BY <1>2, ConstantTypes, ConstantsAssumption
       DEF EndPass, Typed, TypeOK, RowsOK, Open, Hist
  <2> QED
    BY <1>2, <2>1, ConstantTypes DEF EndPass, Typed, TypeOK, CallsOK, receiver
<1>3. CASE Restarts(w)
  BY <1>3 DEF Restarts, Typed, TypeOK, RowsOK, CallsOK, receiver
<1>4. ASSUME NEW i \in batch[w], Skip(w, i) PROVE Typed'
  BY <1>4 DEF Skip, Typed, TypeOK, RowsOK, CallsOK, receiver
<1>5. ASSUME NEW i \in batch[w], NEW c \in Calls, Claim(w, i, c) PROVE Typed'
  <2>1. i \in Item
    BY <1>5 DEF Typed, TypeOK
  <2>2. [NoCall EXCEPT !.state = "sent", !.key = i.key, !.id = i.id,
                       !.attempts = i.attempts, !.by = {w}].id # 0
    BY <2>1 DEF Item, RowIds, NoCall
  <2>3. CallsOK'
    BY <1>5, <2>2 DEF Claim, Typed, TypeOK, CallsOK
  <2> QED
    BY <1>5, <2>3, ClaimType DEF Typed
<1> QED
  BY <1>1, <1>2, <1>3, <1>4, <1>5

LEMMA LeaveType ==
    ASSUME Typed, NEW w \in Workers, StoreFails(w) \/ Dies(w) PROVE Typed'
<1>1. call' = Abandoned(w)
  BY DEF StoreFails, Dies
<1>2. call' \in [Calls -> Call]
  BY <1>1, AbandonedType DEF Typed
<1>3. CallsOK'
  BY <1>1, ConstantTypes DEF Abandoned, Typed, TypeOK, CallsOK, NoCall, Call
<1>4. /\ pc' \in [Workers -> {"idle", "pass", "calling", "down"}]
      /\ began' \in [Workers -> Past .. 0]
      /\ batch' \in [Workers -> SUBSET Item]
      /\ faults' \in 0 .. MaxFaults
  BY ConstantTypes, ConstantsAssumption
     DEF StoreFails, Dies, Leave, Fault, Typed, TypeOK
<1> QED
  BY <1>2, <1>3, <1>4 DEF StoreFails, Dies, Typed, TypeOK, RowsOK

LEMMA PurgeType == ASSUME Typed, PurgeDead PROVE Typed'
<1>1. row' \in [Keys -> Row] /\ RowsOK'
  BY ConstantTypes, ConstantsAssumption
     DEF PurgeDead, Typed, TypeOK, RowsOK, Open, Hist
<1> QED
  BY <1>1 DEF PurgeDead, Typed, TypeOK, CallsOK, receiver, workers

LEMMA ReceiverType ==
    ASSUME Typed, NEW c \in Calls, ReceiverStep(c) PROVE Typed'
<1>1. call[c] \in Call /\ call[c].key \in Keys
  BY DEF Typed, TypeOK, Call
<1>2. Known(call[c].key) \in Answers \cup {"none"}
  BY <1>1 DEF Known, Typed, TypeOK, Seen
<1>3. ASSUME NEW d \in Call, call' = [call EXCEPT ![c] = d], d.by = call[c].by,
             d.by = {} \/ d.id = call[c].id
      PROVE  call' \in [Calls -> Call] /\ CallsOK'
  BY <1>3 DEF Typed, TypeOK, CallsOK
<1>4. \A answer \in Answers \cup {"none"} :
        /\ Answered(c, answer) \in Call
        /\ Answered(c, answer).by = call[c].by
        /\ call[c].by = {} \/ Answered(c, answer).id = call[c].id
  BY <1>1, AnsweredType DEF Typed, Answered, Call
<1>5. CASE Recall(c)
  <2>1. [call[c] EXCEPT !.state = "running"] \in Call
    BY <1>1 DEF Call, Underway
  <2>2. call' \in [Calls -> Call] /\ CallsOK'
    BY <1>1, <1>2, <1>3, <1>4, <1>5, <2>1 DEF Recall, Typed, TypeOK, Call
  <2> QED
    BY <1>5, <2>2 DEF Recall, Typed, TypeOK, RowsOK, workers
<1>6. CASE Refuse(c)
  <2>1. call' \in [Calls -> Call] /\ CallsOK'
    BY <1>1, <1>3, <1>4, <1>6 DEF Refuse, Answers
  <2> QED
    BY <1>6, <2>1 DEF Refuse, Typed, TypeOK, RowsOK, workers
<1>7. ASSUME NEW answer \in {"ok", "late"}, Run(c, answer) PROVE Typed'
  <2>1. [call[c] EXCEPT !.state = "saved", !.answer = answer] \in Call
    BY <1>1 DEF Call, Underway, Answers
  <2>2. call' \in [Calls -> Call] /\ CallsOK'
    BY <1>1, <1>3, <1>7, <2>1 DEF Run, Typed, TypeOK, Call
  <2>3. hist' \in [Keys -> Hist] /\ \A k \in Keys : hist'[k].made = hist[k].made
    BY <1>1, <1>7 DEF Run, Typed, TypeOK, Hist
  <2> QED
    BY <1>7, <2>2, <2>3 DEF Run, Typed, TypeOK, RowsOK, workers
<1>8. ASSUME NEW answer \in {"conflict", "error"}, RunFails(c, answer) PROVE Typed'
  <2>1. call' \in [Calls -> Call] /\ CallsOK'
    BY <1>1, <1>3, <1>4, <1>8 DEF RunFails, Answers
  <2> QED
    BY <1>8, <2>1 DEF RunFails, Typed, TypeOK, RowsOK, workers
<1>9. CASE Remember(c)
  <2>1. call[c].answer \in Answers \cup {"none"}
    BY <1>1 DEF Call
  <2>2. call' \in [Calls -> Call] /\ CallsOK'
    BY <1>1, <1>3, <1>4, <1>9, <2>1 DEF Remember
  <2>3. seen' \in [Keys -> Seen]
    BY <1>1, <1>9, <2>1 DEF Remember, Typed, TypeOK, Seen, Call
  <2> QED
    BY <1>9, <2>2, <2>3 DEF Remember, Typed, TypeOK, RowsOK, workers
<1> QED
  BY <1>5, <1>6, <1>7, <1>8, <1>9 DEF ReceiverStep

LEMMA ReceiverDiesType == ASSUME Typed, ReceiverDies PROVE Typed'
<1>1. \A c \in Calls : /\ Answered(c, "none") \in Call
                       /\ Answered(c, "none").by = call[c].by
                       /\ call[c].by = {} \/ Answered(c, "none").id = call[c].id
  BY AnsweredType DEF Typed, TypeOK, Answered, Call
<1>2. call' \in [Calls -> Call] /\ CallsOK'
  BY <1>1 DEF ReceiverDies, Typed, TypeOK, CallsOK
<1>3. ASSUME NEW k \in Keys
      PROVE  hist'[k] \in Hist /\ hist'[k].made = hist[k].made
  <2> DEFINE lost == {c \in Calls : call[c].state = "saved" /\ call[c].key = k}
  <2>1. Cardinality(lost) \in Nat
    BY FS_Subset, FS_CardinalityType, ConstantsAssumption
  <2>2. hist[k] \in Hist /\ hist'[k] = [hist[k] EXCEPT !.cut = @ + Cardinality(lost)]
    BY DEF ReceiverDies, Typed, TypeOK
  <2> HIDE DEF lost
  <2> QED
    BY <2>1, <2>2 DEF Hist
<1>4. hist' \in [Keys -> Hist]
  BY <1>3 DEF ReceiverDies
<1>5. RowsOK'
  BY <1>3 DEF ReceiverDies, Typed, TypeOK, RowsOK
<1>6. UNCHANGED <<row, seen, pc, began, batch>> /\ faults' \in 0 .. MaxFaults
  BY ConstantsAssumption DEF ReceiverDies, Fault, Typed, TypeOK, workers
<1> QED
  BY <1>2, <1>4, <1>5, <1>6 DEF Typed, TypeOK

LEMMA TickType == ASSUME Typed, Tick PROVE Typed'
<1>1. row' \in [Keys -> Row] /\ RowsOK'
  BY ConstantTypes DEF Tick, Typed, TypeOK, RowsOK, Row, Open
<1>2. began' \in [Workers -> Past .. 0]
  BY ConstantTypes DEF Tick, Typed, TypeOK
<1>3. call' \in [Calls -> Call] /\ CallsOK'
  BY ConstantsAssumption DEF Tick, Typed, TypeOK, CallsOK, Call
<1> QED
  BY <1>1, <1>2, <1>3 DEF Tick, Typed, TypeOK

LEMMA DayType ==
    ASSUME Typed, NEW k \in Keys, Age(k) \/ KeyExpires(k) \/ Enqueue(k)
    PROVE  Typed'
<1>1. CASE Age(k)
  <2>1. row' \in [Keys -> Row] /\ RowsOK'
    BY <1>1 DEF Age, Typed, TypeOK, RowsOK, Row, Open
  <2> QED
    BY <1>1, <2>1 DEF Age, Typed, TypeOK, CallsOK, receiver, workers
<1>2. CASE KeyExpires(k)
  <2> DEFINE h == [hist[k] EXCEPT !.runs = 0, !.cut = 0]
  <2>1. h \in Hist /\ h.made = hist[k].made
    BY DEF Typed, TypeOK, Hist
  <2>2. hist' = [hist EXCEPT ![k] = h]
    BY <1>2 DEF KeyExpires, Typed, TypeOK
  <2> HIDE DEF h
  <2>3. hist' \in [Keys -> Hist] /\ RowsOK'
    BY <1>2, <2>1, <2>2 DEF KeyExpires, Typed, TypeOK, RowsOK
  <2> QED
    BY <1>2, <2>3, ConstantTypes DEF KeyExpires, Typed, TypeOK, CallsOK, workers
<1>3. CASE Enqueue(k)
  BY <1>3, EnqueueType DEF Enqueue, Typed, CallsOK, receiver
<1> QED
  BY <1>1, <1>2, <1>3

LEMMA NextType == Typed /\ [Next]_vars => Typed'
<1> SUFFICES ASSUME Typed, [Next]_vars PROVE Typed'
  OBVIOUS
<1>1. CASE UNCHANGED vars
  BY <1>1 DEF vars, Typed, TypeOK, RowsOK, CallsOK
<1>2. ASSUME NEW w \in Workers, WorkerStep(w) PROVE Typed'
  BY <1>2, PassType, TakeAnswerType DEF WorkerStep
<1>3. CASE Failure
  BY <1>3, LeaveType, TakeAnswerType, ReceiverDiesType DEF Failure
<1> QED
  BY <1>1, <1>2, <1>3, DayType, ReceiverType, PurgeType, TickType DEF Next

(* The outbox is well typed: claims, updates, prunes and the receiver's    *)
(* memory keep their shape whatever dies in between, and by the count a    *)
(* row keeps it is never tried more than max_attempts times.               *)
THEOREM TypeCorrect == Spec => []TypeOK
<1>1. Typed => TypeOK
  BY DEF Typed
<1> QED
  BY <1>1, InitType, NextType, PTL DEF Spec

-----------------------------------------------------------------------------
(* What a lease excludes                                                   *)

(* Each spawn has one caller, and each caller one spawn.                   *)
Alone ==
    \A c \in Calls : \A w \in call[c].by :
        /\ pc[w] = "calling"
        /\ \A d \in Calls, v \in Workers :
                v \in call[d].by => (v = w <=> d = c)

(* Whoever waits holds the lease of the row, as it claimed it.             *)
Held(w, c) ==
    LET r == row[call[c].key]
    IN  /\ r.id = call[c].id
        /\ r.status = "delivering"
        /\ r.due = began[w] + Lease
        /\ r.attempts = call[c].attempts

Leased == \A c \in Calls : \A w \in call[c].by : Held(w, c)

(* A listed entry that may still be claimed is the row as it was listed.   *)
Fresh ==
    \A w \in Workers : \A i \in batch[w] :
        Claimable(w, i) => row[i.key].attempts = i.attempts

Listed ==
    \A w \in Workers :
        /\ ~InPass(w) => batch[w] = {}
        /\ \A i \in batch[w] : i.id <= hist[i.key].made

Exclusive == Alone /\ Leased /\ Fresh /\ Listed /\ OneDeliverer

LEMMA LeaseLasts ==
    ASSUME Typed, MaxLag < Lease, NEW v \in Workers, NEW w \in Workers
    PROVE  began[v] + Lease > 0 /\ began[w] <= 0 /\ LeaseUntil(v) = began[v] + Lease
  BY ConstantsAssumption DEF Typed, TypeOK, Past, LeaseUntil

(* The caller of a spawn that goes on waiting does so for the same spawn.  *)
SameCall(c) == /\ call'[c].by = call[c].by /\ call'[c].key = call[c].key
               /\ call'[c].id = call[c].id
               /\ call'[c].attempts = call[c].attempts

(* Steps that leave rows and workers alone.                                *)
LEMMA FrameExclusive ==
    ASSUME Typed, Exclusive, UNCHANGED <<row, pc, began, batch>>,
           \A c \in Calls : call'[c].by = {} \/ SameCall(c),
           \A k \in Keys : hist'[k].made = hist[k].made
    PROVE  Exclusive'
<1>1. Alone' /\ Leased' /\ OneDeliverer'
  BY DEF Typed, TypeOK, Exclusive, Alone, Leased, Held, OneDeliverer, SameCall
<1>2. Fresh' /\ Listed'
  BY DEF Typed, TypeOK, Item, Exclusive, Fresh, Claimable, Listed, InPass
<1> QED
  BY <1>1, <1>2 DEF Exclusive

LEMMA ReceiverExclusive ==
    ASSUME Typed, Exclusive,
           \/ \E c \in Calls : ReceiverStep(c)
           \/ ReceiverDies
           \/ \E k \in Keys : KeyExpires(k)
    PROVE  Exclusive'
<1>1. UNCHANGED <<row, pc, began, batch>>
  BY DEF ReceiverStep, Recall, Refuse, Run, RunFails, Remember, ReceiverDies,
         KeyExpires, workers
<1>2. \A k \in Keys : hist'[k].made = hist[k].made
  <2>1. ASSUME NEW c \in Calls, ReceiverStep(c)
        PROVE  \A k \in Keys : hist'[k].made = hist[k].made
    <3>1. ASSUME NEW answer, Run(c, answer)
          PROVE  \A k \in Keys : hist'[k].made = hist[k].made
      <4>1. /\ hist' = [hist EXCEPT ![call[c].key].runs = @ + 1,
                                    ![call[c].key].ran = TRUE]
            /\ call[c].key \in Keys
        BY <2>1, <3>1 DEF Run, Typed, TypeOK, Call
      <4> QED
        BY <4>1 DEF Typed, TypeOK, Hist
    <3>2. CASE UNCHANGED hist
      BY <3>2
    <3> QED
      BY <2>1, <3>1, <3>2 DEF ReceiverStep, Recall, Refuse, RunFails, Remember
  <2>2. CASE ReceiverDies
    BY <2>2 DEF ReceiverDies, Typed, TypeOK, Hist
  <2>3. ASSUME NEW k \in Keys, KeyExpires(k)
        PROVE  \A j \in Keys : hist'[j].made = hist[j].made
    BY <2>3 DEF KeyExpires, Typed, TypeOK, Hist
  <2> QED
    BY <2>1, <2>2, <2>3
<1>3. \A c \in Calls : \A answer : LET d == Answered(c, answer) IN
        \/ d.by = {}
        \/ /\ d.by = call[c].by /\ d.key = call[c].key
           /\ d.id = call[c].id /\ d.attempts = call[c].attempts
  BY DEF Answered, NoCall, Typed, TypeOK, Call
<1>4. \A c \in Calls : call'[c].by = {} \/ SameCall(c)
  <2>1. ASSUME NEW c \in Calls, ReceiverStep(c)
        PROVE  \A d \in Calls : call'[d].by = {} \/ SameCall(d)
    <3>1. \A d \in Calls : d # c => call'[d] = call[d]
      BY <2>1 DEF ReceiverStep, Recall, Refuse, Run, RunFails, Remember,
                  Typed, TypeOK
    <3>2. ASSUME NEW answer, call' = [call EXCEPT ![c] = Answered(c, answer)]
          PROVE  call'[c].by = {} \/ SameCall(c)
      BY <1>3, <3>2 DEF SameCall, Typed, TypeOK
    <3>3. CASE Recall(c)
      <4>1. CASE call' = [call EXCEPT ![c] = [call[c] EXCEPT !.state = "running"]]
        BY <4>1 DEF SameCall, Typed, TypeOK, Call
      <4>2. CASE Known(call[c].key) # "none"
        <5>1. call' = [call EXCEPT ![c] = Answered(c, Known(call[c].key))]
          BY <3>3, <4>2 DEF Recall
        <5> DEFINE answer == Known(call[c].key)
        <5> HIDE DEF answer
        <5>2. call' = [call EXCEPT ![c] = Answered(c, answer)]
          BY <5>1 DEF answer
        <5> QED
          BY <1>3, <5>2 DEF SameCall, Typed, TypeOK
      <4>3. CASE Known(call[c].key) = "none"
        <5>1. call' = [call EXCEPT ![c] = [call[c] EXCEPT !.state = "running"]]
          BY <3>3, <4>3 DEF Recall
        <5> QED
          BY <4>1, <5>1
      <4> QED
        BY <4>2, <4>3
    <3>4. ASSUME NEW answer, Run(c, answer) PROVE SameCall(c)
      <4>1. call' = [call EXCEPT ![c] = [call[c] EXCEPT !.state = "saved",
                                                        !.answer = answer]]
        BY <3>4 DEF Run
      <4> QED
        BY <4>1 DEF SameCall, Typed, TypeOK, Call
    <3>5. call'[c].by = {} \/ SameCall(c)
      BY <2>1, <3>2, <3>3, <3>4 DEF ReceiverStep, Refuse, RunFails, Remember
    <3> QED
      BY <3>1, <3>5 DEF SameCall
  <2>2. CASE ReceiverDies
    BY <1>3, <2>2 DEF ReceiverDies, SameCall
  <2>3. CASE UNCHANGED call
    BY <2>3 DEF SameCall
  <2> QED
    BY <2>1, <2>2, <2>3 DEF KeyExpires
<1> QED
  BY <1>1, <1>2, <1>4, FrameExclusive

LEMMA EnqueueExclusive ==
    ASSUME Typed, Exclusive, NEW k \in Keys, Enqueue(k) PROVE Exclusive'
<1>1. /\ row[k].status = "none" /\ hist[k] \in Hist
      /\ row'[k].id = hist[k].made + 1 /\ hist'[k].made = hist[k].made + 1
      /\ \A j \in Keys \ {k} : row'[j] = row[j] /\ hist'[j] = hist[j]
      /\ UNCHANGED <<call, pc, began, batch>>
  BY DEF Enqueue, Typed, TypeOK, Hist, NoRow, receiver, workers
<1>2. Alone' /\ OneDeliverer'
  BY <1>1 DEF Exclusive, Alone, OneDeliverer
<1>3. ASSUME NEW c \in Calls, NEW w \in call[c].by PROVE call[c].key # k
  BY <1>1 DEF Exclusive, Leased, Held
<1>4. Leased'
  BY <1>1, <1>3 DEF Exclusive, Leased, Held, Typed, TypeOK, Call
<1>5. \A w \in Workers : \A i \in batch[w] : i.key \in Keys /\ i.id \in Nat
  BY ConstantsAssumption DEF Typed, TypeOK, Item, RowIds
<1>6. Fresh' /\ Listed'
  BY <1>1, <1>5 DEF Exclusive, Fresh, Claimable, Listed, InPass, Hist
<1> QED
  BY <1>2, <1>4, <1>6 DEF Exclusive

LEMMA ListExclusive ==
    ASSUME Typed, Exclusive, NEW w \in Workers,
           \/ ListPending(w) \/ Restarts(w)
           \/ \E i \in batch[w] : Skip(w, i)
    PROVE  Exclusive'
<1>1. /\ UNCHANGED <<row, call, hist>>
      /\ pc[w] # "calling" /\ pc'[w] # "calling"
      /\ \A v \in Workers \ {w} : /\ pc'[v] = pc[v] /\ began'[v] = began[v]
                                 /\ batch'[v] = batch[v]
  BY DEF ListPending, Restarts, Skip, Typed, TypeOK, receiver
<1>2. \A c \in Calls : w \notin call[c].by
  BY <1>1 DEF Exclusive, Alone
<1>3. Alone' /\ Leased' /\ OneDeliverer'
  BY <1>1, <1>2
     DEF Exclusive, Alone, Leased, Held, OneDeliverer, Typed, TypeOK, Call
<1>4. \A i \in batch'[w] : /\ i.id <= hist[i.key].made
                           /\ Claimable(w, i)' => row[i.key].attempts = i.attempts
  BY <1>1 DEF ListPending, Restarts, Skip, Typed, TypeOK, RowsOK, Exclusive,
              Fresh, Listed, Claimable, DueRows
<1>5. ~InPass(w)' => batch'[w] = {}
  BY DEF ListPending, Restarts, Skip, Typed, TypeOK, Exclusive, Listed, InPass
<1> QED
  BY <1>1, <1>3, <1>4, <1>5 DEF Exclusive, Fresh, Listed, Claimable, InPass

(* The steps of one worker that touch its row or its spawn.                *)
LEMMA ClaimExclusive ==
    ASSUME Typed, Exclusive, MaxLag < Lease, NEW w \in Workers,
           NEW i \in batch[w], NEW e \in Calls, Claim(w, i, e)
    PROVE  Exclusive'
<1> DEFINE k == i.key
<1>1. /\ i \in Item /\ k \in Keys /\ i.id \in RowIds
      /\ row[k] \in Row
  BY DEF Typed, TypeOK, Item
<1>2. /\ row[k].id = i.id /\ row[k].due <= began[w]
      /\ row[k].attempts = i.attempts
  BY <1>1 DEF Claim, Claimable, Exclusive, Fresh
<1>3. /\ row'[k].id = row[k].id /\ row'[k].status = "delivering"
      /\ row'[k].due = LeaseUntil(w) /\ row'[k].attempts = row[k].attempts
      /\ \A j \in Keys \ {k} : row'[j] = row[j]
  BY <1>1 DEF Claim, Typed, TypeOK, Row
<1>4. /\ call'[e].by = {w} /\ call'[e].key = k /\ call'[e].id = i.id
      /\ call'[e].attempts = i.attempts
      /\ \A d \in Calls \ {e} : call'[d] = call[d]
  BY DEF Claim, Typed, TypeOK, NoCall
<1>5. /\ pc[w] = "pass" /\ pc'[w] = "calling" /\ UNCHANGED began
      /\ \A v \in Workers \ {w} : pc'[v] = pc[v] /\ batch'[v] = batch[v]
      /\ batch'[w] \subseteq batch[w]
  BY DEF Claim, Typed, TypeOK
<1>6. \A j \in Keys : hist'[j].made = hist[j].made
  BY <1>1 DEF Claim, Typed, TypeOK, Hist
<1> HIDE DEF k
<1>7. \A c \in Calls : w \notin call[c].by
  BY <1>5 DEF Exclusive, Alone
<1>8. \A c \in Calls : call[c].by # {} => call[c].key # k
  <2> SUFFICES ASSUME NEW c \in Calls, NEW v \in call[c].by, call[c].key = k
               PROVE  FALSE
    OBVIOUS
  <2>1. v \in Workers /\ row[k].due = began[v] + Lease
    BY DEF Exclusive, Leased, Held, Typed, TypeOK, Call
  <2> QED
    BY <1>1, <1>2, <2>1, LeaseLasts DEF Typed, TypeOK, Row
<1>9. Alone'
  <2>1. \A c \in Calls : \A v \in call'[c].by :
            IF c = e THEN v = w ELSE v # w /\ v \in call[c].by
    BY <1>4, <1>7
  <2>2. \A c \in Calls : call[c].by \subseteq Workers
    BY DEF Typed, TypeOK, Call
  <2> QED
    BY <1>4, <1>5, <2>1, <2>2 DEF Exclusive, Alone
<1>10. Leased'
  <2> SUFFICES ASSUME NEW c \in Calls, NEW v \in call'[c].by PROVE Held(v, c)'
    BY DEF Leased
  <2>1. CASE c = e
    BY <1>2, <1>3, <1>4, <1>5, <2>1 DEF Held, LeaseUntil
  <2>2. CASE c # e
    <3>1. Held(v, c) /\ call'[c] = call[c] /\ call[c].key \in Keys \ {k}
      BY <1>4, <1>8, <2>2 DEF Exclusive, Leased, Typed, TypeOK, Call
    <3> QED
      BY <1>3, <1>5, <3>1 DEF Held
  <2> QED
    BY <2>1, <2>2
<1>11. OneDeliverer'
  BY <1>4, <1>8 DEF Exclusive, OneDeliverer
<1>12. Fresh'
  <2> SUFFICES ASSUME NEW v \in Workers, NEW j \in batch'[v], Claimable(v, j)'
               PROVE  row'[j.key].attempts = j.attempts
    BY DEF Fresh
  <2>1. j \in batch[v] /\ j.key \in Keys
    BY <1>5 DEF Typed, TypeOK, Item
  <2>2. j.key # k
    <3>1. row'[k].due > 0
      BY <1>3, LeaseLasts
    <3>2. began'[v] \in Int /\ began'[v] <= 0
      BY <1>5, LeaseLasts, ConstantTypes DEF Typed, TypeOK
    <3>3. row'[j.key].due <= began'[v]
      BY DEF Claimable
    <3>4. row'[k].due \in Int
      BY <1>3, ConstantTypes, ConstantsAssumption DEF LeaseUntil, Typed, TypeOK
    <3> QED
      BY <3>1, <3>2, <3>3, <3>4
  <2> QED
    BY <1>3, <1>5, <2>1, <2>2 DEF Exclusive, Fresh, Claimable
<1>13. Listed'
  BY <1>5, <1>6 DEF Exclusive, Listed, InPass, Typed, TypeOK, Item
<1> QED
  BY <1>9, <1>10, <1>11, <1>12, <1>13 DEF Exclusive

(* What an answer, or giving up on one, does to the row it is about.       *)
SettlesRow(w, c) ==
    LET k == call[c].key
    IN  /\ k \in Keys /\ row[k].id = call[c].id
        /\ row[k].status = "delivering"
        /\ row'[k].id = row[k].id
        /\ row'[k].attempts = row[k].attempts + 1
        /\ row'[k].status \in Open => row'[k].due >= 1
        /\ \A j \in Keys \ {k} : row'[j] = row[j]

LEMMA SettlesItsRow ==
    ASSUME Typed, Exclusive, NEW w \in Workers, NEW c \in Calls,
           NEW answer \in Answers \cup {"none"}, Settle(w, c, answer)
    PROVE  SettlesRow(w, c)
<1> DEFINE n == call[c].attempts + 1
           k == call[c].key
<1>1. n \in 1 .. MaxAttempts /\ k \in Keys
  BY ConstantTypes DEF Typed, TypeOK, Call, Tried
<1>2. Backoff(n) \in Int /\ Backoff(n) >= 1
  BY <1>1, BackoffType
<1>3. /\ row[k].id = call[c].id /\ row[k].status = "delivering"
      /\ row[k].attempts = call[c].attempts
  BY DEF Settle, Waits, Exclusive, Leased, Held
<1> DEFINE status == Outcome(answer, n)
           due    == IF status = "pending" THEN Backoff(n) ELSE Past
           r      == [row[k] EXCEPT !.status = status, !.attempts = n, !.due = due]
<1>4. row' = [row EXCEPT ![k] = r]
  BY <1>1, <1>3 DEF Settle, Updated, Typed, TypeOK
<1>5. status \in {"delivered", "dead", "pending"}
  BY DEF Outcome
<1>6. status \in Open => due >= 1
  BY <1>2, <1>5 DEF Open
<1>7. r.id = row[k].id /\ r.attempts = n /\ r.status = status /\ r.due = due
  <2>1. row[k] \in Row
    BY <1>1 DEF Typed, TypeOK
  <2> HIDE DEF status, due, n
  <2> QED
    BY <2>1 DEF Row
<1> HIDE DEF r
<1>8. row'[k] = r /\ \A j \in Keys \ {k} : row'[j] = row[j]
  BY <1>1, <1>4 DEF Typed, TypeOK
<1> QED
  BY <1>1, <1>3, <1>6, <1>7, <1>8 DEF SettlesRow

LEMMA SettleExclusive ==
    ASSUME Typed, Exclusive, NEW w \in Workers, NEW c \in Calls,
           TakeAnswer(w, c) \/ TimesOut(w, c) \/ LosesReply(w, c) \/ Unsent(w, c)
    PROVE  Exclusive' /\ SettlesRow(w, c)
<1>1. PICK answer \in Answers \cup {"none"} : Settle(w, c, answer)
  BY DEF TakeAnswer, TimesOut, LosesReply, Unsent, Typed, TypeOK, Call
<1>2. SettlesRow(w, c)
  BY <1>1, SettlesItsRow
<1>3. /\ call'[c].by = {}
      /\ \A d \in Calls \ {c} : call'[d] = call[d]
  BY DEF TakeAnswer, TimesOut, LosesReply, Unsent, Typed, TypeOK, Call, NoCall
<1>4. /\ pc[w] = "calling" /\ w \in call[c].by
      /\ \A v \in Workers \ {w} : pc'[v] = pc[v]
      /\ pc'[w] = "pass"
      /\ UNCHANGED <<began, batch, hist>>
  BY <1>1 DEF Settle, Waits, Typed, TypeOK
<1>5. Alone' /\ OneDeliverer'
  BY <1>3, <1>4 DEF Exclusive, Alone, OneDeliverer, Typed, TypeOK, Call
<1>6. Leased'
  <2> SUFFICES ASSUME NEW d \in Calls, NEW v \in call'[d].by PROVE Held(v, d)'
    BY DEF Leased
  <2>1. d # c /\ call'[d] = call[d] /\ v \in call[d].by /\ Held(v, d)
    BY <1>3 DEF Exclusive, Leased
  <2>2. call[d].key \in Keys /\ call[d].key # call[c].key
    BY <1>2, <1>4, <2>1
       DEF SettlesRow, Exclusive, OneDeliverer, Held, Typed, TypeOK, Call
  <2> QED
    BY <1>2, <1>4, <2>1, <2>2 DEF SettlesRow, Held
<1>7. Fresh'
  <2> SUFFICES ASSUME NEW v \in Workers, NEW j \in batch[v], Claimable(v, j)'
               PROVE  row'[j.key].attempts = j.attempts
    BY <1>4 DEF Fresh
  <2>1. j.key \in Keys /\ began[v] \in Int /\ began[v] <= 0
    BY DEF Typed, TypeOK, Item, Past
  <2>2. j.key # call[c].key
    BY <1>2, <1>4, <2>1, TakeAnswerType DEF SettlesRow, Claimable, Typed, TypeOK, Row
  <2> QED
    BY <1>2, <1>4, <2>1, <2>2 DEF SettlesRow, Exclusive, Fresh, Claimable
<1>8. Listed'
  BY <1>4 DEF Exclusive, Listed, InPass, Typed, TypeOK
<1> QED
  BY <1>2, <1>5, <1>6, <1>7, <1>8 DEF Exclusive

(* Rows are deleted: when they are delivered and old, or dead.             *)
LEMMA DeleteExclusive ==
    ASSUME Typed, Exclusive,
           NEW dropped \in SUBSET {k \in Keys : row[k].status \in Over},
           row' = [k \in Keys |-> IF k \in dropped THEN NoRow ELSE row[k]],
           UNCHANGED <<call, batch, hist>>,
           \A w \in Workers :
              /\ pc[w] = "calling" => pc'[w] = "calling"
              /\ InPass(w)' => InPass(w)
              /\ pc'[w] \in {"pass", "calling"} => began'[w] = began[w]
              /\ ~InPass(w)' => batch[w] = {}
    PROVE  Exclusive'
<1>1. Alone' /\ OneDeliverer'
  BY DEF Exclusive, Alone, OneDeliverer, Typed, TypeOK, Call
<1>2. \A k \in Keys : row'[k].id # row[k].id => row'[k].id = 0
  BY ConstantTypes
<1>3. Leased'
  <2> SUFFICES ASSUME NEW c \in Calls, NEW w \in call[c].by PROVE Held(w, c)'
    BY DEF Leased
  <2>1. w \in Workers /\ call[c].key \in Keys /\ Held(w, c) /\ pc[w] = "calling"
    BY DEF Exclusive, Leased, Alone, Typed, TypeOK, Call
  <2>2. call[c].key \notin dropped /\ began'[w] = began[w]
    BY <2>1 DEF Held, Over
  <2> QED
    BY <2>1, <2>2 DEF Held
<1>4. Fresh'
  <2> SUFFICES ASSUME NEW w \in Workers, NEW i \in batch[w], Claimable(w, i)'
               PROVE  row'[i.key].attempts = i.attempts
    BY DEF Fresh
  <2>1. i.key \in Keys /\ i.id # 0
    BY DEF Typed, TypeOK, Item, RowIds
  <2>2. i.key \notin dropped
    BY <2>1, ConstantTypes DEF Claimable
  <2>3. began'[w] = began[w]
    BY DEF InPass
  <2> QED
    BY <2>1, <2>2, <2>3 DEF Exclusive, Fresh, Claimable
<1>5. Listed'
  BY DEF Exclusive, Listed
<1> QED
  BY <1>1, <1>3, <1>4, <1>5 DEF Exclusive

LEMMA EndPassExclusive ==
    ASSUME Typed, Exclusive, NEW w \in Workers, EndPass(w) PROVE Exclusive'
<1>1. Prunable \in SUBSET {k \in Keys : row[k].status \in Over}
  BY DEF Prunable, Over
<1>2. \A v \in Workers :
        /\ pc[v] = "calling" => pc'[v] = "calling"
        /\ InPass(v)' => InPass(v)
        /\ pc'[v] \in {"pass", "calling"} => began'[v] = began[v]
        /\ ~InPass(v)' => batch[v] = {}
  BY DEF EndPass, Typed, TypeOK, InPass, Exclusive, Listed
<1>3. row' = [k \in Keys |-> IF k \in Prunable THEN NoRow ELSE row[k]]
  BY DEF EndPass
<1> HIDE DEF Prunable
<1> QED
  BY <1>1, <1>2, <1>3, DeleteExclusive DEF EndPass, receiver

LEMMA PurgeExclusive ==
    ASSUME Typed, Exclusive, PurgeDead PROVE Exclusive'
<1> DEFINE dropped == {k \in Keys : row[k].status = "dead"}
<1>1. dropped \in SUBSET {k \in Keys : row[k].status \in Over}
  BY DEF Over
<1>2. row' = [k \in Keys |-> IF k \in dropped THEN NoRow ELSE row[k]]
  BY DEF PurgeDead
<1>3. UNCHANGED <<call, batch, hist, pc, began>>
  BY DEF PurgeDead, receiver, workers
<1>4. \A v \in Workers : /\ InPass(v)' => InPass(v)
                         /\ ~InPass(v)' => batch[v] = {}
  BY <1>3 DEF Exclusive, Listed, InPass
<1> HIDE DEF dropped
<1> QED
  BY <1>1, <1>2, <1>3, <1>4, DeleteExclusive

(* A worker leaves its pass, and whatever it waits for.                    *)
LEMMA LeaveExclusive ==
    ASSUME Typed, Exclusive, NEW w \in Workers, StoreFails(w) \/ Dies(w)
    PROVE  Exclusive'
<1>1. /\ UNCHANGED <<row, hist>> /\ call' = Abandoned(w)
      /\ pc'[w] \in {"idle", "down"} /\ batch'[w] = {}
      /\ \A v \in Workers \ {w} : /\ pc'[v] = pc[v] /\ began'[v] = began[v]
                                 /\ batch'[v] = batch[v]
  BY DEF StoreFails, Dies, Leave, Typed, TypeOK
<1>2. \A c \in Calls : w \in call[c].by => call'[c].by = {}
  BY <1>1 DEF Abandoned, NoCall, Typed, TypeOK, Call
<1>3. \A c \in Calls : w \notin call[c].by => call'[c] = call[c]
  BY <1>1 DEF Abandoned
<1>4. Alone' /\ OneDeliverer'
  BY <1>1, <1>2, <1>3 DEF Exclusive, Alone, OneDeliverer, Typed, TypeOK, Call
<1>5. Leased'
  BY <1>1, <1>2, <1>3 DEF Exclusive, Leased, Held, Typed, TypeOK, Call
<1>6. Fresh' /\ Listed'
  BY <1>1 DEF Exclusive, Fresh, Listed, Claimable, InPass
<1> QED
  BY <1>4, <1>5, <1>6 DEF Exclusive

LEMMA TickExclusive ==
    ASSUME Typed, Exclusive, MaxLag < Lease, Tick PROVE Exclusive'
<1>1. \A k \in Keys :
        /\ row'[k].id = row[k].id /\ row'[k].status = row[k].status
        /\ row'[k].attempts = row[k].attempts
        /\ row[k].due \in Int
        /\ row'[k].due = IF row[k].due > Past THEN row[k].due - 1 ELSE row[k].due
  BY DEF Tick, Typed, TypeOK, Row
<1>2. \A c \in Calls : SameCall(c)
  BY DEF Tick, SameCall, Typed, TypeOK, Call
<1>3. \A w \in Workers :
        /\ began[w] \in Int /\ Past <= began[w]
        /\ InPass(w) => began[w] > Past /\ began'[w] = began[w] - 1
  BY ConstantTypes DEF Tick, Typed, TypeOK
<1>4. UNCHANGED <<pc, batch, hist>>
  BY DEF Tick
<1>5. Alone' /\ OneDeliverer'
  BY <1>2, <1>4 DEF SameCall, Exclusive, Alone, OneDeliverer
<1>6. Leased'
  <2> SUFFICES ASSUME NEW c \in Calls, NEW w \in call'[c].by PROVE Held(w, c)'
    BY DEF Leased
  <2>1. w \in call[c].by /\ w \in Workers /\ call[c].key \in Keys
    BY <1>2 DEF SameCall, Typed, TypeOK, Call
  <2>2. Held(w, c) /\ InPass(w)
    BY <2>1 DEF Exclusive, Leased, Alone, InPass
  <2>3. began[w] + Lease > 0 /\ began[w] + Lease > Past
    BY <2>1, LeaseLasts, <1>3, ConstantTypes, ConstantsAssumption
  <2> DEFINE k == call[c].key
  <2>4. row[k].due = began[w] + Lease /\ k \in Keys
    BY <2>1, <2>2 DEF Held
  <2>5. call'[c].key = k /\ call'[c].id = call[c].id
        /\ call'[c].attempts = call[c].attempts
    BY <1>2 DEF SameCall
  <2> HIDE DEF k
  <2>6. row'[k].due = began[w] + Lease - 1
    BY <1>1, <1>3, <2>1, <2>3, <2>4, ConstantTypes, ConstantsAssumption
  <2>7. row'[k].due = began'[w] + Lease
    BY <1>3, <2>1, <2>2, <2>6, ConstantsAssumption
  <2> QED
    BY <1>1, <2>2, <2>4, <2>5, <2>7 DEF Held, k
<1>7. Fresh'
  <2> SUFFICES ASSUME NEW w \in Workers, NEW i \in batch[w], Claimable(w, i)'
               PROVE  row[i.key].attempts = i.attempts
    BY <1>1, <1>4 DEF Fresh, Typed, TypeOK, Item
  <2>1. i.key \in Keys /\ InPass(w)
    BY DEF Typed, TypeOK, Item, Exclusive, Listed
  <2>2. row[i.key].due <= began[w]
    BY <1>1, <1>3, <2>1, ConstantTypes DEF Claimable
  <2> QED
    BY <1>1, <2>1, <2>2 DEF Exclusive, Fresh, Claimable
<1>8. Listed'
  BY <1>4 DEF Exclusive, Listed, InPass
<1> QED
  BY <1>5, <1>6, <1>7, <1>8 DEF Exclusive

LEMMA AgeExclusive ==
    ASSUME Typed, Exclusive, NEW k \in Keys, Age(k) PROVE Exclusive'
<1>1. \A j \in Keys :
        /\ row'[j].id = row[j].id /\ row'[j].status = row[j].status
        /\ row'[j].attempts = row[j].attempts /\ row'[j].due = row[j].due
  BY DEF Age, Typed, TypeOK, Row
<1>2. UNCHANGED <<call, hist, pc, began, batch>>
  BY DEF Age, receiver, workers
<1>3. Alone' /\ OneDeliverer'
  BY <1>2 DEF Exclusive, Alone, OneDeliverer
<1>4. Leased'
  BY <1>1, <1>2 DEF Exclusive, Leased, Held, Typed, TypeOK, Call
<1>5. Fresh' /\ Listed'
  BY <1>1, <1>2 DEF Exclusive, Fresh, Listed, Claimable, InPass, Typed, TypeOK,
                    Item
<1> QED
  BY <1>3, <1>4, <1>5 DEF Exclusive

LEMMA InitExclusive == Init => Exclusive
  BY DEF Init, Exclusive, Alone, Leased, Fresh, Listed, OneDeliverer, NoCall

LEMMA NextExclusive ==
    ASSUME MaxLag < Lease, Typed, Exclusive, [Next]_vars PROVE Exclusive'
<1>1. CASE UNCHANGED vars
  BY <1>1, FrameExclusive DEF vars, SameCall
<1>2. ASSUME NEW k \in Keys, Enqueue(k) \/ Age(k) \/ KeyExpires(k)
      PROVE  Exclusive'
  BY <1>2, EnqueueExclusive, AgeExclusive, ReceiverExclusive
<1>3. ASSUME NEW w \in Workers, WorkerStep(w) PROVE Exclusive'
  BY <1>3, ListExclusive, ClaimExclusive, SettleExclusive, EndPassExclusive
     DEF WorkerStep
<1>4. CASE Failure
  BY <1>4, LeaveExclusive, SettleExclusive, ReceiverExclusive DEF Failure
<1> QED
  BY <1>1, <1>2, <1>3, <1>4, ReceiverExclusive, PurgeExclusive, TickExclusive
     DEF Next

(* While a pass of a worker is shorter than a lease, no message is being   *)
(* delivered by two workers (claim, deliver_pending): whoever waits for a  *)
(* spawn still holds the lease of its row.                                 *)
THEOREM LeaseExcludes == ASSUME MaxLag < Lease PROVE Spec => []OneDeliverer
<1>1. Init => Typed /\ Exclusive
  BY InitType, InitExclusive
<1>2. Typed /\ Exclusive /\ [Next]_vars => (Typed /\ Exclusive)'
  BY NextType, NextExclusive
<1>3. Exclusive => OneDeliverer
  BY DEF Exclusive
<1> QED
  BY <1>1, <1>2, <1>3, PTL DEF Spec

-----------------------------------------------------------------------------
(* What an update may do to a row                                          *)

Stands(k) ==
    row'[k].id = row[k].id =>
        /\ row'[k].attempts >= row[k].attempts
        /\ row[k].status \in Over => row'[k].status = row[k].status

LEMMA StepStands ==
    ASSUME Typed, Exclusive, [Next]_vars, NEW k \in Keys PROVE Stands(k)
<1>1. row[k] \in Row /\ row[k].attempts \in Int
  BY ConstantTypes DEF Typed, TypeOK, Row
<1>2. CASE row' = row
  BY <1>1, <1>2 DEF Stands
<1>3. ASSUME NEW j \in Keys, Enqueue(j) PROVE Stands(k)
  <2>1. row[j].status = "none" /\ row[j].id = 0
    BY <1>3 DEF Enqueue, Typed, RowsOK
  <2>2. row'[j].id = hist[j].made + 1 /\ hist[j].made \in Nat
    BY <1>3, ConstantsAssumption DEF Enqueue, Typed, TypeOK, Hist, NoRow
  <2>3. \A i \in Keys \ {j} : row'[i] = row[i]
    BY <1>3 DEF Enqueue, Typed, TypeOK
  <2> QED
    BY <1>1, <2>1, <2>2, <2>3 DEF Stands
<1>4. ASSUME NEW w \in Workers, NEW i \in batch[w], NEW c \in Calls,
             Claim(w, i, c)
      PROVE  Stands(k)
  <2>1. i.key \in Keys /\ row[i.key].status \in Open
    BY <1>4 DEF Claim, Claimable, Typed, TypeOK, Item
  <2>2. row'[k].attempts = row[k].attempts
    BY <1>1, <1>4, <2>1 DEF Claim, Typed, TypeOK, Row
  <2>3. row[k].status \in Over => row'[k] = row[k]
    BY <1>4, <2>1 DEF Claim, Typed, TypeOK, Open, Over
  <2> QED
    BY <1>1, <2>2, <2>3 DEF Stands
<1>5. ASSUME NEW w \in Workers, NEW c \in Calls,
             TakeAnswer(w, c) \/ TimesOut(w, c) \/ LosesReply(w, c)
                \/ Unsent(w, c)
      PROVE  Stands(k)
  <2>1. SettlesRow(w, c)
    BY <1>5, SettleExclusive
  <2> QED
    BY <1>1, <2>1 DEF SettlesRow, Stands, Over
<1>6. ASSUME NEW dropped \in SUBSET {j \in Keys : row[j].status \in Over},
             row' = [j \in Keys |-> IF j \in dropped THEN NoRow ELSE row[j]]
      PROVE  Stands(k)
  <2>1. row[k].status \in Over => row[k].id # 0
    BY DEF Typed, RowsOK, Over
  <2> QED
    BY <1>1, <1>6, <2>1, ConstantTypes DEF Stands
<1>7. ASSUME NEW w \in Workers, EndPass(w) PROVE Stands(k)
  <2>1. Prunable \in SUBSET {j \in Keys : row[j].status \in Over}
    BY DEF Prunable, Over
  <2>2. row' = [j \in Keys |-> IF j \in Prunable THEN NoRow ELSE row[j]]
    BY <1>7 DEF EndPass
  <2> HIDE DEF Prunable
  <2> QED
    BY <1>6, <2>1, <2>2
<1>8. CASE PurgeDead
  <2> DEFINE dropped == {j \in Keys : row[j].status = "dead"}
  <2>1. dropped \in SUBSET {j \in Keys : row[j].status \in Over}
    BY DEF Over
  <2>2. row' = [j \in Keys |-> IF j \in dropped THEN NoRow ELSE row[j]]
    BY <1>8 DEF PurgeDead
  <2> HIDE DEF dropped
  <2> QED
    BY <1>6, <2>1, <2>2
<1>9. ASSUME NEW j \in Keys, Age(j) PROVE Stands(k)
  BY <1>1, <1>9 DEF Age, Stands, Typed, TypeOK, Row
<1>10. CASE Tick
  BY <1>1, <1>10 DEF Tick, Stands, Typed, TypeOK, Row
<1>11. ASSUME NEW w \in Workers, WorkerStep(w) PROVE Stands(k)
  BY <1>2, <1>4, <1>5, <1>7, <1>11 DEF WorkerStep, ListPending, Skip, Restarts
<1>12. ASSUME NEW c \in Calls, ReceiverStep(c) PROVE Stands(k)
  BY <1>2, <1>12
     DEF ReceiverStep, Recall, Refuse, Run, RunFails, Remember
<1>13. CASE Failure
  BY <1>2, <1>5, <1>13 DEF Failure, StoreFails, Dies, ReceiverDies
<1>14. ASSUME NEW j \in Keys, KeyExpires(j) PROVE Stands(k)
  BY <1>2, <1>14 DEF KeyExpires
<1> QED
  BY <1>2, <1>3, <1>8, <1>9, <1>10, <1>11, <1>12, <1>13, <1>14
     DEF Next, vars

(* While a pass is shorter than a lease, store.update, which asks for      *)
(* nothing but the id, never overwrites the outcome of a later attempt.    *)
THEOREM OutcomesStand == ASSUME MaxLag < Lease PROVE Spec => OutcomeStands
<1>1. Init => Typed /\ Exclusive
  BY InitType, InitExclusive
<1>2. Typed /\ Exclusive /\ [Next]_vars => (Typed /\ Exclusive)'
  BY NextType, NextExclusive
<1>3. Typed /\ Exclusive /\ [Next]_vars =>
        [\A k \in Keys : row'[k].id = row[k].id =>
            /\ row'[k].attempts >= row[k].attempts
            /\ row[k].status \in Over => row'[k].status = row[k].status]_vars
  BY StepStands DEF Stands
<1> QED
  BY <1>1, <1>2, <1>3, PTL DEF Spec, OutcomeStands

-----------------------------------------------------------------------------
(* Delivered means ran                                                     *)

Committed == {"ok", "late"}

(* An answer that tells of a commit, told or remembered, has one behind it.*)
CallBacked(c) ==
    /\ call[c].state = "saved" => call[c].answer \in Committed
    /\ call[c].answer \in Committed => hist[call[c].key].ran

SeenBacked(k) ==
    seen[k].answer # "none" => seen[k].answer \in Committed /\ hist[k].ran

Backed == /\ \A c \in Calls : CallBacked(c)
          /\ \A k \in Keys : SeenBacked(k)
          /\ DeliveredRan

LEMMA InitBacked == Init => Backed
  BY ConstantTypes DEF Init, Backed, CallBacked, SeenBacked, DeliveredRan, NoCall,
     NoRow, Forgotten, Committed

(* The commits of the past stay.                                           *)
RanStays == \A k \in Keys : hist[k].ran => hist'[k].ran

LEMMA NextRanStays == ASSUME Typed, [Next]_vars PROVE RanStays
<1> USE DEF RanStays, Typed, TypeOK, Hist
<1>1. CASE UNCHANGED hist
  BY <1>1
<1>2. ASSUME NEW k \in Keys, Enqueue(k) \/ KeyExpires(k) PROVE RanStays
  <2>1. PICK h : hist' = [hist EXCEPT ![k] = h] /\ h.ran = hist[k].ran
    <3>1. CASE Enqueue(k)
      <4> DEFINE h == [hist[k] EXCEPT !.made = hist[k].made + 1, !.claims = 0]
      <4>1. hist' = [hist EXCEPT ![k] = h] /\ h.ran = hist[k].ran
        BY <3>1 DEF Enqueue
      <4> QED
        BY <4>1
    <3>2. CASE KeyExpires(k)
      <4> DEFINE h == [hist[k] EXCEPT !.runs = 0, !.cut = 0]
      <4>1. hist' = [hist EXCEPT ![k] = h] /\ h.ran = hist[k].ran
        BY <3>2 DEF KeyExpires
      <4> QED
        BY <4>1
    <3> QED
      BY <1>2, <3>1, <3>2
  <2> QED
    BY <2>1
<1>3. ASSUME NEW w \in Workers, WorkerStep(w) PROVE RanStays
  <2>1. ASSUME NEW i \in batch[w], NEW c \in Calls, Claim(w, i, c) PROVE RanStays
    BY <2>1 DEF Claim, Item
  <2> QED
    BY <1>1, <1>3, <2>1 DEF WorkerStep, ListPending, Skip, TakeAnswer, TimesOut, Settle,
       EndPass, Restarts, receiver
<1>4. ASSUME NEW c \in Calls, ReceiverStep(c) PROVE RanStays
  <2>1. ASSUME NEW answer, Run(c, answer) PROVE RanStays
    BY <2>1 DEF Run
  <2> QED
    BY <1>1, <1>4, <2>1 DEF ReceiverStep, Recall, Refuse, RunFails, Remember
<1>5. CASE Failure
  BY <1>1, <1>5 DEF Failure, Dies, StoreFails, LosesReply, Unsent, Settle, ReceiverDies
<1>6. ASSUME NEW k \in Keys, Age(k) PROVE RanStays
  BY <1>1, <1>6 DEF Age
<1> QED
  BY <1>1, <1>2, <1>3, <1>4, <1>5, <1>6 DEF Next, PurgeDead, Tick, vars

(* A call that is what it was, but for who waits and since when, or is     *)
(* over, or was told nothing, tells of no commit that was not.             *)
TellsNoMore(c) ==
    \/ call'[c].answer \notin Committed /\ call'[c].state # "saved"
    \/ /\ call'[c].key = call[c].key /\ call'[c].answer = call[c].answer
       /\ call'[c].state = "saved" => call[c].state = "saved"

LEMMA CallStaysBacked ==
    ASSUME Typed, Backed, RanStays, NEW c \in Calls, TellsNoMore(c)
    PROVE  CallBacked(c)'
  BY DEF Typed, TypeOK, Call, Backed, CallBacked, RanStays, TellsNoMore

LEMMA SameTellsNoMore ==
    ASSUME Typed, NEW c \in Calls,
           \/ call'[c] = call[c] \/ call'[c] = NoCall
           \/ call'[c] = [call[c] EXCEPT !.by = {}]
           \/ call'[c] = [call[c] EXCEPT !.age = @ + 1]
    PROVE  TellsNoMore(c)
  BY DEF Typed, TypeOK, Call, TellsNoMore, NoCall, Committed

LEMMA AnsweredBacked ==
    ASSUME Typed, Backed, RanStays, NEW c \in Calls, NEW answer,
           call'[c] = Answered(c, answer),
           answer \in Committed => hist'[call[c].key].ran
    PROVE  CallBacked(c)'
  BY DEF Typed, TypeOK, Call, CallBacked, Answered, NoCall, Committed

LEMMA ReceiverBacked ==
    ASSUME Typed, Backed, RanStays, NEW c \in Calls, ReceiverStep(c) PROVE Backed'
<1>1. call[c] \in Call /\ call[c].key \in Keys
  BY DEF Typed, TypeOK, Call
<1>2. ASSUME NEW d \in Calls \ {c} PROVE CallBacked(d)'
  <2>1. call'[d] = call[d]
    BY <1>2 DEF ReceiverStep, Recall, Refuse, Run, RunFails, Remember, Typed, TypeOK
  <2> QED
    BY <2>1, SameTellsNoMore, CallStaysBacked
<1>3. UNCHANGED row
  BY DEF ReceiverStep, Recall, Refuse, Run, RunFails, Remember
<1>4. DeliveredRan'
  BY <1>3 DEF Backed, DeliveredRan, RanStays
<1>5. ASSUME UNCHANGED seen PROVE \A k \in Keys : SeenBacked(k)'
  BY <1>5 DEF Backed, SeenBacked, RanStays
<1>6. CASE Recall(c)
  <2>1. ASSUME Known(call[c].key) # "none" PROVE CallBacked(c)'
    <3>1. Known(call[c].key) \in Committed => hist[call[c].key].ran
      BY <1>1 DEF Backed, SeenBacked, Known, Committed
    <3>2. PICK answer : answer = Known(call[c].key)
      OBVIOUS
    <3>3. call'[c] = Answered(c, answer)
      BY <1>6, <2>1, <3>2 DEF Recall, Typed, TypeOK
    <3>4. answer \in Committed => hist'[call[c].key].ran
      BY <1>1, <3>1, <3>2 DEF RanStays
    <3> QED
      BY <3>3, <3>4, AnsweredBacked
  <2>2. ASSUME Known(call[c].key) = "none" PROVE CallBacked(c)'
    <3>1. call'[c] = [call[c] EXCEPT !.state = "running"]
      BY <1>6, <2>2 DEF Recall, Typed, TypeOK
    <3>2. TellsNoMore(c)
      BY <1>1, <3>1 DEF Call, TellsNoMore
    <3> QED
      BY <3>2, CallStaysBacked
  <2>3. CallBacked(c)'
    BY <2>1, <2>2
  <2> QED
    BY <1>2, <1>4, <1>5, <1>6, <2>3 DEF Recall, Backed
<1>7. ASSUME NEW answer, answer \notin Committed, UNCHANGED seen,
             call' = [call EXCEPT ![c] = Answered(c, answer)]
      PROVE  Backed'
  <2>1. call'[c] = Answered(c, answer)
    BY <1>7 DEF Typed, TypeOK
  <2> QED
    BY <1>2, <1>4, <1>5, <1>7, <2>1, AnsweredBacked DEF Backed
<1>8. CASE Refuse(c)
  <2>1. PICK answer : answer = "refused"
    OBVIOUS
  <2>2. answer \notin Committed /\ UNCHANGED seen /\ call' = [call EXCEPT ![c] = Answered(c, answer)]
    BY <1>8, <2>1 DEF Refuse, Committed
  <2> QED
    BY <1>7, <2>2
<1>9. ASSUME NEW answer \in {"conflict", "error"}, RunFails(c, answer) PROVE Backed'
  BY <1>7, <1>9 DEF RunFails, Committed
<1>10. ASSUME NEW answer \in {"ok", "late"}, Run(c, answer) PROVE Backed'
  <2>1. call'[c] = [call[c] EXCEPT !.state = "saved", !.answer = answer]
    BY <1>10 DEF Run, Typed, TypeOK
  <2>2. hist'[call[c].key].ran
    <3> DEFINE h == [hist[call[c].key] EXCEPT !.runs = @ + 1, !.ran = TRUE]
    <3>1. hist' = [hist EXCEPT ![call[c].key] = h] /\ h.ran
      BY <1>1, <1>10 DEF Run, Typed, TypeOK, Hist
    <3> QED
      BY <1>1, <3>1 DEF Typed, TypeOK
  <2>3. CallBacked(c)'
    BY <1>1, <2>1, <2>2 DEF CallBacked, Committed, Call
  <2> QED
    BY <1>2, <1>4, <1>5, <1>10, <2>3 DEF Run, Backed
<1>11. CASE Remember(c)
  <2>1. call'[c] = Answered(c, call[c].answer)
    BY <1>11 DEF Remember, Typed, TypeOK
  <2>2. hist[call[c].key].ran /\ call[c].answer \in Committed
    BY <1>11 DEF Remember, Backed, CallBacked
  <2>3. CallBacked(c)'
    BY <1>1, <2>1, <2>2, AnsweredBacked DEF RanStays
  <2>4. ASSUME NEW k \in Keys PROVE SeenBacked(k)'
    <3>1. \/ seen'[k] = seen[k]
          \/ k = call[c].key /\ seen'[k].answer = call[c].answer
      <4> DEFINE kept == [answer |-> call[c].answer, id |-> call[c].id]
      <4>1. seen' = seen \/ seen' = [seen EXCEPT ![call[c].key] = kept]
        BY <1>11 DEF Remember
      <4>2. kept.answer = call[c].answer
        OBVIOUS
      <4>3. seen \in [Keys -> Seen]
        BY DEF Typed, TypeOK
      <4> HIDE DEF kept
      <4>4. CASE seen' = seen
        BY <4>4
      <4>5. CASE seen' = [seen EXCEPT ![call[c].key] = kept]
        BY <1>1, <4>2, <4>3, <4>5
      <4> QED
        BY <4>1, <4>4, <4>5
    <3> QED
      BY <2>2, <3>1 DEF Backed, SeenBacked, RanStays
  <2> QED
    BY <1>2, <1>4, <2>3, <2>4 DEF Backed
<1> QED
  BY <1>6, <1>8, <1>9, <1>10, <1>11 DEF ReceiverStep

(* An update calls a row delivered for an answer "ok" only.                *)
LEMMA UpdatedBacked ==
    ASSUME Typed, Backed, RanStays, NEW c \in Calls, NEW answer \in Answers \cup {"none"},
           row' = Updated(c, answer), answer \in {"none", call[c].answer}
    PROVE  DeliveredRan'
<1>1. call[c].key \in Keys
  BY DEF Typed, TypeOK, Call
<1>2. ASSUME NEW k \in Keys, row'[k].status = "delivered" PROVE hist[k].ran
  <2>1. CASE row'[k] = row[k]
    BY <1>2, <2>1 DEF Backed, DeliveredRan
  <2>2. CASE row'[k] # row[k]
    <3>1. k = call[c].key /\ row'[k].status = Outcome(answer, call[c].attempts + 1)
      BY <1>1, <2>2 DEF Updated, Typed, TypeOK, Row
    <3>2. answer = "ok" /\ call[c].answer = "ok"
      BY <1>2, <3>1 DEF Outcome
    <3> QED
      BY <3>1, <3>2 DEF Backed, CallBacked, Committed
  <2> QED
    BY <2>1, <2>2
<1> QED
  BY <1>2 DEF DeliveredRan, RanStays

LEMMA SettleBacked ==
    ASSUME Typed, Backed, RanStays, NEW w \in Workers, NEW c \in Calls,
           TakeAnswer(w, c) \/ TimesOut(w, c) \/ LosesReply(w, c) \/ Unsent(w, c)
    PROVE  Backed'
<1>1. call[c] \in Call
  BY DEF Typed, TypeOK
<1>2. PICK answer \in {"none", call[c].answer} : Settle(w, c, answer)
  BY DEF TakeAnswer, TimesOut, LosesReply, Unsent
<1>3. DeliveredRan'
  BY <1>1, <1>2, UpdatedBacked DEF Settle, Call
<1>4. ASSUME NEW d \in Calls PROVE CallBacked(d)'
  <2>1. \/ call'[d] = call[d] \/ call'[d] = NoCall
        \/ d = c /\ call'[d] = [call[d] EXCEPT !.by = {}]
    BY DEF TakeAnswer, TimesOut, LosesReply, Unsent, Typed, TypeOK
  <2> QED
    BY <2>1, SameTellsNoMore, CallStaysBacked
<1>5. \A k \in Keys : SeenBacked(k)'
  BY <1>2 DEF Settle, Backed, SeenBacked, RanStays
<1> QED
  BY <1>3, <1>4, <1>5 DEF Backed

(* Steps of the sender that make no row delivered.                         *)
NoneDelivered ==
    \A k \in Keys : row'[k].status = "delivered" => row[k].status = "delivered"

LEMMA SenderBacked ==
    ASSUME Typed, Backed, RanStays, UNCHANGED seen, \A c \in Calls : TellsNoMore(c),
           NoneDelivered
    PROVE  Backed'
<1>1. ASSUME NEW c \in Calls PROVE CallBacked(c)'
  BY CallStaysBacked
<1> QED
  BY <1>1 DEF Backed, SeenBacked, DeliveredRan, RanStays, NoneDelivered

LEMMA NextBacked == Typed /\ Backed /\ [Next]_vars => Backed'
<1> SUFFICES ASSUME Typed, Backed, [Next]_vars PROVE Backed'
  OBVIOUS
<1>1. RanStays
  BY NextRanStays
<1>2. ASSUME UNCHANGED <<seen, call>>,
             NoneDelivered
      PROVE  Backed'
  BY <1>1, <1>2, SameTellsNoMore, SenderBacked
<1>3. ASSUME NEW k \in Keys, Enqueue(k) \/ Age(k) PROVE Backed'
  <2>1. NoneDelivered
    <3>1. CASE Enqueue(k)
      <4> DEFINE r == [NoRow EXCEPT !.id = hist[k].made + 1, !.status = "pending",
                                    !.due = 0]
      <4>1. row' = [row EXCEPT ![k] = r] /\ r.status = "pending"
        BY <3>1 DEF Enqueue, NoRow
      <4> HIDE DEF r
      <4> QED
        BY <4>1 DEF NoneDelivered, Typed, TypeOK
    <3>2. CASE Age(k)
      BY <3>2 DEF NoneDelivered, Age, Typed, TypeOK, Row
    <3> QED
      BY <1>3, <3>1, <3>2
  <2> QED
    BY <1>2, <1>3, <2>1 DEF Enqueue, Age, receiver
<1>4. ASSUME NEW k \in Keys, KeyExpires(k) PROVE Backed'
  <2>1. \A j \in Keys : SeenBacked(j)'
    BY <1>1, <1>4 DEF KeyExpires, Backed, SeenBacked, RanStays, Typed, TypeOK, Forgotten
  <2> QED
    BY <1>1, <1>4, <2>1 DEF KeyExpires, Backed, CallBacked, DeliveredRan, RanStays,
       Typed, TypeOK, Call
<1>5. ASSUME NEW w \in Workers, NEW i \in batch[w], NEW c \in Calls, Claim(w, i, c)
      PROVE  Backed'
  <2>1. call'[c].answer = "none" /\ call'[c].state = "sent"
    BY <1>5 DEF Claim, Typed, TypeOK, NoCall
  <2>2. \A d \in Calls : TellsNoMore(d)
    <3>1. \A d \in Calls \ {c} : call'[d] = call[d]
      BY <1>5 DEF Claim, Typed, TypeOK
    <3>2. TellsNoMore(c)
      BY <2>1 DEF TellsNoMore, Committed
    <3> QED
      BY <3>1, <3>2, SameTellsNoMore
  <2>3. NoneDelivered
    BY <1>5 DEF NoneDelivered, Claim, Typed, TypeOK, Item, Row
  <2> QED
    BY <1>1, <1>5, <2>2, <2>3, SenderBacked DEF Claim
<1>6. ASSUME NEW w \in Workers, WorkerStep(w) PROVE Backed'
  <2>1. CASE UNCHANGED <<seen, call, row>>
    BY <1>2, <2>1 DEF NoneDelivered
  <2>2. CASE EndPass(w)
    <3>1. NoneDelivered
      BY <2>2 DEF NoneDelivered, EndPass, NoRow
    <3> QED
      BY <1>2, <2>2, <3>1 DEF EndPass, receiver
  <2> QED
    BY <1>1, <1>5, <1>6, <2>1, <2>2, SettleBacked
       DEF WorkerStep, ListPending, Skip, Restarts, receiver
<1>7. CASE Failure
  <2>1. ASSUME NEW w \in Workers, Dies(w) \/ StoreFails(w) PROVE Backed'
    <3>1. \A c \in Calls : \/ call'[c] = call[c] \/ call'[c] = NoCall
                           \/ call'[c] = [call[c] EXCEPT !.by = {}]
      BY <2>1 DEF Dies, StoreFails, Abandoned
    <3> QED
      BY <1>1, <2>1, <3>1, SameTellsNoMore, SenderBacked
         DEF Dies, StoreFails, NoneDelivered
  <2>2. CASE ReceiverDies
    <3>1. \A c \in Calls : call'[c] = call[c] \/ call'[c] = Answered(c, "none")
      BY <2>2 DEF ReceiverDies
    <3>2. ASSUME NEW c \in Calls
          PROVE  Answered(c, "none").answer = "none" /\ Answered(c, "none").state # "saved"
      BY DEF Answered, NoCall, Typed, TypeOK, Call
    <3>3. \A c \in Calls : TellsNoMore(c)
      BY <3>1, <3>2, SameTellsNoMore DEF TellsNoMore, Committed
    <3> QED
      BY <1>1, <2>2, <3>3, SenderBacked DEF ReceiverDies, NoneDelivered
  <2> QED
    BY <1>1, <1>7, <2>1, <2>2, SettleBacked DEF Failure
<1>8. CASE PurgeDead
  <2>1. NoneDelivered
    BY <1>8 DEF NoneDelivered, PurgeDead, NoRow
  <2> QED
    BY <1>2, <1>8, <2>1 DEF PurgeDead, receiver
<1>9. CASE Tick
  <2>1. NoneDelivered
    BY <1>9 DEF NoneDelivered, Tick, Typed, TypeOK, Row
  <2>2. \A c \in Calls : \/ call'[c] = call[c]
                         \/ call'[c] = [call[c] EXCEPT !.age = @ + 1]
    BY <1>9 DEF Tick
  <2> QED
    BY <1>1, <1>9, <2>1, <2>2, SameTellsNoMore, SenderBacked DEF Tick
<1>10. CASE UNCHANGED vars
  BY <1>2, <1>10 DEF vars, NoneDelivered
<1> QED
  BY <1>1, <1>3, <1>4, <1>6, <1>7, <1>8, <1>9, <1>10, ReceiverBacked DEF Next

(* A row says delivered only if the walker ran and committed for its key,  *)
(* whatever answers were lost, remembered, replayed or given up (replay_   *)
(* cached, remember_response, deliver_pending), for any number of workers, *)
(* spawns and faults, and however the waits of the two sides compare.      *)
THEOREM DeliveredTells == Spec => []DeliveredRan
<1>1. Init => Typed /\ Backed
  BY InitType, InitBacked
<1>2. Typed /\ Backed /\ [Next]_vars => (Typed /\ Backed)'
  BY NextType, NextBacked
<1>3. Backed => DeliveredRan
  BY DEF Backed
<1> QED
  BY <1>1, <1>2, <1>3, PTL DEF Spec

-----------------------------------------------------------------------------
(* One spawn under way for a key                                           *)

Live(c) == call[c].state \in Underway

(* The row of a spawn under way is not due before the spawn must be over:  *)
(* a lease outlives it, and so does the wait before a retry.               *)
Covered(c) ==
    LET r == row[call[c].key]
    IN  /\ r.id = call[c].id
        /\ r.status \in Open \cup {"dead"}
        /\ r.status \in Open => r.due + call[c].age > RunMax

Sole(c) == \A d \in Calls \ {c} :
              call[d].state # "free" => call[d].key # call[c].key

Solo == \A c \in Calls : /\ Live(c) => Covered(c) /\ Sole(c)
                         /\ call[c].state = "answered" => call[c].by # {}

(* Waits in order: no spawn is under way for longer than its caller waits, *)
(* and a lease outlives a pass and a spawn.                                *)
WaitsInOrder == RunMax <= Timeout /\ MaxLag + RunMax < Lease

(* The commits of a key: those cut off, and one that is remembered or is   *)
(* about to be.                                                            *)
SavedNow(k) == \E c \in Calls : call[c].state = "saved" /\ call[c].key = k

Counted(k) ==
    hist[k].runs <= hist[k].cut +
        (IF seen[k].answer # "none" \/ SavedNow(k) THEN 1 ELSE 0)

NotYetSeen == \A c \in Calls :
    call[c].state \in {"running", "saved"} => seen[call[c].key].answer = "none"

Once == NotYetSeen /\ \A k \in Keys : Counted(k)

LEMMA InitSolo == Init => Solo /\ Once
  BY ConstantTypes DEF Init, Solo, Live, Once, NotYetSeen, Counted, SavedNow, NoCall,
     NoHist, Forgotten, Underway

(* A spawn goes on as it was, or is over; and one that goes on finds its   *)
(* row as it was.                                                          *)
GoesOn(c) ==
    /\ Live(c)' => /\ Live(c) /\ call'[c].key = call[c].key
                   /\ call'[c].id = call[c].id /\ call'[c].age = call[c].age
    /\ call'[c].state # "free" => call[c].state # "free" /\ call'[c].key = call[c].key
    /\ call'[c].state = "answered" => call'[c].by # {}

RowGoesOn(c) ==
    LET k == call[c].key
    IN  Live(c)' => /\ row'[k].id = row[k].id /\ row'[k].status = row[k].status
                    /\ row'[k].due = row[k].due

LEMMA FrameSolo ==
    ASSUME Typed, Solo, \A c \in Calls : GoesOn(c) /\ RowGoesOn(c)
    PROVE  Solo'
<1>1. ASSUME NEW c \in Calls, Live(c)' PROVE Covered(c)'
  BY <1>1 DEF Solo, Covered, GoesOn, RowGoesOn
<1>2. ASSUME NEW c \in Calls, Live(c)' PROVE Sole(c)'
  BY <1>2 DEF Solo, Sole, GoesOn
<1> QED
  BY <1>1, <1>2 DEF Solo, GoesOn

LEMMA SameGoesOn ==
    ASSUME Typed, Solo, NEW c \in Calls,
           \/ call'[c] = call[c] \/ call'[c] = NoCall
           \/ Live(c) /\ call'[c] = [call[c] EXCEPT !.by = {}]
           \/ Live(c) /\ call'[c] = [call[c] EXCEPT !.state = "running"]
    PROVE  GoesOn(c)
<1>1. call[c] \in Call
  BY DEF Typed, TypeOK
<1>2. CASE call'[c] = NoCall
  BY <1>2 DEF GoesOn, Live, NoCall, Underway
<1>3. CASE call'[c] = call[c]
  BY <1>3 DEF GoesOn, Live, Solo
<1> QED
  BY <1>1, <1>2, <1>3 DEF Call, GoesOn, Live, Underway

LEMMA ToldGoesOn ==
    ASSUME Typed, Solo, NEW c \in Calls, Live(c), NEW answer,
           \/ call'[c] = Answered(c, answer)
           \/ call'[c] = [call[c] EXCEPT !.state = "saved", !.answer = answer]
    PROVE  GoesOn(c)
<1>1. call[c] \in Call
  BY DEF Typed, TypeOK
<1>2. CASE call'[c] = NoCall
  BY <1>2, SameGoesOn
<1> QED
  BY <1>1, <1>2 DEF Call, GoesOn, Live, Underway, Answered

LEMMA ReceiverSolo ==
    ASSUME Typed, Solo,
           (\E c \in Calls : ReceiverStep(c)) \/ ReceiverDies \/ \E k \in Keys : KeyExpires(k)
    PROVE  Solo'
<1>1. \A c \in Calls : RowGoesOn(c)
  BY DEF ReceiverStep, Recall, Refuse, Run, RunFails, Remember, ReceiverDies, KeyExpires,
         RowGoesOn
<1>2. ASSUME NEW c \in Calls, ReceiverStep(c), NEW d \in Calls PROVE GoesOn(d)
  <2>1. CASE d # c
    <3>1. call'[d] = call[d]
      BY <1>2, <2>1 DEF ReceiverStep, Recall, Refuse, Run, RunFails, Remember, Typed, TypeOK
    <3> QED
      BY <3>1, SameGoesOn
  <2>2. CASE d = c
    <3>1. Live(c)
      BY <1>2 DEF ReceiverStep, Recall, Refuse, Run, RunFails, Remember, Live, Underway
    <3>2. \/ call'[c] = [call[c] EXCEPT !.state = "running"]
          \/ \E answer : call'[c] = Answered(c, answer)
          \/ \E answer \in {"ok", "late"} :
                call'[c] = [call[c] EXCEPT !.state = "saved", !.answer = answer]
      <4>1. call \in [Calls -> Call]
        BY DEF Typed, TypeOK
      <4>2. CASE Recall(c)
        <5>1. CASE Known(call[c].key) = "none"
          BY <4>1, <4>2, <5>1 DEF Recall
        <5>2. CASE Known(call[c].key) # "none"
          <6>1. PICK answer : answer = Known(call[c].key)
            OBVIOUS
          <6> QED
            BY <4>1, <4>2, <5>2, <6>1 DEF Recall
        <5> QED
          BY <5>1, <5>2
      <4>3. CASE Refuse(c)
        BY <4>1, <4>3 DEF Refuse
      <4>4. CASE Remember(c)
        BY <4>1, <4>4 DEF Remember
      <4>5. ASSUME NEW answer, RunFails(c, answer)
            PROVE  call'[c] = Answered(c, answer)
        BY <4>1, <4>5 DEF RunFails
      <4>6. ASSUME NEW answer \in {"ok", "late"}, Run(c, answer)
            PROVE  call'[c] = [call[c] EXCEPT !.state = "saved", !.answer = answer]
        BY <4>1, <4>6 DEF Run
      <4> QED
        BY <1>2, <4>2, <4>3, <4>4, <4>5, <4>6 DEF ReceiverStep
    <3> QED
      BY <2>2, <3>1, <3>2, SameGoesOn, ToldGoesOn
  <2> QED
    BY <2>1, <2>2
<1>3. ASSUME ReceiverDies, NEW c \in Calls PROVE GoesOn(c)
  <2>1. call'[c] = call[c] \/ (Live(c) /\ call'[c] = Answered(c, "none"))
    BY <1>3 DEF ReceiverDies, Live
  <2> QED
    BY <2>1, SameGoesOn, ToldGoesOn
<1>4. ASSUME UNCHANGED call, NEW c \in Calls PROVE GoesOn(c)
  BY <1>4, SameGoesOn
<1> QED
  BY <1>1, <1>2, <1>3, <1>4, FrameSolo DEF KeyExpires

LEMMA ClaimSolo ==
    ASSUME Typed, Exclusive, Solo, WaitsInOrder, NEW w \in Workers, NEW i \in batch[w],
           NEW c \in Calls, Claim(w, i, c)
    PROVE  Solo'
<1> DEFINE k == i.key
<1>1. /\ k \in Keys /\ row[k] \in Row /\ row[k].id = i.id /\ row[k].id # 0
      /\ row[k].status \in Open /\ row[k].due <= 0 /\ row[k].due \in Int
      /\ began[w] \in Int /\ began[w] >= -MaxLag
  BY ConstantsAssumption
     DEF Claim, Claimable, Typed, TypeOK, RowsOK, Item, Row, Past, Open
<1>2. /\ call[c].state = "free"
      /\ call'[c].state = "sent" /\ call'[c].key = k /\ call'[c].id = i.id
      /\ call'[c].age = 0
      /\ \A d \in Calls \ {c} : call'[d] = call[d]
  BY DEF Claim, Typed, TypeOK, NoCall
<1>3. ASSUME NEW d \in Calls, call[d].state # "free" PROVE call[d].key # k
  <2>1. CASE Live(d)
    <3>1. call[d].age \in Nat /\ call[d].age <= RunMax
      BY ConstantsAssumption DEF Typed, TypeOK, Call
    <3> QED
      BY <1>1, <2>1, <3>1, ConstantsAssumption DEF Solo, Covered
  <2>2. CASE ~Live(d)
    <3>1. call[d].state = "answered"
      BY <1>3, <2>2 DEF Live, Typed, TypeOK, Call
    <3>2. PICK v \in Workers : v \in call[d].by
      BY <3>1 DEF Solo, Typed, TypeOK, Call
    <3>3. row[call[d].key].due = began[v] + Lease
      BY <3>2 DEF Exclusive, Leased, Held
    <3>4. began[v] + Lease > 0
      BY LeaseLasts, ConstantsAssumption DEF WaitsInOrder
    <3> QED
      BY <1>1, <3>3, <3>4
  <2> QED
    BY <2>1, <2>2
<1>4. /\ row'[k].id = i.id /\ row'[k].status = "delivering"
      /\ row'[k].due = began[w] + Lease
      /\ \A j \in Keys \ {k} : row'[j] = row[j]
  BY <1>1 DEF Claim, LeaseUntil, Typed, TypeOK, Row
<1>5. Covered(c)' /\ Sole(c)'
  BY <1>1, <1>2, <1>3, <1>4, ConstantsAssumption DEF Covered, Sole, Open, WaitsInOrder
<1>6. ASSUME NEW d \in Calls \ {c}, Live(d)' PROVE Covered(d)' /\ Sole(d)'
  <2>1. Live(d) /\ call[d].state # "free" /\ call[d].key \in Keys
    BY <1>2, <1>6 DEF Live, Underway, Typed, TypeOK, Call
  <2>2. call[d].key # k
    BY <1>3, <2>1
  <2> QED
    BY <1>2, <1>4, <2>1, <2>2 DEF Solo, Covered, Sole
<1> QED
  BY <1>2, <1>5, <1>6 DEF Solo

(* A caller that stops waiting leaves its row to a retry that is not due   *)
(* before the spawn must be over.                                          *)
LEMMA SettleSolo ==
    ASSUME Typed, Exclusive, Solo, WaitsInOrder, NEW w \in Workers, NEW c \in Calls,
           TakeAnswer(w, c) \/ TimesOut(w, c) \/ LosesReply(w, c) \/ Unsent(w, c)
    PROVE  Solo'
<1>1. SettlesRow(w, c)
  BY SettleExclusive
<1>2. call[c].state # "free"
  BY DEF TakeAnswer, TimesOut, LosesReply, Unsent, Underway
<1>3. ASSUME NEW d \in Calls \ {c} PROVE GoesOn(d) /\ RowGoesOn(d)
  <2>1. call'[d] = call[d]
    BY DEF TakeAnswer, TimesOut, LosesReply, Unsent, Typed, TypeOK
  <2>2. GoesOn(d)
    BY <2>1, SameGoesOn
  <2>3. Live(d)' => call[d].key # call[c].key /\ call[d].key \in Keys
    BY <1>2, <2>1 DEF Live, Solo, Sole, Typed, TypeOK, Call
  <2> QED
    BY <1>1, <2>2, <2>3 DEF SettlesRow, RowGoesOn
<1>4. CASE call'[c] = NoCall
  <2>1. ~Live(c)'
    BY <1>4 DEF Live, NoCall, Underway
  <2>2. GoesOn(c) /\ RowGoesOn(c)
    BY <1>4, <2>1, SameGoesOn DEF RowGoesOn
  <2> QED
    BY <1>3, <2>2, FrameSolo
<1>5. CASE TimesOut(w, c)
  <2> DEFINE n == call[c].attempts + 1
             k == call[c].key
  <2>1. /\ call'[c].state = call[c].state /\ call'[c].key = k
        /\ call'[c].id = call[c].id /\ call'[c].age = call[c].age
        /\ call[c].age \in Nat /\ call[c].age >= Timeout /\ Live(c)
    BY <1>5, ConstantsAssumption DEF TimesOut, Live, Typed, TypeOK, Call
  <2>2. row'[k].status \in Open \cup {"dead"} /\ row'[k].due \in Int
    <3>1. row'[k].status = Outcome("none", n) \/ row'[k] = row[k]
      BY <1>1, <1>5 DEF TimesOut, Settle, Updated, SettlesRow, Typed, TypeOK, Row
    <3>2. row' \in [Keys -> Row]
      BY <1>5, TakeAnswerType DEF Typed, TypeOK
    <3> QED
      BY <1>1, <3>1, <3>2, ConstantsAssumption DEF Outcome, Open, SettlesRow, Row, Rejections
  <2>3. Covered(c)'
    BY <1>1, <2>1, <2>2, ConstantsAssumption DEF SettlesRow, Covered, WaitsInOrder
  <2>4. Sole(c)'
    BY <1>3, <2>1 DEF Solo, Sole, GoesOn
  <2>5. ASSUME NEW d \in Calls \ {c}, Live(d)' PROVE Covered(d)' /\ Sole(d)'
    <3>1. Covered(d)'
      BY <1>3, <2>5 DEF Solo, Covered, GoesOn, RowGoesOn
    <3>2. Sole(d)'
      BY <1>2, <1>3, <2>1, <2>5 DEF Solo, Sole, GoesOn
    <3> QED
      BY <3>1, <3>2
  <2>6. call'[c].state # "answered"
    BY <2>1 DEF Live, Underway
  <2> QED
    BY <1>3, <2>3, <2>4, <2>5, <2>6 DEF Solo, GoesOn
<1>6. CASE ~TimesOut(w, c)
  <2>1. call'[c] = NoCall
    BY <1>6 DEF TakeAnswer, LosesReply, Unsent, Typed, TypeOK
  <2> QED
    BY <1>4, <2>1
<1> QED
  BY <1>5, <1>6

(* While anything is under way nothing is quiet; steps that are quiet, or  *)
(* that keep rows and spawns, keep Solo.                                   *)
LEMMA QuietSolo ==
    ASSUME Typed, Solo, UNCHANGED call, Quiet \/ UNCHANGED row PROVE Solo'
<1>1. \A c \in Calls : RowGoesOn(c)
  BY DEF RowGoesOn, Quiet, Live
<1> QED
  BY <1>1, SameGoesOn, FrameSolo

LEMMA EnqueueSolo ==
    ASSUME Typed, Solo, NEW k \in Keys, Enqueue(k) PROVE Solo'
<1>1. row[k].status = "none" /\ call' = call
  BY DEF Enqueue, receiver
<1>2. ASSUME NEW c \in Calls, Live(c) PROVE call[c].key # k /\ call[c].key \in Keys
  BY <1>1, <1>2 DEF Solo, Covered, Open, Typed, TypeOK, Call
<1>3. \A j \in Keys \ {k} : row'[j] = row[j]
  BY DEF Enqueue, Typed, TypeOK
<1>4. \A c \in Calls : RowGoesOn(c)
  BY <1>1, <1>2, <1>3 DEF RowGoesOn, Live
<1> QED
  BY <1>1, <1>4, SameGoesOn, FrameSolo

LEMMA EndPassSolo ==
    ASSUME Typed, Solo, NEW w \in Workers, EndPass(w) PROVE Solo'
<1>1. call' = call
  BY DEF EndPass, receiver
<1>2. ASSUME NEW c \in Calls, Live(c) PROVE call[c].key \notin Prunable
  BY <1>2 DEF Solo, Covered, Open, Prunable
<1>3. \A c \in Calls : RowGoesOn(c)
  <2>1. \A k \in Keys \ Prunable : row'[k] = row[k]
    BY DEF EndPass
  <2> QED
    BY <1>1, <1>2, <2>1 DEF RowGoesOn, Live, Typed, TypeOK, Call
<1> QED
  BY <1>1, <1>3, SameGoesOn, FrameSolo

LEMMA LeaveSolo ==
    ASSUME Typed, Solo, NEW w \in Workers, Dies(w) \/ StoreFails(w) PROVE Solo'
<1>1. call' = Abandoned(w) /\ row' = row
  BY DEF Dies, StoreFails
<1>2. ASSUME NEW c \in Calls PROVE GoesOn(c)
  <2>1. CASE call'[c] = call[c] \/ call'[c] = NoCall
    BY <2>1, SameGoesOn
  <2>2. CASE ~(call'[c] = call[c] \/ call'[c] = NoCall)
    <3>1. /\ call'[c] = [call[c] EXCEPT !.by = {}]
          /\ w \in call[c].by /\ call[c].state # "answered"
      BY <1>1, <2>2 DEF Abandoned
    <3>2. CASE Live(c)
      BY <3>1, <3>2, SameGoesOn
    <3>3. CASE ~Live(c)
      BY <3>1, <3>3 DEF GoesOn, Live, Typed, TypeOK, Call
    <3> QED
      BY <3>2, <3>3
  <2> QED
    BY <2>1, <2>2
<1> QED
  BY <1>1, <1>2, FrameSolo DEF RowGoesOn

(* A tick brings a row and a spawn as much nearer to their ends.           *)
LEMMA TickSolo == ASSUME Typed, Solo, Tick PROVE Solo'
<1>1. ASSUME NEW c \in Calls
      PROVE  /\ call'[c].state = call[c].state /\ call'[c].key = call[c].key
             /\ call'[c].id = call[c].id /\ call'[c].by = call[c].by
             /\ Live(c) => call'[c].age = call[c].age + 1 /\ call[c].age < RunMax
             /\ call[c].age \in Nat /\ call[c].key \in Keys
  BY ConstantsAssumption DEF Tick, Live, Typed, TypeOK, Call
<1>2. ASSUME NEW k \in Keys
      PROVE  /\ row'[k].id = row[k].id /\ row'[k].status = row[k].status
             /\ row[k].due \in Int
             /\ row[k].due > Past => row'[k].due = row[k].due - 1
  BY DEF Tick, Typed, TypeOK, Row
<1>3. ASSUME NEW c \in Calls, Live(c)' PROVE Covered(c)' /\ Sole(c)'
  <2>1. Live(c)
    BY <1>1, <1>3 DEF Live
  <2>2. row[call[c].key].status \in Open => row[call[c].key].due > Past
    BY <1>1, <1>2, <2>1, ConstantTypes, ConstantsAssumption DEF Solo, Covered
  <2>3. Covered(c)'
    BY <1>1, <1>2, <2>1, <2>2, ConstantsAssumption DEF Solo, Covered
  <2> QED
    BY <1>1, <2>1, <2>3 DEF Solo, Sole
<1> QED
  BY <1>1, <1>3 DEF Solo

LEMMA NextSolo ==
    ASSUME Typed, Exclusive, Solo, WaitsInOrder, [Next]_vars PROVE Solo'
<1>1. ASSUME NEW w \in Workers, WorkerStep(w) PROVE Solo'
  <2>1. CASE UNCHANGED <<call, row>>
    BY <2>1, QuietSolo
  <2> QED
    BY <1>1, <2>1, ClaimSolo, SettleSolo, EndPassSolo
       DEF WorkerStep, ListPending, Skip, Restarts, receiver
<1>2. CASE Failure
  BY <1>2, LeaveSolo, SettleSolo, ReceiverSolo DEF Failure
<1>3. ASSUME NEW k \in Keys, Age(k) PROVE Solo'
  BY <1>3, QuietSolo DEF Age, receiver
<1>4. CASE PurgeDead
  BY <1>4, QuietSolo DEF PurgeDead, receiver
<1>5. CASE UNCHANGED vars
  BY <1>5, QuietSolo DEF vars
<1> QED
  BY <1>1, <1>2, <1>3, <1>4, <1>5, EnqueueSolo, ReceiverSolo, TickSolo DEF Next

-----------------------------------------------------------------------------
(* The commits of a key                                                    *)

(* A step that commits, remembers and forgets nothing.                     *)
SameCounts(k) == hist'[k].runs = hist[k].runs /\ hist'[k].cut = hist[k].cut

SameSaved(c) ==
    /\ call[c].state = "saved" => call'[c].state = "saved" /\ call'[c].key = call[c].key
    /\ call'[c].state \in {"running", "saved"} =>
            call'[c].state = call[c].state /\ call'[c].key = call[c].key

LEMMA FrameOnce ==
    ASSUME Once, UNCHANGED seen, \A k \in Keys : SameCounts(k),
           \A c \in Calls : SameSaved(c)
    PROVE  Once'
<1>1. NotYetSeen'
  BY DEF Once, NotYetSeen, SameSaved
<1>2. \A k \in Keys : SavedNow(k)' <=> SavedNow(k)
  BY DEF SavedNow, SameSaved
<1> QED
  BY <1>1, <1>2 DEF Once, Counted, SameCounts

LEMMA SameIsSaved ==
    ASSUME Typed, NEW c \in Calls,
           \/ call'[c] = call[c]
           \/ call[c].state # "saved" /\ call'[c] = NoCall
           \/ call'[c] = [call[c] EXCEPT !.by = {}]
           \/ call'[c] = [call[c] EXCEPT !.age = @ + 1]
    PROVE  SameSaved(c)
<1>1. call[c] \in Call
  BY DEF Typed, TypeOK
<1> QED
  BY <1>1 DEF SameSaved, Call, NoCall

LEMMA SenderOnce ==
    ASSUME Typed, Once, Transport # "local",
           \/ \E k \in Keys : Enqueue(k) \/ Age(k)
           \/ \E w \in Workers : WorkerStep(w) \/ Dies(w) \/ StoreFails(w)
           \/ \E w \in Workers, c \in Calls : LosesReply(w, c) \/ Unsent(w, c)
           \/ PurgeDead \/ Tick \/ UNCHANGED vars
    PROVE  Once'
<1>1. seen' = seen
  BY DEF Enqueue, Age, WorkerStep, ListPending, Skip, Claim, TakeAnswer, TimesOut, Settle,
     EndPass, Restarts, Dies, StoreFails, LosesReply, Unsent, PurgeDead, Tick, vars, receiver
<1>2. \A k \in Keys : SameCounts(k)
  <2>1. CASE hist' = hist
    BY <2>1 DEF SameCounts
  <2>2. ASSUME NEW k \in Keys, Enqueue(k), NEW j \in Keys PROVE SameCounts(j)
    <3> DEFINE h == [hist[k] EXCEPT !.made = hist[k].made + 1, !.claims = 0]
    <3>1. hist' = [hist EXCEPT ![k] = h]
      BY <2>2 DEF Enqueue
    <3>2. h.runs = hist[k].runs /\ h.cut = hist[k].cut
      BY DEF Typed, TypeOK, Hist
    <3> HIDE DEF h
    <3> QED
      BY <3>1, <3>2 DEF SameCounts, Typed, TypeOK
  <2>3. ASSUME NEW w \in Workers, NEW i \in batch[w], NEW c \in Calls, Claim(w, i, c),
               NEW j \in Keys
        PROVE  SameCounts(j)
    BY <2>3 DEF Claim, SameCounts, Typed, TypeOK, Hist
  <2> QED
    BY <2>1, <2>2, <2>3
       DEF Age, WorkerStep, ListPending, Skip, TakeAnswer, TimesOut, Settle,
           EndPass, Restarts, Dies, StoreFails, LosesReply, Unsent, PurgeDead, Tick, vars
<1>3. ASSUME NEW c \in Calls PROVE SameSaved(c)
  <2>1. CASE call' = call
    BY <2>1, SameIsSaved
  <2>2. ASSUME NEW w \in Workers, NEW i \in batch[w], NEW d \in Calls, Claim(w, i, d)
        PROVE  SameSaved(c)
    <3>1. CASE c = d
      BY <2>2, <3>1 DEF Claim, SameSaved, NoCall, Typed, TypeOK
    <3>2. CASE c # d
      BY <2>2, <3>2, SameIsSaved DEF Claim, Typed, TypeOK
    <3> QED
      BY <3>1, <3>2
  <2>3. ASSUME NEW w \in Workers, NEW d \in Calls,
               TakeAnswer(w, d) \/ TimesOut(w, d) \/ LosesReply(w, d) \/ Unsent(w, d)
        PROVE  SameSaved(c)
    <3>1. \/ call'[c] = call[c]
          \/ call[c].state # "saved" /\ call'[c] = NoCall
          \/ call'[c] = [call[c] EXCEPT !.by = {}]
      BY <2>3 DEF TakeAnswer, TimesOut, LosesReply, Unsent, Typed, TypeOK
    <3> QED
      BY <3>1, SameIsSaved
  <2>4. ASSUME NEW w \in Workers, Dies(w) \/ StoreFails(w) PROVE SameSaved(c)
    <3>1. \/ call'[c] = call[c]
          \/ call[c].state # "saved" /\ call'[c] = NoCall
          \/ call'[c] = [call[c] EXCEPT !.by = {}]
      BY <2>4 DEF Dies, StoreFails, Abandoned
    <3> QED
      BY <3>1, SameIsSaved
  <2>5. CASE Tick
    BY <2>5, SameIsSaved DEF Tick
  <2> QED
    BY <2>1, <2>2, <2>3, <2>4, <2>5
       DEF Enqueue, Age, WorkerStep, ListPending, Skip, EndPass, Restarts, PurgeDead,
           vars, receiver
<1> QED
  BY <1>1, <1>2, <1>3, FrameOnce

(* Of the spawns of a key only the one that is saved can be about to be    *)
(* remembered, and none commits while another has.                         *)
LEMMA RunOnce ==
    ASSUME Typed, Solo, Once, NEW c \in Calls, NEW answer, Run(c, answer) PROVE Once'
<1>1. /\ call[c] \in Call /\ call[c].key \in Keys /\ call[c].state = "running"
      /\ call'[c] = [call[c] EXCEPT !.state = "saved", !.answer = answer]
      /\ \A d \in Calls \ {c} : call'[d] = call[d]
      /\ seen' = seen
  BY DEF Run, Typed, TypeOK, Call
<1>2. call'[c].state = "saved" /\ call'[c].key = call[c].key
  BY <1>1 DEF Call
<1>3. seen[call[c].key].answer = "none" /\ ~SavedNow(call[c].key)
  <2>1. Sole(c)
    BY <1>1 DEF Solo, Live, Underway
  <2> QED
    BY <1>1, <2>1 DEF Once, NotYetSeen, SavedNow, Sole
<1>4. /\ hist'[call[c].key].runs = hist[call[c].key].runs + 1
      /\ hist'[call[c].key].cut = hist[call[c].key].cut
      /\ hist[call[c].key].runs \in Nat /\ hist[call[c].key].cut \in Nat
      /\ \A k \in Keys \ {call[c].key} : hist'[k] = hist[k]
  <2> DEFINE h == [hist[call[c].key] EXCEPT !.runs = @ + 1, !.ran = TRUE]
  <2>1. hist' = [hist EXCEPT ![call[c].key] = h] /\ hist[call[c].key] \in Hist
    BY <1>1 DEF Run, Typed, TypeOK
  <2>2. h.runs = hist[call[c].key].runs + 1 /\ h.cut = hist[call[c].key].cut
    BY <2>1 DEF Hist
  <2> HIDE DEF h
  <2> QED
    BY <1>1, <2>1, <2>2 DEF Typed, TypeOK, Hist
<1>5. NotYetSeen'
  <2> SUFFICES ASSUME NEW d \in Calls, call'[d].state \in {"running", "saved"}
               PROVE  seen'[call'[d].key].answer = "none"
    BY DEF NotYetSeen
  <2>1. CASE d = c
    BY <1>1, <1>2, <1>3, <2>1
  <2>2. CASE d # c
    <3>1. call'[d] = call[d]
      BY <1>1, <2>2
    <3> QED
      BY <1>1, <3>1 DEF Once, NotYetSeen
  <2> QED
    BY <2>1, <2>2
<1>6. ASSUME NEW k \in Keys, k = call[c].key PROVE Counted(k)'
  <2>1. SavedNow(k)'
    BY <1>1, <1>2, <1>6 DEF SavedNow
  <2>2. hist[k].runs <= hist[k].cut
    BY <1>3, <1>4, <1>6 DEF Once, Counted
  <2>3. hist'[k].runs <= hist'[k].cut + 1
    BY <1>4, <1>6, <2>2
  <2> QED
    BY <2>1, <2>3 DEF Counted
<1>7. ASSUME NEW k \in Keys, k # call[c].key PROVE Counted(k)'
  <2>1. SavedNow(k)' <=> SavedNow(k)
    BY <1>1, <1>2, <1>7 DEF SavedNow
  <2> QED
    BY <1>1, <1>4, <1>7, <2>1 DEF Once, Counted
<1> QED
  BY <1>5, <1>6, <1>7 DEF Once

LEMMA RememberOnce ==
    ASSUME Typed, Backed, Solo, Once, Transport # "local", NEW c \in Calls, Remember(c)
    PROVE  Once'
<1>1. /\ call[c] \in Call /\ call[c].key \in Keys /\ call[c].state = "saved"
      /\ call[c].answer \in Committed
      /\ call'[c] = Answered(c, call[c].answer)
      /\ \A d \in Calls \ {c} : call'[d] = call[d]
      /\ hist' = hist
  BY DEF Remember, Typed, TypeOK, Call, Backed, CallBacked
<1>2. call'[c].state \notin {"running", "saved"}
  BY <1>1 DEF Answered, NoCall, Call
<1>3. /\ seen'[call[c].key].answer # "none"
      /\ \A k \in Keys \ {call[c].key} : seen'[k] = seen[k]
  <2> DEFINE kept == [answer |-> call[c].answer, id |-> call[c].id]
  <2>1. seen' = [seen EXCEPT ![call[c].key] = kept] /\ kept.answer # "none"
    BY <1>1 DEF Remember, Remembers, Committed
  <2> HIDE DEF kept
  <2> QED
    BY <1>1, <2>1 DEF Typed, TypeOK
<1>4. ASSUME NEW d \in Calls \ {c}, call[d].state \in {"running", "saved"}
      PROVE  call[d].key # call[c].key /\ call[d].key \in Keys
  BY <1>1, <1>4 DEF Solo, Sole, Live, Underway, Typed, TypeOK, Call
<1>5. NotYetSeen'
  <2> SUFFICES ASSUME NEW d \in Calls, call'[d].state \in {"running", "saved"}
               PROVE  seen'[call'[d].key].answer = "none"
    BY DEF NotYetSeen
  <2>1. d # c
    BY <1>2
  <2>2. call'[d] = call[d]
    BY <1>1, <2>1
  <2>3. seen'[call[d].key] = seen[call[d].key]
    BY <1>3, <1>4, <2>1, <2>2
  <2> QED
    BY <2>2, <2>3 DEF Once, NotYetSeen
<1>6. ASSUME NEW k \in Keys, k = call[c].key PROVE Counted(k)'
  <2>1. SavedNow(k)
    BY <1>1, <1>6 DEF SavedNow
  <2>2. hist[k].runs <= hist[k].cut + 1
    BY <2>1 DEF Once, Counted
  <2> QED
    BY <1>1, <1>3, <1>6, <2>2 DEF Counted
<1>7. ASSUME NEW k \in Keys, k # call[c].key PROVE Counted(k)'
  <2>1. SavedNow(k)' <=> SavedNow(k)
    BY <1>1, <1>2, <1>7 DEF SavedNow
  <2> QED
    BY <1>1, <1>3, <1>7, <2>1 DEF Once, Counted
<1> QED
  BY <1>5, <1>6, <1>7 DEF Once

LEMMA AnswersOnce ==
    ASSUME Typed, Once, Transport # "local", NEW c \in Calls,
           \/ Recall(c) \/ Refuse(c)
           \/ \E answer \in {"conflict", "error"} : RunFails(c, answer)
    PROVE  Once'
<1>1. /\ call[c] \in Call /\ call[c].key \in Keys /\ call[c].state \in {"sent", "running"}
      /\ \A d \in Calls \ {c} : call'[d] = call[d]
      /\ UNCHANGED <<hist, seen>>
  BY DEF Recall, Refuse, RunFails, Typed, TypeOK, Call
<1>2. \/ call'[c].state \notin {"running", "saved"}
      \/ /\ call'[c].state = "running" /\ call'[c].key = call[c].key
         /\ seen[call[c].key].answer = "none"
  <2>1. call \in [Calls -> Call]
    BY DEF Typed, TypeOK
  <2>2. \A answer : Answered(c, answer).state \notin {"running", "saved"}
    BY <1>1 DEF Answered, NoCall, Call
  <2>3. CASE Recall(c)
    <3>1. CASE Known(call[c].key) = "none"
      BY <1>1, <2>1, <2>3, <3>1 DEF Recall, Known, Call
    <3>2. CASE Known(call[c].key) # "none"
      BY <2>1, <2>2, <2>3, <3>2 DEF Recall
    <3> QED
      BY <3>1, <3>2
  <2>4. CASE Refuse(c)
    BY <2>1, <2>2, <2>4 DEF Refuse
  <2>5. ASSUME NEW answer, RunFails(c, answer)
        PROVE  call'[c].state \notin {"running", "saved"}
    BY <2>1, <2>2, <2>5 DEF RunFails
  <2> QED
    BY <2>3, <2>4, <2>5
<1>3. NotYetSeen'
  BY <1>1, <1>2 DEF Once, NotYetSeen
<1>4. \A k \in Keys : SavedNow(k)' <=> SavedNow(k)
  BY <1>1, <1>2 DEF SavedNow
<1> QED
  BY <1>1, <1>3, <1>4 DEF Once, Counted

LEMMA ReceiverDiesOnce == ASSUME Typed, Once, ReceiverDies PROVE Once'
<1>1. ASSUME NEW c \in Calls PROVE call'[c].state \notin {"running", "saved"}
  <2>1. Answered(c, "none").state \notin {"running", "saved"}
    BY DEF Answered, NoCall, Typed, TypeOK, Call
  <2> QED
    BY <2>1 DEF ReceiverDies, Underway
<1>2. NotYetSeen' /\ \A k \in Keys : ~SavedNow(k)'
  BY <1>1 DEF NotYetSeen, SavedNow
<1>3. ASSUME NEW k \in Keys PROVE Counted(k)'
  <2> DEFINE lost == {c \in Calls : call[c].state = "saved" /\ call[c].key = k}
  <2>1. IsFiniteSet(lost)
    BY ConstantsAssumption, FS_Subset
  <2>2. /\ Cardinality(lost) \in Nat
        /\ SavedNow(k) => Cardinality(lost) >= 1
    BY <2>1, FS_CardinalityType, FS_EmptySet DEF SavedNow
  <2>3. /\ hist'[k].runs = hist[k].runs
        /\ hist'[k].cut = hist[k].cut + Cardinality(lost)
        /\ hist[k].runs \in Nat /\ hist[k].cut \in Nat
    BY DEF ReceiverDies, Typed, TypeOK, Hist
  <2> HIDE DEF lost
  <2> QED
    BY <1>2, <2>2, <2>3 DEF Once, Counted, ReceiverDies
<1> QED
  BY <1>2, <1>3 DEF Once

LEMMA KeyExpiresOnce ==
    ASSUME Typed, Once, NEW k \in Keys, KeyExpires(k) PROVE Once'
<1>1. /\ seen[k].answer # "none" /\ call' = call
      /\ seen'[k].answer = "none" /\ \A j \in Keys \ {k} : seen'[j] = seen[j]
  BY DEF KeyExpires, Forgotten, Typed, TypeOK
<1>2. /\ hist'[k].runs = 0 /\ hist'[k].cut = 0
      /\ \A j \in Keys \ {k} : hist'[j] = hist[j]
  <2> DEFINE h == [hist[k] EXCEPT !.runs = 0, !.cut = 0]
  <2>1. hist' = [hist EXCEPT ![k] = h] /\ h.runs = 0 /\ h.cut = 0
    BY DEF KeyExpires, Typed, TypeOK, Hist
  <2> HIDE DEF h
  <2> QED
    BY <2>1 DEF Typed, TypeOK
<1>3. NotYetSeen'
  BY <1>1 DEF Once, NotYetSeen, Typed, TypeOK, Call
<1>4. ASSUME NEW j \in Keys PROVE Counted(j)'
  BY <1>1, <1>2 DEF Once, Counted, SavedNow
<1> QED
  BY <1>3, <1>4 DEF Once

LEMMA NextOnce ==
    ASSUME Typed, Backed, Solo, Once, Transport # "local", [Next]_vars PROVE Once'
<1>1. ASSUME NEW c \in Calls, ReceiverStep(c) PROVE Once'
  BY <1>1, RunOnce, RememberOnce, AnswersOnce DEF ReceiverStep
<1> QED
  BY <1>1, SenderOnce, ReceiverDiesOnce, KeyExpiresOnce DEF Next, Failure

(* At-least-once with idempotent receipt: where the waits are in order and *)
(* the spawn carries its key, the walker commits once for a key while the  *)
(* receiver remembers it, and once more for each time the receiver died    *)
(* between the commit and remember_response, whatever workers die, answers *)
(* get lost and callers stop waiting (deliver_pending, claim, replay_cached,*)
(* remember_response).                                                     *)
THEOREM RunsOnce ==
    ASSUME WaitsInOrder, Transport # "local" PROVE Spec => []EffectOnce
<1> DEFINE Inv == Typed /\ Exclusive /\ Backed /\ Solo /\ Once
<1>1. Init => Inv
  BY InitType, InitExclusive, InitBacked, InitSolo
<1>2. MaxLag < Lease
  BY ConstantsAssumption DEF WaitsInOrder
<1>3. Inv /\ [Next]_vars => Inv'
  BY <1>2, NextType, NextExclusive, NextBacked, NextSolo, NextOnce
<1>4. Inv => EffectOnce
  <2> SUFFICES ASSUME Typed, Once, NEW k \in Keys
               PROVE  hist[k].runs <= 1 + hist[k].cut
    BY DEF EffectOnce
  <2>1. hist[k].runs \in Nat /\ hist[k].cut \in Nat
    BY DEF Typed, TypeOK, Hist
  <2> QED
    BY <2>1 DEF Once, Counted
<1> HIDE DEF Inv
<1> QED
  BY <1>1, <1>3, <1>4, PTL DEF Spec
=============================================================================
