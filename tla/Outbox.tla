------------------------------- MODULE Outbox -------------------------------
(***************************************************************************)
(* Deferred delivery of cross-app walker spawns (jaclang/server/outbox.jac): *)
(* rows of jac_outbox, the worker threads that claim and deliver them, and *)
(* the receiving endpoint that remembers idempotency keys.  Time is        *)
(* relative: a row holds how far its next_attempt_at lies ahead of now, a  *)
(* pass how long ago it read its clock, a call how long it has been under  *)
(* way; all hosts share one clock.                                         *)
(***************************************************************************)
EXTENDS Integers, FiniteSets

CONSTANTS
    Workers,      \* threads that run _worker_loop, in any number of processes
    Keys,         \* idempotency keys
    Calls,        \* bound: slots for spawns under way
    Transport,    \* how spawn_walker reaches the receiver
    Lease,        \* LEASE_S
    MaxAttempts,  \* DEFAULT_MAX_ATTEMPTS
    BackoffCap,   \* BACKOFF_CAP_S
    MaxLag,       \* hypothesis: the longest a pass of a worker takes
    RunMax,       \* hypothesis: the longest a spawn is under way
    Timeout,      \* how long a caller waits for its answer
    Faults,       \* the faults that occur
    MaxFaults,    \* bound: how many of them
    MaxRows       \* bound: rows ever made for one key

ASSUME ConstantsAssumption ==
    /\ Keys # {} /\ IsFiniteSet(Calls)
    /\ Transport \in {"http", "rpc", "local"}
    /\ Lease \in Nat /\ MaxAttempts \in Nat \ {0} /\ BackoffCap \in Nat \ {0}
    /\ MaxLag \in Nat /\ RunMax \in Nat /\ Timeout \in Nat
    /\ Faults \subseteq {"crash", "receiver", "store", "unsent", "reply"}
    /\ MaxFaults \in Nat /\ MaxRows \in Nat

VARIABLES
    row,    \* jac_outbox, by key
    seen,   \* jac_outbox_seen and the cache in front of it, by key
    pc,     \* what each worker does
    began,  \* time.time() at the start of its pass, seen from now
    batch,  \* the entries of list_pending it has still to claim
    call,   \* spawns under way
    hist,   \* by key, what happened so far; only properties read it
    faults

receiver == <<seen, call>>
workers  == <<pc, began, batch>>
vars     == <<row, seen, pc, began, batch, call, hist, faults>>

-----------------------------------------------------------------------------
(* Rows, entries and calls                                                 *)

Open    == {"pending", "delivering"}
Over    == {"delivered", "dead"}
Answers == {"ok",        \* the walker ran and committed
            "late",      \* failed_after_commit: a part of it is saved
            "conflict",  \* 409 write_conflict
            "error",     \* 500, nothing saved
            "refused"}   \* 4xx of the endpoint, before the walker
Past    == -MaxLag       \* long enough ago for every pass
RowIds  == 1 .. MaxRows

Row == [id : 0 .. MaxRows, status : Open \cup Over \cup {"none"},
        attempts : 0 .. MaxAttempts,
        due : Int,                      \* next_attempt_at - now
        old : BOOLEAN]                  \* created DELIVERED_TTL_S ago

NoRow == [id |-> 0, status |-> "none", attempts |-> 0, due |-> Past,
          old |-> FALSE]

Tried == 0 .. MaxAttempts - 1
Item  == [key : Keys, id : RowIds, attempts : Tried]

Underway == {"sent", "running", "saved"}

Call == [state : Underway \cup {"free", "answered"}, key : Keys,
         id : 0 .. MaxRows, attempts : Tried, answer : Answers \cup {"none"},
         age : 0 .. RunMax,
         by : SUBSET Workers]           \* who waits for it: one or none

NoCall == [state |-> "free", key |-> CHOOSE k \in Keys : TRUE, id |-> 0,
           attempts |-> 0, answer |-> "none", age |-> 0, by |-> {}]

Seen == [answer : Answers \cup {"none"}, id : 0 .. MaxRows]
Forgotten == [answer |-> "none", id |-> 0]

Hist == [made   : 0 .. MaxRows,   \* rows so far, which numbers them
         claims : Nat,            \* of the present row
         runs   : Nat,            \* commits since the key was forgotten
         cut    : Nat,            \* of these, not remembered
         ran    : BOOLEAN]        \* the walker has committed for the key
NoHist == [made |-> 0, claims |-> 0, runs |-> 0, cut |-> 0, ran |-> FALSE]

(* Mutant: an answer that committed but failed afterwards is taken for     *)
(* one that saved nothing.                                                 *)
RemembersOk(answer) == answer = "ok"

(* What remember_response keeps: final answers.                            *)
Remembers(answer) == answer \in {"ok", "late"}

(* bridge_error_for_status makes a 4xx a BridgeRejected; walker_call and   *)
(* _local_spawn never see a status.                                        *)
Rejections == IF Transport = "http" THEN {"conflict", "refused"} ELSE {}

(* BACKOFF_BASE_S * (1 << attempts - 1), for up to 16 attempts.            *)
Doubled == <<1, 2, 4, 8, 16, 32, 64, 128, 256, 512, 1024, 2048, 4096, 8192,
             16384, 32768>>

Backoff(n) == IF n <= 1 THEN 1
              ELSE IF n > 16 \/ Doubled[n] > BackoffCap THEN BackoffCap
              ELSE Doubled[n]

InPass(w) == pc[w] \in {"pass", "calling"}
Quiet     == /\ \A w \in Workers : ~InPass(w)
             /\ \A c \in Calls : call[c].state \notin Underway

(* Of a finished call, only the caller that still waits takes anything.    *)
Answered(c, answer) ==
    IF call[c].by = {} THEN NoCall
    ELSE [call[c] EXCEPT !.state = "answered", !.answer = answer, !.age = 0]

Fault(kind) == /\ kind \in Faults
               /\ faults < MaxFaults
               /\ faults' = faults + 1

Init ==
    /\ row = [k \in Keys |-> NoRow]
    /\ seen = [k \in Keys |-> Forgotten]
    /\ pc = [w \in Workers |-> "idle"]
    /\ began = [w \in Workers |-> 0]
    /\ batch = [w \in Workers |-> {}]
    /\ call = [c \in Calls |-> NoCall]
    /\ hist = [k \in Keys |-> NoHist]
    /\ faults = 0

-----------------------------------------------------------------------------
(* The sender                                                              *)

(* A request whose walker deferred a spawn commits.  A row of the same key *)
(* in any status, a dead one too, drops the message.                       *)
Enqueue(k) ==
    /\ row[k].status = "none"
    /\ hist[k].made < MaxRows
    /\ row' = [row EXCEPT ![k] = [NoRow EXCEPT !.id = hist[k].made + 1,
                                  !.status = "pending", !.due = 0]]
    /\ hist' = [hist EXCEPT ![k] = [@ EXCEPT !.made = hist[k].made + 1,
                                            !.claims = 0]]
    /\ UNCHANGED <<receiver, workers, faults>>

(* Mutant: a claimed row is never listed again.                            *)
DuePending == {k \in Keys : row[k].status = "pending" /\ row[k].due <= 0}

DueRows  == {k \in Keys : row[k].status \in Open /\ row[k].due <= 0}
Prunable == {k \in Keys : row[k].status = "delivered" /\ row[k].old}

(* deliver_pending reads its clock and the due rows.  A pass that finds    *)
(* nothing to do changes nothing.                                          *)
ListPending(w) ==
    /\ pc[w] = "idle"
    /\ DueRows \cup Prunable # {}
    /\ pc' = [pc EXCEPT ![w] = "pass"]
    /\ began' = [began EXCEPT ![w] = 0]
    /\ batch' = [batch EXCEPT ![w] =
            {[key |-> k, id |-> row[k].id, attempts |-> row[k].attempts] :
                k \in DueRows}]
    /\ UNCHANGED <<row, receiver, hist, faults>>

(* Mutant: a claim that does not ask whether the lease has run out.        *)
ClaimableAnyway(w, i) ==
    /\ row[i.key].id = i.id
    /\ row[i.key].status \in Open

(* The WHERE clause of claim, with the clock of the start of the pass.     *)
Claimable(w, i) ==
    /\ row[i.key].id = i.id
    /\ row[i.key].status \in Open
    /\ row[i.key].due <= began[w]

(* Mutant: a claim that leaves next_attempt_at alone.                      *)
NoLease(w) == 0

LeaseUntil(w) == began[w] + Lease

(* The claim, and the spawn it is followed by.  The attempts it adds one   *)
(* to are those of the listed entry, and stay in memory.                   *)
Claim(w, i, c) ==
    /\ pc[w] = "pass" /\ i \in batch[w]
    /\ Claimable(w, i)
    /\ call[c].state = "free"
    /\ row' = [row EXCEPT ![i.key].status = "delivering",
                          ![i.key].due = LeaseUntil(w)]
    /\ call' = [call EXCEPT ![c] =
            [NoCall EXCEPT !.state = "sent", !.key = i.key, !.id = i.id,
                           !.attempts = i.attempts, !.by = {w}]]
    /\ pc' = [pc EXCEPT ![w] = "calling"]
    /\ batch' = [batch EXCEPT ![w] = @ \ {i}]
    /\ hist' = [hist EXCEPT ![i.key].claims = @ + 1]
    /\ UNCHANGED <<seen, began, faults>>

Skip(w, i) ==
    /\ pc[w] = "pass" /\ i \in batch[w]
    /\ ~Claimable(w, i)
    /\ batch' = [batch EXCEPT ![w] = @ \ {i}]
    /\ UNCHANGED <<row, receiver, pc, began, hist, faults>>

(* Mutants: one attempt too many; any answer is taken for a success.       *)
OneAttemptMore(answer, n) ==
    IF answer = "ok" THEN "delivered"
    ELSE IF answer \in Rejections \/ n > MaxAttempts THEN "dead"
    ELSE "pending"

AnyAnswerDelivers(answer, n) ==
    IF answer # "none" THEN "delivered"
    ELSE IF n >= MaxAttempts THEN "dead"
    ELSE "pending"

Outcome(answer, n) ==
    IF answer = "ok" THEN "delivered"
    ELSE IF answer \in Rejections \/ n >= MaxAttempts THEN "dead"
    ELSE "pending"

(* The row after store.update, which asks for nothing but the id.  An      *)
(* outcome other than a retry writes back the next_attempt_at it listed.   *)
Updated(c, answer) ==
    LET n      == call[c].attempts + 1
        status == Outcome(answer, n)
        k      == call[c].key
    IN  IF row[k].id # call[c].id THEN row
        ELSE [row EXCEPT ![k].status = status, ![k].attempts = n,
                         ![k].due = IF status = "pending" THEN Backoff(n)
                                    ELSE Past]

Waits(w, c) == pc[w] = "calling" /\ w \in call[c].by

(* The spawn of w ends one way or the other, and its row is updated.       *)
Settle(w, c, answer) ==
    /\ Waits(w, c)
    /\ row' = Updated(c, answer)
    /\ pc' = [pc EXCEPT ![w] = "pass"]
    /\ UNCHANGED <<seen, began, batch, hist>>

TakeAnswer(w, c) ==
    /\ call[c].state = "answered"
    /\ Settle(w, c, call[c].answer)
    /\ call' = [call EXCEPT ![c] = NoCall]
    /\ UNCHANGED faults

(* The spawn is still under way, and goes on without its caller.           *)
TimesOut(w, c) ==
    /\ Transport # "local"
    /\ call[c].state \in Underway /\ call[c].age >= Timeout
    /\ Settle(w, c, "none")
    /\ call' = [call EXCEPT ![c].by = {}]
    /\ UNCHANGED faults

LosesReply(w, c) ==
    /\ Transport # "local"
    /\ call[c].state = "answered"
    /\ Fault("reply")
    /\ Settle(w, c, "none")
    /\ call' = [call EXCEPT ![c] = NoCall]

(* No connection, or an open circuit breaker.                              *)
Unsent(w, c) ==
    /\ Transport # "local"
    /\ call[c].state = "sent"
    /\ Fault("unsent")
    /\ Settle(w, c, "none")
    /\ call' = [call EXCEPT ![c] = NoCall]

(* prune, after the last entry.                                            *)
EndPass(w) ==
    /\ pc[w] = "pass" /\ batch[w] = {}
    /\ row' = [k \in Keys |-> IF k \in Prunable THEN NoRow ELSE row[k]]
    /\ pc' = [pc EXCEPT ![w] = "idle"]
    /\ began' = [began EXCEPT ![w] = 0]
    /\ UNCHANGED <<batch, receiver, hist, faults>>

(* What is left when the thread of w is gone from a pass.                  *)
Abandoned(w) ==
    [c \in Calls |->
        IF w \notin call[c].by THEN call[c]
        ELSE IF call[c].state = "answered" \/ Transport = "local" THEN NoCall
        ELSE [call[c] EXCEPT !.by = {}]]

Leave(w, to) ==
    /\ pc' = [pc EXCEPT ![w] = to]
    /\ began' = [began EXCEPT ![w] = 0]
    /\ batch' = [batch EXCEPT ![w] = {}]

(* A statement of the store raises: _worker_loop gives up the pass, an     *)
(* answer that was to be recorded and its prune with it.                   *)
StoreFails(w) ==
    /\ \/ pc[w] = "pass"
       \/ \E c \in Calls : Waits(w, c) /\ call[c].state = "answered"
    /\ Fault("store")
    /\ Leave(w, "idle")
    /\ call' = Abandoned(w)
    /\ UNCHANGED <<row, seen, hist>>

(* stop_worker between two passes, or its process is killed at any point.  *)
Dies(w) ==
    /\ pc[w] # "down"
    /\ Fault("crash")
    /\ Leave(w, "down")
    /\ call' = Abandoned(w)
    /\ UNCHANGED <<row, seen, hist>>

Restarts(w) ==
    /\ pc[w] = "down"
    /\ pc' = [pc EXCEPT ![w] = "idle"]
    /\ UNCHANGED <<row, receiver, began, batch, hist, faults>>

(* An operator removes the dead letters, at a quiet time.                  *)
PurgeDead ==
    /\ Quiet
    /\ \E k \in Keys : row[k].status = "dead"
    /\ row' = [k \in Keys |-> IF row[k].status = "dead" THEN NoRow ELSE row[k]]
    /\ UNCHANGED <<receiver, workers, hist, faults>>

-----------------------------------------------------------------------------
(* The receiver                                                            *)

(* replay_cached; a spawn in the same process carries no key.              *)
Known(k) == IF Transport = "local" THEN "none" ELSE seen[k].answer

Recall(c) ==
    /\ call[c].state = "sent"
    /\ call' = [call EXCEPT ![c] =
            IF Known(call[c].key) # "none" THEN Answered(c, Known(call[c].key))
            ELSE [@ EXCEPT !.state = "running"]]
    /\ UNCHANGED <<row, seen, workers, hist, faults>>

(* Authentication, contract check or missing walker, before the key.       *)
Refuse(c) ==
    /\ call[c].state = "sent"
    /\ Transport # "local"
    /\ call' = [call EXCEPT ![c] = Answered(c, "refused")]
    /\ UNCHANGED <<row, seen, workers, hist, faults>>

(* The walker runs in a request of its own and commits.                    *)
Run(c, answer) ==
    /\ call[c].state = "running"
    /\ answer \in {"ok", "late"}
    /\ hist' = [hist EXCEPT ![call[c].key].runs = @ + 1,
                            ![call[c].key].ran = TRUE]
    /\ call' = [call EXCEPT ![c] = [@ EXCEPT !.state = "saved",
                                             !.answer = answer]]
    /\ UNCHANGED <<row, seen, workers, faults>>

(* The walker runs and nothing of it is saved.                             *)
RunFails(c, answer) ==
    /\ call[c].state = "running"
    /\ answer \in {"conflict", "error"}
    /\ call' = [call EXCEPT ![c] = Answered(c, answer)]
    /\ UNCHANGED <<row, seen, workers, hist, faults>>

(* remember_response, on the connection of the worker, then the answer.    *)
Remember(c) ==
    /\ call[c].state = "saved"
    /\ seen' = IF Transport # "local" /\ Remembers(call[c].answer)
               THEN [seen EXCEPT ![call[c].key] =
                        [answer |-> call[c].answer, id |-> call[c].id]]
               ELSE seen
    /\ call' = [call EXCEPT ![c] = Answered(c, call[c].answer)]
    /\ UNCHANGED <<row, workers, hist, faults>>

(* The receiving process dies with every spawn it runs; what they have     *)
(* committed and it has not remembered is forgotten.                       *)
ReceiverDies ==
    /\ Transport # "local"
    /\ \E c \in Calls : call[c].state \in Underway
    /\ Fault("receiver")
    /\ call' = [c \in Calls |-> IF call[c].state \in Underway
                                THEN Answered(c, "none") ELSE call[c]]
    /\ hist' = [k \in Keys |-> [hist[k] EXCEPT !.cut = @ +
            Cardinality({c \in Calls : call[c].state = "saved"
                                       /\ call[c].key = k})]]
    /\ UNCHANGED <<row, seen, workers>>

-----------------------------------------------------------------------------
(* Time                                                                    *)

(* One unit of time passes.  Nothing in progress outlasts its hypothesis.  *)
Tick ==
    /\ \A w \in Workers : InPass(w) => began[w] > Past
    /\ \A c \in Calls : call[c].state \in Underway => call[c].age < RunMax
    /\ row' = [k \in Keys |-> IF row[k].due > Past
                              THEN [row[k] EXCEPT !.due = @ - 1] ELSE row[k]]
    /\ began' = [w \in Workers |-> IF InPass(w) THEN began[w] - 1 ELSE 0]
    /\ call' = [c \in Calls |-> IF call[c].state \in Underway
                                THEN [call[c] EXCEPT !.age = @ + 1]
                                ELSE call[c]]
    /\ UNCHANGED <<seen, pc, batch, hist, faults>>

(* The day of DELIVERED_TTL_S ends for a row.  It is longer than any pass  *)
(* and any spawn.                                                          *)
Age(k) ==
    /\ row[k].status # "none" /\ ~row[k].old
    /\ Quiet
    /\ row' = [row EXCEPT ![k].old = TRUE]
    /\ UNCHANGED <<receiver, workers, hist, faults>>

(* The day of DEFAULT_SEEN_TTL_S ends for a key, which was remembered      *)
(* after the row it came with was created.  No outage lasts a day.         *)
KeyExpires(k) ==
    /\ seen[k].answer # "none"
    /\ row[k].id # seen[k].id \/ (row[k].old /\ row[k].status \in Over)
    /\ seen' = [seen EXCEPT ![k] = Forgotten]
    /\ hist' = [hist EXCEPT ![k].runs = 0, ![k].cut = 0]
    /\ UNCHANGED <<row, call, workers, faults>>

-----------------------------------------------------------------------------
WorkerStep(w) ==
    \/ ListPending(w)
    \/ \E i \in batch[w] : Skip(w, i) \/ \E c \in Calls : Claim(w, i, c)
    \/ \E c \in Calls : TakeAnswer(w, c) \/ TimesOut(w, c)
    \/ EndPass(w)
    \/ Restarts(w)

ReceiverStep(c) ==
    \/ Recall(c)
    \/ Refuse(c)
    \/ \E answer \in {"ok", "late"} : Run(c, answer)
    \/ \E answer \in {"conflict", "error"} : RunFails(c, answer)
    \/ Remember(c)

Failure ==
    \/ \E w \in Workers : Dies(w) \/ StoreFails(w)
    \/ \E w \in Workers, c \in Calls : LosesReply(w, c) \/ Unsent(w, c)
    \/ ReceiverDies

Next ==
    \/ \E k \in Keys : Enqueue(k) \/ Age(k) \/ KeyExpires(k)
    \/ \E w \in Workers : WorkerStep(w)
    \/ \E c \in Calls : ReceiverStep(c)
    \/ Failure
    \/ PurgeDead
    \/ Tick

Spec == Init /\ [][Next]_vars

(* Threads are scheduled, requests are answered, a process that died is    *)
(* started again, and time passes.  No failure is ever required.           *)
FairSpec ==
    /\ Spec
    /\ \A w \in Workers : WF_vars(WorkerStep(w))
    /\ \A c \in Calls : WF_vars(ReceiverStep(c))
    /\ WF_vars(Tick)

-----------------------------------------------------------------------------
(* Properties                                                              *)

TypeOK ==
    /\ row \in [Keys -> Row]
    /\ seen \in [Keys -> Seen]
    /\ pc \in [Workers -> {"idle", "pass", "calling", "down"}]
    /\ began \in [Workers -> Past .. 0]
    /\ batch \in [Workers -> SUBSET Item]
    /\ call \in [Calls -> Call]
    /\ hist \in [Keys -> Hist]
    /\ faults \in 0 .. MaxFaults

(* No message is being delivered by two workers: the lease of a claim      *)
(* outlives the delivery (claim, deliver_pending).                         *)
OneDeliverer ==
    \A c, d \in Calls : c # d /\ call[c].by # {} /\ call[d].by # {} =>
        call[c].key # call[d].key \/ call[c].id # call[d].id

(* store.update never overwrites the outcome of a later attempt: the       *)
(* attempts of a row only grow, and a row that is delivered or dead stays  *)
(* what it is until it is deleted.                                         *)
OutcomeStands ==
    [][\A k \in Keys : row'[k].id = row[k].id =>
            /\ row'[k].attempts >= row[k].attempts
            /\ row[k].status \in Over => row'[k].status = row[k].status]_vars

(* At-least-once with idempotent receipt: while the receiver remembers a   *)
(* key, the walker commits once for it, and once more for each time the    *)
(* receiver died between the commit and remember_response.                 *)
EffectOnce == \A k \in Keys : hist[k].runs <= 1 + hist[k].cut

(* A row says delivered only if the walker ran and committed for its key,  *)
(* whatever answers were lost, remembered or replayed on the way.          *)
DeliveredRan == \A k \in Keys : row[k].status = "delivered" => hist[k].ran

(* Every message is delivered or ends as a dead letter, whatever dies or   *)
(* fails a bounded number of times on the way.                             *)
EveryMessageEnds ==
    \A k \in Keys : row[k].status \in Open ~> row[k].status \notin Open

(* jac-scale-http.md: a row whose worker died is retried "with attempts    *)
(* counting the lost try".  What the code does not do: claim leaves        *)
(* attempts alone, so a try nobody recorded is no try.                     *)
AttemptsCountTries ==
    \A k \in Keys : row[k].status \in Over => row[k].attempts = hist[k].claims
=============================================================================
