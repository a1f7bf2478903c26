------------------------------ MODULE Request ------------------------------
(***************************************************************************)
(* Requests served concurrently, each on a session of its own: the request *)
(* middleware's read of the user's root, the conflict loop that runs the   *)
(* walker or function (_run_function_with_occ), the commit that replays its*)
(* write set (Session.commit), the on_commit effects, and the write queue a*)
(* losing attempt waits in.  The walker is arbitrary: any sequence of at   *)
(* most MaxOps graph operations.  Every attempt writes with a tag of its   *)
(* own.                                                                    *)
(***************************************************************************)
EXTENDS Session

CONSTANTS Root,         \* the anchor a request resolves before it runs
          Guests,       \* requests that carry no user
          Mint,         \* the fresh ids each session's constructors draw
          Ops,          \* the operations walkers perform
          Targets,      \* the anchors walkers reach by reference
          ReadTier,     \* ro_units_enabled()
          MaxOps,       \* operations of one attempt
          MaxAttempts,  \* serve.conflict_max_attempts
          ReplayMax,    \* MAX_RETRIES of Session.commit
          MaxFaults     \* connection losses, all sessions together

ASSUME RequestAssumption ==
    /\ Root \in Seeded
    /\ Guests \subseteq Sessions
    /\ Mint \in [Sessions -> SUBSET (Ids \ Seeded)]
    /\ \A s, o \in Sessions : s # o => Mint[s] \cap Mint[o] = {}
    /\ Targets \subseteq Ids
    /\ ReadTier \in BOOLEAN
    /\ MaxOps \in Nat /\ MaxAttempts \in Nat \ {0}
    /\ ReplayMax \in Nat /\ MaxFaults \in Nat

VARIABLES req, faults

vars == <<db, outbox, clock, stamp, log, txn, advisory, ses, req, faults>>

Pcs == {"arrive", "scope", "open", "body", "barrier", "load", "caught",
        "flush", "commit", "effects", "exit", "handler", "turn", "pin",
        "reload", "close", "leave", "answered"}

Kinds == {"walk", "final", "outer", "close"}

Answers == {"none", "ok", "conflict", "error", "failed_after_commit"}

(* What is done to the anchors an operation reads first.                   *)
OpNames == {"scope", "open", "reload", "read", "write", "mutate", "delete",
            "find", "count", "effect"}

Op == [name : OpNames, id : Ids, load : SUBSET Ids]

Req == [pc : Pcs, kind : Kinds, exc : Exceptions \cup {"app"},
        op : Op,
        attempt : Nat, roRetries : Nat, tries : Nat, ops : Nat,
        committed : BOOLEAN,           \* call_state.committed
        effect : BOOLEAN,              \* pending_effects is not empty
        answer : Answers,
        \* history: the attempts begun and those whose commit succeeded, and
        \* what the current one wrote, deleted, enqueued, saved and fired
        run : Nat, won : SUBSET Nat, used : SUBSET Ids,
        wset : SUBSET Ids, dset : SUBSET Ids, enqueued : BOOLEAN,
        saved : BOOLEAN, fired : Nat]

NewRequest == [pc |-> "arrive", kind |-> "final", exc |-> "none",
               op |-> [name |-> "open", id |-> Root, load |-> {}],
               attempt |-> 1, roRetries |-> 0, tries |-> 0, ops |-> 0,
               committed |-> FALSE, effect |-> FALSE, answer |-> "none",
               run |-> 1, won |-> {}, used |-> {}, wset |-> {}, dset |-> {},
               enqueued |-> FALSE, saved |-> FALSE, fired |-> 0]

Init ==
    /\ StoreInit
    /\ \E writers \in SUBSET (IF ReadTier THEN Sessions ELSE {}) :
          ses = [s \in Sessions |->
                   IF s \in writers THEN [NewSession EXCEPT !.recorded = TRUE]
                                    ELSE NewSession]
    /\ req = [s \in Sessions |-> NewRequest]
    /\ faults = 0

Tag(s)   == <<s, req[s].run>>
Children == UNION {Mint[s] : s \in Sessions}

-----------------------------------------------------------------------------
(* What a step of request s leaves: the session and transaction of an      *)
(* outcome, and the request's own state.                                   *)

Becomes(s, S, t, q) ==
    /\ ses' = [ses EXCEPT ![s] = S]
    /\ txn' = [txn EXCEPT ![s] = t]
    /\ req' = [req EXCEPT ![s] = q]

Step(s, S, t, q) ==
    Becomes(s, S, t, q) /\ KeepTables /\ UNCHANGED <<advisory, faults>>

At(s, pc) == req[s].pc = pc

Goto(q, pc) == [q EXCEPT !.pc = pc]

Throw(q, exc) == [q EXCEPT !.pc = "handler", !.exc = exc]

(* Mutant: the read tier is used where the configuration turned it off.    *)
UnitIgnoringConfig(S) ==
    [S EXCEPT !.unit = IF ~S.recorded THEN "ro" ELSE "rw"]

(* unit_enter: a unit never seen writing starts on the read tier, and a    *)
(* transaction already open is promoted if need be.                        *)
Unit(S) == [S EXCEPT !.unit = IF ReadTier /\ ~S.recorded THEN "ro" ELSE "rw"]

UnitEnter(r) ==
    IF ~Ok(r) \/ r.t.mode = "none" THEN [r EXCEPT !.S = Unit(@)]
    ELSE EnsureTxn(Done(Unit(r.S), r.t))

-----------------------------------------------------------------------------
(* Reading an anchor: the read barrier, then the load, each tried again    *)
(* after a transient error.  The barrier is tried twice each time batch_get*)
(* is, and batch_get twice.                                                *)

(* Where a request goes when the read of an operation failed for good: in   *)
(* the middleware, which does not close the session of such a request; in  *)
(* for_target, which aborts it; in an effect; in the conflict loop; in the *)
(* walker.                                                                 *)
Failed(q, exc) ==
    IF q.op.name = "scope" THEN [q EXCEPT !.pc = "scope", !.answer = "error"]
    ELSE IF q.op.name = "open" THEN [q EXCEPT !.pc = "close", !.answer = "error"]
    ELSE IF q.op.name = "effect"
    THEN [q EXCEPT !.pc = "effects", !.effect = FALSE, !.fired = @ + 1]
    ELSE IF q.op.name = "reload" THEN Throw(q, exc)
    ELSE [q EXCEPT !.pc = "caught", !.exc = exc, !.ops = @ + 1]

(* note_effect_failure: an effect that failed on the database loses the    *)
(* transaction of its request.                                             *)
FailedSession(q, S, exc) ==
    IF q.op.name = "open" THEN Abort(S)
    ELSE IF q.op.name = "effect" /\ exc # "ro" THEN [S EXCEPT !.lost = TRUE]
    ELSE S

Fails(s, r, q) ==
    Step(s, FailedSession(q, r.S, r.exc), r.t, Failed(q, r.exc))

(* next: the tries spent when the read starts over                         *)
Retries(s, r, q, next) ==
    LET p == Replay(r.S, FALSE)
    IN  IF r.exc = "db" /\ next < 4
        THEN IF Ok(p) THEN Step(s, p.S, p.t, [q EXCEPT !.pc = "barrier", !.tries = next])
             ELSE Fails(s, p, q)
        ELSE Fails(s, r, q)

Barrier(s, S, q) ==
    LET r == IF q.op.load = {} THEN Done(S, txn[s])
             ELSE ReadBarrier(s, Done(S, txn[s]))
    IN  IF Ok(r) THEN Step(s, r.S, r.t, Goto(q, "load"))
        ELSE Retries(s, r, q, q.tries + 1)

Read(s, S, name, id, L) ==
    Barrier(s, S, [req[s] EXCEPT !.tries = 0,
                      !.op = [name |-> name, id |-> id, load |-> Missing(S, L)]])

BarrierAgain(s) == At(s, "barrier") /\ Barrier(s, ses[s], req[s])

Loading(s, names) == At(s, "load") /\ req[s].op.name \in names

Loaded(s) ==
    IF req[s].op.load = {} THEN Done(ses[s], txn[s])
    ELSE LoadFull(Done(ses[s], txn[s]), req[s].op.load)

LoadFails(s) ==
    /\ At(s, "load") /\ ~Ok(Loaded(s))
    /\ Retries(s, Loaded(s), req[s], IF req[s].tries < 2 THEN 2 ELSE 4)

-----------------------------------------------------------------------------
(* The middleware resolves the user's root in a read scope of its own.     *)

Arrive(s) ==
    /\ At(s, "arrive")
    /\ IF s \in Guests
       THEN Step(s, ses[s], txn[s], Goto(req[s], "open"))
       ELSE Read(s, [ses[s] EXCEPT !.scope = TRUE], "scope", Root, {Root})

ScopeLoaded(s) ==
    /\ Loading(s, {"scope"}) /\ Ok(Loaded(s))
    /\ Step(s, Loaded(s).S, Loaded(s).t, Goto(req[s], "scope"))

ExitScope(s) ==
    LET S == [ses[s] EXCEPT !.scope = FALSE]
        C == IF txn[s].dead THEN Rollback(S) ELSE Promote(S)
        q == Goto(req[s], IF req[s].answer = "none" THEN "open" ELSE "answered")
    IN  /\ At(s, "scope")
        /\ IF txn[s].mode = "ro" THEN Step(s, DropSnapshotReads(C), NoTxn, q)
           ELSE Step(s, S, txn[s], q)

(* _begin_user_request_context looks the root up again, outside any scope  *)
(* or unit, and unit_enter opens the unit.                                 *)
Open(s) == At(s, "open") /\ Read(s, ses[s], "open", Root, {Root})

OpenUnit(s) ==
    LET u == UnitEnter(Loaded(s))
    IN  /\ Loading(s, {"open"}) /\ Ok(Loaded(s))
        /\ Step(s, u.S, u.t, IF Ok(u) THEN Goto(req[s], "body")
                             ELSE Failed(req[s], u.exc))

-----------------------------------------------------------------------------
(* The walker                                                              *)

CanOp(s, op) == At(s, "body") /\ op \in Ops /\ req[s].ops < MaxOps

Counted(s) == [req[s] EXCEPT !.ops = @ + 1]

(* It reads an anchor to use it, change it or delete it ...                *)
Get(s) == \E name \in {"read", "write", "mutate", "delete"}, id \in Targets :
    /\ CanOp(s, name)
    /\ Read(s, ses[s], name, id, {id})

(* ... or the children of Root, to create one if there is none.            *)
FindChild(s) == \E name \in {"find", "count"} :
    /\ CanOp(s, name)
    /\ Read(s, ses[s], name, Root,
            IF name = "count" THEN Children \cup {Root} ELSE Children)

(* A hit stands, even if it has expired since; of L, which was missing,    *)
(* what has a row is found.                                                *)
Found(S, L, id) == id \in S.cached \ S.deleted /\ (id \in L => Hit(S, id))

Finds(s, names) ==
    /\ Loading(s, names) /\ Ok(Loaded(s))
    /\ Found(Loaded(s).S, req[s].op.load, req[s].op.id)

(* What the walker was looking for may be gone, or all it wanted to know.  *)
ReadOp(s) ==
    /\ Loading(s, {"read", "write", "mutate", "delete"}) /\ Ok(Loaded(s))
    /\ \/ req[s].op.name = "read"
       \/ ~Found(Loaded(s).S, req[s].op.load, req[s].op.id)
       \/ req[s].op.name = "delete" /\ req[s].op.id = Root
    /\ Step(s, Loaded(s).S, Loaded(s).t, Goto(Counted(s), "body"))

WriteOp(s) ==
    /\ Finds(s, {"write"})
    /\ Step(s, Write(Loaded(s).S, req[s].op.id, Tag(s)), Loaded(s).t,
            [Counted(s) EXCEPT !.pc = "body", !.wset = @ \cup {req[s].op.id}])

(* A value changed in place, which marks nothing dirty.                    *)
MutateOp(s) ==
    /\ Finds(s, {"mutate"})
    /\ Step(s, Mutate(Loaded(s).S, req[s].op.id, Tag(s)), Loaded(s).t,
            [Counted(s) EXCEPT !.pc = "body", !.wset = @ \cup {req[s].op.id}])

DeleteOp(s) ==
    /\ Finds(s, {"delete"}) /\ req[s].op.id # Root
    /\ Step(s, DeleteAnchor(Loaded(s).S, req[s].op.id), Loaded(s).t,
            [Counted(s) EXCEPT !.pc = "body",
                               !.wset = @ \ {req[s].op.id},
                               !.dset = @ \cup {req[s].op.id}])

(* Creating and linking puts fresh rows and leaves the row of Root alone;  *)
(* a walker that counts the children on Root writes that row too.          *)
FindsNone(S, L) == \A id \in Children : ~Found(S, L, id)

FoundOp(s) ==
    /\ Loading(s, {"find", "count"}) /\ Ok(Loaded(s))
    /\ ~FindsNone(Loaded(s).S, req[s].op.load) \/ Mint[s] \subseteq req[s].used
    /\ Step(s, Loaded(s).S, Loaded(s).t, Goto(Counted(s), "body"))

FindOrCreateOp(s) == \E id \in Mint[s] \ req[s].used :
    /\ Loading(s, {"find"}) /\ Ok(Loaded(s))
    /\ FindsNone(Loaded(s).S, req[s].op.load)
    /\ Step(s, Put(Loaded(s).S, id, Tag(s)), Loaded(s).t,
            [Counted(s) EXCEPT !.pc = "body", !.wset = @ \cup {id},
                               !.used = @ \cup {id}])

FindOrCountOp(s) == \E id \in Mint[s] \ req[s].used :
    /\ Loading(s, {"count"}) /\ Ok(Loaded(s))
    /\ FindsNone(Loaded(s).S, req[s].op.load)
    /\ Step(s, Write(Put(Loaded(s).S, id, Tag(s)), Root, Tag(s)), Loaded(s).t,
            [Counted(s) EXCEPT !.pc = "body", !.wset = @ \cup {id, Root},
                               !.used = @ \cup {id}])

CreateOp(s) == \E id \in Mint[s] \ req[s].used :
    /\ CanOp(s, "create")
    /\ Step(s, Put(ses[s], id, Tag(s)), txn[s],
            [Counted(s) EXCEPT !.wset = @ \cup {id}, !.used = @ \cup {id}])

EnqueueOp(s) ==
    LET r == Join(Done(ses[s], txn[s]), Tag(s))
    IN  /\ CanOp(s, "enqueue") /\ ~req[s].enqueued
        /\ Step(s, r.S, r.t,
                IF Ok(r) THEN [Counted(s) EXCEPT !.enqueued = TRUE]
                ELSE [Counted(s) EXCEPT !.pc = "caught", !.exc = r.exc])

OnCommitOp(s) ==
    /\ CanOp(s, "effect") /\ ~req[s].effect
    /\ Step(s, ses[s], txn[s], [Counted(s) EXCEPT !.effect = TRUE])

(* A nested walk ends: _sv_on_complete commits.                            *)
WalkEnds(s) ==
    /\ CanOp(s, "walk")
    /\ Step(s, ses[s], txn[s],
            [Counted(s) EXCEPT !.pc = "flush", !.kind = "walk", !.tries = 0])

FailOp(s) ==
    /\ CanOp(s, "fail")
    /\ Step(s, ses[s], txn[s], Throw(Counted(s), "app"))

Swallow(s) ==
    /\ At(s, "caught") /\ "swallow" \in Ops
    /\ Step(s, ses[s], txn[s], [req[s] EXCEPT !.pc = "body", !.exc = "none"])

Propagate(s) ==
    /\ At(s, "caught")
    /\ Step(s, ses[s], txn[s], Goto(req[s], "handler"))

(* The walker returns: _finalize_call_response commits.                    *)
Return(s) ==
    /\ At(s, "body")
    /\ Step(s, ses[s], txn[s],
            [req[s] EXCEPT !.pc = "flush", !.kind = "final", !.tries = 0])

-----------------------------------------------------------------------------
(* Session.commit                                                          *)

(* The exception a commit of each kind ends with goes: into the walk's     *)
(* end, which drops it, into the conflict loop, or into close's log.       *)
Settle(q, exc) ==
    IF q.kind = "walk" THEN Goto(q, "body")
    ELSE IF q.kind = "close" THEN Goto(q, "leave")
    ELSE Throw(q, exc)

(* Mutant: the commit replays after every exception, and counts its replays*)
(* from the start again when it has spent them.                            *)
CommitAlwaysReplays(s, S, exc) ==
    LET r == Replay(S, FALSE)
    IN  IF r.exc = "none"
        THEN Becomes(s, r.S, r.t,
                     [req[s] EXCEPT !.pc = "flush",
                                    !.tries = (@ + 1) % (ReplayMax + 1)])
        ELSE Becomes(s, r.S, r.t, Settle(req[s], r.exc))

(* On a transient error the write set is replayed, MAX_RETRIES times; any  *)
(* other rolls back and is raised.                                         *)
CommitFails(s, S, exc) ==
    LET r == IF exc = "db" THEN Replay(S, req[s].tries >= ReplayMax)
             ELSE Raise(Rollback(S), NoTxn, exc)
    IN  IF r.exc = "none"
        THEN Becomes(s, r.S, r.t, [req[s] EXCEPT !.pc = "flush", !.tries = @ + 1])
        ELSE Becomes(s, r.S, r.t, Settle(req[s], r.exc))

FlushAll(s) ==
    LET r == IF ses[s].lost THEN Raise(ses[s], txn[s], "lost")
             ELSE Flush(s, Done(ses[s], txn[s]), TRUE)
    IN  /\ At(s, "flush")
        /\ IF r.exc = "none"
           THEN Becomes(s, r.S, r.t, Goto(req[s], "commit"))
           ELSE CommitFails(s, r.S, r.exc)
        /\ KeepTables
        /\ UNCHANGED <<advisory, faults>>

AfterKind == [walk |-> "body", final |-> "effects", outer |-> "exit",
              close |-> "leave"]

AfterCommit(s) ==
    LET S == LeaveQueue(Promote(ses[s]))
        q == Goto(req[s], AfterKind[req[s].kind])
    IN  /\ Becomes(s, IF InFlight(ses[s]) THEN RegisterWriters(S) ELSE S, NoTxn,
              [q EXCEPT !.committed = @ \/ q.kind = "final",
                        !.won   = IF q.kind = "final" THEN @ \cup {q.run} ELSE @,
                        !.saved = @ \/ InFlight(ses[s])])
        /\ advisory' = [advisory EXCEPT ![s] = {}]

CanCommit(s) ==
    /\ At(s, "commit")
    /\ ~txn[s].dead
    /\ txn[s].mode = "rw" => Serializable(txn[s])

SqlCommit(s) ==
    /\ CanCommit(s)
    /\ CommitTxn(s)
    /\ AfterCommit(s)
    /\ UNCHANGED faults

SqlCommitFails(s) ==
    /\ At(s, "commit") /\ ~CanCommit(s)
    /\ CommitFails(s, ses[s], "db")
    /\ KeepTables
    /\ UNCHANGED <<advisory, faults>>

-----------------------------------------------------------------------------
(* run_pending_effects and the outer commit                                *)

NoEffect(s) ==
    /\ At(s, "effects") /\ ~req[s].effect
    /\ Step(s, ses[s], txn[s],
            [req[s] EXCEPT !.pc = "flush", !.kind = "outer", !.tries = 0])

Fired(s) == [req[s] EXCEPT !.effect = FALSE, !.fired = @ + 1]

PlainEffect(s) ==
    /\ At(s, "effects") /\ req[s].effect
    /\ Step(s, ses[s], txn[s], Fired(s))

(* An effect that writes the graph.                                        *)
WritingEffect(s) ==
    /\ At(s, "effects") /\ req[s].effect /\ "effect_writes" \in Ops
    /\ Read(s, ses[s], "effect", Root, {Root})

EffectWrites(s) ==
    /\ Finds(s, {"effect"})
    /\ Step(s, Write(Loaded(s).S, Root, Tag(s)), Loaded(s).t,
            [Fired(s) EXCEPT !.pc = "effects", !.wset = @ \cup {Root}])

-----------------------------------------------------------------------------
(* unit_exit and the conflict loop                                         *)

(* unit_exit: a read-only retry the walker swallowed surfaces here; a lost  *)
(* transaction did in the outer commit, which left none open.              *)
UnitExit(s) ==
    LET S == [ses[s] EXCEPT !.unit = "none", !.raised = FALSE]
    IN  /\ At(s, "exit")
        /\ IF ses[s].raised
           THEN Step(s, Abort(S), NoTxn, Throw(req[s], "ro"))
           ELSE Step(s, S, txn[s], [req[s] EXCEPT !.pc = "close", !.answer = "ok"])

Reenter(S) ==
    IF S.unit = "none" THEN Unit(S) ELSE S

(* The attempt failed for good: its session is aborted, then left.         *)
Reply(s, answer) ==
    Step(s, [Abort(ses[s]) EXCEPT !.unit = "none", !.raised = FALSE], NoTxn,
         [req[s] EXCEPT !.pc = "close", !.answer = answer, !.effect = FALSE])

(* The attempt is given up and another one begins.                         *)
Rerun(s, S, pc, attempt) ==
    Step(s, Abort(Reenter(S)), NoTxn,
         [req[s] EXCEPT !.pc = pc, !.exc = "none", !.attempt = attempt,
                        !.roRetries = @ + (IF req[s].exc = "ro" THEN 1 ELSE 0),
                        !.committed = FALSE, !.effect = FALSE, !.ops = 0,
                        !.run = @ + 1, !.wset = {}, !.dset = {},
                        !.enqueued = FALSE, !.saved = FALSE])

Spent(s) == req[s].attempt >= MaxAttempts

HandleReadOnlyRetry(s) ==
    LET S == [ses[s] EXCEPT !.raised = FALSE]
        free == req[s].roRetries < 2
    IN  /\ At(s, "handler") /\ req[s].exc = "ro"
        /\ IF Spent(s) /\ ~free THEN Reply(s, "conflict")
           ELSE Rerun(s, S, "reload", req[s].attempt + (IF free THEN 0 ELSE 1))

HandleConflict(s) ==
    /\ At(s, "handler") /\ req[s].exc \in {"conflict", "lost"}
    /\ ~req[s].committed
    /\ IF Spent(s) THEN Reply(s, "conflict")
       ELSE Rerun(s, ses[s], "turn", req[s].attempt + 1)

HandleError(s) ==
    /\ At(s, "handler") /\ req[s].exc \in {"db", "app"}
    /\ ~req[s].committed
    /\ IF Spent(s) \/ req[s].exc = "app" THEN Reply(s, "error")
       ELSE Rerun(s, ses[s], "reload", req[s].attempt + 1)

HandleAfterCommit(s) ==
    /\ At(s, "handler") /\ req[s].exc # "ro"
    /\ req[s].committed
    /\ Reply(s, "failed_after_commit")

(* wait_turn: give back places held for other rows, queue for the rows the *)
(* attempt lost, if it knows them ...                                      *)
Held(s, W) == \E o \in Sessions \ {s} : advisory[o] \cap W # {}

NoTurn(s) ==
    /\ At(s, "turn") /\ ses[s].contended = {}
    /\ Step(s, ses[s], txn[s], Goto(req[s], "reload"))

LeavePlace(s) ==
    /\ At(s, "turn") /\ ses[s].contended # {}
    /\ ses[s].queued \notin {{}, ses[s].contended}
    /\ Becomes(s, [ses[s] EXCEPT !.queued = {}], txn[s], req[s])
    /\ advisory' = [advisory EXCEPT ![s] = {}]
    /\ KeepTables /\ UNCHANGED faults

TakeTurn(s) ==
    LET W == ses[s].contended
    IN  /\ At(s, "turn") /\ W # {}
        /\ \/ W = ses[s].queued
           \/ ses[s].queued = {} /\ ~Held(s, W)
        /\ Becomes(s, [ses[s] EXCEPT !.queued = W], txn[s], Goto(req[s], "pin"))
        /\ advisory' = IF W = ses[s].queued THEN advisory
                       ELSE [advisory EXCEPT ![s] = W]
        /\ KeepTables /\ UNCHANGED faults

TurnTimesOut(s) ==
    LET W == ses[s].contended
    IN  /\ At(s, "turn") /\ ses[s].queued = {} /\ Held(s, W)
        /\ Becomes(s, [ses[s] EXCEPT !.contended = {}], txn[s],
                   Goto(req[s], "reload"))
        /\ KeepTables /\ UNCHANGED <<advisory, faults>>

(* ... and lock them in the transaction the next attempt starts with.      *)
Pin(s) ==
    LET W == ses[s].queued
    IN  /\ At(s, "pin")
        /\ Step(s, ses[s],
                IF Blocked(s, W) THEN NoTxn ELSE LockRows(Begin("rw"), W),
                Goto(req[s], "reload"))

(* Each attempt but the first resolves the root again, inside the unit.    *)
Reload(s) == At(s, "reload") /\ Read(s, ses[s], "reload", Root, {Root})

Reloaded(s) ==
    /\ Loading(s, {"reload"}) /\ Ok(Loaded(s))
    /\ Step(s, Loaded(s).S, Loaded(s).t, Goto(req[s], "body"))

(* The request scope closes the session, which commits what is left.       *)
CloseSession(s) ==
    /\ At(s, "close")
    /\ Step(s, ses[s], txn[s],
            [req[s] EXCEPT !.pc = "flush", !.kind = "close", !.tries = 0])

LeaveSession(s) ==
    /\ At(s, "leave")
    /\ Becomes(s, NewSession, NoTxn, Goto(req[s], "answered"))
    /\ advisory' = [advisory EXCEPT ![s] = {}]
    /\ KeepTables /\ UNCHANGED faults

-----------------------------------------------------------------------------
(* The connection of a session breaks, between statements or in a COMMIT   *)
(* that the server has carried out and the client does not know about.     *)

ConnectionLost(s) ==
    /\ faults < MaxFaults
    /\ req[s].pc \in Pcs \ {"arrive", "answered"}
    /\ \/ txn[s].mode # "none" /\ ~txn[s].dead
       \/ advisory[s] # {}
    /\ DropConnection(s)
    /\ faults' = faults + 1
    /\ KeepTables
    /\ UNCHANGED <<ses, req>>

CommitUnanswered(s) ==
    /\ "unanswered" \in Ops
    /\ faults < MaxFaults
    /\ CanCommit(s) /\ txn[s].mode = "rw"
    /\ CommitTxn(s)
    /\ CommitFails(s, ses[s], "db")
    /\ advisory' = [advisory EXCEPT ![s] = {}]
    /\ faults' = faults + 1

-----------------------------------------------------------------------------
Walker(s) ==
    \/ Get(s) \/ FindChild(s)
    \/ ReadOp(s) \/ WriteOp(s) \/ MutateOp(s) \/ DeleteOp(s) \/ CreateOp(s)
    \/ FoundOp(s) \/ FindOrCreateOp(s) \/ FindOrCountOp(s)
    \/ EnqueueOp(s) \/ OnCommitOp(s) \/ WalkEnds(s) \/ FailOp(s)
    \/ Swallow(s) \/ Propagate(s) \/ Return(s)

Server(s) ==
    \/ BarrierAgain(s) \/ LoadFails(s)
    \/ Arrive(s) \/ ScopeLoaded(s) \/ ExitScope(s) \/ Open(s) \/ OpenUnit(s)
    \/ FlushAll(s) \/ SqlCommit(s) \/ SqlCommitFails(s)
    \/ NoEffect(s) \/ PlainEffect(s) \/ WritingEffect(s) \/ EffectWrites(s)
    \/ UnitExit(s) \/ HandleReadOnlyRetry(s) \/ HandleConflict(s)
    \/ HandleError(s) \/ HandleAfterCommit(s)
    \/ NoTurn(s) \/ LeavePlace(s) \/ TakeTurn(s) \/ TurnTimesOut(s) \/ Pin(s)
    \/ Reload(s) \/ Reloaded(s) \/ CloseSession(s) \/ LeaveSession(s)

Network(s) == ConnectionLost(s) \/ CommitUnanswered(s)

Terminated ==
    /\ \A s \in Sessions : At(s, "answered")
    /\ UNCHANGED vars

Next == \/ \E s \in Sessions : Walker(s) \/ Server(s) \/ Network(s)
        \/ Terminated

Spec == Init /\ [][Next]_vars

(* The event loop and the database serve every request.  The write queue   *)
(* is the only place where a request waits for another one; everywhere     *)
(* else one of its steps is enabled whatever the others do (a statement    *)
(* that meets a lock fails, it does not wait for ever), so weak fairness of*)
(* these steps is that they go on until the request waits or is answered.  *)
Queueing(s) ==
    NoTurn(s) \/ LeavePlace(s) \/ TakeTurn(s) \/ TurnTimesOut(s)

Served(s) ==
    /\ WF_vars(Queueing(s))
    /\ \/ <>[](At(s, "turn") \/ At(s, "answered"))
       \/ []<><<Walker(s) \/ Server(s)>>_vars

FairSpec == Spec /\ \A s \in Sessions : Served(s)

-----------------------------------------------------------------------------
TypeOK ==
    /\ StoreTypeOK
    /\ ses \in [Sessions -> Ses]
    /\ req \in [Sessions -> Req]
    /\ faults \in Nat

(* No commit drops what an earlier one saved in a row that stays: a row's   *)
(* new content includes its old one, whatever was replayed in between      *)
(* (the version check of PgStore.upsert and the ledger that feeds it).     *)
NoLostUpdate ==
    [][\A id \in Ids : Present(db[id]) /\ Present(db'[id])
                         => db[id].val \subseteq db'[id].val]_vars

StoredTags == outbox \cup UNION {db[id].val : id \in Ids}

(* An attempt that was given up leaves nothing behind, neither rows nor     *)
(* outbox entries.                                                         *)
GivenUp(s, n) == /\ n \notin req[s].won
                 /\ n < req[s].run \/ req[s].answer \in {"conflict", "error"}

LoserLeavesNothing == \A tag \in StoredTags : ~GivenUp(tag[1], tag[2])

Deleted(id) == \E s \in Sessions : id \in req[s].dset

(* A request answered ok has saved all its last attempt did: every row it   *)
(* wrote holds its write unless a request deleted the row, and its outbox  *)
(* entry is there.                                                         *)
OkIsWhole ==
    \A s \in Sessions : req[s].answer = "ok" =>
        /\ \A id \in req[s].wset : Tag(s) \in db[id].val \/ Deleted(id)
        /\ req[s].enqueued => Tag(s) \in outbox

(* The walker sees its own writes at every point of its body, across the    *)
(* flushes, replays, promotions and commits that happen under it.          *)
ReadsOwnWrites ==
    \A s \in Sessions : At(s, "body") =>
        \A id \in req[s].wset : id \in ses[s].cached /\ Tag(s) \in ses[s].mem[id]

(* Once an attempt has committed a write, no read-only retry re-runs it     *)
(* (Session.commit registers the unit as a writer at that commit).         *)
SavedIsNotRetried ==
    \A s \in Sessions :
        At(s, "handler") /\ req[s].exc = "ro" => ~req[s].saved

(* What COMMIT is sent for is what the ledger believes was written, row by  *)
(* row and version by version.                                             *)
LedgerMatchesTxn ==
    \A s \in Sessions : At(s, "commit") /\ ~txn[s].dead =>
        /\ txn[s].wrote \subseteq Upserted(ses[s]) \cup ses[s].rem
        /\ \A id \in Upserted(ses[s]) : txn[s].view[id] = ses[s].ups[id]

(* Once the answer is decided nothing is left that closing the session      *)
(* could still write.                                                      *)
NothingAfterAnswer ==
    \A s \in Sessions : req[s].answer # "none" =>
        /\ Unflushed(ses[s], TRUE) \cup ses[s].deleted = {}
        /\ ~InFlight(ses[s])
        /\ txn[s].mode = "none"

(* A session knows the places it holds in the write queue, so it gives each *)
(* of them back.                                                           *)
QueueKnown == \A s \in Sessions : advisory[s] = ses[s].queued

(* The effects a request registered run once, for the attempt that wins.   *)
EffectsOnce == \A s \in Sessions : req[s].fired <= 1

(* Racing find-or-creates leave one child.                                 *)
Converges == Cardinality({id \in Children : Present(db[id])}) <= 1

(* Every request is answered.                                              *)
EveryRequestAnswered == \A s \in Sessions : <>At(s, "answered")

(* Sessions, transactions, replays and re-runs implement units of work: the *)
(* whole of what an attempt did is saved at once, on top of what others     *)
(* saved, or it is given up and nothing of it is.                          *)
UnitOf(q) ==
    [n       |-> q.run,
     state   |-> IF q.answer # "none" THEN "answered"
                 ELSE IF q.saved THEN "saved" ELSE "running",
     writes  |-> q.wset,
     deletes |-> q.dset,
     joins   |-> q.enqueued]

Units     == [s \in Sessions |-> UnitOf(req[s])]
SavedRows == [id \in Ids |-> [there |-> Present(db[id]), val |-> db[id].val]]

UoW == INSTANCE UnitOfWork WITH
    rows <- SavedRows, entries <- outbox, unit <- Units

ImplementsUnitOfWork == UoW!Spec
=============================================================================
