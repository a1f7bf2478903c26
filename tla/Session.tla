------------------------------ MODULE Session ------------------------------
(***************************************************************************)
(* The persistence session of one request (jaclang/server/session.jac):    *)
(* the anchors it caches, the row ledger that says which version each of   *)
(* them has, and the rules by which it opens, promotes, replays and closes *)
(* transactions.  Each operation is a function from the session and its    *)
(* transaction to what both become and the exception it ends with:         *)
(*   "db"       an SQLSTATE _is_serialization_conflict takes as transient  *)
(*   "conflict" WriteConflict       "lost"  TransactionLost                *)
(*   "ro"       ReadOnlyRetry       "none"  no exception                   *)
(***************************************************************************)
EXTENDS PgStore

VARIABLE ses

Exceptions == {"none", "db", "conflict", "lost", "ro"}

Ses == [cached : SUBSET Ids,            \* __mem__
        mem    : [Ids -> SUBSET Tags],  \* the content of a cached anchor
        fresh  : SUBSET Ids,            \* _txn_gen is the session's
        dirty  : SUBSET Ids, deleted : SUBSET Ids,
        known  : [Ids -> Row],          \* RowLedger._committed
        ups    : [Ids -> Row],          \* RowLedger._upserted
        rem    : SUBSET Ids,            \* RowLedger._removed
        joined : BOOLEAN, lost : BOOLEAN,
        snap   : SUBSET Ids,            \* _snapshot_reads
        scope  : BOOLEAN,               \* _read_scopes > 0
        unit   : {"none", "ro", "rw"},  \* _active_units and _ro_units
        recorded : BOOLEAN,             \* unit_writes_recorded(key)
        raised : BOOLEAN,               \* _ro_retry_raised
        contended : SUBSET Ids, conflict : SUBSET Ids, queued : SUBSET Ids]

NewSession ==
    [cached |-> {}, mem |-> [id \in Ids |-> {}], fresh |-> {}, dirty |-> {},
     deleted |-> {}, known |-> NoRows, ups |-> NoRows, rem |-> {},
     joined |-> FALSE, lost |-> FALSE, snap |-> {}, scope |-> FALSE,
     unit |-> "none", recorded |-> FALSE, raised |-> FALSE, contended |-> {},
     conflict |-> {}, queued |-> {}]

(* An operation so far: what the session and its transaction have become,  *)
(* and the exception that ends it.  Each step leaves a failed one alone.   *)
Outcome == [S : Ses, t : Txn, exc : Exceptions]

Done(S, t)       == [S |-> S, t |-> t, exc |-> "none"]
Raise(S, t, exc) == [S |-> S, t |-> t, exc |-> exc]
Ok(r)            == r.exc = "none"
LostOr(S, t)     == IF S.lost THEN Raise(S, t, "lost") ELSE Done(S, t)

-----------------------------------------------------------------------------
(* RowLedger                                                               *)

Upserted(S) == {id \in Ids : Present(S.ups[id])}

Current(S, id) == IF id \in S.rem THEN Absent
                  ELSE IF Present(S.ups[id]) THEN S.ups[id] ELSE S.known[id]

(* Mutant: the version of a removed row is that of no row.                 *)
WriteVersionOfRemoved(S, id) == Current(S, id).ver

WriteVersion(S, id) ==
    IF id \in S.rem
    THEN IF Present(S.known[id]) THEN S.known[id].ver + 1 ELSE 0
    ELSE IF Present(Current(S, id)) THEN Current(S, id).ver ELSE 0

InFlight(S) == Upserted(S) # {} \/ S.rem # {} \/ S.joined

(* _commit_txn: the ledger's writes become the committed rows.             *)
Promote(S) ==
    [S EXCEPT !.known  = [id \in Ids |-> Current(S, id)],
              !.ups    = NoRows,
              !.rem    = {},
              !.joined = FALSE,
              !.fresh  = {}]

(* Mutants: the ledger keeps what the transaction upserted; a transaction  *)
(* that others joined is lost without a trace.                             *)
RollbackKeepsUpserts(S) ==
    [S EXCEPT !.lost    = @ \/ S.joined,
              !.dirty   = @ \cup (Upserted(S) \cap S.cached),
              !.deleted = @ \cup (S.rem \ S.cached),
              !.rem     = {},
              !.joined  = FALSE,
              !.fresh   = {}]

RollbackForgetsJoin(S) ==
    [S EXCEPT !.dirty   = @ \cup (Upserted(S) \cap S.cached),
              !.deleted = @ \cup (S.rem \ S.cached),
              !.ups     = NoRows,
              !.rem     = {},
              !.joined  = FALSE,
              !.fresh   = {}]

(* _rollback_txn: what the transaction wrote is unwritten again.           *)
Rollback(S) ==
    [S EXCEPT !.lost    = @ \/ S.joined,
              !.dirty   = @ \cup (Upserted(S) \cap S.cached),
              !.deleted = @ \cup (S.rem \ S.cached),
              !.ups     = NoRows,
              !.rem     = {},
              !.joined  = FALSE,
              !.fresh   = {}]

-----------------------------------------------------------------------------
(* The cache                                                               *)

Forget(S, F) ==
    [S EXCEPT !.cached = @ \ F,
              !.mem    = [id \in Ids |-> IF id \in F THEN {} ELSE @[id]],
              !.fresh  = @ \ F,
              !.known  = [id \in Ids |-> IF id \in F THEN Absent ELSE @[id]]]

DropSnapshotReads(S) ==
    [Forget(S, S.snap \ (S.dirty \cup S.deleted)) EXCEPT !.snap = {}]

(* Mutant: an anchor changed in place expires like any other.              *)
ExpiredUnhashed(S, id) == id \notin S.fresh /\ id \notin S.dirty

(* An anchor read by an earlier transaction and not changed since.         *)
Expired(S, id) ==
    /\ id \notin S.fresh
    /\ id \notin S.dirty
    /\ \/ ~Present(Current(S, id))
       \/ S.mem[id] = Current(S, id).val

Hit(S, id) == id \in S.cached /\ ~Expired(S, id)

(* put, mark_dirty, an assignment no setattr sees, and delete              *)
Put(S, id, tag) == [S EXCEPT !.cached = @ \cup {id}, !.mem[id] = {tag},
                             !.dirty = @ \cup {id}, !.deleted = @ \ {id}]

Write(S, id, tag)  == [S EXCEPT !.mem[id] = @ \cup {tag},
                                !.dirty = @ \cup {id}]

Mutate(S, id, tag) == [S EXCEPT !.mem[id] = @ \cup {tag}]

DeleteAnchor(S, id) ==
    [S EXCEPT !.cached = @ \ {id}, !.mem[id] = {}, !.fresh = @ \ {id},
              !.dirty = @ \ {id}, !.deleted = @ \cup {id}]

Unflushed(S, full) ==
    {id \in S.cached : \/ id \in S.dirty
                       \/ full /\ \/ ~Present(Current(S, id))
                                  \/ Current(S, id).val # S.mem[id]}

(* _materialize: a loaded row replaces the cached anchor unless that one   *)
(* is dirty or of the same version.                                        *)
Materialize(S, t, L) ==
    LET keep == {id \in L \cap S.cached :
                    \/ id \in S.dirty
                    \/ ~Present(Current(S, id))
                    \/ Current(S, id).ver = t.view[id].ver}
        new  == L \ keep
    IN  [S EXCEPT
            !.cached = @ \cup new,
            !.mem    = [id \in Ids |-> IF id \in new THEN t.view[id].val
                                                     ELSE @[id]],
            !.ups    = [id \in Ids |-> IF id \in new /\ Present(@[id])
                                       THEN t.view[id] ELSE @[id]],
            !.known  = [id \in Ids |-> IF id \in new /\ ~Present(S.ups[id])
                                       THEN t.view[id] ELSE @[id]],
            !.fresh  = @ \cup L,
            !.snap   = IF t.mode = "ro" THEN @ \cup new ELSE @]

-----------------------------------------------------------------------------
(* Opening, promoting and giving up transactions                           *)

(* Mutant: a commit does not tell the registry that the unit writes.       *)
RegistersNoWriter(S) == S

(* A unit that wrote is recorded, and is no longer a read-only unit.       *)
RegisterWriters(S) ==
    IF S.unit = "ro" THEN [S EXCEPT !.unit = "rw", !.recorded = TRUE] ELSE S

(* A transaction that went away under uncommitted writes.                  *)
Reclaim(r) ==
    IF Ok(r) /\ InFlight(r.S) /\ r.t.mode = "none"
    THEN LostOr(Rollback(r.S), r.t) ELSE r

Isolation(S) ==
    IF /\ S.dirty \cup S.deleted = {}
       /\ (S.scope /\ S.unit = "none") \/ S.unit = "ro"
    THEN "ro" ELSE "rw"

(* A read-only unit about to write gives up: it is re-run as a writer.     *)
RaiseReadOnlyRetry(S) ==
    Raise([Rollback(RegisterWriters(S)) EXCEPT !.raised = TRUE], NoTxn, "ro")

Promoted(r) ==
    IF ~Ok(r) \/ r.t.mode = "rw" THEN r
    ELSE IF r.t.mode = "none" THEN Done(r.S, Begin("rw"))
    ELSE IF r.S.unit = "ro" THEN RaiseReadOnlyRetry(r.S)
    ELSE IF r.t.dead THEN Raise(r.S, NoTxn, "db")
    ELSE Done(DropSnapshotReads(Promote(r.S)), Begin("rw"))

BeginWritable(r) ==
    IF Ok(r) /\ r.S.raised THEN Raise(r.S, r.t, "ro") ELSE Promoted(Reclaim(r))

Opened(r) ==
    IF ~Ok(r) THEN r
    ELSE IF r.t.mode = "none" THEN Done(r.S, Begin(Isolation(r.S)))
    ELSE IF Isolation(r.S) = "rw" THEN BeginWritable(r)
    ELSE r

EnsureTxn(r) == Opened(Reclaim(r))

(* ensure_writable_txn, then the INSERT of the outbox entry that joins.    *)
Joined(r, tag) ==
    IF ~Ok(r) THEN r
    ELSE IF r.t.dead THEN Raise([r.S EXCEPT !.joined = TRUE], NoTxn, "db")
    ELSE Done([r.S EXCEPT !.joined = TRUE], [r.t EXCEPT !.out = @ \cup {tag}])

Join(r, tag) == Joined(BeginWritable(r), tag)

(* A statement met a lock another transaction holds until its timeout.  In *)
(* the write queue the error stands, outside it is a conflict over W.      *)
LockTimeout(S, W) ==
    IF S.queued # {} THEN Raise(S, NoTxn, "db")
    ELSE Raise([S EXCEPT !.conflict = W], NoTxn, "conflict")

-----------------------------------------------------------------------------
(* Flushing                                                                *)

RowOf(S, id)    == [ver |-> WriteVersion(S, id), val |-> S.mem[id]]
Rows(S)         == [id \in Ids |-> RowOf(S, id)]
Stale(S, t, U)  == {id \in U : ~Lands(t, id, RowOf(S, id))}

Written(S, after, U) ==
    [S EXCEPT !.rem = @ \ U,
              !.ups = [id \in Ids |-> IF id \in U THEN after.view[id]
                                                  ELSE @[id]]]

FlushRows(s, r, U) ==
    IF ~Ok(r) \/ U = {} THEN r
    ELSE IF r.t.dead THEN Raise(r.S, NoTxn, "db")
    ELSE IF Blocked(s, U) THEN LockTimeout(r.S, U)
    ELSE IF UpsertFails(r.t, U) THEN Raise(r.S, NoTxn, "db")
    ELSE IF Stale(r.S, r.t, U) # {}
    THEN Raise([r.S EXCEPT !.conflict = {CHOOSE id \in Stale(r.S, r.t, U) : TRUE}],
               Upsert(r.t, Rows(r.S), U), "conflict")
    ELSE Done(Written(r.S, Upsert(r.t, Rows(r.S), U), U),
              Upsert(r.t, Rows(r.S), U))

Removed(S) ==
    [S EXCEPT !.ups = [id \in Ids |-> IF id \in S.deleted THEN Absent
                                                          ELSE @[id]],
              !.rem = @ \cup S.deleted,
              !.deleted = {}]

FlushDeletes(s, r) ==
    IF ~Ok(r) \/ r.S.deleted = {} THEN r
    ELSE IF r.t.dead THEN Raise(r.S, NoTxn, "db")
    ELSE IF Blocked(s, {id \in r.S.deleted : Present(r.t.view[id])})
    THEN LockTimeout(r.S, r.S.deleted)
    ELSE IF DeleteFails(r.t, r.S.deleted) THEN Raise(r.S, NoTxn, "db")
    ELSE Done(Removed(r.S), Delete(r.t, r.S.deleted))

Writable(r, U) == IF Ok(r) /\ U \cup r.S.deleted # {} THEN BeginWritable(r) ELSE r

Flushed(r) == IF Ok(r) THEN Done([r.S EXCEPT !.dirty = {}], r.t) ELSE r

FlushThe(s, r, U) == Flushed(FlushDeletes(s, FlushRows(s, Writable(r, U), U)))

FlushLocked(s, r, full) ==
    IF Ok(r) THEN FlushThe(s, r, Unflushed(r.S, full)) ELSE r

Flush(s, r, full) == FlushLocked(s, Reclaim(r), full)

(* _replay_txn: only the writes are kept, for the next transaction.        *)
Replay(S, exhausted) ==
    LostOr([Rollback(S) EXCEPT !.lost = @ \/ exhausted], NoTxn)

-----------------------------------------------------------------------------
(* Reading: batch_get takes what is cached and not expired, and reads the  *)
(* rest from the store behind a read barrier.                              *)

Missing(S, L) == {id \in L \ S.deleted : ~Hit(S, id)}

ReadBarrier(s, r) == Flush(s, EnsureTxn(r), FALSE)

LoadFull(r, L) ==
    IF ~Ok(r) THEN r
    ELSE IF r.t.dead THEN Raise(r.S, NoTxn, "db")
    ELSE Done(Materialize(r.S, r.t, {id \in L : Present(r.t.view[id])}),
              Reading(r.t, L))

-----------------------------------------------------------------------------
(* Aborting                                                                *)

(* Mutant: the deletions of the failed attempt stay queued.                *)
AbortKeepsDeletions(S) ==
    LET R == Rollback(S)
    IN  [Forget(R, R.cached) EXCEPT
            !.dirty = {}, !.snap = {}, !.lost = FALSE,
            !.contended = @ \cup S.conflict, !.conflict = {}]

(* abort: every anchor of the failed attempt is forgotten, and the rows it *)
(* lost to another writer are those to queue for.                          *)
Abort(S) ==
    LET R == Rollback(S)
    IN  [Forget(R, R.cached) EXCEPT
            !.dirty = {}, !.deleted = {}, !.snap = {}, !.lost = FALSE,
            !.contended = @ \cup S.conflict, !.conflict = {}]

(* Mutant: the session goes on believing it holds its place.               *)
LeaveQueueKeepsPlace(S) == [S EXCEPT !.contended = {}, !.conflict = {}]

LeaveQueue(S) ==
    [S EXCEPT !.contended = {}, !.conflict = {}, !.queued = {}]
=============================================================================
