--------------------------- MODULE RequestProofs ---------------------------
(***************************************************************************)
(* What holds of requests for any number of sessions, anchors, operations, *)
(* attempts, replays and faults.  First what every operation of a session  *)
(* preserves: the types of the session and of its transaction, the places  *)
(* it holds in the write queue, and the fact that a unit which is not on   *)
(* the read tier stays off it and is never told to retry as a writer; then *)
(* the types of every step of a request.                                   *)
(***************************************************************************)
EXTENDS Request, TLAPS

(* A session no operation of which ends in ReadOnlyRetry.                  *)
Writer(S) == S.unit # "ro" /\ ~S.raised

(* r is what some operations made of a session that was O.                 *)
From(O, r) == /\ r \in Outcome
              /\ r.S.queued = O.queued
              /\ Writer(O) => Writer(r.S) /\ r.exc # "ro"

(* R is what a change that raises nothing made of a session that was S.    *)
Keeps(S, R) == /\ R \in Ses
               /\ R.queued = S.queued
               /\ Writer(S) => Writer(R)

StoreReady == db \in [Ids -> Row] /\ clock \in Nat

-----------------------------------------------------------------------------
(* Rows and transactions                                                   *)

LEMMA AbsentType == Absent \in Row /\ NoRows \in [Ids -> Row]
  BY DEF Row, NoRows

LEMMA PresentVersion == ASSUME NEW r \in Row, Present(r)
                        PROVE  r \in [ver : Nat, val : SUBSET Tags]
  BY DEF Row, Absent, Present

LEMMA NoTxnType == NoTxn \in Txn
  BY AbsentType DEF NoTxn, Txn

LEMMA BeginType == ASSUME StoreReady, NEW mode \in {"none", "rw", "ro"}
                   PROVE  Begin(mode) \in Txn
  BY NoTxnType DEF Begin, StoreReady, Txn, NoTxn

LEMMA ReadingType == ASSUME NEW t \in Txn, NEW L \in SUBSET Ids
                     PROVE  Reading(t, L) \in Txn
  BY DEF Reading, Txn

LEMMA LandedType ==
    ASSUME NEW t \in Txn, NEW id \in Ids, NEW row \in [ver : Nat, val : SUBSET Tags]
    PROVE  Landed(t, id, row) \in Row
  BY DEF Landed, Row

LEMMA UpsertType ==
    ASSUME NEW t \in Txn, NEW U \in SUBSET Ids,
           NEW rows \in [Ids -> [ver : Nat, val : SUBSET Tags]]
    PROVE  Upsert(t, rows, U) \in Txn
<1> DEFINE landing == {id \in U : Lands(t, id, rows[id])}
           view == [id \in Ids |-> IF id \in landing THEN Landed(t, id, rows[id])
                                                     ELSE t.view[id]]
<1>1. view \in [Ids -> Row]
  BY LandedType DEF Txn
<1>2. /\ t.wrote \cup landing \in SUBSET Ids
      /\ t.locked \cup U \in SUBSET Ids
  BY DEF Txn
<1>3. Upsert(t, rows, U) = [t EXCEPT !.view = view, !.wrote = @ \cup landing,
                                     !.locked = @ \cup U]
  BY DEF Upsert
<1> HIDE DEF landing, view
<1> QED
  BY <1>1, <1>2, <1>3 DEF Txn

LEMMA DeleteType == ASSUME NEW t \in Txn, NEW D \in SUBSET Ids
                    PROVE  Delete(t, D) \in Txn
<1> DEFINE gone == {id \in D : Present(t.view[id])}
           view == [id \in Ids |-> IF id \in D THEN Absent ELSE t.view[id]]
<1>1. view \in [Ids -> Row] /\ gone \in SUBSET Ids
  BY AbsentType DEF Txn
<1>2. PICK R \in Txn : R = Reading(t, D)
  BY ReadingType
<1>3. Delete(t, D) = [R EXCEPT !.view = view, !.wrote = @ \cup gone,
                               !.locked = @ \cup gone]
  BY <1>2 DEF Delete
<1>4. /\ R.wrote \cup gone \in SUBSET Ids
      /\ R.locked \cup gone \in SUBSET Ids
  BY <1>1, <1>2 DEF Txn
<1> HIDE DEF gone, view
<1> QED
  BY <1>1, <1>2, <1>3, <1>4 DEF Txn

LEMMA LockRowsType == ASSUME NEW t \in Txn, NEW W \in SUBSET Ids
                      PROVE  LockRows(t, W) \in Txn
  BY ReadingType DEF LockRows, Txn

-----------------------------------------------------------------------------
(* The row ledger and the cache                                            *)

LEMMA NewSessionType == NewSession \in Ses /\ Writer(NewSession)
  BY AbsentType DEF NewSession, Ses, Writer

LEMMA CurrentType == ASSUME NEW S \in Ses, NEW id \in Ids
                     PROVE  Current(S, id) \in Row
  BY AbsentType DEF Current, Ses

LEMMA WriteVersionType == ASSUME NEW S \in Ses, NEW id \in Ids
                          PROVE  WriteVersion(S, id) \in Nat
<1>1. Present(S.known[id]) => S.known[id].ver \in Nat
  BY PresentVersion DEF Ses
<1>2. Present(Current(S, id)) => Current(S, id).ver \in Nat
  BY CurrentType, PresentVersion
<1> QED
  BY <1>1, <1>2 DEF WriteVersion

LEMMA RowsType == ASSUME NEW S \in Ses
                  PROVE  Rows(S) \in [Ids -> [ver : Nat, val : SUBSET Tags]]
  BY WriteVersionType DEF Rows, RowOf, Ses

LEMMA PromoteKeeps == ASSUME NEW S \in Ses PROVE Keeps(S, Promote(S))
<1> DEFINE current == [id \in Ids |-> Current(S, id)]
<1>1. current \in [Ids -> Row]
  BY CurrentType
<1>2. Promote(S) = [S EXCEPT !.known = current, !.ups = NoRows, !.rem = {},
                             !.joined = FALSE, !.fresh = {}]
  BY DEF Promote
<1> HIDE DEF current
<1> QED
  BY <1>1, <1>2, AbsentType, ZenonT(60) DEF Ses, Keeps, Writer

LEMMA RollbackKeeps == ASSUME NEW S \in Ses PROVE Keeps(S, Rollback(S))
  BY AbsentType, ZenonT(40) DEF Rollback, Ses, Keeps, Writer

LEMMA ForgetKeeps == ASSUME NEW S \in Ses, NEW F \in SUBSET Ids
                     PROVE  Keeps(S, Forget(S, F))
  BY AbsentType DEF Forget, Ses, Keeps, Writer

LEMMA DropSnapshotReadsKeeps ==
    ASSUME NEW S \in Ses PROVE Keeps(S, DropSnapshotReads(S))
<1>1. S.snap \ (S.dirty \cup S.deleted) \in SUBSET Ids
  BY DEF Ses
<1>2. PICK F \in Ses : F = Forget(S, S.snap \ (S.dirty \cup S.deleted)) /\ Keeps(S, F)
  BY <1>1, ForgetKeeps DEF Keeps
<1>3. DropSnapshotReads(S) = [F EXCEPT !.snap = {}]
  BY <1>2 DEF DropSnapshotReads
<1> QED
  BY <1>2, <1>3 DEF Ses, Keeps, Writer

LEMMA MaterializeKeeps ==
    ASSUME NEW S \in Ses, NEW t \in Txn, NEW L \in SUBSET Ids,
           \A id \in L : Present(t.view[id])
    PROVE  Keeps(S, Materialize(S, t, L))
<1> DEFINE keep == {id \in L \cap S.cached :
                      \/ id \in S.dirty
                      \/ ~Present(Current(S, id))
                      \/ Current(S, id).ver = t.view[id].ver}
           new  == L \ keep
           mem  == [id \in Ids |-> IF id \in new THEN t.view[id].val
                                   ELSE S.mem[id]]
           ups  == [id \in Ids |-> IF id \in new /\ Present(S.ups[id])
                                   THEN t.view[id] ELSE S.ups[id]]
           known == [id \in Ids |-> IF id \in new /\ ~Present(S.ups[id])
                                    THEN t.view[id] ELSE S.known[id]]
           snap == IF t.mode = "ro" THEN S.snap \cup new ELSE S.snap
<1>1. \A id \in new : t.view[id] \in Row /\ t.view[id].val \in SUBSET Tags
  BY PresentVersion DEF Txn
<1>2. /\ mem \in [Ids -> SUBSET Tags]
      /\ ups \in [Ids -> Row]
      /\ known \in [Ids -> Row]
  BY <1>1 DEF Ses
<1>3. snap \in SUBSET Ids /\ S.cached \cup new \in SUBSET Ids
      /\ S.fresh \cup L \in SUBSET Ids
  BY DEF Ses
<1>4. Materialize(S, t, L) =
        [S EXCEPT !.cached = @ \cup new, !.mem = mem, !.ups = ups,
                  !.known = known, !.fresh = @ \cup L, !.snap = snap]
  BY DEF Materialize, Ses
<1> HIDE DEF new, mem, ups, known, snap
<1> QED
  BY <1>2, <1>3, <1>4, ZenonT(60) DEF Ses, Keeps, Writer

LEMMA WriteKeeps ==
    ASSUME NEW S \in Ses, NEW id \in Ids, NEW tag \in Tags
    PROVE  /\ Keeps(S, Put(S, id, tag))
           /\ Keeps(S, Write(S, id, tag))
           /\ Keeps(S, Mutate(S, id, tag))
           /\ Keeps(S, DeleteAnchor(S, id))
<1>1. /\ [S.mem EXCEPT ![id] = {tag}] \in [Ids -> SUBSET Tags]
      /\ [S.mem EXCEPT ![id] = @ \cup {tag}] \in [Ids -> SUBSET Tags]
      /\ [S.mem EXCEPT ![id] = {}] \in [Ids -> SUBSET Tags]
  BY DEF Ses
<1>2. Keeps(S, Put(S, id, tag))
  BY <1>1 DEF Put, Ses, Keeps, Writer
<1>3. Keeps(S, Write(S, id, tag))
  BY <1>1 DEF Write, Ses, Keeps, Writer
<1>4. Keeps(S, Mutate(S, id, tag))
  BY <1>1 DEF Mutate, Ses, Keeps, Writer
<1>5. Keeps(S, DeleteAnchor(S, id))
  BY <1>1 DEF DeleteAnchor, Ses, Keeps, Writer
<1> QED
  BY <1>2, <1>3, <1>4, <1>5

LEMMA ClearedType ==
    ASSUME NEW F \in Ses, NEW C \in SUBSET Ids
    PROVE  [F EXCEPT !.dirty = {}, !.deleted = {}, !.snap = {}, !.lost = FALSE,
                     !.contended = C, !.conflict = {}] \in Ses
  BY DEF Ses

LEMMA AbortKeeps == ASSUME NEW S \in Ses PROVE Keeps(S, Abort(S))
<1>1. PICK R \in Ses : R = Rollback(S) /\ Keeps(S, R)
  BY RollbackKeeps DEF Keeps
<1>2. PICK F \in Ses : F = Forget(R, R.cached) /\ Keeps(R, F)
  BY <1>1, ForgetKeeps DEF Ses, Keeps
<1>3. Abort(S) = [F EXCEPT !.dirty = {}, !.deleted = {}, !.snap = {},
                           !.lost = FALSE, !.contended = @ \cup S.conflict,
                           !.conflict = {}]
  BY <1>1, <1>2 DEF Abort
<1>4. PICK C \in SUBSET Ids : C = F.contended \cup S.conflict
  BY <1>2 DEF Ses
<1>5. Abort(S) = [F EXCEPT !.dirty = {}, !.deleted = {}, !.snap = {},
                           !.lost = FALSE, !.contended = C, !.conflict = {}]
  BY <1>2, <1>3, <1>4 DEF Ses
<1>6. F \in Ses /\ C \in SUBSET Ids
  BY <1>2, <1>4
<1>7. Abort(S) \in Ses
  BY <1>6, <1>5, ClearedType
<1>8. Abort(S).queued = F.queued /\ (Writer(F) => Writer(Abort(S)))
  BY <1>2, <1>3 DEF Ses, Writer
<1> QED
  BY <1>1, <1>2, <1>7, <1>8 DEF Keeps

-----------------------------------------------------------------------------
(* Outcomes                                                                *)

(* A step from a good outcome to one that ends in nothing worse than an    *)
(* error of the database.                                                  *)
LEMMA FromRaise ==
    ASSUME NEW O, NEW r, From(O, r), NEW S \in Ses, Keeps(r.S, S),
           NEW t \in Txn, NEW e \in Exceptions \ {"ro"}
    PROVE  From(O, Raise(S, t, e))
  BY DEF From, Keeps, Raise, Outcome, Exceptions

LEMMA FromDone ==
    ASSUME NEW O, NEW r, From(O, r), NEW S \in Ses, Keeps(r.S, S), NEW t \in Txn
    PROVE  From(O, Done(S, t))
  BY DEF From, Keeps, Done, Outcome, Exceptions

LEMMA FromParts ==
    ASSUME NEW O, NEW r, From(O, r)
    PROVE  r.S \in Ses /\ r.t \in Txn /\ Keeps(r.S, r.S)
  BY DEF From, Keeps, Outcome

LEMMA FromSelf == ASSUME NEW S \in Ses, NEW t \in Txn PROVE From(S, Done(S, t))
  BY DEF From, Done, Outcome, Exceptions

LEMMA FromSelfRaise ==
    ASSUME NEW S \in Ses, NEW t \in Txn, NEW e \in Exceptions \ {"ro"}
    PROVE  From(S, Raise(S, t, e))
  BY DEF From, Raise, Outcome

LEMMA LostOrFrom ==
    ASSUME NEW O, NEW r, From(O, r), NEW S \in Ses, Keeps(r.S, S), NEW t \in Txn
    PROVE  From(O, LostOr(S, t))
  BY FromDone, FromRaise DEF LostOr, Exceptions

LEMMA ReclaimFrom == ASSUME NEW O, NEW r, From(O, r) PROVE From(O, Reclaim(r))
<1>1. Rollback(r.S) \in Ses /\ Keeps(r.S, Rollback(r.S))
  BY FromParts, RollbackKeeps DEF Keeps
<1> QED
  BY <1>1, FromParts, LostOrFrom DEF Reclaim

LEMMA RegisterWritersType ==
    ASSUME NEW S \in Ses
    PROVE  /\ RegisterWriters(S) \in Ses
           /\ RegisterWriters(S).queued = S.queued
           /\ Writer(S) => Writer(RegisterWriters(S))
           /\ RegisterWriters(S).raised = S.raised
  BY DEF RegisterWriters, Ses, Writer

LEMMA RaiseReadOnlyRetryType ==
    ASSUME NEW S \in Ses
    PROVE  /\ RaiseReadOnlyRetry(S) \in Outcome
           /\ RaiseReadOnlyRetry(S).S.queued = S.queued
<1>1. RegisterWriters(S) \in Ses /\ RegisterWriters(S).queued = S.queued
  BY RegisterWritersType
<1>2. PICK R : R = Rollback(RegisterWriters(S))
  OBVIOUS
<1>3. R \in Ses /\ R.queued = S.queued
  BY <1>1, <1>2, RollbackKeeps DEF Keeps
<1>4. [R EXCEPT !.raised = TRUE] \in Ses /\ [R EXCEPT !.raised = TRUE].queued = R.queued
  BY <1>3 DEF Ses
<1> QED
  BY <1>2, <1>3, <1>4, NoTxnType DEF RaiseReadOnlyRetry, Raise, Outcome, Exceptions

(* Promotion raises ReadOnlyRetry for a unit on the read tier only.        *)
LEMMA PromotedFrom ==
    ASSUME StoreReady, NEW O, NEW r, From(O, r) PROVE From(O, Promoted(r))
<1>1. r.S \in Ses /\ r.t \in Txn /\ Keeps(r.S, r.S)
  BY FromParts
<1>2. Begin("rw") \in Txn
  BY BeginType
<1>3. CASE r.S.unit = "ro" /\ Promoted(r) = RaiseReadOnlyRetry(r.S)
  BY <1>1, <1>3, RaiseReadOnlyRetryType DEF From, Writer
<1>4. PICK P : P = Promote(r.S)
  OBVIOUS
<1>5. P \in Ses /\ Keeps(r.S, P)
  BY <1>1, <1>4, PromoteKeeps DEF Keeps
<1>6. DropSnapshotReads(P) \in Ses /\ Keeps(r.S, DropSnapshotReads(P))
  BY <1>5, DropSnapshotReadsKeeps DEF Keeps
<1>7. CASE Promoted(r) = Done(DropSnapshotReads(Promote(r.S)), Begin("rw"))
  BY <1>2, <1>4, <1>6, <1>7, FromDone
<1>8. CASE Promoted(r) = Done(r.S, Begin("rw"))
  BY <1>1, <1>2, <1>8, FromDone
<1>9. CASE Promoted(r) = Raise(r.S, NoTxn, "db")
  BY <1>1, <1>9, NoTxnType, FromRaise DEF Exceptions
<1> QED
  BY <1>3, <1>7, <1>8, <1>9 DEF Promoted

LEMMA BeginWritableFrom ==
    ASSUME StoreReady, NEW O, NEW r, From(O, r) PROVE From(O, BeginWritable(r))
<1>1. CASE Ok(r) /\ r.S.raised
  BY <1>1 DEF BeginWritable, From, Raise, Outcome, Exceptions, Writer
<1>2. CASE ~(Ok(r) /\ r.S.raised)
  BY <1>2, ReclaimFrom, PromotedFrom DEF BeginWritable
<1> QED
  BY <1>1, <1>2

LEMMA EnsureTxnFrom ==
    ASSUME StoreReady, NEW O, NEW r, From(O, r) PROVE From(O, EnsureTxn(r))
<1>1. ASSUME NEW q, From(O, q) PROVE From(O, Opened(q))
  <2>1. Begin(Isolation(q.S)) \in Txn
    BY BeginType DEF Isolation
  <2>2. From(O, Done(q.S, Begin(Isolation(q.S))))
    BY <1>1, <2>1, FromParts, FromDone
  <2> QED
    BY <1>1, <2>2, BeginWritableFrom DEF Opened
<1> QED
  BY <1>1, ReclaimFrom DEF EnsureTxn

LEMMA JoinFrom ==
    ASSUME StoreReady, NEW O, NEW r, From(O, r), NEW tag \in Tags
    PROVE  From(O, Join(r, tag))
<1>1. PICK q : q = BeginWritable(r)
  OBVIOUS
<1>2. From(O, q) /\ q.S \in Ses /\ q.t \in Txn
  BY <1>1, BeginWritableFrom, FromParts
<1>3. PICK J : J = [q.S EXCEPT !.joined = TRUE]
  OBVIOUS
<1>4. J \in Ses /\ Keeps(q.S, J)
  BY <1>2, <1>3 DEF Ses, Keeps, Writer
<1>5. [q.t EXCEPT !.out = @ \cup {tag}] \in Txn
  BY <1>2 DEF Txn
<1>6. From(O, Raise(J, NoTxn, "db")) /\ From(O, Done(J, [q.t EXCEPT !.out = @ \cup {tag}]))
  BY <1>2, <1>4, <1>5, NoTxnType, FromRaise, FromDone DEF Exceptions
<1> QED
  BY <1>1, <1>2, <1>3, <1>6 DEF Join, Joined

-----------------------------------------------------------------------------
(* Flushing and reading                                                    *)

LEMMA LockTimeoutFrom ==
    ASSUME NEW O, NEW r, From(O, r), NEW W \in SUBSET Ids
    PROVE  From(O, LockTimeout(r.S, W))
<1>1. r.S \in Ses /\ r.t \in Txn /\ Keeps(r.S, r.S)
  BY FromParts
<1>2. PICK C : C = [r.S EXCEPT !.conflict = W]
  OBVIOUS
<1>3. C \in Ses /\ Keeps(r.S, C)
  BY <1>1, <1>2 DEF Ses, Keeps, Writer
<1> QED
  BY <1>1, <1>2, <1>3, NoTxnType, FromRaise DEF LockTimeout, Exceptions

LEMMA WrittenKeeps ==
    ASSUME NEW S \in Ses, NEW after \in Txn, NEW U \in SUBSET Ids
    PROVE  Written(S, after, U) \in Ses /\ Keeps(S, Written(S, after, U))
<1>1. PICK ups : ups = [id \in Ids |-> IF id \in U THEN after.view[id] ELSE S.ups[id]]
  OBVIOUS
<1>2. ups \in [Ids -> Row] /\ S.rem \ U \in SUBSET Ids
  BY <1>1 DEF Ses, Txn
<1>3. Written(S, after, U) = [S EXCEPT !.rem = @ \ U, !.ups = ups]
  BY <1>1 DEF Written, Ses
<1> QED
  BY <1>2, <1>3 DEF Ses, Keeps, Writer

LEMMA FlushRowsFrom ==
    ASSUME NEW O, NEW r, From(O, r), NEW U \in SUBSET Ids, NEW s
    PROVE  From(O, FlushRows(s, r, U))
<1>1. r.S \in Ses /\ r.t \in Txn /\ Keeps(r.S, r.S)
  BY FromParts
<1>2. PICK T : T = Upsert(r.t, Rows(r.S), U)
  OBVIOUS
<1>3. T \in Txn
  BY <1>1, <1>2, UpsertType, RowsType
<1>4. From(O, Raise(r.S, NoTxn, "db"))
  BY <1>1, NoTxnType, FromRaise DEF Exceptions
<1>5. From(O, LockTimeout(r.S, U))
  BY LockTimeoutFrom
<1>6. PICK W : W = Written(r.S, T, U)
  OBVIOUS
<1>7. From(O, Done(W, T))
  <2>1. W \in Ses /\ Keeps(r.S, W)
    BY <1>1, <1>3, <1>6, WrittenKeeps
  <2> QED
    BY <1>3, <2>1, FromDone
<1>8. ASSUME Stale(r.S, r.t, U) # {}
      PROVE  From(O, Raise([r.S EXCEPT !.conflict =
                              {CHOOSE id \in Stale(r.S, r.t, U) : TRUE}], T, "conflict"))
  <2>1. PICK c : c = CHOOSE id \in Stale(r.S, r.t, U) : TRUE
    OBVIOUS
  <2>2. c \in Ids
    BY <1>8, <2>1 DEF Stale
  <2>3. PICK C : C = [r.S EXCEPT !.conflict = {c}]
    OBVIOUS
  <2>4. C \in Ses /\ Keeps(r.S, C)
    BY <1>1, <2>2, <2>3 DEF Ses, Keeps, Writer
  <2> QED
    BY <1>3, <2>1, <2>3, <2>4, FromRaise DEF Exceptions
<1> QED
  BY <1>2, <1>4, <1>5, <1>6, <1>7, <1>8 DEF FlushRows

LEMMA RemovedKeeps ==
    ASSUME NEW S \in Ses PROVE Removed(S) \in Ses /\ Keeps(S, Removed(S))
<1>1. PICK ups : ups = [id \in Ids |-> IF id \in S.deleted THEN Absent ELSE S.ups[id]]
  OBVIOUS
<1>2. ups \in [Ids -> Row] /\ S.rem \cup S.deleted \in SUBSET Ids
  BY <1>1, AbsentType DEF Ses
<1>3. Removed(S) = [S EXCEPT !.ups = ups, !.rem = @ \cup S.deleted, !.deleted = {}]
  BY <1>1 DEF Removed, Ses
<1> QED
  BY <1>2, <1>3 DEF Ses, Keeps, Writer

LEMMA FlushDeletesFrom ==
    ASSUME NEW O, NEW r, From(O, r), NEW s PROVE From(O, FlushDeletes(s, r))
<1>1. r.S \in Ses /\ r.t \in Txn /\ Keeps(r.S, r.S) /\ r.S.deleted \in SUBSET Ids
  BY FromParts DEF Ses
<1>2. From(O, Raise(r.S, NoTxn, "db"))
  BY <1>1, NoTxnType, FromRaise DEF Exceptions
<1>3. From(O, LockTimeout(r.S, r.S.deleted))
  BY <1>1, LockTimeoutFrom
<1>4. From(O, Done(Removed(r.S), Delete(r.t, r.S.deleted)))
  BY <1>1, RemovedKeeps, DeleteType, FromDone
<1> QED
  BY <1>2, <1>3, <1>4 DEF FlushDeletes

LEMMA FlushFrom ==
    ASSUME StoreReady, NEW O, NEW r, From(O, r), NEW s, NEW full \in BOOLEAN
    PROVE  From(O, Flush(s, r, full))
<1>1. ASSUME NEW q, From(O, q), NEW U \in SUBSET Ids PROVE From(O, FlushThe(s, q, U))
  <2>1. From(O, Writable(q, U))
    BY <1>1, BeginWritableFrom DEF Writable
  <2>2. PICK p : p = FlushDeletes(s, FlushRows(s, Writable(q, U), U))
    OBVIOUS
  <2>3. From(O, p)
    BY <1>1, <2>1, <2>2, FlushRowsFrom, FlushDeletesFrom
  <2>4. p.S \in Ses /\ p.t \in Txn
    BY <2>3, FromParts
  <2>5. PICK C : C = [p.S EXCEPT !.dirty = {}]
    OBVIOUS
  <2>6. C \in Ses /\ Keeps(p.S, C)
    BY <2>4, <2>5 DEF Ses, Keeps, Writer
  <2>7. From(O, Done(C, p.t))
    BY <2>3, <2>4, <2>6, FromDone
  <2> QED
    BY <2>2, <2>3, <2>5, <2>7 DEF FlushThe, Flushed
<1>2. PICK q : q = Reclaim(r)
  OBVIOUS
<1>3. From(O, q)
  BY <1>2, ReclaimFrom
<1>4. Unflushed(q.S, full) \in SUBSET Ids
  BY <1>3, FromParts DEF Unflushed, Ses
<1> QED
  BY <1>1, <1>2, <1>3, <1>4 DEF Flush, FlushLocked

LEMMA ReplayFrom ==
    ASSUME NEW O, NEW r, From(O, r), NEW exhausted \in BOOLEAN
    PROVE  From(O, Replay(r.S, exhausted))
<1>1. PICK R : R = Rollback(r.S)
  OBVIOUS
<1>2. R \in Ses /\ Keeps(r.S, R)
  BY <1>1, FromParts, RollbackKeeps DEF Keeps
<1>3. PICK C : C = [R EXCEPT !.lost = @ \/ exhausted]
  OBVIOUS
<1>4. C \in Ses /\ Keeps(r.S, C)
  BY <1>2, <1>3 DEF Ses, Keeps, Writer
<1> QED
  BY <1>1, <1>3, <1>4, NoTxnType, LostOrFrom DEF Replay

LEMMA ReadBarrierFrom ==
    ASSUME StoreReady, NEW O, NEW r, From(O, r), NEW s
    PROVE  From(O, ReadBarrier(s, r))
  BY EnsureTxnFrom, FlushFrom DEF ReadBarrier

LEMMA LoadFullFrom ==
    ASSUME NEW O, NEW r, From(O, r), NEW L \in SUBSET Ids
    PROVE  From(O, LoadFull(r, L))
<1>1. r.S \in Ses /\ r.t \in Txn /\ Keeps(r.S, r.S)
  BY FromParts
<1>2. From(O, Raise(r.S, NoTxn, "db"))
  BY <1>1, NoTxnType, FromRaise DEF Exceptions
<1>3. PICK M : M = Materialize(r.S, r.t, {id \in L : Present(r.t.view[id])})
  OBVIOUS
<1>4. M \in Ses /\ Keeps(r.S, M)
  BY <1>1, <1>3, MaterializeKeeps DEF Keeps
<1>5. From(O, Done(M, Reading(r.t, L)))
  BY <1>1, <1>4, ReadingType, FromDone
<1> QED
  BY <1>2, <1>3, <1>5 DEF LoadFull

-----------------------------------------------------------------------------

LEMMA RootType == Root \in Ids
  BY SeededAssumption, RequestAssumption

LEMMA MintType == /\ \A s \in Sessions : Mint[s] \in SUBSET Ids
                  /\ Children \in SUBSET Ids
  BY RequestAssumption DEF Children

LEMMA PartsType ==
    ASSUME TypeOK, NEW s \in Sessions
    PROVE  /\ ses[s] \in Ses /\ txn[s] \in Txn /\ req[s] \in Req
           /\ StoreReady
           /\ Tag(s) \in Tags
           /\ From(ses[s], Done(ses[s], txn[s]))
<1>1. ses[s] \in Ses /\ txn[s] \in Txn /\ req[s] \in Req /\ StoreReady
  BY DEF TypeOK, StoreTypeOK, StoreReady
<1>2. Tag(s) \in Tags
  BY <1>1 DEF Tag, Tags, Req
<1> QED
  BY <1>1, <1>2, FromSelf

LEMMA NewRequestType == NewRequest \in Req
  BY RootType DEF NewRequest, Req, Op, OpNames, Pcs, Kinds, Answers, Exceptions

LEMMA InitType == Init => TypeOK
<1> SUFFICES ASSUME Init PROVE TypeOK
  OBVIOUS
<1>1. StoreTypeOK
  BY AbsentType, NoTxnType DEF Init, StoreInit, StoreTypeOK, Row
<1>2. NewSession \in Ses /\ [NewSession EXCEPT !.recorded = TRUE] \in Ses
  BY NewSessionType DEF Ses
<1>4. ses \in [Sessions -> Ses]
  BY <1>2 DEF Init
<1>5. req \in [Sessions -> Req] /\ faults \in Nat
  BY NewRequestType DEF Init
<1> QED
  BY <1>1, <1>4, <1>5 DEF TypeOK

-----------------------------------------------------------------------------
(* Steps                                                                   *)

LEMMA BecomesType ==
    ASSUME TypeOK, NEW s \in Sessions, NEW S \in Ses, NEW t \in Txn, NEW q \in Req,
           Becomes(s, S, t, q)
    PROVE  /\ ses' \in [Sessions -> Ses]
           /\ txn' \in [Sessions -> Txn]
           /\ req' \in [Sessions -> Req]
  BY DEF Becomes, TypeOK, StoreTypeOK

LEMMA StepType ==
    ASSUME TypeOK, NEW s \in Sessions, NEW S \in Ses, NEW t \in Txn, NEW q \in Req,
           Step(s, S, t, q)
    PROVE  TypeOK'
<1>1. Becomes(s, S, t, q) /\ KeepTables /\ UNCHANGED <<advisory, faults>>
  BY DEF Step
<1> QED
  BY <1>1, BecomesType DEF TypeOK, StoreTypeOK, KeepTables

(* A request that goes on elsewhere, or with an exception.                 *)
LEMMA GotoType ==
    ASSUME NEW q \in Req, NEW pc \in Pcs, NEW e \in Exceptions \cup {"app"}
    PROVE  Goto(q, pc) \in Req /\ Throw(q, e) \in Req
  BY ZenonT(40) DEF Goto, Throw, Req, Pcs

LEMMA FailedType ==
    ASSUME NEW q \in Req, NEW e \in Exceptions PROVE Failed(q, e) \in Req
<1>1. Throw(q, e) \in Req
  BY GotoType DEF Pcs
<1>2. [q EXCEPT !.pc = "scope", !.answer = "error"] \in Req
  BY DEF Req, Pcs, Answers
<1>3. [q EXCEPT !.pc = "close", !.answer = "error"] \in Req
  BY DEF Req, Pcs, Answers
<1>. q.fired + 1 \in Nat /\ q.ops + 1 \in Nat
  BY DEF Req
<1>4. [q EXCEPT !.pc = "effects", !.effect = FALSE, !.fired = @ + 1] \in Req
  BY DEF Req, Pcs
<1>5. [q EXCEPT !.pc = "caught", !.exc = e, !.ops = @ + 1] \in Req
  BY DEF Req, Pcs
<1> QED
  BY <1>1, <1>2, <1>3, <1>4, <1>5 DEF Failed

LEMMA FailedSessionType ==
    ASSUME NEW q, NEW S \in Ses, NEW e PROVE FailedSession(q, S, e) \in Ses
<1>1. Abort(S) \in Ses
  BY AbortKeeps DEF Keeps
<1>2. [S EXCEPT !.lost = TRUE] \in Ses
  BY DEF Ses
<1> QED
  BY <1>1, <1>2 DEF FailedSession

LEMMA FailsType ==
    ASSUME TypeOK, NEW s \in Sessions, NEW O, NEW r, From(O, r), NEW q \in Req,
           Fails(s, r, q)
    PROVE  TypeOK'
<1>1. r.S \in Ses /\ r.t \in Txn /\ r.exc \in Exceptions
  BY DEF From, Outcome
<1> QED
  BY <1>1, FailedType, FailedSessionType, StepType DEF Fails

LEMMA RetriesType ==
    ASSUME TypeOK, NEW s \in Sessions, NEW O, NEW r, From(O, r), NEW q \in Req,
           NEW next \in Nat, Retries(s, r, q, next)
    PROVE  TypeOK'
<1>1. PICK p : p = Replay(r.S, FALSE)
  OBVIOUS
<1>2. From(O, p) /\ p.S \in Ses /\ p.t \in Txn
  BY <1>1, ReplayFrom, FromParts
<1>3. [q EXCEPT !.pc = "barrier", !.tries = next] \in Req
  BY DEF Req, Pcs
<1>4. CASE Step(s, p.S, p.t, [q EXCEPT !.pc = "barrier", !.tries = next])
  BY <1>2, <1>3, <1>4, StepType
<1>5. CASE Fails(s, p, q) \/ Fails(s, r, q)
  BY <1>2, <1>5, FailsType
<1> QED
  BY <1>1, <1>4, <1>5 DEF Retries

LEMMA BarrierType ==
    ASSUME TypeOK, NEW s \in Sessions, NEW S \in Ses, NEW q \in Req, Barrier(s, S, q)
    PROVE  TypeOK'
<1>1. PICK r : r = IF q.op.load = {} THEN Done(S, txn[s])
                   ELSE ReadBarrier(s, Done(S, txn[s]))
  OBVIOUS
<1>2. From(S, r) /\ r.S \in Ses /\ r.t \in Txn
  BY <1>1, PartsType, FromSelf, FromParts, ReadBarrierFrom
<1>3. Goto(q, "load") \in Req
  BY GotoType DEF Pcs
<1>4. q.tries + 1 \in Nat
  BY DEF Req
<1> QED
  BY <1>1, <1>2, <1>3, <1>4, StepType, RetriesType DEF Barrier

LEMMA ReadType ==
    ASSUME TypeOK, NEW s \in Sessions, NEW S \in Ses, NEW name \in OpNames,
           NEW id \in Ids, NEW L \in SUBSET Ids, Read(s, S, name, id, L)
    PROVE  TypeOK'
<1>1. PICK o : o = [name |-> name, id |-> id, load |-> Missing(S, L)]
  OBVIOUS
<1>2. o \in Op
  BY <1>1 DEF Op, Missing
<1>3. [req[s] EXCEPT !.tries = 0, !.op = o] \in Req
  BY <1>2, PartsType, ZenonT(40) DEF Req
<1> QED
  BY <1>1, <1>3, BarrierType DEF Read

LEMMA LoadedFrom ==
    ASSUME TypeOK, NEW s \in Sessions
    PROVE  /\ From(ses[s], Loaded(s))
           /\ Loaded(s).S \in Ses /\ Loaded(s).t \in Txn
<1>1. req[s].op.load \in SUBSET Ids
  BY PartsType DEF Req, Op
<1>2. From(ses[s], Loaded(s))
  BY <1>1, PartsType, LoadFullFrom DEF Loaded
<1> QED
  BY <1>2, FromParts

-----------------------------------------------------------------------------
(* Arriving, and the walker                                                *)

LEMMA UnitType ==
    ASSUME NEW S \in Ses PROVE Unit(S) \in Ses
  BY DEF Unit, Ses

LEMMA UnitEnterType ==
    ASSUME TypeOK, NEW r \in Outcome PROVE UnitEnter(r) \in Outcome
<1>1. r.S \in Ses /\ r.t \in Txn /\ Unit(r.S) \in Ses
  BY UnitType DEF Outcome
<1>2. [r EXCEPT !.S = Unit(@)] \in Outcome
  BY <1>1 DEF Outcome
<1>3. From(Unit(r.S), EnsureTxn(Done(Unit(r.S), r.t)))
  BY <1>1, FromSelf, EnsureTxnFrom DEF TypeOK, StoreTypeOK, StoreReady
<1> QED
  BY <1>2, <1>3 DEF UnitEnter, From

LEMMA ArrivalType ==
    ASSUME TypeOK, NEW s \in Sessions,
           \/ Arrive(s) \/ ScopeLoaded(s) \/ ExitScope(s) \/ Open(s) \/ OpenUnit(s)
           \/ BarrierAgain(s) \/ LoadFails(s)
    PROVE  TypeOK'
<1>1. /\ ses[s] \in Ses /\ txn[s] \in Txn /\ req[s] \in Req /\ {Root} \in SUBSET Ids
      /\ Root \in Ids
  BY PartsType, RootType
<1>2. \A pc \in Pcs : Goto(req[s], pc) \in Req
  BY <1>1, GotoType DEF Exceptions
<1>3. /\ From(ses[s], Loaded(s)) /\ Loaded(s).S \in Ses /\ Loaded(s).t \in Txn
  BY LoadedFrom
<1>4. CASE Arrive(s)
  <2>1. CASE s \in Guests
    BY <1>1, <1>2, <1>4, <2>1, StepType DEF Arrive, Pcs
  <2>2. [ses[s] EXCEPT !.scope = TRUE] \in Ses
    BY <1>1 DEF Ses
  <2>3. CASE s \notin Guests
    BY <1>1, <1>4, <2>2, <2>3, ReadType DEF Arrive, OpNames
  <2> QED
    BY <2>1, <2>3
<1>5. CASE ScopeLoaded(s)
  BY <1>2, <1>3, <1>5, StepType DEF ScopeLoaded, Pcs
<1>6. CASE ExitScope(s)
  <2>1. PICK S : S = [ses[s] EXCEPT !.scope = FALSE]
    OBVIOUS
  <2>2. S \in Ses
    BY <1>1, <2>1 DEF Ses
  <2>3. PICK C : C = IF txn[s].dead THEN Rollback(S) ELSE Promote(S)
    OBVIOUS
  <2>4. C \in Ses
    BY <2>2, <2>3, RollbackKeeps, PromoteKeeps DEF Keeps
  <2>5. DropSnapshotReads(C) \in Ses
    BY <2>4, DropSnapshotReadsKeeps DEF Keeps
  <2>6. PICK q : q = Goto(req[s], IF req[s].answer = "none" THEN "open" ELSE "answered")
    OBVIOUS
  <2>7. q \in Req
    BY <1>2, <2>6 DEF Pcs
  <2>8. Step(s, DropSnapshotReads(C), NoTxn, q) \/ Step(s, S, txn[s], q)
    BY <1>6, <2>1, <2>3, <2>6 DEF ExitScope
  <2> QED
    BY <1>1, <2>2, <2>5, <2>7, <2>8, NoTxnType, StepType
<1>7. CASE Open(s)
  BY <1>1, <1>7, ReadType DEF Open, OpNames
<1>8. CASE OpenUnit(s)
  <2>1. PICK u : u = UnitEnter(Loaded(s))
    OBVIOUS
  <2>2. u \in Outcome
    BY <1>3, <2>1, UnitEnterType DEF From
  <2>3. u.S \in Ses /\ u.t \in Txn /\ u.exc \in Exceptions
    BY <2>2 DEF Outcome
  <2>4. Goto(req[s], "body") \in Req /\ Failed(req[s], u.exc) \in Req
    BY <1>1, <1>2, <2>3, FailedType DEF Pcs
  <2> QED
    BY <1>8, <2>1, <2>3, <2>4, StepType DEF OpenUnit
<1>9. CASE BarrierAgain(s)
  BY <1>1, <1>9, BarrierType DEF BarrierAgain
<1>10. CASE LoadFails(s)
  <2>1. (IF req[s].tries < 2 THEN 2 ELSE 4) \in Nat
    OBVIOUS
  <2> QED
    BY <1>1, <1>3, <1>10, <2>1, RetriesType DEF LoadFails
<1> QED
  BY <1>4, <1>5, <1>6, <1>7, <1>8, <1>9, <1>10

(* The records the walker's operations leave.                              *)
LEMMA CountedType ==
    ASSUME TypeOK, NEW s \in Sessions
    PROVE  /\ Counted(s) \in Req
           /\ \A pc \in Pcs : Goto(Counted(s), pc) \in Req
           /\ \A e \in Exceptions \cup {"app"} :
                 /\ Throw(Counted(s), e) \in Req
                 /\ [Counted(s) EXCEPT !.pc = "caught", !.exc = e] \in Req
<1>1. req[s] \in Req /\ req[s].ops + 1 \in Nat
  BY PartsType DEF Req
<1>2. Counted(s) \in Req
  BY <1>1 DEF Counted, Req
<1>3. \A e \in Exceptions \cup {"app"} :
        [Counted(s) EXCEPT !.pc = "caught", !.exc = e] \in Req
  BY <1>2 DEF Req, Pcs
<1>4. \A pc \in Pcs : Goto(Counted(s), pc) \in Req
  BY <1>2, GotoType DEF Exceptions
<1>5. \A e \in Exceptions \cup {"app"} : Throw(Counted(s), e) \in Req
  BY <1>2, GotoType DEF Pcs
<1> QED
  BY <1>2, <1>3, <1>4, <1>5

LEMMA StagedType ==
    ASSUME TypeOK, NEW s \in Sessions, NEW W \in SUBSET Ids, NEW D \in SUBSET Ids,
           NEW U \in SUBSET Ids
    PROVE  /\ [Counted(s) EXCEPT !.pc = "body", !.wset = W] \in Req
           /\ [Counted(s) EXCEPT !.pc = "body", !.wset = W, !.dset = D] \in Req
           /\ [Counted(s) EXCEPT !.pc = "body", !.wset = W, !.used = U] \in Req
           /\ [Counted(s) EXCEPT !.wset = W, !.used = U] \in Req
           /\ [Counted(s) EXCEPT !.enqueued = TRUE] \in Req
           /\ [Counted(s) EXCEPT !.effect = TRUE] \in Req
           /\ [Counted(s) EXCEPT !.pc = "flush", !.kind = "walk", !.tries = 0] \in Req
<1>1. PICK G : G = Counted(s)
  OBVIOUS
<1>2. G \in Req
  BY <1>1, CountedType
<1>3. /\ [G EXCEPT !.pc = "body", !.wset = W] \in Req
      /\ [G EXCEPT !.pc = "body", !.wset = W, !.dset = D] \in Req
  BY <1>2 DEF Req, Pcs
<1>4. /\ [G EXCEPT !.pc = "body", !.wset = W, !.used = U] \in Req
      /\ [G EXCEPT !.wset = W, !.used = U] \in Req
  BY <1>2 DEF Req, Pcs
<1>5. /\ [G EXCEPT !.enqueued = TRUE] \in Req
      /\ [G EXCEPT !.effect = TRUE] \in Req
  BY <1>2 DEF Req
<1>6. [G EXCEPT !.pc = "flush", !.kind = "walk", !.tries = 0] \in Req
  BY <1>2 DEF Req, Pcs, Kinds
<1> QED
  BY <1>1, <1>3, <1>4, <1>5, <1>6

LEMMA WalkerType ==
    ASSUME TypeOK, NEW s \in Sessions, Walker(s)
    PROVE  TypeOK'
<1> DEFINE L == Loaded(s)
           G == Counted(s)
           q == req[s]
<1>1. /\ ses[s] \in Ses /\ txn[s] \in Txn /\ q \in Req
      /\ Tag(s) \in Tags /\ StoreReady
      /\ Root \in Ids
      /\ q.op.id \in Ids /\ q.wset \in SUBSET Ids /\ q.dset \in SUBSET Ids
      /\ q.used \in SUBSET Ids
  BY PartsType, RootType DEF Req, Op
<1>2. From(ses[s], L) /\ L.S \in Ses /\ L.t \in Txn
  BY LoadedFrom, SMTT(60)
<1>3. \A pc \in Pcs : Goto(G, pc) \in Req /\ Goto(q, pc) \in Req
  BY <1>1, CountedType, GotoType DEF Exceptions
<1>4. /\ G.wset = q.wset /\ G.dset = q.dset /\ G.used = q.used
  BY <1>1 DEF Counted, Req
<1>5. \A S \in Ses, id \in Ids :
        /\ Put(S, id, Tag(s)) \in Ses /\ Write(S, id, Tag(s)) \in Ses
        /\ Mutate(S, id, Tag(s)) \in Ses /\ DeleteAnchor(S, id) \in Ses
  BY <1>1, WriteKeeps DEF Keeps
<1> HIDE DEF L, G, q
<1>6. CASE Get(s)
  <2>1. PICK name \in OpNames, id \in Ids : Read(s, ses[s], name, id, {id})
    BY <1>6, RequestAssumption DEF Get, OpNames
  <2> QED
    BY <1>1, <2>1, ReadType
<1>7. CASE FindChild(s)
  <2>1. PICK name \in OpNames, C \in SUBSET Ids : Read(s, ses[s], name, Root, C)
    BY <1>1, <1>7, MintType DEF FindChild, OpNames
  <2> QED
    BY <1>1, <2>1, ReadType
<1>8. CASE ReadOp(s) \/ FoundOp(s)
  <2>1. Step(s, L.S, L.t, Goto(G, "body"))
    BY <1>8 DEF ReadOp, FoundOp, L, G
  <2> QED
    BY <1>2, <1>3, <2>1, StepType DEF Pcs
<1>9. CASE WriteOp(s)
  <2>1. Step(s, Write(L.S, q.op.id, Tag(s)), L.t,
             [G EXCEPT !.pc = "body", !.wset = q.wset \cup {q.op.id}])
    BY <1>4, <1>9 DEF WriteOp, L, G, q
  <2>2. [G EXCEPT !.pc = "body", !.wset = q.wset \cup {q.op.id}] \in Req
    BY <1>1, StagedType, ZenonT(40) DEF G
  <2> QED
    BY <1>1, <1>2, <1>5, <2>1, <2>2, StepType
<1>10. CASE MutateOp(s)
  <2>1. Step(s, Mutate(L.S, q.op.id, Tag(s)), L.t,
             [G EXCEPT !.pc = "body", !.wset = q.wset \cup {q.op.id}])
    BY <1>4, <1>10 DEF MutateOp, L, G, q
  <2>2. [G EXCEPT !.pc = "body", !.wset = q.wset \cup {q.op.id}] \in Req
    BY <1>1, StagedType, ZenonT(40) DEF G
  <2> QED
    BY <1>1, <1>2, <1>5, <2>1, <2>2, StepType
<1>11. CASE DeleteOp(s)
  <2>1. Step(s, DeleteAnchor(L.S, q.op.id), L.t,
             [G EXCEPT !.pc = "body", !.wset = q.wset \ {q.op.id},
                       !.dset = q.dset \cup {q.op.id}])
    BY <1>4, <1>11 DEF DeleteOp, L, G, q
  <2>2. [G EXCEPT !.pc = "body", !.wset = q.wset \ {q.op.id},
                  !.dset = q.dset \cup {q.op.id}] \in Req
    BY <1>1, StagedType, ZenonT(40) DEF G
  <2> QED
    BY <1>1, <1>2, <1>5, <2>1, <2>2, StepType
<1>12. CASE FindOrCreateOp(s)
  <2>1. PICK id \in Mint[s] :
          Step(s, Put(L.S, id, Tag(s)), L.t,
               [G EXCEPT !.pc = "body", !.wset = q.wset \cup {id},
                         !.used = q.used \cup {id}])
    BY <1>4, <1>12 DEF FindOrCreateOp, L, G, q
  <2>2. id \in Ids
    BY <2>1, MintType
  <2>3. [G EXCEPT !.pc = "body", !.wset = q.wset \cup {id},
                  !.used = q.used \cup {id}] \in Req
    BY <1>1, <2>2, StagedType, ZenonT(40) DEF G
  <2> QED
    BY <1>2, <1>5, <2>1, <2>2, <2>3, StepType
<1>13. CASE FindOrCountOp(s)
  <2>1. PICK id \in Mint[s] :
          Step(s, Write(Put(L.S, id, Tag(s)), Root, Tag(s)), L.t,
               [G EXCEPT !.pc = "body", !.wset = q.wset \cup {id, Root},
                         !.used = q.used \cup {id}])
    BY <1>4, <1>13 DEF FindOrCountOp, L, G, q
  <2>2. id \in Ids
    BY <2>1, MintType
  <2>3. [G EXCEPT !.pc = "body", !.wset = q.wset \cup {id, Root},
                  !.used = q.used \cup {id}] \in Req
    BY <1>1, <2>2, StagedType, ZenonT(40) DEF G
  <2> QED
    BY <1>1, <1>2, <1>5, <2>1, <2>2, <2>3, StepType
<1>14. CASE CreateOp(s)
  <2>1. PICK id \in Mint[s] :
          Step(s, Put(ses[s], id, Tag(s)), txn[s],
               [G EXCEPT !.wset = q.wset \cup {id}, !.used = q.used \cup {id}])
    BY <1>4, <1>14 DEF CreateOp, G, q
  <2>2. id \in Ids
    BY <2>1, MintType
  <2>3. [G EXCEPT !.wset = q.wset \cup {id}, !.used = q.used \cup {id}] \in Req
    BY <1>1, <2>2, StagedType, ZenonT(40) DEF G
  <2> QED
    BY <1>1, <1>5, <2>1, <2>2, <2>3, StepType
<1>15. CASE EnqueueOp(s)
  <2>1. PICK r : r = Join(Done(ses[s], txn[s]), Tag(s))
    OBVIOUS
  <2>2. From(ses[s], r)
    BY <1>1, <2>1, FromSelf, JoinFrom
  <2>3. r.S \in Ses /\ r.t \in Txn /\ r.exc \in Exceptions \cup {"app"}
    BY <2>2 DEF From, Outcome
  <2>4. /\ [G EXCEPT !.enqueued = TRUE] \in Req
        /\ [G EXCEPT !.pc = "caught", !.exc = r.exc] \in Req
    BY <1>1, <2>3, StagedType, CountedType DEF G
  <2>5. Step(s, r.S, r.t, IF Ok(r) THEN [G EXCEPT !.enqueued = TRUE]
                          ELSE [G EXCEPT !.pc = "caught", !.exc = r.exc])
    BY <1>15, <2>1 DEF EnqueueOp, G
  <2> QED
    BY <2>3, <2>4, <2>5, StepType
<1>16. CASE OnCommitOp(s) \/ WalkEnds(s)
  <2>1. /\ [G EXCEPT !.effect = TRUE] \in Req
        /\ [G EXCEPT !.pc = "flush", !.kind = "walk", !.tries = 0] \in Req
    BY <1>1, StagedType DEF G
  <2>2. \/ Step(s, ses[s], txn[s], [G EXCEPT !.effect = TRUE])
        \/ Step(s, ses[s], txn[s],
                [G EXCEPT !.pc = "flush", !.kind = "walk", !.tries = 0])
    BY <1>16 DEF OnCommitOp, WalkEnds, G
  <2> QED
    BY <1>1, <2>1, <2>2, StepType, SMTT(60)
<1>17. CASE FailOp(s)
  <2>1. Throw(G, "app") \in Req
    BY CountedType DEF G
  <2> QED
    BY <1>1, <1>17, <2>1, StepType DEF FailOp, G
<1>18. CASE Swallow(s) \/ Propagate(s) \/ Return(s)
  <2>1. [q EXCEPT !.pc = "body", !.exc = "none"] \in Req
    BY <1>1 DEF Req, Pcs, Exceptions
  <2>2. [q EXCEPT !.pc = "flush", !.kind = "final", !.tries = 0] \in Req
    BY <1>1 DEF Req, Pcs, Kinds
  <2>3. Goto(q, "handler") \in Req
    BY <1>3 DEF Pcs
  <2>4. \/ Step(s, ses[s], txn[s], [q EXCEPT !.pc = "body", !.exc = "none"])
        \/ Step(s, ses[s], txn[s], Goto(q, "handler"))
        \/ Step(s, ses[s], txn[s], [q EXCEPT !.pc = "flush", !.kind = "final", !.tries = 0])
    BY <1>18 DEF Swallow, Propagate, Return, q
  <2> QED
    BY <1>1, <2>1, <2>2, <2>3, <2>4, StepType
<1> QED
  BY <1>6, <1>7, <1>8, <1>9, <1>10, <1>11, <1>12, <1>13, <1>14, <1>15, <1>16,
     <1>17, <1>18 DEF Walker

-----------------------------------------------------------------------------
(* The commit                                                              *)

LEMMA SettleType ==
    ASSUME NEW q \in Req, NEW e \in Exceptions PROVE Settle(q, e) \in Req
  BY GotoType DEF Settle, Pcs

LEMMA CommitFailsType ==
    ASSUME TypeOK, NEW s \in Sessions, NEW O, NEW r, From(O, r),
           CommitFails(s, r.S, r.exc)
    PROVE  /\ ses' \in [Sessions -> Ses]
           /\ txn' \in [Sessions -> Txn]
           /\ req' \in [Sessions -> Req]
<1>1. /\ r.S \in Ses /\ r.t \in Txn /\ r.exc \in Exceptions
      /\ req[s] \in Req /\ req[s].tries + 1 \in Nat
  BY PartsType DEF From, Outcome, Req
<1>2. PICK p : p = IF r.exc = "db" THEN Replay(r.S, req[s].tries >= ReplayMax)
                   ELSE Raise(Rollback(r.S), NoTxn, r.exc)
  OBVIOUS
<1>3. p \in Outcome
  <2>1. (req[s].tries >= ReplayMax) \in BOOLEAN
    BY <1>1
  <2>2. From(O, Replay(r.S, req[s].tries >= ReplayMax))
    BY <2>1, ReplayFrom
  <2>3. Raise(Rollback(r.S), NoTxn, r.exc) \in Outcome
    BY <1>1, RollbackKeeps, NoTxnType DEF Raise, Outcome, Keeps
  <2> QED
    BY <1>2, <2>2, <2>3 DEF From
<1>4. p.S \in Ses /\ p.t \in Txn /\ p.exc \in Exceptions
  BY <1>3 DEF Outcome
<1>5. [req[s] EXCEPT !.pc = "flush", !.tries = @ + 1] \in Req
  BY <1>1 DEF Req, Pcs
<1>6. Settle(req[s], p.exc) \in Req
  BY <1>1, <1>4, SettleType
<1>7. \/ Becomes(s, p.S, p.t, [req[s] EXCEPT !.pc = "flush", !.tries = @ + 1])
      \/ Becomes(s, p.S, p.t, Settle(req[s], p.exc))
  BY <1>2 DEF CommitFails
<1> QED
  BY <1>4, <1>5, <1>6, <1>7, BecomesType

LEMMA CommitTxnType ==
    ASSUME TypeOK, NEW s \in Sessions, CommitTxn(s)
    PROVE  /\ db' \in [Ids -> Row] /\ outbox' \subseteq Tags /\ clock' \in Nat
           /\ stamp' \in [Ids -> Nat] /\ log' \subseteq Commit
<1>1. /\ db \in [Ids -> Row] /\ outbox \subseteq Tags /\ clock \in Nat
      /\ stamp \in [Ids -> Nat] /\ log \subseteq Commit /\ txn[s] \in Txn
  BY DEF TypeOK, StoreTypeOK
<1>2. db' \in [Ids -> Row] /\ outbox' \subseteq Tags
  BY <1>1 DEF CommitTxn, Txn
<1>3. Entry(txn[s]) \in Commit
  BY <1>1 DEF Entry, Commit, Txn
<1>4. clock' \in Nat /\ stamp' \in [Ids -> Nat] /\ log' \subseteq Commit
  <2>1. CASE Alone(s)
    BY <2>1 DEF CommitTxn
  <2>2. CASE ~Alone(s) /\ txn[s].mode = "rw"
    BY <1>1, <1>3, <2>2 DEF CommitTxn
  <2>3. CASE ~Alone(s) /\ txn[s].mode # "rw"
    BY <1>1, <2>3 DEF CommitTxn
  <2> QED
    BY <2>1, <2>2, <2>3
<1> QED
  BY <1>2, <1>4

LEMMA LeaveQueueType ==
    ASSUME NEW S \in Ses PROVE LeaveQueue(S) \in Ses
  BY DEF LeaveQueue, Ses

LEMMA AfterCommitType ==
    ASSUME TypeOK, NEW s \in Sessions, AfterCommit(s)
    PROVE  /\ ses' \in [Sessions -> Ses]
           /\ txn' \in [Sessions -> Txn]
           /\ req' \in [Sessions -> Req]
           /\ advisory' \in [Sessions -> SUBSET Ids]
<1>1. ses[s] \in Ses /\ req[s] \in Req /\ advisory \in [Sessions -> SUBSET Ids]
  BY PartsType DEF TypeOK, StoreTypeOK
<1>2. PICK S : S = LeaveQueue(Promote(ses[s]))
  OBVIOUS
<1>3. S \in Ses /\ RegisterWriters(S) \in Ses
  BY <1>1, <1>2, PromoteKeeps, LeaveQueueType, RegisterWritersType DEF Keeps
<1>4. PICK q : q = Goto(req[s], AfterKind[req[s].kind])
  OBVIOUS
<1>5. q \in Req
  <2>1. AfterKind[req[s].kind] \in Pcs
    BY <1>1 DEF Req, Kinds, AfterKind, Pcs
  <2> QED
    BY <1>1, <1>4, <2>1, GotoType DEF Exceptions
<1>6. PICK w : w = IF q.kind = "final" THEN q.won \cup {q.run} ELSE q.won
  OBVIOUS
<1>7. w \in SUBSET Nat
  BY <1>5, <1>6 DEF Req
<1>8. /\ (q.committed \/ q.kind = "final") \in BOOLEAN
      /\ (q.saved \/ InFlight(ses[s])) \in BOOLEAN
  OBVIOUS
<1>9. PICK n : n = [q EXCEPT !.committed = @ \/ q.kind = "final",
                            !.won   = IF q.kind = "final" THEN @ \cup {q.run} ELSE @,
                            !.saved = @ \/ InFlight(ses[s])]
  OBVIOUS
<1>10. n = [q EXCEPT !.committed = q.committed \/ q.kind = "final", !.won = w,
                     !.saved = q.saved \/ InFlight(ses[s])]
  BY <1>5, <1>6, <1>9 DEF Req
<1>11. n \in Req
  BY <1>5, <1>7, <1>8, <1>10 DEF Req
<1>12. Becomes(s, IF InFlight(ses[s]) THEN RegisterWriters(S) ELSE S, NoTxn, n)
  BY <1>2, <1>4, <1>9 DEF AfterCommit
<1>13. advisory' \in [Sessions -> SUBSET Ids]
  BY <1>1 DEF AfterCommit
<1> QED
  BY <1>3, <1>11, <1>12, <1>13, NoTxnType, BecomesType

LEMMA CommitType ==
    ASSUME TypeOK, NEW s \in Sessions,
           FlushAll(s) \/ SqlCommit(s) \/ SqlCommitFails(s) \/ CommitUnanswered(s)
    PROVE  TypeOK'
<1>1. /\ ses[s] \in Ses /\ txn[s] \in Txn /\ req[s] \in Req /\ StoreReady
      /\ From(ses[s], Done(ses[s], txn[s]))
  BY PartsType
<1>2. From(ses[s], Raise(ses[s], txn[s], "db"))
  BY <1>1, FromSelfRaise DEF Exceptions
<1>3. CommitFails(s, ses[s], "db") =>
        /\ ses' \in [Sessions -> Ses]
        /\ txn' \in [Sessions -> Txn]
        /\ req' \in [Sessions -> Req]
  <2>1. PICK r : r = Raise(ses[s], txn[s], "db")
    OBVIOUS
  <2>2. From(ses[s], r) /\ r.S = ses[s] /\ r.exc = "db"
    BY <1>2, <2>1 DEF Raise
  <2> QED
    BY <2>2, CommitFailsType
<1>4. CASE FlushAll(s)
  <2>1. PICK r : r = IF ses[s].lost THEN Raise(ses[s], txn[s], "lost")
                     ELSE Flush(s, Done(ses[s], txn[s]), TRUE)
    OBVIOUS
  <2>2. From(ses[s], r)
    BY <1>1, <2>1, FromSelfRaise, FlushFrom DEF Exceptions
  <2>3. r.S \in Ses /\ r.t \in Txn
    BY <2>2, FromParts
  <2>4. Goto(req[s], "commit") \in Req
    BY <1>1, GotoType DEF Pcs, Exceptions
  <2>5. \/ Becomes(s, r.S, r.t, Goto(req[s], "commit"))
        \/ CommitFails(s, r.S, r.exc)
    BY <1>4, <2>1 DEF FlushAll
  <2>6. /\ ses' \in [Sessions -> Ses]
        /\ txn' \in [Sessions -> Txn]
        /\ req' \in [Sessions -> Req]
    BY <2>2, <2>3, <2>4, <2>5, BecomesType, CommitFailsType
  <2> QED
    BY <1>4, <2>6 DEF FlushAll, KeepTables, TypeOK, StoreTypeOK
<1>5. CASE SqlCommit(s)
  <2>1. CommitTxn(s) /\ AfterCommit(s) /\ UNCHANGED faults
    BY <1>5 DEF SqlCommit
  <2> QED
    BY <2>1, CommitTxnType, AfterCommitType DEF TypeOK, StoreTypeOK
<1>6. CASE SqlCommitFails(s)
  BY <1>3, <1>6 DEF SqlCommitFails, KeepTables, TypeOK, StoreTypeOK
<1>7. CASE CommitUnanswered(s)
  <2>1. advisory' \in [Sessions -> SUBSET Ids] /\ faults' \in Nat
    BY <1>7 DEF CommitUnanswered, TypeOK, StoreTypeOK
  <2>2. CommitTxn(s) /\ CommitFails(s, ses[s], "db")
    BY <1>7 DEF CommitUnanswered
  <2> QED
    BY <1>3, <2>1, <2>2, CommitTxnType DEF TypeOK, StoreTypeOK
<1> QED
  BY <1>4, <1>5, <1>6, <1>7

-----------------------------------------------------------------------------
(* Effects, the conflict loop, the write queue and the end                 *)

LEMMA FiredType ==
    ASSUME TypeOK, NEW s \in Sessions, NEW W \in SUBSET Ids
    PROVE  /\ Fired(s) \in Req
           /\ [Fired(s) EXCEPT !.pc = "effects", !.wset = W] \in Req
<1>1. req[s] \in Req /\ req[s].fired + 1 \in Nat
  BY PartsType DEF Req
<1>2. Fired(s) \in Req
  BY <1>1 DEF Fired, Req
<1> QED
  BY <1>2 DEF Req, Pcs

LEMMA EffectType ==
    ASSUME TypeOK, NEW s \in Sessions,
           \/ NoEffect(s) \/ PlainEffect(s) \/ WritingEffect(s) \/ EffectWrites(s)
    PROVE  TypeOK'
<1>1. /\ ses[s] \in Ses /\ txn[s] \in Txn /\ req[s] \in Req /\ Tag(s) \in Tags
      /\ Root \in Ids
  BY PartsType, RootType
<1>2. CASE NoEffect(s)
  <2>1. [req[s] EXCEPT !.pc = "flush", !.kind = "outer", !.tries = 0] \in Req
    BY <1>1 DEF Req, Pcs, Kinds
  <2> QED
    BY <1>1, <1>2, <2>1, StepType DEF NoEffect
<1>3. CASE PlainEffect(s)
  BY <1>1, <1>3, FiredType, StepType DEF PlainEffect
<1>4. CASE WritingEffect(s)
  BY <1>1, <1>4, ReadType DEF WritingEffect, OpNames
<1>5. CASE EffectWrites(s)
  <2>1. Loaded(s).S \in Ses /\ Loaded(s).t \in Txn
    BY LoadedFrom
  <2>2. Write(Loaded(s).S, Root, Tag(s)) \in Ses
    BY <1>1, <2>1, WriteKeeps DEF Keeps
  <2>3. PICK W : W = Fired(s).wset \cup {Root}
    OBVIOUS
  <2>4. W \in SUBSET Ids
    BY <1>1, <2>3, FiredType DEF Req
  <2>5. [Fired(s) EXCEPT !.pc = "effects", !.wset = W] \in Req
    BY <2>4, FiredType
  <2>6. Step(s, Write(Loaded(s).S, Root, Tag(s)), Loaded(s).t,
             [Fired(s) EXCEPT !.pc = "effects", !.wset = W])
    <3>1. Fired(s) \in Req
      BY FiredType
    <3> QED
      BY <1>5, <2>3, <3>1 DEF EffectWrites, Req
  <2> QED
    BY <2>1, <2>2, <2>5, <2>6, StepType
<1> QED
  BY <1>2, <1>3, <1>4, <1>5

LEMMA ReplyType ==
    ASSUME TypeOK, NEW s \in Sessions, NEW a \in Answers, Reply(s, a)
    PROVE  TypeOK'
<1>1. req[s] \in Req /\ ses[s] \in Ses
  BY PartsType
<1>2. PICK A : A = Abort(ses[s])
  OBVIOUS
<1>3. A \in Ses
  BY <1>1, <1>2, AbortKeeps DEF Keeps
<1>4. [A EXCEPT !.unit = "none", !.raised = FALSE] \in Ses
  BY <1>3 DEF Ses
<1>5. [req[s] EXCEPT !.pc = "close", !.answer = a, !.effect = FALSE] \in Req
  BY <1>1 DEF Req, Pcs
<1> QED
  BY <1>2, <1>4, <1>5, NoTxnType, StepType DEF Reply

LEMMA RerunType ==
    ASSUME TypeOK, NEW s \in Sessions, NEW S \in Ses, NEW pc \in Pcs,
           NEW attempt \in Nat, Rerun(s, S, pc, attempt)
    PROVE  TypeOK'
<1>1. req[s] \in Req
  BY PartsType
<1>2. Reenter(S) \in Ses
  BY UnitType DEF Reenter
<1>3. Abort(Reenter(S)) \in Ses
  BY <1>2, AbortKeeps DEF Keeps
<1>4. PICK k : k = req[s].roRetries + (IF req[s].exc = "ro" THEN 1 ELSE 0)
  OBVIOUS
<1>5. PICK n : n = req[s].run + 1
  OBVIOUS
<1>6. k \in Nat /\ n \in Nat
  BY <1>1, <1>4, <1>5 DEF Req
<1>7. PICK a : a = [req[s] EXCEPT !.pc = pc, !.exc = "none", !.attempt = attempt,
                                  !.roRetries = k, !.committed = FALSE,
                                  !.effect = FALSE]
  OBVIOUS
<1>8. a \in Req
  BY <1>1, <1>6, <1>7 DEF Req, Exceptions
<1>9. PICK b : b = [a EXCEPT !.ops = 0, !.run = n, !.wset = {}, !.dset = {},
                             !.enqueued = FALSE, !.saved = FALSE]
  OBVIOUS
<1>10. b \in Req
  BY <1>6, <1>8, <1>9 DEF Req
<1>11. Step(s, Abort(Reenter(S)), NoTxn, b)
  BY <1>1, <1>4, <1>5, <1>7, <1>9 DEF Rerun, Req
<1> QED
  BY <1>3, <1>10, <1>11, NoTxnType, StepType

LEMMA HandlerType ==
    ASSUME TypeOK, NEW s \in Sessions,
           \/ UnitExit(s) \/ HandleReadOnlyRetry(s) \/ HandleConflict(s)
           \/ HandleError(s) \/ HandleAfterCommit(s)
    PROVE  TypeOK'
<1>1. /\ req[s] \in Req /\ ses[s] \in Ses /\ txn[s] \in Txn
      /\ req[s].attempt \in Nat /\ req[s].attempt + 1 \in Nat
  BY PartsType DEF Req
<1>2. CASE UnitExit(s)
  <2>1. PICK S : S = [ses[s] EXCEPT !.unit = "none", !.raised = FALSE]
    OBVIOUS
  <2>2. S \in Ses
    BY <1>1, <2>1 DEF Ses
  <2>3. Abort(S) \in Ses
    BY <2>2, AbortKeeps DEF Keeps
  <2>4. Throw(req[s], "ro") \in Req
    BY <1>1, GotoType DEF Exceptions, Pcs
  <2>5. [req[s] EXCEPT !.pc = "close", !.answer = "ok"] \in Req
    BY <1>1 DEF Req, Pcs, Answers
  <2> QED
    BY <1>1, <1>2, <2>1, <2>2, <2>3, <2>4, <2>5, NoTxnType, StepType DEF UnitExit
<1>3. CASE HandleReadOnlyRetry(s)
  <2>1. PICK S : S = [ses[s] EXCEPT !.raised = FALSE]
    OBVIOUS
  <2>2. S \in Ses
    BY <1>1, <2>1 DEF Ses
  <2>3. PICK n \in Nat : Reply(s, "conflict") \/ Rerun(s, S, "reload", n)
    BY <1>1, <1>3, <2>1 DEF HandleReadOnlyRetry
  <2> QED
    BY <2>2, <2>3, ReplyType, RerunType DEF Answers, Pcs
<1>4. CASE HandleConflict(s)
  BY <1>1, <1>4, ReplyType, RerunType DEF HandleConflict, Answers, Pcs
<1>5. CASE HandleError(s)
  BY <1>1, <1>5, ReplyType, RerunType DEF HandleError, Answers, Pcs
<1>6. CASE HandleAfterCommit(s)
  BY <1>6, ReplyType DEF HandleAfterCommit, Answers
<1> QED
  BY <1>2, <1>3, <1>4, <1>5, <1>6

LEMMA QueueType ==
    ASSUME TypeOK, NEW s \in Sessions,
           NoTurn(s) \/ LeavePlace(s) \/ TakeTurn(s) \/ TurnTimesOut(s) \/ Pin(s)
    PROVE  TypeOK'
<1>1. /\ req[s] \in Req /\ ses[s] \in Ses /\ txn[s] \in Txn
      /\ ses[s].contended \in SUBSET Ids /\ ses[s].queued \in SUBSET Ids
      /\ StoreReady
  BY PartsType DEF Ses
<1>2. Goto(req[s], "reload") \in Req /\ Goto(req[s], "pin") \in Req
  BY <1>1, GotoType DEF Exceptions, Pcs
<1>3. CASE NoTurn(s)
  BY <1>1, <1>2, <1>3, StepType DEF NoTurn
<1>4. CASE TakeTurn(s)
  <2>1. [ses[s] EXCEPT !.queued = ses[s].contended] \in Ses
    BY <1>1 DEF Ses
  <2>2. advisory' \in [Sessions -> SUBSET Ids]
    BY <1>1, <1>4 DEF TakeTurn, TypeOK, StoreTypeOK
  <2>3. Becomes(s, [ses[s] EXCEPT !.queued = ses[s].contended], txn[s],
                Goto(req[s], "pin"))
    BY <1>4 DEF TakeTurn
  <2> QED
    BY <1>1, <1>2, <1>4, <2>1, <2>2, <2>3, BecomesType
       DEF TakeTurn, KeepTables, TypeOK, StoreTypeOK
<1>5. CASE TurnTimesOut(s)
  <2>1. [ses[s] EXCEPT !.contended = {}] \in Ses
    BY <1>1 DEF Ses
  <2>2. Becomes(s, [ses[s] EXCEPT !.contended = {}], txn[s], Goto(req[s], "reload"))
    BY <1>5 DEF TurnTimesOut
  <2> QED
    BY <1>1, <1>2, <1>5, <2>1, <2>2, BecomesType
       DEF TurnTimesOut, KeepTables, TypeOK, StoreTypeOK
<1>6. CASE Pin(s)
  <2>1. NoTxn \in Txn /\ LockRows(Begin("rw"), ses[s].queued) \in Txn
    BY <1>1, NoTxnType, BeginType, LockRowsType
  <2> QED
    BY <1>1, <1>2, <1>6, <2>1, StepType DEF Pin
<1>7. CASE LeavePlace(s)
  <2>1. [ses[s] EXCEPT !.queued = {}] \in Ses
    BY <1>1 DEF Ses
  <2>2. advisory' \in [Sessions -> SUBSET Ids]
    BY <1>7 DEF LeavePlace, TypeOK, StoreTypeOK
  <2>3. Becomes(s, [ses[s] EXCEPT !.queued = {}], txn[s], req[s])
    BY <1>7 DEF LeavePlace
  <2> QED
    BY <1>1, <1>7, <2>1, <2>2, <2>3, BecomesType
       DEF LeavePlace, KeepTables, TypeOK, StoreTypeOK
<1> QED
  BY <1>3, <1>4, <1>5, <1>6, <1>7

LEMMA EndType ==
    ASSUME TypeOK, NEW s \in Sessions,
           \/ Reload(s) \/ Reloaded(s) \/ CloseSession(s) \/ LeaveSession(s)
           \/ ConnectionLost(s)
    PROVE  TypeOK'
<1>1. /\ req[s] \in Req /\ ses[s] \in Ses /\ txn[s] \in Txn /\ Root \in Ids
  BY PartsType, RootType
<1>2. Goto(req[s], "body") \in Req /\ Goto(req[s], "answered") \in Req
  BY <1>1, GotoType DEF Exceptions, Pcs
<1>3. CASE Reload(s)
  BY <1>1, <1>3, ReadType DEF Reload, OpNames
<1>4. CASE Reloaded(s)
  BY <1>2, <1>4, LoadedFrom, StepType DEF Reloaded
<1>5. CASE CloseSession(s)
  <2>1. [req[s] EXCEPT !.pc = "flush", !.kind = "close", !.tries = 0] \in Req
    BY <1>1 DEF Req, Pcs, Kinds
  <2> QED
    BY <1>1, <1>5, <2>1, StepType DEF CloseSession
<1>6. CASE LeaveSession(s)
  <2>1. advisory' \in [Sessions -> SUBSET Ids]
    BY <1>6 DEF LeaveSession, TypeOK, StoreTypeOK
  <2>2. Becomes(s, NewSession, NoTxn, Goto(req[s], "answered"))
    BY <1>6 DEF LeaveSession
  <2> QED
    BY <1>2, <1>6, <2>1, <2>2, NewSessionType, NoTxnType, BecomesType
       DEF LeaveSession, KeepTables, TypeOK, StoreTypeOK
<1>7. CASE ConnectionLost(s)
  <2>1. [NoTxn EXCEPT !.mode = txn[s].mode, !.dead = TRUE] \in Txn
    BY <1>1, NoTxnType DEF Txn
  <2>2. txn' \in [Sessions -> Txn] /\ advisory' \in [Sessions -> SUBSET Ids]
    BY <1>7, <2>1, NoTxnType
       DEF ConnectionLost, DropConnection, TypeOK, StoreTypeOK
  <2> QED
    BY <1>7, <2>2 DEF ConnectionLost, KeepTables, TypeOK, StoreTypeOK
<1> QED
  BY <1>3, <1>4, <1>5, <1>6, <1>7

-----------------------------------------------------------------------------
(* Every variable keeps its type: sessions, ledgers and transactions are   *)
(* well formed after any interleaving of operations, replays, re-runs and  *)
(* connection losses.  In particular a row version is never negative, so   *)
(* that WriteVersion (RowLedger.write_version) never sends one that no row *)
(* can have.                                                               *)
THEOREM TypeCorrect == Spec => []TypeOK
<1>1. TypeOK /\ [Next]_vars => TypeOK'
  <2> SUFFICES ASSUME TypeOK, [Next]_vars PROVE TypeOK'
    OBVIOUS
  <2>1. CASE UNCHANGED vars
    BY <2>1 DEF vars, TypeOK, StoreTypeOK
  <2>2. ASSUME NEW s \in Sessions, Walker(s) \/ Server(s) \/ Network(s)
        PROVE  TypeOK'
    BY <2>2, WalkerType, ArrivalType, CommitType, EffectType, HandlerType,
       QueueType, EndType DEF Server, Network
  <2> QED
    BY <2>1, <2>2 DEF Next, Terminated
<1> QED
  BY <1>1, InitType, PTL DEF Spec
-----------------------------------------------------------------------------
(* What must not be done twice when a request is attempted again.          *)
(*                                                                         *)
(* Effects: the on_commit effects of a request run at most once when the   *)
(* read tier is off: a request that has committed is never re-run, because *)
(* only a ReadOnlyRetry is let through after a commit and no operation of a*)
(* session raises one when units start as writers.                         *)
(*                                                                         *)
(* Places: in the write queue that losing attempts wait in (wait_turn,     *)
(* leave_queue) a session never holds a place it does not know of, two     *)
(* sessions never hold a place for the same row, and while no connection   *)
(* has broken a session holds exactly the places it knows of.              *)

(* Where a request whose final commit has succeeded can be.                *)
Committed(q) ==
    \/ q.pc \in {"effects", "exit", "handler", "close", "leave", "answered"}
    \/ q.pc \in {"flush", "commit"} /\ q.kind \in {"outer", "close"}
    \/ q.pc \in {"barrier", "load"} /\ q.op.name = "effect"

FiredOnce(q) == /\ q.exc # "ro"
                /\ q.fired <= 1
                /\ q.fired = 1 => q.committed /\ ~q.effect

Once(q) == /\ FiredOnce(q)
           /\ q.committed => Committed(q)
           /\ q.pc = "effects" => q.committed
           /\ q.pc \in {"barrier", "load"} /\ q.op.name = "effect"
                 => q.committed /\ q.effect

OnceInv == \A s \in Sessions : Writer(ses[s]) /\ Once(req[s])

(* A request about to read for its operation.                              *)
Doing(q) == /\ FiredOnce(q)
            /\ IF q.op.name = "effect" THEN q.committed /\ q.effect
                                       ELSE ~q.committed

-----------------------------------------------------------------------------
LEMMA OnceInit == Init => OnceInv
<1>1. Once(NewRequest)
  BY DEF Once, FiredOnce, NewRequest
<1>2. Writer(NewSession) /\ Writer([NewSession EXCEPT !.recorded = TRUE])
  BY NewSessionType DEF Writer, Ses
<1> QED
  BY <1>1, <1>2 DEF Init, OnceInv

LEMMA BecomesOnce ==
    ASSUME TypeOK, OnceInv, NEW s \in Sessions, NEW S, NEW t, NEW q,
           Becomes(s, S, t, q), Writer(S), Once(q)
    PROVE  OnceInv'
<1>1. /\ ses' = [ses EXCEPT ![s] = S]
      /\ req' = [req EXCEPT ![s] = q]
      /\ ses \in [Sessions -> Ses] /\ req \in [Sessions -> Req]
  BY DEF Becomes, TypeOK
<1>2. ASSUME NEW o \in Sessions PROVE Writer(ses'[o]) /\ Once(req'[o])
  <2>1. CASE o = s
    BY <1>1, <2>1
  <2>2. CASE o # s
    BY <1>1, <2>2 DEF OnceInv
  <2> QED
    BY <2>1, <2>2
<1>3. OnceInv' <=> \A o \in Sessions : Writer(ses'[o]) /\ Once(req'[o])
  BY DEF OnceInv, Writer, Once, FiredOnce, Committed
<1> QED
  BY <1>2, <1>3

LEMMA StepOnce ==
    ASSUME TypeOK, OnceInv, NEW s \in Sessions, NEW S, NEW t, NEW q,
           Step(s, S, t, q), Writer(S), Once(q)
    PROVE  OnceInv'
  BY BecomesOnce DEF Step

(* Off the read tier an operation leaves a writer and raises no retry.     *)
LEMMA FromWriter ==
    ASSUME NEW O, NEW r, From(O, r), Writer(O)
    PROVE  /\ r.S \in Ses /\ r.t \in Txn /\ r.exc \in Exceptions
           /\ Writer(r.S) /\ r.exc # "ro"
  BY DEF From, Outcome

LEMMA UnitWriter ==
    ASSUME ReadTier = FALSE, NEW S \in Ses, ~S.raised PROVE Writer(Unit(S))
  BY DEF Unit, Writer, Ses

LEMMA AbortWriter ==
    ASSUME NEW S \in Ses, Writer(S) PROVE Abort(S) \in Ses /\ Writer(Abort(S))
  BY AbortKeeps DEF Keeps

-----------------------------------------------------------------------------
(* Reading                                                                 *)

LEMMA DoingOnce ==
    ASSUME NEW q \in Req, Doing(q), NEW n \in Nat
    PROVE  /\ Once([q EXCEPT !.pc = "barrier", !.tries = n])
           /\ Once(Goto(q, "load"))
  BY DEF Doing, Once, FiredOnce, Committed, Goto, Req

LEMMA FailedOnce ==
    ASSUME NEW q \in Req, Doing(q), NEW e \in Exceptions, e # "ro"
    PROVE  Once(Failed(q, e))
<1>1. CASE q.op.name = "effect"
  <2>1. q.fired = 0 /\ q.committed
    BY <1>1 DEF Doing, FiredOnce, Req
  <2> QED
    BY <1>1, <2>1 DEF Failed, Once, FiredOnce, Committed, Req, Doing
<1>2. CASE q.op.name # "effect"
  BY <1>2 DEF Failed, Throw, Goto, Once, FiredOnce, Committed, Req, Doing
<1> QED
  BY <1>1, <1>2

LEMMA FailsOnce ==
    ASSUME TypeOK, OnceInv, NEW s \in Sessions, NEW O, NEW r, From(O, r),
           Writer(O), NEW q \in Req, Doing(q), Fails(s, r, q)
    PROVE  OnceInv'
<1>1. r.S \in Ses /\ Writer(r.S) /\ r.exc \in Exceptions /\ r.exc # "ro"
  BY FromWriter
<1>2. Writer(FailedSession(q, r.S, r.exc))
  <2>1. Writer(Abort(r.S)) /\ Writer([r.S EXCEPT !.lost = TRUE])
    BY <1>1, AbortWriter DEF Writer, Ses
  <2> QED
    BY <1>1, <2>1 DEF FailedSession
<1> QED
  BY <1>1, <1>2, FailedOnce, StepOnce DEF Fails

LEMMA RetriesOnce ==
    ASSUME TypeOK, OnceInv, NEW s \in Sessions, NEW O, NEW r, From(O, r),
           Writer(O), NEW q \in Req, Doing(q), NEW next \in Nat,
           Retries(s, r, q, next)
    PROVE  OnceInv'
<1>1. PICK p : p = Replay(r.S, FALSE)
  OBVIOUS
<1>2. From(O, p) /\ Writer(p.S)
  BY <1>1, ReplayFrom, FromWriter
<1>3. CASE Step(s, p.S, p.t, [q EXCEPT !.pc = "barrier", !.tries = next])
  BY <1>2, <1>3, DoingOnce, StepOnce
<1>4. CASE Fails(s, p, q) \/ Fails(s, r, q)
  BY <1>2, <1>4, FailsOnce
<1> QED
  BY <1>1, <1>3, <1>4 DEF Retries

LEMMA BarrierOnce ==
    ASSUME TypeOK, OnceInv, NEW s \in Sessions, NEW S \in Ses, Writer(S),
           NEW q \in Req, Doing(q), Barrier(s, S, q)
    PROVE  OnceInv'
<1>1. PICK r : r = IF q.op.load = {} THEN Done(S, txn[s])
                   ELSE ReadBarrier(s, Done(S, txn[s]))
  OBVIOUS
<1>2. From(S, r) /\ Writer(r.S)
  BY <1>1, PartsType, FromSelf, FromWriter, ReadBarrierFrom
<1>3. q.tries + 1 \in Nat
  BY DEF Req
<1>4. Once(Goto(q, "load"))
  BY DoingOnce
<1> QED
  BY <1>1, <1>2, <1>3, <1>4, StepOnce, RetriesOnce DEF Barrier

(* A read begins: from the effects for an effect, before the commit for    *)
(* anything else.                                                          *)
LEMMA ReadOnce ==
    ASSUME TypeOK, OnceInv, NEW s \in Sessions, NEW S \in Ses, Writer(S),
           NEW name \in OpNames, NEW id \in Ids, NEW L \in SUBSET Ids,
           Read(s, S, name, id, L),
           IF name = "effect" THEN req[s].committed /\ req[s].effect
                              ELSE ~req[s].committed
    PROVE  OnceInv'
<1>1. PICK o : o = [name |-> name, id |-> id, load |-> Missing(S, L)]
  OBVIOUS
<1>2. o \in Op /\ o.name = name
  BY <1>1 DEF Op, Missing
<1>3. PICK q : q = [req[s] EXCEPT !.tries = 0, !.op = o]
  OBVIOUS
<1>4. q \in Req /\ q.op.name = name
  BY <1>2, <1>3, PartsType DEF Req
<1>5. Doing(q)
  BY <1>2, <1>3, PartsType DEF OnceInv, Once, FiredOnce, Doing, Req
<1> QED
  BY <1>1, <1>3, <1>4, <1>5, BarrierOnce DEF Read

LEMMA LoadedOnce ==
    ASSUME TypeOK, OnceInv, NEW s \in Sessions
    PROVE  /\ From(ses[s], Loaded(s)) /\ Writer(ses[s])
           /\ Loaded(s).S \in Ses /\ Loaded(s).t \in Txn /\ Writer(Loaded(s).S)
  BY LoadedFrom, FromWriter DEF OnceInv

-----------------------------------------------------------------------------
(* The actions                                                             *)

(* The places of a request that has not committed.                         *)
Uncommitted == {"arrive", "scope", "open", "body", "caught", "turn", "pin", "reload"}

LEMMA EarlyOnce ==
    ASSUME TypeOK, OnceInv, NEW s \in Sessions,
           \/ req[s].pc \in Uncommitted
           \/ req[s].pc \in {"barrier", "load"} /\ req[s].op.name # "effect"
           \/ req[s].pc \in {"flush", "commit"} /\ req[s].kind \in {"walk", "final"}
    PROVE  ~req[s].committed /\ req[s].fired = 0 /\ req[s].exc # "ro"
  BY PartsType DEF OnceInv, Once, FiredOnce, Committed, Uncommitted, Req

(* A request that has neither committed nor fired an effect, wherever it   *)
(* goes but to the effects.                                                *)
LEMMA UncommittedOnce ==
    ASSUME NEW q, ~q.committed, q.fired = 0, q.exc # "ro", q.pc # "effects",
           q.pc \notin {"barrier", "load"}
    PROVE  Once(q)
  BY DEF Once, FiredOnce

LEMMA ArrivalOnce ==
    ASSUME TypeOK, OnceInv, ReadTier = FALSE, NEW s \in Sessions,
           \/ Arrive(s) \/ ScopeLoaded(s) \/ ExitScope(s) \/ Open(s) \/ OpenUnit(s)
    PROVE  OnceInv'
<1>1. /\ ses[s] \in Ses /\ txn[s] \in Txn /\ req[s] \in Req /\ {Root} \in SUBSET Ids
      /\ Root \in Ids /\ Writer(ses[s])
  BY PartsType, RootType DEF OnceInv
<1>2. /\ From(ses[s], Loaded(s)) /\ Loaded(s).S \in Ses /\ Loaded(s).t \in Txn
      /\ Writer(Loaded(s).S)
  BY LoadedOnce
<1>3. ~req[s].committed /\ req[s].fired = 0 /\ req[s].exc # "ro"
  BY EarlyOnce DEF Arrive, ScopeLoaded, ExitScope, Open, OpenUnit, At, Loading, Uncommitted
<1>4. \A pc \in {"open", "scope", "body", "answered"} : Once(Goto(req[s], pc))
  BY <1>1, <1>3, UncommittedOnce DEF Goto, Req
<1>5. CASE Arrive(s)
  <2>1. CASE s \in Guests
    BY <1>1, <1>4, <1>5, <2>1, StepOnce DEF Arrive
  <2>2. [ses[s] EXCEPT !.scope = TRUE] \in Ses /\ Writer([ses[s] EXCEPT !.scope = TRUE])
    BY <1>1 DEF Ses, Writer
  <2>3. CASE s \notin Guests
    BY <1>1, <1>3, <1>5, <2>2, <2>3, ReadOnce DEF Arrive, OpNames
  <2> QED
    BY <2>1, <2>3
<1>6. CASE ScopeLoaded(s)
  BY <1>2, <1>4, <1>6, StepOnce DEF ScopeLoaded
<1>7. CASE ExitScope(s)
  <2>1. PICK S : S = [ses[s] EXCEPT !.scope = FALSE]
    OBVIOUS
  <2>2. S \in Ses /\ Writer(S)
    BY <1>1, <2>1 DEF Ses, Writer
  <2>3. PICK C : C = IF txn[s].dead THEN Rollback(S) ELSE Promote(S)
    OBVIOUS
  <2>4. C \in Ses /\ Writer(C)
    BY <2>2, <2>3, RollbackKeeps, PromoteKeeps DEF Keeps
  <2>5. Writer(DropSnapshotReads(C))
    BY <2>4, DropSnapshotReadsKeeps DEF Keeps
  <2>6. PICK q : q = Goto(req[s], IF req[s].answer = "none" THEN "open" ELSE "answered")
    OBVIOUS
  <2>7. Once(q)
    BY <1>4, <2>6
  <2>8. Step(s, DropSnapshotReads(C), NoTxn, q) \/ Step(s, S, txn[s], q)
    BY <1>7, <2>1, <2>3, <2>6 DEF ExitScope
  <2> QED
    BY <2>2, <2>5, <2>7, <2>8, StepOnce
<1>8. CASE Open(s)
  BY <1>1, <1>3, <1>8, ReadOnce DEF Open, OpNames
<1>9. CASE OpenUnit(s)
  <2>1. PICK u : u = UnitEnter(Loaded(s))
    OBVIOUS
  <2>2. Unit(Loaded(s).S) \in Ses /\ Writer(Unit(Loaded(s).S))
    BY <1>2, UnitType, UnitWriter DEF Writer
  <2>3. /\ Writer(u.S) /\ u.exc \in Exceptions /\ u.exc # "ro"
    <3>1. From(Unit(Loaded(s).S), EnsureTxn(Done(Unit(Loaded(s).S), Loaded(s).t)))
      BY <1>2, <2>2, FromSelf, EnsureTxnFrom, PartsType
    <3>2. CASE u = [Loaded(s) EXCEPT !.S = Unit(@)]
      <4>1. Loaded(s) \in Outcome /\ Loaded(s).exc \in Exceptions /\ Loaded(s).exc # "ro"
        BY <1>1, <1>2, FromWriter DEF From
      <4> QED
        BY <2>2, <3>2, <4>1 DEF Outcome
    <3>3. CASE u = EnsureTxn(Done(Unit(Loaded(s).S), Loaded(s).t))
      BY <2>2, <3>1, <3>3, FromWriter
    <3> QED
      BY <2>1, <3>2, <3>3 DEF UnitEnter
  <2>4. Once(Failed(req[s], u.exc))
    <3>1. Doing(req[s])
      BY <1>1, <1>3, <1>9 DEF Doing, FiredOnce, OpenUnit, Loading
    <3> QED
      BY <1>1, <2>3, <3>1, FailedOnce
  <2>5. Step(s, u.S, u.t, IF Ok(u) THEN Goto(req[s], "body") ELSE Failed(req[s], u.exc))
    BY <1>9, <2>1 DEF OpenUnit
  <2> QED
    BY <1>4, <2>3, <2>4, <2>5, StepOnce
<1> QED
  BY <1>5, <1>6, <1>7, <1>8, <1>9

LEMMA RereadOnce ==
    ASSUME TypeOK, OnceInv, NEW s \in Sessions, BarrierAgain(s) \/ LoadFails(s)
    PROVE  OnceInv'
<1>1. ses[s] \in Ses /\ req[s] \in Req /\ Writer(ses[s])
  BY PartsType DEF OnceInv
<1>2. Doing(req[s])
  <2>1. Once(req[s]) /\ req[s].pc \in {"barrier", "load"}
    BY DEF OnceInv, BarrierAgain, LoadFails, At
  <2> QED
    BY <2>1 DEF Once, Committed, Doing
<1>3. CASE BarrierAgain(s)
  BY <1>1, <1>2, <1>3, BarrierOnce DEF BarrierAgain
<1>4. CASE LoadFails(s)
  <2>1. (IF req[s].tries < 2 THEN 2 ELSE 4) \in Nat
    OBVIOUS
  <2> QED
    BY <1>1, <1>2, <1>4, <2>1, LoadedOnce, RetriesOnce DEF LoadFails
<1> QED
  BY <1>3, <1>4

LEMMA WalkerOnce ==
    ASSUME TypeOK, OnceInv, NEW s \in Sessions, Walker(s)
    PROVE  OnceInv'
<1> DEFINE L == Loaded(s)
           G == Counted(s)
           q == req[s]
<1>1. /\ ses[s] \in Ses /\ txn[s] \in Txn /\ q \in Req /\ Writer(ses[s])
      /\ Tag(s) \in Tags /\ Root \in Ids /\ q.op.id \in Ids
  BY PartsType, RootType DEF OnceInv, Req, Op
<1>2. L.S \in Ses /\ Writer(L.S)
  BY LoadedOnce, SMTT(60)
<1>3. ~q.committed /\ q.fired = 0 /\ q.exc # "ro"
  BY EarlyOnce
     DEF Walker, Get, FindChild, CanOp, ReadOp, WriteOp, MutateOp, DeleteOp, CreateOp,
         FoundOp, FindOrCreateOp, FindOrCountOp, EnqueueOp, OnCommitOp, WalkEnds,
         FailOp, Swallow, Propagate, Return, Finds, Loading, At, Uncommitted
<1>4. /\ G \in Req /\ ~G.committed /\ G.fired = 0 /\ G.exc # "ro"
  BY <1>1, <1>3, CountedType, ZenonT(40) DEF Counted, Req
<1>5. \A S \in Ses, id \in Ids : Writer(S) =>
        /\ Put(S, id, Tag(s)) \in Ses /\ Writer(Put(S, id, Tag(s)))
        /\ Writer(Write(S, id, Tag(s)))
        /\ Writer(Mutate(S, id, Tag(s)))
        /\ Writer(DeleteAnchor(S, id))
  BY <1>1, WriteKeeps DEF Keeps
<1>6. /\ Once(Goto(G, "body"))
      /\ \A W : Once([G EXCEPT !.pc = "body", !.wset = W])
      /\ \A W, D : Once([G EXCEPT !.pc = "body", !.wset = W, !.dset = D])
      /\ \A W, U : Once([G EXCEPT !.pc = "body", !.wset = W, !.used = U])
  BY <1>4, UncommittedOnce DEF Goto, Req
<1> HIDE DEF L, G, q
<1>7. CASE Get(s)
  <2>1. PICK name \in OpNames \ {"effect"}, id \in Ids : Read(s, ses[s], name, id, {id})
    BY <1>7, RequestAssumption DEF Get, OpNames
  <2> QED
    BY <1>1, <1>3, <2>1, ReadOnce DEF q
<1>8. CASE FindChild(s)
  <2>1. PICK name \in OpNames \ {"effect"}, C \in SUBSET Ids :
          Read(s, ses[s], name, Root, C)
    BY <1>1, <1>8, MintType DEF FindChild, OpNames
  <2> QED
    BY <1>1, <1>3, <2>1, ReadOnce DEF q
<1>9. CASE ReadOp(s) \/ FoundOp(s)
  BY <1>2, <1>6, <1>9, StepOnce DEF ReadOp, FoundOp, L, G
<1>10. CASE WriteOp(s) \/ MutateOp(s) \/ DeleteOp(s)
  <2>1. PICK S, t, W, D :
          /\ \/ S = Write(L.S, q.op.id, Tag(s))
             \/ S = Mutate(L.S, q.op.id, Tag(s))
             \/ S = DeleteAnchor(L.S, q.op.id)
          /\ \/ Step(s, S, t, [G EXCEPT !.pc = "body", !.wset = W])
             \/ Step(s, S, t, [G EXCEPT !.pc = "body", !.wset = W, !.dset = D])
    BY <1>10 DEF WriteOp, MutateOp, DeleteOp, L, G, q
  <2>2. Writer(S)
    BY <1>1, <1>2, <1>5, <2>1
  <2> QED
    BY <1>6, <2>1, <2>2, StepOnce
<1>11. CASE FindOrCreateOp(s) \/ FindOrCountOp(s)
  <2>1. PICK id, S, t, W, U :
          /\ id \in Mint[s]
          /\ \/ S = Put(L.S, id, Tag(s))
             \/ S = Write(Put(L.S, id, Tag(s)), Root, Tag(s))
          /\ Step(s, S, t, [G EXCEPT !.pc = "body", !.wset = W, !.used = U])
    BY <1>11 DEF FindOrCreateOp, FindOrCountOp, L, G, q
  <2>2. id \in Ids
    BY <2>1, MintType
  <2>3. Writer(S)
    BY <1>1, <1>2, <1>5, <2>1, <2>2
  <2> QED
    BY <1>6, <2>1, <2>3, StepOnce
<1>12. CASE CreateOp(s)
  <2>1. PICK id, W, U :
          /\ id \in Mint[s]
          /\ Step(s, Put(ses[s], id, Tag(s)), txn[s], [G EXCEPT !.wset = W, !.used = U])
    BY <1>12 DEF CreateOp, G, q
  <2>2. id \in Ids
    BY <2>1, MintType
  <2>3. G.pc = "body"
    BY <1>1, <1>12 DEF CreateOp, CanOp, At, G, q, Counted, Req
  <2>4. Once([G EXCEPT !.wset = W, !.used = U])
    BY <1>4, <2>3, UncommittedOnce DEF Req
  <2> QED
    BY <1>1, <1>5, <2>1, <2>2, <2>4, StepOnce
<1>13. CASE EnqueueOp(s)
  <2>1. PICK r : r = Join(Done(ses[s], txn[s]), Tag(s))
    OBVIOUS
  <2>2. Writer(r.S) /\ r.exc # "ro"
    BY <1>1, <2>1, FromSelf, JoinFrom, FromWriter, PartsType
  <2>3. G.pc = "body"
    BY <1>1, <1>13 DEF EnqueueOp, CanOp, At, G, q, Counted, Req
  <2>4. Once([G EXCEPT !.enqueued = TRUE])
    BY <1>4, <2>3, UncommittedOnce DEF Req
  <2>5. Once([G EXCEPT !.pc = "caught", !.exc = r.exc])
    BY <1>4, <2>2, UncommittedOnce DEF Req
  <2>6. Step(s, r.S, r.t, IF Ok(r) THEN [G EXCEPT !.enqueued = TRUE]
                          ELSE [G EXCEPT !.pc = "caught", !.exc = r.exc])
    BY <1>13, <2>1 DEF EnqueueOp, G
  <2> QED
    BY <2>2, <2>4, <2>5, <2>6, StepOnce
<1>14. CASE OnCommitOp(s) \/ WalkEnds(s) \/ FailOp(s)
  <2>1. G.pc = "body"
    BY <1>1, <1>14 DEF OnCommitOp, WalkEnds, FailOp, CanOp, At, G, q, Counted, Req
  <2>2. /\ Once([G EXCEPT !.effect = TRUE])
        /\ Once([G EXCEPT !.pc = "flush", !.kind = "walk", !.tries = 0])
        /\ Once(Throw(G, "app"))
    BY <1>4, <2>1, UncommittedOnce DEF Throw, Req
  <2> QED
    BY <1>1, <1>14, <2>2, StepOnce DEF OnCommitOp, WalkEnds, FailOp, G
<1>15. CASE Swallow(s) \/ Propagate(s) \/ Return(s)
  <2>1. /\ Once([q EXCEPT !.pc = "body", !.exc = "none"])
        /\ Once(Goto(q, "handler"))
        /\ Once([q EXCEPT !.pc = "flush", !.kind = "final", !.tries = 0])
    BY <1>1, <1>3, UncommittedOnce DEF Goto, Req
  <2> QED
    BY <1>1, <1>15, <2>1, StepOnce DEF Swallow, Propagate, Return, q
<1> QED
  BY <1>7, <1>8, <1>9, <1>10, <1>11, <1>12, <1>13, <1>14, <1>15 DEF Walker

LEMMA CommitFailsOnce ==
    ASSUME TypeOK, OnceInv, NEW s \in Sessions, NEW r, From(ses[s], r),
           req[s].pc \in {"flush", "commit"}, CommitFails(s, r.S, r.exc)
    PROVE  OnceInv'
<1>1. /\ r.S \in Ses /\ r.t \in Txn /\ r.exc \in Exceptions
      /\ Writer(r.S) /\ r.exc # "ro"
      /\ req[s] \in Req /\ Once(req[s])
  BY PartsType, FromWriter DEF OnceInv
<1>2. PICK p : p = IF r.exc = "db" THEN Replay(r.S, req[s].tries >= ReplayMax)
                   ELSE Raise(Rollback(r.S), NoTxn, r.exc)
  OBVIOUS
<1>3. Writer(p.S) /\ p.exc # "ro" /\ p.exc \in Exceptions
  <2>1. CASE r.exc = "db"
    <3>1. (req[s].tries >= ReplayMax) \in BOOLEAN
      BY <1>1
    <3>2. From(ses[s], p)
      BY <1>2, <2>1, <3>1, ReplayFrom
    <3> QED
      BY <3>2, FromWriter DEF OnceInv
  <2>2. CASE r.exc # "db"
    BY <1>1, <1>2, <2>2, RollbackKeeps DEF Keeps, Raise
  <2> QED
    BY <2>1, <2>2
<1>4. PICK n : n = req[s].tries + 1
  OBVIOUS
<1>5. Once([req[s] EXCEPT !.pc = "flush", !.tries = n])
  BY <1>1 DEF Once, FiredOnce, Committed, Req
<1>6. Once(Settle(req[s], p.exc))
  BY <1>1, <1>3 DEF Settle, Goto, Throw, Once, FiredOnce, Committed, Req, Kinds
<1>7. \/ Becomes(s, p.S, p.t, [req[s] EXCEPT !.pc = "flush", !.tries = n])
      \/ Becomes(s, p.S, p.t, Settle(req[s], p.exc))
  BY <1>1, <1>2, <1>4 DEF CommitFails, Req
<1> QED
  BY <1>3, <1>5, <1>6, <1>7, BecomesOnce

LEMMA AfterCommitOnce ==
    ASSUME TypeOK, OnceInv, NEW s \in Sessions, At(s, "commit"), AfterCommit(s)
    PROVE  OnceInv'
<1>1. /\ ses[s] \in Ses /\ req[s] \in Req /\ Writer(ses[s]) /\ Once(req[s])
  BY PartsType DEF OnceInv
<1>2. PICK S : S = LeaveQueue(Promote(ses[s]))
  OBVIOUS
<1>3. Writer(S) /\ Writer(RegisterWriters(S))
  <2>1. Promote(ses[s]) \in Ses /\ Writer(Promote(ses[s]))
    BY <1>1, PromoteKeeps DEF Keeps
  <2>2. S \in Ses /\ Writer(S)
    BY <1>2, <2>1 DEF LeaveQueue, Ses, Writer
  <2> QED
    BY <2>2, RegisterWritersType
<1>4. PICK G : G = Goto(req[s], AfterKind[req[s].kind])
  OBVIOUS
<1>5. /\ G \in Req /\ G.pc = AfterKind[req[s].kind]
      /\ G.kind = req[s].kind /\ G.committed = req[s].committed
      /\ G.fired = req[s].fired /\ G.effect = req[s].effect /\ G.exc = req[s].exc
  <2>1. AfterKind[req[s].kind] \in Pcs
    BY <1>1, SMTT(60) DEF Req, Kinds, AfterKind, Pcs
  <2> QED
    BY <1>1, <1>4, <2>1 DEF Goto, Req
<1>6. PICK c, w, v :
        /\ c = (G.committed \/ G.kind = "final")
        /\ Becomes(s, IF InFlight(ses[s]) THEN RegisterWriters(S) ELSE S, NoTxn,
                   [G EXCEPT !.committed = c, !.won = w, !.saved = v])
  BY <1>2, <1>4, <1>5 DEF AfterCommit, Req
<1>7. Once([G EXCEPT !.committed = c, !.won = w, !.saved = v])
  <2>1. /\ G.fired <= 1 /\ G.exc # "ro"
        /\ G.fired = 1 => c /\ ~G.effect
    BY <1>1, <1>5, <1>6 DEF Once, FiredOnce
  <2>2. /\ G.pc \in {"body", "effects", "exit", "leave"}
        /\ G.pc = "effects" => c
        /\ c => G.pc # "body"
    <3>1. req[s].pc = "commit" /\ req[s].kind \in Kinds
      BY <1>1 DEF At, Req
    <3>2. req[s].kind = "walk" => ~req[s].committed
      BY <1>1, <3>1 DEF Once, Committed
    <3>3. CASE req[s].kind = "walk"
      <4>1. G.pc = "body" /\ ~G.committed /\ G.kind # "final"
        BY <1>5, <3>2, <3>3 DEF AfterKind
      <4> QED
        BY <1>6, <4>1
    <3>4. CASE req[s].kind = "final"
      <4>1. G.pc = "effects" /\ G.kind = "final"
        BY <1>5, <3>4 DEF AfterKind
      <4> QED
        BY <1>6, <4>1
    <3>5. CASE req[s].kind \in {"outer", "close"}
      <4>1. G.pc \in {"exit", "leave"}
        BY <1>5, <3>5 DEF AfterKind
      <4> QED
        BY <4>1
    <3> QED
      BY <3>1, <3>3, <3>4, <3>5 DEF Kinds
  <2> QED
    BY <1>5, <2>1, <2>2 DEF Once, FiredOnce, Committed, Req
<1> QED
  BY <1>3, <1>6, <1>7, BecomesOnce

LEMMA CommitOnce ==
    ASSUME TypeOK, OnceInv, NEW s \in Sessions,
           FlushAll(s) \/ SqlCommit(s) \/ SqlCommitFails(s) \/ CommitUnanswered(s)
    PROVE  OnceInv'
<1>1. /\ ses[s] \in Ses /\ txn[s] \in Txn /\ req[s] \in Req /\ StoreReady
      /\ Writer(ses[s]) /\ Once(req[s])
  BY PartsType DEF OnceInv
<1>2. From(ses[s], Done(ses[s], txn[s]))
  BY PartsType
<1>3. CASE FlushAll(s)
  <2>1. PICK r : r = IF ses[s].lost THEN Raise(ses[s], txn[s], "lost")
                     ELSE Flush(s, Done(ses[s], txn[s]), TRUE)
    OBVIOUS
  <2>2. From(ses[s], r) /\ Writer(r.S)
    BY <1>1, <1>2, <2>1, FromSelfRaise, FlushFrom, FromWriter DEF Exceptions
  <2>3. req[s].pc = "flush"
    BY <1>3 DEF FlushAll, At
  <2>4. Once(Goto(req[s], "commit"))
    BY <1>1, <2>3 DEF Goto, Once, FiredOnce, Committed, Req
  <2>5. \/ Becomes(s, r.S, r.t, Goto(req[s], "commit"))
        \/ CommitFails(s, r.S, r.exc)
    BY <1>3, <2>1 DEF FlushAll
  <2> QED
    BY <2>2, <2>3, <2>4, <2>5, BecomesOnce, CommitFailsOnce
<1>4. CASE SqlCommit(s)
  BY <1>4, AfterCommitOnce DEF SqlCommit, CanCommit
<1>5. CASE SqlCommitFails(s) \/ CommitUnanswered(s)
  <2>1. PICK r : r = Raise(ses[s], txn[s], "db")
    OBVIOUS
  <2>2. From(ses[s], r) /\ r.S = ses[s] /\ r.exc = "db"
    BY <1>1, <2>1, FromSelfRaise DEF Raise, Exceptions
  <2>3. CommitFails(s, r.S, r.exc) /\ req[s].pc = "commit"
    BY <1>5, <2>2 DEF SqlCommitFails, CommitUnanswered, CanCommit, At
  <2> QED
    BY <2>2, <2>3, CommitFailsOnce
<1> QED
  BY <1>3, <1>4, <1>5

LEMMA EffectOnce ==
    ASSUME TypeOK, OnceInv, NEW s \in Sessions,
           \/ NoEffect(s) \/ PlainEffect(s) \/ WritingEffect(s) \/ EffectWrites(s)
    PROVE  OnceInv'
<1>1. /\ ses[s] \in Ses /\ txn[s] \in Txn /\ req[s] \in Req /\ Tag(s) \in Tags
      /\ Root \in Ids /\ {Root} \in SUBSET Ids /\ Writer(ses[s]) /\ Once(req[s])
  BY PartsType, RootType DEF OnceInv
<1>2. CASE NoEffect(s)
  <2>1. Once([req[s] EXCEPT !.pc = "flush", !.kind = "outer", !.tries = 0])
    BY <1>1 DEF Once, FiredOnce, Committed, Req
  <2> QED
    BY <1>1, <1>2, <2>1, StepOnce DEF NoEffect
<1>3. CASE PlainEffect(s)
  <2>1. /\ req[s].pc = "effects" /\ req[s].effect /\ req[s].fired = 0
        /\ req[s].committed /\ req[s].exc # "ro"
    BY <1>1, <1>3 DEF PlainEffect, At, Once, FiredOnce, Req
  <2>2. Once(Fired(s))
    BY <1>1, <2>1 DEF Fired, Once, FiredOnce, Committed, Req
  <2> QED
    BY <1>1, <1>3, <2>2, StepOnce DEF PlainEffect
<1>4. CASE WritingEffect(s)
  <2>1. req[s].committed /\ req[s].effect
    BY <1>1, <1>4 DEF WritingEffect, At, Once
  <2> QED
    BY <1>1, <1>4, <2>1, ReadOnce DEF WritingEffect, OpNames
<1>5. CASE EffectWrites(s)
  <2>1. Loaded(s).S \in Ses /\ Writer(Loaded(s).S)
    BY LoadedOnce
  <2>2. Writer(Write(Loaded(s).S, Root, Tag(s)))
    BY <1>1, <2>1, WriteKeeps DEF Keeps
  <2>3. /\ req[s].effect /\ req[s].fired = 0
        /\ req[s].committed /\ req[s].exc # "ro"
    BY <1>1, <1>5 DEF EffectWrites, Finds, Loading, At, Once, FiredOnce, Req
  <2>4. PICK W : Step(s, Write(Loaded(s).S, Root, Tag(s)), Loaded(s).t,
             [Fired(s) EXCEPT !.pc = "effects", !.wset = W])
    <3>1. Fired(s) \in Req
      BY <1>1, FiredType
    <3> QED
      BY <1>5, <3>1 DEF EffectWrites, Req
  <2>5. Once([Fired(s) EXCEPT !.pc = "effects", !.wset = W])
    BY <1>1, <2>3 DEF Fired, Once, FiredOnce, Committed, Req
  <2> QED
    BY <2>2, <2>4, <2>5, StepOnce
<1> QED
  BY <1>2, <1>3, <1>4, <1>5

LEMMA ReplyOnce ==
    ASSUME TypeOK, OnceInv, NEW s \in Sessions, NEW a, At(s, "handler"), Reply(s, a)
    PROVE  OnceInv'
<1>1. /\ ses[s] \in Ses /\ req[s] \in Req /\ Writer(ses[s]) /\ Once(req[s])
  BY PartsType DEF OnceInv
<1>2. Abort(ses[s]) \in Ses /\ Writer(Abort(ses[s]))
  BY <1>1, AbortWriter
<1>3. Writer([Abort(ses[s]) EXCEPT !.unit = "none", !.raised = FALSE])
  BY <1>2 DEF Writer, Ses
<1>4. Once([req[s] EXCEPT !.pc = "close", !.answer = a, !.effect = FALSE])
  BY <1>1 DEF Once, FiredOnce, Committed, Req
<1> QED
  BY <1>3, <1>4, StepOnce DEF Reply

LEMMA RerunOnce ==
    ASSUME TypeOK, OnceInv, ReadTier = FALSE, NEW s \in Sessions,
           NEW pc \in {"turn", "reload"}, NEW attempt, ~req[s].committed,
           Rerun(s, ses[s], pc, attempt)
    PROVE  OnceInv'
<1>1. /\ ses[s] \in Ses /\ req[s] \in Req /\ Writer(ses[s]) /\ Once(req[s])
  BY PartsType DEF OnceInv
<1>2. Reenter(ses[s]) \in Ses /\ Writer(Reenter(ses[s]))
  BY <1>1, UnitType, UnitWriter DEF Reenter, Writer
<1>3. Writer(Abort(Reenter(ses[s])))
  BY <1>2, AbortWriter
<1>4. PICK k, n :
        Step(s, Abort(Reenter(ses[s])), NoTxn,
             [req[s] EXCEPT !.pc = pc, !.exc = "none", !.attempt = attempt,
                            !.roRetries = k, !.committed = FALSE,
                            !.effect = FALSE, !.ops = 0, !.run = n, !.wset = {},
                            !.dset = {}, !.enqueued = FALSE, !.saved = FALSE])
  BY <1>1 DEF Rerun, Req
<1>5. req[s].fired = 0
  BY <1>1 DEF Once, FiredOnce, Req
<1>6. Once([req[s] EXCEPT !.pc = pc, !.exc = "none", !.attempt = attempt,
                            !.roRetries = k, !.committed = FALSE,
                            !.effect = FALSE, !.ops = 0, !.run = n, !.wset = {},
                            !.dset = {}, !.enqueued = FALSE, !.saved = FALSE])
  BY <1>1, <1>5, UncommittedOnce DEF Req
<1> QED
  BY <1>3, <1>4, <1>6, StepOnce

LEMMA HandlerOnce ==
    ASSUME TypeOK, OnceInv, ReadTier = FALSE, NEW s \in Sessions,
           \/ UnitExit(s) \/ HandleReadOnlyRetry(s) \/ HandleConflict(s)
           \/ HandleError(s) \/ HandleAfterCommit(s)
    PROVE  OnceInv'
<1>1. /\ ses[s] \in Ses /\ req[s] \in Req /\ Writer(ses[s]) /\ Once(req[s])
  BY PartsType DEF OnceInv
<1>2. CASE UnitExit(s)
  <2>1. Step(s, [ses[s] EXCEPT !.unit = "none", !.raised = FALSE], txn[s],
             [req[s] EXCEPT !.pc = "close", !.answer = "ok"])
    BY <1>1, <1>2 DEF UnitExit, Writer
  <2>2. Writer([ses[s] EXCEPT !.unit = "none", !.raised = FALSE])
    BY <1>1 DEF Writer, Ses
  <2>3. Once([req[s] EXCEPT !.pc = "close", !.answer = "ok"])
    BY <1>1 DEF Once, FiredOnce, Committed, Req
  <2> QED
    BY <2>1, <2>2, <2>3, StepOnce
<1>3. CASE HandleReadOnlyRetry(s)
  BY <1>1, <1>3 DEF HandleReadOnlyRetry, Once, FiredOnce
<1>4. CASE HandleConflict(s)
  BY <1>4, ReplyOnce, RerunOnce DEF HandleConflict
<1>5. CASE HandleError(s)
  BY <1>5, ReplyOnce, RerunOnce DEF HandleError
<1>6. CASE HandleAfterCommit(s)
  BY <1>6, ReplyOnce DEF HandleAfterCommit
<1> QED
  BY <1>2, <1>3, <1>4, <1>5, <1>6

LEMMA RestOnce ==
    ASSUME TypeOK, OnceInv, NEW s \in Sessions,
           \/ NoTurn(s) \/ LeavePlace(s) \/ TakeTurn(s) \/ TurnTimesOut(s) \/ Pin(s)
           \/ Reload(s) \/ Reloaded(s) \/ CloseSession(s) \/ LeaveSession(s)
    PROVE  OnceInv'
<1>1. /\ ses[s] \in Ses /\ req[s] \in Req /\ Writer(ses[s]) /\ Once(req[s])
      /\ Root \in Ids /\ {Root} \in SUBSET Ids
  BY PartsType, RootType DEF OnceInv
<1>2. CASE NoTurn(s) \/ LeavePlace(s) \/ TakeTurn(s) \/ TurnTimesOut(s) \/ Pin(s)
  <2>1. ~req[s].committed /\ req[s].fired = 0 /\ req[s].exc # "ro"
    BY <1>2, EarlyOnce DEF NoTurn, LeavePlace, TakeTurn, TurnTimesOut, Pin, At, Uncommitted
  <2>2. Once(Goto(req[s], "reload")) /\ Once(Goto(req[s], "pin"))
    BY <1>1, <2>1, UncommittedOnce DEF Goto, Req
  <2>3. /\ Writer([ses[s] EXCEPT !.queued = ses[s].contended])
        /\ Writer([ses[s] EXCEPT !.queued = {}])
        /\ Writer([ses[s] EXCEPT !.contended = {}])
    BY <1>1 DEF Writer, Ses
  <2>4. PICK S, t, q : /\ Becomes(s, S, t, q)
                       /\ Writer(S) /\ Once(q)
    BY <1>1, <1>2, <2>2, <2>3 DEF NoTurn, LeavePlace, TakeTurn, TurnTimesOut, Pin, Step
  <2> QED
    BY <2>4, BecomesOnce
<1>3. CASE Reload(s)
  <2>1. ~req[s].committed
    BY <1>3, EarlyOnce DEF Reload, At, Uncommitted
  <2> QED
    BY <1>1, <1>3, <2>1, ReadOnce DEF Reload, OpNames
<1>4. CASE Reloaded(s)
  <2>1. ~req[s].committed /\ req[s].fired = 0 /\ req[s].exc # "ro"
    BY <1>4, EarlyOnce DEF Reloaded, Loading, At
  <2>2. Once(Goto(req[s], "body"))
    BY <1>1, <2>1, UncommittedOnce DEF Goto, Req
  <2> QED
    BY <1>4, <2>2, LoadedOnce, StepOnce DEF Reloaded
<1>5. CASE CloseSession(s)
  <2>1. req[s].pc = "close"
    BY <1>5 DEF CloseSession, At
  <2>2. Once([req[s] EXCEPT !.pc = "flush", !.kind = "close", !.tries = 0])
    BY <1>1, <2>1 DEF Once, FiredOnce, Committed, Req
  <2> QED
    BY <1>1, <1>5, <2>2, StepOnce DEF CloseSession
<1>6. CASE LeaveSession(s)
  <2>1. Once(Goto(req[s], "answered"))
    BY <1>1 DEF Goto, Once, FiredOnce, Committed, Req
  <2> QED
    BY <1>6, <2>1, NewSessionType, BecomesOnce DEF LeaveSession
<1> QED
  BY <1>2, <1>3, <1>4, <1>5, <1>6

LEMMA OnceNext ==
    ASSUME TypeOK, OnceInv, ReadTier = FALSE, [Next]_vars PROVE OnceInv'
<1>1. CASE UNCHANGED vars
  BY <1>1 DEF vars, OnceInv, Writer, Once, FiredOnce, Committed
<1>2. ASSUME NEW s \in Sessions, Walker(s) \/ Server(s) \/ Network(s)
      PROVE  OnceInv'
  <2>1. CASE ConnectionLost(s)
    BY <2>1 DEF ConnectionLost, OnceInv, Writer, Once, FiredOnce, Committed
  <2> QED
    BY <1>2, <2>1, WalkerOnce, ArrivalOnce, RereadOnce, CommitOnce, EffectOnce,
       HandlerOnce, RestOnce DEF Server, Network
<1> QED
  BY <1>1, <1>2 DEF Next, Terminated

(* With the read tier off, the effects a request registered with on_commit *)
(* run at most once, however often it conflicts, replays or is re-run, and *)
(* whatever fails: _run_function_with_occ never re-runs a request that has *)
(* committed, unless for a ReadOnlyRetry.                                  *)
THEOREM EffectsRunOnce == ASSUME ReadTier = FALSE PROVE Spec => []EffectsOnce
<1>1. Init => TypeOK /\ OnceInv
  BY InitType, OnceInit
<1>2. TypeOK /\ OnceInv /\ [Next]_vars => OnceInv'
  BY OnceNext
<1>3. OnceInv => EffectsOnce
  BY DEF OnceInv, Once, FiredOnce, EffectsOnce
<1> QED
  BY <1>1, <1>2, <1>3, TypeCorrect, PTL DEF Spec

-----------------------------------------------------------------------------
(* Places in the write queue.                                              *)

(* A session knows every place it holds.                                   *)
PlacesTold == \A s \in Sessions : advisory[s] \subseteq ses[s].queued

(* The places of two sessions are for different rows.                      *)
PlacesApart ==
    \A s, o \in Sessions : s # o => advisory[s] \cap advisory[o] = {}

QueueInv == PlacesTold /\ PlacesApart /\ (faults = 0 => QueueKnown)

(* A step of s that neither takes a place nor leaves one.                  *)
PlacesStay(s) ==
    /\ \E S, t, q : Becomes(s, S, t, q) /\ S.queued = ses[s].queued
    /\ UNCHANGED <<advisory, faults>>

(* A step of s that gives its places back.                                 *)
Leaves(s) == /\ \E S, t, q : Becomes(s, S, t, q) /\ S.queued = {}
             /\ advisory' = [advisory EXCEPT ![s] = {}]
             /\ UNCHANGED faults

-----------------------------------------------------------------------------
LEMMA QueueInit == Init => QueueInv
<1>1. NewSession.queued = {} /\ [NewSession EXCEPT !.recorded = TRUE].queued = {}
  BY DEF NewSession
<1> QED
  BY <1>1 DEF Init, StoreInit, QueueInv, PlacesTold, PlacesApart, QueueKnown

LEMMA QuietQueue ==
    ASSUME TypeOK, QueueInv, NEW s \in Sessions, PlacesStay(s) PROVE QueueInv'
<1>1. PICK S : ses' = [ses EXCEPT ![s] = S] /\ S.queued = ses[s].queued
  BY DEF PlacesStay, Becomes
<1>2. advisory' = advisory /\ faults' = faults /\ ses \in [Sessions -> Ses]
  BY DEF PlacesStay, TypeOK
<1>3. \A o \in Sessions : ses'[o].queued = ses[o].queued
  BY <1>1, <1>2
<1> QED
  BY <1>2, <1>3 DEF QueueInv, PlacesTold, PlacesApart, QueueKnown

LEMMA LeavesQueue ==
    ASSUME TypeOK, QueueInv, NEW s \in Sessions, Leaves(s) PROVE QueueInv'
<1>1. PICK S : ses' = [ses EXCEPT ![s] = S] /\ S.queued = {}
  BY DEF Leaves, Becomes
<1>2. /\ ses \in [Sessions -> Ses] /\ advisory \in [Sessions -> SUBSET Ids]
      /\ advisory' = [advisory EXCEPT ![s] = {}] /\ faults' = faults
  BY DEF Leaves, TypeOK, StoreTypeOK
<1>3. /\ ses'[s].queued = {} /\ advisory'[s] = {}
      /\ \A o \in Sessions \ {s} : ses'[o] = ses[o] /\ advisory'[o] = advisory[o]
  BY <1>1, <1>2
<1> QED
  BY <1>2, <1>3 DEF QueueInv, PlacesTold, PlacesApart, QueueKnown

(* The places of s go with its connection; the session does not know.      *)
LEMMA LosesQueue ==
    ASSUME TypeOK, QueueInv, NEW s \in Sessions,
           \A o \in Sessions : ses'[o].queued = ses[o].queued,
           advisory' = [advisory EXCEPT ![s] = {}], faults' = faults + 1
    PROVE  QueueInv'
<1>1. /\ advisory'[s] = {}
      /\ \A o \in Sessions \ {s} : advisory'[o] = advisory[o]
      /\ faults \in Nat
  BY DEF TypeOK, StoreTypeOK
<1>2. PlacesTold' /\ PlacesApart'
  BY <1>1 DEF QueueInv, PlacesTold, PlacesApart
<1>3. faults' # 0
  BY <1>1
<1> QED
  BY <1>2, <1>3 DEF QueueInv

LEMMA StepQuiet ==
    ASSUME NEW s \in Sessions, NEW S, NEW t, NEW q, Step(s, S, t, q),
           S.queued = ses[s].queued
    PROVE  PlacesStay(s)
  BY DEF Step, PlacesStay

LEMMA FromQueued ==
    ASSUME NEW O, NEW r, From(O, r)
    PROVE  r.S \in Ses /\ r.t \in Txn /\ r.S.queued = O.queued
  BY DEF From, Outcome

-----------------------------------------------------------------------------
(* Reading                                                                 *)

LEMMA FailsQuiet ==
    ASSUME NEW s \in Sessions, NEW r, NEW q, r.S \in Ses,
           r.S.queued = ses[s].queued, Fails(s, r, q)
    PROVE  PlacesStay(s)
<1>1. Abort(r.S).queued = r.S.queued /\ [r.S EXCEPT !.lost = TRUE].queued = r.S.queued
  BY AbortKeeps DEF Keeps, Ses
<1>2. FailedSession(q, r.S, r.exc).queued = ses[s].queued
  BY <1>1 DEF FailedSession
<1> QED
  BY <1>2, StepQuiet DEF Fails

LEMMA RetriesQuiet ==
    ASSUME NEW s \in Sessions, NEW O, O.queued = ses[s].queued, NEW r, From(O, r),
           NEW q, NEW next, Retries(s, r, q, next)
    PROVE  PlacesStay(s)
<1>1. PICK p : p = Replay(r.S, FALSE)
  OBVIOUS
<1>2. /\ p.S \in Ses /\ p.S.queued = ses[s].queued
      /\ r.S \in Ses /\ r.S.queued = ses[s].queued
  BY <1>1, ReplayFrom, FromQueued
<1>3. CASE Step(s, p.S, p.t, [q EXCEPT !.pc = "barrier", !.tries = next])
  BY <1>2, <1>3, StepQuiet
<1>4. CASE Fails(s, p, q) \/ Fails(s, r, q)
  BY <1>2, <1>4, FailsQuiet
<1> QED
  BY <1>1, <1>3, <1>4 DEF Retries

LEMMA BarrierQuiet ==
    ASSUME TypeOK, NEW s \in Sessions, NEW S \in Ses, S.queued = ses[s].queued,
           NEW q, Barrier(s, S, q)
    PROVE  PlacesStay(s)
<1>1. PICK r : r = IF q.op.load = {} THEN Done(S, txn[s])
                   ELSE ReadBarrier(s, Done(S, txn[s]))
  OBVIOUS
<1>2. From(S, r)
  BY <1>1, PartsType, FromSelf, ReadBarrierFrom
<1>3. Step(s, r.S, r.t, Goto(q, "load")) \/ Retries(s, r, q, q.tries + 1)
  BY <1>1 DEF Barrier
<1> QED
  BY <1>2, <1>3, FromQueued, StepQuiet, RetriesQuiet

LEMMA ReadQuiet ==
    ASSUME TypeOK, NEW s \in Sessions, NEW S \in Ses, S.queued = ses[s].queued,
           NEW name, NEW id, NEW L, Read(s, S, name, id, L)
    PROVE  PlacesStay(s)
  BY BarrierQuiet DEF Read

LEMMA LoadedQueued ==
    ASSUME TypeOK, NEW s \in Sessions
    PROVE  Loaded(s).S \in Ses /\ Loaded(s).S.queued = ses[s].queued
  BY LoadedFrom, FromQueued

-----------------------------------------------------------------------------
(* The actions                                                             *)

LEMMA ArrivalQuiet ==
    ASSUME TypeOK, NEW s \in Sessions,
           \/ Arrive(s) \/ ScopeLoaded(s) \/ ExitScope(s) \/ Open(s) \/ OpenUnit(s)
           \/ BarrierAgain(s) \/ LoadFails(s)
    PROVE  PlacesStay(s)
<1>1. ses[s] \in Ses /\ txn[s] \in Txn /\ StoreReady
  BY PartsType
<1>2. From(ses[s], Loaded(s)) /\ Loaded(s).S \in Ses /\ Loaded(s).t \in Txn
      /\ Loaded(s).S.queued = ses[s].queued
  BY LoadedFrom, LoadedQueued
<1>3. CASE Arrive(s)
  <2>1. /\ [ses[s] EXCEPT !.scope = TRUE] \in Ses
        /\ [ses[s] EXCEPT !.scope = TRUE].queued = ses[s].queued
    BY <1>1 DEF Ses
  <2> QED
    BY <1>1, <1>3, <2>1, StepQuiet, ReadQuiet DEF Arrive
<1>4. CASE ScopeLoaded(s)
  BY <1>2, <1>4, StepQuiet DEF ScopeLoaded
<1>5. CASE ExitScope(s)
  <2>1. PICK S : S = [ses[s] EXCEPT !.scope = FALSE]
    OBVIOUS
  <2>2. S \in Ses /\ S.queued = ses[s].queued
    BY <1>1, <2>1 DEF Ses
  <2>3. PICK C : C = IF txn[s].dead THEN Rollback(S) ELSE Promote(S)
    OBVIOUS
  <2>4. C \in Ses /\ C.queued = S.queued
    BY <2>2, <2>3, RollbackKeeps, PromoteKeeps DEF Keeps
  <2>5. DropSnapshotReads(C).queued = ses[s].queued
    BY <2>2, <2>4, DropSnapshotReadsKeeps DEF Keeps
  <2>6. PICK q : Step(s, DropSnapshotReads(C), NoTxn, q) \/ Step(s, S, txn[s], q)
    BY <1>5, <2>1, <2>3 DEF ExitScope
  <2> QED
    BY <2>2, <2>5, <2>6, StepQuiet
<1>6. CASE Open(s)
  BY <1>1, <1>6, ReadQuiet DEF Open
<1>7. CASE OpenUnit(s)
  <2>1. PICK U : U = Unit(Loaded(s).S)
    OBVIOUS
  <2>2. U \in Ses /\ U.queued = ses[s].queued
    BY <1>2, <2>1 DEF Unit, Ses
  <2>3. PICK u : u = UnitEnter(Loaded(s))
    OBVIOUS
  <2>4. u.S.queued = ses[s].queued
    <3>1. EnsureTxn(Done(U, Loaded(s).t)).S.queued = U.queued
      BY <1>1, <1>2, <2>2, FromSelf, EnsureTxnFrom, FromQueued
    <3>2. Loaded(s) \in Outcome
      BY <1>2 DEF From
    <3>3. [Loaded(s) EXCEPT !.S = Unit(@)].S = U
      BY <2>1, <3>2 DEF Outcome
    <3> QED
      BY <2>1, <2>2, <2>3, <3>1, <3>3 DEF UnitEnter
  <2>5. PICK q : Step(s, u.S, u.t, q)
    BY <1>7, <2>3 DEF OpenUnit
  <2> QED
    BY <2>4, <2>5, StepQuiet
<1>8. CASE BarrierAgain(s)
  BY <1>1, <1>8, BarrierQuiet DEF BarrierAgain
<1>9. CASE LoadFails(s)
  BY <1>2, <1>9, RetriesQuiet DEF LoadFails
<1> QED
  BY <1>3, <1>4, <1>5, <1>6, <1>7, <1>8, <1>9

LEMMA WalkerQuiet ==
    ASSUME TypeOK, NEW s \in Sessions, Walker(s) PROVE PlacesStay(s)
<1> DEFINE L == Loaded(s)
<1>1. ses[s] \in Ses /\ txn[s] \in Txn /\ StoreReady /\ Tag(s) \in Tags /\ Root \in Ids
      /\ req[s].op.id \in Ids
  BY PartsType, RootType DEF Req, Op
<1>2. L.S \in Ses /\ L.S.queued = ses[s].queued
  BY LoadedQueued
<1>3. \A S \in Ses, id \in Ids :
        /\ Put(S, id, Tag(s)) \in Ses /\ Put(S, id, Tag(s)).queued = S.queued
        /\ Write(S, id, Tag(s)).queued = S.queued
        /\ Mutate(S, id, Tag(s)).queued = S.queued
        /\ DeleteAnchor(S, id).queued = S.queued
  BY <1>1, WriteKeeps DEF Keeps
<1> HIDE DEF L
<1>4. CASE Get(s) \/ FindChild(s)
  BY <1>1, <1>4, ReadQuiet DEF Get, FindChild
<1>5. CASE ReadOp(s) \/ FoundOp(s)
  BY <1>2, <1>5, StepQuiet DEF ReadOp, FoundOp, L
<1>6. CASE WriteOp(s) \/ MutateOp(s) \/ DeleteOp(s)
  <2>1. PICK S, t, q :
          /\ \/ S = Write(L.S, req[s].op.id, Tag(s))
             \/ S = Mutate(L.S, req[s].op.id, Tag(s))
             \/ S = DeleteAnchor(L.S, req[s].op.id)
          /\ Step(s, S, t, q)
    BY <1>6 DEF WriteOp, MutateOp, DeleteOp, L
  <2>2. S.queued = ses[s].queued
    BY <1>1, <1>2, <1>3, <2>1, SMTT(60)
  <2> QED
    BY <2>1, <2>2, StepQuiet
<1>7. CASE FindOrCreateOp(s) \/ FindOrCountOp(s) \/ CreateOp(s)
  <2>1. PICK id, S, t, q :
          /\ id \in Mint[s]
          /\ \/ S = Put(L.S, id, Tag(s))
             \/ S = Write(Put(L.S, id, Tag(s)), Root, Tag(s))
             \/ S = Put(ses[s], id, Tag(s))
          /\ Step(s, S, t, q)
    BY <1>7 DEF FindOrCreateOp, FindOrCountOp, CreateOp, L
  <2>2. id \in Ids
    BY <2>1, MintType
  <2>3. /\ Put(L.S, id, Tag(s)) \in Ses /\ Put(L.S, id, Tag(s)).queued = ses[s].queued
        /\ Put(ses[s], id, Tag(s)).queued = ses[s].queued
    BY <1>1, <1>2, <1>3, <2>2
  <2>4. Write(Put(L.S, id, Tag(s)), Root, Tag(s)).queued = ses[s].queued
    BY <1>1, <1>3, <2>3
  <2>5. S.queued = ses[s].queued
    BY <2>1, <2>3, <2>4
  <2> QED
    BY <2>1, <2>5, StepQuiet
<1>8. CASE EnqueueOp(s)
  <2>1. PICK r : r = Join(Done(ses[s], txn[s]), Tag(s))
    OBVIOUS
  <2>2. r.S.queued = ses[s].queued
    BY <1>1, <2>1, FromSelf, JoinFrom, FromQueued
  <2>3. PICK q : Step(s, r.S, r.t, q)
    BY <1>8, <2>1 DEF EnqueueOp
  <2> QED
    BY <2>2, <2>3, StepQuiet
<1>9. CASE \/ OnCommitOp(s) \/ WalkEnds(s) \/ FailOp(s)
           \/ Swallow(s) \/ Propagate(s) \/ Return(s)
  BY <1>9, StepQuiet DEF OnCommitOp, WalkEnds, FailOp, Swallow, Propagate, Return
<1> QED
  BY <1>4, <1>5, <1>6, <1>7, <1>8, <1>9 DEF Walker

(* What a commit that fails makes of the session.                          *)
LEMMA CommitFailsQueued ==
    ASSUME TypeOK, NEW s \in Sessions, NEW r, From(ses[s], r),
           CommitFails(s, r.S, r.exc)
    PROVE  \E S, t, q : Becomes(s, S, t, q) /\ S.queued = ses[s].queued
<1>1. PICK p : p = IF r.exc = "db" THEN Replay(r.S, req[s].tries >= ReplayMax)
                   ELSE Raise(Rollback(r.S), NoTxn, r.exc)
  OBVIOUS
<1>2. p.S.queued = ses[s].queued
  <2>1. CASE r.exc = "db"
    <3>1. (req[s].tries >= ReplayMax) \in BOOLEAN
      BY PartsType
    <3> QED
      BY <1>1, <2>1, <3>1, ReplayFrom, FromQueued
  <2>2. CASE r.exc # "db"
    <3>1. r.S \in Ses /\ r.S.queued = ses[s].queued
      BY FromQueued
    <3>2. Rollback(r.S).queued = r.S.queued
      BY <3>1, RollbackKeeps DEF Keeps
    <3> QED
      BY <1>1, <2>2, <3>1, <3>2 DEF Raise
  <2> QED
    BY <2>1, <2>2
<1>3. PICK q : Becomes(s, p.S, p.t, q)
  BY <1>1 DEF CommitFails
<1> QED
  BY <1>2, <1>3

LEMMA AfterCommitLeaves ==
    ASSUME TypeOK, NEW s \in Sessions, AfterCommit(s), UNCHANGED faults
    PROVE  Leaves(s)
<1>1. PICK S : S = LeaveQueue(Promote(ses[s]))
  OBVIOUS
<1>2. S \in Ses /\ S.queued = {}
  <2>1. Promote(ses[s]) \in Ses
    BY PartsType, PromoteKeeps DEF Keeps
  <2> QED
    BY <1>1, <2>1 DEF LeaveQueue, Ses
<1>3. PICK t, q : Becomes(s, IF InFlight(ses[s]) THEN RegisterWriters(S) ELSE S, t, q)
  BY <1>1 DEF AfterCommit
<1>4. RegisterWriters(S).queued = {}
  BY <1>2, RegisterWritersType
<1> QED
  BY <1>2, <1>3, <1>4 DEF AfterCommit, Leaves

LEMMA CommitQueue ==
    ASSUME TypeOK, QueueInv, NEW s \in Sessions,
           FlushAll(s) \/ SqlCommit(s) \/ SqlCommitFails(s) \/ CommitUnanswered(s)
    PROVE  QueueInv'
<1>1. ses[s] \in Ses /\ txn[s] \in Txn /\ StoreReady /\ From(ses[s], Done(ses[s], txn[s]))
  BY PartsType
<1>2. CASE FlushAll(s)
  <2>1. PICK r : r = IF ses[s].lost THEN Raise(ses[s], txn[s], "lost")
                     ELSE Flush(s, Done(ses[s], txn[s]), TRUE)
    OBVIOUS
  <2>2. From(ses[s], r)
    BY <1>1, <2>1, FromSelfRaise, FlushFrom DEF Exceptions
  <2>3. \/ Becomes(s, r.S, r.t, Goto(req[s], "commit"))
        \/ CommitFails(s, r.S, r.exc)
    BY <1>2, <2>1 DEF FlushAll
  <2>4. \E S, t, q : Becomes(s, S, t, q) /\ S.queued = ses[s].queued
    BY <2>2, <2>3, FromQueued, CommitFailsQueued
  <2> QED
    BY <1>2, <2>4, QuietQueue DEF FlushAll, PlacesStay
<1>3. CASE SqlCommit(s)
  BY <1>3, AfterCommitLeaves, LeavesQueue DEF SqlCommit
<1>4. CASE SqlCommitFails(s) \/ CommitUnanswered(s)
  <2>1. PICK r : r = Raise(ses[s], txn[s], "db")
    OBVIOUS
  <2>2. From(ses[s], r) /\ r.S = ses[s] /\ r.exc = "db"
    BY <1>1, <2>1, FromSelfRaise DEF Raise, Exceptions
  <2>3. CommitFails(s, r.S, r.exc)
    BY <1>4, <2>2 DEF SqlCommitFails, CommitUnanswered
  <2>4. \E S, t, q : Becomes(s, S, t, q) /\ S.queued = ses[s].queued
    BY <2>2, <2>3, CommitFailsQueued
  <2>5. CASE SqlCommitFails(s)
    BY <2>4, <2>5, QuietQueue DEF SqlCommitFails, PlacesStay
  <2>6. CASE CommitUnanswered(s)
    <3>1. \A o \in Sessions : ses'[o].queued = ses[o].queued
      BY <2>4 DEF Becomes, TypeOK
    <3> QED
      BY <2>6, <3>1, LosesQueue DEF CommitUnanswered
  <2> QED
    BY <1>4, <2>5, <2>6
<1> QED
  BY <1>2, <1>3, <1>4

LEMMA EffectQuiet ==
    ASSUME TypeOK, NEW s \in Sessions,
           \/ NoEffect(s) \/ PlainEffect(s) \/ WritingEffect(s) \/ EffectWrites(s)
    PROVE  PlacesStay(s)
<1>1. ses[s] \in Ses /\ Root \in Ids /\ Tag(s) \in Tags
  BY PartsType, RootType
<1>2. CASE NoEffect(s) \/ PlainEffect(s)
  BY <1>2, StepQuiet DEF NoEffect, PlainEffect
<1>3. CASE WritingEffect(s)
  BY <1>1, <1>3, ReadQuiet DEF WritingEffect
<1>4. CASE EffectWrites(s)
  <2>1. Write(Loaded(s).S, Root, Tag(s)).queued = ses[s].queued
    BY <1>1, LoadedQueued, WriteKeeps DEF Keeps
  <2> QED
    BY <1>4, <2>1, StepQuiet DEF EffectWrites
<1> QED
  BY <1>2, <1>3, <1>4

(* An attempt that is given up keeps its place for the next one.           *)
LEMMA HandlerQuiet ==
    ASSUME TypeOK, NEW s \in Sessions,
           \/ UnitExit(s) \/ HandleReadOnlyRetry(s) \/ HandleConflict(s)
           \/ HandleError(s) \/ HandleAfterCommit(s)
    PROVE  PlacesStay(s)
<1>1. ses[s] \in Ses
  BY PartsType
<1>2. ASSUME NEW S \in Ses, S.queued = ses[s].queued
      PROVE  /\ Abort(S).queued = ses[s].queued
             /\ Abort(Reenter(S)).queued = ses[s].queued
             /\ [Abort(S) EXCEPT !.unit = "none", !.raised = FALSE].queued = ses[s].queued
  <2>1. Abort(S) \in Ses /\ Abort(S).queued = ses[s].queued
    BY <1>2, AbortKeeps DEF Keeps
  <2>2. Reenter(S) \in Ses /\ Reenter(S).queued = ses[s].queued
    BY <1>2, UnitType DEF Reenter, Unit, Ses
  <2>3. Abort(Reenter(S)).queued = ses[s].queued
    BY <2>2, AbortKeeps DEF Keeps
  <2> QED
    BY <2>1, <2>3 DEF Ses
<1>3. CASE UnitExit(s)
  <2>1. PICK S : S = [ses[s] EXCEPT !.unit = "none", !.raised = FALSE]
    OBVIOUS
  <2>2. S \in Ses /\ S.queued = ses[s].queued
    BY <1>1, <2>1 DEF Ses
  <2>3. PICK t, q : Step(s, Abort(S), t, q) \/ Step(s, S, t, q)
    BY <1>3, <2>1 DEF UnitExit
  <2> QED
    BY <1>2, <2>2, <2>3, StepQuiet
<1>4. ASSUME NEW a, Reply(s, a) PROVE PlacesStay(s)
  BY <1>1, <1>2, <1>4, StepQuiet DEF Reply
<1>5. ASSUME NEW S \in Ses, S.queued = ses[s].queued, NEW pc, NEW n, Rerun(s, S, pc, n)
      PROVE  PlacesStay(s)
  BY <1>2, <1>5, StepQuiet DEF Rerun
<1>6. CASE HandleReadOnlyRetry(s)
  <2>1. /\ [ses[s] EXCEPT !.raised = FALSE] \in Ses
        /\ [ses[s] EXCEPT !.raised = FALSE].queued = ses[s].queued
    BY <1>1 DEF Ses
  <2> QED
    BY <1>4, <1>5, <1>6, <2>1 DEF HandleReadOnlyRetry
<1>7. CASE HandleConflict(s)
  BY <1>1, <1>4, <1>5, <1>7 DEF HandleConflict
<1>8. CASE HandleError(s)
  BY <1>1, <1>4, <1>5, <1>8 DEF HandleError
<1>9. CASE HandleAfterCommit(s)
  BY <1>4, <1>9 DEF HandleAfterCommit
<1> QED
  BY <1>3, <1>6, <1>7, <1>8, <1>9

(* Only a session that holds no place takes one, and only for rows nobody  *)
(* holds one for.                                                          *)
LEMMA TakeTurnQueue ==
    ASSUME TypeOK, QueueInv, NEW s \in Sessions, TakeTurn(s) PROVE QueueInv'
<1>1. PICK W : W = ses[s].contended
  OBVIOUS
<1>2. /\ ses' = [ses EXCEPT ![s] = [ses[s] EXCEPT !.queued = W]] /\ faults' = faults
      /\ ses \in [Sessions -> Ses] /\ advisory \in [Sessions -> SUBSET Ids]
      /\ ses[s] \in Ses /\ W \in SUBSET Ids
  BY <1>1 DEF TakeTurn, Becomes, TypeOK, StoreTypeOK, Ses
<1>3. ses'[s].queued = W /\ \A o \in Sessions \ {s} : ses'[o] = ses[o]
  BY <1>2 DEF Ses
<1>4. CASE W = ses[s].queued
  <2>1. advisory' = advisory
    BY <1>1, <1>4 DEF TakeTurn
  <2> QED
    BY <1>2, <1>3, <1>4, <2>1 DEF QueueInv, PlacesTold, PlacesApart, QueueKnown
<1>5. CASE W # ses[s].queued
  <2>1. advisory' = [advisory EXCEPT ![s] = W] /\ ~Held(s, W)
    BY <1>1, <1>5 DEF TakeTurn
  <2>2. advisory'[s] = W /\ \A o \in Sessions \ {s} : advisory'[o] = advisory[o]
    BY <1>2, <2>1
  <2>3. \A o \in Sessions \ {s} : advisory[o] \cap W = {}
    BY <2>1 DEF Held
  <2>4. PlacesApart'
    BY <2>2, <2>3 DEF QueueInv, PlacesApart
  <2> QED
    BY <1>2, <1>3, <2>2, <2>4 DEF QueueInv, PlacesTold, QueueKnown
<1> QED
  BY <1>4, <1>5

LEMMA TurnQueue ==
    ASSUME TypeOK, QueueInv, NEW s \in Sessions,
           \/ NoTurn(s) \/ LeavePlace(s) \/ TurnTimesOut(s) \/ Pin(s)
           \/ Reload(s) \/ Reloaded(s) \/ CloseSession(s) \/ LeaveSession(s)
    PROVE  QueueInv'
<1>1. ses[s] \in Ses
  BY PartsType
<1>2. CASE NoTurn(s) \/ Pin(s) \/ CloseSession(s)
  BY <1>2, StepQuiet, QuietQueue DEF NoTurn, Pin, CloseSession
<1>3. CASE TurnTimesOut(s)
  <2>1. [ses[s] EXCEPT !.contended = {}].queued = ses[s].queued
    BY <1>1 DEF Ses
  <2>2. PlacesStay(s)
    BY <1>3, <2>1 DEF TurnTimesOut, PlacesStay
  <2> QED
    BY <2>2, QuietQueue
<1>4. CASE LeavePlace(s)
  <2>1. [ses[s] EXCEPT !.queued = {}].queued = {}
    BY <1>1 DEF Ses
  <2>2. Leaves(s)
    BY <1>4, <2>1 DEF LeavePlace, Leaves
  <2> QED
    BY <2>2, LeavesQueue
<1>5. CASE LeaveSession(s)
  <2>1. NewSession.queued = {}
    BY DEF NewSession
  <2>2. Leaves(s)
    BY <1>5, <2>1 DEF LeaveSession, Leaves
  <2> QED
    BY <2>2, LeavesQueue
<1>6. CASE Reload(s)
  BY <1>1, <1>6, ReadQuiet, QuietQueue DEF Reload
<1>7. CASE Reloaded(s)
  BY <1>7, LoadedQueued, StepQuiet, QuietQueue DEF Reloaded
<1> QED
  BY <1>2, <1>3, <1>4, <1>5, <1>6, <1>7

LEMMA QueueNext == ASSUME TypeOK, QueueInv, [Next]_vars PROVE QueueInv'
<1>1. CASE UNCHANGED vars
  BY <1>1 DEF vars, QueueInv, PlacesTold, PlacesApart, QueueKnown
<1>2. ASSUME NEW s \in Sessions, Walker(s) \/ Server(s) \/ Network(s)
      PROVE  QueueInv'
  <2>1. CASE ConnectionLost(s)
    BY <2>1, LosesQueue DEF ConnectionLost, DropConnection
  <2> QED
    BY <1>2, <2>1, ArrivalQuiet, WalkerQuiet, EffectQuiet, HandlerQuiet, QuietQueue,
       CommitQueue, TakeTurnQueue, TurnQueue
       DEF Server, Network
<1> QED
  BY <1>1, <1>2 DEF Next, Terminated

(* Whatever is retried, replayed or given up, a session that has not lost  *)
(* its connection knows exactly the places it holds in the write queue, so *)
(* commit and close give each of them back (wait_turn, leave_queue,        *)
(* Session.commit).                                                        *)
THEOREM PlacesKnown == Spec => [](faults = 0 => QueueKnown)
<1>1. QueueInv => (faults = 0 => QueueKnown)
  BY DEF QueueInv
<1> QED
  BY <1>1, QueueInit, QueueNext, TypeCorrect, PTL DEF Spec

(* And whatever connections break, a place is never held behind the back   *)
(* of its session, nor by two sessions for the same row.                   *)
THEOREM NoPlaceLeaks == Spec => [](PlacesTold /\ PlacesApart)
<1>1. QueueInv => PlacesTold /\ PlacesApart
  BY DEF QueueInv
<1> QED
  BY <1>1, QueueInit, QueueNext, TypeCorrect, PTL DEF Spec
=============================================================================
