---------------------------- MODULE LedgerProofs ----------------------------
(***************************************************************************)
(* Two theorems about the ledger of a session.  An attempt that has saved  *)
(* something is not run again for a ReadOnlyRetry (Session.commit registers*)
(* the unit as a writer at the commit that saves, and a unit that was told *)
(* to retry has nothing to save).  And at every COMMIT the ledger agrees   *)
(* with the open transaction, row by row and version by version; once a    *)
(* request has its answer, neither holds anything that closing the session *)
(* could still write.                                                      *)
(***************************************************************************)
EXTENDS RequestProofs

(* A session told to retry as a writer has no write in flight: the retry   *)
(* rolled it back, and nothing begins a writable transaction after it.     *)
Calm(S) == S.raised => ~InFlight(S)

(* A change that raises no retry and writes no row.                        *)
Adds0(S, R) == R.raised = S.raised /\ (InFlight(R) => InFlight(S))

LEMMA Adds0Calm == ASSUME NEW S, NEW R, Adds0(S, R), Calm(S) PROVE Calm(R)
  BY DEF Adds0, Calm

LEMMA SameLedger ==
    ASSUME NEW S, NEW R, R.raised = S.raised, R.ups = S.ups, R.rem = S.rem,
           R.joined = S.joined
    PROVE  Adds0(S, R)
  BY DEF Adds0, InFlight, Upserted

LEMMA EmptyLedger ==
    ASSUME NEW S, S.ups = NoRows, S.rem = {}, S.joined = FALSE PROVE ~InFlight(S)
  BY DEF InFlight, Upserted, NoRows, Present, Absent

LEMMA PromoteCalm ==
    ASSUME NEW S \in Ses
    PROVE  /\ Promote(S) \in Ses /\ Promote(S).raised = S.raised
           /\ ~InFlight(Promote(S)) /\ Calm(Promote(S))
<1>1. Promote(S) \in Ses
  BY PromoteKeeps DEF Keeps
<1>2. /\ Promote(S).raised = S.raised /\ Promote(S).ups = NoRows
      /\ Promote(S).rem = {} /\ Promote(S).joined = FALSE
  BY DEF Promote, Ses
<1> QED
  BY <1>1, <1>2, EmptyLedger DEF Calm

LEMMA RollbackCalm ==
    ASSUME NEW S \in Ses
    PROVE  /\ Rollback(S) \in Ses /\ Rollback(S).raised = S.raised
           /\ Rollback(S).ups = NoRows /\ Rollback(S).rem = {}
           /\ Rollback(S).joined = FALSE
           /\ ~InFlight(Rollback(S)) /\ Calm(Rollback(S))
<1>1. Rollback(S) \in Ses
  BY RollbackKeeps DEF Keeps
<1>2. /\ Rollback(S).raised = S.raised /\ Rollback(S).ups = NoRows
      /\ Rollback(S).rem = {} /\ Rollback(S).joined = FALSE
  BY DEF Rollback, Ses
<1> QED
  BY <1>1, <1>2, EmptyLedger DEF Calm

LEMMA ForgetAdds0 ==
    ASSUME NEW S \in Ses, NEW F \in SUBSET Ids
    PROVE  /\ Forget(S, F) \in Ses /\ Forget(S, F).ups = S.ups
           /\ Forget(S, F).rem = S.rem /\ Forget(S, F).joined = S.joined
           /\ Forget(S, F).raised = S.raised
<1>1. Forget(S, F) \in Ses
  BY ForgetKeeps DEF Keeps
<1> QED
  BY <1>1 DEF Forget, Ses

LEMMA DropAdds0 ==
    ASSUME NEW S \in Ses PROVE Adds0(S, DropSnapshotReads(S))
<1>1. S.snap \ (S.dirty \cup S.deleted) \in SUBSET Ids
  BY DEF Ses
<1>2. PICK F : F = Forget(S, S.snap \ (S.dirty \cup S.deleted))
  OBVIOUS
<1>3. /\ F \in Ses /\ F.ups = S.ups /\ F.rem = S.rem /\ F.joined = S.joined
      /\ F.raised = S.raised
  BY <1>1, <1>2, ForgetAdds0
<1>4. DropSnapshotReads(S) = [F EXCEPT !.snap = {}]
  BY <1>2 DEF DropSnapshotReads
<1> QED
  BY <1>3, <1>4, SameLedger DEF Ses

LEMMA MaterializeAdds0 ==
    ASSUME NEW S \in Ses, NEW t \in Txn, NEW L \in SUBSET Ids
    PROVE  Adds0(S, Materialize(S, t, L))
<1>1. PICK M : M = Materialize(S, t, L)
  OBVIOUS
<1>2. M.raised = S.raised /\ M.rem = S.rem /\ M.joined = S.joined
  BY <1>1 DEF Materialize, Ses
<1>3. \A id \in Ids : Present(M.ups[id]) => Present(S.ups[id])
  BY <1>1 DEF Materialize, Ses
<1> QED
  BY <1>1, <1>2, <1>3 DEF Adds0, InFlight, Upserted

LEMMA WriteAdds0 ==
    ASSUME NEW S \in Ses, NEW id \in Ids, NEW tag
    PROVE  /\ Adds0(S, Put(S, id, tag)) /\ Adds0(S, Write(S, id, tag))
           /\ Adds0(S, Mutate(S, id, tag)) /\ Adds0(S, DeleteAnchor(S, id))
<1>1. /\ Put(S, id, tag).ups = S.ups /\ Put(S, id, tag).rem = S.rem
      /\ Put(S, id, tag).joined = S.joined /\ Put(S, id, tag).raised = S.raised
  BY DEF Put, Ses
<1>2. /\ Write(S, id, tag).ups = S.ups /\ Write(S, id, tag).rem = S.rem
      /\ Write(S, id, tag).joined = S.joined /\ Write(S, id, tag).raised = S.raised
  BY DEF Write, Ses
<1>3. /\ Mutate(S, id, tag).ups = S.ups /\ Mutate(S, id, tag).rem = S.rem
      /\ Mutate(S, id, tag).joined = S.joined /\ Mutate(S, id, tag).raised = S.raised
  BY DEF Mutate, Ses
<1>4. /\ DeleteAnchor(S, id).ups = S.ups /\ DeleteAnchor(S, id).rem = S.rem
      /\ DeleteAnchor(S, id).joined = S.joined /\ DeleteAnchor(S, id).raised = S.raised
  BY DEF DeleteAnchor, Ses
<1> QED
  BY <1>1, <1>2, <1>3, <1>4, SameLedger

LEMMA AbortCalm ==
    ASSUME NEW S \in Ses
    PROVE  /\ Abort(S) \in Ses /\ Abort(S).raised = S.raised
           /\ ~InFlight(Abort(S)) /\ Calm(Abort(S))
<1>1. PICK R \in Ses : R = Rollback(S) /\ R.raised = S.raised
                       /\ R.ups = NoRows /\ R.rem = {} /\ R.joined = FALSE
  BY RollbackCalm
<1>2. PICK F \in Ses : F = Forget(R, R.cached) /\ F.raised = S.raised
                       /\ F.ups = NoRows /\ F.rem = {} /\ F.joined = FALSE
  BY <1>1, ForgetAdds0 DEF Ses
<1>3. Abort(S) = [F EXCEPT !.dirty = {}, !.deleted = {}, !.snap = {},
                           !.lost = FALSE, !.contended = @ \cup S.conflict,
                           !.conflict = {}]
  BY <1>1, <1>2 DEF Abort
<1>4. /\ Abort(S).raised = S.raised /\ Abort(S).ups = NoRows
      /\ Abort(S).rem = {} /\ Abort(S).joined = FALSE
  <2>1. PICK A : A = Abort(S)
    OBVIOUS
  <2>2. /\ A.raised = F.raised /\ A.ups = F.ups
        /\ A.rem = F.rem /\ A.joined = F.joined
    BY <1>2, <1>3, <2>1 DEF Ses
  <2> QED
    BY <1>2, <2>1, <2>2
<1>5. Abort(S) \in Ses
  BY AbortKeeps DEF Keeps
<1> QED
  BY <1>4, <1>5, EmptyLedger DEF Calm

-----------------------------------------------------------------------------
(* Outcomes                                                                *)

(* What operations made of a session that was O, and left calm.            *)
Goes(O, r) == From(O, r) /\ Calm(r.S)

LEMMA GoesParts ==
    ASSUME NEW O, NEW r, Goes(O, r)
    PROVE  /\ From(O, r) /\ Calm(r.S) /\ r.S \in Ses /\ r.t \in Txn
           /\ r \in Outcome /\ r.exc \in Exceptions
           /\ Writer(O) => Writer(r.S) /\ r.exc # "ro"
  BY DEF Goes, From, Outcome

LEMMA GoesSelf ==
    ASSUME NEW S \in Ses, NEW t \in Txn, Calm(S) PROVE Goes(S, Done(S, t))
  BY FromSelf DEF Goes, Done

LEMMA GoesRaise ==
    ASSUME NEW S \in Ses, NEW t \in Txn, NEW exc \in Exceptions \ {"none", "ro"}, Calm(S)
    PROVE  Goes(S, Raise(S, t, exc))
<1>1. From(S, Raise(S, t, exc))
  BY FromSelfRaise
<1>2. Raise(S, t, exc).S = S
  BY DEF Raise
<1> QED
  BY <1>1, <1>2 DEF Goes

LEMMA ReclaimGoes == ASSUME NEW O, NEW r, Goes(O, r) PROVE Goes(O, Reclaim(r))
<1>1. From(O, Reclaim(r))
  BY GoesParts, ReclaimFrom
<1>2. Calm(Rollback(r.S))
  BY GoesParts, RollbackCalm
<1> QED
  BY <1>1, <1>2, GoesParts DEF Goes, Reclaim, LostOr, Raise, Done

LEMMA RetryCalm ==
    ASSUME NEW S \in Ses PROVE Calm(RaiseReadOnlyRetry(S).S)
<1>1. PICK R \in Ses : R = RegisterWriters(S)
  BY RegisterWritersType
<1>2. PICK B \in Ses : B = Rollback(R) /\ ~InFlight(B)
  BY RollbackCalm
<1>3. PICK C : C = [B EXCEPT !.raised = TRUE]
  OBVIOUS
<1>4. C.ups = B.ups /\ C.rem = B.rem /\ C.joined = B.joined
  BY <1>3 DEF Ses
<1>5. ~InFlight(C)
  BY <1>2, <1>4 DEF InFlight, Upserted
<1> QED
  BY <1>1, <1>2, <1>3, <1>5 DEF RaiseReadOnlyRetry, Raise, Calm

(* A writable transaction is begun by a session not told to retry.         *)
LEMMA BeginWritableGoes ==
    ASSUME StoreReady, NEW O, NEW r, Goes(O, r)
    PROVE  /\ Goes(O, BeginWritable(r))
           /\ Ok(BeginWritable(r)) => ~BeginWritable(r).S.raised
<1>1. From(O, BeginWritable(r))
  BY GoesParts, BeginWritableFrom
<1>2. CASE Ok(r) /\ r.S.raised
  BY <1>1, <1>2, GoesParts DEF BeginWritable, Raise, Goes, Ok
<1>3. CASE ~(Ok(r) /\ r.S.raised)
  <2>1. PICK q : q = Reclaim(r)
    OBVIOUS
  <2>2. q.S \in Ses /\ Calm(q.S)
    BY <2>1, ReclaimGoes, GoesParts
  <2>3. Ok(q) => ~q.S.raised
    BY <1>3, <2>1, GoesParts, RollbackCalm DEF Reclaim, LostOr, Raise, Done, Ok
  <2>4. PICK P : P = Promote(q.S)
    OBVIOUS
  <2>5. P \in Ses /\ Calm(P) /\ P.raised = q.S.raised
    BY <2>2, <2>4, PromoteCalm
  <2>6. Calm(DropSnapshotReads(P)) /\ DropSnapshotReads(P).raised = q.S.raised
    BY <2>5, DropAdds0, Adds0Calm DEF Adds0
  <2>7. Calm(RaiseReadOnlyRetry(q.S).S) /\ ~Ok(RaiseReadOnlyRetry(q.S))
    BY <2>2, RetryCalm DEF RaiseReadOnlyRetry, Raise, Ok
  <2>8. PICK p : p = Promoted(q)
    OBVIOUS
  <2>9. Calm(p.S) /\ (Ok(p) => ~p.S.raised)
    <3>1. CASE p = q
      BY <2>2, <2>3, <3>1
    <3>2. CASE p = RaiseReadOnlyRetry(q.S)
      BY <2>7, <3>2
    <3>3. CASE Ok(q) /\ \E t : p = Done(q.S, t)
      BY <2>2, <2>3, <3>3 DEF Done
    <3>4. CASE p = Raise(q.S, NoTxn, "db")
      BY <2>2, <3>4 DEF Raise, Ok
    <3>5. CASE Ok(q) /\ \E t : p = Done(DropSnapshotReads(P), t)
      BY <2>3, <2>6, <3>5 DEF Done
    <3> QED
      BY <2>4, <2>8, <3>1, <3>2, <3>3, <3>4, <3>5 DEF Promoted
  <2>10. BeginWritable(r) = p
    BY <1>3, <2>1, <2>8 DEF BeginWritable
  <2> QED
    BY <1>1, <2>9, <2>10 DEF Goes
<1> QED
  BY <1>2, <1>3

LEMMA EnsureTxnGoes ==
    ASSUME StoreReady, NEW O, NEW r, Goes(O, r) PROVE Goes(O, EnsureTxn(r))
<1>1. From(O, EnsureTxn(r))
  BY GoesParts, EnsureTxnFrom
<1>2. PICK q : q = Reclaim(r)
  OBVIOUS
<1>3. Goes(O, q) /\ Calm(q.S) /\ Calm(BeginWritable(q).S)
  BY <1>2, ReclaimGoes, BeginWritableGoes DEF Goes
<1>4. Calm(Opened(q).S)
  BY <1>3 DEF Opened, Done
<1> QED
  BY <1>1, <1>2, <1>4 DEF EnsureTxn, Goes

LEMMA JoinGoes ==
    ASSUME StoreReady, NEW O, NEW r, Goes(O, r), NEW tag \in Tags
    PROVE  Goes(O, Join(r, tag))
<1>1. From(O, Join(r, tag))
  BY GoesParts, JoinFrom
<1>2. PICK q : q = BeginWritable(r)
  OBVIOUS
<1>3. q.S \in Ses /\ Calm(q.S) /\ (Ok(q) => ~q.S.raised)
  BY <1>2, BeginWritableGoes, GoesParts
<1>4. PICK J : J = [q.S EXCEPT !.joined = TRUE]
  OBVIOUS
<1>5. J.raised = q.S.raised
  BY <1>3, <1>4 DEF Ses
<1>6. Ok(q) => Calm(J)
  BY <1>3, <1>5 DEF Calm
<1>7. Calm(Joined(q, tag).S)
  BY <1>3, <1>4, <1>6 DEF Joined, Raise, Done
<1> QED
  BY <1>1, <1>2, <1>7 DEF Join, Goes

-----------------------------------------------------------------------------
(* Flushing and reading                                                    *)

(* Nothing is left to write, or the session was not told to retry.         *)
Ready(q, U) == Ok(q) => ~q.S.raised \/ (U = {} /\ q.S.deleted = {})

LEMMA LockTimeoutCalm ==
    ASSUME NEW S \in Ses, NEW W, Calm(S)
    PROVE  Calm(LockTimeout(S, W).S) /\ ~Ok(LockTimeout(S, W))
<1>1. PICK C : C = [S EXCEPT !.conflict = W]
  OBVIOUS
<1>2. Adds0(S, C)
  <2>1. C.raised = S.raised /\ C.ups = S.ups /\ C.rem = S.rem /\ C.joined = S.joined
    BY <1>1 DEF Ses
  <2> QED
    BY <2>1, SameLedger
<1> QED
  BY <1>1, <1>2, Adds0Calm DEF LockTimeout, Raise, Ok

LEMMA FlushRowsGoes ==
    ASSUME NEW O, NEW r, Goes(O, r), NEW U \in SUBSET Ids, Ready(r, U), NEW s
    PROVE  Goes(O, FlushRows(s, r, U)) /\ Ready(FlushRows(s, r, U), U)
<1>1. From(O, FlushRows(s, r, U)) /\ r.S \in Ses /\ r.t \in Txn /\ Calm(r.S)
  BY GoesParts, FlushRowsFrom
<1>2. CASE ~Ok(r) \/ U = {}
  <2>1. FlushRows(s, r, U) = r
    BY <1>2 DEF FlushRows
  <2> QED
    BY <2>1
<1>3. CASE Ok(r) /\ U # {}
  <2>1. ~r.S.raised
    BY <1>3 DEF Ready
  <2>2. PICK T : T = Upsert(r.t, Rows(r.S), U)
    OBVIOUS
  <2>3. PICK W : W = Written(r.S, T, U)
    OBVIOUS
  <2>4. ~W.raised
    BY <1>1, <2>1, <2>3 DEF Written, Ses
  <2>5. \A c : Calm([r.S EXCEPT !.conflict = c])
    BY <1>1, <2>1 DEF Calm, Ses
  <2>6. Calm(LockTimeout(r.S, U).S) /\ ~Ok(LockTimeout(r.S, U))
    BY <1>1, LockTimeoutCalm
  <2>7. PICK p : p = FlushRows(s, r, U)
    OBVIOUS
  <2>8. Calm(p.S) /\ (Ok(p) => ~p.S.raised)
    <3>1. CASE p = Raise(r.S, NoTxn, "db")
      BY <1>1, <3>1 DEF Raise, Ok
    <3>2. CASE p = LockTimeout(r.S, U)
      BY <2>6, <3>2
    <3>3. CASE \E c : p = Raise([r.S EXCEPT !.conflict = c], T, "conflict")
      BY <2>5, <3>3 DEF Raise, Ok
    <3>4. CASE p = Done(W, T)
      BY <2>4, <3>4 DEF Done, Calm
    <3> QED
      BY <1>3, <2>2, <2>3, <2>7, <3>1, <3>2, <3>3, <3>4 DEF FlushRows
  <2> QED
    BY <1>1, <2>7, <2>8 DEF Goes, Ready
<1> QED
  BY <1>2, <1>3

LEMMA FlushDeletesGoes ==
    ASSUME NEW O, NEW r, Goes(O, r), NEW U, Ready(r, U), NEW s
    PROVE  Goes(O, FlushDeletes(s, r))
<1>1. From(O, FlushDeletes(s, r)) /\ r.S \in Ses /\ Calm(r.S)
  BY GoesParts, FlushDeletesFrom
<1>2. CASE ~Ok(r) \/ r.S.deleted = {}
  BY <1>2 DEF FlushDeletes
<1>3. CASE Ok(r) /\ r.S.deleted # {}
  <2>1. ~r.S.raised
    BY <1>3 DEF Ready
  <2>2. Calm(Removed(r.S))
    BY <1>1, <2>1 DEF Removed, Ses, Calm
  <2>3. Calm(LockTimeout(r.S, r.S.deleted).S)
    BY <1>1, LockTimeoutCalm
  <2> QED
    BY <1>1, <2>2, <2>3 DEF FlushDeletes, Goes, Raise, Done
<1> QED
  BY <1>2, <1>3

LEMMA FlushGoes ==
    ASSUME StoreReady, NEW O, NEW r, Goes(O, r), NEW s, NEW full \in BOOLEAN
    PROVE  Goes(O, Flush(s, r, full))
<1>1. From(O, Flush(s, r, full))
  BY GoesParts, FlushFrom
<1>2. PICK q : q = Reclaim(r)
  OBVIOUS
<1>3. Goes(O, q) /\ q.S \in Ses
  BY <1>2, ReclaimGoes, GoesParts
<1>4. PICK U : U = Unflushed(q.S, full)
  OBVIOUS
<1>5. U \in SUBSET Ids
  BY <1>3, <1>4 DEF Unflushed, Ses
<1>6. PICK w : w = Writable(q, U)
  OBVIOUS
<1>7. Goes(O, w) /\ Ready(w, U)
  BY <1>3, <1>6, BeginWritableGoes DEF Writable, Ready
<1>8. PICK f : f = FlushRows(s, w, U)
  OBVIOUS
<1>9. PICK d : d = FlushDeletes(s, f)
  OBVIOUS
<1>10. d.S \in Ses /\ Calm(d.S)
  BY <1>5, <1>7, <1>8, <1>9, FlushRowsGoes, FlushDeletesGoes, GoesParts
<1>11. Calm([d.S EXCEPT !.dirty = {}])
  <2>1. PICK C : C = [d.S EXCEPT !.dirty = {}]
    OBVIOUS
  <2>2. C.raised = d.S.raised /\ C.ups = d.S.ups /\ C.rem = d.S.rem /\ C.joined = d.S.joined
    BY <1>10, <2>1 DEF Ses
  <2> QED
    BY <1>10, <2>1, <2>2, SameLedger, Adds0Calm
<1>12. Calm(FlushThe(s, q, U).S)
  BY <1>6, <1>8, <1>9, <1>10, <1>11 DEF FlushThe, Flushed, Done
<1>13. Calm(Flush(s, r, full).S)
  BY <1>2, <1>3, <1>4, <1>12 DEF Flush, FlushLocked, Goes
<1> QED
  BY <1>1, <1>13 DEF Goes

LEMMA ReplayGoes ==
    ASSUME NEW O, NEW r, Goes(O, r), NEW exhausted \in BOOLEAN
    PROVE  Goes(O, Replay(r.S, exhausted))
<1>1. From(O, Replay(r.S, exhausted)) /\ r.S \in Ses
  BY GoesParts, ReplayFrom
<1>2. PICK R \in Ses : R = Rollback(r.S) /\ Calm(R)
  BY <1>1, RollbackCalm
<1>3. PICK C : C = [R EXCEPT !.lost = @ \/ exhausted]
  OBVIOUS
<1>4. C.raised = R.raised /\ C.ups = R.ups /\ C.rem = R.rem /\ C.joined = R.joined
  BY <1>2, <1>3 DEF Ses
<1>5. Calm(C)
  BY <1>2, <1>4, SameLedger, Adds0Calm
<1> QED
  BY <1>1, <1>2, <1>3, <1>5 DEF Replay, LostOr, Raise, Done, Goes

LEMMA ReadBarrierGoes ==
    ASSUME StoreReady, NEW O, NEW r, Goes(O, r), NEW s
    PROVE  Goes(O, ReadBarrier(s, r))
  BY EnsureTxnGoes, FlushGoes DEF ReadBarrier

LEMMA LoadFullGoes ==
    ASSUME NEW O, NEW r, Goes(O, r), NEW L \in SUBSET Ids
    PROVE  Goes(O, LoadFull(r, L))
<1>1. From(O, LoadFull(r, L)) /\ r.S \in Ses /\ r.t \in Txn /\ Calm(r.S)
  BY GoesParts, LoadFullFrom
<1>2. PICK G \in SUBSET Ids : G = {id \in L : Present(r.t.view[id])}
  OBVIOUS
<1>3. Calm(Materialize(r.S, r.t, G))
  BY <1>1, <1>2, MaterializeAdds0, Adds0Calm
<1> QED
  BY <1>1, <1>2, <1>3 DEF LoadFull, Goes, Raise, Done

-----------------------------------------------------------------------------
(* The invariant                                                           *)

(* Where a request that has saved something can be: past its arrival, and  *)
(* handling anything but a ReadOnlyRetry.                                  *)
Later(q) == /\ q.pc \notin {"arrive", "scope", "open"}
            /\ q.pc \in {"barrier", "load"} => q.op.name \notin {"scope", "open"}
            /\ q.pc \in {"caught", "handler"} => q.exc # "ro"

Saved(S, q) == Calm(S) /\ (q.saved => Writer(S) /\ Later(q))

SaveInv == \A s \in Sessions : Saved(ses[s], req[s])

LEMMA SaveInit == Init => SaveInv
<1>1. ~NewSession.raised /\ ~[NewSession EXCEPT !.recorded = TRUE].raised
  BY DEF NewSession
<1>2. ~NewRequest.saved
  BY DEF NewRequest
<1> QED
  BY <1>1, <1>2 DEF Init, SaveInv, Saved, Calm

LEMMA BecomesSave ==
    ASSUME TypeOK, SaveInv, NEW s \in Sessions, NEW S, NEW t, NEW q,
           Becomes(s, S, t, q), Saved(S, q)
    PROVE  SaveInv'
<1>1. /\ ses' = [ses EXCEPT ![s] = S]
      /\ req' = [req EXCEPT ![s] = q]
      /\ ses \in [Sessions -> Ses] /\ req \in [Sessions -> Req]
  BY DEF Becomes, TypeOK
<1>2. ASSUME NEW o \in Sessions PROVE Saved(ses'[o], req'[o])
  <2>1. CASE o = s
    BY <1>1, <2>1
  <2>2. CASE o # s
    BY <1>1, <2>2 DEF SaveInv
  <2> QED
    BY <2>1, <2>2
<1>3. SaveInv' <=> \A o \in Sessions : Saved(ses'[o], req'[o])
  BY DEF SaveInv, Saved, Calm, InFlight, Upserted, Writer, Later
<1> QED
  BY <1>2, <1>3

LEMMA StepSave ==
    ASSUME TypeOK, SaveInv, NEW s \in Sessions, NEW S, NEW t, NEW q,
           Step(s, S, t, q), Saved(S, q)
    PROVE  SaveInv'
  BY BecomesSave DEF Step

-----------------------------------------------------------------------------
(* Reading                                                                 *)

(* A request about to read for its operation: the middleware reads for one *)
(* that has saved nothing.                                                 *)
Asking(q) == q.saved => q.op.name \notin {"scope", "open"}

(* What an outcome leaves of a session that may have saved.                *)
LEMMA GoesSaved ==
    ASSUME NEW O, NEW r, Goes(O, r), NEW q, NEW p, q.saved => Writer(O),
           p.saved = q.saved, q.saved => Later(p)
    PROVE  Saved(r.S, p)
  BY GoesParts DEF Saved

LEMMA FailedSave ==
    ASSUME NEW q \in Req, Asking(q), NEW e \in Exceptions, q.saved => e # "ro"
    PROVE  Failed(q, e).saved = q.saved /\ (q.saved => Later(Failed(q, e)))
<1>1. CASE q.op.name \in {"scope", "open"}
  BY <1>1 DEF Asking, Failed, Req
<1>2. CASE q.op.name \notin {"scope", "open"}
  BY <1>2 DEF Failed, Throw, Later, Req
<1> QED
  BY <1>1, <1>2

LEMMA FailsSave ==
    ASSUME TypeOK, SaveInv, NEW s \in Sessions, NEW O, NEW r, Goes(O, r),
           NEW q \in Req, q.saved => Writer(O), Asking(q), Fails(s, r, q)
    PROVE  SaveInv'
<1>1. r.S \in Ses /\ r.exc \in Exceptions /\ Calm(r.S)
      /\ (q.saved => Writer(r.S) /\ r.exc # "ro")
  BY GoesParts
<1>2. PICK F : F = FailedSession(q, r.S, r.exc)
  OBVIOUS
<1>3. Calm(F) /\ (q.saved => Writer(F))
  <2>1. Calm(Abort(r.S)) /\ (q.saved => Writer(Abort(r.S)))
    BY <1>1, AbortCalm, AbortKeeps DEF Keeps
  <2>2. PICK C : C = [r.S EXCEPT !.lost = TRUE]
    OBVIOUS
  <2>3. /\ C.raised = r.S.raised /\ C.ups = r.S.ups /\ C.rem = r.S.rem
        /\ C.joined = r.S.joined /\ C.unit = r.S.unit
    BY <1>1, <2>2 DEF Ses
  <2>4. Calm(C) /\ (q.saved => Writer(C))
    BY <1>1, <2>3, SameLedger, Adds0Calm DEF Writer
  <2> QED
    BY <1>1, <1>2, <2>1, <2>2, <2>4 DEF FailedSession
<1>4. PICK p : p = Failed(q, r.exc)
  OBVIOUS
<1>5. p.saved = q.saved /\ (q.saved => Later(p))
  BY <1>1, <1>4, FailedSave
<1>6. Saved(F, p)
  BY <1>3, <1>5 DEF Saved
<1> QED
  BY <1>2, <1>4, <1>6, StepSave DEF Fails

LEMMA RetriesSave ==
    ASSUME TypeOK, SaveInv, NEW s \in Sessions, NEW O, NEW r, Goes(O, r),
           NEW q \in Req, q.saved => Writer(O), Asking(q), NEW next \in Nat,
           Retries(s, r, q, next)
    PROVE  SaveInv'
<1>1. PICK p : p = Replay(r.S, FALSE)
  OBVIOUS
<1>2. Goes(O, p)
  BY <1>1, ReplayGoes
<1>3. CASE Step(s, p.S, p.t, [q EXCEPT !.pc = "barrier", !.tries = next])
  <2>1. PICK n : n = [q EXCEPT !.pc = "barrier", !.tries = next]
    OBVIOUS
  <2>2. n.saved = q.saved /\ (q.saved => Later(n))
    BY <2>1 DEF Req, Later, Asking
  <2>3. Saved(p.S, n)
    BY <1>2, <2>2, GoesSaved
  <2> QED
    BY <1>3, <2>1, <2>3, StepSave
<1>4. CASE Fails(s, p, q) \/ Fails(s, r, q)
  BY <1>2, <1>4, FailsSave
<1> QED
  BY <1>1, <1>3, <1>4 DEF Retries

LEMMA BarrierSave ==
    ASSUME TypeOK, SaveInv, NEW s \in Sessions, NEW S \in Ses, Calm(S),
           NEW q \in Req, q.saved => Writer(S), Asking(q), Barrier(s, S, q)
    PROVE  SaveInv'
<1>1. PICK r : r = IF q.op.load = {} THEN Done(S, txn[s])
                   ELSE ReadBarrier(s, Done(S, txn[s]))
  OBVIOUS
<1>2. Goes(S, r)
  BY <1>1, PartsType, GoesSelf, ReadBarrierGoes
<1>3. q.tries + 1 \in Nat
  BY DEF Req
<1>4. PICK n : n = Goto(q, "load")
  OBVIOUS
<1>5. n.saved = q.saved /\ (q.saved => Later(n))
  BY <1>4 DEF Goto, Req, Later, Asking
<1>6. Saved(r.S, n)
  BY <1>2, <1>5, GoesSaved
<1>7. Step(s, r.S, r.t, n) \/ Retries(s, r, q, q.tries + 1)
  BY <1>1, <1>4 DEF Barrier
<1> QED
  BY <1>2, <1>3, <1>6, <1>7, StepSave, RetriesSave

LEMMA ReadSave ==
    ASSUME TypeOK, SaveInv, NEW s \in Sessions, NEW S \in Ses, Calm(S),
           NEW name \in OpNames, NEW id \in Ids, NEW L \in SUBSET Ids,
           Read(s, S, name, id, L),
           req[s].saved => Writer(S) /\ name \notin {"scope", "open"}
    PROVE  SaveInv'
<1>1. PICK o : o = [name |-> name, id |-> id, load |-> Missing(S, L)]
  OBVIOUS
<1>2. o \in Op /\ o.name = name
  BY <1>1 DEF Op, Missing
<1>3. PICK q : q = [req[s] EXCEPT !.tries = 0, !.op = o]
  OBVIOUS
<1>4. q \in Req /\ q.op = o /\ q.saved = req[s].saved
  BY <1>2, <1>3, PartsType DEF Req
<1>5. Asking(q) /\ (q.saved => Writer(S))
  BY <1>2, <1>4 DEF Asking
<1> QED
  BY <1>1, <1>3, <1>4, <1>5, BarrierSave DEF Read

LEMMA LoadedSave ==
    ASSUME TypeOK, SaveInv, NEW s \in Sessions
    PROVE  /\ Goes(ses[s], Loaded(s)) /\ Loaded(s).S \in Ses /\ Calm(Loaded(s).S)
           /\ req[s].saved => Writer(Loaded(s).S) /\ Loaded(s).exc # "ro"
<1>1. /\ Calm(ses[s]) /\ ses[s] \in Ses /\ txn[s] \in Txn
      /\ req[s].op.load \in SUBSET Ids /\ (req[s].saved => Writer(ses[s]))
  BY PartsType DEF SaveInv, Saved, Req, Op
<1>2. Goes(ses[s], Loaded(s))
  BY <1>1, GoesSelf, LoadFullGoes DEF Loaded
<1> QED
  BY <1>1, <1>2, GoesParts

-----------------------------------------------------------------------------
(* The actions                                                             *)

LEMMA PartsSave ==
    ASSUME TypeOK, SaveInv, NEW s \in Sessions
    PROVE  /\ ses[s] \in Ses /\ txn[s] \in Txn /\ req[s] \in Req /\ StoreReady
           /\ Tag(s) \in Tags /\ Root \in Ids /\ {Root} \in SUBSET Ids
           /\ Saved(ses[s], req[s]) /\ Calm(ses[s])
           /\ req[s].saved => Writer(ses[s]) /\ Later(req[s])
  BY PartsType, RootType DEF SaveInv, Saved

(* A request that goes where one that has saved may be.                    *)
LEMMA MovesSave ==
    ASSUME TypeOK, SaveInv, NEW s \in Sessions, NEW S, NEW t, NEW q,
           Step(s, S, t, q), Calm(S), req[s].saved => Writer(S),
           q.saved = req[s].saved,
           q.pc \notin {"arrive", "scope", "open", "barrier", "load", "caught", "handler"}
    PROVE  SaveInv'
<1>1. q.saved => Later(q)
  BY DEF Later
<1> QED
  BY <1>1, StepSave DEF Saved

LEMMA ArrivalSave ==
    ASSUME TypeOK, SaveInv, NEW s \in Sessions,
           \/ Arrive(s) \/ ScopeLoaded(s) \/ ExitScope(s) \/ Open(s) \/ OpenUnit(s)
    PROVE  SaveInv'
<1>1. /\ ses[s] \in Ses /\ txn[s] \in Txn /\ req[s] \in Req /\ StoreReady
      /\ Root \in Ids /\ {Root} \in SUBSET Ids /\ Calm(ses[s])
  BY PartsSave
<1>2. Goes(ses[s], Loaded(s)) /\ Loaded(s).S \in Ses /\ Calm(Loaded(s).S)
      /\ Loaded(s).t \in Txn
  BY LoadedSave, LoadedFrom
<1>3. ~req[s].saved
  BY PartsSave DEF Later, Arrive, ScopeLoaded, ExitScope, Open, OpenUnit, At, Loading
<1>4. ASSUME NEW S, NEW t, NEW q, Step(s, S, t, q), Calm(S), ~q.saved PROVE SaveInv'
  BY <1>4, StepSave DEF Saved
<1>5. \A pc : ~Goto(req[s], pc).saved
  BY <1>1, <1>3 DEF Goto, Req
<1>6. CASE Arrive(s)
  <2>1. PICK S : S = [ses[s] EXCEPT !.scope = TRUE]
    OBVIOUS
  <2>2. /\ S \in Ses /\ S.raised = ses[s].raised /\ S.ups = ses[s].ups
        /\ S.rem = ses[s].rem /\ S.joined = ses[s].joined
    BY <1>1, <2>1 DEF Ses
  <2>3. Calm(S)
    BY <1>1, <2>2, SameLedger, Adds0Calm
  <2>4. \/ Step(s, ses[s], txn[s], Goto(req[s], "open"))
        \/ Read(s, S, "scope", Root, {Root})
    BY <1>6, <2>1 DEF Arrive
  <2> QED
    BY <1>1, <1>3, <1>4, <1>5, <2>2, <2>3, <2>4, ReadSave DEF OpNames
<1>7. CASE ScopeLoaded(s)
  BY <1>2, <1>4, <1>5, <1>7 DEF ScopeLoaded
<1>8. CASE ExitScope(s)
  <2>1. PICK S : S = [ses[s] EXCEPT !.scope = FALSE]
    OBVIOUS
  <2>2. /\ S \in Ses /\ S.raised = ses[s].raised /\ S.ups = ses[s].ups
        /\ S.rem = ses[s].rem /\ S.joined = ses[s].joined
    BY <1>1, <2>1 DEF Ses
  <2>3. Calm(S)
    BY <1>1, <2>2, SameLedger, Adds0Calm
  <2>4. PICK C : C = IF txn[s].dead THEN Rollback(S) ELSE Promote(S)
    OBVIOUS
  <2>5. C \in Ses /\ Calm(C)
    BY <2>2, <2>4, RollbackCalm, PromoteCalm
  <2>6. Calm(DropSnapshotReads(C))
    BY <2>5, DropAdds0, Adds0Calm
  <2>7. PICK pc : \/ Step(s, DropSnapshotReads(C), NoTxn, Goto(req[s], pc))
                  \/ Step(s, S, txn[s], Goto(req[s], pc))
    BY <1>8, <2>1, <2>4 DEF ExitScope
  <2> QED
    BY <1>4, <1>5, <2>3, <2>6, <2>7
<1>9. CASE Open(s)
  BY <1>1, <1>3, <1>9, ReadSave DEF Open, OpNames
<1>10. CASE OpenUnit(s)
  <2>1. PICK U : U = Unit(Loaded(s).S)
    OBVIOUS
  <2>2. /\ U \in Ses /\ U.raised = Loaded(s).S.raised /\ U.ups = Loaded(s).S.ups
        /\ U.rem = Loaded(s).S.rem /\ U.joined = Loaded(s).S.joined
    BY <1>2, <2>1, UnitType DEF Unit, Ses
  <2>3. Calm(U)
    BY <1>2, <2>2, SameLedger, Adds0Calm
  <2>4. PICK u : u = UnitEnter(Loaded(s))
    OBVIOUS
  <2>5. Calm(u.S)
    <3>1. Calm(EnsureTxn(Done(U, Loaded(s).t)).S)
      BY <1>1, <1>2, <2>2, <2>3, GoesSelf, EnsureTxnGoes, GoesParts
    <3>2. Loaded(s) \in Outcome
      BY <1>2, GoesParts
    <3>3. [Loaded(s) EXCEPT !.S = Unit(@)].S = U
      BY <2>1, <3>2 DEF Outcome
    <3> QED
      BY <2>1, <2>3, <2>4, <3>1, <3>3 DEF UnitEnter
  <2>6. ~Failed(req[s], u.exc).saved
    BY <1>1, <1>3 DEF Failed, Throw, Goto, Req
  <2>7. \/ Step(s, u.S, u.t, Goto(req[s], "body"))
        \/ Step(s, u.S, u.t, Failed(req[s], u.exc))
    BY <1>10, <2>4 DEF OpenUnit
  <2> QED
    BY <1>4, <1>5, <2>5, <2>6, <2>7
<1> QED
  BY <1>6, <1>7, <1>8, <1>9, <1>10

LEMMA RereadSave ==
    ASSUME TypeOK, SaveInv, NEW s \in Sessions, BarrierAgain(s) \/ LoadFails(s)
    PROVE  SaveInv'
<1>1. /\ ses[s] \in Ses /\ req[s] \in Req /\ Calm(ses[s])
      /\ req[s].saved => Writer(ses[s]) /\ Later(req[s])
  BY PartsSave
<1>2. Asking(req[s])
  BY <1>1 DEF Asking, Later, BarrierAgain, LoadFails, At
<1>3. CASE BarrierAgain(s)
  BY <1>1, <1>2, <1>3, BarrierSave DEF BarrierAgain
<1>4. CASE LoadFails(s)
  <2>1. (IF req[s].tries < 2 THEN 2 ELSE 4) \in Nat
    OBVIOUS
  <2> QED
    BY <1>1, <1>2, <1>4, <2>1, LoadedSave, RetriesSave DEF LoadFails
<1> QED
  BY <1>3, <1>4

LEMMA WalkerSave ==
    ASSUME TypeOK, SaveInv, NEW s \in Sessions, Walker(s) PROVE SaveInv'
<1> DEFINE L == Loaded(s)
           G == Counted(s)
           q == req[s]
<1>1. /\ ses[s] \in Ses /\ txn[s] \in Txn /\ q \in Req /\ StoreReady /\ Calm(ses[s])
      /\ Tag(s) \in Tags /\ Root \in Ids /\ q.op.id \in Ids
      /\ q.saved => Writer(ses[s]) /\ Later(q)
  BY PartsSave DEF Req, Op
<1>2. L.S \in Ses /\ Calm(L.S) /\ (q.saved => Writer(L.S))
  BY LoadedSave
<1>3. G \in Req /\ G.saved = q.saved /\ G.pc = q.pc
  BY <1>1, CountedType DEF Counted, Req
<1>4. ASSUME NEW S \in Ses, NEW id \in Ids
      PROVE  /\ Put(S, id, Tag(s)) \in Ses
             /\ Calm(S) => /\ Calm(Put(S, id, Tag(s))) /\ Calm(Write(S, id, Tag(s)))
                           /\ Calm(Mutate(S, id, Tag(s))) /\ Calm(DeleteAnchor(S, id))
             /\ Writer(S) => /\ Writer(Put(S, id, Tag(s))) /\ Writer(Write(S, id, Tag(s)))
                             /\ Writer(Mutate(S, id, Tag(s))) /\ Writer(DeleteAnchor(S, id))
  BY <1>1, WriteKeeps, WriteAdds0, Adds0Calm DEF Keeps
<1>5. /\ Goto(G, "body").pc = "body" /\ Goto(G, "body").saved = q.saved
      /\ \A W : /\ [G EXCEPT !.pc = "body", !.wset = W].pc = "body"
               /\ [G EXCEPT !.pc = "body", !.wset = W].saved = q.saved
      /\ \A W, D : /\ [G EXCEPT !.pc = "body", !.wset = W, !.dset = D].pc = "body"
                  /\ [G EXCEPT !.pc = "body", !.wset = W, !.dset = D].saved = q.saved
      /\ \A W, U : /\ [G EXCEPT !.pc = "body", !.wset = W, !.used = U].pc = "body"
                  /\ [G EXCEPT !.pc = "body", !.wset = W, !.used = U].saved = q.saved
  BY <1>3 DEF Goto, Req
<1> HIDE DEF L, G, q
<1>6. ASSUME NEW S, NEW t, NEW p, Step(s, S, t, p), Calm(S), q.saved => Writer(S),
             p.pc \in {"body", "flush"}, p.saved = q.saved
      PROVE  SaveInv'
  BY <1>6, MovesSave DEF q
<1>7. CASE Get(s)
  <2>1. PICK name \in OpNames \ {"scope", "open"}, id \in Ids : Read(s, ses[s], name, id, {id})
    BY <1>7, RequestAssumption DEF Get, OpNames
  <2> QED
    BY <1>1, <2>1, ReadSave DEF q
<1>8. CASE FindChild(s)
  <2>1. PICK name \in OpNames \ {"scope", "open"}, C \in SUBSET Ids :
          Read(s, ses[s], name, Root, C)
    BY <1>1, <1>8, MintType DEF FindChild, OpNames
  <2> QED
    BY <1>1, <2>1, ReadSave DEF q
<1>9. CASE ReadOp(s) \/ FoundOp(s)
  BY <1>2, <1>5, <1>6, <1>9 DEF ReadOp, FoundOp, L, G
<1>10. CASE WriteOp(s) \/ MutateOp(s) \/ DeleteOp(s)
  <2>1. PICK S, t, W, D :
          /\ \/ S = Write(L.S, q.op.id, Tag(s))
             \/ S = Mutate(L.S, q.op.id, Tag(s))
             \/ S = DeleteAnchor(L.S, q.op.id)
          /\ \/ Step(s, S, t, [G EXCEPT !.pc = "body", !.wset = W])
             \/ Step(s, S, t, [G EXCEPT !.pc = "body", !.wset = W, !.dset = D])
    BY <1>10 DEF WriteOp, MutateOp, DeleteOp, L, G, q
  <2>2. Calm(S) /\ (q.saved => Writer(S))
    BY <1>1, <1>2, <1>4, <2>1
  <2> QED
    BY <1>5, <1>6, <2>1, <2>2
<1>11. CASE FindOrCreateOp(s) \/ FindOrCountOp(s)
  <2>1. PICK id, S, t, W, U :
          /\ id \in Mint[s]
          /\ \/ S = Put(L.S, id, Tag(s))
             \/ S = Write(Put(L.S, id, Tag(s)), Root, Tag(s))
          /\ Step(s, S, t, [G EXCEPT !.pc = "body", !.wset = W, !.used = U])
    BY <1>11 DEF FindOrCreateOp, FindOrCountOp, L, G, q
  <2>2. id \in Ids
    BY <2>1, MintType
  <2>3. /\ Put(L.S, id, Tag(s)) \in Ses /\ Calm(Put(L.S, id, Tag(s)))
        /\ q.saved => Writer(Put(L.S, id, Tag(s)))
    BY <1>2, <1>4, <2>2
  <2>4. Calm(S) /\ (q.saved => Writer(S))
    BY <1>1, <1>4, <2>1, <2>3
  <2> QED
    BY <1>5, <1>6, <2>1, <2>4
<1>12. CASE CreateOp(s)
  <2>1. PICK id, p, W, U :
          /\ id \in Mint[s] /\ p = [G EXCEPT !.wset = W, !.used = U]
          /\ Step(s, Put(ses[s], id, Tag(s)), txn[s], p)
    BY <1>12 DEF CreateOp, G, q
  <2>2. id \in Ids
    BY <2>1, MintType
  <2>3. p.pc = "body" /\ p.saved = q.saved
    BY <1>3, <1>12, <2>1 DEF CreateOp, CanOp, At, q, Req
  <2> QED
    BY <1>1, <1>4, <1>6, <2>1, <2>2, <2>3
<1>13. CASE EnqueueOp(s)
  <2>1. PICK r : r = Join(Done(ses[s], txn[s]), Tag(s))
    OBVIOUS
  <2>2. Goes(ses[s], r)
    BY <1>1, <2>1, GoesSelf, JoinGoes
  <2>3. PICK p : /\ Step(s, r.S, r.t, p)
                 /\ \/ p = [G EXCEPT !.enqueued = TRUE]
                    \/ p = [G EXCEPT !.pc = "caught", !.exc = r.exc]
    BY <1>13, <2>1 DEF EnqueueOp, G
  <2>4. G.pc = "body"
    BY <1>3, <1>13 DEF EnqueueOp, CanOp, At, q
  <2>5. p.saved = q.saved /\ (q.saved => Later(p))
    <3>1. CASE p = [G EXCEPT !.enqueued = TRUE]
      <4>1. p.saved = q.saved /\ p.pc = "body"
        BY <1>3, <2>4, <3>1 DEF Req
      <4> QED
        BY <4>1 DEF Later
    <3>2. CASE p = [G EXCEPT !.pc = "caught", !.exc = r.exc]
      <4>1. p.saved = q.saved /\ p.pc = "caught" /\ p.exc = r.exc
        BY <1>3, <3>2 DEF Req
      <4>2. q.saved => r.exc # "ro"
        BY <1>1, <2>2, GoesParts
      <4> QED
        BY <4>1, <4>2 DEF Later
    <3> QED
      BY <2>3, <3>1, <3>2
  <2>6. Saved(r.S, p)
    BY <1>1, <2>2, <2>5, GoesSaved
  <2> QED
    BY <2>3, <2>6, StepSave
<1>14. CASE OnCommitOp(s) \/ WalkEnds(s)
  <2>1. G.pc = "body"
    BY <1>3, <1>14 DEF OnCommitOp, WalkEnds, CanOp, At, q
  <2>2. PICK p : /\ Step(s, ses[s], txn[s], p)
                 /\ \/ p = [G EXCEPT !.effect = TRUE]
                    \/ p = [G EXCEPT !.pc = "flush", !.kind = "walk", !.tries = 0]
    BY <1>14 DEF OnCommitOp, WalkEnds, G
  <2>3. p.pc \in {"body", "flush"} /\ p.saved = q.saved
    BY <1>3, <2>1, <2>2 DEF Req
  <2> QED
    BY <1>1, <1>6, <2>2, <2>3
<1>15. CASE FailOp(s)
  <2>1. PICK p : Step(s, ses[s], txn[s], p) /\ p = Throw(G, "app")
    BY <1>15 DEF FailOp, G
  <2>2. p.saved = q.saved /\ p.pc = "handler" /\ p.exc = "app"
    BY <1>3, <2>1 DEF Throw, Req
  <2> QED
    BY <1>1, <2>1, <2>2, StepSave DEF Saved, Later
<1>16. CASE Propagate(s)
  <2>1. PICK p : Step(s, ses[s], txn[s], p) /\ p = Goto(q, "handler") /\ q.pc = "caught"
    BY <1>16 DEF Propagate, At, q
  <2>2. p.saved = q.saved /\ p.pc = "handler" /\ p.exc = q.exc
    BY <1>1, <2>1 DEF Goto, Req
  <2> QED
    BY <1>1, <2>1, <2>2, StepSave DEF Saved, Later
<1>17. CASE Swallow(s) \/ Return(s)
  <2>1. PICK p : /\ Step(s, ses[s], txn[s], p)
                 /\ \/ p = [q EXCEPT !.pc = "body", !.exc = "none"]
                    \/ p = [q EXCEPT !.pc = "flush", !.kind = "final", !.tries = 0]
    BY <1>17 DEF Swallow, Return, q
  <2>2. p.pc \in {"body", "flush"} /\ p.saved = q.saved
    BY <1>1, <2>1 DEF Req
  <2> QED
    BY <1>1, <1>6, <2>1, <2>2
<1> QED
  BY <1>7, <1>8, <1>9, <1>10, <1>11, <1>12, <1>13, <1>14, <1>15, <1>16, <1>17 DEF Walker

-----------------------------------------------------------------------------
(* Commits                                                                 *)

LEMMA CommitFailsSave ==
    ASSUME TypeOK, SaveInv, NEW s \in Sessions, NEW r, Goes(ses[s], r),
           req[s].pc \in {"flush", "commit"}, CommitFails(s, r.S, r.exc)
    PROVE  SaveInv'
<1>1. /\ r.S \in Ses /\ Calm(r.S) /\ r.exc \in Exceptions /\ req[s] \in Req
      /\ req[s].saved => Writer(ses[s]) /\ Writer(r.S) /\ r.exc # "ro"
  BY PartsSave, GoesParts
<1>2. PICK p : p = IF r.exc = "db" THEN Replay(r.S, req[s].tries >= ReplayMax)
                   ELSE Raise(Rollback(r.S), NoTxn, r.exc)
  OBVIOUS
<1>3. Calm(p.S) /\ (req[s].saved => Writer(p.S) /\ p.exc # "ro")
  <2>1. CASE r.exc = "db"
    <3>1. (req[s].tries >= ReplayMax) \in BOOLEAN
      BY <1>1
    <3>2. Goes(ses[s], p)
      BY <1>2, <2>1, <3>1, ReplayGoes
    <3> QED
      BY <1>1, <3>2, GoesParts
  <2>2. CASE r.exc # "db"
    <3>1. Calm(Rollback(r.S)) /\ (req[s].saved => Writer(Rollback(r.S)))
      BY <1>1, RollbackCalm, RollbackKeeps DEF Keeps
    <3> QED
      BY <1>1, <1>2, <2>2, <3>1 DEF Raise
  <2> QED
    BY <2>1, <2>2
<1>4. PICK q : /\ Becomes(s, p.S, p.t, q)
               /\ \/ \E n : q = [req[s] EXCEPT !.pc = "flush", !.tries = n]
                  \/ q = Settle(req[s], p.exc)
  BY <1>2 DEF CommitFails
<1>5. q.saved = req[s].saved /\ (req[s].saved => Later(q))
  <2>1. CASE \E n : q = [req[s] EXCEPT !.pc = "flush", !.tries = n]
    BY <1>1, <2>1 DEF Req, Later
  <2>2. CASE q = Goto(req[s], "body") \/ q = Goto(req[s], "leave")
    BY <1>1, <2>2 DEF Goto, Req, Later
  <2>3. CASE q = Throw(req[s], p.exc)
    <3>1. q.saved = req[s].saved /\ q.pc = "handler" /\ q.exc = p.exc
      BY <1>1, <2>3 DEF Throw, Req
    <3> QED
      BY <1>3, <3>1 DEF Later
  <2> QED
    BY <1>4, <2>1, <2>2, <2>3 DEF Settle
<1>6. Saved(p.S, q)
  BY <1>3, <1>5 DEF Saved
<1> QED
  BY <1>4, <1>6, BecomesSave

(* A commit that saves makes the unit a writer: it was not told to retry,  *)
(* or it would have had nothing in flight.                                 *)
LEMMA AfterCommitSave ==
    ASSUME TypeOK, SaveInv, NEW s \in Sessions, AfterCommit(s) PROVE SaveInv'
<1>1. /\ ses[s] \in Ses /\ req[s] \in Req /\ Calm(ses[s])
      /\ req[s].saved => Writer(ses[s])
  BY PartsSave
<1>2. PICK P : P = Promote(ses[s])
  OBVIOUS
<1>3. P \in Ses /\ P.raised = ses[s].raised /\ ~InFlight(P) /\ P.unit = ses[s].unit
  BY <1>1, <1>2, PromoteCalm DEF Promote, Ses
<1>4. PICK S : S = LeaveQueue(P)
  OBVIOUS
<1>5. S \in Ses /\ S.raised = ses[s].raised /\ ~InFlight(S) /\ S.unit = ses[s].unit
  <2>1. /\ S \in Ses /\ S.raised = P.raised /\ S.unit = P.unit
        /\ S.ups = P.ups /\ S.rem = P.rem /\ S.joined = P.joined
    BY <1>3, <1>4, LeaveQueueType DEF LeaveQueue, Ses
  <2>2. ~InFlight(S)
    BY <1>3, <2>1 DEF InFlight, Upserted
  <2> QED
    BY <1>3, <2>1, <2>2
<1>6. PICK R : R = IF InFlight(ses[s]) THEN RegisterWriters(S) ELSE S
  OBVIOUS
<1>7. Calm(R) /\ (req[s].saved \/ InFlight(ses[s]) => Writer(R))
  <2>1. CASE InFlight(ses[s])
    <3>1. ~S.raised
      BY <1>1, <1>5, <2>1 DEF Calm
    <3>2. ~RegisterWriters(S).raised
      BY <1>5, <3>1, RegisterWritersType
    <3>3. RegisterWriters(S).unit # "ro"
      BY <1>5 DEF RegisterWriters, Ses
    <3> QED
      BY <1>6, <2>1, <3>2, <3>3 DEF Calm, Writer
  <2>2. CASE ~InFlight(ses[s])
    BY <1>1, <1>5, <1>6, <2>2 DEF Calm, Writer
  <2> QED
    BY <2>1, <2>2
<1>8. PICK G : G = Goto(req[s], AfterKind[req[s].kind])
  OBVIOUS
<1>9. G \in Req /\ G.pc \in {"body", "effects", "exit", "leave"} /\ G.saved = req[s].saved
  <2>1. AfterKind[req[s].kind] \in {"body", "effects", "exit", "leave"}
    BY <1>1 DEF Req, Kinds, AfterKind
  <2> QED
    BY <1>1, <1>8, <2>1 DEF Goto, Req, Pcs
<1>10. PICK c, w, v : /\ v = (G.saved \/ InFlight(ses[s]))
                      /\ Becomes(s, R, NoTxn, [G EXCEPT !.committed = c, !.won = w, !.saved = v])
  BY <1>2, <1>4, <1>6, <1>8, <1>9 DEF AfterCommit, Req
<1>11. PICK q : q = [G EXCEPT !.committed = c, !.won = w, !.saved = v]
  OBVIOUS
<1>12. q.pc = G.pc /\ q.saved = v
  BY <1>9, <1>11 DEF Req
<1>13. Saved(R, q)
  BY <1>7, <1>9, <1>10, <1>12 DEF Saved, Later
<1> QED
  BY <1>10, <1>11, <1>13, BecomesSave

LEMMA CommitSave ==
    ASSUME TypeOK, SaveInv, NEW s \in Sessions,
           FlushAll(s) \/ SqlCommit(s) \/ SqlCommitFails(s) \/ CommitUnanswered(s)
    PROVE  SaveInv'
<1>1. /\ ses[s] \in Ses /\ txn[s] \in Txn /\ req[s] \in Req /\ StoreReady
      /\ Calm(ses[s])
  BY PartsSave
<1>2. CASE FlushAll(s)
  <2>1. PICK r : r = IF ses[s].lost THEN Raise(ses[s], txn[s], "lost")
                     ELSE Flush(s, Done(ses[s], txn[s]), TRUE)
    OBVIOUS
  <2>2. Goes(ses[s], Raise(ses[s], txn[s], "lost"))
    <3>1. "lost" \in Exceptions \ {"none", "ro"}
      BY DEF Exceptions
    <3> QED
      BY <1>1, <3>1, GoesRaise
  <2>3. Goes(ses[s], r)
    <3>1. Goes(ses[s], Flush(s, Done(ses[s], txn[s]), TRUE))
      BY <1>1, GoesSelf, FlushGoes
    <3> QED
      BY <2>1, <2>2, <3>1
  <2>4. PICK q : q = Goto(req[s], "commit")
    OBVIOUS
  <2>5. q.saved = req[s].saved /\ q.pc = "commit"
    BY <1>1, <2>4 DEF Goto, Req
  <2>6. Saved(r.S, q)
    <3>1. Later(q)
      BY <2>5 DEF Later
    <3>2. req[s].saved => Writer(ses[s])
      BY PartsSave
    <3> QED
      BY <2>3, <2>5, <3>1, <3>2, GoesParts DEF Saved
  <2>7. Becomes(s, r.S, r.t, q) \/ CommitFails(s, r.S, r.exc)
    BY <1>2, <2>1, <2>4 DEF FlushAll
  <2>8. req[s].pc = "flush"
    BY <1>2 DEF FlushAll, At
  <2> QED
    BY <2>3, <2>6, <2>7, <2>8, BecomesSave, CommitFailsSave
<1>3. CASE SqlCommit(s)
  BY <1>3, AfterCommitSave DEF SqlCommit
<1>4. CASE SqlCommitFails(s) \/ CommitUnanswered(s)
  <2>1. PICK r : r = Raise(ses[s], txn[s], "db")
    OBVIOUS
  <2>2. r.S = ses[s] /\ r.exc = "db"
    BY <2>1 DEF Raise
  <2>3. Goes(ses[s], r)
    <3>1. "db" \in Exceptions \ {"none", "ro"}
      BY DEF Exceptions
    <3> QED
      BY <1>1, <2>1, <3>1, GoesRaise
  <2>4. CommitFails(s, r.S, r.exc) /\ req[s].pc = "commit"
    BY <1>4, <2>2 DEF SqlCommitFails, CommitUnanswered, CanCommit, At
  <2> QED
    BY <2>3, <2>4, CommitFailsSave
<1> QED
  BY <1>2, <1>3, <1>4

-----------------------------------------------------------------------------
(* Effects, the conflict loop and the end                                  *)

LEMMA EffectSave ==
    ASSUME TypeOK, SaveInv, NEW s \in Sessions,
           \/ NoEffect(s) \/ PlainEffect(s) \/ WritingEffect(s) \/ EffectWrites(s)
    PROVE  SaveInv'
<1>1. /\ ses[s] \in Ses /\ txn[s] \in Txn /\ req[s] \in Req /\ Tag(s) \in Tags
      /\ Root \in Ids /\ {Root} \in SUBSET Ids /\ Calm(ses[s])
      /\ req[s].saved => Writer(ses[s])
  BY PartsSave
<1>2. PICK F : F = Fired(s)
  OBVIOUS
<1>3. F \in Req /\ F.saved = req[s].saved /\ F.pc = req[s].pc
  BY <1>1, <1>2, FiredType DEF Fired, Req
<1>4. CASE NoEffect(s)
  <2>1. PICK q : /\ Step(s, ses[s], txn[s], q)
                 /\ q = [req[s] EXCEPT !.pc = "flush", !.kind = "outer", !.tries = 0]
    BY <1>4 DEF NoEffect
  <2>2. q.pc = "flush" /\ q.saved = req[s].saved
    BY <1>1, <2>1 DEF Req
  <2> QED
    BY <1>1, <2>1, <2>2, MovesSave
<1>5. CASE PlainEffect(s)
  <2>1. F.pc = "effects"
    BY <1>3, <1>5 DEF PlainEffect, At
  <2> QED
    BY <1>1, <1>2, <1>3, <1>5, <2>1, MovesSave DEF PlainEffect
<1>6. CASE WritingEffect(s)
  BY <1>1, <1>6, ReadSave DEF WritingEffect, OpNames
<1>7. CASE EffectWrites(s)
  <2>1. /\ Loaded(s).S \in Ses /\ Calm(Loaded(s).S)
        /\ req[s].saved => Writer(Loaded(s).S)
    BY LoadedSave
  <2>2. PICK W : W = Write(Loaded(s).S, Root, Tag(s))
    OBVIOUS
  <2>3. Calm(W) /\ (req[s].saved => Writer(W))
    BY <1>1, <2>1, <2>2, WriteKeeps, WriteAdds0, Adds0Calm DEF Keeps
  <2>4. PICK q, X : /\ Step(s, W, Loaded(s).t, q)
                    /\ q = [F EXCEPT !.pc = "effects", !.wset = X]
    BY <1>2, <1>7, <2>2 DEF EffectWrites
  <2>5. q.pc = "effects" /\ q.saved = req[s].saved
    BY <1>3, <2>4 DEF Req
  <2> QED
    BY <2>3, <2>4, <2>5, MovesSave
<1> QED
  BY <1>4, <1>5, <1>6, <1>7

LEMMA ReplySave ==
    ASSUME TypeOK, SaveInv, NEW s \in Sessions, NEW a, Reply(s, a) PROVE SaveInv'
<1>1. /\ ses[s] \in Ses /\ req[s] \in Req
      /\ req[s].saved => Writer(ses[s])
  BY PartsSave
<1>2. PICK A : A = [Abort(ses[s]) EXCEPT !.unit = "none", !.raised = FALSE]
  OBVIOUS
<1>3. A.unit = "none" /\ ~A.raised
  BY <1>1, <1>2, AbortCalm DEF Ses
<1>4. PICK q : /\ Step(s, A, NoTxn, q)
               /\ q = [req[s] EXCEPT !.pc = "close", !.answer = a, !.effect = FALSE]
  BY <1>2 DEF Reply
<1>5. q.pc = "close" /\ q.saved = req[s].saved
  BY <1>1, <1>4 DEF Req
<1> QED
  BY <1>3, <1>4, <1>5, MovesSave DEF Calm, Writer

LEMMA RerunSave ==
    ASSUME TypeOK, SaveInv, NEW s \in Sessions, NEW S \in Ses, NEW pc, NEW n,
           Rerun(s, S, pc, n)
    PROVE  SaveInv'
<1>1. req[s] \in Req
  BY PartsSave
<1>2. Reenter(S) \in Ses
  BY UnitType DEF Reenter
<1>3. Calm(Abort(Reenter(S)))
  BY <1>2, AbortCalm
<1>4. PICK q : q = [req[s] EXCEPT !.pc = pc, !.exc = "none", !.attempt = n,
                !.roRetries = @ + (IF req[s].exc = "ro" THEN 1 ELSE 0),
                !.committed = FALSE, !.effect = FALSE, !.ops = 0,
                !.run = @ + 1, !.wset = {}, !.dset = {},
                !.enqueued = FALSE, !.saved = FALSE]
  OBVIOUS
<1>5. Step(s, Abort(Reenter(S)), NoTxn, q)
  BY <1>4 DEF Rerun
<1>6. q.saved = FALSE
  BY <1>1, <1>4 DEF Req
<1> QED
  BY <1>3, <1>5, <1>6, StepSave DEF Saved

LEMMA HandlerSave ==
    ASSUME TypeOK, SaveInv, NEW s \in Sessions,
           \/ UnitExit(s) \/ HandleReadOnlyRetry(s) \/ HandleConflict(s)
           \/ HandleError(s) \/ HandleAfterCommit(s)
    PROVE  SaveInv'
<1>1. /\ ses[s] \in Ses /\ req[s] \in Req /\ Calm(ses[s])
      /\ req[s].saved => Writer(ses[s])
  BY PartsSave
<1>2. CASE UnitExit(s)
  <2>1. PICK S : S = [ses[s] EXCEPT !.unit = "none", !.raised = FALSE]
    OBVIOUS
  <2>2. S \in Ses /\ S.unit = "none" /\ ~S.raised
    BY <1>1, <2>1 DEF Ses
  <2>3. CASE ses[s].raised
    <3>1. ~req[s].saved
      BY <1>1, <2>3 DEF Writer
    <3>2. PICK q : Step(s, Abort(S), NoTxn, q) /\ q = Throw(req[s], "ro")
      BY <1>2, <2>1, <2>3 DEF UnitExit
    <3>3. ~q.saved
      BY <1>1, <3>1, <3>2 DEF Throw, Req
    <3> QED
      BY <2>2, <3>2, <3>3, AbortCalm, StepSave DEF Saved
  <2>4. CASE ~ses[s].raised
    <3>1. PICK q : /\ Step(s, S, txn[s], q)
                   /\ q = [req[s] EXCEPT !.pc = "close", !.answer = "ok"]
      BY <1>2, <2>1, <2>4 DEF UnitExit
    <3>2. q.pc = "close" /\ q.saved = req[s].saved
      BY <1>1, <3>1 DEF Req
    <3> QED
      BY <2>2, <3>1, <3>2, MovesSave DEF Calm, Writer
  <2> QED
    BY <2>3, <2>4
<1>3. CASE HandleReadOnlyRetry(s)
  <2>1. [ses[s] EXCEPT !.raised = FALSE] \in Ses
    BY <1>1 DEF Ses
  <2> QED
    BY <1>3, <2>1, ReplySave, RerunSave DEF HandleReadOnlyRetry
<1>4. CASE HandleConflict(s)
  BY <1>1, <1>4, ReplySave, RerunSave DEF HandleConflict
<1>5. CASE HandleError(s)
  BY <1>1, <1>5, ReplySave, RerunSave DEF HandleError
<1>6. CASE HandleAfterCommit(s)
  BY <1>6, ReplySave DEF HandleAfterCommit
<1> QED
  BY <1>2, <1>3, <1>4, <1>5, <1>6

LEMMA RestSave ==
    ASSUME TypeOK, SaveInv, NEW s \in Sessions,
           \/ NoTurn(s) \/ LeavePlace(s) \/ TakeTurn(s) \/ TurnTimesOut(s) \/ Pin(s)
           \/ Reload(s) \/ Reloaded(s) \/ CloseSession(s) \/ LeaveSession(s)
    PROVE  SaveInv'
<1>1. /\ ses[s] \in Ses /\ req[s] \in Req /\ Calm(ses[s]) /\ Root \in Ids
      /\ {Root} \in SUBSET Ids
      /\ req[s].saved => Writer(ses[s]) /\ Later(req[s])
  BY PartsSave
<1>2. ASSUME NEW S, NEW t, NEW q, Becomes(s, S, t, q), S.raised = ses[s].raised,
             S.ups = ses[s].ups, S.rem = ses[s].rem, S.joined = ses[s].joined,
             S.unit = ses[s].unit, q.saved = req[s].saved,
             q.pc \in {"turn", "pin", "reload", "flush"}
      PROVE  SaveInv'
  <2>1. Calm(S) /\ (req[s].saved => Writer(S))
    BY <1>1, <1>2, SameLedger, Adds0Calm DEF Writer
  <2>2. Later(q)
    BY <1>2 DEF Later
  <2> QED
    BY <1>2, <2>1, <2>2, BecomesSave DEF Saved
<1>3. \A pc : Goto(req[s], pc).pc = pc /\ Goto(req[s], pc).saved = req[s].saved
  BY <1>1 DEF Goto, Req
<1>4. CASE NoTurn(s) \/ Pin(s)
  <2>1. PICK t : Becomes(s, ses[s], t, Goto(req[s], "reload"))
    BY <1>4 DEF NoTurn, Pin, Step
  <2> QED
    BY <1>2, <1>3, <2>1
<1>5. CASE LeavePlace(s) \/ TakeTurn(s) \/ TurnTimesOut(s)
  <2>1. PICK S, t, q :
          /\ Becomes(s, S, t, q)
          /\ (\E W : S = [ses[s] EXCEPT !.queued = W]) \/ S = [ses[s] EXCEPT !.contended = {}]
          /\ \/ q = req[s] /\ q.pc = "turn"
             \/ q = Goto(req[s], "pin") \/ q = Goto(req[s], "reload")
    BY <1>5 DEF LeavePlace, TakeTurn, TurnTimesOut, At
  <2>2. /\ S.raised = ses[s].raised /\ S.ups = ses[s].ups /\ S.rem = ses[s].rem
        /\ S.joined = ses[s].joined /\ S.unit = ses[s].unit
    BY <1>1, <2>1 DEF Ses
  <2> QED
    BY <1>2, <1>3, <2>1, <2>2
<1>6. CASE Reload(s)
  BY <1>1, <1>6, ReadSave DEF Reload, OpNames
<1>7. CASE Reloaded(s)
  <2>1. Step(s, Loaded(s).S, Loaded(s).t, Goto(req[s], "body"))
    BY <1>7 DEF Reloaded
  <2> QED
    BY <1>3, <2>1, LoadedSave, MovesSave
<1>8. CASE CloseSession(s)
  <2>1. PICK q : /\ Step(s, ses[s], txn[s], q)
                 /\ q = [req[s] EXCEPT !.pc = "flush", !.kind = "close", !.tries = 0]
    BY <1>8 DEF CloseSession
  <2>2. q.pc = "flush" /\ q.saved = req[s].saved
    BY <1>1, <2>1 DEF Req
  <2> QED
    BY <1>1, <2>1, <2>2, MovesSave
<1>9. CASE LeaveSession(s)
  <2>1. Calm(NewSession) /\ Writer(NewSession)
    BY NewSessionType DEF Calm, Writer
  <2>2. Later(Goto(req[s], "answered"))
    BY <1>3 DEF Later
  <2>3. PICK q : Becomes(s, NewSession, NoTxn, q) /\ Later(q)
    BY <1>9, <2>2 DEF LeaveSession
  <2> QED
    BY <2>1, <2>3, BecomesSave DEF Saved
<1> QED
  BY <1>4, <1>5, <1>6, <1>7, <1>8, <1>9

LEMMA SaveNext == ASSUME TypeOK, SaveInv, [Next]_vars PROVE SaveInv'
<1>1. ASSUME UNCHANGED <<ses, req>> PROVE SaveInv'
  BY <1>1 DEF SaveInv, Saved, Calm, InFlight, Upserted, Writer, Later
<1>2. CASE UNCHANGED vars
  BY <1>1, <1>2 DEF vars
<1>3. ASSUME NEW s \in Sessions, Walker(s) \/ Server(s) \/ Network(s)
      PROVE  SaveInv'
  <2>1. CASE ConnectionLost(s)
    BY <1>1, <2>1 DEF ConnectionLost
  <2> QED
    BY <1>3, <2>1, WalkerSave, ArrivalSave, RereadSave, CommitSave, EffectSave,
       HandlerSave, RestSave DEF Server, Network
<1> QED
  BY <1>2, <1>3 DEF Next, Terminated

(* Once an attempt has committed a write, no ReadOnlyRetry re-runs it: the *)
(* commit that saves records the unit as a writer, so that no later step   *)
(* of the attempt promotes a read-only unit, and a unit that was told to   *)
(* retry has nothing left to save (RegisterWriters, BeginWritable,         *)
(* Session.commit, unit_exit).                                             *)
THEOREM SavedStays == Spec => []SavedIsNotRetried
<1>1. TypeOK /\ SaveInv => SavedIsNotRetried
  BY DEF TypeOK, SaveInv, Saved, Later, SavedIsNotRetried, At
<1> QED
  BY <1>1, SaveInit, SaveNext, TypeCorrect, PTL DEF Spec

-----------------------------------------------------------------------------

(* What is still to be flushed whatever the cache says.                    *)
Pending(S) == (S.dirty \cap S.cached) \cup S.deleted

(* An anchor is not both cached and deleted.                               *)
Apart(S) == S.cached \cap S.deleted = {}

Idle(t) == t.mode = "none" => t = NoTxn

(* Ledger and transaction agree on every row outside P.                    *)
AgreesBut(S, t, P) ==
    t.mode # "none" /\ ~t.dead =>
        /\ t.wrote \subseteq Upserted(S) \cup S.rem \cup P
        /\ \A id \in Upserted(S) : t.view[id] = S.ups[id] \/ id \in P

Agrees(S, t) == AgreesBut(S, t, Pending(S))
Exact(S, t)  == AgreesBut(S, t, {})

(* Nothing written is without a transaction.                               *)
Kept(S, t) == t.mode = "none" => ~InFlight(S)

(* The cached anchors that are not as the ledger has them, dirty or not.   *)
Unlike(S) == {id \in S.cached : ~Present(Current(S, id)) \/ Current(S, id).val # S.mem[id]}

LEMMA UnflushedUnlike ==
    ASSUME NEW S
    PROVE  /\ Unflushed(S, TRUE) = (S.dirty \cap S.cached) \cup Unlike(S)
           /\ Unflushed(S, FALSE) = S.dirty \cap S.cached
  BY DEF Unflushed, Unlike

LEMMA NothingWritten ==
    ASSUME NEW S, NEW t, Upserted(S) = {}, t.wrote = {}, NEW P
    PROVE  AgreesBut(S, t, P)
  BY DEF AgreesBut

LEMMA NotOpen ==
    ASSUME NEW S, NEW t, t.mode = "none" \/ t.dead, NEW P PROVE AgreesBut(S, t, P)
  BY DEF AgreesBut

LEMMA NoTxnParts == /\ NoTxn.mode = "none" /\ ~NoTxn.dead /\ NoTxn.wrote = {} /\ Idle(NoTxn)
                    /\ \A S, P : AgreesBut(S, NoTxn, P)
<1>1. NoTxn.mode = "none" /\ ~NoTxn.dead /\ NoTxn.wrote = {}
  BY DEF NoTxn
<1> QED
  BY <1>1, NotOpen DEF Idle

LEMMA BeginParts ==
    ASSUME StoreReady, NEW mode \in {"rw", "ro"}
    PROVE  /\ Begin(mode) \in Txn /\ Begin(mode).mode = mode
           /\ Begin(mode).wrote = {} /\ Idle(Begin(mode))
<1>1. Begin(mode).mode = mode /\ Begin(mode).wrote = {}
  BY DEF Begin, NoTxn
<1> QED
  BY <1>1, BeginType DEF Idle

LEMMA EmptyUps == ASSUME NEW S, S.ups = NoRows PROVE Upserted(S) = {}
  BY DEF Upserted, NoRows, Present, Absent

(* What the client asks of a transaction leaves its rows alone.            *)
LEMMA MoreAgrees ==
    ASSUME NEW S, NEW R, NEW t, NEW u, NEW P, NEW Q, AgreesBut(S, t, P), P \subseteq Q,
           R.ups = S.ups, R.rem = S.rem, u.mode = t.mode, u.dead = t.dead,
           u.view = t.view, u.wrote = t.wrote
    PROVE  AgreesBut(R, u, Q)
<1>1. Upserted(R) = Upserted(S)
  BY DEF Upserted
<1> QED
  BY <1>1 DEF AgreesBut

-----------------------------------------------------------------------------
(* What the operations on the ledger and the cache leave of a session      *)

LEMMA RollbackParts ==
    ASSUME NEW S \in Ses
    PROVE  LET R == Rollback(S)
           IN  /\ R \in Ses /\ R.cached = S.cached /\ R.mem = S.mem
               /\ R.dirty = S.dirty \cup (Upserted(S) \cap S.cached)
               /\ R.deleted = S.deleted \cup (S.rem \ S.cached)
               /\ R.lost = (S.lost \/ S.joined) /\ R.scope = S.scope
               /\ R.unit = S.unit /\ R.raised = S.raised
               /\ Upserted(R) = {} /\ ~InFlight(R)
               /\ Apart(S) => Apart(R)
<1>1. PICK R : R = Rollback(S)
  OBVIOUS
<1>2. /\ R.cached = S.cached /\ R.mem = S.mem
      /\ R.dirty = S.dirty \cup (Upserted(S) \cap S.cached)
      /\ R.deleted = S.deleted \cup (S.rem \ S.cached)
      /\ R.lost = (S.lost \/ S.joined) /\ R.scope = S.scope /\ R.unit = S.unit
      /\ R.ups = NoRows
  BY <1>1 DEF Rollback, Ses
<1>3. R \in Ses /\ R.raised = S.raised /\ ~InFlight(R)
  BY <1>1, RollbackCalm
<1>4. Upserted(R) = {}
  BY <1>2, EmptyUps
<1>5. Apart(S) => Apart(R)
  BY <1>2 DEF Apart
<1> QED
  BY <1>1, <1>2, <1>3, <1>4, <1>5

LEMMA PromoteParts ==
    ASSUME NEW S \in Ses
    PROVE  LET P == Promote(S)
           IN  /\ P \in Ses /\ P.cached = S.cached /\ P.mem = S.mem
               /\ P.dirty = S.dirty /\ P.deleted = S.deleted
               /\ P.lost = S.lost /\ P.scope = S.scope
               /\ P.unit = S.unit /\ P.raised = S.raised
               /\ Upserted(P) = {} /\ ~InFlight(P)
               /\ \A id \in Ids : Current(P, id) = Current(S, id)
               /\ Unlike(P) = Unlike(S)
<1>1. PICK P : P = Promote(S)
  OBVIOUS
<1>2. /\ P.cached = S.cached /\ P.mem = S.mem
      /\ P.dirty = S.dirty /\ P.deleted = S.deleted
      /\ P.lost = S.lost /\ P.scope = S.scope /\ P.unit = S.unit
      /\ P.ups = NoRows /\ P.rem = {} /\ P.known = [id \in Ids |-> Current(S, id)]
  BY <1>1 DEF Promote, Ses
<1>3. P \in Ses /\ P.raised = S.raised /\ ~InFlight(P)
  BY <1>1, PromoteCalm
<1>4. Upserted(P) = {}
  BY <1>2, EmptyUps
<1>5. \A id \in Ids : Current(P, id) = Current(S, id)
  <2>1. \A id \in Ids : P.known[id] = Current(S, id) /\ ~Present(P.ups[id]) /\ id \notin P.rem
    BY <1>2 DEF NoRows, Present, Absent
  <2>2. \A id \in Ids : Current(P, id) = P.known[id]
    BY <2>1 DEF Current
  <2> QED
    BY <2>1, <2>2
<1>6. Unlike(P) = Unlike(S)
  <2>1. S.cached \subseteq Ids
    BY DEF Ses
  <2> QED
    BY <1>2, <1>5, <2>1 DEF Unlike
<1> QED
  BY <1>1, <1>2, <1>3, <1>4, <1>5, <1>6

LEMMA ForgetParts ==
    ASSUME NEW S \in Ses, NEW F \in SUBSET Ids
    PROVE  LET G == Forget(S, F)
           IN  /\ G \in Ses /\ G.cached = S.cached \ F
               /\ G.dirty = S.dirty /\ G.deleted = S.deleted
               /\ G.lost = S.lost /\ G.scope = S.scope /\ G.unit = S.unit
               /\ G.raised = S.raised /\ G.ups = S.ups /\ G.rem = S.rem
               /\ G.joined = S.joined /\ Unlike(G) \subseteq Unlike(S)
<1>1. PICK G : G = Forget(S, F)
  OBVIOUS
<1>2. /\ G.cached = S.cached \ F /\ G.mem = [id \in Ids |-> IF id \in F THEN {} ELSE S.mem[id]]
      /\ G.dirty = S.dirty /\ G.deleted = S.deleted
      /\ G.lost = S.lost /\ G.scope = S.scope /\ G.unit = S.unit
      /\ G.known = [id \in Ids |-> IF id \in F THEN Absent ELSE S.known[id]]
  BY <1>1 DEF Forget, Ses
<1>3. /\ G \in Ses /\ G.ups = S.ups /\ G.rem = S.rem
      /\ G.joined = S.joined /\ G.raised = S.raised
  BY <1>1, ForgetAdds0
<1>4. \A id \in Ids \ F : G.mem[id] = S.mem[id] /\ Current(G, id) = Current(S, id)
  BY <1>2, <1>3 DEF Current
<1>5. Unlike(G) \subseteq Unlike(S)
  <2>1. S.cached \subseteq Ids
    BY DEF Ses
  <2> QED
    BY <1>2, <1>4, <2>1 DEF Unlike
<1> QED
  BY <1>1, <1>2, <1>3, <1>5

LEMMA DropParts ==
    ASSUME NEW S \in Ses
    PROVE  LET D == DropSnapshotReads(S)
           IN  /\ D \in Ses /\ D.cached \subseteq S.cached
               /\ D.dirty \cap D.cached = S.dirty \cap S.cached
               /\ D.dirty = S.dirty /\ D.deleted = S.deleted
               /\ D.lost = S.lost /\ D.scope = S.scope /\ D.unit = S.unit
               /\ D.raised = S.raised /\ Upserted(D) = Upserted(S)
               /\ InFlight(D) = InFlight(S) /\ Unlike(D) \subseteq Unlike(S)
               /\ Apart(S) => Apart(D)
<1>1. S.snap \ (S.dirty \cup S.deleted) \in SUBSET Ids
  BY DEF Ses
<1>2. PICK F : F = Forget(S, S.snap \ (S.dirty \cup S.deleted))
  OBVIOUS
<1>3. /\ F \in Ses /\ F.cached = S.cached \ (S.snap \ (S.dirty \cup S.deleted))
      /\ F.dirty = S.dirty /\ F.deleted = S.deleted
      /\ F.lost = S.lost /\ F.scope = S.scope /\ F.unit = S.unit
      /\ F.raised = S.raised /\ F.ups = S.ups /\ F.rem = S.rem
      /\ F.joined = S.joined /\ Unlike(F) \subseteq Unlike(S)
  BY <1>1, <1>2, ForgetParts
<1>4. PICK D : D = DropSnapshotReads(S) /\ D = [F EXCEPT !.snap = {}]
  BY <1>2 DEF DropSnapshotReads
<1>5. /\ D \in Ses /\ D.cached = F.cached /\ D.mem = F.mem /\ D.known = F.known
      /\ D.dirty = F.dirty /\ D.deleted = F.deleted
      /\ D.lost = F.lost /\ D.scope = F.scope /\ D.unit = F.unit
      /\ D.raised = F.raised /\ D.ups = F.ups /\ D.rem = F.rem /\ D.joined = F.joined
  BY <1>3, <1>4 DEF Ses
<1>6. Unlike(D) = Unlike(F) /\ InFlight(D) = InFlight(S) /\ Upserted(D) = Upserted(S)
  BY <1>3, <1>5 DEF Unlike, Current, InFlight, Upserted
<1>7. Apart(S) => Apart(D)
  BY <1>3, <1>5 DEF Apart
<1> QED
  BY <1>3, <1>4, <1>5, <1>6, <1>7

LEMMA AbortParts ==
    ASSUME NEW S \in Ses
    PROVE  LET A == Abort(S)
           IN  /\ A \in Ses /\ A.cached = {} /\ A.dirty = {} /\ A.deleted = {}
               /\ ~A.lost /\ Upserted(A) = {} /\ ~InFlight(A)
<1>1. PICK R : R = Rollback(S) /\ R \in Ses /\ Upserted(R) = {}
  BY RollbackParts
<1>2. R.cached \in SUBSET Ids
  BY <1>1 DEF Ses
<1>3. PICK F : F = Forget(R, R.cached) /\ F \in Ses /\ F.cached = {} /\ F.ups = R.ups
  BY <1>1, <1>2, ForgetParts
<1>4. PICK A : A = Abort(S)
  OBVIOUS
<1>5. /\ A.cached = F.cached /\ A.dirty = {} /\ A.deleted = {} /\ ~A.lost /\ A.ups = F.ups
  BY <1>1, <1>3, <1>4 DEF Abort, Ses
<1>6. Upserted(A) = {}
  BY <1>1, <1>3, <1>5 DEF Upserted
<1> QED
  BY <1>3, <1>4, <1>5, <1>6, AbortCalm

-----------------------------------------------------------------------------
(* Outcomes                                                                *)

(* What operations made of a session that was O, in agreement.             *)
Fits(O, r) == From(O, r) /\ Apart(r.S) /\ Agrees(r.S, r.t) /\ Idle(r.t)

(* What a promotion leaves of a session.                                   *)
Lifted(S, R) ==
    /\ R.dirty = S.dirty /\ R.deleted = S.deleted /\ R.lost = S.lost
    /\ R.cached \subseteq S.cached /\ R.dirty \cap R.cached = S.dirty \cap S.cached
    /\ Unlike(R) \subseteq Unlike(S)

LEMMA FitsParts ==
    ASSUME NEW O, NEW r, Fits(O, r)
    PROVE  /\ From(O, r) /\ Apart(r.S) /\ Agrees(r.S, r.t) /\ Idle(r.t)
           /\ r \in Outcome /\ r.S \in Ses /\ r.t \in Txn /\ r.exc \in Exceptions
           /\ r.t.mode \in {"none", "rw", "ro"}
  BY DEF Fits, From, Outcome, Txn

LEMMA FitsSelf ==
    ASSUME NEW S \in Ses, NEW t \in Txn, Apart(S), Agrees(S, t), Idle(t)
    PROVE  Fits(S, Done(S, t))
  BY FromSelf DEF Fits, Done

LEMMA FitsRaise ==
    ASSUME NEW S \in Ses, NEW exc \in Exceptions \ {"ro"}, Apart(S)
    PROVE  Fits(S, Raise(S, NoTxn, exc))
<1>1. From(S, Raise(S, NoTxn, exc))
  BY NoTxnType, FromSelfRaise
<1>2. Raise(S, NoTxn, exc).S = S /\ Raise(S, NoTxn, exc).t = NoTxn
  BY DEF Raise
<1> QED
  BY <1>1, <1>2, NoTxnParts DEF Fits, Agrees

LEMMA ReclaimFits ==
    ASSUME NEW O, NEW r, Fits(O, r)
    PROVE  LET q == Reclaim(r)
           IN  /\ Fits(O, q)
               /\ Ok(q) => Ok(r) /\ Kept(q.S, q.t) /\ (~r.S.lost => ~q.S.lost)
               /\ Ok(r) /\ Kept(r.S, r.t) => q = r
<1>1. PICK R : R = Rollback(r.S)
  OBVIOUS
<1>2. R \in Ses /\ Apart(R) /\ ~InFlight(R)
  BY <1>1, FitsParts, RollbackParts
<1>3. PICK q : q = Reclaim(r)
  OBVIOUS
<1>4. From(O, q)
  BY <1>3, FitsParts, ReclaimFrom
<1>5. CASE q = r /\ ~(Ok(r) /\ InFlight(r.S) /\ r.t.mode = "none")
  BY <1>3, <1>5 DEF Kept
<1>6. CASE q = LostOr(R, r.t) /\ Ok(r) /\ InFlight(r.S) /\ r.t.mode = "none"
  <2>1. q.S = R /\ q.t = r.t /\ (Ok(q) => ~R.lost)
    BY <1>6 DEF LostOr, Raise, Done, Ok
  <2>2. Agrees(R, r.t) /\ Idle(r.t)
    BY <1>6, NotOpen, FitsParts DEF Agrees
  <2> QED
    BY <1>2, <1>3, <1>4, <1>6, <2>1, <2>2 DEF Fits, Kept
<1> QED
  BY <1>1, <1>3, <1>5, <1>6 DEF Reclaim

LEMMA PromotedFits ==
    ASSUME StoreReady, NEW O, NEW r, Fits(O, r), Ok(r) => Kept(r.S, r.t)
    PROVE  LET p == Promoted(r)
           IN  /\ Fits(O, p)
               /\ Ok(p) => Ok(r) /\ p.t.mode = "rw" /\ Lifted(r.S, p.S)
<1>1. /\ From(O, r) /\ Apart(r.S) /\ Idle(r.t) /\ r.S \in Ses /\ r.t \in Txn
      /\ r.t.mode \in {"none", "rw", "ro"}
  BY FitsParts
<1>2. PICK p : p = Promoted(r)
  OBVIOUS
<1>3. From(O, p)
  BY <1>1, <1>2, PromotedFrom
<1>4. PICK b : b = Begin("rw") /\ b \in Txn /\ b.mode = "rw" /\ b.wrote = {} /\ Idle(b)
  BY BeginParts
<1>5. Lifted(r.S, r.S)
  BY DEF Lifted
<1>6. CASE ~Ok(r) \/ r.t.mode = "rw"
  BY <1>2, <1>5, <1>6 DEF Promoted
<1>7. CASE Ok(r) /\ r.t.mode = "none"
  <2>1. p.S = r.S /\ p.t = b
    BY <1>2, <1>4, <1>7 DEF Promoted, Done
  <2>2. Agrees(r.S, b)
    BY <1>4, <1>7, NothingWritten DEF Kept, InFlight, Agrees
  <2> QED
    BY <1>1, <1>2, <1>3, <1>4, <1>5, <1>7, <2>1, <2>2 DEF Fits
<1>8. CASE Ok(r) /\ r.t.mode = "ro" /\ r.S.unit = "ro"
  <2>1. PICK W : W = RegisterWriters(r.S)
    OBVIOUS
  <2>2. W \in Ses /\ W.cached = r.S.cached /\ W.deleted = r.S.deleted
    BY <1>1, <1>8, <2>1, RegisterWritersType DEF RegisterWriters, Ses
  <2>3. Apart(W)
    BY <1>1, <2>2 DEF Apart
  <2>4. PICK R : R = Rollback(W) /\ R \in Ses /\ Apart(R)
    BY <2>2, <2>3, RollbackParts
  <2>5. PICK C : C = [R EXCEPT !.raised = TRUE]
    OBVIOUS
  <2>6. C.cached = R.cached /\ C.deleted = R.deleted
    BY <2>4, <2>5 DEF Ses
  <2>7. Apart(C)
    BY <2>4, <2>6 DEF Apart
  <2>8. p = Raise(C, NoTxn, "ro")
    BY <1>2, <1>8, <2>1, <2>4, <2>5 DEF Promoted, RaiseReadOnlyRetry
  <2>9. p.S = C /\ p.t = NoTxn /\ ~Ok(p)
    BY <2>8 DEF Raise, Ok
  <2> QED
    BY <1>2, <1>3, <2>7, <2>9, NoTxnParts DEF Fits, Agrees
<1>9. CASE Ok(r) /\ r.t.mode = "ro" /\ r.S.unit # "ro" /\ r.t.dead
  <2>1. p.S = r.S /\ p.t = NoTxn /\ ~Ok(p)
    BY <1>2, <1>9 DEF Promoted, Raise, Ok
  <2> QED
    BY <1>1, <1>2, <1>3, <2>1, NoTxnParts DEF Fits, Agrees
<1>10. CASE Ok(r) /\ r.t.mode = "ro" /\ r.S.unit # "ro" /\ ~r.t.dead
  <2>1. PICK P : P = Promote(r.S)
    OBVIOUS
  <2>2. /\ P \in Ses /\ P.cached = r.S.cached /\ P.dirty = r.S.dirty
        /\ P.deleted = r.S.deleted /\ P.lost = r.S.lost /\ Upserted(P) = {}
        /\ Unlike(P) = Unlike(r.S)
    BY <1>1, <2>1, PromoteParts
  <2>3. Apart(P)
    BY <1>1, <2>2 DEF Apart
  <2>4. PICK D : D = DropSnapshotReads(P)
    OBVIOUS
  <2>5. /\ D.cached \subseteq P.cached /\ D.dirty \cap D.cached = P.dirty \cap P.cached
        /\ D.dirty = P.dirty /\ D.deleted = P.deleted /\ D.lost = P.lost
        /\ Upserted(D) = Upserted(P) /\ Unlike(D) \subseteq Unlike(P) /\ Apart(D)
    BY <2>2, <2>3, <2>4, DropParts
  <2>6. p.S = D /\ p.t = b
    BY <1>2, <1>4, <1>10, <2>1, <2>4 DEF Promoted, Done
  <2>7. Agrees(D, b)
    BY <1>4, <2>2, <2>5, NothingWritten DEF Agrees
  <2>8. Lifted(r.S, D)
    BY <2>2, <2>5 DEF Lifted
  <2> QED
    BY <1>2, <1>3, <1>4, <1>10, <2>5, <2>6, <2>7, <2>8 DEF Fits
<1> QED
  BY <1>1, <1>6, <1>7, <1>8, <1>9, <1>10

LEMMA BeginWritableFits ==
    ASSUME StoreReady, NEW O, NEW r, Fits(O, r)
    PROVE  LET w == BeginWritable(r)
           IN  /\ Fits(O, w)
               /\ Ok(w) => Ok(r) /\ w.t.mode = "rw"
               /\ Ok(w) /\ Kept(r.S, r.t) => Lifted(r.S, w.S)
<1>1. PICK w : w = BeginWritable(r)
  OBVIOUS
<1>2. CASE Ok(r) /\ r.S.raised
  <2>1. w.S = r.S /\ w.t = r.t /\ ~Ok(w)
    BY <1>1, <1>2 DEF BeginWritable, Raise, Ok
  <2>2. From(O, w)
    BY <1>1, FitsParts, BeginWritableFrom
  <2> QED
    BY <1>1, <2>1, <2>2, FitsParts DEF Fits
<1>3. CASE ~(Ok(r) /\ r.S.raised)
  <2>1. PICK q : q = Reclaim(r) /\ Fits(O, q) /\ (Ok(q) => Ok(r) /\ Kept(q.S, q.t))
                 /\ (Ok(r) /\ Kept(r.S, r.t) => q = r)
    BY ReclaimFits
  <2>2. w = Promoted(q)
    BY <1>1, <1>3, <2>1 DEF BeginWritable
  <2>3. Fits(O, w) /\ (Ok(w) => Ok(q) /\ w.t.mode = "rw" /\ Lifted(q.S, w.S))
    BY <2>1, <2>2, PromotedFits
  <2> QED
    BY <1>1, <2>1, <2>3
<1> QED
  BY <1>2, <1>3

LEMMA EnsureTxnFits ==
    ASSUME StoreReady, NEW O, NEW r, Fits(O, r)
    PROVE  Fits(O, EnsureTxn(r))
<1>1. PICK q : q = Reclaim(r) /\ Fits(O, q) /\ (Ok(q) => Kept(q.S, q.t))
  BY ReclaimFits
<1>2. PICK e : e = EnsureTxn(r) /\ e = Opened(q)
  BY <1>1 DEF EnsureTxn
<1>3. From(O, e)
  BY <1>2, FitsParts, EnsureTxnFrom
<1>4. CASE e = q \/ e = BeginWritable(q)
  BY <1>1, <1>2, <1>4, BeginWritableFits
<1>5. CASE Ok(q) /\ q.t.mode = "none" /\ e = Done(q.S, Begin(Isolation(q.S)))
  <2>1. Isolation(q.S) \in {"rw", "ro"}
    BY DEF Isolation
  <2>2. PICK b : b = Begin(Isolation(q.S)) /\ b.wrote = {} /\ Idle(b)
    BY <2>1, BeginParts
  <2>3. Agrees(q.S, b)
    BY <1>1, <1>5, <2>2, NothingWritten DEF Kept, InFlight, Agrees
  <2>4. e.S = q.S /\ e.t = b
    BY <1>5, <2>2 DEF Done
  <2> QED
    BY <1>1, <1>2, <1>3, <2>2, <2>3, <2>4 DEF Fits
<1> QED
  BY <1>1, <1>2, <1>4, <1>5 DEF Opened

LEMMA JoinFits ==
    ASSUME StoreReady, NEW O, NEW r, Fits(O, r), NEW tag \in Tags
    PROVE  Fits(O, Join(r, tag))
<1>1. PICK w : w = BeginWritable(r) /\ Fits(O, w)
  BY BeginWritableFits
<1>2. /\ w.S \in Ses /\ w.t \in Txn /\ Apart(w.S) /\ Agrees(w.S, w.t) /\ Idle(w.t)
      /\ (Ok(w) => w.t.mode = "rw")
  BY <1>1, FitsParts, BeginWritableFits
<1>3. PICK j : j = Joined(w, tag) /\ From(O, j)
  BY <1>1, FitsParts, JoinFrom DEF Join
<1>4. PICK J : J = [w.S EXCEPT !.joined = TRUE]
  OBVIOUS
<1>5. /\ J.cached = w.S.cached /\ J.deleted = w.S.deleted /\ J.dirty = w.S.dirty
      /\ J.ups = w.S.ups /\ J.rem = w.S.rem
  BY <1>2, <1>4 DEF Ses
<1>6. Apart(J)
  BY <1>2, <1>5 DEF Apart
<1>7. CASE j = w
  BY <1>1, <1>3, <1>7 DEF Join
<1>8. CASE j = Raise(J, NoTxn, "db")
  <2>1. j.S = J /\ j.t = NoTxn
    BY <1>8 DEF Raise
  <2> QED
    BY <1>1, <1>3, <1>6, <2>1, NoTxnParts DEF Fits, Agrees, Join
<1>9. CASE Ok(w) /\ j = Done(J, [w.t EXCEPT !.out = @ \cup {tag}])
  <2>1. PICK u : u = [w.t EXCEPT !.out = @ \cup {tag}]
    OBVIOUS
  <2>2. u.mode = w.t.mode /\ u.dead = w.t.dead /\ u.view = w.t.view /\ u.wrote = w.t.wrote
    BY <1>2, <2>1 DEF Txn
  <2>3. Agrees(J, u)
    <3>1. Pending(w.S) \subseteq Pending(J)
      BY <1>5 DEF Pending
    <3> QED
      BY <1>2, <1>5, <2>2, <3>1, MoreAgrees DEF Agrees
  <2>4. Idle(u)
    BY <1>2, <1>9, <2>2 DEF Idle
  <2>5. j.S = J /\ j.t = u
    BY <1>9, <2>1 DEF Done
  <2> QED
    BY <1>1, <1>3, <1>6, <2>3, <2>4, <2>5 DEF Fits, Join
<1> QED
  BY <1>3, <1>4, <1>7, <1>8, <1>9 DEF Joined

-----------------------------------------------------------------------------
(* Flushing                                                                *)

Landing(t, rows, U) == {id \in U : Lands(t, id, rows[id])}

(* The transaction T that an upsert of rows makes of t, where G land.      *)
Took(t, T, rows, G) ==
    /\ T.mode = t.mode /\ T.dead = t.dead
    /\ T.wrote = t.wrote \cup G
    /\ \A id \in Ids \ G : T.view[id] = t.view[id]
    /\ \A id \in G : Present(T.view[id]) /\ T.view[id].val = rows[id].val

LEMMA UpsertFacts ==
    ASSUME NEW S \in Ses, NEW t \in Txn, NEW U \in SUBSET Ids
    PROVE  Took(t, Upsert(t, Rows(S), U), Rows(S), Landing(t, Rows(S), U))
<1>1. PICK rows : rows = Rows(S) /\ rows \in [Ids -> [ver : Nat, val : SUBSET Tags]]
  BY RowsType
<1>2. PICK G : G = Landing(t, rows, U)
  OBVIOUS
<1>3. PICK T : T = Upsert(t, rows, U)
  OBVIOUS
<1>4. /\ T.mode = t.mode /\ T.dead = t.dead /\ T.wrote = t.wrote \cup G
      /\ T.view = [id \in Ids |-> IF id \in G THEN Landed(t, id, rows[id]) ELSE t.view[id]]
  BY <1>2, <1>3 DEF Upsert, Landing, Txn
<1>5. ASSUME NEW id \in Ids
      PROVE  Present(Landed(t, id, rows[id])) /\ Landed(t, id, rows[id]).val = rows[id].val
  <2>1. PICK w : w = rows[id] /\ w \in [ver : Nat, val : SUBSET Tags]
    BY <1>1
  <2>2. w.ver \in Nat /\ w.ver + 1 \in Nat
    BY <2>1
  <2>3. PICK l : l = Landed(t, id, w)
    OBVIOUS
  <2>4. l = w \/ l = [w EXCEPT !.ver = @ + 1]
    BY <2>3 DEF Landed
  <2>5. l.val = w.val /\ l.ver \in Nat
    BY <2>1, <2>2, <2>4
  <2> QED
    BY <2>1, <2>3, <2>5 DEF Present
<1>6. G \subseteq Ids
  BY <1>2 DEF Landing
<1>7. Took(t, T, rows, G)
  BY <1>4, <1>5, <1>6 DEF Took
<1> QED
  BY <1>1, <1>2, <1>3, <1>7

LEMMA WrittenFacts ==
    ASSUME NEW S \in Ses, NEW T, NEW U \in SUBSET Ids
    PROVE  LET W == Written(S, T, U)
           IN  /\ W.cached = S.cached /\ W.dirty = S.dirty /\ W.deleted = S.deleted
               /\ W.lost = S.lost /\ W.mem = S.mem /\ W.known = S.known
               /\ W.rem = S.rem \ U
               /\ \A id \in Ids : W.ups[id] = IF id \in U THEN T.view[id] ELSE S.ups[id]
<1>1. PICK W : W = Written(S, T, U)
  OBVIOUS
<1>2. /\ W.cached = S.cached /\ W.dirty = S.dirty /\ W.deleted = S.deleted
      /\ W.lost = S.lost /\ W.mem = S.mem /\ W.known = S.known /\ W.rem = S.rem \ U
      /\ W.ups = [id \in Ids |-> IF id \in U THEN T.view[id] ELSE S.ups[id]]
  BY <1>1 DEF Written, Ses
<1> QED
  BY <1>1, <1>2

LEMMA RowValue == ASSUME NEW S \in Ses, NEW id \in Ids PROVE Rows(S)[id].val = S.mem[id]
  BY DEF Rows, RowOf

(* Rows that all land are in the ledger as the transaction has them.       *)
LEMMA LandedAgrees ==
    ASSUME NEW S \in Ses, NEW t \in Txn, NEW U \in SUBSET Ids, Agrees(S, t),
           S.dirty \cap S.cached \subseteq U, Stale(S, t, U) = {}
    PROVE  LET T == Upsert(t, Rows(S), U)
               W == Written(S, T, U)
           IN  /\ AgreesBut(W, T, W.deleted)
               /\ Unlike(W) \subseteq Unlike(S) \ U
<1>1. PICK rows : rows = Rows(S) /\ \A id \in Ids : rows[id].val = S.mem[id]
  BY RowValue
<1>2. Landing(t, Rows(S), U) = U
  <2>1. \A id \in U : Rows(S)[id] = RowOf(S, id)
    BY DEF Rows
  <2> QED
    BY <2>1 DEF Stale, Landing
<1>3. PICK T : T = Upsert(t, Rows(S), U) /\ Took(t, T, rows, U)
  BY <1>1, <1>2, UpsertFacts
<1>4. PICK W : /\ W = Written(S, T, U)
               /\ W.cached = S.cached /\ W.deleted = S.deleted
               /\ W.mem = S.mem /\ W.known = S.known /\ W.rem = S.rem \ U
               /\ \A id \in Ids : W.ups[id] = IF id \in U THEN T.view[id] ELSE S.ups[id]
  BY WrittenFacts
<1>5. Upserted(W) = Upserted(S) \cup U
  BY <1>3, <1>4 DEF Upserted, Took
<1>6. AgreesBut(W, T, W.deleted)
  <2> SUFFICES ASSUME T.mode # "none", ~T.dead
               PROVE  /\ T.wrote \subseteq Upserted(W) \cup W.rem \cup W.deleted
                      /\ \A id \in Upserted(W) : T.view[id] = W.ups[id] \/ id \in W.deleted
    BY DEF AgreesBut
  <2>1. /\ t.wrote \subseteq Upserted(S) \cup S.rem \cup Pending(S)
        /\ \A id \in Upserted(S) : t.view[id] = S.ups[id] \/ id \in Pending(S)
    BY <1>3 DEF Agrees, AgreesBut, Took
  <2>2. Pending(S) \subseteq U \cup S.deleted
    BY DEF Pending
  <2>3. T.wrote \subseteq Upserted(W) \cup W.rem \cup W.deleted
    BY <1>3, <1>4, <1>5, <2>1, <2>2 DEF Took
  <2>4. ASSUME NEW id \in Upserted(W), id \notin W.deleted PROVE T.view[id] = W.ups[id]
    <3>1. id \in Ids
      BY DEF Upserted
    <3>2. CASE id \in U
      BY <1>4, <3>1, <3>2
    <3>3. CASE id \notin U
      <4>1. id \in Upserted(S) /\ id \notin Pending(S)
        BY <1>4, <1>5, <2>2, <2>4, <3>3
      <4> QED
        BY <1>3, <1>4, <2>1, <3>1, <3>3, <4>1 DEF Took
    <3> QED
      BY <3>2, <3>3
  <2> QED
    BY <2>3, <2>4
<1>7. Unlike(W) \subseteq Unlike(S) \ U
  <2> SUFFICES ASSUME NEW id \in Unlike(W) PROVE id \in Unlike(S) /\ id \notin U
    OBVIOUS
  <2>1. id \in S.cached /\ id \in Ids
    BY <1>4 DEF Unlike, Ses
  <2>2. CASE id \in U
    <3>1. Current(W, id) = T.view[id]
      BY <1>3, <1>4, <2>1, <2>2 DEF Current, Took
    <3>2. Present(Current(W, id)) /\ Current(W, id).val = W.mem[id]
      BY <1>1, <1>3, <1>4, <2>1, <2>2, <3>1 DEF Took
    <3> QED
      BY <3>2 DEF Unlike
  <2>3. CASE id \notin U
    <3>1. Current(W, id) = Current(S, id)
      BY <1>4, <2>1, <2>3 DEF Current
    <3> QED
      BY <1>4, <2>1, <2>3, <3>1 DEF Unlike
  <2> QED
    BY <2>2, <2>3
<1> QED
  BY <1>1, <1>3, <1>4, <1>6, <1>7

LEMMA FlushRowsFits ==
    ASSUME NEW O, NEW r, Fits(O, r), NEW U \in SUBSET Ids, NEW s,
           r.S.dirty \cap r.S.cached \subseteq U,
           Ok(r) => Kept(r.S, r.t) /\ (U # {} => r.t.mode = "rw")
    PROVE  LET f == FlushRows(s, r, U)
           IN  /\ From(O, f) /\ Apart(f.S) /\ Idle(f.t)
               /\ Ok(f) => /\ Ok(r) /\ AgreesBut(f.S, f.t, f.S.deleted)
                           /\ Kept(f.S, f.t) /\ f.t.mode = r.t.mode
                           /\ f.S.deleted = r.S.deleted /\ f.S.lost = r.S.lost
                           /\ Unlike(f.S) \subseteq Unlike(r.S) \ U
               /\ ~Ok(f) /\ U \subseteq Pending(r.S) => Agrees(f.S, f.t)
<1>1. /\ From(O, r) /\ Apart(r.S) /\ Agrees(r.S, r.t) /\ Idle(r.t)
      /\ r.S \in Ses /\ r.t \in Txn
  BY FitsParts
<1>2. PICK f : f = FlushRows(s, r, U) /\ From(O, f)
  BY <1>1, FlushRowsFrom
<1>3. CASE ~Ok(r) \/ U = {}
  <2>1. f = r
    BY <1>2, <1>3 DEF FlushRows
  <2>2. ASSUME Ok(r) PROVE AgreesBut(r.S, r.t, r.S.deleted)
    <3>1. Pending(r.S) = r.S.deleted
      BY <1>3, <2>2 DEF Pending
    <3> QED
      BY <1>1, <3>1 DEF Agrees
  <2>3. Ok(r) => Unlike(r.S) \subseteq Unlike(r.S) \ U
    BY <1>3
  <2> QED
    BY <1>1, <1>2, <2>1, <2>2, <2>3
<1>4. CASE Ok(r) /\ f = Raise(r.S, NoTxn, "db")
  <2>1. f.S = r.S /\ f.t = NoTxn /\ ~Ok(f)
    BY <1>4 DEF Raise, Ok
  <2> QED
    BY <1>1, <1>2, <2>1, NoTxnParts DEF Agrees
<1>5. CASE Ok(r) /\ f = LockTimeout(r.S, U)
  <2>1. /\ f.t = NoTxn /\ ~Ok(f)
        /\ f.S = r.S \/ f.S = [r.S EXCEPT !.conflict = U]
    BY <1>5 DEF LockTimeout, Raise, Ok
  <2>2. Apart(f.S)
    BY <1>1, <2>1 DEF Apart, Ses
  <2> QED
    BY <1>1, <1>2, <2>1, <2>2, NoTxnParts DEF Agrees
<1>6. PICK T : T = Upsert(r.t, Rows(r.S), U)
  OBVIOUS
<1>7. ASSUME Ok(r), U # {}, NEW c, f = Raise([r.S EXCEPT !.conflict = c], T, "conflict")
      PROVE  /\ Apart(f.S) /\ Idle(f.t) /\ ~Ok(f)
             /\ U \subseteq Pending(r.S) => Agrees(f.S, f.t)
  <2>1. f.S = [r.S EXCEPT !.conflict = c] /\ f.t = T /\ ~Ok(f)
    BY <1>7 DEF Raise, Ok
  <2>2. /\ f.S.cached = r.S.cached /\ f.S.deleted = r.S.deleted /\ f.S.dirty = r.S.dirty
        /\ f.S.ups = r.S.ups /\ f.S.rem = r.S.rem
    BY <1>1, <2>1 DEF Ses
  <2>3. PICK G : Took(r.t, T, Rows(r.S), G) /\ G \subseteq U
    <3>1. Landing(r.t, Rows(r.S), U) \subseteq U
      BY DEF Landing
    <3> QED
      BY <1>1, <1>6, <3>1, UpsertFacts
  <2>4. Idle(T)
    BY <1>7, <2>3 DEF Idle, Took
  <2>5. Apart(f.S) /\ Pending(f.S) = Pending(r.S) /\ Upserted(f.S) = Upserted(r.S)
    BY <1>1, <2>2 DEF Apart, Pending, Upserted
  <2>6. ASSUME U \subseteq Pending(r.S) PROVE Agrees(f.S, T)
    <3> SUFFICES ASSUME T.mode # "none", ~T.dead
                 PROVE  /\ T.wrote \subseteq Upserted(r.S) \cup r.S.rem \cup Pending(r.S)
                        /\ \A id \in Upserted(r.S) : T.view[id] = r.S.ups[id] \/ id \in Pending(r.S)
      BY <2>2, <2>5 DEF Agrees, AgreesBut
    <3>1. /\ r.t.wrote \subseteq Upserted(r.S) \cup r.S.rem \cup Pending(r.S)
          /\ \A id \in Upserted(r.S) : r.t.view[id] = r.S.ups[id] \/ id \in Pending(r.S)
      BY <1>1, <2>3 DEF Agrees, AgreesBut, Took
    <3>2. Upserted(r.S) \subseteq Ids
      BY DEF Upserted
    <3> QED
      BY <2>3, <2>6, <3>1, <3>2 DEF Took
  <2> QED
    BY <2>1, <2>4, <2>5, <2>6
<1>8. CASE Ok(r) /\ U # {} /\ Stale(r.S, r.t, U) = {} /\ f = Done(Written(r.S, T, U), T)
  <2>1. f.S = Written(r.S, T, U) /\ f.t = T
    BY <1>8 DEF Done
  <2>2. /\ f.S.cached = r.S.cached /\ f.S.deleted = r.S.deleted /\ f.S.lost = r.S.lost
    BY <1>1, <2>1, WrittenFacts
  <2>3. AgreesBut(f.S, T, f.S.deleted) /\ Unlike(f.S) \subseteq Unlike(r.S) \ U
    BY <1>1, <1>6, <1>8, <2>1, LandedAgrees
  <2>4. T.mode = r.t.mode
    BY <1>1, <1>6, UpsertFacts DEF Took
  <2>5. Apart(f.S) /\ Idle(T) /\ Kept(f.S, T)
    BY <1>1, <1>8, <2>2, <2>4 DEF Apart, Idle, Kept
  <2>6. Ok(f)
    BY <1>8 DEF Done, Ok
  <2> QED
    BY <1>2, <1>8, <2>1, <2>2, <2>3, <2>4, <2>5, <2>6
<1>9. \/ ~Ok(r) \/ U = {}
      \/ Ok(r) /\ f = Raise(r.S, NoTxn, "db")
      \/ Ok(r) /\ f = LockTimeout(r.S, U)
      \/ Ok(r) /\ U # {} /\ \E c : f = Raise([r.S EXCEPT !.conflict = c], T, "conflict")
      \/ Ok(r) /\ U # {} /\ Stale(r.S, r.t, U) = {} /\ f = Done(Written(r.S, T, U), T)
  BY <1>2, <1>6 DEF FlushRows
<1> QED
  BY <1>2, <1>3, <1>4, <1>5, <1>7, <1>8, <1>9

LEMMA DeleteFacts ==
    ASSUME NEW t \in Txn, NEW D \in SUBSET Ids
    PROVE  LET T == Delete(t, D)
           IN  /\ T.mode = t.mode /\ T.dead = t.dead
               /\ T.wrote \subseteq t.wrote \cup D
               /\ \A id \in Ids \ D : T.view[id] = t.view[id]
<1>1. PICK R : R = Reading(t, D) /\ R \in Txn
  BY ReadingType
<1>2. R.mode = t.mode /\ R.dead = t.dead /\ R.wrote = t.wrote
  BY <1>1 DEF Reading, Txn
<1>3. PICK G : G = {id \in D : Present(t.view[id])}
  OBVIOUS
<1>4. PICK v : v = [id \in Ids |-> IF id \in D THEN Absent ELSE t.view[id]]
  OBVIOUS
<1>5. PICK T : T = [R EXCEPT !.view = v, !.wrote = @ \cup G, !.locked = @ \cup G]
  OBVIOUS
<1>6. T.mode = R.mode /\ T.dead = R.dead /\ T.wrote = R.wrote \cup G /\ T.view = v
  BY <1>1, <1>5 DEF Txn
<1>7. T = Delete(t, D)
  BY <1>1, <1>3, <1>4, <1>5 DEF Delete
<1> QED
  BY <1>2, <1>3, <1>4, <1>6, <1>7

LEMMA FlushDeletesFits ==
    ASSUME NEW O, NEW r, From(O, r), Apart(r.S), Idle(r.t), NEW s,
           Ok(r) => /\ AgreesBut(r.S, r.t, r.S.deleted) /\ Kept(r.S, r.t)
                    /\ r.S.deleted # {} => r.t.mode = "rw"
    PROVE  LET d == FlushDeletes(s, r)
           IN  /\ From(O, d) /\ Apart(d.S) /\ Idle(d.t)
               /\ ~Ok(d) => d = r \/ d.t = NoTxn
               /\ Ok(d) => /\ Ok(r) /\ Exact(d.S, d.t) /\ Kept(d.S, d.t)
                           /\ d.S.deleted = {} /\ d.S.lost = r.S.lost
                           /\ Unlike(d.S) \subseteq Unlike(r.S)
<1>1. r.S \in Ses /\ r.t \in Txn /\ r.S.deleted \in SUBSET Ids
  BY FromParts DEF Ses
<1>2. PICK d : d = FlushDeletes(s, r) /\ From(O, d)
  BY FlushDeletesFrom
<1>3. CASE ~Ok(r) \/ r.S.deleted = {}
  BY <1>2, <1>3 DEF FlushDeletes, Exact
<1>4. CASE Ok(r) /\ \/ d = Raise(r.S, NoTxn, "db")
                    \/ d = LockTimeout(r.S, r.S.deleted)
  <2>1. /\ d.t = NoTxn /\ ~Ok(d)
        /\ d.S = r.S \/ d.S = [r.S EXCEPT !.conflict = r.S.deleted]
    BY <1>4 DEF LockTimeout, Raise, Ok
  <2>2. Apart(d.S)
    BY <1>1, <2>1 DEF Apart, Ses
  <2> QED
    BY <1>2, <2>1, <2>2, NoTxnParts
<1>5. CASE Ok(r) /\ r.S.deleted # {} /\ d = Done(Removed(r.S), Delete(r.t, r.S.deleted))
  <2>1. PICK R : R = Removed(r.S)
    OBVIOUS
  <2>2. PICK T : T = Delete(r.t, r.S.deleted)
    OBVIOUS
  <2>3. d.S = R /\ d.t = T /\ Ok(d)
    BY <1>5, <2>1, <2>2 DEF Done, Ok
  <2>4. /\ R.cached = r.S.cached /\ R.mem = r.S.mem /\ R.known = r.S.known
        /\ R.deleted = {} /\ R.lost = r.S.lost /\ R.rem = r.S.rem \cup r.S.deleted
        /\ R.ups = [id \in Ids |-> IF id \in r.S.deleted THEN Absent ELSE r.S.ups[id]]
    BY <1>1, <2>1 DEF Removed, Ses
  <2>5. /\ T.mode = r.t.mode /\ T.dead = r.t.dead /\ T.wrote \subseteq r.t.wrote \cup r.S.deleted
        /\ \A id \in Ids \ r.S.deleted : T.view[id] = r.t.view[id]
    BY <1>1, <2>2, DeleteFacts
  <2>6. Upserted(R) = Upserted(r.S) \ r.S.deleted
    BY <1>1, <2>4 DEF Upserted, Present, Absent
  <2>7. Exact(R, T)
    <3> SUFFICES ASSUME T.mode # "none", ~T.dead
                 PROVE  /\ T.wrote \subseteq Upserted(R) \cup R.rem
                        /\ \A id \in Upserted(R) : T.view[id] = R.ups[id]
      BY DEF Exact, AgreesBut
    <3>1. /\ r.t.wrote \subseteq Upserted(r.S) \cup r.S.rem \cup r.S.deleted
          /\ \A id \in Upserted(r.S) : r.t.view[id] = r.S.ups[id] \/ id \in r.S.deleted
      BY <1>5, <2>5 DEF AgreesBut
    <3>2. T.wrote \subseteq Upserted(R) \cup R.rem
      BY <2>4, <2>5, <2>6, <3>1
    <3>3. Upserted(R) \subseteq Ids
      BY DEF Upserted
    <3> QED
      BY <2>4, <2>5, <2>6, <3>1, <3>2, <3>3
  <2>8. Unlike(R) \subseteq Unlike(r.S)
    <3> SUFFICES ASSUME NEW id \in Unlike(R) PROVE id \in Unlike(r.S)
      OBVIOUS
    <3>1. id \in r.S.cached /\ id \in Ids /\ id \notin r.S.deleted
      BY <1>1, <2>4 DEF Unlike, Apart, Ses
    <3>2. Current(R, id) = Current(r.S, id)
      BY <2>4, <3>1 DEF Current
    <3> QED
      BY <2>4, <3>1, <3>2 DEF Unlike
  <2>9. Apart(R) /\ Idle(T) /\ Kept(R, T)
    BY <1>5, <2>4, <2>5 DEF Apart, Idle, Kept
  <2> QED
    BY <1>2, <1>5, <2>3, <2>4, <2>7, <2>8, <2>9
<1> QED
  BY <1>2, <1>3, <1>4, <1>5 DEF FlushDeletes

(* A flush leaves ledger and transaction in agreement, unless it is a full *)
(* one that fails; one that succeeds leaves nothing to write.              *)
LEMMA FlushFits ==
    ASSUME StoreReady, NEW O, NEW r, Fits(O, r), NEW s, NEW full \in BOOLEAN
    PROVE  LET f == Flush(s, r, full)
           IN  /\ From(O, f) /\ Apart(f.S) /\ Idle(f.t)
               /\ ~full \/ Ok(f) => Agrees(f.S, f.t)
               /\ Ok(f) => /\ f.S.dirty = {} /\ f.S.deleted = {}
                           /\ Exact(f.S, f.t) /\ Kept(f.S, f.t)
                           /\ ~r.S.lost => ~f.S.lost
                           /\ full => Unlike(f.S) = {}
<1>1. PICK p : p = Flush(s, r, full) /\ From(O, p)
  BY FitsParts, FlushFrom
<1>2. PICK q : /\ q = Reclaim(r) /\ Fits(O, q)
               /\ Ok(q) => Kept(q.S, q.t) /\ (~r.S.lost => ~q.S.lost)
  BY ReclaimFits
<1>3. CASE ~Ok(q)
  <2>1. p = q
    BY <1>1, <1>2, <1>3 DEF Flush, FlushLocked
  <2> QED
    BY <1>1, <1>2, <1>3, <2>1, FitsParts
<1>4. CASE Ok(q)
  <2>1. PICK U \in SUBSET Ids : U = Unflushed(q.S, full)
    BY <1>2, FitsParts DEF Unflushed, Ses
  <2>2. PICK w : w = Writable(q, U)
    OBVIOUS
  <2>3. /\ Fits(O, w)
        /\ Ok(w) => /\ Kept(w.S, w.t) /\ Lifted(q.S, w.S)
                    /\ U # {} \/ q.S.deleted # {} => w.t.mode = "rw"
    <3>1. CASE U \cup q.S.deleted = {}
      <4>1. w = q
        BY <2>2, <3>1 DEF Writable
      <4> QED
        BY <1>2, <3>1, <4>1 DEF Lifted
    <3>2. CASE U \cup q.S.deleted # {}
      <4>1. w = BeginWritable(q)
        BY <1>4, <2>2, <3>2 DEF Writable
      <4>2. Ok(w) => w.t.mode = "rw" /\ Lifted(q.S, w.S)
        BY <1>2, <1>4, <4>1, BeginWritableFits
      <4>3. Ok(w) => Kept(w.S, w.t)
        BY <4>2 DEF Kept
      <4> QED
        BY <1>2, <4>1, <4>2, <4>3, BeginWritableFits
    <3> QED
      BY <3>1, <3>2
  <2>4. /\ U \subseteq (q.S.dirty \cap q.S.cached) \cup Unlike(q.S)
        /\ q.S.dirty \cap q.S.cached \subseteq U
        /\ full => Unlike(q.S) \subseteq U
        /\ ~full => U = q.S.dirty \cap q.S.cached
    BY <2>1, UnflushedUnlike
  <2>5. PICK f : f = FlushRows(s, w, U)
    OBVIOUS
  <2>6. PICK d : d = FlushDeletes(s, f)
    OBVIOUS
  <2>7. p = Flushed(d)
    BY <1>1, <1>2, <1>4, <2>1, <2>2, <2>5, <2>6 DEF Flush, FlushLocked, FlushThe
  <2>8. CASE ~Ok(w)
    <3>1. f = w /\ d = w /\ p = w
      BY <2>5, <2>6, <2>7, <2>8 DEF FlushRows, FlushDeletes, Flushed
    <3> QED
      BY <1>1, <2>3, <2>8, <3>1, FitsParts
  <2>9. CASE Ok(w)
    <3>1. /\ w.S.dirty \cap w.S.cached \subseteq U /\ w.S.deleted = q.S.deleted
          /\ w.S.lost = q.S.lost /\ Unlike(w.S) \subseteq Unlike(q.S)
          /\ ~full => U \subseteq Pending(w.S)
      BY <2>3, <2>4, <2>9 DEF Lifted, Pending
    <3>2. /\ From(O, f) /\ Apart(f.S) /\ Idle(f.t)
          /\ Ok(f) => /\ AgreesBut(f.S, f.t, f.S.deleted)
                      /\ Kept(f.S, f.t) /\ f.t.mode = w.t.mode
                      /\ f.S.deleted = w.S.deleted /\ f.S.lost = w.S.lost
                      /\ Unlike(f.S) \subseteq Unlike(w.S) \ U
          /\ ~Ok(f) /\ U \subseteq Pending(w.S) => Agrees(f.S, f.t)
      BY <2>3, <2>5, <2>9, <3>1, FlushRowsFits
    <3>3. Ok(f) => (f.S.deleted # {} => f.t.mode = "rw")
      BY <2>3, <2>9, <3>1, <3>2
    <3>4. /\ From(O, d) /\ Apart(d.S) /\ Idle(d.t)
          /\ ~Ok(d) => d = f \/ d.t = NoTxn
          /\ Ok(d) => /\ Ok(f) /\ Exact(d.S, d.t) /\ Kept(d.S, d.t)
                      /\ d.S.deleted = {} /\ d.S.lost = f.S.lost
                      /\ Unlike(d.S) \subseteq Unlike(f.S)
      BY <2>6, <3>2, <3>3, FlushDeletesFits
    <3>5. CASE ~Ok(d)
      <4>1. p = d
        BY <2>7, <3>5 DEF Flushed
      <4>2. ~full => Agrees(d.S, d.t)
        BY <3>1, <3>2, <3>4, <3>5, NoTxnParts DEF Agrees
      <4> QED
        BY <1>1, <3>4, <3>5, <4>1, <4>2
    <3>6. CASE Ok(d)
      <4>1. PICK C : C = [d.S EXCEPT !.dirty = {}]
        OBVIOUS
      <4>2. p.S = C /\ p.t = d.t
        BY <2>7, <3>6, <4>1 DEF Flushed, Done
      <4>3. d.S \in Ses
        BY <3>4, FromParts
      <4>4. /\ C.cached = d.S.cached /\ C.mem = d.S.mem /\ C.dirty = {}
            /\ C.deleted = d.S.deleted /\ C.lost = d.S.lost /\ C.joined = d.S.joined
            /\ C.ups = d.S.ups /\ C.rem = d.S.rem /\ C.known = d.S.known
        BY <4>1, <4>3 DEF Ses
      <4>5. Unlike(C) = Unlike(d.S) /\ Upserted(C) = Upserted(d.S) /\ InFlight(C) = InFlight(d.S)
        BY <4>4 DEF Unlike, Current, Upserted, InFlight
      <4>6. Exact(C, d.t) /\ Kept(C, d.t) /\ Apart(C)
        BY <3>4, <3>6, <4>4, <4>5 DEF Exact, AgreesBut, Kept, Apart
      <4>7. Agrees(C, d.t)
        BY <3>4, <3>6, <4>4, <4>6 DEF Agrees, Exact, Pending
      <4>8. ~r.S.lost => ~C.lost
        BY <1>2, <1>4, <3>1, <3>2, <3>4, <3>6, <4>4
      <4>9. full => Unlike(C) = {}
        BY <2>4, <3>1, <3>2, <3>4, <3>6, <4>5
      <4> QED
        BY <1>1, <3>4, <3>6, <4>2, <4>4, <4>6, <4>7, <4>8, <4>9
    <3> QED
      BY <3>5, <3>6
  <2> QED
    BY <2>8, <2>9
<1> QED
  BY <1>3, <1>4

(* What is given up leaves no transaction to agree with.                   *)
LEMMA ReplayParts ==
    ASSUME NEW S \in Ses, Apart(S), NEW exhausted \in BOOLEAN
    PROVE  LET p == Replay(S, exhausted)
           IN  /\ Apart(p.S) /\ p.t = NoTxn /\ p.S.cached = S.cached /\ p.S.scope = S.scope
               /\ p.S.dirty = S.dirty \cup (Upserted(S) \cap S.cached)
               /\ p.S.deleted = S.deleted \cup (S.rem \ S.cached)
               /\ p.S.lost = (S.lost \/ S.joined \/ exhausted) /\ ~InFlight(p.S)
               /\ p.S.raised = S.raised /\ p.S.unit = S.unit
               /\ p.exc = IF p.S.lost THEN "lost" ELSE "none"
<1>1. PICK R : /\ R = Rollback(S) /\ R \in Ses /\ Apart(R) /\ ~InFlight(R)
               /\ R.cached = S.cached /\ R.scope = S.scope
               /\ R.dirty = S.dirty \cup (Upserted(S) \cap S.cached)
               /\ R.deleted = S.deleted \cup (S.rem \ S.cached)
               /\ R.lost = (S.lost \/ S.joined) /\ R.raised = S.raised /\ R.unit = S.unit
  BY RollbackParts
<1>2. PICK C : C = [R EXCEPT !.lost = @ \/ exhausted]
  OBVIOUS
<1>3. /\ C.cached = R.cached /\ C.scope = R.scope /\ C.dirty = R.dirty
      /\ C.deleted = R.deleted /\ C.raised = R.raised /\ C.unit = R.unit
      /\ C.ups = R.ups /\ C.rem = R.rem /\ C.joined = R.joined
      /\ C.lost = (R.lost \/ exhausted)
  BY <1>1, <1>2 DEF Ses
<1>4. Apart(C) /\ ~InFlight(C)
  BY <1>1, <1>3 DEF Apart, InFlight, Upserted
<1>5. PICK p : p = Replay(S, exhausted) /\ p = LostOr(C, NoTxn)
  BY <1>1, <1>2 DEF Replay
<1>6. p.S = C /\ p.t = NoTxn /\ p.exc = IF C.lost THEN "lost" ELSE "none"
  BY <1>5 DEF LostOr, Raise, Done
<1> QED
  BY <1>1, <1>3, <1>4, <1>5, <1>6

-----------------------------------------------------------------------------
(* Reading and changing anchors                                            *)

LEMMA MaterializeFits ==
    ASSUME NEW S \in Ses, NEW t \in Txn, NEW G \in SUBSET Ids, Apart(S), Agrees(S, t),
           \A id \in G : Present(t.view[id]), G \cap S.deleted = {}
    PROVE  LET M == Materialize(S, t, G)
           IN  /\ Apart(M) /\ Agrees(M, t)
               /\ M.dirty = S.dirty /\ M.deleted = S.deleted /\ M.lost = S.lost
               /\ M.scope = S.scope /\ M.unit = S.unit /\ M.raised = S.raised
               /\ InFlight(M) => InFlight(S)
<1>1. PICK M : M = Materialize(S, t, G)
  OBVIOUS
<1>2. PICK new : /\ new \subseteq G
                 /\ M.cached = S.cached \cup new
                 /\ M.ups = [id \in Ids |-> IF id \in new /\ Present(S.ups[id])
                                            THEN t.view[id] ELSE S.ups[id]]
                 /\ M.dirty = S.dirty /\ M.deleted = S.deleted /\ M.lost = S.lost
                 /\ M.scope = S.scope /\ M.unit = S.unit /\ M.raised = S.raised
                 /\ M.rem = S.rem
  <2>1. PICK new : new = G \ {id \in G \cap S.cached :
                                \/ id \in S.dirty
                                \/ ~Present(Current(S, id))
                                \/ Current(S, id).ver = t.view[id].ver}
    OBVIOUS
  <2> QED
    BY <1>1, <2>1 DEF Materialize, Ses
<1>3. InFlight(M) => InFlight(S)
  BY <1>1, MaterializeAdds0 DEF Adds0
<1>4. Apart(M)
  BY <1>2 DEF Apart
<1>5. Upserted(M) = Upserted(S)
  BY <1>2 DEF Upserted
<1>6. Pending(S) \subseteq Pending(M)
  BY <1>2 DEF Pending
<1>7. Agrees(M, t)
  <2> SUFFICES ASSUME t.mode # "none", ~t.dead
               PROVE  /\ t.wrote \subseteq Upserted(M) \cup M.rem \cup Pending(M)
                      /\ \A id \in Upserted(M) : t.view[id] = M.ups[id] \/ id \in Pending(M)
    BY DEF Agrees, AgreesBut
  <2>1. /\ t.wrote \subseteq Upserted(S) \cup S.rem \cup Pending(S)
        /\ \A id \in Upserted(S) : t.view[id] = S.ups[id] \/ id \in Pending(S)
    BY DEF Agrees, AgreesBut
  <2>2. Upserted(S) \subseteq Ids
    BY DEF Upserted
  <2> QED
    BY <1>2, <1>5, <1>6, <2>1, <2>2
<1> QED
  BY <1>1, <1>2, <1>3, <1>4, <1>7

LEMMA LoadFullFits ==
    ASSUME NEW S \in Ses, NEW t \in Txn, NEW L \in SUBSET Ids,
           Apart(S), Agrees(S, t), Idle(t), S.deleted = {}
    PROVE  LET r == LoadFull(Done(S, t), L)
           IN  /\ Fits(S, r)
               /\ ~Ok(r) => r = Raise(S, NoTxn, "db")
               /\ Ok(r) => /\ r.t.mode = t.mode /\ r.S.dirty = S.dirty
                           /\ r.S.deleted = S.deleted /\ r.S.lost = S.lost
                           /\ r.S.scope = S.scope /\ r.S.unit = S.unit
                           /\ r.S.raised = S.raised /\ (InFlight(r.S) => InFlight(S))
<1>1. PICK r : r = LoadFull(Done(S, t), L)
  OBVIOUS
<1>2. From(S, r)
  BY <1>1, FromSelf, LoadFullFrom
<1>3. CASE t.dead
  <2>1. r = Raise(S, NoTxn, "db")
    BY <1>1, <1>3 DEF LoadFull, Done, Ok
  <2>2. r.S = S /\ r.t = NoTxn /\ ~Ok(r)
    BY <2>1 DEF Raise, Ok
  <2> QED
    BY <1>1, <1>2, <2>1, <2>2, NoTxnParts DEF Fits, Agrees
<1>4. CASE ~t.dead
  <2>1. PICK G \in SUBSET Ids : G = {id \in L : Present(t.view[id])}
    OBVIOUS
  <2>2. PICK M : M = Materialize(S, t, G)
    OBVIOUS
  <2>3. PICK u : u = Reading(t, L)
    OBVIOUS
  <2>4. r = Done(M, u)
    BY <1>1, <1>4, <2>1, <2>2, <2>3 DEF LoadFull, Done, Ok
  <2>5. r.S = M /\ r.t = u /\ Ok(r)
    BY <2>4 DEF Done, Ok
  <2>6. /\ Apart(M) /\ Agrees(M, t)
        /\ M.dirty = S.dirty /\ M.deleted = S.deleted /\ M.lost = S.lost
        /\ M.scope = S.scope /\ M.unit = S.unit /\ M.raised = S.raised
        /\ InFlight(M) => InFlight(S)
    BY <2>1, <2>2, MaterializeFits
  <2>7. u.mode = t.mode /\ u.dead = t.dead /\ u.view = t.view /\ u.wrote = t.wrote
    BY <2>3 DEF Reading, Txn
  <2>8. Agrees(M, u)
    BY <2>6, <2>7, MoreAgrees DEF Agrees
  <2>9. Idle(u)
    BY <2>3, <2>7, NoTxnParts DEF Idle, Reading
  <2> QED
    BY <1>1, <1>2, <2>5, <2>6, <2>7, <2>8, <2>9 DEF Fits
<1> QED
  BY <1>3, <1>4

LEMMA WriteFits ==
    ASSUME NEW S \in Ses, NEW t \in Txn, Apart(S), Agrees(S, t), NEW id \in Ids, NEW tag
    PROVE  /\ Apart(Put(S, id, tag)) /\ Agrees(Put(S, id, tag), t)
           /\ Apart(Write(S, id, tag)) /\ Agrees(Write(S, id, tag), t)
           /\ Apart(Mutate(S, id, tag)) /\ Agrees(Mutate(S, id, tag), t)
           /\ Apart(DeleteAnchor(S, id)) /\ Agrees(DeleteAnchor(S, id), t)
<1>1. ASSUME NEW R, R.ups = S.ups, R.rem = S.rem, Pending(S) \subseteq Pending(R)
      PROVE  Agrees(R, t)
  BY <1>1, MoreAgrees DEF Agrees
<1>2. Apart(Put(S, id, tag)) /\ Agrees(Put(S, id, tag), t)
  <2>1. PICK R : R = Put(S, id, tag)
    OBVIOUS
  <2>2. /\ R.cached = S.cached \cup {id} /\ R.dirty = S.dirty \cup {id}
        /\ R.deleted = S.deleted \ {id} /\ R.ups = S.ups /\ R.rem = S.rem
    BY <2>1 DEF Put, Ses
  <2>3. Pending(S) \subseteq Pending(R) /\ Apart(R)
    BY <2>2 DEF Pending, Apart
  <2> QED
    BY <1>1, <2>1, <2>2, <2>3
<1>3. Apart(Write(S, id, tag)) /\ Agrees(Write(S, id, tag), t)
  <2>1. PICK R : R = Write(S, id, tag)
    OBVIOUS
  <2>2. /\ R.cached = S.cached /\ R.dirty = S.dirty \cup {id}
        /\ R.deleted = S.deleted /\ R.ups = S.ups /\ R.rem = S.rem
    BY <2>1 DEF Write, Ses
  <2>3. Pending(S) \subseteq Pending(R) /\ Apart(R)
    BY <2>2 DEF Pending, Apart
  <2> QED
    BY <1>1, <2>1, <2>2, <2>3
<1>4. Apart(Mutate(S, id, tag)) /\ Agrees(Mutate(S, id, tag), t)
  <2>1. PICK R : R = Mutate(S, id, tag)
    OBVIOUS
  <2>2. /\ R.cached = S.cached /\ R.dirty = S.dirty
        /\ R.deleted = S.deleted /\ R.ups = S.ups /\ R.rem = S.rem
    BY <2>1 DEF Mutate, Ses
  <2>3. Pending(S) \subseteq Pending(R) /\ Apart(R)
    BY <2>2 DEF Pending, Apart
  <2> QED
    BY <1>1, <2>1, <2>2, <2>3
<1>5. Apart(DeleteAnchor(S, id)) /\ Agrees(DeleteAnchor(S, id), t)
  <2>1. PICK R : R = DeleteAnchor(S, id)
    OBVIOUS
  <2>2. /\ R.cached = S.cached \ {id} /\ R.dirty = S.dirty \ {id}
        /\ R.deleted = S.deleted \cup {id} /\ R.ups = S.ups /\ R.rem = S.rem
    BY <2>1 DEF DeleteAnchor, Ses
  <2>3. Pending(S) \subseteq Pending(R) /\ Apart(R)
    BY <2>2 DEF Pending, Apart
  <2> QED
    BY <1>1, <2>1, <2>2, <2>3
<1> QED
  BY <1>2, <1>3, <1>4, <1>5

-----------------------------------------------------------------------------
(* The invariant                                                           *)

(* Nothing is left to write.                                               *)
Quiet(S) == Unflushed(S, TRUE) = {} /\ S.deleted = {}

Settled(S, t) == Quiet(S) /\ ~InFlight(S) /\ ~S.lost /\ t = NoTxn

(* The session of a request whose unit is not open yet.                    *)
Early(S) == /\ S.dirty = {} /\ S.deleted = {} /\ ~InFlight(S)
            /\ ~S.lost /\ ~S.raised /\ S.unit = "none"

(* A request that reads an anchor for its operation: the middleware in its *)
(* read scope, the conflict loop before it enters the unit, or the walker. *)
Asks(S, t, q) ==
    /\ q.answer = "none"
    /\ q.op.name \in {"scope", "open"} => Early(S)
    /\ q.op.name = "scope" => S.scope /\ S.cached = {} /\ t.mode # "rw"
    /\ q.op.name = "open" => ~S.scope /\ t.mode # "ro"

Stage(S, t, q) ==
    /\ q.pc \in {"arrive", "scope", "open"} => Early(S)
    /\ q.pc = "arrive" => t = NoTxn /\ ~S.scope /\ S.cached = {}
    /\ q.pc = "scope" => t.mode # "rw"
    /\ q.pc = "open" => t = NoTxn /\ ~S.scope
    /\ q.pc \in {"barrier", "load"} => Asks(S, t, q)
    /\ q.pc = "load" /\ q.op.load # {} => S.deleted = {}
    /\ q.pc \in {"turn", "pin"} => Upserted(S) = {}
    /\ q.pc = "commit" => Quiet(S) /\ ~S.lost /\ Exact(S, t) /\ Kept(S, t)
    /\ q.pc = "exit" => Settled(S, t)
    /\ q.answer # "none" =>
          /\ Settled(S, t)
          /\ q.pc \in {"scope", "close", "flush", "commit", "leave", "answered"}
          /\ q.pc \in {"flush", "commit"} => q.kind = "close"

Booked(S, t, q) == Apart(S) /\ Agrees(S, t) /\ Idle(t) /\ Stage(S, t, q)

LedgerInv == \A s \in Sessions : Booked(ses[s], txn[s], req[s])

(* A request that goes where nothing is asked of it.                       *)
Roams(q) ==
    /\ q.pc \notin {"arrive", "scope", "open", "barrier", "load", "turn",
                    "pin", "commit", "exit"}
    /\ q.answer = "none"

LEMMA RoamsStage == ASSUME NEW S, NEW t, NEW q, Roams(q) PROVE Stage(S, t, q)
  BY DEF Roams, Stage

LEMMA QuietParts ==
    ASSUME NEW S
    PROVE  Quiet(S) <=> S.dirty \cap S.cached = {} /\ Unlike(S) = {} /\ S.deleted = {}
  BY UnflushedUnlike DEF Quiet

LEMMA Forgotten ==
    ASSUME NEW S \in Ses, NEW A, A.cached = {}, A.deleted = {}, ~A.lost,
           A.ups = S.ups, A.rem = S.rem, A.joined = S.joined, ~InFlight(S)
    PROVE  Settled(A, NoTxn) /\ Apart(A) /\ Agrees(A, NoTxn) /\ Idle(NoTxn)
<1>1. ~InFlight(A)
  BY DEF InFlight, Upserted
<1>2. Quiet(A)
  BY QuietParts DEF Unlike
<1>3. Apart(A)
  BY DEF Apart
<1> QED
  BY <1>1, <1>2, <1>3, NoTxnParts DEF Settled, Agrees

LEMMA LedgerInit == Init => LedgerInv
<1> SUFFICES ASSUME Init, NEW s \in Sessions PROVE Booked(ses[s], txn[s], req[s])
  BY DEF LedgerInv
<1>1. txn[s] = NoTxn /\ req[s] = NewRequest
  BY DEF Init, StoreInit
<1>2. PICK S : S = ses[s] /\ (S = NewSession \/ S = [NewSession EXCEPT !.recorded = TRUE])
  BY DEF Init
<1>3. /\ S.cached = {} /\ S.deleted = {} /\ S.dirty = {} /\ ~S.lost /\ ~S.raised
      /\ S.unit = "none" /\ ~S.scope /\ S.ups = NoRows /\ S.rem = {} /\ S.joined = FALSE
  BY <1>2 DEF NewSession
<1>4. ~InFlight(S)
  BY <1>3, EmptyLedger
<1>5. Early(S)
  BY <1>3, <1>4 DEF Early
<1>6. req[s].pc = "arrive" /\ req[s].answer = "none"
  BY <1>1 DEF NewRequest
<1>7. Stage(S, NoTxn, req[s])
  BY <1>3, <1>5, <1>6 DEF Stage
<1>8. Apart(S) /\ Agrees(S, NoTxn) /\ Idle(NoTxn)
  BY <1>3, NoTxnParts DEF Apart, Agrees
<1> QED
  BY <1>1, <1>2, <1>7, <1>8 DEF Booked

LEMMA LedgerPrime ==
    LedgerInv' <=> \A o \in Sessions : Booked(ses'[o], txn'[o], req'[o])
  BY DEF LedgerInv, Booked, Apart, Agrees, AgreesBut, Pending, Idle, Stage, Early, Asks,
         Settled, Quiet, Unflushed, Exact, Kept, InFlight, Upserted, Current,
         NoTxn, NoRows, Present, Absent

LEMMA BecomesLedger ==
    ASSUME TypeOK, LedgerInv, NEW s \in Sessions, NEW S, NEW t, NEW q,
           Becomes(s, S, t, q), Booked(S, t, q)
    PROVE  LedgerInv'
<1>1. /\ ses' = [ses EXCEPT ![s] = S]
      /\ txn' = [txn EXCEPT ![s] = t]
      /\ req' = [req EXCEPT ![s] = q]
      /\ ses \in [Sessions -> Ses] /\ req \in [Sessions -> Req] /\ txn \in [Sessions -> Txn]
  BY DEF Becomes, TypeOK, StoreTypeOK
<1>2. ASSUME NEW o \in Sessions PROVE Booked(ses'[o], txn'[o], req'[o])
  <2>1. CASE o = s
    BY <1>1, <2>1
  <2>2. CASE o # s
    BY <1>1, <2>2 DEF LedgerInv
  <2> QED
    BY <2>1, <2>2
<1> QED
  BY <1>2, LedgerPrime

LEMMA StepLedger ==
    ASSUME TypeOK, LedgerInv, NEW s \in Sessions, NEW S, NEW t, NEW q,
           Step(s, S, t, q), Booked(S, t, q)
    PROVE  LedgerInv'
  BY BecomesLedger DEF Step

LEMMA RoamsLedger ==
    ASSUME TypeOK, LedgerInv, NEW s \in Sessions, NEW S, NEW t, NEW q,
           Becomes(s, S, t, q), Apart(S), Agrees(S, t), Idle(t), Roams(q)
    PROVE  LedgerInv'
  BY BecomesLedger, RoamsStage DEF Booked

LEMMA PartsLedger ==
    ASSUME TypeOK, LedgerInv, NEW s \in Sessions
    PROVE  /\ ses[s] \in Ses /\ txn[s] \in Txn /\ req[s] \in Req /\ StoreReady
           /\ Tag(s) \in Tags /\ Root \in Ids /\ {Root} \in SUBSET Ids
           /\ Apart(ses[s]) /\ Agrees(ses[s], txn[s]) /\ Idle(txn[s])
           /\ Stage(ses[s], txn[s], req[s])
  BY PartsType, RootType DEF LedgerInv, Booked

-----------------------------------------------------------------------------
(* Reading                                                                 *)

LEMMA SettledStage ==
    ASSUME NEW S, NEW t, NEW q, Settled(S, t),
           q.pc \in {"close", "leave", "answered"}
    PROVE  Stage(S, t, q)
  BY DEF Stage

LEMMA SettledBooked ==
    ASSUME NEW S, NEW t, NEW q, Settled(S, t), Apart(S),
           q.pc \in {"close", "leave", "answered"}
    PROVE  Booked(S, t, q)
<1>1. t = NoTxn
  BY DEF Settled
<1> QED
  BY <1>1, SettledStage, NoTxnParts DEF Booked, Agrees

(* The read barrier of a session that has nothing to write opens the       *)
(* transaction that the session asks for, and always succeeds.             *)
LEMMA EarlyBarrier ==
    ASSUME NEW S \in Ses, NEW t \in Txn, Early(S), NEW s, Idle(t),
           S.scope => t.mode # "rw", ~S.scope => t.mode # "ro"
    PROVE  LET r == ReadBarrier(s, Done(S, t))
           IN  /\ Ok(r) /\ r.S = [S EXCEPT !.dirty = {}]
               /\ S.scope => r.t.mode # "rw"
               /\ ~S.scope => r.t.mode # "ro"
<1>1. Reclaim(Done(S, t)) = Done(S, t)
  BY DEF Reclaim, Done, Early
<1>2. Isolation(S) = IF S.scope THEN "ro" ELSE "rw"
  BY DEF Isolation, Early, Ses
<1>3. t.mode \in {"none", "rw", "ro"}
  BY DEF Txn
<1>4. PICK e : e = EnsureTxn(Done(S, t)) /\ e = Opened(Done(S, t))
  BY <1>1 DEF EnsureTxn
<1>5. PICK u : e = Done(S, u) /\ (S.scope => u.mode # "rw") /\ (~S.scope => u.mode # "ro")
  <2>1. CASE t.mode = "none"
    <3>1. e = Done(S, Begin(Isolation(S)))
      BY <1>4, <2>1 DEF Opened, Done, Ok
    <3>2. Begin(Isolation(S)).mode = Isolation(S)
      BY DEF Begin, NoTxn
    <3> QED
      BY <1>2, <3>1, <3>2
  <2>2. CASE t.mode # "none" /\ S.scope
    <3>1. e = Done(S, t)
      BY <1>2, <1>4, <2>2 DEF Opened, Done, Ok
    <3> QED
      BY <2>2, <3>1
  <2>3. CASE t.mode = "rw" /\ ~S.scope
    <3>1. BeginWritable(Done(S, t)) = Done(S, t)
      BY <1>1, <2>3 DEF BeginWritable, Promoted, Done, Early
    <3>2. e = Done(S, t)
      BY <1>2, <1>4, <2>3, <3>1 DEF Opened, Done, Ok
    <3> QED
      BY <2>3, <3>2
  <2> QED
    BY <1>3, <2>1, <2>2, <2>3
<1>6. PICK r : r = ReadBarrier(s, Done(S, t)) /\ r = Flush(s, e, FALSE)
  BY <1>4 DEF ReadBarrier
<1>7. e.S = S /\ e.t = u /\ Ok(e) /\ S.deleted = {} /\ S.dirty = {} /\ ~InFlight(S)
  BY <1>5 DEF Done, Ok, Early
<1>8. Reclaim(e) = e
  BY <1>7 DEF Reclaim
<1>9. Unflushed(S, FALSE) = {}
  BY <1>7 DEF Unflushed
<1>10. r = FlushThe(s, e, {})
  BY <1>6, <1>7, <1>8, <1>9 DEF Flush, FlushLocked
<1>11. Writable(e, {}) = e
  BY <1>7 DEF Writable
<1>12. FlushRows(s, e, {}) = e /\ FlushDeletes(s, e) = e
  BY <1>7 DEF FlushRows, FlushDeletes
<1>13. r = Done([S EXCEPT !.dirty = {}], u)
  BY <1>7, <1>10, <1>11, <1>12 DEF FlushThe, Flushed
<1>14. r.S = [S EXCEPT !.dirty = {}] /\ r.t = u /\ r.exc = "none"
  BY <1>13 DEF Done
<1> QED
  BY <1>5, <1>6, <1>14 DEF Ok

LEMMA EarlySame ==
    ASSUME NEW S, NEW R, Early(S), R.dirty = {}, R.deleted = S.deleted, R.lost = S.lost,
           R.raised = S.raised, R.unit = S.unit, InFlight(R) => InFlight(S)
    PROVE  Early(R)
  BY DEF Early

(* Replaying nothing leaves the session as it was.                         *)
LEMMA EarlyReplay ==
    ASSUME NEW S \in Ses, Early(S), Apart(S)
    PROVE  LET p == Replay(S, FALSE)
           IN  /\ Ok(p) /\ Early(p.S) /\ p.S.cached = S.cached /\ p.S.scope = S.scope
               /\ p.t = NoTxn /\ Apart(p.S)
<1>1. PICK p : p = Replay(S, FALSE)
  OBVIOUS
<1>2. /\ Apart(p.S) /\ p.t = NoTxn /\ p.S.cached = S.cached /\ p.S.scope = S.scope
      /\ p.S.dirty = S.dirty \cup (Upserted(S) \cap S.cached)
      /\ p.S.deleted = S.deleted \cup (S.rem \ S.cached)
      /\ p.S.lost = (S.lost \/ S.joined \/ FALSE) /\ ~InFlight(p.S)
      /\ p.S.raised = S.raised /\ p.S.unit = S.unit
      /\ p.exc = IF p.S.lost THEN "lost" ELSE "none"
  BY <1>1, ReplayParts
<1>3. /\ Upserted(S) = {} /\ S.rem = {} /\ ~S.joined /\ S.dirty = {} /\ S.deleted = {}
      /\ ~S.lost /\ ~S.raised /\ S.unit = "none"
  BY DEF Early, InFlight
<1> QED
  BY <1>1, <1>2, <1>3 DEF Early, Ok

LEMMA FailedStage ==
    ASSUME NEW q \in Req, NEW e, q.answer = "none",
           q.op.name \notin {"scope", "open"}
    PROVE  Roams(Failed(q, e))
  BY DEF Roams, Failed, Throw, Req

(* A read given up for good: the middleware's and the conflict loop's have *)
(* written nothing.                                                        *)
LEMMA FailsLedger ==
    ASSUME TypeOK, LedgerInv, NEW s \in Sessions, NEW r, r.S \in Ses,
           Apart(r.S), Agrees(r.S, r.t), Idle(r.t), NEW q \in Req,
           Asks(r.S, r.t, q), q.op.name \in {"scope", "open"} => r.t = NoTxn,
           Fails(s, r, q)
    PROVE  LedgerInv'
<1>1. PICK F : F = FailedSession(q, r.S, r.exc)
  OBVIOUS
<1>2. PICK p : p = Failed(q, r.exc)
  OBVIOUS
<1>3. Step(s, F, r.t, p)
  BY <1>1, <1>2 DEF Fails
<1>4. CASE q.op.name = "scope"
  <2>1. F = r.S /\ r.t = NoTxn
    BY <1>1, <1>4 DEF FailedSession
  <2>2. p.pc = "scope" /\ p.answer = "error"
    BY <1>2, <1>4 DEF Failed, Req
  <2>3. Early(r.S) /\ r.S.cached = {}
    BY <1>4 DEF Asks
  <2>4. Settled(r.S, NoTxn)
    BY <2>3, QuietParts DEF Settled, Early, Unlike
  <2>5. Stage(r.S, NoTxn, p)
    BY <2>2, <2>3, <2>4, NoTxnParts DEF Stage
  <2> QED
    BY <1>3, <2>1, <2>5, StepLedger DEF Booked
<1>5. CASE q.op.name = "open"
  <2>1. F = Abort(r.S) /\ r.t = NoTxn
    BY <1>1, <1>5 DEF FailedSession
  <2>2. p.pc = "close"
    BY <1>2, <1>5 DEF Failed, Req
  <2>3. Settled(F, NoTxn) /\ Apart(F)
    <3>1. /\ F.cached = {} /\ F.deleted = {} /\ ~F.lost /\ ~InFlight(F) /\ F \in Ses
      BY <2>1, AbortParts
    <3> QED
      BY <3>1, Forgotten
  <2> QED
    BY <1>3, <2>1, <2>2, <2>3, SettledBooked, StepLedger
<1>6. CASE q.op.name \notin {"scope", "open"}
  <2>1. Roams(p)
    BY <1>2, <1>6, FailedStage DEF Asks
  <2>2. F = r.S \/ F = [r.S EXCEPT !.lost = TRUE]
    BY <1>1, <1>6 DEF FailedSession
  <2>3. /\ F.cached = r.S.cached /\ F.deleted = r.S.deleted /\ F.dirty = r.S.dirty
        /\ F.ups = r.S.ups /\ F.rem = r.S.rem
    BY <2>2 DEF Ses
  <2>4. Apart(F) /\ Pending(F) = Pending(r.S)
    BY <2>3 DEF Apart, Pending
  <2>5. Agrees(F, r.t)
    BY <2>3, <2>4, MoreAgrees DEF Agrees
  <2> QED
    BY <1>3, <2>1, <2>4, <2>5, RoamsLedger DEF Step
<1> QED
  BY <1>4, <1>5, <1>6

LEMMA RetriesLedger ==
    ASSUME TypeOK, LedgerInv, NEW s \in Sessions, NEW r, r.S \in Ses,
           Apart(r.S), Agrees(r.S, r.t), Idle(r.t), NEW q \in Req, NEW next \in Nat,
           Asks(r.S, r.t, q), q.op.name \in {"scope", "open"} => r.t = NoTxn,
           Retries(s, r, q, next)
    PROVE  LedgerInv'
<1>1. PICK p : p = Replay(r.S, FALSE)
  OBVIOUS
<1>2. p.t = NoTxn /\ Apart(p.S) /\ Agrees(p.S, p.t) /\ Idle(p.t) /\ p.S \in Ses
  <2>1. p.t = NoTxn /\ Apart(p.S)
    BY <1>1, ReplayParts
  <2>2. p.S \in Ses
    <3>1. From(r.S, Replay(Done(r.S, NoTxn).S, FALSE))
      BY FromSelf, NoTxnType, ReplayFrom
    <3>2. Done(r.S, NoTxn).S = r.S
      BY DEF Done
    <3> QED
      BY <1>1, <3>1, <3>2, FromParts
  <2> QED
    BY <2>1, <2>2, NoTxnParts DEF Agrees
<1>3. Asks(p.S, p.t, q)
  <2>1. CASE q.op.name \in {"scope", "open"}
    <3>1. Early(r.S)
      BY <2>1 DEF Asks
    <3>2. Early(p.S) /\ p.S.cached = r.S.cached /\ p.S.scope = r.S.scope
      BY <1>1, <3>1, EarlyReplay
    <3> QED
      BY <1>2, <3>2, NoTxnParts DEF Asks
  <2>2. CASE q.op.name \notin {"scope", "open"}
    BY <2>2 DEF Asks
  <2> QED
    BY <2>1, <2>2
<1>4. CASE Step(s, p.S, p.t, [q EXCEPT !.pc = "barrier", !.tries = next])
  <2>1. PICK n : n = [q EXCEPT !.pc = "barrier", !.tries = next]
    OBVIOUS
  <2>2. n.pc = "barrier" /\ n.op = q.op /\ n.answer = q.answer
    BY <2>1 DEF Req
  <2>3. Asks(p.S, p.t, n)
    BY <1>3, <2>2 DEF Asks
  <2>4. Stage(p.S, p.t, n)
    BY <2>2, <2>3 DEF Stage, Asks
  <2> QED
    BY <1>2, <1>4, <2>1, <2>4, StepLedger DEF Booked
<1>5. CASE Fails(s, p, q)
  BY <1>2, <1>3, <1>5, FailsLedger
<1>6. CASE Fails(s, r, q)
  BY <1>6, FailsLedger
<1> QED
  BY <1>1, <1>4, <1>5, <1>6 DEF Retries

LEMMA BarrierLedger ==
    ASSUME TypeOK, LedgerInv, NEW s \in Sessions, NEW S \in Ses,
           Apart(S), Agrees(S, txn[s]), NEW q \in Req, Asks(S, txn[s], q), Barrier(s, S, q)
    PROVE  LedgerInv'
<1>1. PICK r : r = IF q.op.load = {} THEN Done(S, txn[s])
                   ELSE ReadBarrier(s, Done(S, txn[s]))
  OBVIOUS
<1>2. /\ txn[s] \in Txn /\ Idle(txn[s]) /\ StoreReady
  BY PartsLedger
<1>3. Fits(S, Done(S, txn[s]))
  BY <1>2, FitsSelf
<1>4. PICK n : n = Goto(q, "load")
  OBVIOUS
<1>5. n.pc = "load" /\ n.op = q.op /\ n.answer = q.answer
  BY <1>4 DEF Goto, Req
<1>6. ASSUME q.op.load # {}
      PROVE  /\ r.S \in Ses /\ Apart(r.S) /\ Agrees(r.S, r.t) /\ Idle(r.t)
             /\ Ok(r) => r.S.deleted = {}
  <2>1. PICK e : e = EnsureTxn(Done(S, txn[s])) /\ Fits(S, e)
    BY <1>2, <1>3, EnsureTxnFits
  <2>2. r = Flush(s, e, FALSE)
    BY <1>1, <1>6, <2>1 DEF ReadBarrier
  <2>3. /\ From(S, r) /\ Apart(r.S) /\ Idle(r.t) /\ Agrees(r.S, r.t)
        /\ Ok(r) => r.S.deleted = {}
    BY <1>2, <2>1, <2>2, FlushFits
  <2> QED
    BY <2>3, FromParts
<1>7. ASSUME q.op.load # {}, q.op.name \in {"scope", "open"}
      PROVE  Ok(r) /\ Asks(r.S, r.t, q)
  <2>1. Early(S) /\ (S.scope => txn[s].mode # "rw") /\ (~S.scope => txn[s].mode # "ro")
    BY <1>7 DEF Asks
  <2>2. /\ Ok(r) /\ r.S = [S EXCEPT !.dirty = {}]
        /\ S.scope => r.t.mode # "rw"
        /\ ~S.scope => r.t.mode # "ro"
    BY <1>1, <1>2, <1>7, <2>1, EarlyBarrier
  <2>3. /\ r.S.dirty = {} /\ r.S.deleted = S.deleted /\ r.S.lost = S.lost
        /\ r.S.raised = S.raised /\ r.S.unit = S.unit /\ r.S.scope = S.scope
        /\ r.S.cached = S.cached /\ r.S.ups = S.ups /\ r.S.rem = S.rem
        /\ r.S.joined = S.joined
    BY <2>2 DEF Ses
  <2>4. Early(r.S)
    BY <2>1, <2>3, EarlySame DEF InFlight, Upserted
  <2> QED
    BY <1>7, <2>2, <2>3, <2>4 DEF Asks
<1>8. CASE q.op.load = {}
  <2>1. r.S = S /\ r.t = txn[s] /\ Ok(r)
    BY <1>1, <1>8 DEF Done, Ok
  <2>2. Step(s, S, txn[s], n)
    BY <1>1, <1>4, <1>8, <2>1 DEF Barrier
  <2>3. Asks(S, txn[s], n)
    BY <1>5 DEF Asks
  <2>4. Stage(S, txn[s], n)
    BY <1>5, <1>8, <2>3 DEF Stage, Asks
  <2> QED
    BY <1>2, <2>2, <2>4, StepLedger DEF Booked
<1>9. CASE q.op.load # {} /\ Ok(r)
  <2>1. Asks(r.S, r.t, q)
    BY <1>7, <1>9 DEF Asks
  <2>2. Step(s, r.S, r.t, n)
    BY <1>1, <1>4, <1>9 DEF Barrier
  <2>3. Asks(r.S, r.t, n)
    BY <1>5, <2>1 DEF Asks
  <2>4. Stage(r.S, r.t, n)
    BY <1>5, <1>6, <1>9, <2>3 DEF Stage, Asks
  <2> QED
    BY <1>6, <1>9, <2>2, <2>4, StepLedger DEF Booked
<1>10. CASE q.op.load # {} /\ ~Ok(r)
  <2>1. q.op.name \notin {"scope", "open"}
    BY <1>7, <1>10
  <2>2. Asks(r.S, r.t, q)
    BY <2>1 DEF Asks
  <2>3. q.tries + 1 \in Nat
    BY DEF Req
  <2>4. Retries(s, r, q, q.tries + 1)
    BY <1>1, <1>10 DEF Barrier
  <2> QED
    BY <1>6, <1>10, <2>1, <2>2, <2>3, <2>4, RetriesLedger
<1> QED
  BY <1>8, <1>9, <1>10

LEMMA ReadLedger ==
    ASSUME TypeOK, LedgerInv, NEW s \in Sessions, NEW S \in Ses,
           Apart(S), Agrees(S, txn[s]),
           NEW name \in OpNames, NEW id \in Ids, NEW L \in SUBSET Ids,
           Read(s, S, name, id, L), req[s].answer = "none",
           name \in {"scope", "open"} => Early(S),
           name = "scope" => S.scope /\ S.cached = {} /\ txn[s].mode # "rw",
           name = "open" => ~S.scope /\ txn[s].mode # "ro"
    PROVE  LedgerInv'
<1>1. PICK o : o = [name |-> name, id |-> id, load |-> Missing(S, L)]
  OBVIOUS
<1>2. o \in Op /\ o.name = name
  BY <1>1 DEF Op, Missing
<1>3. PICK q : q = [req[s] EXCEPT !.tries = 0, !.op = o]
  OBVIOUS
<1>4. q \in Req /\ q.op = o /\ q.answer = "none"
  BY <1>2, <1>3, PartsType DEF Req
<1>5. Asks(S, txn[s], q)
  BY <1>2, <1>4 DEF Asks
<1> QED
  BY <1>1, <1>3, <1>4, <1>5, BarrierLedger DEF Read

Opens(S, t, q) ==
    /\ q.op.name \in {"scope", "open"} => Early(S)
    /\ q.op.name = "scope" => t.mode # "rw"
    /\ q.op.name = "open" => ~S.scope /\ t.mode # "ro"

(* What a request at pc "load" has read.                                   *)
LEMMA LoadedLedger ==
    ASSUME TypeOK, LedgerInv, NEW s \in Sessions, At(s, "load")
    PROVE  LET r == Loaded(s)
           IN  /\ r.S \in Ses /\ r.t \in Txn
               /\ Apart(r.S) /\ Agrees(r.S, r.t) /\ Idle(r.t)
               /\ req[s].answer = "none"
               /\ Ok(r) => Opens(r.S, r.t, req[s])
               /\ ~Ok(r) => r = Raise(ses[s], NoTxn, "db")
<1>1. /\ ses[s] \in Ses /\ txn[s] \in Txn /\ req[s] \in Req
      /\ Apart(ses[s]) /\ Agrees(ses[s], txn[s]) /\ Idle(txn[s])
      /\ Asks(ses[s], txn[s], req[s])
      /\ req[s].op.load # {} => ses[s].deleted = {}
  BY PartsLedger DEF Stage, At
<1>2. PICK L \in SUBSET Ids : L = req[s].op.load
  BY <1>1 DEF Req, Op
<1>3. PICK r : r = Loaded(s)
  OBVIOUS
<1>4. CASE L = {}
  <2>1. r.S = ses[s] /\ r.t = txn[s] /\ Ok(r)
    BY <1>2, <1>3, <1>4 DEF Loaded, Done, Ok
  <2> QED
    BY <1>1, <1>3, <2>1 DEF Asks, Opens
<1>5. CASE L # {}
  <2>1. r = LoadFull(Done(ses[s], txn[s]), L)
    BY <1>2, <1>3, <1>5 DEF Loaded
  <2>2. ses[s].deleted = {}
    BY <1>1, <1>2, <1>5
  <2>3. Fits(ses[s], r) /\ (~Ok(r) => r = Raise(ses[s], NoTxn, "db"))
    BY <1>1, <2>1, <2>2, LoadFullFits
  <2>4. Ok(r) => /\ r.t.mode = txn[s].mode /\ r.S.dirty = ses[s].dirty
                 /\ r.S.deleted = ses[s].deleted /\ r.S.lost = ses[s].lost
                 /\ r.S.scope = ses[s].scope /\ r.S.unit = ses[s].unit
                 /\ r.S.raised = ses[s].raised
                 /\ (InFlight(r.S) => InFlight(ses[s]))
    BY <1>1, <2>1, <2>2, LoadFullFits
  <2>5. Ok(r) => Opens(r.S, r.t, req[s])
    <3> SUFFICES ASSUME Ok(r) PROVE Opens(r.S, r.t, req[s])
      OBVIOUS
    <3>1. Early(ses[s]) => Early(r.S)
      BY <2>4, EarlySame DEF Early
    <3> QED
      BY <1>1, <2>4, <3>1 DEF Asks, Opens
  <2> QED
    BY <1>1, <1>3, <2>3, <2>5, FitsParts DEF Asks
<1> QED
  BY <1>4, <1>5

-----------------------------------------------------------------------------
(* The actions                                                             *)

LEMMA ArrivalLedger ==
    ASSUME TypeOK, LedgerInv, NEW s \in Sessions,
           \/ Arrive(s) \/ ScopeLoaded(s) \/ ExitScope(s) \/ Open(s) \/ OpenUnit(s)
    PROVE  LedgerInv'
<1>1. /\ ses[s] \in Ses /\ txn[s] \in Txn /\ req[s] \in Req /\ StoreReady
      /\ Root \in Ids /\ {Root} \in SUBSET Ids
      /\ Apart(ses[s]) /\ Agrees(ses[s], txn[s]) /\ Idle(txn[s])
      /\ Stage(ses[s], txn[s], req[s])
  BY PartsLedger
<1>2. \A pc : Goto(req[s], pc).pc = pc /\ Goto(req[s], pc).answer = req[s].answer
  BY <1>1 DEF Goto, Req
<1>3. CASE Arrive(s)
  <2>1. /\ req[s].pc = "arrive" /\ req[s].answer = "none"
        /\ Early(ses[s]) /\ txn[s] = NoTxn /\ ~ses[s].scope /\ ses[s].cached = {}
    BY <1>1, <1>3 DEF Arrive, At, Stage
  <2>2. PICK S : S = [ses[s] EXCEPT !.scope = TRUE]
    OBVIOUS
  <2>3. /\ S \in Ses /\ S.scope /\ S.cached = ses[s].cached /\ S.dirty = ses[s].dirty
        /\ S.deleted = ses[s].deleted /\ S.lost = ses[s].lost /\ S.raised = ses[s].raised
        /\ S.unit = ses[s].unit /\ S.ups = ses[s].ups /\ S.rem = ses[s].rem
        /\ S.joined = ses[s].joined
    BY <1>1, <2>2 DEF Ses
  <2>4. Apart(S) /\ Agrees(S, txn[s])
    BY <2>1, <2>3, NoTxnParts DEF Apart, Agrees
  <2>5. InFlight(S) => InFlight(ses[s])
    BY <2>3 DEF InFlight, Upserted
  <2>6. Early(S)
    BY <2>1, <2>3, <2>5 DEF Early
  <2>7. CASE Step(s, ses[s], txn[s], Goto(req[s], "open"))
    <3>1. Stage(ses[s], txn[s], Goto(req[s], "open"))
      BY <1>2, <2>1 DEF Stage
    <3> QED
      BY <1>1, <2>7, <3>1, StepLedger DEF Booked
  <2>8. CASE Read(s, S, "scope", Root, {Root})
    <3>1. "scope" \in OpNames
      BY DEF OpNames
    <3>2. txn[s].mode # "rw"
      BY <2>1, NoTxnParts
    <3>3. S \in Ses /\ S.scope /\ S.cached = {} /\ req[s].answer = "none"
      BY <2>1, <2>3
    <3> QED
      BY <1>1, <2>4, <2>6, <2>8, <3>1, <3>2, <3>3, ReadLedger
  <2> QED
    BY <1>3, <2>2, <2>7, <2>8 DEF Arrive
<1>4. CASE ScopeLoaded(s)
  <2>1. /\ req[s].op.name = "scope" /\ Ok(Loaded(s)) /\ At(s, "load")
        /\ Step(s, Loaded(s).S, Loaded(s).t, Goto(req[s], "scope"))
    BY <1>4 DEF ScopeLoaded, Loading
  <2>2. /\ Apart(Loaded(s).S) /\ Agrees(Loaded(s).S, Loaded(s).t) /\ Idle(Loaded(s).t)
        /\ Early(Loaded(s).S) /\ Loaded(s).t.mode # "rw" /\ req[s].answer = "none"
    BY <2>1, LoadedLedger DEF Opens
  <2>3. Stage(Loaded(s).S, Loaded(s).t, Goto(req[s], "scope"))
    BY <1>2, <2>2 DEF Stage
  <2> QED
    BY <2>1, <2>2, <2>3, StepLedger DEF Booked
<1>5. CASE ExitScope(s)
  <2>1. /\ Early(ses[s]) /\ txn[s].mode # "rw" /\ req[s].pc = "scope"
        /\ req[s].answer # "none" => Settled(ses[s], txn[s])
    BY <1>1, <1>5 DEF ExitScope, At, Stage
  <2>2. PICK S : S = [ses[s] EXCEPT !.scope = FALSE]
    OBVIOUS
  <2>3. /\ S \in Ses /\ ~S.scope /\ S.cached = ses[s].cached /\ S.dirty = ses[s].dirty
        /\ S.deleted = ses[s].deleted /\ S.lost = ses[s].lost /\ S.raised = ses[s].raised
        /\ S.unit = ses[s].unit /\ S.ups = ses[s].ups /\ S.rem = ses[s].rem
        /\ S.joined = ses[s].joined /\ S.mem = ses[s].mem /\ S.known = ses[s].known
    BY <1>1, <2>2 DEF Ses
  <2>4. InFlight(S) = InFlight(ses[s]) /\ Unlike(S) = Unlike(ses[s])
    BY <2>3 DEF InFlight, Upserted, Unlike, Current
  <2>5. Early(S) /\ Apart(S)
    BY <1>1, <2>1, <2>3, <2>4 DEF Early, Apart
  <2>6. req[s].answer # "none" => Settled(S, txn[s])
    BY <2>1, <2>3, <2>4, QuietParts DEF Settled
  <2>7. PICK C : C = IF txn[s].dead THEN Rollback(S) ELSE Promote(S)
    OBVIOUS
  <2>8. Early(C) /\ Apart(C) /\ C \in Ses /\ C.scope = S.scope
    <3>1. /\ Upserted(S) = {} /\ S.rem = {} /\ ~S.joined
      BY <2>5 DEF Early, InFlight
    <3>2. CASE txn[s].dead
      <4>1. /\ C \in Ses /\ C.dirty = S.dirty \cup (Upserted(S) \cap S.cached)
            /\ C.deleted = S.deleted \cup (S.rem \ S.cached)
            /\ C.lost = (S.lost \/ S.joined) /\ C.scope = S.scope
            /\ C.unit = S.unit /\ C.raised = S.raised /\ ~InFlight(C) /\ Apart(C)
        BY <2>3, <2>5, <2>7, <3>2, RollbackParts
      <4> QED
        BY <2>5, <3>1, <4>1 DEF Early
    <3>3. CASE ~txn[s].dead
      <4>1. /\ C \in Ses /\ C.cached = S.cached /\ C.dirty = S.dirty
            /\ C.deleted = S.deleted /\ C.lost = S.lost /\ C.scope = S.scope
            /\ C.unit = S.unit /\ C.raised = S.raised /\ ~InFlight(C)
        BY <2>3, <2>7, <3>3, PromoteParts
      <4> QED
        BY <2>5, <4>1 DEF Early, Apart
    <3> QED
      BY <3>2, <3>3
  <2>9. PICK q : q = Goto(req[s], IF req[s].answer = "none" THEN "open" ELSE "answered")
    OBVIOUS
  <2>10. /\ q.answer = req[s].answer
         /\ q.pc = IF req[s].answer = "none" THEN "open" ELSE "answered"
    BY <1>2, <2>9
  <2>11. CASE txn[s].mode = "ro"
    <3>1. PICK D : D = DropSnapshotReads(C)
      OBVIOUS
    <3>2. Step(s, D, NoTxn, q)
      BY <1>5, <2>2, <2>7, <2>9, <2>11, <3>1 DEF ExitScope
    <3>3. /\ D.dirty = C.dirty /\ D.deleted = C.deleted /\ D.lost = C.lost
          /\ D.scope = C.scope /\ D.unit = C.unit /\ D.raised = C.raised
          /\ InFlight(D) = InFlight(C) /\ Apart(D)
      BY <2>8, <3>1, DropParts
    <3>4. Early(D)
      BY <2>8, <3>3 DEF Early
    <3>5. req[s].answer = "none"
      BY <2>1, <2>11, NoTxnParts DEF Settled
    <3>6. Stage(D, NoTxn, q)
      BY <2>3, <2>8, <2>10, <3>3, <3>4, <3>5 DEF Stage
    <3> QED
      BY <3>2, <3>3, <3>6, NoTxnParts, StepLedger DEF Booked, Agrees
  <2>12. CASE txn[s].mode # "ro"
    <3>1. Step(s, S, txn[s], q)
      BY <1>5, <2>2, <2>9, <2>12 DEF ExitScope
    <3>2. txn[s] = NoTxn
      BY <1>1, <2>1, <2>12 DEF Idle, Txn
    <3>3. Stage(S, NoTxn, q)
      BY <2>3, <2>5, <2>6, <2>10, <3>2 DEF Stage
    <3> QED
      BY <2>5, <3>1, <3>2, <3>3, NoTxnParts, StepLedger DEF Booked, Agrees
  <2> QED
    BY <2>11, <2>12
<1>6. CASE Open(s)
  <2>1. /\ Early(ses[s]) /\ txn[s] = NoTxn /\ ~ses[s].scope /\ req[s].answer = "none"
    BY <1>1, <1>6 DEF Open, At, Stage
  <2>2. "open" \in OpNames
    BY DEF OpNames
  <2>3. txn[s].mode # "ro"
    BY <2>1, NoTxnParts
  <2> QED
    BY <1>1, <1>6, <2>1, <2>2, <2>3, ReadLedger DEF Open
<1>7. CASE OpenUnit(s)
  <2>1. PICK r : r = Loaded(s) /\ r \in Outcome
    <3>1. From(ses[s], Loaded(s))
      BY LoadedFrom
    <3> QED
      BY <3>1 DEF From
  <2>2. /\ req[s].op.name = "open" /\ Ok(r) /\ At(s, "load")
    BY <1>7, <2>1 DEF OpenUnit, Loading
  <2>3. /\ r.S \in Ses /\ r.t \in Txn /\ Apart(r.S) /\ Agrees(r.S, r.t) /\ Idle(r.t)
        /\ Early(r.S) /\ ~r.S.scope /\ r.t.mode # "ro" /\ req[s].answer = "none"
    BY <2>1, <2>2, LoadedLedger DEF Opens
  <2>4. PICK U : U = Unit(r.S) /\ U \in Ses
    BY <2>3, UnitType
  <2>5. /\ U.cached = r.S.cached /\ U.dirty = r.S.dirty /\ U.deleted = r.S.deleted
        /\ U.ups = r.S.ups /\ U.rem = r.S.rem /\ U.raised = r.S.raised
        /\ U.joined = r.S.joined /\ U.scope = r.S.scope /\ U.unit \in {"ro", "rw"}
    BY <2>3, <2>4 DEF Unit, Ses
  <2>6. Apart(U) /\ Agrees(U, r.t) /\ ~InFlight(U) /\ ~U.raised
    BY <2>3, <2>5 DEF Apart, Agrees, AgreesBut, Pending, Early, InFlight, Upserted
  <2>7. PICK u : u = UnitEnter(r)
    OBVIOUS
  <2>8. /\ u.S \in Ses /\ Apart(u.S) /\ Agrees(u.S, u.t) /\ Idle(u.t)
        /\ Ok(u)
    <3>1. CASE r.t.mode = "none"
      <4>1. u = [r EXCEPT !.S = Unit(@)]
        BY <2>2, <2>7, <3>1 DEF UnitEnter
      <4>2. u.S = U /\ u.t = r.t /\ u.exc = r.exc
        BY <2>1, <2>4, <4>1 DEF Outcome
      <4> QED
        BY <2>2, <2>3, <2>4, <2>6, <4>2 DEF Ok
    <3>2. CASE r.t.mode = "rw"
      <4>0. PICK e : e = Done(U, r.t)
        OBVIOUS
      <4>1. e.S = U /\ e.t = r.t /\ e.exc = "none"
        BY <4>0 DEF Done
      <4>2. u = EnsureTxn(e)
        BY <2>2, <2>4, <2>7, <3>2, <4>0 DEF UnitEnter
      <4>3. Reclaim(e) = e
        BY <3>2, <4>1 DEF Reclaim
      <4>4. BeginWritable(e) = e
        BY <2>6, <3>2, <4>1, <4>3 DEF BeginWritable, Promoted
      <4>5. u = e
        BY <3>2, <4>1, <4>2, <4>3, <4>4 DEF EnsureTxn, Opened
      <4> QED
        BY <2>3, <2>4, <2>6, <4>1, <4>5 DEF Ok
    <3> QED
      BY <2>3, <3>1, <3>2 DEF Txn
  <2>9. Step(s, u.S, u.t, Goto(req[s], "body"))
    BY <1>7, <2>1, <2>7, <2>8 DEF OpenUnit
  <2>10. Roams(Goto(req[s], "body"))
    BY <1>2, <2>3 DEF Roams
  <2> QED
    BY <2>8, <2>9, <2>10, RoamsLedger DEF Step
<1> QED
  BY <1>3, <1>4, <1>5, <1>6, <1>7

LEMMA RereadLedger ==
    ASSUME TypeOK, LedgerInv, NEW s \in Sessions, BarrierAgain(s) \/ LoadFails(s)
    PROVE  LedgerInv'
<1>1. /\ ses[s] \in Ses /\ txn[s] \in Txn /\ req[s] \in Req
      /\ Apart(ses[s]) /\ Agrees(ses[s], txn[s]) /\ Idle(txn[s])
      /\ Stage(ses[s], txn[s], req[s])
  BY PartsLedger
<1>2. Asks(ses[s], txn[s], req[s])
  BY <1>1 DEF Stage, BarrierAgain, LoadFails, At
<1>3. CASE BarrierAgain(s)
  BY <1>1, <1>2, <1>3, BarrierLedger DEF BarrierAgain
<1>4. CASE LoadFails(s)
  <2>1. PICK r : r = Loaded(s) /\ r = Raise(ses[s], NoTxn, "db")
    BY <1>4, LoadedLedger DEF LoadFails
  <2>2. r.S = ses[s] /\ r.t = NoTxn
    BY <2>1 DEF Raise
  <2>3. Asks(r.S, r.t, req[s])
    BY <1>2, <2>2, NoTxnParts DEF Asks
  <2>4. PICK next \in Nat : Retries(s, r, req[s], next)
    <3>1. (IF req[s].tries < 2 THEN 2 ELSE 4) \in Nat
      OBVIOUS
    <3> QED
      BY <1>4, <2>1, <3>1 DEF LoadFails
  <2>5. Agrees(r.S, r.t) /\ Idle(r.t)
    BY <2>2, NoTxnParts DEF Agrees
  <2> QED
    BY <1>1, <2>2, <2>3, <2>4, <2>5, RetriesLedger
<1> QED
  BY <1>3, <1>4

LEMMA WalkerLedger ==
    ASSUME TypeOK, LedgerInv, NEW s \in Sessions, Walker(s) PROVE LedgerInv'
<1> DEFINE L == Loaded(s)
           G == Counted(s)
           q == req[s]
<1>1. /\ ses[s] \in Ses /\ txn[s] \in Txn /\ q \in Req /\ StoreReady
      /\ Tag(s) \in Tags /\ Root \in Ids /\ q.op.id \in Ids
      /\ Apart(ses[s]) /\ Agrees(ses[s], txn[s]) /\ Idle(txn[s])
      /\ Stage(ses[s], txn[s], q)
  BY PartsLedger DEF Req, Op
<1>2. At(s, "load") => /\ L.S \in Ses /\ Apart(L.S) /\ Agrees(L.S, L.t) /\ Idle(L.t)
                       /\ L.t \in Txn
  BY LoadedLedger
<1>3. G \in Req /\ G.answer = q.answer /\ G.pc = q.pc
  BY <1>1, CountedType DEF Counted, Req
<1>4. q.pc \in {"body", "load", "caught"} => q.answer = "none"
  BY <1>1 DEF Stage
<1>5. Goto(G, "body").pc = "body" /\ Goto(G, "body").answer = q.answer
  BY <1>3 DEF Goto, Req
<1> HIDE DEF L, G, q
<1>6. ASSUME NEW S, NEW t, NEW p, Step(s, S, t, p), Apart(S), Agrees(S, t), Idle(t),
             p.pc \in {"body", "caught", "handler", "flush"}, p.answer = q.answer,
             q.answer = "none"
      PROVE  LedgerInv'
  <2>1. Roams(p)
    BY <1>6 DEF Roams
  <2> QED
    BY <1>6, <2>1, RoamsLedger DEF Step
<1>7. CASE Get(s)
  <2>1. PICK name \in OpNames \ {"scope", "open"}, id \in Ids :
          Read(s, ses[s], name, id, {id}) /\ At(s, "body")
    BY <1>7, RequestAssumption DEF Get, OpNames, CanOp
  <2>2. q.answer = "none"
    BY <1>4, <2>1 DEF At, q
  <2> QED
    BY <1>1, <2>1, <2>2, ReadLedger DEF q
<1>8. CASE FindChild(s)
  <2>1. PICK name \in OpNames \ {"scope", "open"}, C \in SUBSET Ids :
          Read(s, ses[s], name, Root, C) /\ At(s, "body")
    BY <1>1, <1>8, MintType DEF FindChild, OpNames, CanOp
  <2>2. q.answer = "none"
    BY <1>4, <2>1 DEF At, q
  <2> QED
    BY <1>1, <2>1, <2>2, ReadLedger DEF q
<1>9. CASE ReadOp(s) \/ FoundOp(s)
  <2>1. At(s, "load") /\ q.pc = "load" /\ Step(s, L.S, L.t, Goto(G, "body"))
    BY <1>9 DEF ReadOp, FoundOp, Loading, At, L, G, q
  <2> QED
    BY <1>2, <1>4, <1>5, <1>6, <2>1
<1>10. CASE WriteOp(s) \/ MutateOp(s) \/ DeleteOp(s)
  <2>1. PICK S, p, W, D :
          /\ \/ S = Write(L.S, q.op.id, Tag(s))
             \/ S = Mutate(L.S, q.op.id, Tag(s))
             \/ S = DeleteAnchor(L.S, q.op.id)
          /\ \/ p = [G EXCEPT !.pc = "body", !.wset = W]
             \/ p = [G EXCEPT !.pc = "body", !.wset = W, !.dset = D]
          /\ Step(s, S, L.t, p)
    BY <1>10 DEF WriteOp, MutateOp, DeleteOp, L, G, q
  <2>2. At(s, "load") /\ q.pc = "load"
    BY <1>10 DEF WriteOp, MutateOp, DeleteOp, Finds, Loading, At, q
  <2>3. Apart(S) /\ Agrees(S, L.t)
    BY <1>1, <1>2, <2>1, <2>2, WriteFits
  <2>4. p.pc = "body" /\ p.answer = q.answer
    BY <1>3, <2>1 DEF Req
  <2>5. Idle(L.t) /\ q.answer = "none"
    BY <1>2, <1>4, <2>2
  <2> QED
    BY <1>6, <2>1, <2>3, <2>4, <2>5
<1>11. CASE FindOrCreateOp(s) \/ FindOrCountOp(s)
  <2>1. PICK id, S, p, W, U :
          /\ id \in Mint[s]
          /\ \/ S = Put(L.S, id, Tag(s))
             \/ S = Write(Put(L.S, id, Tag(s)), Root, Tag(s))
          /\ p = [G EXCEPT !.pc = "body", !.wset = W, !.used = U]
          /\ Step(s, S, L.t, p)
    BY <1>11 DEF FindOrCreateOp, FindOrCountOp, L, G, q
  <2>2. At(s, "load") /\ q.pc = "load"
    BY <1>11 DEF FindOrCreateOp, FindOrCountOp, Loading, At, q
  <2>3. id \in Ids
    BY <2>1, MintType
  <2>4. PICK P \in Ses : P = Put(L.S, id, Tag(s)) /\ Apart(P) /\ Agrees(P, L.t)
    BY <1>1, <1>2, <2>2, <2>3, WriteFits, WriteKeeps DEF Keeps
  <2>5. Apart(S) /\ Agrees(S, L.t)
    BY <1>1, <1>2, <2>1, <2>2, <2>4, WriteFits
  <2>6. p.pc = "body" /\ p.answer = q.answer
    BY <1>3, <2>1 DEF Req
  <2>7. Idle(L.t) /\ q.answer = "none"
    BY <1>2, <1>4, <2>2
  <2> QED
    BY <1>6, <2>1, <2>5, <2>6, <2>7
<1>12. CASE CreateOp(s)
  <2>1. PICK id, p, W, U :
          /\ id \in Mint[s] /\ p = [G EXCEPT !.wset = W, !.used = U]
          /\ Step(s, Put(ses[s], id, Tag(s)), txn[s], p)
    BY <1>12 DEF CreateOp, G, q
  <2>2. id \in Ids
    BY <2>1, MintType
  <2>3. p.pc = "body" /\ p.answer = q.answer /\ q.pc = "body"
    BY <1>3, <1>12, <2>1 DEF CreateOp, CanOp, At, q, Req
  <2>4. Apart(Put(ses[s], id, Tag(s))) /\ Agrees(Put(ses[s], id, Tag(s)), txn[s])
    BY <1>1, <2>2, WriteFits
  <2> QED
    BY <1>1, <1>4, <1>6, <2>1, <2>3, <2>4
<1>13. CASE EnqueueOp(s)
  <2>1. PICK r : r = Join(Done(ses[s], txn[s]), Tag(s))
    OBVIOUS
  <2>2. Fits(ses[s], r)
    <3>1. Fits(ses[s], Done(ses[s], txn[s]))
      BY <1>1, FitsSelf
    <3> QED
      BY <1>1, <2>1, <3>1, JoinFits
  <2>3. PICK p : /\ Step(s, r.S, r.t, p)
                 /\ \/ p = [G EXCEPT !.enqueued = TRUE]
                    \/ p = [G EXCEPT !.pc = "caught", !.exc = r.exc]
    BY <1>13, <2>1 DEF EnqueueOp, G
  <2>4. G.pc = "body" /\ q.pc = "body"
    BY <1>3, <1>13 DEF EnqueueOp, CanOp, At, q
  <2>5. p.answer = q.answer /\ p.pc \in {"body", "caught"}
    BY <1>3, <2>3, <2>4 DEF Req
  <2> QED
    BY <1>4, <1>6, <2>2, <2>3, <2>4, <2>5, FitsParts
<1>14. CASE OnCommitOp(s) \/ WalkEnds(s) \/ FailOp(s)
  <2>1. G.pc = "body" /\ q.pc = "body"
    BY <1>3, <1>14 DEF OnCommitOp, WalkEnds, FailOp, CanOp, At, q
  <2>2. PICK p : /\ Step(s, ses[s], txn[s], p)
                 /\ \/ p = [G EXCEPT !.effect = TRUE]
                    \/ p = [G EXCEPT !.pc = "flush", !.kind = "walk", !.tries = 0]
                    \/ p = [G EXCEPT !.pc = "handler", !.exc = "app"]
    BY <1>14 DEF OnCommitOp, WalkEnds, FailOp, Throw, G
  <2>3. p.pc \in {"body", "flush", "handler"} /\ p.answer = q.answer
    BY <1>3, <2>1, <2>2 DEF Req
  <2> QED
    BY <1>1, <1>4, <1>6, <2>1, <2>2, <2>3
<1>15. CASE Propagate(s) \/ Swallow(s) \/ Return(s)
  <2>1. PICK p : /\ Step(s, ses[s], txn[s], p)
                 /\ \/ p = [q EXCEPT !.pc = "handler"]
                    \/ p = [q EXCEPT !.pc = "body", !.exc = "none"]
                    \/ p = [q EXCEPT !.pc = "flush", !.kind = "final", !.tries = 0]
    BY <1>15 DEF Propagate, Swallow, Return, Goto, q
  <2>2. q.pc \in {"caught", "body"}
    BY <1>15 DEF Propagate, Swallow, Return, At, q
  <2>3. p.pc \in {"body", "flush", "handler"} /\ p.answer = q.answer
    BY <1>1, <2>1 DEF Req
  <2> QED
    BY <1>1, <1>4, <1>6, <2>1, <2>2, <2>3
<1> QED
  BY <1>7, <1>8, <1>9, <1>10, <1>11, <1>12, <1>13, <1>14, <1>15 DEF Walker
-----------------------------------------------------------------------------
(* Commits                                                                 *)

(* A commit that fails gives its transaction up, while there is no answer. *)
LEMMA CommitFailsLedger ==
    ASSUME TypeOK, LedgerInv, NEW s \in Sessions, NEW S \in Ses, Apart(S), NEW exc,
           req[s].answer = "none", CommitFails(s, S, exc)
    PROVE  LedgerInv'
<1>1. req[s] \in Req
  BY PartsLedger
<1>2. PICK p : p = IF exc = "db" THEN Replay(S, req[s].tries >= ReplayMax)
                   ELSE Raise(Rollback(S), NoTxn, exc)
  OBVIOUS
<1>3. p.t = NoTxn /\ Apart(p.S)
  <2>1. CASE exc = "db"
    <3> DEFINE b == req[s].tries >= ReplayMax
    <3>1. b \in BOOLEAN
      OBVIOUS
    <3>2. p = Replay(S, b)
      BY <1>2, <2>1
    <3> HIDE DEF b
    <3> QED
      BY <3>1, <3>2, ReplayParts
  <2>2. CASE exc # "db"
    <3>1. Apart(Rollback(S))
      BY RollbackParts
    <3> QED
      BY <1>2, <2>2, <3>1 DEF Raise
  <2> QED
    BY <2>1, <2>2
<1>4. Agrees(p.S, p.t) /\ Idle(p.t)
  BY <1>3, NoTxnParts DEF Agrees
<1>5. PICK q : /\ Becomes(s, p.S, p.t, q)
               /\ \/ \E n : q = [req[s] EXCEPT !.pc = "flush", !.tries = n]
                  \/ q = Settle(req[s], p.exc)
  BY <1>2 DEF CommitFails
<1>6. Roams(q)
  <2>1. CASE \E n : q = [req[s] EXCEPT !.pc = "flush", !.tries = n]
    BY <1>1, <2>1 DEF Req, Roams
  <2>2. CASE q = Goto(req[s], "body") \/ q = Goto(req[s], "leave")
    BY <1>1, <2>2 DEF Goto, Req, Roams
  <2>3. CASE q = Throw(req[s], p.exc)
    BY <1>1, <2>3 DEF Throw, Req, Roams
  <2> QED
    BY <1>5, <2>1, <2>2, <2>3 DEF Settle
<1> QED
  BY <1>3, <1>4, <1>5, <1>6, RoamsLedger

(* Closing a session that has nothing to write writes nothing.             *)
LEMMA SettledFlush ==
    ASSUME NEW S \in Ses, NEW t, Settled(S, t), Apart(S), NEW s, NEW full \in BOOLEAN
    PROVE  LET f == Flush(s, Done(S, t), full)
           IN  Ok(f) /\ f.t = t /\ Settled(f.S, t) /\ Apart(f.S)
<1>1. /\ S.dirty \cap S.cached = {} /\ Unlike(S) = {} /\ S.deleted = {}
      /\ ~InFlight(S) /\ ~S.lost /\ t = NoTxn
  BY QuietParts DEF Settled
<1>2. PICK U : U = Unflushed(S, full) /\ U = {}
  BY <1>1 DEF Unflushed, Unlike
<1>3. PICK e : e = Done(S, t)
  OBVIOUS
<1>4. e.S = S /\ e.t = t /\ Ok(e)
  BY <1>3 DEF Done, Ok
<1>5. Reclaim(e) = e
  BY <1>1, <1>4 DEF Reclaim
<1>6. Writable(e, U) = e /\ FlushRows(s, e, U) = e /\ FlushDeletes(s, e) = e
  BY <1>1, <1>2, <1>4 DEF Writable, FlushRows, FlushDeletes
<1>7. PICK C : C = [S EXCEPT !.dirty = {}]
  OBVIOUS
<1>8. FlushThe(s, e, U) = Done(C, t)
  BY <1>4, <1>6, <1>7 DEF FlushThe, Flushed
<1>9. PICK f : f = Flush(s, e, full) /\ f = Done(C, t)
  BY <1>2, <1>4, <1>5, <1>8 DEF Flush, FlushLocked
<1>10. f.S = C /\ f.t = t /\ Ok(f)
  BY <1>9 DEF Done, Ok
<1>11. /\ C.cached = S.cached /\ C.mem = S.mem /\ C.dirty = {} /\ C.deleted = S.deleted
       /\ C.lost = S.lost /\ C.known = S.known /\ C.ups = S.ups /\ C.rem = S.rem
       /\ C.joined = S.joined
  BY <1>7 DEF Ses
<1>12. Unlike(C) = Unlike(S) /\ InFlight(C) = InFlight(S) /\ Apart(C)
  BY <1>11 DEF Unlike, Current, InFlight, Upserted, Apart
<1>13. Quiet(C)
  BY <1>1, <1>11, <1>12, QuietParts
<1> QED
  BY <1>1, <1>3, <1>9, <1>10, <1>11, <1>12, <1>13 DEF Settled

LEMMA AfterCommitLedger ==
    ASSUME TypeOK, LedgerInv, NEW s \in Sessions, At(s, "commit"), AfterCommit(s)
    PROVE  LedgerInv'
<1>1. /\ ses[s] \in Ses /\ req[s] \in Req /\ Apart(ses[s])
      /\ Quiet(ses[s]) /\ ~ses[s].lost
      /\ req[s].answer # "none" => req[s].kind = "close"
  BY PartsLedger DEF Stage, At
<1>2. /\ ses[s].dirty \cap ses[s].cached = {} /\ Unlike(ses[s]) = {}
      /\ ses[s].deleted = {}
  BY <1>1, QuietParts
<1>3. PICK P : P = Promote(ses[s])
  OBVIOUS
<1>4. /\ P \in Ses /\ P.cached = ses[s].cached /\ P.dirty = ses[s].dirty
      /\ P.deleted = ses[s].deleted /\ P.lost = ses[s].lost
      /\ ~InFlight(P) /\ Unlike(P) = Unlike(ses[s])
  BY <1>1, <1>3, PromoteParts
<1>5. PICK S : S = LeaveQueue(P)
  OBVIOUS
<1>6. PICK R : R = IF InFlight(ses[s]) THEN RegisterWriters(S) ELSE S
  OBVIOUS
<1>7. /\ S \in Ses /\ S.cached = P.cached /\ S.dirty = P.dirty /\ S.deleted = P.deleted
      /\ S.lost = P.lost /\ S.mem = P.mem /\ S.known = P.known /\ S.ups = P.ups
      /\ S.rem = P.rem /\ S.joined = P.joined
  BY <1>4, <1>5, LeaveQueueType DEF LeaveQueue, Ses
<1>8. /\ R.cached = P.cached /\ R.dirty = P.dirty /\ R.deleted = P.deleted
      /\ R.lost = P.lost /\ R.mem = P.mem /\ R.known = P.known /\ R.ups = P.ups
      /\ R.rem = P.rem /\ R.joined = P.joined
  BY <1>6, <1>7 DEF RegisterWriters, Ses
<1>9. Unlike(R) = Unlike(P) /\ InFlight(R) = InFlight(P)
  BY <1>8 DEF Unlike, Current, InFlight, Upserted
<1>10. Settled(R, NoTxn) /\ Apart(R)
  <2>1. Quiet(R)
    BY <1>2, <1>4, <1>8, <1>9, QuietParts
  <2> QED
    BY <1>1, <1>4, <1>8, <1>9, <2>1 DEF Settled, Apart
<1>11. PICK G : G = Goto(req[s], AfterKind[req[s].kind])
  OBVIOUS
<1>12. /\ G \in Req /\ G.pc \in {"body", "effects", "exit", "leave"}
       /\ G.answer = req[s].answer
       /\ req[s].kind = "close" => G.pc = "leave"
  <2>1. /\ AfterKind[req[s].kind] \in {"body", "effects", "exit", "leave"}
        /\ AfterKind["close"] = "leave"
    BY <1>1 DEF Req, Kinds, AfterKind
  <2> QED
    BY <1>1, <1>11, <2>1 DEF Goto, Req, Pcs
<1>13. PICK c, w, v : Becomes(s, R, NoTxn, [G EXCEPT !.committed = c, !.won = w, !.saved = v])
  BY <1>3, <1>5, <1>6, <1>11 DEF AfterCommit
<1>14. PICK q : q = [G EXCEPT !.committed = c, !.won = w, !.saved = v]
  OBVIOUS
<1>15. q.pc = G.pc /\ q.answer = G.answer
  BY <1>12, <1>14 DEF Req
<1>16. Stage(R, NoTxn, q)
  BY <1>1, <1>10, <1>12, <1>15 DEF Stage
<1>17. Booked(R, NoTxn, q)
  BY <1>10, <1>16, NoTxnParts DEF Booked, Agrees
<1> QED
  BY <1>13, <1>14, <1>17, BecomesLedger

LEMMA CommitLedger ==
    ASSUME TypeOK, LedgerInv, NEW s \in Sessions,
           FlushAll(s) \/ SqlCommit(s) \/ SqlCommitFails(s) \/ CommitUnanswered(s)
    PROVE  LedgerInv'
<1>1. /\ ses[s] \in Ses /\ txn[s] \in Txn /\ req[s] \in Req /\ StoreReady
      /\ Apart(ses[s]) /\ Agrees(ses[s], txn[s]) /\ Idle(txn[s])
      /\ Stage(ses[s], txn[s], req[s])
  BY PartsLedger
<1>2. CASE FlushAll(s)
  <2>1. /\ req[s].pc = "flush"
        /\ req[s].answer # "none" => Settled(ses[s], txn[s]) /\ req[s].kind = "close"
    BY <1>1, <1>2 DEF FlushAll, At, Stage
  <2>2. PICK q : q = Goto(req[s], "commit")
    OBVIOUS
  <2>3. q.pc = "commit" /\ q.answer = req[s].answer /\ q.kind = req[s].kind
    BY <1>1, <2>2 DEF Goto, Req
  <2>4. PICK f : f = Flush(s, Done(ses[s], txn[s]), TRUE)
    OBVIOUS
  <2>5. CASE req[s].answer # "none"
    <3>1. /\ Ok(f) /\ f.t = txn[s] /\ Settled(f.S, txn[s]) /\ Apart(f.S)
          /\ ~ses[s].lost /\ txn[s] = NoTxn
      <4>1. Settled(ses[s], txn[s])
        BY <2>1, <2>5
      <4>2. ~ses[s].lost /\ txn[s] = NoTxn
        BY <4>1 DEF Settled
      <4>3. Ok(f) /\ f.t = txn[s] /\ Settled(f.S, txn[s]) /\ Apart(f.S)
        BY <1>1, <2>4, <4>1, SettledFlush
      <4> QED
        BY <4>2, <4>3
    <3>2. Becomes(s, f.S, f.t, q)
      BY <1>2, <2>2, <2>4, <3>1 DEF FlushAll, Ok
    <3>3. Quiet(f.S) /\ ~f.S.lost /\ ~InFlight(f.S)
      BY <3>1 DEF Settled
    <3>4. Exact(f.S, f.t) /\ Kept(f.S, f.t) /\ Agrees(f.S, f.t) /\ Idle(f.t)
      BY <3>1, <3>3, NoTxnParts DEF Exact, Kept, Agrees
    <3>5. Stage(f.S, f.t, q)
      BY <2>1, <2>3, <2>5, <3>1, <3>3, <3>4 DEF Stage
    <3> QED
      BY <3>1, <3>2, <3>4, <3>5, BecomesLedger DEF Booked
  <2>6. CASE req[s].answer = "none" /\ ses[s].lost
    <3>1. PICK r : r = Raise(ses[s], txn[s], "lost")
      OBVIOUS
    <3>2. r.S = ses[s] /\ r.exc = "lost"
      BY <3>1 DEF Raise
    <3>3. CommitFails(s, r.S, r.exc)
      BY <1>2, <2>6, <3>1, <3>2 DEF FlushAll
    <3> QED
      BY <1>1, <2>6, <3>2, <3>3, CommitFailsLedger
  <2>7. CASE req[s].answer = "none" /\ ~ses[s].lost
    <3>1. Fits(ses[s], Done(ses[s], txn[s]))
      BY <1>1, FitsSelf
    <3>2. Done(ses[s], txn[s]).S = ses[s]
      BY DEF Done
    <3>3. /\ From(ses[s], f) /\ Apart(f.S) /\ Idle(f.t)
          /\ Ok(f) => Agrees(f.S, f.t)
          /\ Ok(f) => /\ f.S.dirty = {} /\ f.S.deleted = {}
                      /\ Exact(f.S, f.t) /\ Kept(f.S, f.t)
                      /\ ~ses[s].lost => ~f.S.lost
                      /\ Unlike(f.S) = {}
      BY <1>1, <2>4, <3>1, <3>2, FlushFits
    <3>4. CASE Ok(f)
      <4>1. Becomes(s, f.S, f.t, q)
        BY <1>2, <2>2, <2>4, <2>7, <3>4 DEF FlushAll, Ok
      <4>2. Quiet(f.S)
        BY <3>3, <3>4, QuietParts
      <4>3. Stage(f.S, f.t, q)
        BY <2>3, <2>7, <3>3, <3>4, <4>2 DEF Stage
      <4> QED
        BY <3>3, <3>4, <4>1, <4>3, BecomesLedger DEF Booked
    <3>5. CASE ~Ok(f)
      <4>1. CommitFails(s, f.S, f.exc)
        BY <1>2, <2>4, <2>7, <3>5 DEF FlushAll, Ok
      <4>2. f.S \in Ses
        BY <3>3, FromParts
      <4> QED
        BY <2>7, <3>3, <4>1, <4>2, CommitFailsLedger
    <3> QED
      BY <3>4, <3>5
  <2> QED
    BY <2>5, <2>6, <2>7
<1>3. CASE SqlCommit(s)
  BY <1>3, AfterCommitLedger DEF SqlCommit, CanCommit
<1>4. CASE SqlCommitFails(s) \/ CommitUnanswered(s)
  <2>1. At(s, "commit") /\ CommitFails(s, ses[s], "db")
    BY <1>4 DEF SqlCommitFails, CommitUnanswered, CanCommit
  <2>2. req[s].answer = "none"
    <3>1. SUFFICES ASSUME req[s].answer # "none" PROVE FALSE
      BY <1>1 DEF Req
    <3>2. txn[s] = NoTxn
      BY <1>1, <3>1 DEF Stage, Settled
    <3> QED
      BY <1>4, <2>1, <3>2, NoTxnParts DEF SqlCommitFails, CommitUnanswered, CanCommit
  <2> QED
    BY <1>1, <2>1, <2>2, CommitFailsLedger
<1> QED
  BY <1>2, <1>3, <1>4

-----------------------------------------------------------------------------
(* Effects, the conflict loop and the end                                  *)

LEMMA EffectLedger ==
    ASSUME TypeOK, LedgerInv, NEW s \in Sessions,
           \/ NoEffect(s) \/ PlainEffect(s) \/ WritingEffect(s) \/ EffectWrites(s)
    PROVE  LedgerInv'
<1>1. /\ ses[s] \in Ses /\ txn[s] \in Txn /\ req[s] \in Req /\ Tag(s) \in Tags
      /\ Root \in Ids /\ {Root} \in SUBSET Ids
      /\ Apart(ses[s]) /\ Agrees(ses[s], txn[s]) /\ Idle(txn[s])
      /\ Stage(ses[s], txn[s], req[s])
  BY PartsLedger
<1>2. PICK F : F = Fired(s)
  OBVIOUS
<1>3. F \in Req /\ F.answer = req[s].answer /\ F.pc = req[s].pc
  BY <1>1, <1>2, FiredType DEF Fired, Req
<1>4. req[s].pc \in {"effects", "load"} => req[s].answer = "none"
  BY <1>1 DEF Stage
<1>5. CASE NoEffect(s)
  <2>1. PICK q : /\ Step(s, ses[s], txn[s], q)
                 /\ q = [req[s] EXCEPT !.pc = "flush", !.kind = "outer", !.tries = 0]
    BY <1>5 DEF NoEffect
  <2>2. q.pc = "flush" /\ q.answer = req[s].answer
    BY <1>1, <2>1 DEF Req
  <2>3. Roams(q)
    BY <1>4, <1>5, <2>2 DEF Roams, NoEffect, At
  <2> QED
    BY <1>1, <2>1, <2>3, RoamsLedger DEF Step
<1>6. CASE PlainEffect(s)
  <2>1. Roams(F)
    BY <1>3, <1>4, <1>6 DEF PlainEffect, At, Roams
  <2>2. Step(s, ses[s], txn[s], F)
    BY <1>2, <1>6 DEF PlainEffect
  <2> QED
    BY <1>1, <2>1, <2>2, RoamsLedger DEF Step
<1>7. CASE WritingEffect(s)
  <2>1. Read(s, ses[s], "effect", Root, {Root}) /\ req[s].answer = "none"
    BY <1>4, <1>7 DEF WritingEffect, At
  <2>2. "effect" \in OpNames
    BY DEF OpNames
  <2> QED
    BY <1>1, <2>1, <2>2, ReadLedger
<1>8. CASE EffectWrites(s)
  <2>1. At(s, "load")
    BY <1>8 DEF EffectWrites, Finds, Loading
  <2>2. PICK r : r = Loaded(s)
    OBVIOUS
  <2>3. r.S \in Ses /\ r.t \in Txn /\ Apart(r.S) /\ Agrees(r.S, r.t) /\ Idle(r.t)
    BY <2>1, <2>2, LoadedLedger
  <2>4. PICK W : W = Write(r.S, Root, Tag(s))
    OBVIOUS
  <2>5. Apart(W) /\ Agrees(W, r.t)
    BY <1>1, <2>3, <2>4, WriteFits
  <2>6. PICK q, X : /\ Step(s, W, r.t, q)
                    /\ q = [F EXCEPT !.pc = "effects", !.wset = X]
    BY <1>2, <1>8, <2>2, <2>4 DEF EffectWrites
  <2>7. q.pc = "effects" /\ q.answer = req[s].answer
    BY <1>3, <2>6 DEF Req
  <2>8. Roams(q)
    BY <1>4, <2>1, <2>7 DEF Roams, At
  <2> QED
    BY <2>3, <2>5, <2>6, <2>8, RoamsLedger DEF Step
<1> QED
  BY <1>5, <1>6, <1>7, <1>8

LEMMA ReplyLedger ==
    ASSUME TypeOK, LedgerInv, NEW s \in Sessions, NEW a, Reply(s, a) PROVE LedgerInv'
<1>1. ses[s] \in Ses /\ req[s] \in Req
  BY PartsLedger
<1>2. PICK B : B = Abort(ses[s])
  OBVIOUS
<1>3. B \in Ses /\ B.cached = {} /\ B.deleted = {} /\ ~B.lost /\ ~InFlight(B)
  BY <1>1, <1>2, AbortParts
<1>4. PICK A : A = [B EXCEPT !.unit = "none", !.raised = FALSE]
  OBVIOUS
<1>5. /\ A.cached = {} /\ A.deleted = {} /\ ~A.lost /\ A.ups = B.ups
      /\ A.rem = B.rem /\ A.joined = B.joined
  BY <1>3, <1>4 DEF Ses
<1>6. Settled(A, NoTxn) /\ Apart(A)
  BY <1>3, <1>5, Forgotten
<1>7. PICK q : /\ Step(s, A, NoTxn, q)
               /\ q = [req[s] EXCEPT !.pc = "close", !.answer = a, !.effect = FALSE]
  BY <1>2, <1>4 DEF Reply
<1>8. q.pc = "close"
  BY <1>1, <1>7 DEF Req
<1> QED
  BY <1>6, <1>7, <1>8, SettledBooked, StepLedger

LEMMA RerunLedger ==
    ASSUME TypeOK, LedgerInv, NEW s \in Sessions, NEW S \in Ses,
           NEW pc \in {"turn", "reload"}, NEW n, At(s, "handler"), Rerun(s, S, pc, n)
    PROVE  LedgerInv'
<1>1. req[s] \in Req /\ req[s].answer = "none"
  BY PartsLedger DEF Stage, At
<1>2. PICK R \in Ses : R = Reenter(S)
  BY UnitType DEF Reenter
<1>3. PICK A : A = Abort(R)
  OBVIOUS
<1>4. A.cached = {} /\ Upserted(A) = {} /\ A \in Ses
  BY <1>2, <1>3, AbortParts
<1>5. PICK q : q = [req[s] EXCEPT !.pc = pc, !.exc = "none", !.attempt = n,
                !.roRetries = @ + (IF req[s].exc = "ro" THEN 1 ELSE 0),
                !.committed = FALSE, !.effect = FALSE, !.ops = 0,
                !.run = @ + 1, !.wset = {}, !.dset = {},
                !.enqueued = FALSE, !.saved = FALSE]
  OBVIOUS
<1>6. Step(s, A, NoTxn, q)
  BY <1>2, <1>3, <1>5 DEF Rerun
<1>7. q.pc = pc /\ q.answer = "none"
  BY <1>1, <1>5 DEF Req
<1>8. Stage(A, NoTxn, q) /\ Apart(A)
  BY <1>4, <1>7 DEF Stage, Apart
<1> QED
  BY <1>6, <1>8, NoTxnParts, StepLedger DEF Booked, Agrees

LEMMA HandlerLedger ==
    ASSUME TypeOK, LedgerInv, NEW s \in Sessions,
           \/ UnitExit(s) \/ HandleReadOnlyRetry(s) \/ HandleConflict(s)
           \/ HandleError(s) \/ HandleAfterCommit(s)
    PROVE  LedgerInv'
<1>1. /\ ses[s] \in Ses /\ req[s] \in Req /\ Apart(ses[s])
      /\ Stage(ses[s], txn[s], req[s])
  BY PartsLedger
<1>2. CASE UnitExit(s)
  <2>1. Settled(ses[s], txn[s]) /\ req[s].answer = "none"
    BY <1>1, <1>2 DEF UnitExit, At, Stage
  <2>2. PICK S : S = [ses[s] EXCEPT !.unit = "none", !.raised = FALSE]
    OBVIOUS
  <2>3. /\ S \in Ses /\ S.cached = ses[s].cached /\ S.dirty = ses[s].dirty
        /\ S.deleted = ses[s].deleted /\ S.lost = ses[s].lost /\ S.mem = ses[s].mem
        /\ S.known = ses[s].known /\ S.ups = ses[s].ups /\ S.rem = ses[s].rem
        /\ S.joined = ses[s].joined
    BY <1>1, <2>2 DEF Ses
  <2>4. CASE ses[s].raised
    <3>1. PICK q : Step(s, Abort(S), NoTxn, q) /\ q = Throw(req[s], "ro")
      BY <1>2, <2>2, <2>4 DEF UnitExit
    <3>2. Roams(q)
      BY <1>1, <2>1, <3>1 DEF Roams, Throw, Req
    <3>3. Apart(Abort(S))
      <4>1. Abort(S).cached = {}
        BY <2>3, AbortParts
      <4> QED
        BY <4>1 DEF Apart
    <3> QED
      BY <3>1, <3>2, <3>3, NoTxnParts, RoamsLedger DEF Step, Agrees
  <2>5. CASE ~ses[s].raised
    <3>1. PICK q : /\ Step(s, S, txn[s], q)
                   /\ q = [req[s] EXCEPT !.pc = "close", !.answer = "ok"]
      BY <1>2, <2>2, <2>5 DEF UnitExit
    <3>2. q.pc = "close"
      BY <1>1, <3>1 DEF Req
    <3>3. Unlike(S) = Unlike(ses[s]) /\ InFlight(S) = InFlight(ses[s]) /\ Apart(S)
      BY <1>1, <2>3 DEF Unlike, Current, InFlight, Upserted, Apart
    <3>4. Quiet(S)
      BY <2>1, <2>3, <3>3, QuietParts DEF Settled
    <3>5. Settled(S, txn[s])
      BY <2>1, <2>3, <3>3, <3>4 DEF Settled
    <3> QED
      BY <3>1, <3>2, <3>3, <3>5, SettledBooked, StepLedger
  <2> QED
    BY <2>4, <2>5
<1>3. CASE HandleReadOnlyRetry(s)
  <2>1. [ses[s] EXCEPT !.raised = FALSE] \in Ses
    BY <1>1 DEF Ses
  <2> QED
    BY <1>3, <2>1, ReplyLedger, RerunLedger DEF HandleReadOnlyRetry
<1>4. CASE HandleConflict(s)
  BY <1>1, <1>4, ReplyLedger, RerunLedger DEF HandleConflict
<1>5. CASE HandleError(s)
  BY <1>1, <1>5, ReplyLedger, RerunLedger DEF HandleError
<1>6. CASE HandleAfterCommit(s)
  BY <1>6, ReplyLedger DEF HandleAfterCommit
<1> QED
  BY <1>2, <1>3, <1>4, <1>5, <1>6
LEMMA RestLedger ==
    ASSUME TypeOK, LedgerInv, NEW s \in Sessions,
           \/ NoTurn(s) \/ LeavePlace(s) \/ TakeTurn(s) \/ TurnTimesOut(s) \/ Pin(s)
           \/ Reload(s) \/ Reloaded(s) \/ CloseSession(s) \/ LeaveSession(s)
    PROVE  LedgerInv'
<1>1. /\ ses[s] \in Ses /\ txn[s] \in Txn /\ req[s] \in Req /\ StoreReady
      /\ Root \in Ids /\ {Root} \in SUBSET Ids
      /\ Apart(ses[s]) /\ Agrees(ses[s], txn[s]) /\ Idle(txn[s])
      /\ Stage(ses[s], txn[s], req[s])
  BY PartsLedger
<1>2. \A pc : Goto(req[s], pc).pc = pc /\ Goto(req[s], pc).answer = req[s].answer
  BY <1>1 DEF Goto, Req
<1>3. req[s].pc \in {"turn", "pin", "reload", "load"} => req[s].answer = "none"
  BY <1>1 DEF Stage
<1>4. req[s].pc \in {"turn", "pin"} => Upserted(ses[s]) = {}
  BY <1>1 DEF Stage
<1>5. CASE NoTurn(s)
  <2>1. Becomes(s, ses[s], txn[s], Goto(req[s], "reload"))
    BY <1>5 DEF NoTurn, Step
  <2>2. Roams(Goto(req[s], "reload"))
    BY <1>2, <1>3, <1>5 DEF NoTurn, At, Roams
  <2> QED
    BY <1>1, <2>1, <2>2, RoamsLedger
<1>6. CASE LeavePlace(s) \/ TakeTurn(s) \/ TurnTimesOut(s)
  <2>1. PICK S, q :
          /\ Becomes(s, S, txn[s], q)
          /\ (\E W : S = [ses[s] EXCEPT !.queued = W]) \/ S = [ses[s] EXCEPT !.contended = {}]
          /\ \/ q = req[s]
             \/ q = Goto(req[s], "pin") \/ q = Goto(req[s], "reload")
    BY <1>6 DEF LeavePlace, TakeTurn, TurnTimesOut
  <2>2. /\ S.cached = ses[s].cached /\ S.dirty = ses[s].dirty /\ S.deleted = ses[s].deleted
        /\ S.ups = ses[s].ups /\ S.rem = ses[s].rem
    BY <1>1, <2>1 DEF Ses
  <2>3. req[s].pc = "turn"
    BY <1>6 DEF LeavePlace, TakeTurn, TurnTimesOut, At
  <2>4. Apart(S) /\ Pending(S) = Pending(ses[s]) /\ Upserted(S) = {}
    BY <1>1, <1>4, <2>2, <2>3 DEF Apart, Pending, Upserted
  <2>5. Agrees(S, txn[s])
    BY <1>1, <2>2, <2>4, MoreAgrees DEF Agrees
  <2>6. q.pc \in {"turn", "pin", "reload"} /\ q.answer = "none"
    BY <1>2, <1>3, <2>1, <2>3
  <2>7. Stage(S, txn[s], q)
    BY <2>4, <2>6 DEF Stage
  <2> QED
    BY <1>1, <2>1, <2>4, <2>5, <2>7, BecomesLedger DEF Booked
<1>7. CASE Pin(s)
  <2>1. PICK b : b = Begin("rw") /\ b.mode = "rw" /\ b.wrote = {}
    BY <1>1, BeginParts
  <2>2. PICK t : /\ Step(s, ses[s], t, Goto(req[s], "reload"))
                 /\ t = NoTxn \/ t = LockRows(b, ses[s].queued)
    BY <1>7, <2>1 DEF Pin
  <2>3. Agrees(ses[s], t) /\ Idle(t)
    <3>1. CASE t = NoTxn
      BY <3>1, NoTxnParts DEF Agrees
    <3>2. CASE t = LockRows(b, ses[s].queued)
      <4>1. b \in Txn
        BY <1>1, <2>1, BeginParts
      <4>2. t.mode = "rw" /\ t.wrote = {}
        BY <2>1, <3>2, <4>1 DEF LockRows, Reading, Txn
      <4>3. Upserted(ses[s]) = {}
        BY <1>4, <1>7 DEF Pin, At
      <4> QED
        BY <4>2, <4>3, NothingWritten DEF Agrees, Idle
    <3> QED
      BY <2>2, <3>1, <3>2
  <2>4. Roams(Goto(req[s], "reload"))
    BY <1>2, <1>3, <1>7 DEF Pin, At, Roams
  <2> QED
    BY <1>1, <2>2, <2>3, <2>4, RoamsLedger DEF Step
<1>8. CASE Reload(s)
  <2>1. Read(s, ses[s], "reload", Root, {Root}) /\ req[s].answer = "none"
    BY <1>3, <1>8 DEF Reload, At
  <2>2. "reload" \in OpNames
    BY DEF OpNames
  <2> QED
    BY <1>1, <2>1, <2>2, ReadLedger
<1>9. CASE Reloaded(s)
  <2>1. PICK r : r = Loaded(s)
    OBVIOUS
  <2>2. At(s, "load") /\ Step(s, r.S, r.t, Goto(req[s], "body"))
    BY <1>9, <2>1 DEF Reloaded, Loading
  <2>3. r.S \in Ses /\ r.t \in Txn /\ Apart(r.S) /\ Agrees(r.S, r.t) /\ Idle(r.t)
    BY <2>1, <2>2, LoadedLedger
  <2>4. Roams(Goto(req[s], "body"))
    BY <1>2, <1>3, <2>2 DEF At, Roams
  <2> QED
    BY <2>2, <2>3, <2>4, RoamsLedger DEF Step
<1>10. CASE CloseSession(s)
  <2>1. PICK q : /\ Step(s, ses[s], txn[s], q)
                 /\ q = [req[s] EXCEPT !.pc = "flush", !.kind = "close", !.tries = 0]
    BY <1>10 DEF CloseSession
  <2>2. q.pc = "flush" /\ q.kind = "close" /\ q.answer = req[s].answer
    BY <1>1, <2>1 DEF Req
  <2>3. Stage(ses[s], txn[s], q)
    BY <1>1, <2>2 DEF Stage
  <2> QED
    BY <1>1, <2>1, <2>3, StepLedger DEF Booked
<1>11. CASE LeaveSession(s)
  <2>1. PICK S : S = NewSession /\ S \in Ses
    BY NewSessionType
  <2>2. /\ S.cached = {} /\ S.deleted = {} /\ ~S.lost /\ S.ups = NoRows
        /\ S.rem = {} /\ S.joined = FALSE
    BY <2>1 DEF NewSession
  <2>3. ~InFlight(S)
    BY <2>2, EmptyLedger
  <2>4. Settled(S, NoTxn) /\ Apart(S)
    BY <2>1, <2>2, <2>3, Forgotten
  <2>5. Becomes(s, S, NoTxn, Goto(req[s], "answered"))
    BY <1>11, <2>1 DEF LeaveSession
  <2>6. Booked(S, NoTxn, Goto(req[s], "answered"))
    BY <1>2, <2>4, SettledBooked
  <2> QED
    BY <2>5, <2>6, BecomesLedger
<1> QED
  BY <1>5, <1>6, <1>7, <1>8, <1>9, <1>10, <1>11

(* A connection that breaks leaves nothing to agree with.                  *)
LEMMA ConnectionLedger ==
    ASSUME TypeOK, LedgerInv, NEW s \in Sessions, ConnectionLost(s)
    PROVE  LedgerInv'
<1>1. /\ ses[s] \in Ses /\ txn[s] \in Txn /\ Apart(ses[s]) /\ Idle(txn[s])
      /\ Stage(ses[s], txn[s], req[s])
  BY PartsLedger
<1>2. /\ ses \in [Sessions -> Ses] /\ req \in [Sessions -> Req]
      /\ ses' = ses /\ req' = req
  BY DEF TypeOK, ConnectionLost
<1>3. PICK t : /\ txn' = [txn EXCEPT ![s] = t]
               /\ t = IF txn[s].mode = "none" THEN NoTxn
                      ELSE [NoTxn EXCEPT !.mode = txn[s].mode, !.dead = TRUE]
  <2>1. txn \in [Sessions -> Txn]
    BY DEF TypeOK, StoreTypeOK
  <2> QED
    BY <2>1 DEF ConnectionLost, DropConnection
<1>4. Becomes(s, ses[s], t, req[s])
  BY <1>2, <1>3 DEF Becomes
<1>5. CASE txn[s].mode = "none"
  <2>1. t = NoTxn /\ txn[s] = NoTxn
    BY <1>1, <1>3, <1>5 DEF Idle
  <2>2. Booked(ses[s], t, req[s])
    BY <1>1, <2>1, NoTxnParts DEF Booked, Agrees
  <2> QED
    BY <1>4, <2>2, BecomesLedger
<1>6. CASE txn[s].mode # "none"
  <2>1. t.mode = txn[s].mode /\ t.dead
    BY <1>3, <1>6 DEF NoTxn
  <2>2. txn[s] # NoTxn
    BY <1>6, NoTxnParts
  <2>3. Agrees(ses[s], t) /\ Exact(ses[s], t) /\ Idle(t) /\ Kept(ses[s], t)
    BY <1>6, <2>1, NotOpen DEF Agrees, Exact, Idle, Kept
  <2>4. Stage(ses[s], t, req[s])
    BY <1>1, <2>1, <2>2, <2>3 DEF Stage, Asks, Settled
  <2> QED
    BY <1>1, <1>4, <2>3, <2>4, BecomesLedger DEF Booked
<1> QED
  BY <1>5, <1>6

LEMMA LedgerNext == ASSUME TypeOK, LedgerInv, [Next]_vars PROVE LedgerInv'
<1>1. ASSUME UNCHANGED <<ses, txn, req>> PROVE LedgerInv'
  BY <1>1, LedgerPrime DEF LedgerInv
<1>2. CASE UNCHANGED vars
  BY <1>1, <1>2 DEF vars
<1>3. ASSUME NEW s \in Sessions, Walker(s) \/ Server(s) \/ Network(s)
      PROVE  LedgerInv'
  BY <1>3, WalkerLedger, ArrivalLedger, RereadLedger, CommitLedger, EffectLedger,
     HandlerLedger, RestLedger, ConnectionLedger DEF Server, Network
<1> QED
  BY <1>2, <1>3 DEF Next, Terminated

LEMMA LedgerAlways == Spec => [](TypeOK /\ LedgerInv)
  BY LedgerInit, LedgerNext, TypeCorrect, PTL DEF Spec

(* What COMMIT is sent for is what the ledger believes was written, row by *)
(* row and version by version: every path from an upsert or a delete to    *)
(* the COMMIT, through replays, promotions, broken connections and nested  *)
(* commits, moves the ledger with the transaction (PgStore.upsert,         *)
(* RowLedger, Session._flush, _rollback_txn, Session.commit).              *)
THEOREM LedgerAgrees == Spec => []LedgerMatchesTxn
<1>1. ASSUME TypeOK, LedgerInv, NEW s \in Sessions, At(s, "commit"), ~txn[s].dead
      PROVE  /\ txn[s].wrote \subseteq Upserted(ses[s]) \cup ses[s].rem
             /\ \A id \in Upserted(ses[s]) : txn[s].view[id] = ses[s].ups[id]
  <2>1. /\ Exact(ses[s], txn[s]) /\ Kept(ses[s], txn[s]) /\ Idle(txn[s])
    BY <1>1, PartsLedger DEF Stage, At
  <2>2. CASE txn[s].mode = "none"
    <3>1. txn[s] = NoTxn /\ Upserted(ses[s]) = {}
      BY <2>1, <2>2 DEF Idle, Kept, InFlight
    <3> QED
      BY <3>1, NoTxnParts
  <2>3. CASE txn[s].mode # "none"
    BY <1>1, <2>1, <2>3 DEF Exact, AgreesBut
  <2> QED
    BY <2>2, <2>3
<1>2. TypeOK /\ LedgerInv => LedgerMatchesTxn
  BY <1>1 DEF LedgerMatchesTxn
<1> QED
  BY <1>2, LedgerAlways, PTL

(* Once the answer of a request is decided nothing is left that closing    *)
(* its session could still write: no anchor to flush, no deletion, no row  *)
(* in flight and no transaction (unit_exit, Session.abort, Session.close). *)
THEOREM NothingLeft == Spec => []NothingAfterAnswer
<1>1. ASSUME TypeOK, LedgerInv, NEW s \in Sessions, req[s].answer # "none"
      PROVE  /\ Unflushed(ses[s], TRUE) \cup ses[s].deleted = {}
             /\ ~InFlight(ses[s])
             /\ txn[s].mode = "none"
  <2>1. Settled(ses[s], txn[s])
    BY <1>1, PartsLedger DEF Stage
  <2> QED
    BY <2>1, NoTxnParts DEF Settled, Quiet
<1>2. TypeOK /\ LedgerInv => NothingAfterAnswer
  BY <1>1 DEF NothingAfterAnswer
<1> QED
  BY <1>2, LedgerAlways, PTL
=============================================================================
