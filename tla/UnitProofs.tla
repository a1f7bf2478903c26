----------------------------- MODULE UnitProofs -----------------------------
(***************************************************************************)
(* Request implements UnitOfWork: the whole of what an attempt staged is   *)
(* saved by one COMMIT, on top of what other requests saved before, or the *)
(* attempt is given up and nothing of it is.                               *)
(*                                                                         *)
(* WriteProofs says what of an attempt must be stored; the invariant added *)
(* here is the other half, that nothing else is: whatever a session caches *)
(* or has in its open transaction is committed content, and where its own  *)
(* attempt wrote, the tag of that attempt.                                 *)
(*                                                                         *)
(* Walkers do not delete, as in WriteProofs.  They end no nested walk,     *)
(* whose commit saves before the attempt can still lose a conflict and be  *)
(* given up, and every COMMIT is answered: a request does not count as     *)
(* saved what a COMMIT without an answer stored.                           *)
(***************************************************************************)
EXTENDS WriteProofs

OpsAssumed == Ops \cap {"delete", "walk", "unanswered"} = {}

(* What attempt q.run of request s did.                                    *)
Deed(s, q) == [tag |-> <<s, q.run>>, writes |-> q.wset, joins |-> q.enqueued]

Deeds == [tag : Tags, writes : SUBSET Ids, joins : BOOLEAN]

(* Content v of an anchor, given the committed rows d and the deed k.      *)
Within(d, k, id, v) ==
    /\ Present(d[id]) \/ id \in k.writes
    /\ \A tag \in v : tag \in d[id].val \/ (tag = k.tag /\ id \in k.writes)

CleanCache(d, S, k) ==
    \A id \in Ids : id \in S.cached => Within(d, k, id, S.mem[id])

CleanTxn(d, S, t, k) ==
    Live(t) => /\ \A id \in Ids : Present(t.view[id]) => Within(d, k, id, t.view[id].val)
               /\ \A tag \in t.out : tag = k.tag /\ k.joins /\ S.joined

Clean(d, S, t, k) == CleanCache(d, S, k) /\ CleanTxn(d, S, t, k)

(* Where a request that has saved, or runs effects, stands.                *)
Course(q) ==
    /\ q.saved /\ q.answer = "none" => q.committed
    /\ q.pc = "effects" => q.committed
    /\ q.pc \in {"barrier", "load"} /\ q.op.name = "effect" => q.committed
    /\ q.pc \in {"flush", "commit"} =>
          /\ q.kind # "walk"
          /\ q.kind = "outer" => q.committed
          /\ q.kind = "close" => q.answer # "none"
    /\ q.dset = {}

UnitInv == \A s \in Sessions : /\ Clean(db, ses[s], txn[s], Deed(s, req[s]))
                               /\ Course(req[s])

-----------------------------------------------------------------------------
(* Content                                                                 *)

LEMMA WithinLess ==
    ASSUME NEW d, NEW k, NEW id, NEW v, NEW w, Within(d, k, id, v), w \subseteq v
    PROVE  Within(d, k, id, w)
  BY DEF Within

LEMMA WithinCommitted ==
    ASSUME NEW d, NEW k, NEW id, Present(d[id]) PROVE Within(d, k, id, d[id].val)
  BY DEF Within

(* A deed that goes on.                                                    *)
Extends(k, l) == l.tag = k.tag /\ k.writes \subseteq l.writes /\ (k.joins => l.joins)

LEMMA CleanMore ==
    ASSUME NEW d, NEW S, NEW t, NEW k, NEW l, Clean(d, S, t, k), Extends(k, l)
    PROVE  Clean(d, S, t, l)
  BY DEF Clean, CleanCache, CleanTxn, Within, Extends

(* A session that has forgotten something, and a transaction that is the   *)
(* same, has just begun or is none any more.                               *)
Sheds(S, R) == /\ R.cached \subseteq S.cached
               /\ \A id \in Ids : R.mem[id] \subseteq S.mem[id]

Passes(S, R, t, u) ==
    Live(u) => \/ /\ Live(t) /\ u.view = t.view /\ u.out = t.out
                  /\ S.joined => R.joined
               \/ u.view = db /\ u.out = {}

LEMMA CleanLess ==
    ASSUME NEW S, NEW R, NEW t, NEW u, NEW k, Clean(db, S, t, k), Sheds(S, R),
           Passes(S, R, t, u)
    PROVE  Clean(db, R, u, k)
<1>1. CleanCache(db, R, k)
  BY WithinLess DEF Clean, CleanCache, Sheds
<1>2. CleanTxn(db, R, u, k)
  <2>1. CASE Live(u) /\ u.view = db /\ u.out = {}
    BY <2>1, WithinCommitted DEF CleanTxn
  <2>2. CASE Live(u) /\ Live(t) /\ u.view = t.view /\ u.out = t.out /\ (S.joined => R.joined)
    BY <2>2 DEF Clean, CleanTxn
  <2> QED
    BY <2>1, <2>2 DEF Passes, CleanTxn
<1> QED
  BY <1>1, <1>2 DEF Clean

LEMMA ShedsSelf == ASSUME NEW S PROVE Sheds(S, S)
  BY DEF Sheds

LEMMA ShedsAgain ==
    ASSUME NEW S, NEW R, NEW T, Sheds(S, R), Sheds(R, T)
    PROVE  Sheds(S, T)
  BY DEF Sheds

LEMMA NotLive == ~Live(NoTxn) /\ \A S, R, t : Passes(S, R, t, NoTxn)
  BY NoTxnDead DEF Passes

LEMMA BeginPasses ==
    ASSUME NEW mode, NEW S, NEW R, NEW t PROVE Passes(S, R, t, Begin(mode))
<1>1. PICK b : b = Begin(mode)
  OBVIOUS
<1>2. b.view = db /\ b.out = {}
  BY <1>1 DEF Begin, NoTxn
<1> QED
  BY <1>1, <1>2 DEF Passes

-----------------------------------------------------------------------------
(* What the operations of a session shed                                   *)

LEMMA RollbackSheds ==
    ASSUME NEW S \in Ses PROVE Sheds(S, Rollback(S)) /\ Rollback(S).cached = S.cached
  BY RollbackParts DEF Sheds

LEMMA PromoteSheds ==
    ASSUME NEW S \in Ses PROVE Sheds(S, Promote(S)) /\ Promote(S).cached = S.cached
  BY PromoteParts DEF Sheds

LEMMA ForgetSheds ==
    ASSUME NEW S \in Ses, NEW F \in SUBSET Ids
    PROVE  Sheds(S, Forget(S, F)) /\ Forget(S, F).joined = S.joined
<1>1. PICK G : G = Forget(S, F)
  OBVIOUS
<1>2. /\ G.cached = S.cached \ F
      /\ G.mem = [id \in Ids |-> IF id \in F THEN {} ELSE S.mem[id]]
      /\ G.joined = S.joined
  BY <1>1 DEF Forget, Ses
<1>3. S.cached \subseteq Ids
  BY DEF Ses
<1> QED
  BY <1>1, <1>2, <1>3 DEF Sheds

LEMMA DropSheds ==
    ASSUME NEW S \in Ses
    PROVE  Sheds(S, DropSnapshotReads(S)) /\ DropSnapshotReads(S).joined = S.joined
<1>1. PICK F : F = Forget(S, S.snap \ (S.dirty \cup S.deleted))
  OBVIOUS
<1>2. S.snap \ (S.dirty \cup S.deleted) \in SUBSET Ids
  BY DEF Ses
<1>3. Sheds(S, F) /\ F.joined = S.joined /\ F \in Ses
  BY <1>1, <1>2, ForgetSheds, ForgetKeeps DEF Keeps
<1>4. DropSnapshotReads(S) = [F EXCEPT !.snap = {}]
  BY <1>1 DEF DropSnapshotReads
<1>5. PICK D : D = DropSnapshotReads(S)
  OBVIOUS
<1>6. D.cached = F.cached /\ D.mem = F.mem /\ D.joined = F.joined
  BY <1>3, <1>4, <1>5 DEF Ses
<1> QED
  BY <1>3, <1>5, <1>6 DEF Sheds

LEMMA AbortSheds ==
    ASSUME NEW S \in Ses PROVE Abort(S).cached = {} /\ Sheds(S, Abort(S))
<1>1. PICK R \in Ses : R = Rollback(S) /\ Sheds(S, R) /\ R.cached = S.cached
  BY RollbackSheds, RollbackCalm
<1>2. R.cached \in SUBSET Ids
  BY DEF Ses
<1>3. PICK G \in Ses : G = Forget(R, R.cached) /\ Sheds(R, G)
  BY <1>2, ForgetSheds, ForgetKeeps DEF Keeps
<1>4. G.cached = {}
  BY <1>2, <1>3, ForgetParts
<1>5. Abort(S) = [G EXCEPT !.dirty = {}, !.deleted = {}, !.snap = {}, !.lost = FALSE,
                           !.contended = @ \cup S.conflict, !.conflict = {}]
  BY <1>1, <1>3 DEF Abort
<1>6. PICK A : A = Abort(S)
  OBVIOUS
<1>7. A.cached = G.cached /\ A.mem = G.mem
  BY <1>3, <1>5, <1>6 DEF Ses
<1> QED
  BY <1>1, <1>3, <1>4, <1>6, <1>7, ShedsAgain DEF Sheds


-----------------------------------------------------------------------------
(* Opening, promoting and giving up transactions                           *)

Wanes(r, w) == Sheds(r.S, w.S) /\ Passes(r.S, w.S, r.t, w.t)

LEMMA WanesSelf == \A r : Wanes(r, r)
  BY ShedsSelf DEF Wanes, Passes

LEMMA WanesAgain ==
    ASSUME NEW r, NEW w, NEW x, Wanes(r, w), Wanes(w, x) PROVE Wanes(r, x)
  BY ShedsAgain DEF Wanes, Passes

LEMMA WanesNone ==
    ASSUME NEW r, NEW w, Sheds(r.S, w.S), w.t = NoTxn PROVE Wanes(r, w)
  BY NotLive DEF Wanes

LEMMA WanesClean ==
    ASSUME NEW r, NEW w, Wanes(r, w), NEW k, Clean(db, r.S, r.t, k)
    PROVE  Clean(db, w.S, w.t, k)
  BY CleanLess DEF Wanes

LEMMA ReclaimWanes == ASSUME NEW r, r.S \in Ses PROVE Wanes(r, Reclaim(r))
<1>1. PICK R : R = Rollback(r.S) /\ Sheds(r.S, R)
  BY RollbackSheds
<1>2. PICK q : q = Reclaim(r)
  OBVIOUS
<1>3. CASE q = r
  BY <1>2, <1>3, WanesSelf
<1>4. CASE r.t.mode = "none" /\ q = LostOr(R, r.t)
  <2>1. q.S = R /\ q.t = r.t
    BY <1>4 DEF LostOr, Raise, Done
  <2>2. ~Live(q.t)
    BY <1>4, <2>1 DEF Live
  <2> QED
    BY <1>1, <1>2, <2>1, <2>2 DEF Wanes, Passes
<1> QED
  BY <1>1, <1>2, <1>3, <1>4 DEF Reclaim

LEMMA RetryWanes ==
    ASSUME NEW r, r.S \in Ses PROVE Wanes(r, RaiseReadOnlyRetry(r.S))
<1>1. PICK W : W = RegisterWriters(r.S) /\ W \in Ses
  BY RegisterWritersType
<1>2. W.cached = r.S.cached /\ W.mem = r.S.mem
  BY <1>1 DEF RegisterWriters, Ses
<1>3. PICK R : R = Rollback(W) /\ Sheds(W, R) /\ R \in Ses
  BY <1>1, RollbackSheds, RollbackParts
<1>4. PICK C : C = [R EXCEPT !.raised = TRUE]
  OBVIOUS
<1>5. C.cached = R.cached /\ C.mem = R.mem
  BY <1>3, <1>4 DEF Ses
<1>6. RaiseReadOnlyRetry(r.S).S = C /\ RaiseReadOnlyRetry(r.S).t = NoTxn
  BY <1>1, <1>3, <1>4 DEF RaiseReadOnlyRetry, Raise
<1>7. Sheds(r.S, C)
  BY <1>2, <1>3, <1>5 DEF Sheds
<1> QED
  BY <1>6, <1>7, WanesNone

LEMMA PromotedWanes == ASSUME NEW r, r.S \in Ses PROVE Wanes(r, Promoted(r))
<1>1. PICK p : p = Promoted(r)
  OBVIOUS
<1>2. CASE p = r
  BY <1>1, <1>2, WanesSelf
<1>3. CASE p = Done(r.S, Begin("rw"))
  <2>1. p.S = r.S /\ p.t = Begin("rw")
    BY <1>3 DEF Done
  <2> QED
    BY <1>1, <2>1, ShedsSelf, BeginPasses DEF Wanes
<1>4. CASE p = RaiseReadOnlyRetry(r.S)
  BY <1>1, <1>4, RetryWanes
<1>5. CASE p = Raise(r.S, NoTxn, "db")
  <2>1. p.S = r.S /\ p.t = NoTxn
    BY <1>5 DEF Raise
  <2> QED
    BY <1>1, <2>1, ShedsSelf, WanesNone
<1>6. CASE p = Done(DropSnapshotReads(Promote(r.S)), Begin("rw"))
  <2>1. PICK P : P = Promote(r.S) /\ Sheds(r.S, P) /\ P \in Ses
    BY PromoteSheds, PromoteParts
  <2>2. PICK D : D = DropSnapshotReads(P) /\ Sheds(P, D)
    BY <2>1, DropSheds
  <2>3. p.S = D /\ p.t = Begin("rw")
    BY <1>6, <2>1, <2>2 DEF Done
  <2> QED
    BY <1>1, <2>1, <2>2, <2>3, ShedsAgain, BeginPasses DEF Wanes
<1> QED
  BY <1>1, <1>2, <1>3, <1>4, <1>5, <1>6 DEF Promoted

LEMMA BeginWritableWanes ==
    ASSUME NEW O, NEW r, From(O, r) PROVE Wanes(r, BeginWritable(r))
<1>1. PICK w : w = BeginWritable(r)
  OBVIOUS
<1>2. CASE w = Raise(r.S, r.t, "ro")
  <2>1. w.S = r.S /\ w.t = r.t
    BY <1>2 DEF Raise
  <2>2. Wanes(r, r)
    BY WanesSelf
  <2> QED
    BY <1>1, <2>1, <2>2 DEF Wanes
<1>3. CASE w = Promoted(Reclaim(r))
  <2>1. PICK q : q = Reclaim(r) /\ Wanes(r, q) /\ From(O, q)
    BY FromParts, ReclaimWanes, ReclaimFrom
  <2>2. Wanes(q, w)
    BY <1>3, <2>1, FromParts, PromotedWanes
  <2> QED
    BY <1>1, <2>1, <2>2, WanesAgain
<1> QED
  BY <1>1, <1>2, <1>3 DEF BeginWritable

LEMMA EnsureTxnWanes ==
    ASSUME NEW O, NEW r, From(O, r) PROVE Wanes(r, EnsureTxn(r))
<1>1. PICK q : q = Reclaim(r) /\ Wanes(r, q) /\ From(O, q)
  BY FromParts, ReclaimWanes, ReclaimFrom
<1>2. PICK e : e = Opened(q) /\ e = EnsureTxn(r)
  BY <1>1 DEF EnsureTxn
<1>3. CASE e = q
  BY <1>1, <1>2, <1>3
<1>4. CASE e = Done(q.S, Begin(Isolation(q.S)))
  <2>1. e.S = q.S /\ e.t = Begin(Isolation(q.S))
    BY <1>4 DEF Done
  <2>2. Wanes(q, e)
    BY <2>1, ShedsSelf, BeginPasses DEF Wanes
  <2> QED
    BY <1>1, <1>2, <2>2, WanesAgain
<1>5. CASE e = BeginWritable(q)
  BY <1>1, <1>2, <1>5, BeginWritableWanes, WanesAgain
<1> QED
  BY <1>2, <1>3, <1>4, <1>5 DEF Opened

(* The joining of an outbox entry adds the one tag, to a session that knows *)
(* of it.                                                                  *)
LEMMA JoinClean ==
    ASSUME StoreReady, NEW O, NEW r, From(O, r), NEW k, Clean(db, r.S, r.t, k),
           k \in Deeds, NEW l, l = [k EXCEPT !.joins = TRUE]
    PROVE  LET j == Join(r, k.tag)
           IN  /\ Ok(j) => Clean(db, j.S, j.t, l)
               /\ ~Ok(j) => Clean(db, j.S, j.t, k)
<1>1. PICK w : w = BeginWritable(r) /\ Clean(db, w.S, w.t, k) /\ From(O, w)
  BY BeginWritableWanes, BeginWritableFrom, WanesClean
<1>2. w.S \in Ses /\ w.t \in Txn
  BY <1>1, FromParts
<1>3. PICK j : j = Join(r, k.tag) /\ j = Joined(w, k.tag)
  BY <1>1 DEF Join
<1>4. PICK J : J = [w.S EXCEPT !.joined = TRUE]
  OBVIOUS
<1>5. J.cached = w.S.cached /\ J.mem = w.S.mem /\ J.joined
  BY <1>2, <1>4 DEF Ses
<1>6. l.tag = k.tag /\ l.writes = k.writes /\ l.joins
  BY DEF Deeds
<1>7. CASE ~Ok(w) /\ j = w
  BY <1>1, <1>3, <1>7
<1>8. CASE j = Raise(J, NoTxn, "db")
  <2>1. j.S = J /\ j.t = NoTxn /\ ~Ok(j)
    BY <1>8 DEF Raise, Ok
  <2>2. Clean(db, J, NoTxn, k)
    BY <1>1, <1>5, NotLive DEF Clean, CleanCache, CleanTxn
  <2> QED
    BY <1>3, <2>1, <2>2
<1>9. CASE ~w.t.dead /\ j = Done(J, [w.t EXCEPT !.out = @ \cup {k.tag}])
  <2>1. PICK u : u = [w.t EXCEPT !.out = @ \cup {k.tag}]
    OBVIOUS
  <2>2. /\ u.mode = w.t.mode /\ u.dead = w.t.dead /\ u.view = w.t.view
        /\ u.out = w.t.out \cup {k.tag}
    BY <1>2, <2>1 DEF Txn
  <2>3. j.S = J /\ j.t = u /\ Ok(j)
    BY <1>9, <2>1 DEF Done, Ok
  <2>4. CleanCache(db, J, l)
    BY <1>1, <1>5, <1>6 DEF Clean, CleanCache, Within
  <2>5. CleanTxn(db, J, u, l)
    BY <1>1, <1>5, <1>6, <2>2 DEF Clean, CleanTxn, Within, Live
  <2> QED
    BY <1>3, <2>3, <2>4, <2>5 DEF Clean
<1> QED
  BY <1>3, <1>4, <1>7, <1>8, <1>9 DEF Joined

-----------------------------------------------------------------------------
(* Flushing                                                                *)

(* A session that differs in none of what Clean reads.                     *)
Alias(S, R) == R.cached = S.cached /\ R.mem = S.mem /\ R.joined = S.joined

LEMMA AliasClean ==
    ASSUME NEW S, NEW R, Alias(S, R), NEW t, NEW k, Clean(db, S, t, k)
    PROVE  Clean(db, R, t, k)
  BY DEF Alias, Clean, CleanCache, CleanTxn

LEMMA NoneClean ==
    ASSUME NEW S, NEW t, NEW k, Clean(db, S, t, k) PROVE Clean(db, S, NoTxn, k)
  BY NotLive DEF Clean, CleanTxn

LEMMA LockTimeoutClean ==
    ASSUME NEW S \in Ses, NEW t, NEW k, Clean(db, S, t, k), NEW W
    PROVE  LET r == LockTimeout(S, W)
           IN  Clean(db, r.S, r.t, k)
<1>1. PICK R : R = [S EXCEPT !.conflict = W]
  OBVIOUS
<1>2. Alias(S, R)
  BY <1>1 DEF Alias, Ses
<1>3. Clean(db, S, NoTxn, k) /\ Clean(db, R, NoTxn, k)
  BY <1>2, NoneClean, AliasClean
<1>4. PICK r : r = LockTimeout(S, W)
  OBVIOUS
<1>5. r.t = NoTxn /\ (r.S = S \/ r.S = R)
  BY <1>1, <1>4 DEF LockTimeout, Raise
<1> QED
  BY <1>3, <1>4, <1>5

(* A row that lands holds the content the session has of the anchor.       *)
LEMMA UpsertClean ==
    ASSUME NEW S \in Ses, NEW t \in Txn, NEW k, Clean(db, S, t, k),
           NEW U \in SUBSET Ids, \A id \in U : Within(db, k, id, S.mem[id])
    PROVE  Clean(db, S, Upsert(t, Rows(S), U), k)
<1>1. PICK T : T = Upsert(t, Rows(S), U)
  OBVIOUS
<1>2. PICK G : /\ G = Landing(t, Rows(S), U) /\ Took(t, T, Rows(S), G) /\ T.out = t.out
  BY <1>1, UpsertFacts, UpsertMore
<1>3. G \subseteq U
  BY <1>2 DEF Landing
<1>4. ASSUME Live(T), NEW id \in Ids, Present(T.view[id])
      PROVE  Within(db, k, id, T.view[id].val)
  <2>1. Live(t)
    BY <1>2, <1>4 DEF Took, Live
  <2>2. CASE id \in G
    BY <1>2, <1>3, <2>2, RowValue DEF Took
  <2>3. CASE id \notin G
    BY <1>2, <1>4, <2>1, <2>3 DEF Took, Clean, CleanTxn
  <2> QED
    BY <2>2, <2>3
<1>5. Live(T) => \A tag \in T.out : tag = k.tag /\ k.joins /\ S.joined
  BY <1>2 DEF Took, Live, Clean, CleanTxn
<1> QED
  BY <1>1, <1>4, <1>5 DEF Clean, CleanTxn

LEMMA FlushRowsClean ==
    ASSUME NEW r, r.S \in Ses, r.t \in Txn, NEW k, Clean(db, r.S, r.t, k), NEW s,
           NEW U \in SUBSET Ids, \A id \in U : Within(db, k, id, r.S.mem[id])
    PROVE  LET f == FlushRows(s, r, U)
           IN  Clean(db, f.S, f.t, k)
<1>1. PICK f : f = FlushRows(s, r, U)
  OBVIOUS
<1>2. PICK T : T = Upsert(r.t, Rows(r.S), U) /\ Clean(db, r.S, T, k)
  BY UpsertClean
<1>3. CASE f = r
  BY <1>1, <1>3
<1>4. CASE f = Raise(r.S, NoTxn, "db")
  <2>1. f.S = r.S /\ f.t = NoTxn
    BY <1>4 DEF Raise
  <2> QED
    BY <1>1, <2>1, NoneClean
<1>5. CASE f = LockTimeout(r.S, U)
  BY <1>1, <1>5, LockTimeoutClean
<1>6. ASSUME NEW c, f = Raise([r.S EXCEPT !.conflict = c], T, "conflict")
      PROVE  Clean(db, f.S, f.t, k)
  <2>1. PICK R : R = [r.S EXCEPT !.conflict = c]
    OBVIOUS
  <2>2. Alias(r.S, R)
    BY <2>1 DEF Alias, Ses
  <2>3. f.S = R /\ f.t = T
    BY <1>6, <2>1 DEF Raise
  <2> QED
    BY <1>2, <2>2, <2>3, AliasClean
<1>7. CASE f = Done(Written(r.S, T, U), T)
  <2>1. PICK R : R = Written(r.S, T, U)
    OBVIOUS
  <2>2. Alias(r.S, R)
    BY <2>1 DEF Alias, Written, Ses
  <2>3. f.S = R /\ f.t = T
    BY <1>7, <2>1 DEF Done
  <2> QED
    BY <1>1, <1>2, <2>2, <2>3, AliasClean
<1>8. \/ f = r \/ f = Raise(r.S, NoTxn, "db") \/ f = LockTimeout(r.S, U)
      \/ \E c : f = Raise([r.S EXCEPT !.conflict = c], T, "conflict")
      \/ f = Done(Written(r.S, T, U), T)
  BY <1>1, <1>2 DEF FlushRows
<1> QED
  BY <1>1, <1>3, <1>4, <1>5, <1>6, <1>7, <1>8

LEMMA DeleteClean ==
    ASSUME NEW S, NEW t \in Txn, NEW k, Clean(db, S, t, k), NEW D \in SUBSET Ids
    PROVE  Clean(db, S, Delete(t, D), k)
<1>1. PICK u : u = Reading(t, D) /\ u \in Txn
  BY ReadingType
<1>2. u.mode = t.mode /\ u.dead = t.dead /\ u.view = t.view /\ u.out = t.out
  BY <1>1 DEF Reading, Txn
<1>3. PICK T : T = Delete(t, D)
  OBVIOUS
<1>4. /\ T.mode = u.mode /\ T.dead = u.dead /\ T.out = u.out
      /\ T.view = [id \in Ids |-> IF id \in D THEN Absent ELSE t.view[id]]
  BY <1>1, <1>3 DEF Delete, Txn
<1>5. \A id \in Ids : Present(T.view[id]) => T.view[id] = t.view[id]
  BY <1>4 DEF Present, Absent
<1> QED
  BY <1>2, <1>3, <1>4, <1>5 DEF Clean, CleanTxn, Live

LEMMA FlushDeletesClean ==
    ASSUME NEW r, r.S \in Ses, r.t \in Txn, NEW k, Clean(db, r.S, r.t, k), NEW s
    PROVE  LET d == FlushDeletes(s, r)
           IN  Clean(db, d.S, d.t, k)
<1>1. PICK d : d = FlushDeletes(s, r)
  OBVIOUS
<1>2. CASE d = r
  BY <1>1, <1>2
<1>3. CASE d = Raise(r.S, NoTxn, "db")
  <2>1. d.S = r.S /\ d.t = NoTxn
    BY <1>3 DEF Raise
  <2> QED
    BY <1>1, <2>1, NoneClean
<1>4. CASE d = LockTimeout(r.S, r.S.deleted)
  BY <1>1, <1>4, LockTimeoutClean
<1>5. CASE d = Done(Removed(r.S), Delete(r.t, r.S.deleted))
  <2>1. PICK R : R = Removed(r.S)
    OBVIOUS
  <2>2. Alias(r.S, R)
    BY <2>1 DEF Alias, Removed, Ses
  <2>3. PICK T : T = Delete(r.t, r.S.deleted) /\ Clean(db, r.S, T, k)
    BY DeleteClean DEF Ses
  <2>4. d.S = R /\ d.t = T
    BY <1>5, <2>1, <2>3 DEF Done
  <2> QED
    BY <1>1, <2>2, <2>3, <2>4, AliasClean
<1> QED
  BY <1>1, <1>2, <1>3, <1>4, <1>5 DEF FlushDeletes

LEMMA FlushClean ==
    ASSUME StoreReady, NEW O, NEW r, From(O, r), NEW k, Clean(db, r.S, r.t, k), NEW s,
           NEW full \in BOOLEAN
    PROVE  LET f == Flush(s, r, full)
           IN  Clean(db, f.S, f.t, k)
<1>1. PICK q : q = Reclaim(r) /\ From(O, q) /\ Clean(db, q.S, q.t, k)
  BY FromParts, ReclaimFrom, ReclaimWanes, WanesClean
<1>2. PICK p : p = FlushLocked(s, q, full) /\ p = Flush(s, r, full)
  BY <1>1 DEF Flush
<1>3. CASE p = q
  BY <1>1, <1>2, <1>3
<1>4. CASE p = FlushThe(s, q, Unflushed(q.S, full))
  <2>1. PICK U : U = Unflushed(q.S, full)
    OBVIOUS
  <2>2. U \in SUBSET Ids /\ U \subseteq q.S.cached
    BY <1>1, <2>1, FromParts DEF Unflushed, Ses
  <2>3. PICK w : w = Writable(q, U) /\ From(O, w) /\ Wanes(q, w)
    BY <1>1, BeginWritableFrom, BeginWritableWanes, WanesSelf DEF Writable
  <2>4. Clean(db, w.S, w.t, k) /\ w.S \in Ses /\ w.t \in Txn
    BY <1>1, <2>3, WanesClean, FromParts
  <2>5. \A id \in U : Within(db, k, id, w.S.mem[id])
    BY <1>1, <2>2, <2>3, WithinLess DEF Clean, CleanCache, Wanes, Sheds
  <2>6. PICK f : f = FlushRows(s, w, U) /\ Clean(db, f.S, f.t, k) /\ From(O, f)
    BY <2>2, <2>3, <2>4, <2>5, FlushRowsClean, FlushRowsFrom
  <2>7. PICK d : d = FlushDeletes(s, f) /\ Clean(db, d.S, d.t, k) /\ From(O, d)
    BY <2>6, FlushDeletesClean, FlushDeletesFrom, FromParts
  <2>8. p = Flushed(d)
    BY <1>4, <2>1, <2>3, <2>6, <2>7 DEF FlushThe
  <2>9. PICK C : C = [d.S EXCEPT !.dirty = {}]
    OBVIOUS
  <2>10. Alias(d.S, C)
    BY <2>7, <2>9, FromParts DEF Alias, Ses
  <2>11. p = d \/ (p.S = C /\ p.t = d.t)
    BY <2>8, <2>9 DEF Flushed, Done
  <2> QED
    BY <1>2, <2>7, <2>10, <2>11, AliasClean
<1> QED
  BY <1>2, <1>3, <1>4 DEF FlushLocked

LEMMA ReplayWanes ==
    ASSUME NEW r, r.S \in Ses, NEW exhausted \in BOOLEAN
    PROVE  Wanes(r, Replay(r.S, exhausted))
<1>1. PICK R : R = Rollback(r.S) /\ Sheds(r.S, R) /\ R \in Ses
  BY RollbackSheds, RollbackParts
<1>2. PICK C : C = [R EXCEPT !.lost = @ \/ exhausted]
  OBVIOUS
<1>3. C.cached = R.cached /\ C.mem = R.mem
  BY <1>1, <1>2 DEF Ses
<1>4. PICK p : p = Replay(r.S, exhausted)
  OBVIOUS
<1>5. p.S = C /\ p.t = NoTxn
  BY <1>1, <1>2, <1>4 DEF Replay, LostOr, Raise, Done
<1>6. Sheds(r.S, p.S)
  BY <1>1, <1>3, <1>5 DEF Sheds
<1> QED
  BY <1>4, <1>5, <1>6, WanesNone

LEMMA ReadBarrierClean ==
    ASSUME StoreReady, NEW S \in Ses, NEW t \in Txn, NEW k, Clean(db, S, t, k), NEW s
    PROVE  LET r == ReadBarrier(s, Done(S, t))
           IN  Clean(db, r.S, r.t, k)
<1>1. PICK r : r = Done(S, t) /\ r.S = S /\ r.t = t /\ From(S, r)
  BY FromSelf DEF Done
<1>2. PICK e : e = EnsureTxn(r) /\ From(S, e) /\ Clean(db, e.S, e.t, k)
  BY <1>1, EnsureTxnFrom, EnsureTxnWanes, WanesClean
<1>3. PICK full \in BOOLEAN : full = FALSE
  OBVIOUS
<1>4. ReadBarrier(s, Done(S, t)) = Flush(s, e, full)
  BY <1>1, <1>2, <1>3 DEF ReadBarrier
<1> QED
  BY <1>2, <1>4, FlushClean

-----------------------------------------------------------------------------
(* Reading and changing anchors                                            *)

LEMMA MaterializeClean ==
    ASSUME NEW S \in Ses, NEW t \in Txn, NEW k, Clean(db, S, t, k), Live(t),
           NEW L \in SUBSET Ids, \A id \in L : Present(t.view[id])
    PROVE  Clean(db, Materialize(S, t, L), t, k)
<1>1. PICK M : M = Materialize(S, t, L)
  OBVIOUS
<1>2. PICK N : N \subseteq L /\ N = L \ {id \in L \cap S.cached :
                            \/ id \in S.dirty
                            \/ ~Present(Current(S, id))
                            \/ Current(S, id).ver = t.view[id].ver}
  OBVIOUS
<1>3. /\ M.cached = S.cached \cup N /\ M.joined = S.joined
       /\ M.mem = [id \in Ids |-> IF id \in N THEN t.view[id].val ELSE S.mem[id]]
  BY <1>1, <1>2 DEF Materialize, Ses
<1>4. ASSUME NEW id \in Ids, id \in M.cached PROVE Within(db, k, id, M.mem[id])
  BY <1>2, <1>3, <1>4 DEF Clean, CleanCache, CleanTxn
<1> QED
  BY <1>1, <1>2, <1>3, <1>4 DEF Clean, CleanCache, CleanTxn

LEMMA LoadFullClean ==
    ASSUME NEW S \in Ses, NEW t \in Txn, Idle(t), NEW k, Clean(db, S, t, k),
           NEW L \in SUBSET Ids
    PROVE  LET r == LoadFull(Done(S, t), L)
           IN  Clean(db, r.S, r.t, k)
<1>1. PICK r : r = LoadFull(Done(S, t), L)
  OBVIOUS
<1>2. PICK G \in SUBSET Ids : G = {id \in L : Present(t.view[id])}
  OBVIOUS
<1>3. CASE r = Raise(S, NoTxn, "db")
  <2>1. r.S = S /\ r.t = NoTxn
    BY <1>3 DEF Raise
  <2> QED
    BY <1>1, <2>1, NoneClean
<1>4. CASE ~t.dead /\ r = Done(Materialize(S, t, G), Reading(t, L))
  <2>1. PICK M : M = Materialize(S, t, G)
    OBVIOUS
  <2>2. PICK u : u = Reading(t, L)
    OBVIOUS
  <2>3. u.mode = t.mode /\ u.dead = t.dead /\ u.view = t.view /\ u.out = t.out
    BY <2>2 DEF Reading, Txn
  <2>4. r.S = M /\ r.t = u
    BY <1>4, <2>1, <2>2 DEF Done
  <2>5. CASE t.mode # "none"
    <3>1. Live(t)
      BY <1>4, <2>5 DEF Live
    <3>2. Clean(db, M, t, k)
      BY <1>2, <2>1, <3>1, MaterializeClean
    <3> QED
      BY <1>1, <2>3, <2>4, <3>2 DEF Clean, CleanTxn, Live
  <2>6. CASE t.mode = "none"
    <3>1. t = NoTxn
      BY <2>6 DEF Idle
    <3>2. G = {}
      BY <1>2, <3>1 DEF NoTxn, NoRows, Present, Absent
    <3>3. M.cached = S.cached /\ M.mem = S.mem
      BY <2>1, <3>2 DEF Materialize, Ses
    <3>4. ~Live(u)
      BY <2>3, <2>6 DEF Live
    <3> QED
      BY <1>1, <2>4, <3>3, <3>4 DEF Clean, CleanCache, CleanTxn
  <2> QED
    BY <2>5, <2>6
<1>5. Ok(Done(S, t)) /\ Done(S, t).S = S /\ Done(S, t).t = t
  BY DEF Ok, Done
<1> QED
  BY <1>1, <1>2, <1>3, <1>4, <1>5 DEF LoadFull

(* What an attempt writes is part of its deed.                             *)
LEMMA WriteClean ==
    ASSUME NEW S \in Ses, NEW t, NEW k, NEW id \in Ids, Clean(db, S, t, k),
           id \in k.writes
    PROVE  /\ id \in S.cached => Clean(db, Write(S, id, k.tag), t, k)
           /\ id \in S.cached => Clean(db, Mutate(S, id, k.tag), t, k)
           /\ Clean(db, Put(S, id, k.tag), t, k)
<1>1. ASSUME NEW R, R.joined = S.joined, R.cached \subseteq S.cached \cup {id},
             \A x \in Ids \ {id} : R.mem[x] = S.mem[x],
             R.mem[id] = {k.tag} \/ (id \in S.cached /\ R.mem[id] = S.mem[id] \cup {k.tag})
      PROVE  Clean(db, R, t, k)
  <2>1. ASSUME NEW x \in Ids, x \in R.cached PROVE Within(db, k, x, R.mem[x])
    <3>1. CASE x = id
      BY <1>1, <3>1 DEF Clean, CleanCache, Within
    <3>2. CASE x # id
      BY <1>1, <2>1, <3>2 DEF Clean, CleanCache
    <3> QED
      BY <3>1, <3>2
  <2> QED
    BY <1>1, <2>1 DEF Clean, CleanCache, CleanTxn
<1>2. ASSUME id \in S.cached PROVE Clean(db, Write(S, id, k.tag), t, k)
  <2>1. PICK R : R = Write(S, id, k.tag)
    OBVIOUS
  <2>2. /\ R.joined = S.joined /\ R.cached = S.cached /\ R.mem[id] = S.mem[id] \cup {k.tag}
        /\ \A x \in Ids \ {id} : R.mem[x] = S.mem[x]
    BY <2>1 DEF Write, Ses
  <2> QED
    BY <1>1, <1>2, <2>1, <2>2
<1>3. ASSUME id \in S.cached PROVE Clean(db, Mutate(S, id, k.tag), t, k)
  <2>1. PICK R : R = Mutate(S, id, k.tag)
    OBVIOUS
  <2>2. /\ R.joined = S.joined /\ R.cached = S.cached /\ R.mem[id] = S.mem[id] \cup {k.tag}
        /\ \A x \in Ids \ {id} : R.mem[x] = S.mem[x]
    BY <2>1 DEF Mutate, Ses
  <2> QED
    BY <1>1, <1>3, <2>1, <2>2
<1>4. Clean(db, Put(S, id, k.tag), t, k)
  <2>1. PICK R : R = Put(S, id, k.tag)
    OBVIOUS
  <2>2. /\ R.joined = S.joined /\ R.cached = S.cached \cup {id} /\ R.mem[id] = {k.tag}
        /\ \A x \in Ids \ {id} : R.mem[x] = S.mem[x]
    BY <2>1 DEF Put, Ses
  <2> QED
    BY <1>1, <2>1, <2>2
<1> QED
  BY <1>2, <1>3, <1>4

-----------------------------------------------------------------------------
(* Requests and their units of work                                        *)

(* What a step that leaves the tables alone may do to a unit: nothing,     *)
(* stage rows or an outbox entry, answer, or give the attempt up.          *)
Moves(q, p) ==
    \/ /\ p.run = q.run /\ p.saved = q.saved /\ p.dset = q.dset
       /\ \/ p.wset = q.wset /\ p.enqueued = q.enqueued /\ p.answer = q.answer
          \/ /\ q.answer = "none" /\ p.answer = "none"
             /\ \/ p.enqueued = q.enqueued /\ \E W \in SUBSET Ids : p.wset = q.wset \cup W
                \/ p.enqueued /\ p.wset = q.wset
          \/ /\ q.answer = "none" /\ p.answer # "none"
             /\ p.wset = q.wset /\ p.enqueued = q.enqueued
    \/ /\ q.answer = "none" /\ p.answer = "none" /\ ~q.saved /\ ~p.saved
       /\ p.run = q.run + 1 /\ p.wset = {} /\ p.dset = {} /\ ~p.enqueued

(* The unit of a request.                                                  *)
UnitRec == [n : Nat, state : {"running", "saved", "answered"}, writes : SUBSET Ids,
          deletes : SUBSET Ids, joins : BOOLEAN]

LEMMA UnitOfType == \A q \in Req : UnitOf(q) \in UnitRec
  BY DEF UnitOf, UnitRec, Req

LEMMA StagedUnit ==
    ASSUME NEW a \in UnitRec, NEW e \in UnitRec, e.n = a.n, e.state = a.state
    PROVE  e = [a EXCEPT !.writes = e.writes, !.deletes = e.deletes, !.joins = e.joins]
<1>1. PICK b : b = [a EXCEPT !.writes = e.writes]
  OBVIOUS
<1>2. b \in UnitRec /\ b.n = a.n /\ b.state = a.state /\ b.writes = e.writes
  BY <1>1 DEF UnitRec
<1>3. PICK c : c = [b EXCEPT !.deletes = e.deletes]
  OBVIOUS
<1>4. /\ c \in UnitRec /\ c.n = a.n /\ c.state = a.state /\ c.writes = e.writes
      /\ c.deletes = e.deletes
  BY <1>2, <1>3 DEF UnitRec
<1>5. PICK f : f = [c EXCEPT !.joins = e.joins]
  OBVIOUS
<1>6. /\ f \in UnitRec /\ f.n = a.n /\ f.state = a.state /\ f.writes = e.writes
      /\ f.deletes = e.deletes /\ f.joins = e.joins
  BY <1>4, <1>5 DEF UnitRec
<1>7. f = e
  BY <1>6 DEF UnitRec
<1> QED
  BY <1>1, <1>3, <1>5, <1>7

LEMMA UnitMoves ==
    ASSUME TypeOK, NEW s \in Sessions, NEW q \in Req, req' = [req EXCEPT ![s] = q],
           db' = db, outbox' = outbox, Moves(req[s], q)
    PROVE  [UoW!Next]_(UoW!unitVars)
<1>1. PICK U : U = Units
  OBVIOUS
<1>2. PICK V : V = Units'
  OBVIOUS
<1>3. /\ req[s] \in Req
      /\ req'[s] = q /\ \A o \in Sessions \ {s} : req'[o] = req[o]
  BY DEF TypeOK
<1>4. /\ V = [U EXCEPT ![s] = UnitOf(q)] /\ V[s] = UnitOf(q) /\ U[s] = UnitOf(req[s])
      /\ U[s] \in UnitRec /\ V[s] \in UnitRec /\ s \in DOMAIN U
  BY <1>1, <1>2, <1>3, UnitOfType DEF Units
<1>5. SavedRows' = SavedRows /\ outbox' = outbox
  BY DEF SavedRows
<1>6. UoW!Open(s) <=> req[s].answer = "none"
  BY <1>1, <1>4 DEF UoW!Open, UnitOf
<1>7. ASSUME V[s].n = U[s].n, V[s].state = U[s].state, req[s].answer = "none"
      PROVE  UoW!Stage(s, V[s].writes, V[s].deletes, V[s].joins)
  <2>1. PICK a, e : a = U[s] /\ e = V[s]
    OBVIOUS
  <2>2. e = [a EXCEPT !.writes = e.writes, !.deletes = e.deletes, !.joins = e.joins]
    BY <1>4, <1>7, <2>1, StagedUnit
  <2>3. V = [U EXCEPT ![s].writes = e.writes, ![s].deletes = e.deletes, ![s].joins = e.joins]
    BY <1>4, <2>1, <2>2
  <2> QED
    BY <1>1, <1>2, <1>5, <1>6, <1>7, <2>1, <2>3 DEF UoW!Stage
<1>8. CASE UnitOf(q) = UnitOf(req[s])
  <2>1. V = U
    BY <1>1, <1>4, <1>8 DEF Units
  <2> QED
    BY <1>1, <1>2, <1>5, <2>1 DEF UoW!unitVars
<1>9. ASSUME NEW W \in SUBSET Ids, req[s].answer = "none", q.answer = "none",
             q.run = req[s].run, q.saved = req[s].saved, q.dset = req[s].dset,
             q.enqueued = req[s].enqueued, q.wset = req[s].wset \cup W
      PROVE  UoW!Next
  <2>1. /\ V[s].n = U[s].n /\ V[s].state = U[s].state /\ V[s].writes = U[s].writes \cup W
        /\ V[s].deletes = U[s].deletes /\ V[s].joins = U[s].joins
    BY <1>4, <1>9 DEF UnitOf
  <2>2. UoW!StageWrites(s, W)
    BY <1>1, <1>7, <1>9, <2>1 DEF UoW!StageWrites
  <2> QED
    BY <2>2 DEF UoW!Next
<1>10. ASSUME req[s].answer = "none", q.answer = "none",
              q.run = req[s].run, q.saved = req[s].saved, q.dset = req[s].dset,
              q.enqueued, q.wset = req[s].wset
       PROVE  UoW!Next
  <2>1. /\ V[s].n = U[s].n /\ V[s].state = U[s].state /\ V[s].writes = U[s].writes
        /\ V[s].deletes = U[s].deletes /\ V[s].joins = TRUE
    BY <1>4, <1>10 DEF UnitOf, Req
  <2>2. UoW!StageEntry(s)
    BY <1>1, <1>7, <1>10, <2>1 DEF UoW!StageEntry
  <2> QED
    BY <2>2 DEF UoW!Next
<1>11. ASSUME req[s].answer = "none", q.answer # "none",
              q.run = req[s].run, q.dset = req[s].dset,
              q.enqueued = req[s].enqueued, q.wset = req[s].wset
       PROVE  UoW!Next
  <2>1. UnitOf(q) = [UnitOf(req[s]) EXCEPT !.state = "answered"]
    BY <1>11 DEF UnitOf
  <2>2. V = [U EXCEPT ![s].state = "answered"]
    BY <1>4, <2>1
  <2>3. UoW!Answer(s)
    BY <1>1, <1>2, <1>5, <1>6, <1>11, <2>2 DEF UoW!Answer
  <2> QED
    BY <2>3 DEF UoW!Next
<1>12. ASSUME req[s].answer = "none", q.answer = "none", ~req[s].saved, ~q.saved,
              q.run = req[s].run + 1, q.wset = {}, q.dset = {}, ~q.enqueued
       PROVE  UoW!Next
  <2>1. U[s].state = "running" /\ U[s].n = req[s].run
    BY <1>4, <1>12 DEF UnitOf
  <2>2. UnitOf(q) = UoW!Attempt(U[s].n + 1)
    BY <1>12, <2>1 DEF UnitOf, UoW!Attempt, Req
  <2>3. V = [U EXCEPT ![s] = UoW!Attempt(U[s].n + 1)]
    BY <1>4, <2>2
  <2>4. UoW!GiveUp(s)
    BY <1>1, <1>2, <1>5, <2>1, <2>3 DEF UoW!GiveUp
  <2> QED
    BY <2>4 DEF UoW!Next
<1> QED
  BY <1>8, <1>9, <1>10, <1>11, <1>12 DEF Moves, UnitOf

-----------------------------------------------------------------------------
(* Steps                                                                   *)

Setting == TypeOK /\ TypeOK' /\ LedgerInv /\ SaveInv /\ WriteInv /\ UnitInv

Advances == UnitInv' /\ [UoW!Next]_(UoW!unitVars)

LEMMA UnitPrime ==
    UnitInv' <=> \A o \in Sessions :
                    /\ Clean(db', ses'[o], txn'[o], Deed(o, req'[o]))
                    /\ Course(req'[o])
  BY DEF UnitInv, Clean, CleanCache, CleanTxn, Within, Present, Absent, Live, Deed, Course

LEMMA UnitParts ==
    ASSUME Setting, NEW s \in Sessions
    PROVE  /\ ses[s] \in Ses /\ txn[s] \in Txn /\ req[s] \in Req /\ StoreReady
           /\ Tag(s) \in Tags /\ Root \in Ids /\ {Root} \in SUBSET Ids
           /\ Apart(ses[s]) /\ Agrees(ses[s], txn[s]) /\ Idle(txn[s])
           /\ Stage(ses[s], txn[s], req[s])
           /\ Saved(ses[s], req[s]) /\ Told(db, outbox, s, txn[s], req[s])
           /\ Deed(s, req[s]) \in Deeds /\ Deed(s, req[s]).tag = Tag(s)
           /\ Deed(s, req[s]).writes = req[s].wset /\ Deed(s, req[s]).joins = req[s].enqueued
           /\ Clean(db, ses[s], txn[s], Deed(s, req[s])) /\ Course(req[s])
<1>1. /\ req[s] \in Req /\ Tag(s) \in Tags
      /\ Saved(ses[s], req[s]) /\ Told(db, outbox, s, txn[s], req[s])
  BY WriteParts, PartsSave DEF Setting
<1>2. Deed(s, req[s]) \in Deeds /\ Deed(s, req[s]).tag = Tag(s)
  BY <1>1 DEF Deed, Deeds, Tag, Req
<1> QED
  BY <1>1, <1>2, WriteParts DEF Setting, UnitInv, Deed

LEMMA BecomesUnit ==
    ASSUME Setting, NEW s \in Sessions, NEW S, NEW t, NEW q,
           Becomes(s, S, t, q), KeepTables, Clean(db, S, t, Deed(s, q)), Course(q),
           Moves(req[s], q)
    PROVE  Advances
<1>1. /\ ses' = [ses EXCEPT ![s] = S]
      /\ txn' = [txn EXCEPT ![s] = t]
      /\ req' = [req EXCEPT ![s] = q]
      /\ ses \in [Sessions -> Ses] /\ req \in [Sessions -> Req] /\ txn \in [Sessions -> Txn]
      /\ db' = db /\ outbox' = outbox
  BY DEF Becomes, KeepTables, Setting, TypeOK, StoreTypeOK
<1>2. q \in Req
  <2>1. req' \in [Sessions -> Req]
    BY DEF Setting, TypeOK
  <2> QED
    BY <1>1, <2>1
<1>3. ASSUME NEW o \in Sessions
      PROVE  /\ Clean(db', ses'[o], txn'[o], Deed(o, req'[o]))
             /\ Course(req'[o])
  <2>1. CASE o = s
    BY <1>1, <2>1
  <2>2. CASE o # s
    BY <1>1, <2>2 DEF Setting, UnitInv
  <2> QED
    BY <2>1, <2>2
<1>4. [UoW!Next]_(UoW!unitVars)
  BY <1>1, <1>2, UnitMoves DEF Setting
<1> QED
  BY <1>3, <1>4, UnitPrime DEF Advances

(* A request that goes on, and has at most got its answer.                 *)
Even(q, p) ==
    /\ p.run = q.run /\ p.saved = q.saved /\ p.dset = q.dset /\ p.wset = q.wset
    /\ p.enqueued = q.enqueued /\ p.committed = q.committed
    /\ p.answer = q.answer \/ q.answer = "none"

Placed(q) ==
    /\ q.pc \notin {"flush", "commit"}
    /\ q.pc = "effects" => q.committed
    /\ q.pc \in {"barrier", "load"} => q.op.name # "effect" \/ q.committed

LEMMA EvenCourse ==
    ASSUME NEW q, NEW p, Course(q), Even(q, p), Placed(p)
    PROVE  Course(p)
  BY DEF Course, Even, Placed

LEMMA EvenAdvances ==
    ASSUME Setting, NEW s \in Sessions, NEW S, NEW t, NEW q, Becomes(s, S, t, q), KeepTables,
           Clean(db, S, t, Deed(s, req[s])), Even(req[s], q), Course(q)
    PROVE  Advances
<1>1. Deed(s, q) = Deed(s, req[s])
  BY DEF Even, Deed
<1>2. Moves(req[s], q)
  BY DEF Even, Moves
<1> QED
  BY <1>1, <1>2, BecomesUnit

LEMMA StepsOn ==
    ASSUME Setting, NEW s \in Sessions, NEW S, NEW t, NEW q, Step(s, S, t, q),
           Clean(db, S, t, Deed(s, req[s])), Even(req[s], q), Placed(q)
    PROVE  Advances
<1>1. Course(req[s])
  BY UnitParts
<1> QED
  BY <1>1, EvenCourse, EvenAdvances DEF Step

-----------------------------------------------------------------------------
(* Reading                                                                 *)

LEMMA FailedEven ==
    ASSUME NEW x, NEW q \in Req, q.answer = "none", Even(x, q),
           q.op.name = "effect" => q.committed, NEW e, NEW p, p = Failed(q, e)
    PROVE  Even(x, p) /\ Placed(p)
<1>1. /\ p.run = q.run /\ p.saved = q.saved /\ p.dset = q.dset /\ p.wset = q.wset
      /\ p.enqueued = q.enqueued /\ p.committed = q.committed
  BY DEF Failed, Throw, Req
<1>2. /\ p.pc \in {"scope", "close", "effects", "handler", "caught"}
      /\ p.pc = "effects" => q.op.name = "effect"
  BY DEF Failed, Throw, Req
<1> QED
  BY <1>1, <1>2 DEF Even, Placed

LEMMA FailsUnit ==
    ASSUME Setting, NEW s \in Sessions, NEW r, r.S \in Ses, NEW q \in Req,
           q.answer = "none", Even(req[s], q), q.op.name = "effect" => q.committed,
           Clean(db, r.S, r.t, Deed(s, req[s])),
           q.op.name \in {"scope", "open"} => r.t = NoTxn, Fails(s, r, q)
    PROVE  Advances
<1>1. PICK F : F = FailedSession(q, r.S, r.exc)
  OBVIOUS
<1>2. PICK p : p = Failed(q, r.exc)
  OBVIOUS
<1>3. Step(s, F, r.t, p)
  BY <1>1, <1>2 DEF Fails
<1>4. Even(req[s], p) /\ Placed(p)
  BY <1>2, FailedEven
<1>5. Clean(db, F, r.t, Deed(s, req[s]))
  <2>1. CASE q.op.name = "open"
    <3>1. F = Abort(r.S) /\ r.t = NoTxn
      BY <1>1, <2>1 DEF FailedSession
    <3>2. Sheds(r.S, F) /\ Passes(r.S, F, r.t, r.t)
      BY <3>1, AbortSheds, NotLive
    <3> QED
      BY <3>2, CleanLess
  <2>2. CASE F = [r.S EXCEPT !.lost = TRUE]
    <3>1. Alias(r.S, F)
      BY <2>2 DEF Alias, Ses
    <3> QED
      BY <3>1, AliasClean
  <2>3. CASE F = r.S
    BY <2>3
  <2> QED
    BY <1>1, <2>1, <2>2, <2>3 DEF FailedSession
<1> QED
  BY <1>3, <1>4, <1>5, StepsOn

LEMMA RetriesUnit ==
    ASSUME Setting, NEW s \in Sessions, NEW r, r.S \in Ses, NEW q \in Req,
           q.answer = "none", Even(req[s], q), q.op.name = "effect" => q.committed,
           Clean(db, r.S, r.t, Deed(s, req[s])),
           q.op.name \in {"scope", "open"} => r.t = NoTxn,
           NEW next, Retries(s, r, q, next)
    PROVE  Advances
<1>1. PICK no \in BOOLEAN : no = FALSE
  OBVIOUS
<1>2. PICK p : p = Replay(r.S, no) /\ p = Replay(r.S, FALSE)
  BY <1>1
<1>3. p.t = NoTxn /\ p.S \in Ses
  <2>1. From(r.S, Replay(Done(r.S, NoTxn).S, FALSE))
    BY FromSelf, NoTxnType, ReplayFrom
  <2>2. Done(r.S, NoTxn).S = r.S
    BY DEF Done
  <2>3. p.t = NoTxn
    BY <1>2 DEF Replay, LostOr, Raise, Done
  <2> QED
    BY <1>2, <2>1, <2>2, <2>3, FromParts
<1>4. Clean(db, p.S, p.t, Deed(s, req[s]))
  <2>1. Wanes(r, p)
    BY <1>2, ReplayWanes
  <2> QED
    BY <2>1, WanesClean
<1>5. CASE Step(s, p.S, p.t, [q EXCEPT !.pc = "barrier", !.tries = next])
  <2>1. PICK b : b = [q EXCEPT !.pc = "barrier", !.tries = next]
    OBVIOUS
  <2>2. /\ b.run = q.run /\ b.saved = q.saved /\ b.dset = q.dset /\ b.wset = q.wset
        /\ b.enqueued = q.enqueued /\ b.committed = q.committed /\ b.answer = q.answer
        /\ b.pc = "barrier" /\ b.op = q.op
    BY <2>1 DEF Req
  <2>3. Even(req[s], b) /\ Placed(b)
    BY <2>2 DEF Even, Placed
  <2> QED
    BY <1>4, <1>5, <2>1, <2>3, StepsOn
<1>6. CASE Fails(s, p, q)
  BY <1>3, <1>4, <1>6, FailsUnit
<1>7. CASE Fails(s, r, q)
  BY <1>7, FailsUnit
<1> QED
  BY <1>2, <1>5, <1>6, <1>7 DEF Retries

LEMMA BarrierUnit ==
    ASSUME Setting, NEW s \in Sessions, NEW S \in Ses, NEW q \in Req,
           Asks(S, txn[s], q), Even(req[s], q), q.op.name = "effect" => q.committed,
           Clean(db, S, txn[s], Deed(s, req[s])), Barrier(s, S, q)
    PROVE  Advances
<1>1. txn[s] \in Txn /\ Idle(txn[s]) /\ StoreReady /\ q.answer = "none"
  BY UnitParts DEF Asks
<1>2. PICK r : r = IF q.op.load = {} THEN Done(S, txn[s])
                   ELSE ReadBarrier(s, Done(S, txn[s]))
  OBVIOUS
<1>3. Clean(db, r.S, r.t, Deed(s, req[s])) /\ r.S \in Ses
  <2>1. CASE r = Done(S, txn[s])
    BY <2>1 DEF Done
  <2>2. CASE r = ReadBarrier(s, Done(S, txn[s]))
    BY <1>1, <2>2, ReadBarrierClean, FromSelf, ReadBarrierFrom, FromParts
  <2> QED
    BY <1>2, <2>1, <2>2
<1>4. CASE Ok(r)
  <2>1. PICK n : n = Goto(q, "load")
    OBVIOUS
  <2>2. /\ n.run = q.run /\ n.saved = q.saved /\ n.dset = q.dset /\ n.wset = q.wset
        /\ n.enqueued = q.enqueued /\ n.committed = q.committed /\ n.answer = q.answer
        /\ n.pc = "load" /\ n.op = q.op
    BY <2>1 DEF Req, Goto
  <2>3. Even(req[s], n) /\ Placed(n)
    BY <2>2 DEF Even, Placed
  <2>4. Step(s, r.S, r.t, n)
    BY <1>2, <1>4, <2>1 DEF Barrier
  <2> QED
    BY <1>3, <2>3, <2>4, StepsOn
<1>5. CASE ~Ok(r)
  <2>1. q.op.name \notin {"scope", "open"}
    <3>1. r = ReadBarrier(s, Done(S, txn[s]))
      BY <1>2, <1>5 DEF Done, Ok
    <3>2. ASSUME q.op.name \in {"scope", "open"} PROVE Ok(r)
      <4>1. Early(S) /\ (S.scope => txn[s].mode # "rw") /\ (~S.scope => txn[s].mode # "ro")
        BY <3>2 DEF Asks
      <4> QED
        BY <1>1, <3>1, <4>1, EarlyBarrier
    <3> QED
      BY <1>5, <3>2
  <2>2. Retries(s, r, q, q.tries + 1)
    BY <1>2, <1>5 DEF Barrier
  <2> QED
    BY <1>1, <1>3, <2>1, <2>2, RetriesUnit
<1> QED
  BY <1>4, <1>5

LEMMA ReadUnit ==
    ASSUME Setting, NEW s \in Sessions, NEW S \in Ses,
           Clean(db, S, txn[s], Deed(s, req[s])),
           NEW name \in OpNames, NEW id \in Ids, NEW L \in SUBSET Ids,
           Read(s, S, name, id, L), req[s].answer = "none",
           name \in {"scope", "open"} => Early(S),
           name = "scope" => S.scope /\ S.cached = {} /\ txn[s].mode # "rw",
           name = "open" => ~S.scope /\ txn[s].mode # "ro",
           name = "effect" => req[s].committed
    PROVE  Advances
<1>1. PICK o : o = [name |-> name, id |-> id, load |-> Missing(S, L)]
  OBVIOUS
<1>2. o \in Op /\ o.name = name
  BY <1>1 DEF Op, Missing
<1>3. PICK q : q = [req[s] EXCEPT !.tries = 0, !.op = o]
  OBVIOUS
<1>4. /\ q \in Req /\ q.op = o /\ q.answer = "none"
      /\ q.run = req[s].run /\ q.saved = req[s].saved /\ q.dset = req[s].dset
      /\ q.wset = req[s].wset /\ q.enqueued = req[s].enqueued
      /\ q.committed = req[s].committed
  BY <1>2, <1>3, UnitParts DEF Req
<1>5. Asks(S, txn[s], q)
  BY <1>2, <1>4 DEF Asks
<1>6. Even(req[s], q)
  BY <1>4 DEF Even
<1> QED
  BY <1>1, <1>2, <1>3, <1>4, <1>5, <1>6, BarrierUnit DEF Read

(* What a request at pc "load" has read.                                   *)
LEMMA LoadedUnit ==
    ASSUME Setting, NEW s \in Sessions, At(s, "load")
    PROVE  LET r == Loaded(s)
           IN  /\ r.S \in Ses /\ r.t \in Txn /\ req[s].answer = "none"
               /\ Clean(db, r.S, r.t, Deed(s, req[s]))
               /\ ~Ok(r) => r.t = NoTxn
               /\ Ok(r) /\ req[s].op.name = "open" => Early(r.S) /\ r.t.mode # "ro"
<1>1. /\ ses[s] \in Ses /\ txn[s] \in Txn /\ Idle(txn[s]) /\ req[s].op.load \in SUBSET Ids
      /\ Clean(db, ses[s], txn[s], Deed(s, req[s]))
  BY UnitParts DEF Req, Op
<1>2. PICK r : r = Loaded(s)
  OBVIOUS
<1>3. /\ r.S \in Ses /\ r.t \in Txn /\ req[s].answer = "none"
      /\ ~Ok(r) => r = Raise(ses[s], NoTxn, "db")
      /\ Ok(r) => Opens(r.S, r.t, req[s])
  BY <1>2, LoadedLedger DEF Setting
<1>4. Clean(db, r.S, r.t, Deed(s, req[s]))
  <2>1. CASE r = Done(ses[s], txn[s])
    BY <1>1, <2>1 DEF Done
  <2>2. CASE r = LoadFull(Done(ses[s], txn[s]), req[s].op.load)
    BY <1>1, <2>2, LoadFullClean
  <2> QED
    BY <1>2, <2>1, <2>2 DEF Loaded
<1> QED
  BY <1>2, <1>3, <1>4 DEF Raise, Opens

LEMMA GotoEven ==
    ASSUME NEW q \in Req, NEW pc, NEW p, p = Goto(q, pc)
    PROVE  /\ Even(q, p) /\ p.pc = pc /\ p.op = q.op /\ p.answer = q.answer
           /\ pc \notin {"flush", "commit", "effects", "barrier", "load"} => Placed(p)
<1>1. /\ p.run = q.run /\ p.saved = q.saved /\ p.dset = q.dset /\ p.wset = q.wset
      /\ p.enqueued = q.enqueued /\ p.committed = q.committed /\ p.answer = q.answer
      /\ p.pc = pc /\ p.op = q.op
  BY DEF Goto, Req
<1> QED
  BY <1>1 DEF Even, Placed

LEMMA ArrivalUnit ==
    ASSUME Setting, NEW s \in Sessions, Arrive(s) \/ Open(s)
    PROVE  Advances
<1>1. /\ ses[s] \in Ses /\ req[s] \in Req /\ Root \in Ids /\ {Root} \in SUBSET Ids
      /\ Stage(ses[s], txn[s], req[s]) /\ Clean(db, ses[s], txn[s], Deed(s, req[s]))
  BY UnitParts
<1>2. /\ req[s].pc \in {"arrive", "open"} /\ req[s].answer = "none"
      /\ Early(ses[s]) /\ txn[s] = NoTxn /\ ~ses[s].scope /\ txn[s].mode = "none"
      /\ req[s].pc = "arrive" => ses[s].cached = {}
  BY <1>1, NoTxnParts DEF Arrive, Open, At, Stage
<1>3. "scope" \in OpNames /\ "open" \in OpNames
  BY DEF OpNames
<1>4. CASE Step(s, ses[s], txn[s], Goto(req[s], "open"))
  BY <1>1, <1>4, GotoEven, StepsOn
<1>5. CASE /\ At(s, "arrive")
           /\ Read(s, [ses[s] EXCEPT !.scope = TRUE], "scope", Root, {Root})
  <2>1. PICK S : S = [ses[s] EXCEPT !.scope = TRUE]
    OBVIOUS
  <2>2. /\ S \in Ses /\ S.scope /\ S.cached = ses[s].cached /\ S.dirty = ses[s].dirty
        /\ S.deleted = ses[s].deleted /\ S.lost = ses[s].lost /\ S.raised = ses[s].raised
        /\ S.unit = ses[s].unit /\ S.ups = ses[s].ups /\ S.rem = ses[s].rem
        /\ S.joined = ses[s].joined /\ S.mem = ses[s].mem
    BY <1>1, <2>1 DEF Ses
  <2>3. Early(S)
    <3>1. InFlight(S) = InFlight(ses[s])
      BY <2>2 DEF InFlight, Upserted
    <3> QED
      BY <1>2, <2>2, <3>1 DEF Early
  <2>4. Clean(db, S, txn[s], Deed(s, req[s]))
    BY <1>1, <2>2, AliasClean DEF Alias
  <2>5. Read(s, S, "scope", Root, {Root}) /\ S.cached = {} /\ txn[s].mode # "rw"
    BY <1>2, <1>5, <2>1, <2>2 DEF At
  <2> QED
    BY <1>1, <1>2, <1>3, <2>2, <2>3, <2>4, <2>5, ReadUnit
<1>6. CASE Open(s)
  <2>1. Read(s, ses[s], "open", Root, {Root}) /\ txn[s].mode # "ro"
    BY <1>2, <1>6 DEF Open
  <2> QED
    BY <1>1, <1>2, <1>3, <2>1, ReadUnit
<1> QED
  BY <1>4, <1>5, <1>6 DEF Arrive

LEMMA ScopeUnit ==
    ASSUME Setting, NEW s \in Sessions, ScopeLoaded(s) \/ ExitScope(s)
    PROVE  Advances
<1>1. ses[s] \in Ses /\ req[s] \in Req /\ Clean(db, ses[s], txn[s], Deed(s, req[s]))
  BY UnitParts
<1>2. CASE ScopeLoaded(s)
  <2>1. At(s, "load") /\ Step(s, Loaded(s).S, Loaded(s).t, Goto(req[s], "scope"))
    BY <1>2 DEF ScopeLoaded, Loading
  <2> QED
    BY <1>1, <2>1, LoadedUnit, GotoEven, StepsOn
<1>3. CASE ExitScope(s)
  <2>1. PICK S : S = [ses[s] EXCEPT !.scope = FALSE]
    OBVIOUS
  <2>2. S \in Ses /\ Alias(ses[s], S)
    BY <1>1, <2>1 DEF Ses, Alias
  <2>3. Clean(db, S, txn[s], Deed(s, req[s]))
    BY <1>1, <2>2, AliasClean
  <2>4. PICK pc : pc = (IF req[s].answer = "none" THEN "open" ELSE "answered")
    OBVIOUS
  <2>5. PICK C : C = IF txn[s].dead THEN Rollback(S) ELSE Promote(S)
    OBVIOUS
  <2>6. C \in Ses /\ Sheds(S, C)
    BY <2>2, <2>5, RollbackSheds, PromoteSheds, RollbackKeeps, PromoteKeeps DEF Keeps
  <2>7. Clean(db, DropSnapshotReads(C), NoTxn, Deed(s, req[s]))
    <3>1. Sheds(S, DropSnapshotReads(C))
      BY <2>6, DropSheds, ShedsAgain
    <3> QED
      BY <2>3, <3>1, NotLive, CleanLess
  <2>8. \/ Step(s, DropSnapshotReads(C), NoTxn, Goto(req[s], pc))
        \/ Step(s, S, txn[s], Goto(req[s], pc))
    BY <1>3, <2>1, <2>4, <2>5 DEF ExitScope
  <2>9. Even(req[s], Goto(req[s], pc)) /\ Placed(Goto(req[s], pc))
    BY <1>1, <2>4, GotoEven
  <2> QED
    BY <2>3, <2>7, <2>8, <2>9, StepsOn
<1> QED
  BY <1>2, <1>3

LEMMA OpenUnitUnit ==
    ASSUME Setting, NEW s \in Sessions, OpenUnit(s)
    PROVE  Advances
<1>1. req[s] \in Req
  BY UnitParts
<1>2. PICK r : r = Loaded(s) /\ r \in Outcome
  <2>1. From(ses[s], Loaded(s))
    BY LoadedFrom DEF Setting
  <2> QED
    BY <2>1 DEF From
<1>3. /\ req[s].op.name = "open" /\ Ok(r) /\ At(s, "load")
  BY <1>2 DEF OpenUnit, Loading
<1>4. /\ r.S \in Ses /\ r.t \in Txn /\ req[s].answer = "none"
      /\ Clean(db, r.S, r.t, Deed(s, req[s]))
  BY <1>2, <1>3, LoadedUnit
<1>5. PICK U : U = Unit(r.S) /\ U \in Ses
  BY <1>4, UnitType
<1>6. Clean(db, U, r.t, Deed(s, req[s]))
  <2>1. Alias(r.S, U)
    BY <1>4, <1>5 DEF Alias, Unit, Ses
  <2> QED
    BY <1>4, <2>1, AliasClean
<1>7. PICK u : u = UnitEnter(r)
  OBVIOUS
<1>8. Clean(db, u.S, u.t, Deed(s, req[s]))
  <2>1. CASE u = [r EXCEPT !.S = Unit(@)]
    <3>1. u.S = U /\ u.t = r.t
      BY <1>2, <1>5, <2>1 DEF Outcome
    <3> QED
      BY <1>6, <3>1
  <2>2. CASE u = EnsureTxn(Done(U, r.t))
    <3>1. PICK e : e = Done(U, r.t) /\ From(U, e)
      BY <1>4, <1>5, FromSelf
    <3>2. e.S = U /\ e.t = r.t /\ Wanes(e, u)
      BY <2>2, <3>1, EnsureTxnWanes DEF Done
    <3> QED
      BY <1>6, <3>2, WanesClean
  <2> QED
    BY <1>5, <1>7, <2>1, <2>2 DEF UnitEnter
<1>9. PICK q : /\ q = IF Ok(u) THEN Goto(req[s], "body") ELSE Failed(req[s], u.exc)
  OBVIOUS
<1>10. Step(s, u.S, u.t, q)
  BY <1>2, <1>7, <1>9 DEF OpenUnit
<1>11. Even(req[s], q) /\ Placed(q)
  <2>1. CASE q = Goto(req[s], "body")
    BY <1>1, <2>1, GotoEven
  <2>2. CASE q = Failed(req[s], u.exc)
    BY <1>1, <1>3, <1>4, <2>2, FailedEven DEF Even
  <2> QED
    BY <1>9, <2>1, <2>2
<1> QED
  BY <1>8, <1>10, <1>11, StepsOn

LEMMA RereadUnit ==
    ASSUME Setting, NEW s \in Sessions, BarrierAgain(s) \/ LoadFails(s)
    PROVE  Advances
<1>1. /\ ses[s] \in Ses /\ req[s] \in Req /\ Stage(ses[s], txn[s], req[s])
      /\ Clean(db, ses[s], txn[s], Deed(s, req[s])) /\ Course(req[s])
  BY UnitParts
<1>2. /\ Asks(ses[s], txn[s], req[s]) /\ req[s].answer = "none"
      /\ req[s].pc \in {"barrier", "load"}
  BY <1>1 DEF Stage, Asks, BarrierAgain, LoadFails, At
<1>3. Even(req[s], req[s]) /\ (req[s].op.name = "effect" => req[s].committed)
  BY <1>1, <1>2 DEF Even, Course
<1>4. CASE BarrierAgain(s)
  BY <1>1, <1>2, <1>3, <1>4, BarrierUnit DEF BarrierAgain
<1>5. CASE LoadFails(s)
  <2>1. PICK r : r = Loaded(s) /\ r.S \in Ses /\ r.t = NoTxn
                 /\ Clean(db, r.S, r.t, Deed(s, req[s]))
    BY <1>5, LoadedUnit DEF LoadFails
  <2>2. PICK next : Retries(s, r, req[s], next)
    BY <1>5, <2>1 DEF LoadFails
  <2> QED
    BY <1>1, <1>2, <1>3, <2>1, <2>2, RetriesUnit
<1> QED
  BY <1>4, <1>5

(* Each attempt but the first resolves the root again.                     *)
LEMMA ReloadUnit ==
    ASSUME Setting, NEW s \in Sessions, Reload(s) \/ Reloaded(s)
    PROVE  Advances
<1>1. /\ ses[s] \in Ses /\ req[s] \in Req /\ Root \in Ids /\ {Root} \in SUBSET Ids
      /\ Stage(ses[s], txn[s], req[s]) /\ Clean(db, ses[s], txn[s], Deed(s, req[s]))
  BY UnitParts
<1>2. CASE Reload(s)
  <2>1. req[s].answer = "none" /\ "reload" \in OpNames
    BY <1>1, <1>2 DEF Reload, At, Stage, OpNames
  <2>2. Read(s, ses[s], "reload", Root, {Root})
    BY <1>2 DEF Reload
  <2> QED
    BY <1>1, <2>1, <2>2, ReadUnit
<1>3. CASE Reloaded(s)
  <2>1. At(s, "load") /\ Step(s, Loaded(s).S, Loaded(s).t, Goto(req[s], "body"))
    BY <1>3 DEF Reloaded, Loading
  <2> QED
    BY <1>1, <2>1, LoadedUnit, GotoEven, StepsOn
<1> QED
  BY <1>2, <1>3

-----------------------------------------------------------------------------
(* The walker and the effects                                              *)

(* An attempt that goes on, and may have written more anchors.             *)
Writes(q, p, W) ==
    /\ p.answer = "none" /\ p.run = q.run /\ p.saved = q.saved /\ p.dset = q.dset
    /\ p.committed = q.committed /\ p.enqueued = q.enqueued /\ p.wset = q.wset \cup W

LEMMA CountedGoes ==
    ASSUME Setting, NEW s \in Sessions, NEW G, G = Counted(s)
    PROVE  /\ G \in Req /\ G.pc = req[s].pc /\ G.answer = req[s].answer /\ G.op = req[s].op
           /\ G.run = req[s].run /\ G.saved = req[s].saved /\ G.dset = req[s].dset
           /\ G.wset = req[s].wset /\ G.enqueued = req[s].enqueued
           /\ G.committed = req[s].committed /\ G.kind = req[s].kind
<1>1. req[s] \in Req /\ TypeOK
  BY UnitParts DEF Setting
<1> QED
  BY <1>1, CountedType DEF Counted, Req

LEMMA MoreUnit ==
    ASSUME Setting, NEW s \in Sessions, req[s].answer = "none", NEW W \in SUBSET Ids,
           NEW p, Writes(req[s], p, W), Placed(p), NEW S, NEW t, Step(s, S, t, p),
           Clean(db, S, t, Deed(s, p))
    PROVE  Advances
<1>1. Course(req[s])
  BY UnitParts
<1>2. Course(p)
  BY <1>1 DEF Course, Writes, Placed
<1>3. Moves(req[s], p)
  BY DEF Moves, Writes
<1> QED
  BY <1>2, <1>3, BecomesUnit DEF Step

(* What the session of an attempt that writes more holds.                  *)
LEMMA MoreClean ==
    ASSUME Setting, NEW s \in Sessions, NEW W \in SUBSET Ids, NEW p,
           Writes(req[s], p, W), NEW S \in Ses, NEW t, Clean(db, S, t, Deed(s, req[s]))
    PROVE  /\ Clean(db, S, t, Deed(s, p))
           /\ \A id \in W :
                 /\ id \in S.cached => /\ Clean(db, Write(S, id, Tag(s)), t, Deed(s, p))
                                       /\ Clean(db, Mutate(S, id, Tag(s)), t, Deed(s, p))
                 /\ Clean(db, Put(S, id, Tag(s)), t, Deed(s, p))
           /\ \A id \in W, root \in W : root \in S.cached =>
                 Clean(db, Write(Put(S, id, Tag(s)), root, Tag(s)), t, Deed(s, p))
<1>1. PICK k, l : k = Deed(s, req[s]) /\ l = Deed(s, p)
  OBVIOUS
<1>2. Extends(k, l) /\ W \subseteq l.writes /\ l.tag = Tag(s)
  BY <1>1 DEF Extends, Deed, Writes, Tag
<1>3. Clean(db, S, t, l)
  BY <1>1, <1>2, CleanMore
<1>4. ASSUME NEW id \in W
      PROVE  /\ id \in S.cached => /\ Clean(db, Write(S, id, Tag(s)), t, l)
                                   /\ Clean(db, Mutate(S, id, Tag(s)), t, l)
             /\ Clean(db, Put(S, id, Tag(s)), t, l)
  BY <1>2, <1>3, WriteClean
<1>5. ASSUME NEW id \in W, NEW root \in W, root \in S.cached
      PROVE  Clean(db, Write(Put(S, id, Tag(s)), root, Tag(s)), t, l)
  <2>1. PICK P : P = Put(S, id, Tag(s))
    OBVIOUS
  <2>2. P \in Ses /\ Clean(db, P, t, l)
    <3>1. Tag(s) \in Tags /\ id \in Ids
      BY UnitParts
    <3> QED
      BY <1>4, <2>1, <3>1, WriteKeeps DEF Keeps
  <2>3. root \in P.cached
    BY <1>5, <2>1 DEF Put, Ses
  <2> QED
    BY <1>2, <1>5, <2>1, <2>2, <2>3, WriteClean
<1> QED
  BY <1>1, <1>3, <1>4, <1>5

LEMMA WalkerReadsUnit ==
    ASSUME Setting, NEW s \in Sessions,
           Get(s) \/ FindChild(s) \/ ReadOp(s) \/ FoundOp(s)
    PROVE  Advances
<1>1. /\ ses[s] \in Ses /\ req[s] \in Req /\ Root \in Ids
      /\ Stage(ses[s], txn[s], req[s]) /\ Clean(db, ses[s], txn[s], Deed(s, req[s]))
  BY UnitParts
<1>2. CASE Get(s) \/ FindChild(s)
  <2>1. PICK name \in OpNames \ {"scope", "open", "effect"}, id \in Ids, L \in SUBSET Ids :
          Read(s, ses[s], name, id, L) /\ At(s, "body")
    <3>1. CASE Get(s)
      <4>1. PICK name \in {"read", "write", "mutate", "delete"}, id \in Targets :
              CanOp(s, name) /\ Read(s, ses[s], name, id, {id})
        BY <3>1 DEF Get
      <4>2. name \in OpNames \ {"scope", "open", "effect"} /\ At(s, "body")
        BY <4>1 DEF CanOp, OpNames
      <4>3. id \in Ids /\ {id} \in SUBSET Ids
        BY RequestAssumption
      <4> QED
        BY <4>1, <4>2, <4>3
    <3>2. CASE FindChild(s)
      <4>1. PICK name \in {"find", "count"} :
              /\ CanOp(s, name)
              /\ Read(s, ses[s], name, Root,
                      IF name = "count" THEN Children \cup {Root} ELSE Children)
        BY <3>2 DEF FindChild
      <4>2. PICK L : L = IF name = "count" THEN Children \cup {Root} ELSE Children
        OBVIOUS
      <4>3. name \in OpNames \ {"scope", "open", "effect"} /\ At(s, "body")
        BY <4>1 DEF CanOp, OpNames
      <4>4. L \in SUBSET Ids
        BY <1>1, <4>2, MintType
      <4> QED
        BY <1>1, <4>1, <4>2, <4>3, <4>4
    <3> QED
      BY <1>2, <3>1, <3>2
  <2>2. req[s].answer = "none"
    BY <1>1, <2>1 DEF At, Stage
  <2> QED
    BY <1>1, <2>1, <2>2, ReadUnit
<1>3. CASE ReadOp(s) \/ FoundOp(s)
  <2>1. PICK G : G = Counted(s)
    OBVIOUS
  <2>2. At(s, "load") /\ Step(s, Loaded(s).S, Loaded(s).t, Goto(G, "body"))
    BY <1>3, <2>1 DEF ReadOp, FoundOp, Loading
  <2>3. PICK p : p = Goto(G, "body")
    OBVIOUS
  <2>4. Even(req[s], p) /\ Placed(p)
    BY <2>1, <2>3, CountedGoes, GotoEven DEF Even
  <2> QED
    BY <2>2, <2>3, <2>4, LoadedUnit, StepsOn
<1> QED
  BY <1>2, <1>3

LEMMA ChangeUnit ==
    ASSUME Setting, NEW s \in Sessions, WriteOp(s) \/ MutateOp(s)
    PROVE  Advances
<1>1. PICK id \in Ids : id = req[s].op.id
  BY UnitParts DEF Req, Op
<1>2. PICK G : G = Counted(s)
  OBVIOUS
<1>3. PICK r : r = Loaded(s)
  OBVIOUS
<1>4. At(s, "load") /\ id \in r.S.cached
  BY <1>1, <1>3 DEF WriteOp, MutateOp, Finds, Found, Loading
<1>5. /\ r.S \in Ses /\ req[s].answer = "none" /\ Clean(db, r.S, r.t, Deed(s, req[s]))
  BY <1>3, <1>4, LoadedUnit
<1>6. PICK p : p = [G EXCEPT !.pc = "body", !.wset = @ \cup {id}]
  OBVIOUS
<1>7. Writes(req[s], p, {id}) /\ Placed(p)
  BY <1>2, <1>5, <1>6, CountedGoes DEF Writes, Placed, Req
<1>8. PICK S : /\ S = Write(r.S, id, Tag(s)) \/ S = Mutate(r.S, id, Tag(s))
               /\ Step(s, S, r.t, p)
  BY <1>1, <1>2, <1>3, <1>6 DEF WriteOp, MutateOp
<1>9. Clean(db, S, r.t, Deed(s, p))
  BY <1>4, <1>5, <1>7, <1>8, MoreClean
<1> QED
  BY <1>5, <1>7, <1>8, <1>9, MoreUnit

LEMMA CreateUnit ==
    ASSUME Setting, NEW s \in Sessions,
           FindOrCreateOp(s) \/ FindOrCountOp(s) \/ CreateOp(s)
    PROVE  Advances
<1>1. ses[s] \in Ses /\ Root \in Ids /\ Clean(db, ses[s], txn[s], Deed(s, req[s]))
      /\ Stage(ses[s], txn[s], req[s])
  BY UnitParts
<1>2. PICK G : G = Counted(s)
  OBVIOUS
<1>3. PICK r : r = Loaded(s)
  OBVIOUS
<1>4. CASE FindOrCreateOp(s)
  <2>1. PICK id \in Mint[s] \ req[s].used :
          Step(s, Put(r.S, id, Tag(s)), r.t,
               [G EXCEPT !.pc = "body", !.wset = @ \cup {id}, !.used = @ \cup {id}])
    BY <1>2, <1>3, <1>4 DEF FindOrCreateOp
  <2>2. PICK p : p = [G EXCEPT !.pc = "body", !.wset = @ \cup {id}, !.used = @ \cup {id}]
    OBVIOUS
  <2>3. At(s, "load") /\ id \in Ids
    BY <1>4, <2>1, MintType DEF FindOrCreateOp, Loading
  <2>4. r.S \in Ses /\ req[s].answer = "none" /\ Clean(db, r.S, r.t, Deed(s, req[s]))
    BY <1>3, <2>3, LoadedUnit
  <2>5. Writes(req[s], p, {id}) /\ Placed(p)
    BY <1>2, <2>2, <2>4, CountedGoes DEF Writes, Placed, Req
  <2>6. Clean(db, Put(r.S, id, Tag(s)), r.t, Deed(s, p))
    BY <2>3, <2>4, <2>5, MoreClean
  <2> QED
    BY <2>1, <2>2, <2>3, <2>4, <2>5, <2>6, MoreUnit
<1>5. CASE FindOrCountOp(s)
  <2>1. PICK id \in Mint[s] \ req[s].used :
          Step(s, Write(Put(r.S, id, Tag(s)), Root, Tag(s)), r.t,
               [G EXCEPT !.pc = "body", !.wset = @ \cup {id, Root}, !.used = @ \cup {id}])
    BY <1>2, <1>3, <1>5 DEF FindOrCountOp
  <2>2. PICK p : p = [G EXCEPT !.pc = "body", !.wset = @ \cup {id, Root},
                               !.used = @ \cup {id}]
    OBVIOUS
  <2>3. At(s, "load") /\ id \in Ids /\ Ok(r) /\ req[s].op.name = "count"
    BY <1>3, <1>5, <2>1, MintType DEF FindOrCountOp, Loading
  <2>4. /\ r.S \in Ses /\ req[s].answer = "none" /\ Clean(db, r.S, r.t, Deed(s, req[s]))
        /\ Root \in r.S.cached
    BY <1>3, <2>3, LoadedUnit, LoadedBody DEF Setting
  <2>5. PICK W \in SUBSET Ids : W = {id, Root}
    BY <1>1, <2>3
  <2>6. Writes(req[s], p, W) /\ Placed(p)
    BY <1>2, <2>2, <2>4, <2>5, CountedGoes DEF Writes, Placed, Req
  <2>7. Clean(db, Write(Put(r.S, id, Tag(s)), Root, Tag(s)), r.t, Deed(s, p))
    <3>1. id \in W /\ Root \in W
      BY <2>5
    <3> QED
      BY <2>4, <2>6, <3>1, MoreClean
  <2> QED
    BY <2>1, <2>2, <2>4, <2>6, <2>7, MoreUnit
<1>6. CASE CreateOp(s)
  <2>1. PICK id \in Mint[s] \ req[s].used :
          Step(s, Put(ses[s], id, Tag(s)), txn[s],
               [G EXCEPT !.wset = @ \cup {id}, !.used = @ \cup {id}])
    BY <1>2, <1>6 DEF CreateOp
  <2>2. PICK p : p = [G EXCEPT !.wset = @ \cup {id}, !.used = @ \cup {id}]
    OBVIOUS
  <2>3. req[s].pc = "body" /\ id \in Ids /\ req[s].answer = "none"
    BY <1>1, <1>6, <2>1, MintType DEF CreateOp, CanOp, At, Stage
  <2>4. Writes(req[s], p, {id}) /\ Placed(p)
    BY <1>2, <2>2, <2>3, CountedGoes DEF Writes, Placed, Req
  <2>5. Clean(db, Put(ses[s], id, Tag(s)), txn[s], Deed(s, p))
    BY <1>1, <2>3, <2>4, MoreClean
  <2> QED
    BY <2>1, <2>2, <2>3, <2>4, <2>5, MoreUnit
<1> QED
  BY <1>4, <1>5, <1>6

LEMMA EnqueueUnit ==
    ASSUME Setting, NEW s \in Sessions, EnqueueOp(s)
    PROVE  Advances
<1>1. /\ ses[s] \in Ses /\ txn[s] \in Txn /\ StoreReady /\ Stage(ses[s], txn[s], req[s])
      /\ Deed(s, req[s]) \in Deeds /\ Deed(s, req[s]).tag = Tag(s) /\ Course(req[s])
      /\ Clean(db, ses[s], txn[s], Deed(s, req[s]))
  BY UnitParts
<1>2. PICK G : G = Counted(s)
  OBVIOUS
<1>3. req[s].pc = "body" /\ req[s].answer = "none"
  BY <1>1 DEF EnqueueOp, CanOp, At, Stage
<1>4. PICK d : d = Done(ses[s], txn[s]) /\ From(ses[s], d)
  BY <1>1, FromSelf
<1>5. d.S = ses[s] /\ d.t = txn[s]
  BY <1>4 DEF Done
<1>6. PICK k \in Deeds : k = Deed(s, req[s])
  BY <1>1
<1>7. PICK r : r = Join(d, Tag(s))
  OBVIOUS
<1>8. PICK l : l = [k EXCEPT !.joins = TRUE]
  OBVIOUS
<1>9. (Ok(r) => Clean(db, r.S, r.t, l)) /\ (~Ok(r) => Clean(db, r.S, r.t, k))
  <2>1. r = Join(d, k.tag)
    BY <1>1, <1>6, <1>7
  <2> QED
    BY <1>1, <1>4, <1>5, <1>6, <1>8, <2>1, JoinClean
<1>10. CASE Ok(r)
  <2>1. PICK p : p = [G EXCEPT !.enqueued = TRUE]
    OBVIOUS
  <2>2. Step(s, r.S, r.t, p)
    BY <1>2, <1>4, <1>7, <1>10, <2>1 DEF EnqueueOp
  <2>3. /\ p.pc = "body" /\ p.answer = "none" /\ p.run = req[s].run
        /\ p.saved = req[s].saved /\ p.dset = req[s].dset /\ p.wset = req[s].wset
        /\ p.committed = req[s].committed /\ p.enqueued
    BY <1>2, <1>3, <2>1, CountedGoes DEF Req
  <2>4. Deed(s, p) = l
    <3>1. l = [tag |-> k.tag, writes |-> k.writes, joins |-> TRUE]
      BY <1>8 DEF Deeds
    <3>2. k.tag = <<s, req[s].run>> /\ k.writes = req[s].wset
      BY <1>6 DEF Deed
    <3>3. p.enqueued = TRUE
      <4>1. G \in Req
        BY <1>2, CountedGoes
      <4> QED
        BY <2>1, <4>1 DEF Req
    <3> QED
      BY <2>3, <3>1, <3>2, <3>3 DEF Deed
  <2>5. Course(p) /\ Moves(req[s], p)
    BY <1>1, <1>3, <2>3 DEF Course, Moves
  <2> QED
    BY <1>9, <1>10, <2>2, <2>4, <2>5, BecomesUnit DEF Step
<1>11. CASE ~Ok(r)
  <2>1. PICK p : p = [G EXCEPT !.pc = "caught", !.exc = r.exc]
    OBVIOUS
  <2>2. Step(s, r.S, r.t, p)
    BY <1>2, <1>4, <1>7, <1>11, <2>1 DEF EnqueueOp
  <2>3. Even(req[s], p) /\ Placed(p)
    BY <1>2, <1>3, <2>1, CountedGoes DEF Even, Placed, Req
  <2> QED
    BY <1>6, <1>9, <1>11, <2>2, <2>3, StepsOn
<1> QED
  BY <1>10, <1>11

LEMMA WalkerUnit ==
    ASSUME Setting, OpsAssumed, NEW s \in Sessions, Walker(s)
    PROVE  Advances
<1>1. /\ req[s] \in Req /\ Stage(ses[s], txn[s], req[s]) /\ Course(req[s])
      /\ Clean(db, ses[s], txn[s], Deed(s, req[s])) /\ Told(db, outbox, s, txn[s], req[s])
  BY UnitParts
<1>2. PICK G : G = Counted(s)
  OBVIOUS
<1>3. CASE OnCommitOp(s) \/ FailOp(s)
  <2>1. req[s].pc = "body"
    BY <1>3 DEF OnCommitOp, FailOp, CanOp, At
  <2>2. PICK p : /\ Step(s, ses[s], txn[s], p)
                 /\ \/ p = [G EXCEPT !.effect = TRUE]
                    \/ p = [G EXCEPT !.pc = "handler", !.exc = "app"]
    BY <1>2, <1>3 DEF OnCommitOp, FailOp, Throw
  <2>3. /\ p.run = G.run /\ p.saved = G.saved /\ p.dset = G.dset /\ p.wset = G.wset
        /\ p.enqueued = G.enqueued /\ p.committed = G.committed /\ p.answer = G.answer
        /\ p.pc = G.pc \/ p.pc = "handler"
    <3>1. G \in Req
      BY <1>2, CountedGoes
    <3>2. CASE p = [G EXCEPT !.effect = TRUE]
      BY <3>1, <3>2 DEF Req
    <3>3. CASE p = [G EXCEPT !.pc = "handler", !.exc = "app"]
      BY <3>1, <3>3 DEF Req
    <3> QED
      BY <2>2, <3>2, <3>3
  <2>4. Even(req[s], p) /\ Placed(p)
    BY <1>2, <2>1, <2>3, CountedGoes DEF Even, Placed
  <2> QED
    BY <1>1, <2>2, <2>4, StepsOn
<1>4. CASE Propagate(s) \/ Swallow(s)
  <2>1. PICK p : /\ Step(s, ses[s], txn[s], p)
                 /\ \/ p = [req[s] EXCEPT !.pc = "handler"]
                    \/ p = [req[s] EXCEPT !.pc = "body", !.exc = "none"]
    BY <1>4 DEF Propagate, Swallow, Goto
  <2>2. Even(req[s], p) /\ Placed(p)
    BY <1>1, <2>1 DEF Even, Placed, Req
  <2> QED
    BY <1>1, <2>1, <2>2, StepsOn
<1>5. CASE Return(s)
  <2>1. PICK p : p = [req[s] EXCEPT !.pc = "flush", !.kind = "final", !.tries = 0]
    OBVIOUS
  <2>2. Step(s, ses[s], txn[s], p)
    BY <1>5, <2>1 DEF Return
  <2>3. /\ p.run = req[s].run /\ p.saved = req[s].saved /\ p.dset = req[s].dset
        /\ p.wset = req[s].wset /\ p.enqueued = req[s].enqueued
        /\ p.committed = req[s].committed /\ p.answer = req[s].answer
        /\ p.pc = "flush" /\ p.kind = "final"
    BY <1>1, <2>1 DEF Req
  <2>4. Even(req[s], p) /\ Course(p)
    BY <1>1, <2>3 DEF Even, Course
  <2> QED
    BY <1>1, <2>2, <2>4, EvenAdvances DEF Step
<1>6. ~DeleteOp(s)
  BY <1>1 DEF DeleteOp, Finds, Loading, Told
<1>7. ~WalkEnds(s)
  BY DEF WalkEnds, CanOp, OpsAssumed
<1> QED
  BY <1>3, <1>4, <1>5, <1>6, <1>7, WalkerReadsUnit, ChangeUnit, CreateUnit, EnqueueUnit
     DEF Walker

LEMMA EffectsUnit ==
    ASSUME Setting, NEW s \in Sessions,
           \/ NoEffect(s) \/ PlainEffect(s) \/ WritingEffect(s) \/ EffectWrites(s)
    PROVE  Advances
<1>1. /\ ses[s] \in Ses /\ req[s] \in Req /\ Root \in Ids /\ {Root} \in SUBSET Ids
      /\ Stage(ses[s], txn[s], req[s]) /\ Course(req[s])
      /\ Clean(db, ses[s], txn[s], Deed(s, req[s])) /\ Told(db, outbox, s, txn[s], req[s])
  BY UnitParts
<1>2. PICK F : F = Fired(s)
  OBVIOUS
<1>3. /\ F \in Req /\ F.run = req[s].run /\ F.saved = req[s].saved /\ F.dset = req[s].dset
      /\ F.wset = req[s].wset /\ F.enqueued = req[s].enqueued /\ F.pc = req[s].pc
      /\ F.committed = req[s].committed /\ F.answer = req[s].answer
  BY <1>1, <1>2, FiredType DEF Fired, Req, Setting
<1>4. CASE NoEffect(s)
  <2>1. PICK p : p = [req[s] EXCEPT !.pc = "flush", !.kind = "outer", !.tries = 0]
    OBVIOUS
  <2>2. Step(s, ses[s], txn[s], p) /\ req[s].pc = "effects"
    BY <1>4, <2>1 DEF NoEffect, At
  <2>3. /\ p.run = req[s].run /\ p.saved = req[s].saved /\ p.dset = req[s].dset
        /\ p.wset = req[s].wset /\ p.enqueued = req[s].enqueued
        /\ p.committed = req[s].committed /\ p.answer = req[s].answer
        /\ p.pc = "flush" /\ p.kind = "outer"
    BY <1>1, <2>1 DEF Req
  <2>4. Even(req[s], p) /\ Course(p)
    BY <1>1, <2>2, <2>3 DEF Even, Course
  <2> QED
    BY <1>1, <2>2, <2>4, EvenAdvances DEF Step
<1>5. CASE PlainEffect(s)
  <2>1. Step(s, ses[s], txn[s], F) /\ req[s].pc = "effects"
    BY <1>2, <1>5 DEF PlainEffect, At
  <2>2. Even(req[s], F) /\ Placed(F)
    BY <1>1, <1>3, <2>1 DEF Even, Placed, Course
  <2> QED
    BY <1>1, <2>1, <2>2, StepsOn
<1>6. CASE WritingEffect(s)
  <2>1. /\ Read(s, ses[s], "effect", Root, {Root}) /\ "effect" \in OpNames
        /\ req[s].pc = "effects"
    BY <1>6 DEF WritingEffect, At, OpNames
  <2>2. req[s].answer = "none" /\ req[s].committed
    BY <1>1, <2>1 DEF Stage, Course
  <2> QED
    BY <1>1, <2>1, <2>2, ReadUnit
<1>7. CASE EffectWrites(s)
  <2>1. PICK r : r = Loaded(s)
    OBVIOUS
  <2>2. /\ At(s, "load") /\ req[s].pc = "load" /\ req[s].op.name = "effect"
        /\ req[s].op.id = Root /\ Root \in r.S.cached
    BY <1>1, <1>7, <2>1 DEF EffectWrites, Finds, Found, Loading, At, Told
  <2>3. r.S \in Ses /\ req[s].answer = "none" /\ Clean(db, r.S, r.t, Deed(s, req[s]))
    BY <2>1, <2>2, LoadedUnit
  <2>4. PICK p : p = [F EXCEPT !.pc = "effects", !.wset = @ \cup {Root}]
    OBVIOUS
  <2>5. Writes(req[s], p, {Root}) /\ Placed(p)
    BY <1>1, <1>3, <2>2, <2>3, <2>4 DEF Writes, Placed, Course, Req
  <2>6. Step(s, Write(r.S, Root, Tag(s)), r.t, p)
    BY <1>2, <1>7, <2>1, <2>4 DEF EffectWrites
  <2>7. Clean(db, Write(r.S, Root, Tag(s)), r.t, Deed(s, p))
    BY <1>1, <2>2, <2>3, <2>5, MoreClean
  <2> QED
    BY <1>1, <2>3, <2>5, <2>6, <2>7, MoreUnit
<1> QED
  BY <1>4, <1>5, <1>6, <1>7

-----------------------------------------------------------------------------
(* The conflict loop and the end                                           *)

(* A session that caches nothing, in no transaction.                       *)
LEMMA EmptyClean ==
    ASSUME NEW S, S.cached = {}, NEW k PROVE Clean(db, S, NoTxn, k)
  BY NotLive DEF Clean, CleanCache, CleanTxn

LEMMA ReplyUnit ==
    ASSUME Setting, NEW s \in Sessions, req[s].answer = "none", NEW a, Reply(s, a)
    PROVE  Advances
<1>1. ses[s] \in Ses /\ req[s] \in Req
  BY UnitParts
<1>2. PICK q : q = [req[s] EXCEPT !.pc = "close", !.answer = a, !.effect = FALSE]
  OBVIOUS
<1>3. Even(req[s], q) /\ Placed(q)
  BY <1>1, <1>2 DEF Even, Placed, Req
<1>4. PICK B \in Ses : B = Abort(ses[s])
  BY <1>1, AbortParts
<1>5. PICK R : R = [B EXCEPT !.unit = "none", !.raised = FALSE]
  OBVIOUS
<1>6. R.cached = {}
  BY <1>1, <1>4, <1>5, AbortSheds DEF Ses
<1>7. Step(s, R, NoTxn, q)
  BY <1>2, <1>4, <1>5 DEF Reply
<1> QED
  BY <1>3, <1>6, <1>7, EmptyClean, StepsOn

(* An attempt that is given up has saved nothing.                          *)
LEMMA RerunUnit ==
    ASSUME Setting, NEW s \in Sessions, req[s].answer = "none", ~req[s].saved,
           NEW S \in Ses, NEW pc \in {"turn", "reload"}, NEW n, Rerun(s, S, pc, n)
    PROVE  Advances
<1>1. req[s] \in Req
  BY UnitParts
<1>2. PICK R \in Ses : R = Reenter(S)
  BY UnitType DEF Reenter
<1>3. PICK q : q = [req[s] EXCEPT !.pc = pc, !.exc = "none", !.attempt = n,
                !.roRetries = @ + (IF req[s].exc = "ro" THEN 1 ELSE 0),
                !.committed = FALSE, !.effect = FALSE, !.ops = 0,
                !.run = @ + 1, !.wset = {}, !.dset = {},
                !.enqueued = FALSE, !.saved = FALSE]
  OBVIOUS
<1>4. /\ q.pc = pc /\ q.answer = "none" /\ q.wset = {} /\ q.enqueued = FALSE
      /\ q.dset = {} /\ q.run = req[s].run + 1 /\ q.saved = FALSE
  BY <1>1, <1>3 DEF Req
<1>5. Moves(req[s], q) /\ Course(q)
  BY <1>4 DEF Moves, Course
<1>6. Clean(db, Abort(R), NoTxn, Deed(s, q))
  BY <1>2, AbortSheds, EmptyClean
<1>7. Step(s, Abort(R), NoTxn, q)
  BY <1>2, <1>3 DEF Rerun
<1> QED
  BY <1>5, <1>6, <1>7, BecomesUnit DEF Step

LEMMA HandlerUnit ==
    ASSUME Setting, NEW s \in Sessions,
           \/ HandleReadOnlyRetry(s) \/ HandleConflict(s)
           \/ HandleError(s) \/ HandleAfterCommit(s)
    PROVE  Advances
<1>1. /\ ses[s] \in Ses /\ req[s] \in Req /\ Stage(ses[s], txn[s], req[s])
      /\ Saved(ses[s], req[s]) /\ Course(req[s])
  BY UnitParts
<1>2. req[s].pc = "handler" /\ req[s].answer = "none"
  BY <1>1 DEF Stage, HandleReadOnlyRetry, HandleConflict, HandleError,
              HandleAfterCommit, At
<1>3. CASE HandleReadOnlyRetry(s)
  <2>1. PICK S : S = [ses[s] EXCEPT !.raised = FALSE]
    OBVIOUS
  <2>2. S \in Ses
    BY <1>1, <2>1 DEF Ses
  <2>3. ~req[s].saved
    BY <1>1, <1>2, <1>3 DEF HandleReadOnlyRetry, Saved, Later
  <2>4. Reply(s, "conflict") \/ \E n : Rerun(s, S, "reload", n)
    BY <1>3, <2>1 DEF HandleReadOnlyRetry
  <2> QED
    BY <1>2, <2>2, <2>3, <2>4, ReplyUnit, RerunUnit
<1>4. CASE HandleConflict(s)
  <2>1. ~req[s].saved
    BY <1>1, <1>2, <1>4 DEF HandleConflict, Course
  <2>2. Reply(s, "conflict") \/ \E n : Rerun(s, ses[s], "turn", n)
    BY <1>4 DEF HandleConflict
  <2> QED
    BY <1>1, <1>2, <2>1, <2>2, ReplyUnit, RerunUnit
<1>5. CASE HandleError(s)
  <2>1. ~req[s].saved
    BY <1>1, <1>2, <1>5 DEF HandleError, Course
  <2>2. Reply(s, "error") \/ \E n : Rerun(s, ses[s], "reload", n)
    BY <1>5 DEF HandleError
  <2> QED
    BY <1>1, <1>2, <2>1, <2>2, ReplyUnit, RerunUnit
<1>6. CASE HandleAfterCommit(s)
  BY <1>2, <1>6, ReplyUnit DEF HandleAfterCommit
<1> QED
  BY <1>3, <1>4, <1>5, <1>6

LEMMA UnitExitUnit ==
    ASSUME Setting, NEW s \in Sessions, UnitExit(s)
    PROVE  Advances
<1>1. /\ ses[s] \in Ses /\ req[s] \in Req /\ Stage(ses[s], txn[s], req[s])
      /\ req[s].pc = "exit" /\ Clean(db, ses[s], txn[s], Deed(s, req[s]))
  BY UnitParts DEF UnitExit, At
<1>2. req[s].answer = "none"
  BY <1>1 DEF Stage
<1>3. PICK q : q = IF ses[s].raised THEN Throw(req[s], "ro")
                   ELSE [req[s] EXCEPT !.pc = "close", !.answer = "ok"]
  OBVIOUS
<1>4. Even(req[s], q) /\ Placed(q)
  BY <1>1, <1>2, <1>3 DEF Throw, Req, Even, Placed
<1>5. PICK S : S = [ses[s] EXCEPT !.unit = "none", !.raised = FALSE]
  OBVIOUS
<1>6. S \in Ses /\ Alias(ses[s], S)
  BY <1>1, <1>5 DEF Ses, Alias
<1>7. Clean(db, S, txn[s], Deed(s, req[s]))
  BY <1>1, <1>6, AliasClean
<1>8. Clean(db, Abort(S), NoTxn, Deed(s, req[s]))
  BY <1>6, AbortSheds, EmptyClean
<1>9. Step(s, Abort(S), NoTxn, q) \/ Step(s, S, txn[s], q)
  BY <1>3, <1>5 DEF UnitExit
<1> QED
  BY <1>4, <1>7, <1>8, <1>9, StepsOn

LEMMA TurnUnit ==
    ASSUME Setting, NEW s \in Sessions,
           NoTurn(s) \/ LeavePlace(s) \/ TakeTurn(s) \/ TurnTimesOut(s)
    PROVE  Advances
<1>1. /\ ses[s] \in Ses /\ req[s] \in Req /\ Course(req[s])
      /\ Clean(db, ses[s], txn[s], Deed(s, req[s]))
  BY UnitParts
<1>2. req[s].pc = "turn"
  BY DEF NoTurn, LeavePlace, TakeTurn, TurnTimesOut, At
<1>3. PICK S, q :
        /\ Becomes(s, S, txn[s], q) /\ KeepTables
        /\ \/ S = ses[s]
           \/ \E W : S = [ses[s] EXCEPT !.queued = W]
           \/ S = [ses[s] EXCEPT !.contended = {}]
        /\ \/ q = req[s]
           \/ q = Goto(req[s], "pin")
           \/ q = Goto(req[s], "reload")
  BY DEF NoTurn, LeavePlace, TakeTurn, TurnTimesOut, Step
<1>4. Alias(ses[s], S)
  BY <1>1, <1>3 DEF Ses, Alias
<1>5. Even(req[s], q) /\ Placed(q)
  BY <1>1, <1>2, <1>3, GotoEven DEF Even, Placed
<1> QED
  BY <1>1, <1>3, <1>4, <1>5, AliasClean, EvenCourse, EvenAdvances

LEMMA PinUnit ==
    ASSUME Setting, NEW s \in Sessions, Pin(s)
    PROVE  Advances
<1>1. /\ ses[s] \in Ses /\ req[s] \in Req /\ StoreReady
      /\ Clean(db, ses[s], txn[s], Deed(s, req[s]))
  BY UnitParts
<1>2. PICK t : /\ Step(s, ses[s], t, Goto(req[s], "reload"))
               /\ t = NoTxn \/ t = LockRows(Begin("rw"), ses[s].queued)
  BY DEF Pin
<1>3. Passes(ses[s], ses[s], txn[s], t)
  <2>1. CASE t = NoTxn
    BY <2>1, NotLive
  <2>2. CASE t = LockRows(Begin("rw"), ses[s].queued)
    <3>1. PICK b : b = Begin("rw")
      OBVIOUS
    <3>2. b.view = db /\ b.out = {} /\ b \in Txn
      <4>1. b \in Txn
        BY <1>1, <3>1, BeginParts
      <4> QED
        BY <3>1, <4>1 DEF Begin, NoTxn
    <3>3. t.view = db /\ t.out = {}
      BY <2>2, <3>1, <3>2 DEF LockRows, Reading, Txn
    <3> QED
      BY <3>3 DEF Passes
  <2> QED
    BY <1>2, <2>1, <2>2
<1> QED
  BY <1>1, <1>2, <1>3, ShedsSelf, CleanLess, GotoEven, StepsOn

LEMMA LeavingUnit ==
    ASSUME Setting, NEW s \in Sessions, CloseSession(s) \/ LeaveSession(s)
    PROVE  Advances
<1>1. /\ ses[s] \in Ses /\ req[s] \in Req /\ Course(req[s])
      /\ Clean(db, ses[s], txn[s], Deed(s, req[s])) /\ Told(db, outbox, s, txn[s], req[s])
  BY UnitParts
<1>2. CASE CloseSession(s)
  <2>1. req[s].answer # "none"
    BY <1>1, <1>2 DEF CloseSession, At, Told
  <2>2. PICK q : /\ Step(s, ses[s], txn[s], q)
                 /\ q = [req[s] EXCEPT !.pc = "flush", !.kind = "close", !.tries = 0]
    BY <1>2 DEF CloseSession
  <2>3. /\ q.run = req[s].run /\ q.saved = req[s].saved /\ q.dset = req[s].dset
        /\ q.wset = req[s].wset /\ q.enqueued = req[s].enqueued
        /\ q.committed = req[s].committed /\ q.answer = req[s].answer
        /\ q.pc = "flush" /\ q.kind = "close"
    BY <1>1, <2>2 DEF Req
  <2>4. Even(req[s], q) /\ Course(q)
    BY <1>1, <2>1, <2>3 DEF Even, Course
  <2> QED
    BY <1>1, <2>2, <2>4, EvenAdvances DEF Step
<1>3. CASE LeaveSession(s)
  <2>1. PICK A : A = NewSession
    OBVIOUS
  <2>2. Becomes(s, A, NoTxn, Goto(req[s], "answered")) /\ KeepTables
    BY <1>3, <2>1 DEF LeaveSession
  <2>3. Clean(db, A, NoTxn, Deed(s, req[s]))
    BY <2>1, EmptyClean DEF NewSession
  <2> QED
    BY <1>1, <2>2, <2>3, GotoEven, EvenCourse, EvenAdvances
<1> QED
  BY <1>2, <1>3

(* A connection that breaks takes its transaction with it.                 *)
LEMMA ConnectionUnit ==
    ASSUME Setting, NEW s \in Sessions, ConnectionLost(s)
    PROVE  Advances
<1>1. Clean(db, ses[s], txn[s], Deed(s, req[s])) /\ Course(req[s])
  BY UnitParts
<1>2. /\ ses \in [Sessions -> Ses] /\ req \in [Sessions -> Req]
      /\ ses' = ses /\ req' = req /\ KeepTables
  BY DEF Setting, TypeOK, ConnectionLost
<1>3. PICK t : /\ txn' = [txn EXCEPT ![s] = t]
               /\ t = IF txn[s].mode = "none" THEN NoTxn
                      ELSE [NoTxn EXCEPT !.mode = txn[s].mode, !.dead = TRUE]
  <2>1. txn \in [Sessions -> Txn]
    BY DEF Setting, TypeOK, StoreTypeOK
  <2> QED
    BY <2>1 DEF ConnectionLost, DropConnection
<1>4. Becomes(s, ses[s], t, req[s])
  BY <1>2, <1>3 DEF Becomes
<1>5. ~Live(t)
  BY <1>3 DEF NoTxn, Live
<1>6. Clean(db, ses[s], t, Deed(s, req[s]))
  BY <1>1, <1>5 DEF Clean, CleanTxn
<1>7. Even(req[s], req[s])
  BY DEF Even
<1> QED
  BY <1>1, <1>2, <1>4, <1>6, <1>7, EvenAdvances

-----------------------------------------------------------------------------
(* COMMIT                                                                  *)

LEMMA CommitFailsUnit ==
    ASSUME Setting, NEW s \in Sessions, NEW S \in Ses, NEW t,
           Clean(db, S, t, Deed(s, req[s])), NEW exc,
           req[s].pc = "flush" \/ req[s].pc = "commit", req[s].answer = "none",
           CommitFails(s, S, exc), KeepTables
    PROVE  Advances
<1>1. /\ req[s] \in Req /\ Course(req[s])
      /\ req[s].kind # "walk" /\ req[s].kind # "close"
      /\ req[s].kind = "outer" => req[s].committed
      /\ req[s].dset = {}
  <2>1. req[s] \in Req /\ Course(req[s])
    BY UnitParts
  <2> QED
    BY <2>1 DEF Course
<1>2. PICK w : w = Done(S, t)
  OBVIOUS
<1>3. w.S = S /\ w.t = t
  BY <1>2 DEF Done
<1>4. PICK p : p = IF exc = "db" THEN Replay(S, req[s].tries >= ReplayMax)
                   ELSE Raise(Rollback(S), NoTxn, exc)
  OBVIOUS
<1>5. Wanes(w, p)
  <2>1. CASE exc = "db"
    <3> DEFINE b == req[s].tries >= ReplayMax
    <3>1. b \in BOOLEAN
      OBVIOUS
    <3>2. p = Replay(S, b)
      BY <1>4, <2>1
    <3> HIDE DEF b
    <3> QED
      BY <1>3, <3>1, <3>2, ReplayWanes
  <2>2. CASE exc # "db"
    <3>1. p.S = Rollback(S) /\ p.t = NoTxn
      BY <1>4, <2>2 DEF Raise
    <3> QED
      BY <1>3, <3>1, RollbackSheds, WanesNone
  <2> QED
    BY <2>1, <2>2
<1>6. Clean(db, p.S, p.t, Deed(s, req[s]))
  BY <1>3, <1>5, WanesClean
<1>7. PICK q : /\ Becomes(s, p.S, p.t, q)
               /\ \/ \E n : q = [req[s] EXCEPT !.pc = "flush", !.tries = n]
                  \/ q = Throw(req[s], p.exc)
  BY <1>1, <1>4 DEF CommitFails, Settle
<1>8. /\ q.run = req[s].run /\ q.saved = req[s].saved /\ q.dset = req[s].dset
      /\ q.wset = req[s].wset /\ q.enqueued = req[s].enqueued
      /\ q.committed = req[s].committed /\ q.answer = req[s].answer
      /\ q.kind = req[s].kind /\ (q.pc = "flush" \/ q.pc = "handler")
  <2>1. CASE \E n : q = [req[s] EXCEPT !.pc = "flush", !.tries = n]
    BY <1>1, <2>1 DEF Req
  <2>2. CASE q = Throw(req[s], p.exc)
    BY <1>1, <2>2 DEF Req, Throw
  <2> QED
    BY <1>7, <2>1, <2>2
<1>9. Even(req[s], q) /\ Course(q)
  BY <1>1, <1>8 DEF Even, Course
<1> QED
  BY <1>6, <1>7, <1>9, EvenAdvances

(* The COMMIT of an attempt that has no answer yet saves what the attempt  *)
(* wrote and nothing else.                                                 *)
LEMMA SavesWhole ==
    ASSUME Setting, NEW s \in Sessions, At(s, "commit"), CommitTxn(s), ~txn[s].dead,
           req[s].answer = "none"
    PROVE  /\ SavedRows' = [id \in Ids |->
                IF id \in req[s].wset
                THEN [there |-> TRUE, val |-> SavedRows[id].val \cup {Tag(s)}]
                ELSE SavedRows[id]]
           /\ outbox' = IF req[s].enqueued THEN outbox \cup {Tag(s)} ELSE outbox
<1>1. /\ ses[s] \in Ses /\ txn[s] \in Txn /\ req[s] \in Req /\ StoreReady
      /\ Stage(ses[s], txn[s], req[s]) /\ Idle(txn[s])
      /\ CleanTxn(db, ses[s], txn[s], Deed(s, req[s]))
      /\ Deed(s, req[s]).tag = Tag(s) /\ Deed(s, req[s]).writes = req[s].wset
      /\ Deed(s, req[s]).joins = req[s].enqueued
  BY UnitParts DEF Clean
<1>2. /\ TypeOK /\ LedgerInv /\ WriteInv /\ Exact(ses[s], txn[s]) /\ Kept(ses[s], txn[s])
      /\ req[s].pc = "commit"
  BY <1>1 DEF Stage, At, Setting
<1>3. Begun(req[s])
  BY <1>2 DEF Begun, Running
<1>4. PICK t \in Txn : t = txn[s]
  BY <1>1
<1>5. /\ \A id \in Ids : db'[id] = IF id \in t.wrote THEN t.view[id] ELSE db[id]
      /\ t.wrote # {} => Live(t)
      /\ Grown(db, db') /\ db' \in [Ids -> Row] /\ outbox' = outbox \cup t.out
  BY <1>2, <1>4, CommitGrows DEF Live
<1>6. PICK P : P = Promote(ses[s])
  OBVIOUS
<1>7. /\ P.cached = ses[s].cached /\ P.mem = ses[s].mem
      /\ P.known = [id \in Ids |-> Current(ses[s], id)] /\ P.ups = NoRows /\ P.rem = {}
      /\ P.deleted = {}
  <2>1. ses[s].deleted = {}
    BY <1>2, WriteParts DEF Holds, Grounded, Sound
  <2> QED
    BY <1>1, <1>6, <2>1 DEF Promote, Ses
<1>8. Sound(db', stamp', clock', s, P, NoTxn, req[s].used)
  BY <1>2, <1>7, CommitOwn
<1>9. /\ req[s].enqueued => Tag(s) \in outbox'
      /\ \A id \in req[s].wset : /\ id \in Ids /\ Present(Current(ses[s], id))
                                 /\ Tag(s) \in Current(ses[s], id).val
  BY <1>2, <1>3, SentWhole
<1>10. ASSUME NEW id \in Ids, id \in req[s].wset
       PROVE  Present(db'[id]) /\ db'[id].val = db[id].val \cup {Tag(s)}
  <2>1. Older(P.known[id], db'[id])
    BY <1>8 DEF Sound, Knows
  <2>2. P.known[id] = Current(ses[s], id)
    BY <1>7
  <2>3. Present(db'[id]) /\ Tag(s) \in db'[id].val
    BY <1>9, <1>10, <2>1, <2>2 DEF Older
  <2>4. db[id].val \subseteq db'[id].val
    BY <1>1, <1>5, RowOrder DEF Grown, StoreReady
  <2>5. db'[id].val \subseteq db[id].val \cup {Tag(s)}
    <3>1. CASE id \in t.wrote
      <4>1. Live(t) /\ db'[id] = t.view[id]
        BY <1>5, <3>1
      <4> QED
        BY <1>1, <1>4, <2>3, <4>1 DEF CleanTxn, Within
    <3>2. CASE id \notin t.wrote
      BY <1>5, <3>2
    <3> QED
      BY <3>1, <3>2
  <2> QED
    BY <2>3, <2>4, <2>5
<1>11. ASSUME NEW id \in Ids, id \notin req[s].wset
       PROVE  (Present(db'[id]) <=> Present(db[id])) /\ db'[id].val = db[id].val
  <2>1. CASE id \in t.wrote
    <3>1. Live(t) /\ db'[id] = t.view[id] /\ Newer(t.view[id], db[id]) /\ Present(t.view[id])
      <4>1. Live(t) /\ db'[id] = t.view[id]
        BY <1>5, <2>1
      <4>2. Sees(db, stamp, ses[s], t, id)
        BY <1>2, <1>4, <4>1, WriteParts DEF Holds, Grounded, Sound
      <4> QED
        BY <2>1, <4>1, <4>2 DEF Sees, Newer
    <3>2. Within(db, Deed(s, req[s]), id, t.view[id].val)
      BY <1>1, <1>4, <3>1 DEF CleanTxn
    <3> QED
      BY <1>1, <1>11, <3>1, <3>2 DEF Within, Newer
  <2>2. CASE id \notin t.wrote
    BY <1>5, <2>2
  <2> QED
    BY <2>1, <2>2
<1>12. t.out \subseteq {Tag(s)} /\ (t.out # {} => req[s].enqueued)
  <2>1. CASE Live(t)
    BY <1>1, <1>4, <2>1 DEF CleanTxn
  <2>2. CASE ~Live(t)
    BY <1>1, <1>4, <2>2 DEF Live, Idle, NoTxn
  <2> QED
    BY <2>1, <2>2
<1>13. outbox' = IF req[s].enqueued THEN outbox \cup {Tag(s)} ELSE outbox
  BY <1>5, <1>9, <1>12
<1>14. PICK A : A = SavedRows
  OBVIOUS
<1>15. PICK B : B = SavedRows'
  OBVIOUS
<1>16. \A id \in Ids : A[id] = [there |-> Present(db[id]), val |-> db[id].val]
  BY <1>14 DEF SavedRows
<1>17. /\ B = [id \in Ids |-> [there |-> Present(db'[id]), val |-> db'[id].val]]
       /\ \A id \in Ids : B[id] = [there |-> Present(db'[id]), val |-> db'[id].val]
  BY <1>15 DEF SavedRows, Present, Absent
<1>18. ASSUME NEW id \in Ids
       PROVE  B[id] = IF id \in req[s].wset
                      THEN [there |-> TRUE, val |-> A[id].val \cup {Tag(s)}] ELSE A[id]
  <2>1. CASE id \in req[s].wset
    <3>1. Present(db'[id]) = TRUE /\ db'[id].val = db[id].val \cup {Tag(s)}
      BY <1>10, <2>1 DEF Present, Absent
    <3>2. PICK b \in BOOLEAN : b = Present(db'[id])
      BY DEF Present
    <3>3. b = TRUE
      BY <3>1, <3>2
    <3>4. B[id] = [there |-> b, val |-> db'[id].val]
      BY <1>17, <3>2
    <3>5. B[id] = [there |-> TRUE, val |-> db[id].val \cup {Tag(s)}]
      BY <3>1, <3>3, <3>4
    <3>6. PICK c : A[id] = [there |-> c, val |-> db[id].val]
      BY <1>16
    <3>7. A[id].val = db[id].val
      BY <3>6
    <3> QED
      BY <2>1, <3>5, <3>7
  <2>2. CASE id \notin req[s].wset
    <3>1. Present(db'[id]) = Present(db[id]) /\ db'[id].val = db[id].val
      BY <1>11, <2>2 DEF Present, Absent
    <3>2. B[id] = [there |-> Present(db[id]), val |-> db[id].val]
      BY <1>17, <3>1
    <3> QED
      BY <1>16, <2>2, <3>2
  <2> QED
    BY <2>1, <2>2
<1>19. B = [id \in Ids |-> IF id \in req[s].wset
                THEN [there |-> TRUE, val |-> A[id].val \cup {Tag(s)}] ELSE A[id]]
  BY <1>17, <1>18
<1> QED
  BY <1>13, <1>14, <1>15, <1>19

(* With nothing in flight COMMIT changes nothing.                          *)
LEMMA SavesNothing ==
    ASSUME Setting, NEW s \in Sessions, At(s, "commit"), CommitTxn(s), ~txn[s].dead,
           ~InFlight(ses[s])
    PROVE  db' = db /\ outbox' = outbox
<1>1. /\ ses[s] \in Ses /\ txn[s] \in Txn /\ StoreReady
      /\ Stage(ses[s], txn[s], req[s]) /\ Idle(txn[s])
      /\ CleanTxn(db, ses[s], txn[s], Deed(s, req[s]))
  BY UnitParts DEF Clean
<1>2. /\ TypeOK /\ LedgerInv /\ WriteInv /\ Exact(ses[s], txn[s])
  BY <1>1 DEF Stage, At, Setting
<1>3. Upserted(ses[s]) = {} /\ ses[s].rem = {} /\ ~ses[s].joined
  BY <1>1 DEF InFlight, Ses
<1>4. txn[s].wrote = {} /\ txn[s].out = {}
  <2>1. CASE Live(txn[s])
    BY <1>1, <1>2, <1>3, <2>1 DEF Live, Exact, AgreesBut, CleanTxn, Txn
  <2>2. CASE ~Live(txn[s])
    BY <1>1, <2>2 DEF Live, Idle, NoTxn
  <2> QED
    BY <2>1, <2>2
<1>5. /\ \A id \in Ids : db'[id] = db[id]
      /\ db' \in [Ids -> Row] /\ outbox' = outbox
  BY <1>2, <1>4, CommitGrows
<1> QED
  BY <1>1, <1>5 DEF StoreReady

LEMMA WithinGrown ==
    ASSUME NEW d, NEW e, NEW id, NEW k, NEW v, Within(d, k, id, v),
           Present(d[id]) => Present(e[id]), d[id].val \subseteq e[id].val
    PROVE  Within(e, k, id, v)
  BY DEF Within

LEMMA CleanGrown ==
    ASSUME NEW S, NEW t, NEW k, Clean(db, S, t, k), StoreReady, Grown(db, db'),
           db' \in [Ids -> Row]
    PROVE  Clean(db', S, t, k)
<1>1. ASSUME NEW id \in Ids
      PROVE  (Present(db[id]) => Present(db'[id])) /\ db[id].val \subseteq db'[id].val
  BY <1>1, RowOrder DEF Grown, StoreReady, Newer
<1> QED
  BY <1>1, WithinGrown DEF Clean, CleanCache, CleanTxn

(* Where a request is after its COMMIT.                                    *)
LEMMA AfterKindCourse ==
    ASSUME NEW q \in Req, Course(q), q.pc = "commit", NEW p, p.pc = AfterKind[q.kind],
           p.kind = q.kind, p.committed <=> q.committed \/ q.kind = "final",
           p.answer = q.answer, p.dset = q.dset
    PROVE  Course(p)
<1>1. /\ q.kind \in {"final", "outer", "close"} /\ (q.kind = "outer" => q.committed)
      /\ q.kind = "close" => q.answer # "none"
      /\ q.dset = {}
  BY DEF Course, Req, Kinds
<1>2. /\ AfterKind["final"] = "effects" /\ AfterKind["outer"] = "exit"
      /\ AfterKind["close"] = "leave"
  BY DEF AfterKind
<1>3. p.pc \in {"effects", "exit", "leave"} /\ (p.pc = "effects" => q.kind = "final")
  BY <1>1, <1>2
<1> QED
  BY <1>1, <1>3 DEF Course

LEMMA SavedUnit ==
    ASSUME Setting, NEW s \in Sessions, At(s, "commit"), CommitTxn(s), ~txn[s].dead,
           AfterCommit(s)
    PROVE  Advances
<1>1. /\ ses[s] \in Ses /\ txn[s] \in Txn /\ req[s] \in Req /\ StoreReady
      /\ Stage(ses[s], txn[s], req[s]) /\ req[s].pc = "commit" /\ Course(req[s])
      /\ Clean(db, ses[s], txn[s], Deed(s, req[s]))
      /\ TypeOK /\ LedgerInv /\ WriteInv
  BY UnitParts DEF At, Setting
<1>2. PICK f \in BOOLEAN : f = InFlight(ses[s])
  <2>1. ses[s].joined \in BOOLEAN
    BY <1>1 DEF Ses
  <2> QED
    BY <2>1 DEF InFlight
<1>3. PICK L : L = LeaveQueue(Promote(ses[s]))
  OBVIOUS
<1>4. PICK R : R = IF InFlight(ses[s]) THEN RegisterWriters(L) ELSE L
  OBVIOUS
<1>5. R.cached = ses[s].cached /\ R.mem = ses[s].mem
  <2>1. Promote(ses[s]) \in Ses
    BY <1>1, PromoteParts
  <2>2. /\ Promote(ses[s]).cached = ses[s].cached /\ Promote(ses[s]).mem = ses[s].mem
    BY <1>1 DEF Promote, Ses
  <2>3. L \in Ses /\ L.cached = ses[s].cached /\ L.mem = ses[s].mem
    BY <1>3, <2>1, <2>2, LeaveQueueType DEF LeaveQueue, Ses
  <2> QED
    BY <1>4, <2>3 DEF RegisterWriters, Ses
<1>6. PICK G : G = Goto(req[s], AfterKind[req[s].kind])
  OBVIOUS
<1>7. PICK c \in BOOLEAN : c = (G.committed \/ G.kind = "final")
  OBVIOUS
<1>8. PICK v \in BOOLEAN : v = (G.saved \/ InFlight(ses[s]))
  OBVIOUS
<1>9. PICK w : w = IF G.kind = "final" THEN G.won \cup {G.run} ELSE G.won
  OBVIOUS
<1>10. PICK q : /\ q = [G EXCEPT !.committed = c, !.won = w, !.saved = v]
               /\ Becomes(s, R, NoTxn, q)
  BY <1>3, <1>4, <1>6, <1>7, <1>8, <1>9 DEF AfterCommit
<1>11. /\ Course(q) /\ q.run = req[s].run /\ (q.saved <=> req[s].saved \/ f)
      /\ q.wset = req[s].wset /\ q.dset = req[s].dset /\ q.enqueued = req[s].enqueued
      /\ q.answer = req[s].answer
  <2>1. /\ G.pc = AfterKind[req[s].kind] /\ G.kind = req[s].kind
        /\ G.committed = req[s].committed
        /\ G.saved = req[s].saved /\ G.run = req[s].run /\ G.wset = req[s].wset
        /\ G.dset = req[s].dset /\ G.enqueued = req[s].enqueued
        /\ G.answer = req[s].answer
        /\ q.pc = G.pc /\ q.kind = G.kind /\ q.committed = c /\ q.saved = v
        /\ q.run = G.run /\ q.wset = G.wset /\ q.dset = G.dset
        /\ q.enqueued = G.enqueued /\ q.answer = G.answer
    BY <1>1, <1>6, <1>10 DEF Goto, Req
  <2>2. q.committed <=> req[s].committed \/ req[s].kind = "final"
    BY <1>7, <2>1
  <2>3. q.saved <=> req[s].saved \/ f
    BY <1>2, <1>8, <2>1
  <2>4. Course(q)
    BY <1>1, <2>1, <2>2, AfterKindCourse
  <2> QED
    BY <2>1, <2>3, <2>4
<1>12. Grown(db, db') /\ db' \in [Ids -> Row]
  BY <1>1, CommitGrows
<1>13. /\ ses' = [ses EXCEPT ![s] = R]
       /\ txn' = [txn EXCEPT ![s] = NoTxn]
       /\ req' = [req EXCEPT ![s] = q]
       /\ ses \in [Sessions -> Ses] /\ req \in [Sessions -> Req] /\ txn \in [Sessions -> Txn]
  BY <1>1, <1>10 DEF Becomes, TypeOK, StoreTypeOK
<1>14. Clean(db', R, NoTxn, Deed(s, q))
  <2>1. Deed(s, q) = Deed(s, req[s])
    BY <1>11 DEF Deed
  <2>2. Clean(db, R, NoTxn, Deed(s, req[s]))
    BY <1>1, <1>5, NotLive DEF Clean, CleanCache, CleanTxn
  <2> QED
    BY <1>1, <1>12, <2>1, <2>2, CleanGrown
<1>15. UnitInv'
  <2>1. ASSUME NEW o \in Sessions
        PROVE  /\ Clean(db', ses'[o], txn'[o], Deed(o, req'[o]))
               /\ Course(req'[o])
    <3>1. CASE o = s
      BY <1>11, <1>13, <1>14, <3>1
    <3>2. CASE o # s
      <4>1. ses'[o] = ses[o] /\ txn'[o] = txn[o] /\ req'[o] = req[o]
        BY <1>13, <3>2
      <4>2. Clean(db, ses[o], txn[o], Deed(o, req[o])) /\ Course(req[o])
        BY DEF Setting, UnitInv
      <4> QED
        BY <1>1, <1>12, <4>1, <4>2, CleanGrown
    <3> QED
      BY <3>1, <3>2
  <2> QED
    BY <2>1, UnitPrime
<1>16. CASE ~f
  <2>1. db' = db /\ outbox' = outbox
    BY <1>1, <1>2, <1>16, SavesNothing DEF Setting
  <2>2. Moves(req[s], q)
    <3>1. q.saved = req[s].saved
      <4>1. req'[s] = q /\ req'[s] \in Req
        BY <1>13 DEF Setting, TypeOK
      <4> QED
        BY <1>1, <1>11, <1>16, <4>1 DEF Req
    <3> QED
      BY <1>11, <3>1 DEF Moves
  <2>3. q \in Req
    BY <1>13 DEF Setting, TypeOK
  <2> QED
    BY <1>1, <1>13, <1>15, <2>1, <2>2, <2>3, UnitMoves DEF Advances
<1>17. CASE f
  <2>1. req[s].answer = "none"
    BY <1>1, <1>2, <1>17 DEF Stage, Settled
  <2>2. PICK A, B : A = SavedRows /\ B = SavedRows'
    OBVIOUS
  <2>3. PICK U, V : U = Units /\ V = Units'
    OBVIOUS
  <2>4. /\ B = [id \in Ids |-> IF id \in req[s].wset
                  THEN [there |-> TRUE, val |-> A[id].val \cup {Tag(s)}] ELSE A[id]]
        /\ outbox' = IF req[s].enqueued THEN outbox \cup {Tag(s)} ELSE outbox
    BY <2>1, <2>2, SavesWhole
  <2>5. /\ U[s] = UnitOf(req[s]) /\ V = [U EXCEPT ![s] = UnitOf(q)]
        /\ s \in DOMAIN U
    BY <1>13, <2>3 DEF Units
  <2>6. UnitOf(q) = [UnitOf(req[s]) EXCEPT !.state = "saved"]
    BY <1>11, <1>17, <2>1 DEF UnitOf
  <2>7. /\ U[s].n = req[s].run /\ U[s].writes = req[s].wset /\ U[s].joins = req[s].enqueued
        /\ U[s].deletes = {} /\ U[s].state # "answered" /\ Tag(s) = <<s, U[s].n>>
    BY <1>1, <2>1, <2>5 DEF UnitOf, Course, Tag
  <2>8. UoW!Save(s)
    <3>1. V = [U EXCEPT ![s].state = "saved"]
      BY <2>5, <2>6
    <3>2. B = [id \in Ids |->
                  IF id \in U[s].deletes THEN UoW!Gone
                  ELSE IF id \in U[s].writes
                  THEN [there |-> TRUE, val |-> A[id].val \cup {<<s, U[s].n>>}]
                  ELSE A[id]]
      BY <2>4, <2>7
    <3>3. outbox' = IF U[s].joins THEN outbox \cup {<<s, U[s].n>>} ELSE outbox
      BY <2>4, <2>7
    <3>4. UoW!Open(s)
      BY <2>3, <2>7 DEF UoW!Open
    <3> QED
      BY <2>2, <2>3, <3>1, <3>2, <3>3, <3>4 DEF UoW!Save
  <2> QED
    BY <1>15, <2>8 DEF Advances, UoW!Next
<1> QED
  BY <1>16, <1>17

LEMMA CommitUnit ==
    ASSUME Setting, NEW s \in Sessions, FlushAll(s) \/ SqlCommit(s) \/ SqlCommitFails(s)
    PROVE  Advances
<1>1. /\ ses[s] \in Ses /\ txn[s] \in Txn /\ req[s] \in Req /\ StoreReady
      /\ Stage(ses[s], txn[s], req[s]) /\ Course(req[s])
      /\ Apart(ses[s]) /\ Agrees(ses[s], txn[s]) /\ Idle(txn[s])
      /\ Clean(db, ses[s], txn[s], Deed(s, req[s]))
      /\ TypeOK /\ LedgerInv /\ WriteInv
  BY UnitParts DEF Setting
<1>2. CASE FlushAll(s)
  <2>1. /\ req[s].pc = "flush" /\ KeepTables
        /\ req[s].answer # "none" => Settled(ses[s], txn[s])
    BY <1>1, <1>2 DEF FlushAll, At, Stage
  <2>2. PICK full \in BOOLEAN : full = TRUE
    OBVIOUS
  <2>3. PICK f : f = Flush(s, Done(ses[s], txn[s]), full)
    OBVIOUS
  <2>4. CASE ses[s].lost
    <3>1. PICK r : r = Raise(ses[s], txn[s], "lost")
      OBVIOUS
    <3>2. r.S = ses[s] /\ r.exc = "lost"
      BY <3>1 DEF Raise
    <3>3. CommitFails(s, ses[s], "lost")
      BY <1>2, <2>4, <3>1, <3>2 DEF FlushAll
    <3>4. req[s].answer = "none"
      BY <2>1, <2>4 DEF Settled
    <3> QED
      BY <1>1, <2>1, <3>3, <3>4, CommitFailsUnit
  <2>5. CASE ~ses[s].lost
    <3>1. PICK d : d = Done(ses[s], txn[s])
      OBVIOUS
    <3>2. d.S = ses[s] /\ d.t = txn[s] /\ From(ses[s], d)
      BY <1>1, <3>1, FromSelf DEF Done
    <3>3. f = Flush(s, d, full)
      BY <2>3, <3>1
    <3>4. From(ses[s], f) /\ f.S \in Ses
      <4>1. Fits(ses[s], d)
        BY <1>1, <3>1, FitsSelf
      <4>2. From(ses[s], f)
        BY <1>1, <2>2, <3>3, <4>1, FlushFits
      <4> QED
        BY <4>2, FromParts
    <3>5. Clean(db, f.S, f.t, Deed(s, req[s]))
      BY <1>1, <2>2, <3>2, <3>3, FlushClean
    <3>6. CASE Ok(f)
      <4>1. PICK q : q = Goto(req[s], "commit")
        OBVIOUS
      <4>2. Even(req[s], q) /\ q.pc = "commit" /\ q.kind = req[s].kind /\ q.answer = req[s].answer
        BY <1>1, <4>1, GotoEven DEF Goto, Req
      <4>3. Course(q)
        BY <1>1, <2>1, <4>2 DEF Course, Even
      <4>4. Becomes(s, f.S, f.t, q)
        BY <1>2, <2>2, <2>3, <2>5, <3>6, <4>1 DEF FlushAll, Ok
      <4> QED
        BY <2>1, <3>5, <4>2, <4>3, <4>4, EvenAdvances
    <3>7. CASE ~Ok(f)
      <4>1. CommitFails(s, f.S, f.exc)
        BY <1>2, <2>2, <2>3, <2>5, <3>7 DEF FlushAll, Ok
      <4>2. req[s].answer = "none"
        <5>1. ASSUME req[s].answer # "none" PROVE Ok(f)
          BY <1>1, <2>1, <2>2, <2>3, <5>1, SettledFlush
        <5> QED
          BY <3>7, <5>1
      <4> QED
        BY <2>1, <3>4, <3>5, <4>1, <4>2, CommitFailsUnit
    <3> QED
      BY <3>6, <3>7
  <2> QED
    BY <2>4, <2>5
<1>3. CASE SqlCommit(s)
  <2>1. At(s, "commit") /\ CommitTxn(s) /\ ~txn[s].dead /\ AfterCommit(s)
    BY <1>3 DEF SqlCommit, CanCommit
  <2> QED
    BY <2>1, SavedUnit
<1>4. CASE SqlCommitFails(s)
  <2>1. req[s].pc = "commit" /\ CommitFails(s, ses[s], "db") /\ KeepTables
    BY <1>4 DEF SqlCommitFails, At
  <2>2. req[s].answer = "none"
    <3>1. SUFFICES ASSUME req[s].answer # "none" PROVE FALSE
      BY <1>1 DEF Req
    <3>2. txn[s] = NoTxn
      BY <1>1, <3>1 DEF Stage, Settled
    <3> QED
      BY <1>4, <2>1, <3>2, NoTxnParts DEF SqlCommitFails, CanCommit
  <2> QED
    BY <1>1, <2>1, <2>2, CommitFailsUnit
<1> QED
  BY <1>2, <1>3, <1>4

-----------------------------------------------------------------------------
(* The refinement                                                          *)

LEMMA UnitInit == Init => UnitInv /\ UoW!Init
<1> SUFFICES ASSUME Init PROVE UnitInv /\ UoW!Init
  OBVIOUS
<1>1. /\ db = [id \in Ids |-> IF id \in Seeded THEN [ver |-> 0, val |-> {}]
                                               ELSE Absent]
      /\ outbox = {} /\ txn = [s \in Sessions |-> NoTxn]
  BY DEF Init, StoreInit
<1>2. ASSUME NEW s \in Sessions
      PROVE  req[s] = NewRequest /\ txn[s] = NoTxn
             /\ ses[s] \in {NewSession, [NewSession EXCEPT !.recorded = TRUE]}
  BY <1>1 DEF Init
<1>3. ASSUME NEW s \in Sessions
      PROVE  /\ Clean(db, ses[s], txn[s], Deed(s, req[s])) /\ Course(req[s])
             /\ UnitOf(req[s]) = UoW!Attempt(1)
  <2>1. PICK q : q = req[s]
    OBVIOUS
  <2>2. /\ q.pc = "arrive" /\ q.answer = "none" /\ q.wset = {} /\ q.enqueued = FALSE
        /\ q.saved = FALSE /\ q.dset = {} /\ q.run = 1
    BY <1>2, <2>1 DEF NewRequest
  <2>3. ses[s].cached = {}
    BY <1>2 DEF NewSession
  <2>4. Clean(db, ses[s], txn[s], Deed(s, req[s]))
    BY <1>2, <2>3, EmptyClean
  <2>5. UnitOf(q) = UoW!Attempt(1)
    BY <2>2 DEF UnitOf, UoW!Attempt
  <2> QED
    BY <2>1, <2>2, <2>4, <2>5 DEF Course
<1>4. Units = [s \in Sessions |-> UoW!Attempt(1)]
  BY <1>3 DEF Units
<1>5. SavedRows = [id \in Ids |-> IF id \in Seeded THEN UoW!NewRow ELSE UoW!Gone]
  <2>1. ASSUME NEW id \in Ids
        PROVE  [there |-> Present(db[id]), val |-> db[id].val] =
                 IF id \in Seeded THEN UoW!NewRow ELSE UoW!Gone
    <3>1. PICK b \in BOOLEAN : b = Present(db[id])
      BY DEF Present
    <3>2. b = (id \in Seeded) /\ db[id].val = {}
      BY <1>1, <3>1 DEF Present, Absent
    <3> QED
      BY <3>1, <3>2 DEF UoW!NewRow, UoW!Gone
  <2> QED
    BY <2>1 DEF SavedRows
<1> QED
  BY <1>1, <1>3, <1>4, <1>5 DEF UnitInv, UoW!Init

LEMMA UnitStep ==
    ASSUME Setting, OpsAssumed, [Next]_vars
    PROVE  Advances
<1>1. CASE UNCHANGED vars
  <2>1. UNCHANGED <<db, outbox, ses, txn, req>>
    BY <1>1 DEF vars
  <2>2. UnitInv'
    BY <2>1, UnitPrime DEF Setting, UnitInv
  <2>3. UNCHANGED UoW!unitVars
    BY <2>1 DEF UoW!unitVars, SavedRows, Units
  <2> QED
    BY <2>2, <2>3 DEF Advances
<1>2. ASSUME NEW s \in Sessions, Walker(s) \/ Server(s) \/ Network(s)
      PROVE  Advances
  <2>1. CASE Walker(s)
    BY <2>1, WalkerUnit
  <2>2. CASE Server(s)
    BY <2>2, ArrivalUnit, ScopeUnit, OpenUnitUnit, RereadUnit, CommitUnit,
       EffectsUnit, UnitExitUnit, HandlerUnit, TurnUnit, PinUnit,
       ReloadUnit, LeavingUnit DEF Server
  <2>3. CASE Network(s)
    BY <2>3, ConnectionUnit DEF Network, CommitUnanswered, OpsAssumed
  <2> QED
    BY <1>2, <2>1, <2>2, <2>3
<1> QED
  BY <1>1, <1>2 DEF Next, Terminated

(* What a caller is promised: the whole of what an attempt did is saved in  *)
(* one step, on top of what every other request saved, and an attempt that *)
(* is given up has saved nothing (context.impl.jac, sync and commit, under *)
(* the conflict loop of middleware.impl.jac).  Sessions, transactions,     *)
(* replays, promotions and re-runs implement units of work, for walkers    *)
(* that delete nothing and commit nothing of their own in the middle, and  *)
(* when every COMMIT is answered.                                          *)
THEOREM UnitsOfWork == OpsAssumed => (Spec => ImplementsUnitOfWork)
<1> SUFFICES ASSUME OpsAssumed PROVE Spec => ImplementsUnitOfWork
  OBVIOUS
<1>1. "delete" \notin Ops
  BY DEF OpsAssumed
<1>2. Spec => [](TypeOK /\ LedgerInv /\ WriteInv)
  BY <1>1, WriteAlways
<1>3. Spec => []SaveInv
  BY SaveInit, SaveNext, TypeCorrect, PTL DEF Spec
<1>4. /\ TypeOK /\ TypeOK' /\ LedgerInv /\ SaveInv /\ WriteInv /\ UnitInv /\ [Next]_vars
         => UnitInv' /\ [UoW!Next]_(UoW!unitVars)
  BY UnitStep DEF Setting, Advances
<1>5. Init => UnitInv /\ UoW!Init
  BY UnitInit
<1> QED
  BY <1>2, <1>3, <1>4, <1>5, PTL DEF Spec, ImplementsUnitOfWork, UoW!Spec
=============================================================================
