--------------------------- MODULE ConvergeProofs ---------------------------
(***************************************************************************)
(* Racing find-or-creates leave one child (Converges), when every walker   *)
(* that creates a child also counts it on the row of its parent.  The two  *)
(* creations never write a row in common but that one: the argument is how *)
(* the version of the parent's row, the cache, the ledger and the snapshot *)
(* of a transaction together say whether a child was there.                *)
(*                                                                         *)
(* The invariant is OneInv.  Of a session, Plan: a child it has created and *)
(* not committed is the only one, goes with the row of Root, and read Root  *)
(* before any child was committed.  Of its open transaction, Sight: what   *)
(* its snapshot misses or adds is told by Root's row, unless it comes from *)
(* a flush that failed, after which nothing is committed.                  *)
(***************************************************************************)
EXTENDS WriteProofs, FiniteSetTheorems

(* The walkers count the children they create, and delete nothing.  A      *)
(* walker that only looks for the children and then creates one converges  *)
(* in no way: two of them write no row in common, and after a replay the   *)
(* children are not read again.                                            *)
OpsCounted == Ops \cap {"create", "find", "delete"} = {}

Single(d) == \A c, e \in Children : Present(d[c]) /\ Present(d[e]) => c = e

(* Created by this session and not committed; nor sent to the database.    *)
Unsaved(S, c) == c \in S.cached /\ ~Present(S.known[c])
Unsent(S, c)  == Unsaved(S, c) /\ ~Present(S.ups[c])

(* The row of Root goes where the child does.                              *)
Tied(S, c) == IF Present(S.ups[c]) THEN Present(S.ups[Root])
              ELSE {c, Root} \subseteq S.dirty \cap S.cached

Plan(d, S) == \A c \in Children : Unsaved(S, c) =>
    /\ Tied(S, c)
    /\ \A e \in Children : /\ Unsaved(S, e) => e = c
                           /\ Present(d[e]) => S.known[Root].ver < d[Root].ver

Sight(d, S, t) == Live(t) =>
    /\ S.known[Root].ver <= t.view[Root].ver
    /\ Root \in t.wrote => S.known[Root].ver = d[Root].ver
    /\ \A c \in Children :
          /\ Present(d[c]) /\ ~Present(t.view[c])
                => Root \notin t.wrote /\ t.view[Root].ver < d[Root].ver
          /\ c \in t.wrote => Present(d[c]) \/ Root \in t.wrote \/ Unsent(S, c)
          /\ \A e \in Children : Present(t.view[c]) /\ Present(t.view[e])
                => c = e \/ Unsent(S, c) \/ Unsent(S, e)

Birth(d, S, t) == Plan(d, S) /\ Sight(d, S, t)

(* A request about to count the children has each of them in its cache or  *)
(* is about to read it.                                                    *)
Asked(S, q) ==
    /\ q.op.name # "find"
    /\ q.pc \in {"barrier", "load"} /\ q.op.name = "count"
          => Children \subseteq q.op.load \cup S.cached

OneInv == /\ Single(db)
          /\ \A s \in Sessions : Birth(db, ses[s], txn[s]) /\ Asked(ses[s], req[s])

World == StoreReady /\ Times(db, stamp, clock) /\ Single(db)

-----------------------------------------------------------------------------
(* What leaves a session's plan and its transaction's sight as they were.  *)

LEMMA RootFacts ==
    /\ Root \in Ids /\ Root \in Seeded /\ Children \subseteq Ids
    /\ \A s \in Sessions : Root \notin Mint[s]
  BY RequestAssumption, SeededAssumption, MintType

LEMMA PlanLess ==
    ASSUME NEW d, NEW S, NEW R, Plan(d, S),
           \A c \in Children : Unsaved(R, c) =>
              Unsaved(S, c) /\ Tied(R, c) /\ R.known[Root] = S.known[Root]
    PROVE  Plan(d, R)
  BY DEF Plan

LEMMA BirthNone ==
    ASSUME NEW d, NEW S, NEW t, NEW u, Birth(d, S, t), ~Live(u)
    PROVE  Birth(d, S, u)
  BY DEF Birth, Sight

LEMMA NotLive == ~Live(NoTxn)
  BY NoTxnDead

Kin(S, R) == /\ R.cached = S.cached /\ R.known = S.known /\ R.ups = S.ups
             /\ S.dirty \subseteq R.dirty

Twins(t, u) == Live(u) => Live(t) /\ u.view = t.view /\ u.wrote = t.wrote

LEMMA TwinsSelf == \A t : Twins(t, t) /\ Twins(t, NoTxn)
  BY NotLive DEF Twins

LEMMA BirthKin ==
    ASSUME NEW d, NEW S, NEW R, NEW t, NEW u, Birth(d, S, t), Kin(S, R), Twins(t, u)
    PROVE  Birth(d, R, u)
<1>1. \A c \in Children : (Unsaved(R, c) <=> Unsaved(S, c)) /\ (Unsent(R, c) <=> Unsent(S, c))
  BY DEF Kin, Unsaved, Unsent
<1>2. \A c \in Children : Tied(S, c) => Tied(R, c)
  BY DEF Kin, Tied
<1>3. Plan(d, R)
  BY <1>1, <1>2 DEF Birth, Plan, Kin
<1>4. ASSUME Live(u) PROVE Sight(d, R, u)
  <2>1. Sight(d, S, t) /\ Live(t) /\ u.view = t.view /\ u.wrote = t.wrote
        /\ R.known = S.known
    BY <1>4 DEF Birth, Twins, Kin
  <2> QED
    BY <1>1, <2>1 DEF Sight
<1> QED
  BY <1>3, <1>4 DEF Birth, Sight

Listed(S) == \A id \in Ids : Present(S.ups[id]) => id \in S.cached

LEMMA RollbackPlans ==
    ASSUME NEW d, NEW S \in Ses, Listed(S), Plan(d, S)
    PROVE  Plan(d, Rollback(S))
<1>1. PICK R : R = Rollback(S)
  OBVIOUS
<1>2. /\ R.cached = S.cached /\ R.known = S.known /\ R.ups = NoRows
      /\ R.dirty = S.dirty \cup (Upserted(S) \cap S.cached)
  BY <1>1 DEF Rollback, Ses
<1>3. \A id \in Ids : ~Present(R.ups[id])
  BY <1>2 DEF NoRows, Present, Absent
<1>4. ASSUME NEW c \in Children, Unsaved(R, c)
      PROVE  Unsaved(S, c) /\ Tied(R, c)
  <2>1. Unsaved(S, c) /\ Tied(S, c)
    BY <1>2, <1>4 DEF Unsaved, Plan
  <2>2. c \in Ids /\ Root \in Ids /\ c \in S.cached
    BY <2>1, RootFacts DEF Unsaved
  <2>3. CASE Present(S.ups[c])
    <3>1. Present(S.ups[Root])
      BY <2>1, <2>3 DEF Tied
    <3>2. {c, Root} \subseteq Upserted(S) \cap S.cached
      BY <2>2, <2>3, <3>1 DEF Upserted, Listed
    <3> QED
      BY <1>2, <1>3, <2>1, <2>2, <3>2 DEF Tied
  <2>4. CASE ~Present(S.ups[c])
    BY <1>2, <1>3, <2>1, <2>2, <2>4 DEF Tied
  <2> QED
    BY <2>1, <2>3, <2>4
<1>5. Plan(d, R)
  BY <1>2, <1>4, PlanLess
<1> QED
  BY <1>1, <1>5

LEMMA DropPlans ==
    ASSUME NEW d, NEW S \in Ses, Upserted(S) = {}, Plan(d, S)
    PROVE  Plan(d, DropSnapshotReads(S))
<1>1. PICK F : F = S.snap \ (S.dirty \cup S.deleted)
  OBVIOUS
<1>2. PICK E : E = Forget(S, F)
  OBVIOUS
<1>3. PICK D : D = [E EXCEPT !.snap = {}]
  OBVIOUS
<1>4. DropSnapshotReads(S) = D
  BY <1>1, <1>2, <1>3 DEF DropSnapshotReads
<1>5. /\ E.cached = S.cached \ F /\ E.ups = S.ups /\ E.dirty = S.dirty
      /\ E.known = [id \in Ids |-> IF id \in F THEN Absent ELSE S.known[id]]
  BY <1>2 DEF Forget, Ses
<1>6. E \in Ses
  <2>1. F \in SUBSET Ids
    BY <1>1 DEF Ses
  <2> QED
    BY <1>2, <2>1, ForgetParts
<1>7. D.cached = E.cached /\ D.ups = E.ups /\ D.dirty = E.dirty /\ D.known = E.known
  BY <1>3, <1>6 DEF Ses
<1>8. ASSUME NEW c \in Children, Unsaved(D, c)
      PROVE  Unsaved(S, c) /\ Tied(D, c) /\ D.known[Root] = S.known[Root]
  <2>1. c \in Ids /\ Root \in Ids
    BY RootFacts
  <2>2. c \in S.cached /\ c \notin F /\ ~Present(S.known[c])
    BY <1>5, <1>7, <1>8, <2>1 DEF Unsaved
  <2>3. ~Present(S.ups[c]) /\ Unsaved(S, c)
    BY <2>1, <2>2 DEF Unsaved, Upserted
  <2>4. {c, Root} \subseteq S.dirty \cap S.cached
    BY <2>3 DEF Plan, Tied
  <2>5. Root \notin F
    BY <1>1, <2>4
  <2> QED
    BY <1>5, <1>7, <2>1, <2>2, <2>3, <2>4, <2>5 DEF Tied
<1> QED
  BY <1>4, <1>8, PlanLess

LEMMA PromotePlans ==
    ASSUME NEW d, NEW S \in Ses, S.rem = {}, Upserted(S) = {}, Plan(d, S)
    PROVE  Plan(d, Promote(S))
<1>1. PICK P : P = Promote(S)
  OBVIOUS
<1>2. /\ P.cached = S.cached /\ P.known = [id \in Ids |-> Current(S, id)]
      /\ P.ups = NoRows /\ P.dirty = S.dirty
  BY <1>1 DEF Promote, Ses
<1>3. \A id \in Ids : P.known[id] = S.known[id] /\ ~Present(P.ups[id]) /\ ~Present(S.ups[id])
  BY <1>2 DEF Current, Upserted, NoRows, Present, Absent
<1>4. Root \in Ids /\ Children \subseteq Ids
  BY RootFacts
<1>5. ASSUME NEW c \in Children, Unsaved(P, c)
      PROVE  Unsaved(S, c) /\ Tied(P, c) /\ P.known[Root] = S.known[Root]
  <2>1. Unsaved(S, c) /\ c \in Ids
    BY <1>2, <1>3, <1>4, <1>5 DEF Unsaved
  <2>2. Tied(S, c)
    BY <2>1 DEF Plan
  <2> QED
    BY <1>2, <1>3, <1>4, <2>1, <2>2 DEF Tied
<1> QED
  BY <1>1, <1>5, PlanLess

(* A transaction begins with the committed rows in sight, among which there *)
(* is one child at most.                                                   *)
LEMMA StartBirth ==
    ASSUME World, NEW s, NEW S \in Ses, NEW t, NEW used, Grounded(s, S, t, used),
           Plan(db, S), NEW u, NEW mode, Starts(s, u, mode)
    PROVE  Birth(db, S, u)
<1>1. u.view = db /\ u.wrote = {}
  BY DEF Starts
<1>2. Root \in Ids /\ Present(db[Root]) /\ db[Root] \in Row /\ S.known[Root] \in Row
  BY RootFacts DEF World, Times, StoreReady, Ses
<1>3. Older(S.known[Root], db[Root])
  BY <1>2 DEF Grounded, Sound, Knows
<1>4. S.known[Root].ver <= db[Root].ver
  <2>1. db[Root].ver \in Nat
    BY <1>2, Versions
  <2>2. CASE Present(S.known[Root])
    BY <1>3, <2>2 DEF Older
  <2>3. CASE ~Present(S.known[Root])
    BY <2>1, <2>3 DEF Present
  <2> QED
    BY <2>2, <2>3
<1>5. \A c, e \in Children : Present(db[c]) /\ Present(db[e]) => c = e
  BY DEF World, Single
<1>6. Sight(db, S, u)
  BY <1>1, <1>4, <1>5 DEF Sight
<1> QED
  BY <1>6 DEF Birth

-----------------------------------------------------------------------------
(* Opening and promoting                                                   *)

LEMMA HeldParts ==
    ASSUME NEW s, NEW S, NEW t, NEW k, Holds(s, S, t, k)
    PROVE  /\ Grounded(s, S, t, k.used) /\ Listed(S) /\ S.rem = {} /\ S.deleted = {}
           /\ Live(t) /\ t.mode = "ro" => Upserted(S) = {}
<1>1. Grounded(s, S, t, k.used) /\ Sound(db, stamp, clock, s, S, t, k.used)
  BY DEF Holds, Grounded
<1>2. Listed(S)
  BY <1>1 DEF Sound, Knows, Listed
<1>3. Live(t) /\ t.mode = "ro" => Upserted(S) = {}
  BY <1>1 DEF Sound, Sees, Upserted
<1> QED
  BY <1>1, <1>2, <1>3 DEF Sound

LEMMA RollbackBirth ==
    ASSUME NEW s, NEW S \in Ses, NEW t, NEW k, Holds(s, S, t, k), Birth(db, S, t),
           NEW u, ~Live(u)
    PROVE  Birth(db, Rollback(S), u)
<1>1. Plan(db, Rollback(S))
  BY HeldParts, RollbackPlans DEF Birth
<1> QED
  BY <1>1 DEF Birth, Sight

LEMMA ReclaimBirth ==
    ASSUME NEW s, NEW r, r.S \in Ses, NEW k, Holds(s, r.S, r.t, k), Birth(db, r.S, r.t)
    PROVE  LET q == Reclaim(r)
           IN  Birth(db, q.S, q.t)
<1>1. PICK q : q = Reclaim(r)
  OBVIOUS
<1>2. PICK R : R = Rollback(r.S)
  OBVIOUS
<1>3. CASE r.t.mode = "none" /\ q = LostOr(R, r.t)
  <2>1. q.S = R /\ q.t = r.t
    BY <1>3 DEF LostOr, Raise, Done
  <2>2. ~Live(r.t)
    BY <1>3 DEF Live
  <2> QED
    BY <1>1, <1>2, <2>1, <2>2, RollbackBirth
<1>4. q = r \/ (r.t.mode = "none" /\ q = LostOr(R, r.t))
  BY <1>1, <1>2 DEF Reclaim
<1> QED
  BY <1>1, <1>3, <1>4

LEMMA RaiseBirth ==
    ASSUME NEW s, NEW S \in Ses, NEW t, NEW k, Holds(s, S, t, k), Birth(db, S, t)
    PROVE  LET r == RaiseReadOnlyRetry(S)
           IN  Birth(db, r.S, r.t)
<1>1. PICK W : W = RegisterWriters(S) /\ W \in Ses
  BY RegisterWritersType
<1>2. W.cached = S.cached /\ W.known = S.known /\ W.ups = S.ups /\ W.dirty = S.dirty
  BY <1>1 DEF RegisterWriters, Ses
<1>3. Birth(db, W, NoTxn) /\ Listed(W)
  <2>1. Kin(S, W)
    BY <1>2 DEF Kin
  <2>2. Listed(S)
    BY HeldParts
  <2> QED
    BY <1>2, <2>1, <2>2, TwinsSelf, BirthKin DEF Listed
<1>4. PICK R : R = Rollback(W) /\ Plan(db, R) /\ R \in Ses
  BY <1>1, <1>3, RollbackPlans, RollbackParts DEF Birth
<1>5. PICK C : C = [R EXCEPT !.raised = TRUE]
  OBVIOUS
<1>6. C.cached = R.cached /\ C.known = R.known /\ C.ups = R.ups /\ C.dirty = R.dirty
  BY <1>4, <1>5 DEF Ses
<1>7. Birth(db, R, NoTxn) /\ Kin(R, C)
  BY <1>4, <1>6, NotLive DEF Birth, Sight, Kin
<1>8. Birth(db, C, NoTxn)
  BY <1>7, TwinsSelf, BirthKin
<1>9. RaiseReadOnlyRetry(S).S = C /\ RaiseReadOnlyRetry(S).t = NoTxn
  BY <1>1, <1>4, <1>5 DEF RaiseReadOnlyRetry, Raise
<1> QED
  BY <1>8, <1>9

LEMMA BeginBirth ==
    ASSUME World, NEW s, NEW S \in Ses, NEW t, NEW k, Holds(s, S, t, k), Plan(db, S),
           NEW mode \in {"rw", "ro"}
    PROVE  Birth(db, S, Begin(mode))
<1>1. StoreReady
  BY DEF World
<1>2. Starts(s, Begin(mode), mode)
  BY <1>1, BeginStarts
<1>3. Grounded(s, S, t, k.used)
  BY HeldParts
<1> QED
  BY <1>2, <1>3, StartBirth

LEMMA PromotedBirth ==
    ASSUME World, NEW s, NEW O, NEW r, Fits(O, r), NEW k, Holds(s, r.S, r.t, k),
           Birth(db, r.S, r.t), Ok(r) => Kept(r.S, r.t)
    PROVE  LET p == Promoted(r)
           IN  Birth(db, p.S, p.t)
<1>1. /\ r.S \in Ses /\ r.t \in Txn /\ r.t.mode \in {"none", "rw", "ro"}
  BY FitsParts
<1>2. PICK p : p = Promoted(r)
  OBVIOUS
<1>3. PICK mode \in {"rw", "ro"} : mode = "rw"
  OBVIOUS
<1>4. CASE ~Ok(r) \/ r.t.mode = "rw"
  BY <1>2, <1>4 DEF Promoted
<1>5. CASE Ok(r) /\ r.t.mode = "none"
  <2>1. p.S = r.S /\ p.t = Begin(mode)
    BY <1>2, <1>3, <1>5 DEF Promoted, Done
  <2>2. Birth(db, r.S, Begin(mode))
    BY <1>1, BeginBirth DEF Birth
  <2> QED
    BY <1>2, <2>1, <2>2
<1>6. CASE Ok(r) /\ r.t.mode = "ro" /\ r.S.unit = "ro"
  <2>1. p = RaiseReadOnlyRetry(r.S)
    BY <1>2, <1>6 DEF Promoted
  <2> QED
    BY <1>1, <1>2, <2>1, RaiseBirth
<1>7. CASE Ok(r) /\ r.t.mode = "ro" /\ r.S.unit # "ro" /\ r.t.dead
  <2>1. p.S = r.S /\ p.t = NoTxn
    BY <1>2, <1>7 DEF Promoted, Raise
  <2> QED
    BY <1>2, <2>1, BirthNone, NotLive
<1>8. CASE Ok(r) /\ r.t.mode = "ro" /\ r.S.unit # "ro" /\ ~r.t.dead
  <2>1. Upserted(r.S) = {} /\ r.S.rem = {}
    BY <1>8, HeldParts DEF Live
  <2>2. PICK P : P = Promote(r.S) /\ Plan(db, P) /\ P \in Ses /\ Upserted(P) = {}
    BY <1>1, <2>1, PromotePlans, PromoteParts DEF Birth
  <2>3. PICK D : D = DropSnapshotReads(P) /\ Plan(db, D)
    BY <2>2, DropPlans
  <2>4. p.S = D /\ p.t = Begin(mode)
    BY <1>2, <1>3, <1>8, <2>2, <2>3 DEF Promoted, Done
  <2>5. Holds(s, p.S, p.t, k) /\ D \in Ses
    BY <1>2, <2>2, <2>3, PromotedHolds, DropParts DEF World
  <2>6. Birth(db, D, Begin(mode))
    BY <2>3, <2>4, <2>5, BeginBirth
  <2> QED
    BY <1>2, <2>4, <2>6
<1> QED
  BY <1>1, <1>4, <1>5, <1>6, <1>7, <1>8

LEMMA BeginWritableBirth ==
    ASSUME World, NEW s, NEW O, NEW r, Fits(O, r), NEW k, Holds(s, r.S, r.t, k),
           Birth(db, r.S, r.t)
    PROVE  LET w == BeginWritable(r)
           IN  Birth(db, w.S, w.t)
<1>1. PICK w : w = BeginWritable(r)
  OBVIOUS
<1>2. CASE Ok(r) /\ r.S.raised
  <2>1. w.S = r.S /\ w.t = r.t
    BY <1>1, <1>2 DEF BeginWritable, Raise
  <2> QED
    BY <1>1, <2>1
<1>3. CASE ~(Ok(r) /\ r.S.raised)
  <2>1. PICK q : q = Reclaim(r) /\ Fits(O, q) /\ (Ok(q) => Kept(q.S, q.t))
    BY ReclaimFits
  <2>2. Holds(s, q.S, q.t, k) /\ Birth(db, q.S, q.t)
    BY <2>1, FitsParts, ReclaimHolds, ReclaimBirth
  <2>3. w = Promoted(q)
    BY <1>1, <1>3, <2>1 DEF BeginWritable
  <2> QED
    BY <1>1, <2>1, <2>2, <2>3, PromotedBirth
<1> QED
  BY <1>2, <1>3

LEMMA EnsureTxnBirth ==
    ASSUME World, NEW s, NEW O, NEW r, Fits(O, r), NEW k, Holds(s, r.S, r.t, k),
           Birth(db, r.S, r.t)
    PROVE  LET e == EnsureTxn(r)
           IN  Birth(db, e.S, e.t)
<1>1. PICK q : q = Reclaim(r) /\ Fits(O, q) /\ Holds(s, q.S, q.t, k) /\ Birth(db, q.S, q.t)
  BY FitsParts, ReclaimFits, ReclaimHolds, ReclaimBirth
<1>2. PICK e : e = EnsureTxn(r) /\ e = Opened(q)
  BY <1>1 DEF EnsureTxn
<1>3. CASE e = q
  BY <1>1, <1>2, <1>3
<1>4. CASE e = BeginWritable(q)
  BY <1>1, <1>2, <1>4, BeginWritableBirth
<1>5. CASE e = Done(q.S, Begin(Isolation(q.S)))
  <2>1. PICK mode \in {"rw", "ro"} : mode = Isolation(q.S)
    BY DEF Isolation
  <2>2. e.S = q.S /\ e.t = Begin(mode) /\ q.S \in Ses
    BY <1>1, <1>5, <2>1, FitsParts DEF Done
  <2>3. Birth(db, q.S, Begin(mode))
    BY <1>1, <2>2, BeginBirth DEF Birth
  <2> QED
    BY <1>2, <2>2, <2>3
<1> QED
  BY <1>2, <1>3, <1>4, <1>5 DEF Opened

LEMMA JoinBirth ==
    ASSUME World, NEW s, NEW O, NEW r, Fits(O, r), NEW k, Holds(s, r.S, r.t, k),
           Birth(db, r.S, r.t), NEW tag
    PROVE  LET j == Join(r, tag)
           IN  Birth(db, j.S, j.t)
<1>1. PICK w : w = BeginWritable(r) /\ Fits(O, w) /\ Birth(db, w.S, w.t)
  BY BeginWritableFits, BeginWritableBirth DEF World
<1>2. w.S \in Ses /\ w.t \in Txn
  BY <1>1, FitsParts
<1>3. PICK j : j = Join(r, tag) /\ j = Joined(w, tag)
  BY <1>1 DEF Join
<1>4. PICK J : J = [w.S EXCEPT !.joined = TRUE]
  OBVIOUS
<1>5. PICK u : u = [w.t EXCEPT !.out = @ \cup {tag}]
  OBVIOUS
<1>6. Kin(w.S, J)
  BY <1>2, <1>4 DEF Ses, Kin
<1>7. Twins(w.t, u) /\ Twins(w.t, NoTxn)
  BY <1>2, <1>5, TwinsSelf DEF Txn, Twins, Live
<1>8. Birth(db, J, u) /\ Birth(db, J, NoTxn)
  BY <1>1, <1>6, <1>7, BirthKin
<1>9. j = w \/ j = Raise(J, NoTxn, "db") \/ j = Done(J, u)
  BY <1>3, <1>4, <1>5 DEF Joined
<1> QED
  BY <1>1, <1>3, <1>8, <1>9 DEF Raise, Done

-----------------------------------------------------------------------------
(* Flushing                                                                *)

(* The statement of a flush reaches the database: the rows in U, those of  *)
(* them in G land, and the transaction becomes T.                          *)
Sends(s, S, t, used, U, T, G) ==
    /\ Grounded(s, S, t, used) /\ Agrees(S, t) /\ Birth(db, S, t)
    /\ Live(t) /\ t.mode = "rw"
    /\ U \subseteq S.cached /\ ~UpsertFails(t, U)
    /\ T = Upsert(t, Rows(S), U) /\ G = Landing(t, Rows(S), U)

(* The row of Root lands only where the session read it last.              *)
LEMMA RootLands ==
    ASSUME World, NEW s \in Sessions, NEW S \in Ses, NEW t \in Txn, NEW used,
           NEW U \in SUBSET Ids, NEW T, NEW G, Sends(s, S, t, used, U, T, G), Root \in G
    PROVE  /\ S.known[Root].ver = db[Root].ver /\ db[Root].ver \in Nat
           /\ S.known[Root].ver <= T.view[Root].ver
           /\ Root \notin t.wrote => t.view[Root].ver = db[Root].ver
<1>1. /\ Root \in Ids /\ Root \in Seeded /\ Root \notin Mint[s] /\ Root \in U
      /\ StoreReady /\ Times(db, stamp, clock)
  BY RootFacts DEF Sends, Landing, World
<1>2. /\ Knows(db, S, Root) /\ Mine(db, s, S, t, used, Root) /\ Sees(db, stamp, S, t, Root)
      /\ S.rem = {} /\ Root \in S.cached
  BY <1>1 DEF Sends, Grounded, Sound
<1>3. PICK v, d, kn : v = t.view[Root] /\ d = db[Root] /\ kn = S.known[Root]
  OBVIOUS
<1>4. v \in Row /\ d \in Row /\ kn \in Row /\ S.ups[Root] \in Row
  BY <1>1, <1>3 DEF Txn, StoreReady, Ses
<1>5. Present(kn) /\ Present(d) /\ Present(v)
  BY <1>1, <1>2, <1>3 DEF Mine, Sees, Knows, Older
<1>6. kn.ver \in Nat /\ d.ver \in Nat /\ v.ver \in Nat
  BY <1>4, <1>5, Versions
<1>7. PICK c : c = Current(S, Root)
  OBVIOUS
<1>8. c = IF Present(S.ups[Root]) THEN S.ups[Root] ELSE kn
  BY <1>2, <1>3, <1>7 DEF Current
<1>9. PICK w : w = RowOf(S, Root)
  OBVIOUS
<1>10. w = [ver |-> c.ver, val |-> S.mem[Root]]
  <2>1. Present(c)
    BY <1>5, <1>8
  <2> QED
    BY <1>2, <1>7, <1>9, <2>1 DEF RowOf, WriteVersion
<1>11. Target(t, Root) = v /\ (Root \notin t.wrote => stamp[Root] <= t.start)
  BY <1>1, <1>3, NoneChanged DEF Sends
<1>12. v.ver = c.ver
  <2>1. Lands(t, Root, w)
    BY <1>1, <1>9 DEF Sends, Landing, Rows
  <2> QED
    BY <1>5, <1>10, <1>11, <2>1 DEF Lands
<1>13. T.view[Root].ver = v.ver + 1
  <2>1. T.view[Root] = Landed(t, Root, w)
    BY <1>1, <1>9, UpsertMore DEF Sends
  <2>2. Landed(t, Root, w) = [w EXCEPT !.ver = @ + 1]
    BY <1>5, <1>11 DEF Landed
  <2> QED
    BY <1>10, <1>12, <2>1, <2>2
<1>14. kn.ver <= v.ver
  BY <1>3 DEF Sends, Birth, Sight
<1>15. CASE Root \in t.wrote
  <2>1. kn.ver = d.ver
    BY <1>3, <1>15 DEF Sends, Birth, Sight
  <2> QED
    BY <1>3, <1>6, <1>13, <1>14, <1>15, <2>1
<1>16. CASE Root \notin t.wrote
  <2>1. v = d /\ ~Present(S.ups[Root])
    BY <1>2, <1>3, <1>11, <1>16 DEF Sees, Sends
  <2>2. kn.ver = d.ver
    BY <1>8, <1>12, <2>1
  <2> QED
    BY <1>3, <1>6, <1>13, <1>14, <2>1, <2>2
<1> QED
  BY <1>15, <1>16

(* A child that lands anew was created here, and is not in sight before.   *)
LEMMA ChildLands ==
    ASSUME World, NEW s \in Sessions, NEW S \in Ses, NEW t \in Txn, NEW used,
           NEW U \in SUBSET Ids, NEW T, NEW G, Sends(s, S, t, used, U, T, G),
           NEW c \in Children, c \in G, c \notin t.wrote
    PROVE  Present(t.view[c]) \/ Unsent(S, c)
<1>1. c \in Ids /\ c \in S.cached
  BY RootFacts DEF Sends, Landing
<1>2. Sees(db, stamp, S, t, c)
  BY <1>1 DEF Sends, Grounded, Sound
<1> QED
  BY <1>1, <1>2 DEF Sees, Unsent, Unsaved

LEMMA SentSight ==
    ASSUME World, NEW s \in Sessions, NEW S \in Ses, NEW t \in Txn, NEW used,
           NEW U \in SUBSET Ids, NEW T, NEW G, Sends(s, S, t, used, U, T, G)
    PROVE  Sight(db, S, T)
<1>1. /\ T.wrote = t.wrote \cup G /\ (\A id \in Ids \ G : T.view[id] = t.view[id])
      /\ \A id \in G : Present(T.view[id])
  BY UpsertFacts DEF Sends, Took
<1>2. Root \in Ids /\ Children \subseteq Ids
  BY RootFacts
<1>3. Sight(db, S, t) /\ Live(t)
  BY DEF Sends, Birth
<1>4. S.known[Root].ver <= T.view[Root].ver
  BY <1>1, <1>2, <1>3, RootLands DEF Sight
<1>5. Root \in T.wrote => S.known[Root].ver = db[Root].ver
  BY <1>1, <1>3, RootLands DEF Sight
<1>6. ASSUME NEW c \in Children, Present(db[c]), ~Present(T.view[c])
      PROVE  Root \notin T.wrote /\ T.view[Root].ver < db[Root].ver
  <2>1. c \notin G /\ ~Present(t.view[c])
    BY <1>1, <1>2, <1>6
  <2>2. Root \notin t.wrote /\ t.view[Root].ver < db[Root].ver
    BY <1>3, <1>6, <2>1 DEF Sight
  <2>3. Root \notin G
    BY <2>2, RootLands
  <2> QED
    BY <1>1, <1>2, <2>2, <2>3
<1>7. ASSUME NEW c \in Children, c \in T.wrote
      PROVE  Present(db[c]) \/ Root \in T.wrote \/ Unsent(S, c)
  <2>1. CASE c \in t.wrote
    BY <1>1, <1>3, <2>1 DEF Sight
  <2>2. CASE c \notin t.wrote
    <3>1. Present(t.view[c]) \/ Unsent(S, c)
      BY <1>1, <1>7, <2>2, ChildLands
    <3>2. Older(t.view[c], db[c])
      BY <1>2, <1>3, <2>2 DEF Sends, Grounded, Sound, Sees
    <3> QED
      BY <3>1, <3>2 DEF Older
  <2> QED
    BY <2>1, <2>2
<1>8. ASSUME NEW c \in Children, NEW e \in Children, Present(T.view[c]), Present(T.view[e])
      PROVE  c = e \/ Unsent(S, c) \/ Unsent(S, e)
  <2>1. \A x \in {c, e} : Present(t.view[x]) \/ Unsent(S, x)
    <3> SUFFICES ASSUME NEW x \in {c, e} PROVE Present(t.view[x]) \/ Unsent(S, x)
      OBVIOUS
    <3>1. x \in Children /\ x \in Ids /\ Present(T.view[x])
      BY <1>2, <1>8
    <3>2. CASE x \in t.wrote
      <4>1. Newer(t.view[x], db[x])
        BY <1>3, <3>1, <3>2 DEF Sends, Grounded, Sound, Sees
      <4> QED
        BY <4>1 DEF Newer
    <3>3. CASE x \notin t.wrote /\ x \in G
      BY <3>1, <3>3, ChildLands
    <3>4. CASE x \notin G
      BY <1>1, <3>1, <3>4
    <3> QED
      BY <3>2, <3>3, <3>4
  <2>2. CASE Present(t.view[c]) /\ Present(t.view[e])
    BY <1>3, <2>2 DEF Sight
  <2> QED
    BY <2>1, <2>2
<1> QED
  BY <1>4, <1>5, <1>6, <1>7, <1>8 DEF Sight

Sole(T, c) == \A x \in Children : Present(T.view[x]) => x = c

(* When the whole flush lands, a child sent for the first time is the only *)
(* one: Root landed, so no child was committed since Root was read.        *)
LEMMA FirstSent ==
    ASSUME World, NEW s \in Sessions, NEW S \in Ses, NEW t \in Txn, NEW used,
           NEW U \in SUBSET Ids, NEW T, Sends(s, S, t, used, U, T, U),
           S.dirty \cap S.cached \subseteq U,
           NEW c \in Children, Unsent(S, c)
    PROVE  Root \in U /\ Sole(T, c)
<1>1. c \in Ids /\ Root \in Ids /\ Children \subseteq Ids
  BY RootFacts
<1>2. Unsaved(S, c) /\ Plan(db, S)
  BY DEF Unsent, Sends, Birth
<1>3. {c, Root} \subseteq S.dirty \cap S.cached
  BY <1>2 DEF Plan, Tied, Unsent
<1>4. Root \in U
  BY <1>3
<1>5. S.known[Root].ver = db[Root].ver /\ db[Root].ver \in Nat
  BY <1>4, RootLands
<1>6. \A e \in Children : ~Present(db[e])
  BY <1>2, <1>5 DEF Plan
<1>7. /\ T.wrote = t.wrote \cup U /\ \A id \in Ids \ U : T.view[id] = t.view[id]
  BY UpsertFacts DEF Sends, Took
<1>8. ASSUME NEW e \in Children, Present(T.view[e])
      PROVE  e = c
  <2>1. /\ Knows(db, S, e) /\ Sees(db, stamp, S, t, e) /\ S.rem = {} /\ S.deleted = {}
    BY <1>1 DEF Sends, Grounded, Sound
  <2>2. CASE e \in T.wrote
    <3>1. e \in S.cached
      <4>1. t.wrote \subseteq Upserted(S) \cup S.rem \cup Pending(S)
        BY DEF Sends, Agrees, AgreesBut, Live
      <4>2. e \in Upserted(S) \cup Pending(S) \cup U
        BY <1>7, <2>1, <2>2, <4>1
      <4> QED
        BY <2>1, <4>2 DEF Upserted, Knows, Pending, Sends
    <3>2. Unsaved(S, e)
      BY <1>6, <2>1, <3>1 DEF Knows, Older, Unsaved
    <3> QED
      BY <1>2, <3>2 DEF Plan
  <2>3. CASE e \notin T.wrote
    <3>1. Present(t.view[e]) /\ e \notin t.wrote
      BY <1>1, <1>7, <1>8, <2>3
    <3>2. Present(db[e])
      BY <2>1, <3>1 DEF Sees, Older
    <3> QED
      BY <1>6, <3>2
  <2> QED
    BY <2>2, <2>3
<1> QED
  BY <1>4, <1>8 DEF Sole

LEMMA WrittenBirth ==
    ASSUME World, NEW s \in Sessions, NEW S \in Ses, NEW t \in Txn, NEW used,
           NEW U \in SUBSET Ids, NEW T, Sends(s, S, t, used, U, T, U),
           S.dirty \cap S.cached \subseteq U
    PROVE  LET R == Written(S, T, U)
           IN  /\ Birth(db, R, T)
               /\ \A c \in Children : ~Unsent(R, c)
<1>1. PICK R : R = Written(S, T, U)
  OBVIOUS
<1>2. /\ R.cached = S.cached /\ R.dirty = S.dirty /\ R.known = S.known
      /\ \A id \in Ids : R.ups[id] = IF id \in U THEN T.view[id] ELSE S.ups[id]
  BY <1>1, WrittenFacts
<1>3. /\ T.wrote = t.wrote \cup U /\ \A id \in U : Present(T.view[id])
  BY UpsertFacts DEF Sends, Took
<1>4. Root \in Ids /\ Children \subseteq Ids
  BY RootFacts
<1>5. ASSUME NEW c \in Children PROVE ~Unsent(R, c)
  <2> SUFFICES ASSUME Unsent(R, c) PROVE FALSE
    OBVIOUS
  <2>1. c \in Ids /\ c \notin U /\ Unsent(S, c)
    BY <1>2, <1>3, <1>4 DEF Unsent, Unsaved
  <2>2. c \in S.dirty \cap S.cached
    BY <2>1 DEF Sends, Birth, Plan, Tied, Unsent
  <2> QED
    BY <2>1, <2>2
<1>6. ASSUME NEW c \in Children, Unsaved(R, c)
      PROVE  Unsaved(S, c) /\ Tied(R, c) /\ R.known[Root] = S.known[Root]
  <2>1. Unsaved(S, c) /\ R.known = S.known
    BY <1>2, <1>6 DEF Unsaved
  <2>2. Present(R.ups[c])
    BY <1>5, <1>6 DEF Unsent
  <2>3. Present(R.ups[Root])
    <3>1. CASE Unsent(S, c)
      BY <1>2, <1>3, <1>4, <3>1, FirstSent
    <3>2. CASE ~Unsent(S, c)
      <4>1. Present(S.ups[Root])
        BY <2>1, <3>2 DEF Unsent, Sends, Birth, Plan, Tied
      <4> QED
        BY <1>2, <1>3, <1>4, <4>1
    <3> QED
      BY <3>1, <3>2
  <2> QED
    BY <2>1, <2>2, <2>3 DEF Tied
<1>7. Plan(db, R)
  BY <1>6, PlanLess DEF Sends, Birth
<1>8. Sight(db, S, T)
  BY SentSight, <1>3 DEF Sends
<1>9. ASSUME Live(T) PROVE Sight(db, R, T)
  <2>1. ASSUME NEW c \in Children, c \in T.wrote
        PROVE  Present(db[c]) \/ Root \in T.wrote
    <3>1. CASE Unsent(S, c)
      BY <1>3, <3>1, FirstSent
    <3>2. CASE ~Unsent(S, c)
      BY <1>8, <1>9, <2>1, <3>2 DEF Sight
    <3> QED
      BY <3>1, <3>2
  <2>2. ASSUME NEW c \in Children, NEW e \in Children, Present(T.view[c]), Present(T.view[e])
        PROVE  c = e
    <3>1. CASE Unsent(S, c)
      BY <2>2, <3>1, FirstSent DEF Sole
    <3>3. CASE Unsent(S, e)
      <4>1. Sole(T, e)
        BY <3>3, FirstSent
      <4> QED
        BY <2>2, <4>1 DEF Sole
    <3>2. CASE ~(Unsent(S, c) \/ Unsent(S, e))
      BY <1>8, <1>9, <2>2, <3>2 DEF Sight
    <3> QED
      BY <3>1, <3>2, <3>3
  <2> QED
    BY <1>2, <1>8, <1>9, <2>1, <2>2 DEF Sight
<1> QED
  BY <1>1, <1>5, <1>7, <1>9 DEF Birth, Sight


(* Each child the session has created has been sent.                       *)
AllSent(S) == \A c \in Children : ~Unsent(S, c)

LEMMA SettledSent ==
    ASSUME NEW d, NEW S, NEW t, Birth(d, S, t), S.dirty \cap S.cached = {}
    PROVE  AllSent(S)
<1> SUFFICES ASSUME NEW c \in Children, Unsent(S, c) PROVE FALSE
  BY DEF AllSent
<1>1. {c, Root} \subseteq S.dirty \cap S.cached
  BY DEF Birth, Plan, Tied, Unsent
<1> QED
  BY <1>1

LEMMA ConflictBirth ==
    ASSUME NEW S \in Ses, NEW t, Birth(db, S, t), NEW W, NEW u, ~Live(u)
    PROVE  Birth(db, [S EXCEPT !.conflict = W], u)
<1>1. PICK R : R = [S EXCEPT !.conflict = W]
  OBVIOUS
<1>2. Kin(S, R)
  BY <1>1 DEF Ses, Kin
<1>3. Twins(t, u)
  BY DEF Twins
<1> QED
  BY <1>1, <1>2, <1>3, BirthKin

LEMMA LockTimeoutBirth ==
    ASSUME NEW S \in Ses, NEW t, Birth(db, S, t), NEW W
    PROVE  LET r == LockTimeout(S, W)
           IN  ~Ok(r) /\ Birth(db, r.S, r.t)
<1>1. PICK r : r = LockTimeout(S, W)
  OBVIOUS
<1>2. ~Ok(r) /\ r.t = NoTxn /\ (r.S = S \/ r.S = [S EXCEPT !.conflict = W])
  BY <1>1 DEF LockTimeout, Raise, Ok
<1> QED
  BY <1>1, <1>2, NotLive, BirthNone, ConflictBirth

LEMMA FlushRowsBirth ==
    ASSUME World, NEW s \in Sessions, NEW O, NEW r, Fits(O, r), NEW k,
           Holds(s, r.S, r.t, k), Birth(db, r.S, r.t),
           NEW U \in SUBSET Ids, U \subseteq r.S.cached,
           r.S.dirty \cap r.S.cached \subseteq U,
           Ok(r) /\ U # {} => r.t.mode = "rw"
    PROVE  LET f == FlushRows(s, r, U)
           IN  Birth(db, f.S, f.t) /\ (Ok(f) => AllSent(f.S))
<1>1. r.S \in Ses /\ r.t \in Txn /\ Agrees(r.S, r.t)
  BY FitsParts
<1>2. PICK f : f = FlushRows(s, r, U)
  OBVIOUS
<1>3. CASE (~Ok(r) \/ U = {}) /\ f = r
  <2>1. U = {} => AllSent(r.S)
    BY SettledSent
  <2> QED
    BY <1>2, <1>3, <2>1
<1>4. CASE f = Raise(r.S, NoTxn, "db")
  <2>1. f.S = r.S /\ f.t = NoTxn /\ ~Ok(f)
    BY <1>4 DEF Raise, Ok
  <2> QED
    BY <1>2, <2>1, NotLive, BirthNone
<1>5. CASE f = LockTimeout(r.S, U)
  BY <1>1, <1>2, <1>5, LockTimeoutBirth
<1>6. PICK T : T = Upsert(r.t, Rows(r.S), U)
  OBVIOUS
<1>7. PICK G : G = Landing(r.t, Rows(r.S), U)
  OBVIOUS
<1>8. ASSUME Ok(r), U # {}, ~r.t.dead, ~UpsertFails(r.t, U)
      PROVE  Sends(s, r.S, r.t, k.used, U, T, G)
  <2>1. Live(r.t) /\ r.t.mode = "rw"
    BY <1>8 DEF Live
  <2> QED
    BY <1>1, <1>6, <1>7, <1>8, <2>1, HeldParts DEF Sends
<1>9. ASSUME Ok(r), U # {}, ~r.t.dead, ~UpsertFails(r.t, U), NEW c,
             f = Raise([r.S EXCEPT !.conflict = c], T, "conflict")
      PROVE  Birth(db, f.S, f.t) /\ ~Ok(f)
  <2>1. Sends(s, r.S, r.t, k.used, U, T, G)
    BY <1>8, <1>9
  <2>2. Birth(db, r.S, T)
    BY <1>1, <2>1, SentSight DEF Birth
  <2>3. PICK R : R = [r.S EXCEPT !.conflict = c]
    OBVIOUS
  <2>4. Kin(r.S, R)
    BY <1>1, <2>3 DEF Ses, Kin
  <2>5. Birth(db, R, T)
    BY <2>2, <2>4, TwinsSelf, BirthKin
  <2>6. f.S = R /\ f.t = T /\ ~Ok(f)
    BY <1>9, <2>3 DEF Raise, Ok
  <2> QED
    BY <2>5, <2>6
<1>10. ASSUME Ok(r), U # {}, ~r.t.dead, ~UpsertFails(r.t, U),
              Stale(r.S, r.t, U) = {}, f = Done(Written(r.S, T, U), T)
       PROVE  Birth(db, f.S, f.t) /\ AllSent(f.S)
  <2>1. G = U
    <3>1. \A id \in U : Rows(r.S)[id] = RowOf(r.S, id)
      BY DEF Rows
    <3> QED
      BY <1>7, <1>10, <3>1 DEF Stale, Landing
  <2>2. Sends(s, r.S, r.t, k.used, U, T, U)
    BY <1>8, <1>10, <2>1
  <2>3. PICK R : R = Written(r.S, T, U)
    OBVIOUS
  <2>4. Birth(db, R, T) /\ AllSent(R)
    BY <1>1, <2>2, <2>3, WrittenBirth DEF AllSent
  <2>5. f.S = R /\ f.t = T
    BY <1>10, <2>3 DEF Done
  <2> QED
    BY <2>4, <2>5
<1>11. \/ (~Ok(r) \/ U = {}) /\ f = r
       \/ f = Raise(r.S, NoTxn, "db")
       \/ f = LockTimeout(r.S, U)
       \/ /\ Ok(r) /\ U # {} /\ ~r.t.dead /\ ~Blocked(s, U) /\ ~UpsertFails(r.t, U)
          /\ \/ \E c : f = Raise([r.S EXCEPT !.conflict = c], T, "conflict")
             \/ Stale(r.S, r.t, U) = {} /\ f = Done(Written(r.S, T, U), T)
  BY <1>2, <1>6 DEF FlushRows
<1> QED
  BY <1>2, <1>3, <1>4, <1>5, <1>9, <1>10, <1>11

LEMMA CleanBirth ==
    ASSUME NEW S \in Ses, NEW t, Birth(db, S, t), AllSent(S)
    PROVE  LET C == [S EXCEPT !.dirty = {}]
           IN  Birth(db, C, t) /\ AllSent(C)
<1>1. PICK C : C = [S EXCEPT !.dirty = {}]
  OBVIOUS
<1>2. C.cached = S.cached /\ C.known = S.known /\ C.ups = S.ups
  BY <1>1 DEF Ses
<1>3. \A c \in Children : /\ Unsaved(C, c) <=> Unsaved(S, c)
                          /\ Unsent(C, c) <=> Unsent(S, c)
  BY <1>2 DEF Unsaved, Unsent
<1>4. ASSUME NEW c \in Children, Unsaved(C, c)
      PROVE  Unsaved(S, c) /\ Tied(C, c) /\ C.known[Root] = S.known[Root]
  <2>1. Unsaved(S, c) /\ Present(S.ups[c]) /\ Tied(S, c)
    BY <1>3, <1>4 DEF Unsent, AllSent, Birth, Plan
  <2> QED
    BY <1>2, <2>1 DEF Tied
<1>5. Plan(db, C)
  BY <1>4, PlanLess DEF Birth
<1>6. ASSUME Live(t) PROVE Sight(db, C, t)
  <2>1. Sight(db, S, t)
    BY DEF Birth
  <2> QED
    BY <1>2, <1>3, <1>6, <2>1 DEF Sight
<1> QED
  BY <1>1, <1>3, <1>5, <1>6 DEF Birth, Sight, AllSent

LEMMA FlushBirth ==
    ASSUME World, NEW s \in Sessions, NEW O, NEW r, Fits(O, r), NEW k,
           Holds(s, r.S, r.t, k), Birth(db, r.S, r.t), NEW full \in BOOLEAN,
           ~full \/ k.begun \/ r.t.mode # "ro"
    PROVE  LET f == Flush(s, r, full)
           IN  Birth(db, f.S, f.t) /\ (Ok(f) => AllSent(f.S))
<1>0. StoreReady /\ Times(db, stamp, clock)
  BY DEF World
<1>1. PICK p : p = Flush(s, r, full)
  OBVIOUS
<1>2. PICK q : /\ q = Reclaim(r) /\ Fits(O, q) /\ (Ok(q) => Kept(q.S, q.t))
               /\ Holds(s, q.S, q.t, k) /\ q.t = r.t /\ Birth(db, q.S, q.t)
  BY FitsParts, ReclaimFits, ReclaimHolds, ReclaimBirth
<1>3. CASE ~Ok(q)
  <2>1. p = q
    BY <1>1, <1>2, <1>3 DEF Flush, FlushLocked
  <2> QED
    BY <1>1, <1>2, <1>3, <2>1
<1>4. CASE Ok(q)
  <2>1. PICK U \in SUBSET Ids : U = Unflushed(q.S, full)
    BY <1>2, FitsParts DEF Unflushed, Ses
  <2>2. q.S.deleted = {}
    BY <1>2 DEF Holds, Grounded, Sound
  <2>3. PICK w : w = Writable(q, U)
    OBVIOUS
  <2>4. /\ Fits(O, w) /\ Holds(s, w.S, w.t, k) /\ Birth(db, w.S, w.t)
        /\ Ok(w) => /\ Lifted(q.S, w.S) /\ Same(k, q, w)
                    /\ U # {} => w.t.mode = "rw"
    <3>1. CASE U \cup q.S.deleted = {}
      <4>1. w = q
        BY <2>3, <3>1 DEF Writable
      <4> QED
        BY <1>2, <3>1, <4>1 DEF Lifted, Same
    <3>2. CASE U \cup q.S.deleted # {}
      <4>1. w = BeginWritable(q)
        BY <1>4, <2>3, <3>2 DEF Writable
      <4>2. Fits(O, w) /\ (Ok(w) => w.t.mode = "rw" /\ Lifted(q.S, w.S))
        BY <1>0, <1>2, <1>4, <4>1, BeginWritableFits
      <4>3. Birth(db, w.S, w.t)
        BY <1>2, <4>1, BeginWritableBirth
      <4> QED
        BY <1>0, <1>2, <1>4, <4>1, <4>2, <4>3, BeginWritableHolds
    <3> QED
      BY <3>1, <3>2
  <2>5. PICK f : f = FlushRows(s, w, U)
    OBVIOUS
  <2>6. PICK d : d = FlushDeletes(s, f)
    OBVIOUS
  <2>7. p = Flushed(d)
    BY <1>1, <1>2, <1>4, <2>1, <2>3, <2>5, <2>6 DEF Flush, FlushLocked, FlushThe
  <2>8. CASE ~Ok(w)
    <3>1. f = w /\ d = w /\ p = w
      BY <2>5, <2>6, <2>7, <2>8 DEF FlushRows, FlushDeletes, Flushed
    <3> QED
      BY <1>1, <2>4, <2>8, <3>1
  <2>9. CASE Ok(w)
    <3>1. U \subseteq q.S.cached /\ q.S.dirty \cap q.S.cached \subseteq U
          /\ (~full => U = q.S.dirty \cap q.S.cached)
      BY <2>1 DEF Unflushed
    <3>2. U \subseteq w.S.cached /\ w.S.dirty \cap w.S.cached \subseteq U
      <4>1. w.S.dirty \cap w.S.cached = q.S.dirty \cap q.S.cached
        BY <2>4, <2>9 DEF Lifted
      <4>2. w.S = q.S \/ ~full
        BY <1>2, <2>4, <2>9 DEF Same
      <4> QED
        BY <3>1, <4>1, <4>2
    <3>3. Birth(db, f.S, f.t) /\ (Ok(f) => AllSent(f.S))
      BY <2>4, <2>5, <2>9, <3>2, FlushRowsBirth
    <3>4. f.S \in Ses /\ Holds(s, f.S, f.t, k)
      <4>1. f.S \in Ses
        BY <2>4, <2>5, FitsParts, FlushRowsFrom, FromParts
      <4> QED
        BY <1>0, <2>4, <2>5, <2>9, <3>2, <4>1, FlushRowsHolds
    <3>5. d = f
      <4>1. f.S.deleted = {}
        BY <3>4 DEF Holds, Grounded, Sound
      <4> QED
        BY <2>6, <4>1 DEF FlushDeletes
    <3>6. CASE ~Ok(f)
      <4>1. p = f
        BY <2>7, <3>5, <3>6 DEF Flushed
      <4> QED
        BY <1>1, <3>3, <3>6, <4>1
    <3>7. CASE Ok(f)
      <4>1. PICK C : C = [f.S EXCEPT !.dirty = {}]
        OBVIOUS
      <4>2. p.S = C /\ p.t = f.t
        BY <2>7, <3>5, <3>7, <4>1 DEF Flushed, Done
      <4>3. Birth(db, C, f.t) /\ AllSent(C)
        BY <3>3, <3>4, <3>7, <4>1, CleanBirth
      <4> QED
        BY <1>1, <4>2, <4>3
    <3> QED
      BY <3>6, <3>7
  <2> QED
    BY <2>8, <2>9
<1> QED
  BY <1>3, <1>4

LEMMA ReplayBirth ==
    ASSUME NEW s, NEW S \in Ses, NEW t, NEW k, Holds(s, S, t, k), Birth(db, S, t),
           NEW b \in BOOLEAN
    PROVE  LET r == Replay(S, b)
           IN  Birth(db, r.S, r.t) /\ r.S.cached = S.cached
<1>1. PICK R : R = Rollback(S) /\ R \in Ses /\ R.cached = S.cached
  BY RollbackParts
<1>2. Birth(db, R, NoTxn)
  BY <1>1, NotLive, RollbackBirth
<1>3. PICK L : L = [R EXCEPT !.lost = @ \/ b]
  OBVIOUS
<1>4. Kin(R, L)
  BY <1>1, <1>3 DEF Ses, Kin
<1>5. Birth(db, L, NoTxn) /\ L.cached = S.cached
  BY <1>1, <1>2, <1>4, TwinsSelf, BirthKin DEF Kin
<1>6. PICK r : r = Replay(S, b)
  OBVIOUS
<1>7. r.S = L /\ r.t = NoTxn
  BY <1>1, <1>3, <1>6 DEF Replay, LostOr, Raise, Done
<1> QED
  BY <1>5, <1>6, <1>7

LEMMA ReadBarrierBirth ==
    ASSUME World, NEW s \in Sessions, NEW S \in Ses, NEW t \in Txn, Apart(S),
           Agrees(S, t), Idle(t), NEW k, Holds(s, S, t, k), Birth(db, S, t)
    PROVE  LET r == ReadBarrier(s, Done(S, t))
           IN  Birth(db, r.S, r.t)
<1>0. StoreReady /\ Times(db, stamp, clock)
  BY DEF World
<1>1. Fits(S, Done(S, t)) /\ Done(S, t).S = S /\ Done(S, t).t = t
  BY FitsSelf DEF Done
<1>2. PICK e : /\ e = EnsureTxn(Done(S, t)) /\ Fits(S, e) /\ Holds(s, e.S, e.t, k)
               /\ Birth(db, e.S, e.t)
  BY <1>0, <1>1, EnsureTxnFits, EnsureTxnHolds, EnsureTxnBirth
<1>3. PICK full \in BOOLEAN : full = FALSE
  OBVIOUS
<1>4. PICK r : r = ReadBarrier(s, Done(S, t)) /\ r = Flush(s, e, full) /\ ~full
  BY <1>2, <1>3 DEF ReadBarrier
<1> QED
  BY <1>2, <1>4, FlushBirth

-----------------------------------------------------------------------------
(* Reading and changing anchors                                            *)

(* A loaded row never replaces one the session has written.                *)
LEMMA MaterializeBirth ==
    ASSUME World, NEW s \in Sessions, NEW S \in Ses, NEW t \in Txn, NEW used,
           Grounded(s, S, t, used), Agrees(S, t), Live(t), Birth(db, S, t),
           NEW L \in SUBSET Ids, \A id \in L : Present(t.view[id])
    PROVE  Birth(db, Materialize(S, t, L), t)
<1>1. PICK keep : keep = {id \in L \cap S.cached :
                            \/ id \in S.dirty
                            \/ ~Present(Current(S, id))
                            \/ Current(S, id).ver = t.view[id].ver}
  OBVIOUS
<1>2. PICK new : new = L \ keep
  OBVIOUS
<1>3. PICK M : M = Materialize(S, t, L)
  OBVIOUS
<1>4. /\ M.cached = S.cached \cup new /\ M.dirty = S.dirty
      /\ M.ups = [id \in Ids |-> IF id \in new /\ Present(S.ups[id]) THEN t.view[id]
                                                                     ELSE S.ups[id]]
      /\ M.known = [id \in Ids |-> IF id \in new /\ ~Present(S.ups[id]) THEN t.view[id]
                                                                        ELSE S.known[id]]
  BY <1>1, <1>2, <1>3 DEF Materialize, Ses
<1>5. S.rem = {} /\ S.deleted = {} /\ (\A id \in Ids : Knows(db, S, id))
  BY DEF Grounded, Sound
<1>6. ASSUME NEW id \in new
      PROVE  /\ id \in Ids /\ Present(t.view[id]) /\ ~Present(S.ups[id])
             /\ id \notin t.wrote
             /\ id \in S.cached => id \notin S.dirty /\ Present(S.known[id])
  <2>1. id \in L /\ id \in Ids /\ id \notin keep
    BY <1>2, <1>6
  <2>2. id \in S.cached => /\ id \notin S.dirty /\ Present(Current(S, id))
                           /\ Current(S, id).ver # t.view[id].ver
    BY <1>1, <2>1
  <2>3. /\ t.wrote \subseteq Upserted(S) \cup S.rem \cup Pending(S)
        /\ \A i \in Upserted(S) : t.view[i] = S.ups[i] \/ i \in Pending(S)
    BY DEF Agrees, AgreesBut, Live
  <2>4. id \notin Pending(S)
    BY <1>5, <2>2 DEF Pending
  <2>5. ~Present(S.ups[id])
    <3> SUFFICES ASSUME Present(S.ups[id]) PROVE FALSE
      OBVIOUS
    <3>1. id \in S.cached
      BY <1>5, <2>1 DEF Knows
    <3>2. t.view[id] = S.ups[id]
      BY <2>1, <2>3, <2>4 DEF Upserted
    <3> QED
      BY <1>5, <2>2, <3>1, <3>2 DEF Current
  <2>6. id \notin t.wrote
    BY <1>5, <2>3, <2>4, <2>5 DEF Upserted
  <2> QED
    BY <1>5, <2>1, <2>2, <2>5, <2>6 DEF Current
<1>7. /\ M.ups = S.ups
      /\ \A id \in Ids : M.known[id] = IF id \in new THEN t.view[id] ELSE S.known[id]
  <2>1. S.ups \in [Ids -> Row]
    BY DEF Ses
  <2>2. \A id \in Ids : M.ups[id] = S.ups[id]
    BY <1>4, <1>6
  <2> QED
    BY <1>4, <1>6, <2>1, <2>2
<1>8. Root \in Ids /\ Children \subseteq Ids
  BY RootFacts
<1>9. ASSUME NEW c \in Children
      PROVE  /\ Unsaved(M, c) <=> Unsaved(S, c)
             /\ Unsent(M, c) <=> Unsent(S, c)
  BY <1>4, <1>6, <1>7, <1>8 DEF Unsaved, Unsent
<1>10. ASSUME NEW c \in Children, Unsaved(M, c)
       PROVE  Unsaved(S, c) /\ Tied(M, c) /\ M.known[Root] = S.known[Root]
  <2>1. Unsaved(S, c) /\ Tied(S, c)
    BY <1>9, <1>10 DEF Birth, Plan
  <2>2. Root \notin new
    BY <1>6, <2>1 DEF Tied
  <2> QED
    BY <1>4, <1>7, <1>8, <2>1, <2>2 DEF Tied
<1>11. Plan(db, M)
  BY <1>10, PlanLess DEF Birth
<1>12. Sight(db, M, t)
  <2>1. Sight(db, S, t)
    BY DEF Birth
  <2>2. M.known[Root].ver <= t.view[Root].ver
    <3>1. t.view[Root].ver <= t.view[Root].ver
      <4>1. t.view[Root] \in Row /\ Present(t.view[Root])
        BY <1>8, RootFacts DEF Txn, Grounded, Sound, Sees
      <4> QED
        BY <4>1, Versions
    <3> QED
      BY <1>7, <1>8, <2>1, <3>1 DEF Sight
  <2>3. Root \in t.wrote => M.known[Root].ver = db[Root].ver
    BY <1>6, <1>7, <1>8, <2>1 DEF Sight
  <2> QED
    BY <1>9, <2>1, <2>2, <2>3 DEF Sight
<1> QED
  BY <1>3, <1>11, <1>12 DEF Birth

LEMMA LoadFullBirth ==
    ASSUME World, NEW s \in Sessions, NEW S \in Ses, NEW t \in Txn, NEW used,
           Grounded(s, S, t, used), Agrees(S, t), Birth(db, S, t),
           NEW L \in SUBSET Ids, t.mode # "none"
    PROVE  LET r == LoadFull(Done(S, t), L)
           IN  Birth(db, r.S, r.t)
<1>1. PICK r : r = LoadFull(Done(S, t), L)
  OBVIOUS
<1>2. CASE t.dead
  <2>1. r = Raise(S, NoTxn, "db")
    BY <1>1, <1>2 DEF LoadFull, Done, Ok
  <2>2. r.S = S /\ r.t = NoTxn
    BY <2>1 DEF Raise
  <2> QED
    BY <1>1, <2>2, NotLive, BirthNone
<1>3. CASE ~t.dead
  <2>1. PICK G \in SUBSET Ids : G = {id \in L : Present(t.view[id])}
    OBVIOUS
  <2>2. PICK M : M = Materialize(S, t, G)
    OBVIOUS
  <2>3. PICK u : u = Reading(t, L)
    OBVIOUS
  <2>4. r.S = M /\ r.t = u
    BY <1>1, <1>3, <2>1, <2>2, <2>3 DEF LoadFull, Done, Ok
  <2>5. Live(t) /\ \A id \in G : Present(t.view[id])
    BY <1>3, <2>1 DEF Live
  <2>6. Birth(db, M, t)
    BY <2>2, <2>5, MaterializeBirth
  <2>7. Twins(t, u) /\ Kin(M, M)
    BY <2>3 DEF Reading, Txn, Twins, Live, Kin
  <2>8. Birth(db, M, u)
    BY <2>6, <2>7, BirthKin
  <2> QED
    BY <1>1, <2>4, <2>8
<1> QED
  BY <1>2, <1>3

LEMMA WriteBirth ==
    ASSUME NEW S \in Ses, NEW t, Birth(db, S, t), NEW id, NEW tag
    PROVE  Birth(db, Write(S, id, tag), t) /\ Birth(db, Mutate(S, id, tag), t)
<1>1. PICK W : W = Write(S, id, tag)
  OBVIOUS
<1>2. PICK M : M = Mutate(S, id, tag)
  OBVIOUS
<1>3. Kin(S, W)
  BY <1>1 DEF Write, Ses, Kin
<1>4. Kin(S, M)
  BY <1>2 DEF Mutate, Ses, Kin
<1> QED
  BY <1>1, <1>2, <1>3, <1>4, TwinsSelf, BirthKin

LEMMA EmptyBirth ==
    ASSUME NEW d, NEW S, NEW t, S.cached = {}, ~Live(t)
    PROVE  Birth(d, S, t)
BY DEF Birth, Plan, Sight, Unsaved

LEMMA AbortBirth ==
    ASSUME NEW S \in Ses, NEW d PROVE Birth(d, Abort(S), NoTxn)
BY AbortParts, EmptyBirth, NotLive

(* No child in the cache, and none in sight of the transaction.            *)
Childless(S, t) == \A c \in Children : c \notin S.cached /\ ~Present(t.view[c])

(* A walker that read all the children it had not in its cache, and found  *)
(* none.                                                                   *)
LEMMA NoneFound ==
    ASSUME World, NEW s \in Sessions, NEW S \in Ses, NEW t \in Txn, NEW used,
           Grounded(s, S, t, used), Birth(db, S, t),
           NEW L \in SUBSET Ids, t.mode # "none", Children \subseteq L \cup S.cached,
           Ok(LoadFull(Done(S, t), L)), FindsNone(LoadFull(Done(S, t), L).S, L)
    PROVE  LET r == LoadFull(Done(S, t), L)
           IN  Live(r.t) /\ Childless(r.S, r.t)
<1>1. PICK r : r = LoadFull(Done(S, t), L)
  OBVIOUS
<1>2. ~t.dead
  BY DEF LoadFull, Done, Ok, Raise
<1>3. PICK G \in SUBSET Ids : G = {id \in L : Present(t.view[id])}
  OBVIOUS
<1>4. PICK M : M = Materialize(S, t, G)
  OBVIOUS
<1>5. PICK u : u = Reading(t, L)
  OBVIOUS
<1>6. r.S = M /\ r.t = u
  BY <1>1, <1>2, <1>3, <1>4, <1>5 DEF LoadFull, Done, Ok
<1>7. Live(t) /\ Live(u) /\ u.view = t.view
  BY <1>2, <1>5 DEF Reading, Txn, Live
<1>8. /\ M.cached = S.cached \cup G /\ M.fresh = S.fresh \cup G
      /\ M.deleted = {} /\ M.dirty = S.dirty
  <2>1. S.deleted = {}
    BY DEF Grounded, Sound
  <2>2. M.fresh = S.fresh \cup G /\ M.deleted = S.deleted /\ M.dirty = S.dirty
    BY <1>4 DEF Materialize, Ses
  <2>3. M.cached = S.cached \cup G
    BY <1>4 DEF Materialize, Ses
  <2> QED
    BY <2>1, <2>2, <2>3
<1>9. ASSUME NEW c \in Children
      PROVE  c \notin M.cached /\ ~Present(u.view[c])
  <2>1. c \in Ids
    BY RootFacts
  <2>2. ~Found(M, L, c)
    BY <1>1, <1>6 DEF FindsNone
  <2>3. c \in M.cached => c \in L /\ ~Hit(M, c)
    BY <1>8, <2>2 DEF Found
  <2>4. c \in L
    BY <1>8, <2>3
  <2>5. ~Present(t.view[c])
    <3> SUFFICES ASSUME Present(t.view[c]) PROVE FALSE
      OBVIOUS
    <3>1. c \in G
      BY <1>3, <2>4
    <3> QED
      BY <1>8, <2>3, <3>1 DEF Hit, Expired
  <2>6. c \notin S.cached
    <3> SUFFICES ASSUME c \in S.cached PROVE FALSE
      OBVIOUS
    <3>1. Sees(db, stamp, S, t, c)
      BY <1>7, <2>1 DEF Grounded, Sound
    <3>2. ~Present(S.known[c]) /\ ~Present(S.ups[c])
      BY <2>5, <3>1 DEF Sees, Newer
    <3>3. Unsaved(S, c)
      BY <3>2 DEF Unsaved
    <3>4. c \in S.dirty
      BY <3>2, <3>3 DEF Birth, Plan, Tied
    <3> QED
      BY <1>8, <2>3, <3>4 DEF Hit, Expired
  <2>7. c \notin G
    BY <1>3, <2>5
  <2> QED
    BY <1>7, <1>8, <2>5, <2>6, <2>7
<1> QED
  BY <1>1, <1>6, <1>7, <1>9 DEF Childless

(* Such a walker may create one, and count it.                             *)
LEMMA CountBirth ==
    ASSUME World, NEW s \in Sessions, NEW S \in Ses, NEW t \in Txn, NEW used,
           Grounded(s, S, t, used), Birth(db, S, t), Live(t), Childless(S, t),
           Root \in S.cached, NEW id \in Mint[s] \ used,
           NEW tag \in Tags
    PROVE  Birth(db, Write(Put(S, id, tag), Root, tag), t)
<1>1. PICK P : P = Put(S, id, tag)
  OBVIOUS
<1>2. /\ P.cached = S.cached \cup {id} /\ P.known = S.known /\ P.ups = S.ups
      /\ P.dirty = S.dirty \cup {id}
  BY <1>1 DEF Put, Ses
<1>3. PICK W : W = Write(P, Root, tag)
  OBVIOUS
<1>4. /\ W.cached = S.cached \cup {id} /\ W.known = S.known /\ W.ups = S.ups
      /\ W.dirty = S.dirty \cup {id, Root}
  <2>1. P \in Ses
    BY <1>1, MintType, WriteKeeps DEF Keeps
  <2> QED
    BY <1>2, <1>3, <2>1 DEF Write, Ses
<1>5. /\ id \in Children /\ id \in Ids /\ Root \in Ids /\ Root \in Seeded
      /\ Children \subseteq Ids
  BY RootFacts, MintType DEF Children
<1>6. /\ \A c \in Children : c \notin S.cached /\ ~Present(t.view[c])
      /\ \A c \in Children : ~Present(S.ups[c])
  BY <1>5 DEF Childless, Grounded, Sound, Knows
<1>7. Sight(db, S, t)
  BY DEF Birth
<1>8. \A c \in Children : ~Unsaved(S, c) /\ (Unsaved(W, c) => c = id)
  BY <1>4, <1>6 DEF Unsaved
<1>9. /\ t.view[Root] \in Row /\ db[Root] \in Row /\ S.known[Root] \in Row
      /\ Present(t.view[Root]) /\ Present(db[Root])
  BY <1>5 DEF World, Times, StoreReady, Txn, Ses, Grounded, Sound, Sees
<1>10. /\ t.view[Root].ver \in Nat /\ db[Root].ver \in Nat
       /\ S.known[Root].ver \in Nat \cup {-1}
  <2>1. S.known[Root].ver \in Nat \cup {-1}
    BY <1>9, Versions DEF Present
  <2> QED
    BY <1>9, <2>1, Versions
<1>11. ASSUME NEW e \in Children, Present(db[e])
       PROVE  S.known[Root].ver < db[Root].ver
  <2>1. t.view[Root].ver < db[Root].ver /\ S.known[Root].ver <= t.view[Root].ver
    BY <1>6, <1>7, <1>11 DEF Sight
  <2> QED
    BY <1>10, <2>1
<1>12. Tied(W, id)
  BY <1>4, <1>5, <1>6 DEF Tied
<1>13. Plan(db, W)
  BY <1>4, <1>8, <1>11, <1>12 DEF Plan
<1>14. Sight(db, W, t)
  <2>1. \A c \in Children : c \in t.wrote => Present(db[c]) \/ Root \in t.wrote
    BY <1>7, <1>8 DEF Sight, Unsent
  <2> QED
    BY <1>4, <1>6, <1>7, <2>1 DEF Sight
<1> QED
  BY <1>1, <1>3, <1>13, <1>14 DEF Birth

-----------------------------------------------------------------------------
(* Steps                                                                   *)

Setting == TypeOK /\ LedgerInv /\ WriteInv /\ OneInv

LEMMA OneParts ==
    ASSUME Setting, NEW s \in Sessions
    PROVE  /\ ses[s] \in Ses /\ txn[s] \in Txn /\ req[s] \in Req /\ World
           /\ StoreReady /\ Times(db, stamp, clock) /\ Single(db)
           /\ Tag(s) \in Tags /\ Root \in Ids
           /\ Apart(ses[s]) /\ Agrees(ses[s], txn[s]) /\ Idle(txn[s])
           /\ Stage(ses[s], txn[s], req[s])
           /\ Holds(s, ses[s], txn[s], Claim(s, req[s]))
           /\ Grounded(s, ses[s], txn[s], req[s].used)
           /\ Told(db, outbox, s, txn[s], req[s])
           /\ Birth(db, ses[s], txn[s]) /\ Asked(ses[s], req[s])
<1>1. Claim(s, req[s]).used = req[s].used
  BY DEF Claim
<1> QED
  BY <1>1, WriteParts DEF Setting, OneInv, World, Holds

LEMMA OnePrime ==
    OneInv' <=> /\ Single(db')
                /\ \A o \in Sessions : /\ Birth(db', ses'[o], txn'[o])
                                       /\ Asked(ses'[o], req'[o])
  BY DEF OneInv, Single, Birth, Plan, Sight, Asked, Tied, Unsaved, Unsent, Live,
         Present, Children

LEMMA BecomesOne ==
    ASSUME Setting, NEW s \in Sessions, NEW S, NEW t, NEW q, Becomes(s, S, t, q),
           db' = db, Birth(db, S, t), Asked(S, q)
    PROVE  OneInv'
<1>1. /\ ses' = [ses EXCEPT ![s] = S]
      /\ txn' = [txn EXCEPT ![s] = t]
      /\ req' = [req EXCEPT ![s] = q]
      /\ ses \in [Sessions -> Ses] /\ req \in [Sessions -> Req] /\ txn \in [Sessions -> Txn]
  BY DEF Becomes, Setting, TypeOK, StoreTypeOK
<1>2. ASSUME NEW o \in Sessions
      PROVE  Birth(db', ses'[o], txn'[o]) /\ Asked(ses'[o], req'[o])
  <2>1. CASE o = s
    BY <1>1, <2>1
  <2>2. CASE o # s
    BY <1>1, <2>2, OneParts
  <2> QED
    BY <2>1, <2>2
<1> QED
  BY <1>2, OnePrime DEF Setting, OneInv

LEMMA StepOne ==
    ASSUME Setting, NEW s \in Sessions, NEW S, NEW t, NEW q, Step(s, S, t, q),
           Birth(db, S, t), Asked(S, q)
    PROVE  OneInv'
  BY BecomesOne DEF Step, KeepTables

-----------------------------------------------------------------------------
(* COMMIT                                                                  *)

Barren(d) == \A c \in Children : ~Present(d[c])

Born(c) == Present(db'[c]) /\ ~Present(db[c])

(* A child is committed only with the row of Root, read before there was   *)
(* any.                                                                    *)
LEMMA CommitBears ==
    ASSUME Setting, NEW s \in Sessions, CommitTxn(s), ~txn[s].dead, At(s, "commit"),
           NEW c \in Children, Born(c)
    PROVE  /\ Live(txn[s]) /\ c \in txn[s].wrote /\ Present(txn[s].view[c])
           /\ Root \in txn[s].wrote /\ Barren(db)
<1>1. PICK S, w : S = ses[s] /\ w = txn[s]
  OBVIOUS
<1>2. /\ Birth(db, S, w) /\ Grounded(s, S, w, req[s].used) /\ Quiet(S)
      /\ w.mode \in {"none", "rw", "ro"}
  BY <1>1, OneParts DEF Stage, At, Txn
<1>3. AllSent(S)
  BY <1>2, QuietParts, SettledSent
<1>4. c \in Ids /\ c \in w.wrote /\ Live(w) /\ Present(w.view[c])
  <2>1. c \in Ids
    BY RootFacts
  <2>2. c \in w.wrote /\ w.mode = "rw" /\ ~w.dead
    BY <1>1, <2>1, CommitGrows DEF Setting, Born
  <2>3. Live(w)
    BY <2>2 DEF Live
  <2> QED
    BY <1>2, <2>1, <2>2, <2>3 DEF Grounded, Sound, Sees, Newer
<1>5. Sight(db, S, w)
  BY <1>2 DEF Birth
<1>6. Root \in w.wrote
  BY <1>3, <1>4, <1>5 DEF Sight, AllSent, Born
<1>7. ASSUME NEW e \in Children, Present(db[e]) PROVE FALSE
  <2>1. Present(w.view[e])
    BY <1>4, <1>5, <1>6, <1>7 DEF Sight
  <2>2. c = e
    BY <1>3, <1>4, <1>5, <2>1 DEF Sight, AllSent
  <2> QED
    BY <1>7, <2>2 DEF Born
<1> QED
  BY <1>1, <1>4, <1>6, <1>7 DEF Barren

LEMMA CommitSingle ==
    ASSUME Setting, NEW s \in Sessions, CommitTxn(s), ~txn[s].dead, At(s, "commit")
    PROVE  Single(db')
<1>1. PICK S, w : S = ses[s] /\ w = txn[s]
  OBVIOUS
<1>2. Birth(db, S, w) /\ Quiet(S) /\ Single(db)
  BY <1>1, OneParts DEF Stage, At
<1>3. AllSent(S)
  BY <1>2, QuietParts, SettledSent
<1>4. ASSUME NEW c \in Children, NEW e \in Children, Present(db'[c]), Present(db'[e])
      PROVE  c = e
  <2>1. CASE Present(db[c]) /\ Present(db[e])
    BY <1>2, <2>1 DEF Single
  <2>2. CASE ~(Present(db[c]) /\ Present(db[e]))
    <3>1. Born(c) \/ Born(e)
      BY <1>4, <2>2 DEF Born
    <3>2. Barren(db)
      BY <3>1, CommitBears
    <3>3. Born(c) /\ Born(e)
      BY <1>4, <3>2 DEF Born, Barren
    <3>4. Live(w) /\ Present(w.view[c]) /\ Present(w.view[e])
      BY <1>1, <3>3, CommitBears
    <3> QED
      BY <1>2, <1>3, <3>4 DEF Birth, Sight, AllSent
  <2> QED
    BY <2>1, <2>2
<1> QED
  BY <1>4 DEF Single

(* The row of Root moves on when a child is committed.                     *)
LEMMA RootMoves ==
    ASSUME Setting, NEW s \in Sessions, CommitTxn(s), ~txn[s].dead, At(s, "commit")
    PROVE  /\ db[Root].ver \in Nat /\ db'[Root].ver \in Nat
           /\ db[Root].ver <= db'[Root].ver
           /\ \A c \in Children : Born(c) => db[Root].ver < db'[Root].ver
<1>1. /\ Root \in Ids /\ Root \in Seeded /\ db \in [Ids -> Row] /\ Times(db, stamp, clock)
  BY RootFacts, OneParts DEF StoreReady
<1>2. /\ \A id \in Ids : db'[id] = IF id \in txn[s].wrote THEN txn[s].view[id] ELSE db[id]
      /\ Grown(db, db') /\ db' \in [Ids -> Row]
  BY CommitGrows DEF Setting
<1>3. Present(db[Root]) /\ db[Root] \in Row /\ db'[Root] \in Row
  BY <1>1, <1>2 DEF Times
<1>4. db[Root].ver \in Nat
  BY <1>3, Versions
<1>5. db'[Root] = db[Root] \/ (Present(db'[Root]) /\ db[Root].ver < db'[Root].ver)
  BY <1>1, <1>2, <1>3 DEF Grown, Newer
<1>6. db'[Root].ver \in Nat /\ db[Root].ver <= db'[Root].ver
  BY <1>3, <1>4, <1>5, Versions
<1>7. ASSUME NEW c \in Children, Born(c) PROVE db[Root].ver < db'[Root].ver
  <2>1. Root \in txn[s].wrote /\ Live(txn[s])
    BY <1>7, CommitBears
  <2>2. Newer(txn[s].view[Root], db[Root])
    BY <1>1, <2>1, OneParts DEF Grounded, Sound, Sees
  <2> QED
    BY <1>1, <1>2, <1>3, <2>1, <2>2 DEF Newer
<1> QED
  BY <1>4, <1>6, <1>7

LEMMA CommitPlan ==
    ASSUME Setting, NEW s \in Sessions, CommitTxn(s), ~txn[s].dead, At(s, "commit"),
           NEW o \in Sessions
    PROVE  Plan(db', ses[o])
<1>1. PICK S : S = ses[o]
  OBVIOUS
<1>2. Plan(db, S) /\ S \in Ses /\ Knows(db, S, Root)
  BY <1>1, RootFacts, OneParts DEF Birth, Grounded, Sound
<1>3. S.known[Root].ver \in Nat \cup {-1} /\ S.known[Root].ver <= db[Root].ver
  <2>1. S.known[Root] \in Row
    BY <1>2, RootFacts DEF Ses
  <2>2. db[Root].ver \in Nat
    BY RootMoves
  <2>3. CASE Present(S.known[Root])
    BY <1>2, <2>1, <2>3, Versions DEF Knows, Older
  <2>4. CASE ~Present(S.known[Root])
    BY <2>2, <2>4 DEF Present
  <2> QED
    BY <2>3, <2>4
<1>4. ASSUME NEW c \in Children, Unsaved(S, c), NEW e \in Children, Present(db'[e])
      PROVE  S.known[Root].ver < db'[Root].ver
  <2>1. CASE Present(db[e])
    <3>1. S.known[Root].ver < db[Root].ver
      BY <1>2, <1>4, <2>1 DEF Plan
    <3> QED
      BY <1>3, <3>1, RootMoves
  <2>2. CASE ~Present(db[e])
    <3>1. db[Root].ver < db'[Root].ver
      BY <1>4, <2>2, RootMoves DEF Born
    <3> QED
      BY <1>3, <3>1, RootMoves
  <2> QED
    BY <2>1, <2>2
<1> QED
  BY <1>1, <1>2, <1>4 DEF Plan

LEMMA CommitSight ==
    ASSUME Setting, NEW s \in Sessions, CommitTxn(s), ~txn[s].dead, At(s, "commit"),
           NEW o \in Sessions, o # s
    PROVE  Sight(db', ses[o], txn[o])
<1> SUFFICES ASSUME Live(txn[o]) PROVE Sight(db', ses[o], txn[o])
  BY DEF Sight
<1>1. PICK S, t, w : S = ses[o] /\ t = txn[o] /\ w = txn[s]
  OBVIOUS
<1>2. /\ Sight(db, S, t) /\ Live(t) /\ Root \in Ids /\ Root \in Seeded
      /\ Sees(db, stamp, S, t, Root) /\ t.view[Root] \in Row
  BY <1>1, RootFacts, OneParts DEF Birth, Grounded, Sound, Txn
<1>3. /\ \A id \in Ids : db'[id] = IF id \in w.wrote THEN w.view[id] ELSE db[id]
      /\ w.wrote \subseteq w.locked /\ Grown(db, db')
  BY <1>1, CommitGrows DEF Setting
<1>4. Root \in t.wrote => Root \notin w.wrote
  <2>1. Parted(txn, s, w)
    BY <1>1, OneParts DEF Grounded
  <2> QED
    BY <1>1, <1>2, <1>3, <2>1 DEF Parted, Sees
<1>5. \A c \in Children : Present(db[c]) => Present(db'[c])
  BY <1>3, RootFacts DEF Grown, Newer
<1>6. ASSUME NEW c \in Children, Present(db'[c]), ~Present(t.view[c])
      PROVE  Root \notin t.wrote /\ t.view[Root].ver < db'[Root].ver
  <2>1. t.view[Root].ver \in Nat
    BY <1>2, Versions DEF Sees
  <2>2. CASE Present(db[c])
    <3>1. Root \notin t.wrote /\ t.view[Root].ver < db[Root].ver
      BY <1>2, <1>6, <2>2 DEF Sight
    <3> QED
      BY <2>1, <3>1, RootMoves
  <2>3. CASE ~Present(db[c])
    <3>1. Born(c)
      BY <1>6, <2>3 DEF Born
    <3>2. Root \in w.wrote
      BY <1>1, <3>1, CommitBears
    <3>3. Root \notin t.wrote
      BY <1>4, <3>2
    <3>4. t.view[Root].ver <= db[Root].ver
      BY <1>2, <3>3 DEF Sees, Older
    <3> QED
      BY <2>1, <3>1, <3>3, <3>4, RootMoves
  <2> QED
    BY <2>2, <2>3
<1>7. Root \in t.wrote => S.known[Root].ver = db'[Root].ver
  BY <1>2, <1>3, <1>4 DEF Sight
<1> QED
  BY <1>1, <1>2, <1>5, <1>6, <1>7 DEF Sight

LEMMA CommitOne ==
    ASSUME Setting, NEW s \in Sessions, CommitTxn(s), ~txn[s].dead, At(s, "commit"),
           NEW R, NEW q, Becomes(s, R, NoTxn, q), Plan(db', R), Asked(R, q)
    PROVE  OneInv'
<1>1. /\ ses' = [ses EXCEPT ![s] = R]
      /\ txn' = [txn EXCEPT ![s] = NoTxn]
      /\ req' = [req EXCEPT ![s] = q]
      /\ ses \in [Sessions -> Ses] /\ req \in [Sessions -> Req] /\ txn \in [Sessions -> Txn]
  BY DEF Becomes, Setting, TypeOK, StoreTypeOK
<1>2. ASSUME NEW o \in Sessions
      PROVE  Birth(db', ses'[o], txn'[o]) /\ Asked(ses'[o], req'[o])
  <2>1. CASE o = s
    <3>1. Birth(db', R, NoTxn)
      BY NotLive DEF Birth, Sight
    <3> QED
      BY <1>1, <2>1, <3>1
  <2>2. CASE o # s
    <3>1. ses'[o] = ses[o] /\ txn'[o] = txn[o] /\ req'[o] = req[o]
      BY <1>1, <2>2
    <3>2. Birth(db', ses[o], txn[o])
      BY <2>2, CommitPlan, CommitSight DEF Birth
    <3> QED
      BY <3>1, <3>2, OneParts
  <2> QED
    BY <2>1, <2>2
<1> QED
  BY <1>2, CommitSingle, OnePrime

(* A request that is not reading.                                          *)
LEMMA Elsewhere ==
    ASSUME NEW S, NEW R, NEW q, NEW p, Asked(S, q), p.op = q.op,
           p.pc \notin {"barrier", "load"}
    PROVE  Asked(R, p)
  BY DEF Asked

LEMMA AfterCommitOne ==
    ASSUME Setting, NEW s \in Sessions, At(s, "commit"), CommitTxn(s), ~txn[s].dead,
           AfterCommit(s)
    PROVE  OneInv'
<1>1. /\ ses[s] \in Ses /\ req[s] \in Req /\ Quiet(ses[s]) /\ Asked(ses[s], req[s])
      /\ ses[s].rem = {}
  BY OneParts DEF Stage, At, Grounded, Sound
<1>2. PICK P : P = Promote(ses[s]) /\ P \in Ses
  BY <1>1, PromoteParts
<1>3. P.cached = ses[s].cached /\ P.known = [id \in Ids |-> Current(ses[s], id)]
  BY <1>1, <1>2 DEF Promote, Ses
<1>4. PICK L : L = LeaveQueue(P)
  OBVIOUS
<1>5. PICK R : R = IF InFlight(ses[s]) THEN RegisterWriters(L) ELSE L
  OBVIOUS
<1>6. R.cached = P.cached /\ R.known = P.known
  <2>1. L \in Ses /\ L.cached = P.cached /\ L.known = P.known
    BY <1>2, <1>4, LeaveQueueType DEF LeaveQueue, Ses
  <2> QED
    BY <1>5, <2>1 DEF RegisterWriters, Ses
<1>7. ASSUME NEW c \in Children PROVE ~Unsaved(R, c)
  <2>1. c \in Ids
    BY RootFacts
  <2>2. c \in ses[s].cached => Present(Current(ses[s], c))
    BY <1>1, QuietParts DEF Unlike
  <2> QED
    BY <1>3, <1>6, <2>1, <2>2 DEF Unsaved
<1>8. Plan(db', R)
  BY <1>7 DEF Plan
<1>9. PICK G : G = Goto(req[s], AfterKind[req[s].kind])
  OBVIOUS
<1>10. G \in Req /\ G.pc \notin {"barrier", "load"} /\ G.op = req[s].op
  <2>1. AfterKind[req[s].kind] \in {"body", "effects", "exit", "leave"}
    BY <1>1 DEF Req, Kinds, AfterKind
  <2> QED
    BY <1>1, <1>9, <2>1 DEF Goto, Req, Pcs
<1>11. PICK c, w, v : Becomes(s, R, NoTxn, [G EXCEPT !.committed = c, !.won = w, !.saved = v])
  BY <1>2, <1>4, <1>5, <1>9 DEF AfterCommit
<1>12. PICK q : q = [G EXCEPT !.committed = c, !.won = w, !.saved = v]
  OBVIOUS
<1>13. q.pc = G.pc /\ q.op = G.op
  BY <1>10, <1>12 DEF Req
<1>14. Asked(R, q)
  BY <1>1, <1>10, <1>13, Elsewhere
<1> QED
  BY <1>8, <1>11, <1>12, <1>14, CommitOne

(* A commit that fails gives the transaction up and keeps the plan.        *)
LEMMA GivenUpPlan ==
    ASSUME NEW s, NEW d, NEW S \in Ses, Listed(S), Plan(d, S), NEW exc,
           req[s] \in Req, Asked(ses[s], req[s]), CommitFails(s, S, exc)
    PROVE  \E R, q : Becomes(s, R, NoTxn, q) /\ Plan(d, R) /\ Asked(R, q)
<1>1. PICK p : p = IF exc = "db" THEN Replay(S, req[s].tries >= ReplayMax)
                   ELSE Raise(Rollback(S), NoTxn, exc)
  OBVIOUS
<1>2. PICK B \in Ses : B = Rollback(S) /\ Plan(d, B)
  BY RollbackParts, RollbackPlans
<1>3. p.t = NoTxn /\ Plan(d, p.S)
  <2>1. CASE exc = "db"
    <3> DEFINE b == req[s].tries >= ReplayMax
    <3>1. b \in BOOLEAN
      OBVIOUS
    <3>2. p = Replay(S, b)
      BY <1>1, <2>1
    <3> HIDE DEF b
    <3>3. PICK L : L = [B EXCEPT !.lost = @ \/ b]
      OBVIOUS
    <3>4. p.t = NoTxn /\ p.S = L
      BY <1>2, <3>2, <3>3 DEF Replay, LostOr, Raise, Done
    <3>5. Kin(B, L)
      BY <3>3 DEF Ses, Kin
    <3>6. Birth(d, B, NoTxn)
      BY <1>2, NotLive DEF Birth, Sight
    <3> QED
      BY <3>4, <3>5, <3>6, TwinsSelf, BirthKin DEF Birth
  <2>2. CASE exc # "db"
    BY <1>1, <1>2, <2>2 DEF Raise
  <2> QED
    BY <2>1, <2>2
<1>4. PICK q : /\ Becomes(s, p.S, p.t, q)
               /\ \/ \E n : q = [req[s] EXCEPT !.pc = "flush", !.tries = n]
                  \/ q = Settle(req[s], p.exc)
  BY <1>1 DEF CommitFails
<1>5. q.pc \notin {"barrier", "load"} /\ q.op = req[s].op
  <2>1. CASE \E n : q = [req[s] EXCEPT !.pc = "flush", !.tries = n]
    BY <2>1 DEF Req
  <2>2. CASE q = Goto(req[s], "body") \/ q = Goto(req[s], "leave")
    BY <2>2 DEF Goto, Req
  <2>3. CASE q = Throw(req[s], p.exc)
    BY <2>3 DEF Throw, Req
  <2> QED
    BY <1>4, <2>1, <2>2, <2>3 DEF Settle
<1>6. Asked(p.S, q)
  BY <1>5, Elsewhere
<1> QED
  BY <1>3, <1>4, <1>6

LEMMA CommitFailsOne ==
    ASSUME Setting, NEW s \in Sessions, NEW S \in Ses, NEW t,
           Holds(s, S, t, Claim(s, req[s])), Birth(db, S, t), NEW exc,
           CommitFails(s, S, exc), KeepTables
    PROVE  OneInv'
<1>1. req[s] \in Req /\ Asked(ses[s], req[s]) /\ Listed(S) /\ Plan(db, S)
  BY OneParts, HeldParts DEF Birth
<1>2. PICK R, q : Becomes(s, R, NoTxn, q) /\ Plan(db, R) /\ Asked(R, q)
  BY <1>1, GivenUpPlan
<1>3. Birth(db, R, NoTxn)
  BY <1>2, NotLive DEF Birth, Sight
<1> QED
  BY <1>2, <1>3, BecomesOne DEF KeepTables

LEMMA FlushOne ==
    ASSUME Setting, NEW s \in Sessions, FlushAll(s)
    PROVE  OneInv'
<1>1. /\ ses[s] \in Ses /\ txn[s] \in Txn /\ req[s] \in Req /\ World
      /\ StoreReady /\ Times(db, stamp, clock)
      /\ Apart(ses[s]) /\ Agrees(ses[s], txn[s]) /\ Idle(txn[s])
      /\ Holds(s, ses[s], txn[s], Claim(s, req[s]))
      /\ Birth(db, ses[s], txn[s]) /\ Asked(ses[s], req[s])
  BY OneParts
<1>2. /\ req[s].pc = "flush" /\ KeepTables
      /\ req[s].answer # "none" => Settled(ses[s], txn[s])
  BY OneParts DEF FlushAll, At, Stage
<1>3. PICK full \in BOOLEAN : full = TRUE
  OBVIOUS
<1>4. PICK d : d = Done(ses[s], txn[s]) /\ Fits(ses[s], d)
  BY <1>1, FitsSelf
<1>5. d.S = ses[s] /\ d.t = txn[s]
  BY <1>4 DEF Done
<1>6. PICK f : f = Flush(s, d, full)
  OBVIOUS
<1>7. Claim(s, req[s]).begun \/ d.t.mode # "ro"
  <2>1. CASE req[s].answer = "none"
    BY <1>2, <2>1 DEF Claim, Begun, Running
  <2>2. CASE req[s].answer # "none"
    BY <1>2, <1>5, <2>2, NoTxnDead DEF Settled
  <2> QED
    BY <2>1, <2>2
<1>8. CASE ses[s].lost
  <2>1. CommitFails(s, ses[s], "lost")
    <3>1. PICK r : r = Raise(ses[s], txn[s], "lost")
      OBVIOUS
    <3>2. r.S = ses[s] /\ r.exc = "lost"
      BY <3>1 DEF Raise
    <3> QED
      BY <1>8, <3>1, <3>2 DEF FlushAll
  <2> QED
    BY <1>1, <1>2, <2>1, CommitFailsOne
<1>9. CASE ~ses[s].lost
  <2>1. Birth(db, f.S, f.t)
    BY <1>1, <1>4, <1>5, <1>6, <1>7, FlushBirth
  <2>2. Holds(s, f.S, f.t, Claim(s, req[s])) /\ f.S \in Ses
    <3>1. From(ses[s], f)
      BY <1>1, <1>4, <1>6, FlushFits
    <3> QED
      BY <1>1, <1>4, <1>5, <1>6, <1>7, <3>1, FlushHolds, FromParts
  <2>3. CASE Ok(f)
    <3>1. PICK q : q = Goto(req[s], "commit")
      OBVIOUS
    <3>2. Becomes(s, f.S, f.t, q)
      BY <1>3, <1>4, <1>6, <1>9, <2>3, <3>1 DEF FlushAll, Ok
    <3>3. Asked(f.S, q)
      <4>1. q.op = req[s].op /\ q.pc = "commit"
        BY <1>1, <3>1 DEF Goto, Req
      <4> QED
        BY <1>1, <4>1, Elsewhere
    <3> QED
      BY <1>2, <2>1, <3>2, <3>3, BecomesOne DEF KeepTables
  <2>4. CASE ~Ok(f)
    <3>1. CommitFails(s, f.S, f.exc)
      BY <1>3, <1>4, <1>6, <1>9, <2>4 DEF FlushAll, Ok
    <3> QED
      BY <1>2, <2>1, <2>2, <3>1, CommitFailsOne
  <2> QED
    BY <2>3, <2>4
<1> QED
  BY <1>8, <1>9

LEMMA CommitStepOne ==
    ASSUME Setting, NEW s \in Sessions,
           SqlCommit(s) \/ SqlCommitFails(s) \/ CommitUnanswered(s)
    PROVE  OneInv'
<1>1. /\ ses[s] \in Ses /\ req[s] \in Req /\ Asked(ses[s], req[s])
      /\ Holds(s, ses[s], txn[s], Claim(s, req[s])) /\ Birth(db, ses[s], txn[s])
  BY OneParts
<1>2. CASE SqlCommit(s)
  <2>1. At(s, "commit") /\ CommitTxn(s) /\ ~txn[s].dead /\ AfterCommit(s)
    BY <1>2 DEF SqlCommit, CanCommit
  <2> QED
    BY <2>1, AfterCommitOne
<1>3. CASE SqlCommitFails(s)
  <2>1. CommitFails(s, ses[s], "db") /\ KeepTables
    BY <1>3 DEF SqlCommitFails
  <2> QED
    BY <1>1, <2>1, CommitFailsOne
<1>4. CASE CommitUnanswered(s)
  <2>1. At(s, "commit") /\ CommitTxn(s) /\ ~txn[s].dead /\ CommitFails(s, ses[s], "db")
    BY <1>4 DEF CommitUnanswered, CanCommit
  <2>2. Plan(db', ses[s]) /\ Listed(ses[s])
    BY <1>1, <2>1, CommitPlan, HeldParts
  <2>3. PICK R, q : Becomes(s, R, NoTxn, q) /\ Plan(db', R) /\ Asked(R, q)
    BY <1>1, <2>1, <2>2, GivenUpPlan
  <2> QED
    BY <2>1, <2>3, CommitOne
<1> QED
  BY <1>2, <1>3, <1>4

-----------------------------------------------------------------------------
(* Reading                                                                 *)

(* A request that counts the children has each of them in its cache, or    *)
(* reads it.                                                               *)
Wants(S, o) == /\ o.name # "find"
               /\ o.name = "count" => Children \subseteq o.load \cup S.cached

LEMMA WantsAsked ==
    ASSUME NEW S, NEW q, Wants(S, q.op) PROVE Asked(S, q)
  BY DEF Wants, Asked

LEMMA WantsMore ==
    ASSUME NEW S, NEW R, NEW o, Wants(S, o), Children \cap S.cached \subseteq R.cached
    PROVE  Wants(R, o)
  BY DEF Wants

LEMMA FailsOne ==
    ASSUME Setting, NEW s \in Sessions, NEW r, r.S \in Ses, NEW q \in Req,
           q.op.name # "find", Birth(db, r.S, r.t),
           q.op.name = "open" => r.t = NoTxn, Fails(s, r, q)
    PROVE  OneInv'
<1>1. PICK F : F = FailedSession(q, r.S, r.exc)
  OBVIOUS
<1>2. PICK p : p = Failed(q, r.exc)
  OBVIOUS
<1>3. Step(s, F, r.t, p)
  BY <1>1, <1>2 DEF Fails
<1>4. p.op = q.op /\ p.pc \in {"scope", "close", "effects", "handler", "caught"}
  BY <1>2 DEF Failed, Throw, Req
<1>5. Asked(F, p)
  BY <1>4 DEF Asked
<1>6. Birth(db, F, r.t)
  <2>1. CASE q.op.name = "open"
    <3>1. F = Abort(r.S) /\ r.t = NoTxn
      BY <1>1, <2>1 DEF FailedSession
    <3> QED
      BY <3>1, AbortBirth
  <2>2. CASE F = [r.S EXCEPT !.lost = TRUE]
    <3>1. Kin(r.S, F)
      BY <2>2 DEF Kin, Ses
    <3> QED
      BY <3>1, TwinsSelf, BirthKin
  <2>3. CASE F = r.S
    BY <2>3
  <2> QED
    BY <1>1, <2>1, <2>2, <2>3 DEF FailedSession
<1> QED
  BY <1>3, <1>5, <1>6, StepOne

LEMMA RetriesOne ==
    ASSUME Setting, NEW s \in Sessions, NEW r, r.S \in Ses, NEW q \in Req,
           Wants(r.S, q.op), NEW k, Holds(s, r.S, r.t, k), Birth(db, r.S, r.t),
           q.op.name = "open" => r.t = NoTxn, NEW next, Retries(s, r, q, next)
    PROVE  OneInv'
<1>1. PICK no \in BOOLEAN : no = FALSE
  OBVIOUS
<1>2. PICK p : p = Replay(r.S, no) /\ p = Replay(r.S, FALSE)
  BY <1>1
<1>3. p.t = NoTxn /\ p.S \in Ses
  BY <1>2, ReplayHolds
<1>4. Birth(db, p.S, p.t) /\ p.S.cached = r.S.cached
  BY <1>2, ReplayBirth
<1>5. q.op.name # "find"
  BY DEF Wants
<1>6. CASE Step(s, p.S, p.t, [q EXCEPT !.pc = "barrier", !.tries = next])
  <2>1. PICK b : b = [q EXCEPT !.pc = "barrier", !.tries = next]
    OBVIOUS
  <2>2. b.op = q.op
    BY <2>1 DEF Req
  <2>3. Asked(p.S, b)
    BY <1>4, <2>2, WantsMore, WantsAsked
  <2> QED
    BY <1>4, <1>6, <2>1, <2>3, StepOne
<1>7. CASE Fails(s, p, q)
  BY <1>3, <1>4, <1>5, <1>7, FailsOne
<1>8. CASE Fails(s, r, q)
  BY <1>5, <1>8, FailsOne
<1> QED
  BY <1>2, <1>6, <1>7, <1>8 DEF Retries

(* The read barrier flushes, replays and raises, and forgets no child an   *)
(* attempt had read.                                                       *)
LEMMA BarrierOne ==
    ASSUME Setting, NEW s \in Sessions, NEW S \in Ses,
           Apart(S), Agrees(S, txn[s]), NEW q \in Req, Asks(S, txn[s], q),
           NEW k, Holds(s, S, txn[s], k), q.op.name = "count" => k.begun,
           Birth(db, S, txn[s]), Wants(S, q.op), Barrier(s, S, q)
    PROVE  OneInv'
<1>1. txn[s] \in Txn /\ Idle(txn[s]) /\ World /\ StoreReady /\ Times(db, stamp, clock)
  BY OneParts
<1>2. PICK r : r = IF q.op.load = {} THEN Done(S, txn[s])
                   ELSE ReadBarrier(s, Done(S, txn[s]))
  OBVIOUS
<1>3. /\ Birth(db, r.S, r.t) /\ r.S \in Ses /\ Wants(r.S, q.op)
      /\ \E l : Holds(s, r.S, r.t, l)
  <2>1. CASE r = Done(S, txn[s])
    BY <2>1 DEF Done
  <2>2. CASE r = ReadBarrier(s, Done(S, txn[s]))
    <3>1. Birth(db, r.S, r.t)
      BY <1>1, <2>2, ReadBarrierBirth
    <3>2. CASE k.begun
      <4>1. PICK C : C = Children \cap S.cached
        OBVIOUS
      <4>2. PICK l : /\ l.used = k.used /\ l.begun /\ l.tag = k.tag /\ l.joins = k.joins
                     /\ l.writes = k.writes /\ l.loads = k.loads /\ l.needs = C
        <5>1. PICK l : l = [used |-> k.used, begun |-> TRUE, tag |-> k.tag,
                            joins |-> k.joins, writes |-> k.writes,
                            loads |-> k.loads, needs |-> C]
          OBVIOUS
        <5> QED
          BY <5>1
      <4>3. Holds(s, S, txn[s], l)
        BY <3>2, <4>1, <4>2 DEF Holds, Claims
      <4>4. Holds(s, r.S, r.t, l) /\ r.S \in Ses
        BY <1>1, <2>2, <4>3, ReadBarrierHolds
      <4>5. C \subseteq r.S.cached
        BY <4>2, <4>4 DEF Holds, Claims
      <4> QED
        BY <3>1, <4>1, <4>4, <4>5, WantsMore
    <3>3. CASE ~k.begun
      <4>1. Wants(r.S, q.op)
        BY <3>3 DEF Wants
      <4>2. Holds(s, r.S, r.t, k) /\ r.S \in Ses
        BY <1>1, <2>2, ReadBarrierHolds
      <4> QED
        BY <3>1, <4>1, <4>2
    <3> QED
      BY <3>2, <3>3
  <2> QED
    BY <1>2, <2>1, <2>2
<1>4. CASE Ok(r)
  <2>1. PICK n : n = Goto(q, "load")
    OBVIOUS
  <2>2. n.op = q.op
    BY <2>1 DEF Req, Goto
  <2>3. Step(s, r.S, r.t, n)
    BY <1>2, <1>4, <2>1 DEF Barrier
  <2>4. Asked(r.S, n)
    BY <1>3, <2>2, WantsAsked
  <2> QED
    BY <1>3, <2>3, <2>4, StepOne
<1>5. CASE ~Ok(r)
  <2>1. q.op.name # "open"
    <3>1. r = ReadBarrier(s, Done(S, txn[s]))
      BY <1>2, <1>5 DEF Done, Ok
    <3>2. ASSUME q.op.name = "open" PROVE Ok(r)
      <4>1. Early(S) /\ (S.scope => txn[s].mode # "rw") /\ (~S.scope => txn[s].mode # "ro")
        BY <3>2 DEF Asks
      <4> QED
        BY <1>1, <3>1, <4>1, EarlyBarrier
    <3> QED
      BY <1>5, <3>2
  <2>2. Retries(s, r, q, q.tries + 1)
    BY <1>2, <1>5 DEF Barrier
  <2> QED
    BY <1>3, <2>1, <2>2, RetriesOne
<1> QED
  BY <1>4, <1>5

LEMMA ReadOne ==
    ASSUME Setting, NEW s \in Sessions, NEW S \in Ses,
           Apart(S), Agrees(S, txn[s]), Holds(s, S, txn[s], Claim(s, req[s])),
           Birth(db, S, txn[s]),
           NEW name \in OpNames \ {"find"}, NEW id \in Ids, NEW L \in SUBSET Ids,
           Children \subseteq L \/ name # "count",
           Read(s, S, name, id, L), req[s].answer = "none",
           name = "count" => Begun(req[s]),
           name \in {"scope", "open"} => Early(S),
           name = "scope" => S.scope /\ S.cached = {} /\ txn[s].mode # "rw",
           name = "open" => ~S.scope /\ txn[s].mode # "ro"
    PROVE  OneInv'
<1>1. PICK o : o = [name |-> name, id |-> id, load |-> Missing(S, L)]
  OBVIOUS
<1>2. o \in Op /\ o.name = name /\ o.load = Missing(S, L)
  BY <1>1 DEF Op, Missing
<1>3. PICK q : q = [req[s] EXCEPT !.tries = 0, !.op = o]
  OBVIOUS
<1>4. q \in Req /\ q.op = o /\ q.answer = "none"
  <2>1. req[s] \in Req
    BY OneParts
  <2> QED
    BY <1>2, <1>3, <2>1 DEF Req
<1>5. Asks(S, txn[s], q)
  BY <1>2, <1>4 DEF Asks
<1>6. Wants(S, q.op)
  <2>1. S.deleted = {}
    BY HeldParts
  <2>2. L \subseteq Missing(S, L) \cup S.cached
    BY <2>1 DEF Missing, Hit
  <2> QED
    BY <1>2, <1>4, <2>2 DEF Wants
<1>7. PICK k : k = Claim(s, req[s])
  OBVIOUS
<1>8. k.begun <=> Begun(req[s])
  BY <1>7 DEF Claim
<1> QED
  BY <1>1, <1>2, <1>3, <1>4, <1>5, <1>6, <1>7, <1>8, BarrierOne DEF Read

LEMMA LoadedOne ==
    ASSUME Setting, NEW s \in Sessions, At(s, "load")
    PROVE  LET r == Loaded(s)
           IN  /\ r.S \in Ses /\ r.t \in Txn /\ req[s].answer = "none"
               /\ Birth(db, r.S, r.t)
               /\ ~Ok(r) => r.t = NoTxn /\ r.S = ses[s]
               /\ Ok(r) => Opens(r.S, r.t, req[s])
<1>1. /\ ses[s] \in Ses /\ txn[s] \in Txn /\ req[s].op.load \in SUBSET Ids
      /\ Agrees(ses[s], txn[s]) /\ World /\ Grounded(s, ses[s], txn[s], req[s].used)
      /\ Birth(db, ses[s], txn[s]) /\ Told(db, outbox, s, txn[s], req[s])
      /\ req[s].pc = "load"
  BY OneParts DEF Req, Op, At
<1>2. PICK r : r = Loaded(s)
  OBVIOUS
<1>3. /\ r.S \in Ses /\ r.t \in Txn /\ req[s].answer = "none"
      /\ ~Ok(r) => r = Raise(ses[s], NoTxn, "db")
      /\ Ok(r) => Opens(r.S, r.t, req[s])
  BY <1>2, LoadedLedger DEF Setting
<1>4. Birth(db, r.S, r.t)
  <2>1. CASE req[s].op.load = {}
    BY <1>1, <1>2, <2>1 DEF Loaded, Done
  <2>2. CASE req[s].op.load # {}
    <3>1. r = LoadFull(Done(ses[s], txn[s]), req[s].op.load)
      BY <1>2, <2>2 DEF Loaded
    <3>2. txn[s].mode # "none"
      BY <1>1, <2>2 DEF Told
    <3> QED
      BY <1>1, <3>1, <3>2, LoadFullBirth
  <2> QED
    BY <2>1, <2>2
<1> QED
  BY <1>2, <1>3, <1>4 DEF Raise

-----------------------------------------------------------------------------
(* The actions                                                             *)

LEMMA GotoOp ==
    ASSUME NEW q \in Req, NEW pc PROVE Goto(q, pc).op = q.op /\ Goto(q, pc).pc = pc
  BY DEF Goto, Req

LEMMA GoesOne ==
    ASSUME Setting, NEW s \in Sessions, NEW S, NEW t,
           NEW pc, pc \notin {"barrier", "load"},
           Step(s, S, t, Goto(req[s], pc)), Birth(db, S, t)
    PROVE  OneInv'
<1>1. PICK q : q = Goto(req[s], pc)
  OBVIOUS
<1>2. q.op = req[s].op /\ q.pc = pc
  BY <1>1, GotoOp, OneParts
<1>3. Asked(S, q)
  BY <1>2, OneParts, Elsewhere
<1> QED
  BY <1>1, <1>3, StepOne

LEMMA ArrivalOne ==
    ASSUME Setting, NEW s \in Sessions, Arrive(s) \/ Open(s)
    PROVE  OneInv'
<1>1. /\ ses[s] \in Ses /\ req[s] \in Req /\ Root \in Ids /\ {Root} \in SUBSET Ids
      /\ Apart(ses[s]) /\ Agrees(ses[s], txn[s]) /\ Stage(ses[s], txn[s], req[s])
      /\ Holds(s, ses[s], txn[s], Claim(s, req[s])) /\ Birth(db, ses[s], txn[s])
  BY OneParts
<1>2. /\ req[s].pc \in {"arrive", "open"} /\ req[s].answer = "none"
      /\ Early(ses[s]) /\ txn[s] = NoTxn /\ ~ses[s].scope /\ txn[s].mode = "none"
      /\ req[s].pc = "arrive" => ses[s].cached = {}
  BY <1>1, NoTxnParts DEF Arrive, Open, At, Stage
<1>3. "scope" \in OpNames \ {"find"} /\ "open" \in OpNames \ {"find"}
  BY DEF OpNames
<1>4. CASE Step(s, ses[s], txn[s], Goto(req[s], "open"))
  <2>1. "open" \notin {"barrier", "load"}
    OBVIOUS
  <2> QED
    BY <1>1, <1>4, <2>1, GoesOne
<1>5. CASE /\ At(s, "arrive")
           /\ Read(s, [ses[s] EXCEPT !.scope = TRUE], "scope", Root, {Root})
  <2>1. PICK S : S = [ses[s] EXCEPT !.scope = TRUE]
    OBVIOUS
  <2>2. /\ S \in Ses /\ S.scope /\ S.cached = ses[s].cached /\ S.dirty = ses[s].dirty
        /\ S.deleted = ses[s].deleted /\ S.lost = ses[s].lost /\ S.raised = ses[s].raised
        /\ S.unit = ses[s].unit /\ S.ups = ses[s].ups /\ S.rem = ses[s].rem
        /\ S.joined = ses[s].joined /\ S.mem = ses[s].mem /\ S.known = ses[s].known
    BY <1>1, <2>1 DEF Ses
  <2>3. Apart(S) /\ Agrees(S, txn[s])
    BY <1>2, <1>5, <2>2, NoTxnParts DEF Apart, Agrees, At
  <2>4. Early(S)
    <3>1. InFlight(S) = InFlight(ses[s])
      BY <2>2 DEF InFlight, Upserted
    <3> QED
      BY <1>2, <2>2, <3>1 DEF Early
  <2>5. Holds(s, S, txn[s], Claim(s, req[s]))
    <3>1. Alike(ses[s], S) /\ Echoes(txn[s], txn[s])
      BY <2>2 DEF Alike, Echoes
    <3> QED
      BY <1>1, <2>2, <3>1, HoldsAlike
  <2>6. Birth(db, S, txn[s])
    BY <1>1, <2>2, TwinsSelf, BirthKin DEF Kin
  <2>7. Read(s, S, "scope", Root, {Root}) /\ S.cached = {} /\ txn[s].mode # "rw"
    BY <1>2, <1>5, <2>1, <2>2 DEF At
  <2> QED
    BY <1>1, <1>2, <1>3, <2>2, <2>3, <2>4, <2>5, <2>6, <2>7, ReadOne
<1>6. CASE Open(s)
  <2>1. Read(s, ses[s], "open", Root, {Root}) /\ txn[s].mode # "ro"
    BY <1>2, <1>6 DEF Open
  <2> QED
    BY <1>1, <1>2, <1>3, <2>1, ReadOne
<1> QED
  BY <1>4, <1>5, <1>6 DEF Arrive

LEMMA ScopeOne ==
    ASSUME Setting, NEW s \in Sessions, ScopeLoaded(s) \/ ExitScope(s)
    PROVE  OneInv'
<1>1. /\ ses[s] \in Ses /\ Birth(db, ses[s], txn[s])
      /\ Holds(s, ses[s], txn[s], Claim(s, req[s])) /\ Stage(ses[s], txn[s], req[s])
  BY OneParts
<1>2. CASE ScopeLoaded(s)
  <2>1. At(s, "load") /\ Step(s, Loaded(s).S, Loaded(s).t, Goto(req[s], "scope"))
    BY <1>2 DEF ScopeLoaded, Loading
  <2> QED
    BY <2>1, LoadedOne, GoesOne
<1>3. CASE ExitScope(s)
  <2>1. Early(ses[s])
    BY <1>1, <1>3 DEF ExitScope, At, Stage
  <2>2. PICK S : S = [ses[s] EXCEPT !.scope = FALSE]
    OBVIOUS
  <2>3. /\ S \in Ses /\ S.cached = ses[s].cached /\ S.dirty = ses[s].dirty
        /\ S.known = ses[s].known /\ S.ups = ses[s].ups /\ S.rem = ses[s].rem
    BY <1>1, <2>2 DEF Ses
  <2>4. Birth(db, S, txn[s])
    BY <1>1, <2>3, TwinsSelf, BirthKin DEF Kin
  <2>5. Plan(db, S) /\ Upserted(S) = {} /\ S.rem = {} /\ Listed(S)
    <3>1. ses[s].rem = {}
      BY <1>1, HeldParts
    <3>2. Upserted(S) = {}
      BY <2>1, <2>3 DEF Early, InFlight, Upserted
    <3>3. \A id \in Ids : ~Present(S.ups[id])
      BY <3>2 DEF Upserted
    <3> QED
      BY <2>3, <2>4, <3>1, <3>2, <3>3 DEF Birth, Listed
  <2>6. PICK pc : pc = (IF req[s].answer = "none" THEN "open" ELSE "answered")
    OBVIOUS
  <2>7. PICK C : C = IF txn[s].dead THEN Rollback(S) ELSE Promote(S)
    OBVIOUS
  <2>8. C \in Ses /\ Plan(db, C) /\ Upserted(C) = {}
    <3>1. CASE C = Rollback(S)
      <4>1. C.ups = NoRows
        BY <2>3, <3>1 DEF Rollback, Ses
      <4>2. Upserted(C) = {}
        BY <4>1 DEF Upserted, NoRows, Present, Absent
      <4> QED
        BY <2>3, <2>5, <3>1, <4>2, RollbackParts, RollbackPlans
    <3>2. CASE C = Promote(S)
      <4>1. C.ups = NoRows
        BY <2>3, <3>2 DEF Promote, Ses
      <4>2. Upserted(C) = {}
        BY <4>1 DEF Upserted, NoRows, Present, Absent
      <4> QED
        BY <2>3, <2>5, <3>2, <4>2, PromoteParts, PromotePlans
    <3> QED
      BY <2>7, <3>1, <3>2
  <2>9. Birth(db, DropSnapshotReads(C), NoTxn)
    BY <2>8, DropPlans, NotLive DEF Birth, Sight
  <2>10. \/ Step(s, DropSnapshotReads(C), NoTxn, Goto(req[s], pc))
         \/ Step(s, S, txn[s], Goto(req[s], pc))
    BY <1>3, <2>2, <2>6, <2>7 DEF ExitScope
  <2>11. pc \notin {"barrier", "load"}
    BY <2>6
  <2> QED
    BY <2>4, <2>9, <2>10, <2>11, GoesOne
<1> QED
  BY <1>2, <1>3

LEMMA OpenUnitOne ==
    ASSUME Setting, NEW s \in Sessions, OpenUnit(s)
    PROVE  OneInv'
<1>1. PICK r : r = Loaded(s) /\ r \in Outcome
  <2>1. From(ses[s], Loaded(s))
    BY LoadedFrom DEF Setting
  <2> QED
    BY <2>1 DEF From
<1>2. /\ req[s].op.name = "open" /\ Ok(r) /\ At(s, "load")
  BY <1>1 DEF OpenUnit, Loading
<1>3. /\ r.S \in Ses /\ r.t \in Txn /\ Birth(db, r.S, r.t)
      /\ ~r.S.raised /\ r.t.mode # "ro"
  BY <1>1, <1>2, LoadedOne DEF Opens, Early
<1>4. PICK U : U = Unit(r.S) /\ U \in Ses
  BY <1>3, UnitType
<1>5. Birth(db, U, r.t) /\ ~U.raised
  <2>1. Kin(r.S, U) /\ ~U.raised
    BY <1>3, <1>4 DEF Kin, Unit, Ses
  <2> QED
    BY <1>3, <2>1, TwinsSelf, BirthKin
<1>6. PICK u : u = UnitEnter(r)
  OBVIOUS
<1>7. u.S = U /\ u.t = r.t /\ Ok(u)
  <2>1. CASE r.t.mode = "none"
    <3>1. u = [r EXCEPT !.S = Unit(@)]
      BY <1>2, <1>6, <2>1 DEF UnitEnter
    <3>2. u.S = U /\ u.t = r.t /\ u.exc = r.exc
      BY <1>1, <1>4, <3>1 DEF Outcome
    <3> QED
      BY <1>2, <3>2 DEF Ok
  <2>2. CASE r.t.mode = "rw"
    <3>0. PICK e : e = Done(U, r.t)
      OBVIOUS
    <3>1. e.S = U /\ e.t = r.t /\ e.exc = "none"
      BY <3>0 DEF Done
    <3>2. u = EnsureTxn(e)
      BY <1>2, <1>4, <1>6, <2>2, <3>0 DEF UnitEnter
    <3>3. Reclaim(e) = e
      BY <2>2, <3>1 DEF Reclaim
    <3>4. BeginWritable(e) = e
      BY <1>5, <2>2, <3>1, <3>3 DEF BeginWritable, Promoted
    <3>5. u = e
      BY <2>2, <3>1, <3>2, <3>3, <3>4 DEF EnsureTxn, Opened
    <3> QED
      BY <3>1, <3>5 DEF Ok
  <2> QED
    BY <1>3, <2>1, <2>2 DEF Txn
<1>8. Step(s, U, r.t, Goto(req[s], "body"))
  BY <1>1, <1>6, <1>7 DEF OpenUnit
<1> QED
  BY <1>5, <1>8, GoesOne

LEMMA RereadOne ==
    ASSUME Setting, NEW s \in Sessions, BarrierAgain(s) \/ LoadFails(s)
    PROVE  OneInv'
<1>1. /\ ses[s] \in Ses /\ req[s] \in Req /\ Stage(ses[s], txn[s], req[s])
      /\ Apart(ses[s]) /\ Agrees(ses[s], txn[s])
      /\ Holds(s, ses[s], txn[s], Claim(s, req[s]))
      /\ Birth(db, ses[s], txn[s]) /\ Asked(ses[s], req[s])
  BY OneParts
<1>2. /\ Asks(ses[s], txn[s], req[s]) /\ req[s].answer = "none"
      /\ req[s].pc \in {"barrier", "load"}
  BY <1>1 DEF Stage, Asks, BarrierAgain, LoadFails, At
<1>3. Wants(ses[s], req[s].op)
  BY <1>1, <1>2 DEF Wants, Asked
<1>4. PICK k : k = Claim(s, req[s]) /\ (req[s].op.name = "count" => k.begun)
  <2>1. Claim(s, req[s]).begun <=> Begun(req[s])
    BY DEF Claim
  <2>2. req[s].op.name = "count" => Begun(req[s])
    BY <1>2 DEF Begun, Running
  <2> QED
    BY <2>1, <2>2
<1>5. CASE BarrierAgain(s)
  BY <1>1, <1>2, <1>3, <1>4, <1>5, BarrierOne DEF BarrierAgain
<1>6. CASE LoadFails(s)
  <2>1. PICK r : /\ r = Loaded(s) /\ r.S = ses[s] /\ r.t = NoTxn
                 /\ Birth(db, r.S, r.t)
    BY <1>6, LoadedOne DEF LoadFails
  <2>2. Holds(s, r.S, r.t, k)
    BY <1>1, <1>4, <2>1, HoldsNone
  <2>3. PICK next : Retries(s, r, req[s], next)
    BY <1>6, <2>1 DEF LoadFails
  <2> QED
    BY <1>1, <1>3, <2>1, <2>2, <2>3, RetriesOne
<1> QED
  BY <1>5, <1>6

LEMMA ReloadOne ==
    ASSUME Setting, NEW s \in Sessions, Reload(s) \/ Reloaded(s)
    PROVE  OneInv'
<1>1. /\ ses[s] \in Ses /\ req[s] \in Req /\ Root \in Ids /\ {Root} \in SUBSET Ids
      /\ Apart(ses[s]) /\ Agrees(ses[s], txn[s]) /\ Stage(ses[s], txn[s], req[s])
      /\ Holds(s, ses[s], txn[s], Claim(s, req[s])) /\ Birth(db, ses[s], txn[s])
  BY OneParts
<1>2. CASE Reload(s)
  <2>1. req[s].answer = "none" /\ "reload" \in OpNames \ {"find"}
    BY <1>1, <1>2 DEF Reload, At, Stage, OpNames
  <2>2. Read(s, ses[s], "reload", Root, {Root})
    BY <1>2 DEF Reload
  <2> QED
    BY <1>1, <2>1, <2>2, ReadOne
<1>3. CASE Reloaded(s)
  <2>1. At(s, "load") /\ Step(s, Loaded(s).S, Loaded(s).t, Goto(req[s], "body"))
    BY <1>3 DEF Reloaded, Loading
  <2> QED
    BY <2>1, LoadedOne, GoesOne
<1> QED
  BY <1>2, <1>3

LEMMA CountedOp ==
    ASSUME Setting, NEW s \in Sessions
    PROVE  Counted(s) \in Req /\ Counted(s).op = req[s].op /\ Counted(s).pc = req[s].pc
           /\ Counted(s).used = req[s].used
<1>1. req[s] \in Req /\ TypeOK
  BY OneParts DEF Setting
<1> QED
  BY <1>1, CountedType DEF Counted, Req

LEMMA WalkerReadsOne ==
    ASSUME Setting, OpsCounted, NEW s \in Sessions,
           Get(s) \/ FindChild(s) \/ ReadOp(s) \/ FoundOp(s)
    PROVE  OneInv'
<1>1. /\ ses[s] \in Ses /\ req[s] \in Req /\ Root \in Ids
      /\ Apart(ses[s]) /\ Agrees(ses[s], txn[s])
      /\ Holds(s, ses[s], txn[s], Claim(s, req[s])) /\ Birth(db, ses[s], txn[s])
      /\ Asked(ses[s], req[s])
  BY OneParts
<1>2. CASE Get(s) \/ FindChild(s)
  <2>1. PICK name \in OpNames \ {"find", "scope", "open"}, id \in Ids, L \in SUBSET Ids :
          /\ Read(s, ses[s], name, id, L) /\ At(s, "body")
          /\ Children \subseteq L \/ name # "count"
    <3>1. CASE Get(s)
      <4>1. PICK name \in {"read", "write", "mutate", "delete"}, id \in Targets :
              CanOp(s, name) /\ Read(s, ses[s], name, id, {id})
        BY <3>1 DEF Get
      <4>2. name \in OpNames \ {"find", "scope", "open"} /\ At(s, "body") /\ name # "count"
        BY <4>1 DEF CanOp, OpNames
      <4>3. id \in Ids /\ {id} \in SUBSET Ids
        BY RequestAssumption
      <4> QED
        BY <4>1, <4>2, <4>3
    <3>2. CASE FindChild(s)
      <4>1. PICK name \in {"find", "count"} :
              /\ CanOp(s, name)
              /\ Read(s, ses[s], name, Root,
                      IF name = "count" THEN Children \cup {Root} ELSE Children)
        BY <3>2 DEF FindChild
      <4>2. PICK L : L = Children \cup {Root}
        OBVIOUS
      <4>3. name = "count" /\ name \in OpNames \ {"find", "scope", "open"} /\ At(s, "body")
        BY <4>1 DEF CanOp, OpNames, OpsCounted
      <4>4. L \in SUBSET Ids /\ Children \subseteq L
        BY <1>1, <4>2, MintType
      <4>5. Read(s, ses[s], name, Root, L)
        BY <4>1, <4>2, <4>3
      <4> QED
        BY <1>1, <4>3, <4>4, <4>5
    <3> QED
      BY <1>2, <3>1, <3>2
  <2>2. Running(req[s]) /\ Begun(req[s]) /\ req[s].answer = "none"
    BY <2>1, BodyHolds DEF At, Setting
  <2> QED
    BY <1>1, <2>1, <2>2, ReadOne
<1>3. CASE ReadOp(s) \/ FoundOp(s)
  <2>1. PICK p : p = Goto(Counted(s), "body")
    OBVIOUS
  <2>2. At(s, "load") /\ Step(s, Loaded(s).S, Loaded(s).t, p)
    BY <1>3, <2>1 DEF ReadOp, FoundOp, Loading
  <2>3. p.op = req[s].op /\ p.pc = "body"
    BY <2>1, CountedOp, GotoOp
  <2>4. Asked(Loaded(s).S, p)
    BY <1>1, <2>3, Elsewhere
  <2> QED
    BY <2>2, <2>4, LoadedOne, StepOne
<1> QED
  BY <1>2, <1>3

LEMMA ChangeOne ==
    ASSUME Setting, NEW s \in Sessions, WriteOp(s) \/ MutateOp(s)
    PROVE  OneInv'
<1>1. Asked(ses[s], req[s])
  BY OneParts
<1>2. PICK r : r = Loaded(s)
  OBVIOUS
<1>3. PICK p, id, S :
        /\ p = [Counted(s) EXCEPT !.pc = "body", !.wset = @ \cup {req[s].op.id}]
        /\ S = Write(r.S, id, Tag(s)) \/ S = Mutate(r.S, id, Tag(s))
        /\ Step(s, S, r.t, p)
  BY <1>2 DEF WriteOp, MutateOp
<1>4. At(s, "load")
  BY DEF WriteOp, MutateOp, Finds, Loading
<1>5. r.S \in Ses /\ Birth(db, r.S, r.t)
  BY <1>2, <1>4, LoadedOne
<1>6. Birth(db, S, r.t)
  BY <1>3, <1>5, WriteBirth
<1>7. p.op = req[s].op /\ p.pc = "body"
  BY <1>3, CountedOp DEF Req
<1>8. Asked(S, p)
  BY <1>1, <1>7, Elsewhere
<1> QED
  BY <1>3, <1>6, <1>8, StepOne

(* A walker that has found no child, and makes one.                        *)
LEMMA CreateOne ==
    ASSUME Setting, OpsCounted, NEW s \in Sessions,
           FindOrCreateOp(s) \/ FindOrCountOp(s) \/ CreateOp(s)
    PROVE  OneInv'
<1>1. /\ ses[s] \in Ses /\ txn[s] \in Txn /\ req[s] \in Req /\ Tag(s) \in Tags /\ World
      /\ Agrees(ses[s], txn[s]) /\ Grounded(s, ses[s], txn[s], req[s].used)
      /\ Told(db, outbox, s, txn[s], req[s])
      /\ Birth(db, ses[s], txn[s]) /\ Asked(ses[s], req[s])
  BY OneParts
<1>2. ~CreateOp(s)
  BY DEF CreateOp, CanOp, OpsCounted
<1>3. ~FindOrCreateOp(s)
  BY <1>1 DEF FindOrCreateOp, Loading, Asked
<1>4. PICK r, L : r = Loaded(s) /\ L = req[s].op.load
  OBVIOUS
<1>5. PICK id \in Mint[s] \ req[s].used :
        /\ Loading(s, {"count"}) /\ Ok(r) /\ FindsNone(r.S, L)
        /\ Step(s, Write(Put(r.S, id, Tag(s)), Root, Tag(s)), r.t,
                [Counted(s) EXCEPT !.pc = "body", !.wset = @ \cup {id, Root},
                                   !.used = @ \cup {id}])
  BY <1>2, <1>3, <1>4 DEF FindOrCountOp
<1>6. At(s, "load") /\ req[s].pc = "load" /\ req[s].op.name = "count" /\ L \in SUBSET Ids
  <2>1. req[s].op \in Op
    BY <1>1 DEF Req
  <2> QED
    BY <1>4, <1>5, <2>1 DEF Loading, At, Op
<1>7. Children \subseteq L \cup ses[s].cached
  BY <1>1, <1>4, <1>6 DEF Asked
<1>8. /\ r.S \in Ses /\ r.t \in Txn /\ Root \in r.S.cached /\ Birth(db, r.S, r.t)
      /\ Grounded(s, r.S, r.t, req[s].used) /\ r.S.deleted = {}
  <2>1. /\ r.S \in Ses /\ r.t \in Txn /\ Birth(db, r.S, r.t)
    BY <1>4, <1>6, LoadedOne
  <2>2. req[s].op.name \notin {"scope", "open"} /\ Ok(Loaded(s))
    BY <1>4, <1>5, <1>6
  <2>3. PICK k : Body(s, k) /\ Holds(s, r.S, r.t, k)
    BY <1>4, <1>6, <2>2, LoadedBody DEF Setting
  <2>4. Root \in r.S.cached
    BY <1>4, <1>6, <2>2, LoadedBody DEF Setting
  <2> QED
    BY <2>1, <2>3, <2>4, HeldParts DEF Body
<1>9. Live(r.t) /\ Childless(r.S, r.t)
  <2>1. CASE L = {}
    <3>1. r.S = ses[s]
      BY <1>4, <2>1 DEF Loaded, Done
    <3>2. id \in Children /\ id \in r.S.cached
      BY <1>7, <2>1, <3>1 DEF Children
    <3>3. Found(r.S, L, id)
      BY <1>8, <2>1, <3>2 DEF Found
    <3> QED
      BY <1>5, <3>2, <3>3 DEF FindsNone
  <2>2. CASE L # {}
    <3>1. r = LoadFull(Done(ses[s], txn[s]), L)
      BY <1>4, <2>2 DEF Loaded
    <3>2. txn[s].mode # "none"
      BY <1>1, <1>4, <1>6, <2>2 DEF Told
    <3> QED
      BY <1>1, <1>5, <1>6, <1>7, <3>1, <3>2, NoneFound
  <2> QED
    BY <2>1, <2>2
<1>10. PICK S : S = Write(Put(r.S, id, Tag(s)), Root, Tag(s))
  OBVIOUS
<1>11. Birth(db, S, r.t)
  BY <1>1, <1>8, <1>9, <1>10, CountBirth
<1>12. PICK p : p = [Counted(s) EXCEPT !.pc = "body", !.wset = @ \cup {id, Root},
                                       !.used = @ \cup {id}]
  OBVIOUS
<1>13. p.op = req[s].op /\ p.pc = "body"
  BY <1>12, CountedOp DEF Req
<1>14. Asked(S, p)
  BY <1>1, <1>13, Elsewhere
<1> QED
  BY <1>5, <1>10, <1>11, <1>12, <1>14, StepOne

LEMMA EnqueueOne ==
    ASSUME Setting, NEW s \in Sessions, EnqueueOp(s)
    PROVE  OneInv'
<1>1. /\ ses[s] \in Ses /\ txn[s] \in Txn /\ World
      /\ Apart(ses[s]) /\ Agrees(ses[s], txn[s]) /\ Idle(txn[s])
      /\ Holds(s, ses[s], txn[s], Claim(s, req[s]))
      /\ Birth(db, ses[s], txn[s]) /\ Asked(ses[s], req[s])
  BY OneParts
<1>2. PICK d : d = Done(ses[s], txn[s]) /\ Fits(ses[s], d)
  BY <1>1, FitsSelf
<1>3. d.S = ses[s] /\ d.t = txn[s]
  BY <1>2 DEF Done
<1>4. PICK r : r = Join(d, Tag(s))
  OBVIOUS
<1>5. Birth(db, r.S, r.t)
  BY <1>1, <1>2, <1>3, <1>4, JoinBirth
<1>6. PICK p : /\ Step(s, r.S, r.t, p)
               /\ \/ p = [Counted(s) EXCEPT !.enqueued = TRUE]
                  \/ p = [Counted(s) EXCEPT !.pc = "caught", !.exc = r.exc]
  BY <1>2, <1>4 DEF EnqueueOp
<1>7. req[s].pc = "body"
  BY DEF EnqueueOp, CanOp, At
<1>8. p.op = req[s].op /\ p.pc \in {"body", "caught"}
  <2>1. /\ Counted(s) \in Req /\ Counted(s).op = req[s].op /\ Counted(s).pc = "body"
    BY <1>7, CountedOp
  <2>2. CASE p = [Counted(s) EXCEPT !.enqueued = TRUE]
    BY <2>1, <2>2 DEF Req
  <2>3. CASE p = [Counted(s) EXCEPT !.pc = "caught", !.exc = r.exc]
    BY <2>1, <2>3 DEF Req
  <2> QED
    BY <1>6, <2>2, <2>3
<1>9. Asked(r.S, p)
  BY <1>1, <1>8, Elsewhere
<1> QED
  BY <1>5, <1>6, <1>9, StepOne

(* A request that goes on to something else than a read.                   *)
Past(q, p) == p.op = q.op /\ p.pc \notin {"barrier", "load"}

LEMMA PastOne ==
    ASSUME Setting, NEW s \in Sessions, NEW S, NEW t, NEW p,
           Becomes(s, S, t, p), KeepTables, Past(req[s], p), Birth(db, S, t)
    PROVE  OneInv'
<1>1. Asked(S, p)
  BY OneParts, Elsewhere DEF Past
<1> QED
  BY <1>1, BecomesOne DEF KeepTables

LEMMA GotoPast ==
    ASSUME NEW q \in Req, NEW pc, pc \notin {"barrier", "load"}
    PROVE  Past(q, Goto(q, pc))
  BY GotoOp DEF Past

LEMMA WalkerOne ==
    ASSUME Setting, OpsCounted, NEW s \in Sessions, Walker(s)
    PROVE  OneInv'
<1>1. /\ req[s] \in Req /\ Birth(db, ses[s], txn[s])
      /\ Told(db, outbox, s, txn[s], req[s])
  BY OneParts
<1>2. PICK G \in Req : G = Counted(s) /\ G.op = req[s].op /\ G.pc = req[s].pc
  BY CountedOp
<1>3. CASE OnCommitOp(s) \/ FailOp(s) \/ WalkEnds(s)
  <2>1. req[s].pc = "body"
    BY <1>3 DEF OnCommitOp, FailOp, WalkEnds, CanOp, At
  <2>2. PICK p : /\ Step(s, ses[s], txn[s], p)
                 /\ \/ p = [G EXCEPT !.effect = TRUE]
                    \/ p = [G EXCEPT !.pc = "handler", !.exc = "app"]
                    \/ p = [G EXCEPT !.pc = "flush", !.kind = "walk", !.tries = 0]
    BY <1>2, <1>3 DEF OnCommitOp, FailOp, WalkEnds, Throw
  <2>3. p.op = G.op /\ p.pc \in {G.pc, "handler", "flush"}
    <3>1. CASE p = [G EXCEPT !.effect = TRUE]
      BY <3>1 DEF Req
    <3>2. CASE p = [G EXCEPT !.pc = "handler", !.exc = "app"]
      BY <3>2 DEF Req
    <3>3. CASE p = [G EXCEPT !.pc = "flush", !.kind = "walk", !.tries = 0]
      BY <3>3 DEF Req
    <3> QED
      BY <2>2, <3>1, <3>2, <3>3
  <2>4. Past(req[s], p)
    BY <1>2, <2>1, <2>3 DEF Past
  <2> QED
    BY <1>1, <2>2, <2>4, PastOne DEF Step
<1>4. CASE Propagate(s) \/ Swallow(s) \/ Return(s)
  <2>1. PICK p : /\ Step(s, ses[s], txn[s], p)
                 /\ \/ p = [req[s] EXCEPT !.pc = "handler"]
                    \/ p = [req[s] EXCEPT !.pc = "body", !.exc = "none"]
                    \/ p = [req[s] EXCEPT !.pc = "flush", !.kind = "final", !.tries = 0]
    BY <1>4 DEF Propagate, Swallow, Return, Goto
  <2>2. Past(req[s], p)
    <3>1. CASE p = [req[s] EXCEPT !.pc = "handler"]
      BY <1>1, <3>1 DEF Req, Past
    <3>2. CASE p = [req[s] EXCEPT !.pc = "body", !.exc = "none"]
      BY <1>1, <3>2 DEF Req, Past
    <3>3. CASE p = [req[s] EXCEPT !.pc = "flush", !.kind = "final", !.tries = 0]
      BY <1>1, <3>3 DEF Req, Past
    <3> QED
      BY <2>1, <3>1, <3>2, <3>3
  <2> QED
    BY <1>1, <2>1, <2>2, PastOne DEF Step
<1>5. ~DeleteOp(s)
  BY <1>1 DEF DeleteOp, Finds, Loading, Told
<1> QED
  BY <1>3, <1>4, <1>5, WalkerReadsOne, ChangeOne, CreateOne, EnqueueOne DEF Walker

LEMMA EffectsOne ==
    ASSUME Setting, NEW s \in Sessions,
           \/ NoEffect(s) \/ PlainEffect(s) \/ WritingEffect(s) \/ EffectWrites(s)
    PROVE  OneInv'
<1>1. /\ ses[s] \in Ses /\ req[s] \in Req /\ Root \in Ids /\ {Root} \in SUBSET Ids
      /\ Apart(ses[s]) /\ Agrees(ses[s], txn[s]) /\ Stage(ses[s], txn[s], req[s])
      /\ Holds(s, ses[s], txn[s], Claim(s, req[s])) /\ Birth(db, ses[s], txn[s])
  BY OneParts
<1>2. PICK F \in Req : F = Fired(s) /\ F.op = req[s].op /\ F.pc = req[s].pc
  <2>1. Fired(s) \in Req
    BY <1>1, FiredType DEF Setting
  <2> QED
    BY <1>1, <2>1 DEF Fired, Req
<1>3. CASE NoEffect(s)
  <2>1. PICK p : /\ Step(s, ses[s], txn[s], p)
                 /\ p = [req[s] EXCEPT !.pc = "flush", !.kind = "outer", !.tries = 0]
    BY <1>3 DEF NoEffect
  <2>2. Past(req[s], p)
    BY <1>1, <2>1 DEF Req, Past
  <2> QED
    BY <1>1, <2>1, <2>2, PastOne DEF Step
<1>4. CASE PlainEffect(s)
  <2>1. Step(s, ses[s], txn[s], F) /\ req[s].pc = "effects"
    BY <1>2, <1>4 DEF PlainEffect, At
  <2>2. Past(req[s], F)
    BY <1>2, <2>1 DEF Past
  <2> QED
    BY <1>1, <2>1, <2>2, PastOne DEF Step
<1>5. CASE WritingEffect(s)
  <2>1. /\ Read(s, ses[s], "effect", Root, {Root}) /\ "effect" \in OpNames \ {"find"}
        /\ req[s].pc = "effects"
    BY <1>5 DEF WritingEffect, At, OpNames
  <2>2. req[s].answer = "none"
    BY <1>1, <2>1 DEF Stage
  <2> QED
    BY <1>1, <2>1, <2>2, ReadOne
<1>6. CASE EffectWrites(s)
  <2>1. PICK r : r = Loaded(s)
    OBVIOUS
  <2>2. At(s, "load")
    BY <1>6 DEF EffectWrites, Finds, Loading
  <2>3. r.S \in Ses /\ Birth(db, r.S, r.t)
    BY <2>1, <2>2, LoadedOne
  <2>4. PICK p : /\ p = [F EXCEPT !.pc = "effects", !.wset = @ \cup {Root}]
                 /\ Step(s, Write(r.S, Root, Tag(s)), r.t, p)
    BY <1>2, <1>6, <2>1 DEF EffectWrites
  <2>5. Past(req[s], p)
    BY <1>2, <2>4 DEF Past, Req
  <2>6. Birth(db, Write(r.S, Root, Tag(s)), r.t)
    BY <2>3, WriteBirth
  <2> QED
    BY <2>4, <2>5, <2>6, PastOne DEF Step
<1> QED
  BY <1>3, <1>4, <1>5, <1>6

-----------------------------------------------------------------------------
(* The conflict loop and the end                                           *)

LEMMA ReplyOne ==
    ASSUME Setting, NEW s \in Sessions, NEW a, Reply(s, a)
    PROVE  OneInv'
<1>1. ses[s] \in Ses /\ req[s] \in Req
  BY OneParts
<1>2. PICK q : q = [req[s] EXCEPT !.pc = "close", !.answer = a, !.effect = FALSE]
  OBVIOUS
<1>3. Past(req[s], q)
  BY <1>1, <1>2 DEF Past, Req
<1>4. PICK B \in Ses : B = Abort(ses[s]) /\ B.cached = {}
  BY <1>1, AbortParts
<1>5. PICK R : R = [B EXCEPT !.unit = "none", !.raised = FALSE]
  OBVIOUS
<1>6. R.cached = {}
  BY <1>4, <1>5 DEF Ses
<1>7. Step(s, R, NoTxn, q)
  BY <1>2, <1>4, <1>5 DEF Reply
<1>8. Birth(db, R, NoTxn)
  BY <1>6, NotLive, EmptyBirth
<1> QED
  BY <1>3, <1>7, <1>8, PastOne DEF Step

LEMMA RerunOne ==
    ASSUME Setting, NEW s \in Sessions, NEW S \in Ses, NEW pc \in {"turn", "reload"},
           NEW n, Rerun(s, S, pc, n)
    PROVE  OneInv'
<1>1. req[s] \in Req
  BY OneParts
<1>2. PICK R \in Ses : R = Reenter(S)
  BY UnitType DEF Reenter
<1>3. PICK q : q = [req[s] EXCEPT !.pc = pc, !.exc = "none", !.attempt = n,
                !.roRetries = @ + (IF req[s].exc = "ro" THEN 1 ELSE 0),
                !.committed = FALSE, !.effect = FALSE, !.ops = 0,
                !.run = @ + 1, !.wset = {}, !.dset = {},
                !.enqueued = FALSE, !.saved = FALSE]
  OBVIOUS
<1>4. Past(req[s], q)
  <2>1. q.op = req[s].op /\ q.pc = pc
    BY <1>1, <1>3 DEF Req
  <2> QED
    BY <2>1 DEF Past
<1>5. Step(s, Abort(R), NoTxn, q)
  BY <1>2, <1>3 DEF Rerun
<1>6. Birth(db, Abort(R), NoTxn)
  BY <1>2, AbortBirth
<1> QED
  BY <1>4, <1>5, <1>6, PastOne DEF Step

LEMMA HandlerOne ==
    ASSUME Setting, NEW s \in Sessions,
           \/ HandleReadOnlyRetry(s) \/ HandleConflict(s)
           \/ HandleError(s) \/ HandleAfterCommit(s)
    PROVE  OneInv'
<1>1. ses[s] \in Ses
  BY OneParts
<1>2. PICK R : R = [ses[s] EXCEPT !.raised = FALSE]
  OBVIOUS
<1>3. R \in Ses
  BY <1>1, <1>2 DEF Ses
<1>4. PICK S \in Ses : \/ \E a : Reply(s, a)
                       \/ \E n : \E pc \in {"turn", "reload"} : Rerun(s, S, pc, n)
  BY <1>1, <1>2, <1>3 DEF HandleReadOnlyRetry, HandleConflict, HandleError, HandleAfterCommit
<1> QED
  BY <1>4, ReplyOne, RerunOne

LEMMA UnitExitOne ==
    ASSUME Setting, NEW s \in Sessions, UnitExit(s)
    PROVE  OneInv'
<1>1. ses[s] \in Ses /\ req[s] \in Req /\ Birth(db, ses[s], txn[s])
  BY OneParts
<1>2. PICK S : S = [ses[s] EXCEPT !.unit = "none", !.raised = FALSE]
  OBVIOUS
<1>3. S \in Ses /\ Kin(ses[s], S)
  BY <1>1, <1>2 DEF Ses, Kin
<1>4. Birth(db, S, txn[s]) /\ Birth(db, Abort(S), NoTxn)
  BY <1>1, <1>3, TwinsSelf, BirthKin, AbortBirth
<1>5. CASE Step(s, Abort(S), NoTxn, Throw(req[s], "ro"))
  <2>1. Past(req[s], Throw(req[s], "ro"))
    BY <1>1 DEF Past, Throw, Req
  <2> QED
    BY <1>4, <1>5, <2>1, PastOne DEF Step
<1>6. CASE Step(s, S, txn[s], [req[s] EXCEPT !.pc = "close", !.answer = "ok"])
  <2>1. Past(req[s], [req[s] EXCEPT !.pc = "close", !.answer = "ok"])
    BY <1>1 DEF Past, Req
  <2> QED
    BY <1>4, <1>6, <2>1, PastOne DEF Step
<1> QED
  BY <1>2, <1>5, <1>6 DEF UnitExit

LEMMA TurnOne ==
    ASSUME Setting, NEW s \in Sessions,
           NoTurn(s) \/ LeavePlace(s) \/ TakeTurn(s) \/ TurnTimesOut(s)
    PROVE  OneInv'
<1>1. ses[s] \in Ses /\ req[s] \in Req /\ Birth(db, ses[s], txn[s])
  BY OneParts
<1>2. req[s].pc = "turn"
  BY DEF NoTurn, LeavePlace, TakeTurn, TurnTimesOut, At
<1>3. PICK S, q :
        /\ Becomes(s, S, txn[s], q) /\ KeepTables
        /\ \/ S = ses[s]
           \/ \E W : S = [ses[s] EXCEPT !.queued = W]
           \/ S = [ses[s] EXCEPT !.contended = {}]
        /\ \/ q = req[s]
           \/ q = Goto(req[s], "pin")
           \/ q = Goto(req[s], "reload")
  BY DEF NoTurn, LeavePlace, TakeTurn, TurnTimesOut, Step
<1>4. Kin(ses[s], S)
  BY <1>1, <1>3 DEF Ses, Kin
<1>5. Past(req[s], q)
  BY <1>1, <1>2, <1>3, GotoOp DEF Past
<1> QED
  BY <1>1, <1>3, <1>4, <1>5, TwinsSelf, BirthKin, PastOne

LEMMA PinOne ==
    ASSUME Setting, NEW s \in Sessions, Pin(s)
    PROVE  OneInv'
<1>1. /\ ses[s] \in Ses /\ req[s] \in Req /\ World /\ StoreReady
      /\ Holds(s, ses[s], txn[s], Claim(s, req[s])) /\ Birth(db, ses[s], txn[s])
  BY OneParts
<1>2. PICK t : /\ Step(s, ses[s], t, Goto(req[s], "reload"))
               /\ t = NoTxn \/ t = LockRows(Begin("rw"), ses[s].queued)
  BY DEF Pin
<1>3. Birth(db, ses[s], t)
  <2>1. CASE t = NoTxn
    BY <1>1, <2>1, NotLive, BirthNone
  <2>2. CASE t = LockRows(Begin("rw"), ses[s].queued)
    <3>1. PICK b \in Txn : b = Begin("rw")
      BY <1>1, BeginParts
    <3>2. Birth(db, ses[s], b)
      BY <1>1, <3>1, BeginBirth DEF Birth
    <3>3. t.view = b.view /\ t.wrote = b.wrote /\ t.mode = b.mode /\ t.dead = b.dead
      BY <2>2, <3>1 DEF LockRows, Reading, Txn
    <3>4. Kin(ses[s], ses[s]) /\ Twins(b, t)
      BY <3>3 DEF Kin, Twins, Live
    <3> QED
      BY <1>1, <3>2, <3>4, BirthKin
  <2> QED
    BY <1>2, <2>1, <2>2
<1>4. Past(req[s], Goto(req[s], "reload"))
  BY <1>1, GotoOp DEF Past
<1> QED
  BY <1>2, <1>3, <1>4, PastOne DEF Step

LEMMA LeavingOne ==
    ASSUME Setting, NEW s \in Sessions, CloseSession(s) \/ LeaveSession(s)
    PROVE  OneInv'
<1>1. ses[s] \in Ses /\ req[s] \in Req /\ Birth(db, ses[s], txn[s])
  BY OneParts
<1>2. CASE CloseSession(s)
  <2>1. PICK q : /\ Step(s, ses[s], txn[s], q)
                 /\ q = [req[s] EXCEPT !.pc = "flush", !.kind = "close", !.tries = 0]
    BY <1>2 DEF CloseSession
  <2>2. Past(req[s], q)
    BY <1>1, <2>1 DEF Past, Req
  <2> QED
    BY <1>1, <2>1, <2>2, PastOne DEF Step
<1>3. CASE LeaveSession(s)
  <2>1. PICK A : A = NewSession
    OBVIOUS
  <2>2. Becomes(s, A, NoTxn, Goto(req[s], "answered")) /\ KeepTables
    BY <1>3, <2>1 DEF LeaveSession
  <2>3. Birth(db, A, NoTxn)
    BY <2>1, NotLive, EmptyBirth DEF NewSession
  <2>4. Past(req[s], Goto(req[s], "answered"))
    BY <1>1, GotoOp DEF Past
  <2> QED
    BY <2>2, <2>3, <2>4, PastOne
<1> QED
  BY <1>2, <1>3

(* A connection that breaks takes its transaction with it, and no more.    *)
LEMMA ConnectionOne ==
    ASSUME Setting, NEW s \in Sessions, ConnectionLost(s)
    PROVE  OneInv'
<1>1. Birth(db, ses[s], txn[s]) /\ Asked(ses[s], req[s])
  BY OneParts
<1>2. /\ ses \in [Sessions -> Ses] /\ req \in [Sessions -> Req]
      /\ ses' = ses /\ req' = req /\ KeepTables
  BY DEF Setting, TypeOK, ConnectionLost
<1>3. PICK t : /\ txn' = [txn EXCEPT ![s] = t]
               /\ t = IF txn[s].mode = "none" THEN NoTxn
                      ELSE [NoTxn EXCEPT !.mode = txn[s].mode, !.dead = TRUE]
  <2>1. txn \in [Sessions -> Txn]
    BY DEF Setting, TypeOK, StoreTypeOK
  <2> QED
    BY <2>1 DEF ConnectionLost, DropConnection
<1>4. Becomes(s, ses[s], t, req[s])
  BY <1>2, <1>3 DEF Becomes
<1>5. ~Live(t)
  BY <1>3 DEF NoTxn, Live
<1>6. Birth(db, ses[s], t)
  BY <1>1, <1>5, BirthNone
<1> QED
  BY <1>1, <1>2, <1>4, <1>6, BecomesOne DEF KeepTables

-----------------------------------------------------------------------------
(* The invariant and what it says                                          *)

LEMMA OneInit == Init => OneInv
<1> SUFFICES ASSUME Init PROVE OneInv
  OBVIOUS
<1>1. /\ db = [id \in Ids |-> IF id \in Seeded THEN [ver |-> 0, val |-> {}]
                                               ELSE Absent]
      /\ txn = [s \in Sessions |-> NoTxn]
  BY DEF Init, StoreInit
<1>2. ASSUME NEW s \in Sessions
      PROVE  req[s] = NewRequest /\ txn[s] = NoTxn
             /\ ses[s] \in {NewSession, [NewSession EXCEPT !.recorded = TRUE]}
  BY <1>1 DEF Init
<1>3. ASSUME NEW c \in Children PROVE ~Present(db[c])
  <2>1. c \in Ids \ Seeded
    BY RequestAssumption DEF Children
  <2> QED
    BY <1>1, <2>1 DEF Present, Absent
<1>4. Single(db)
  BY <1>3 DEF Single
<1>5. ASSUME NEW s \in Sessions PROVE Birth(db, ses[s], txn[s]) /\ Asked(ses[s], req[s])
  <2>1. ses[s].cached = {} /\ req[s].pc = "arrive" /\ req[s].op.name = "open"
    BY <1>2 DEF NewSession, NewRequest
  <2> QED
    BY <1>2, <2>1, NotLive, EmptyBirth DEF Asked
<1> QED
  BY <1>4, <1>5 DEF OneInv

LEMMA OneNext ==
    ASSUME Setting, OpsCounted, [Next]_vars
    PROVE  OneInv'
<1>1. CASE UNCHANGED vars
  <2>1. UNCHANGED <<db, ses, txn, req>>
    BY <1>1 DEF vars
  <2> QED
    BY <2>1, OnePrime DEF Setting, OneInv
<1>2. ASSUME NEW s \in Sessions, Walker(s) \/ Server(s) \/ Network(s)
      PROVE  OneInv'
  <2>1. CASE Walker(s)
    BY <2>1, WalkerOne
  <2>2. CASE Server(s)
    BY <2>2, ArrivalOne, ScopeOne, OpenUnitOne, RereadOne, FlushOne, CommitStepOne,
       EffectsOne, UnitExitOne, HandlerOne, TurnOne, PinOne,
       ReloadOne, LeavingOne DEF Server
  <2>3. CASE Network(s)
    BY <2>3, CommitStepOne, ConnectionOne DEF Network
  <2> QED
    BY <1>2, <2>1, <2>2, <2>3
<1> QED
  BY <1>1, <1>2 DEF Next, Terminated

LEMMA SingleConverges == Single(db) => Converges
<1> SUFFICES ASSUME Single(db) PROVE Converges
  OBVIOUS
<1>1. PICK P : P = {id \in Children : Present(db[id])}
  OBVIOUS
<1>2. CASE P = {}
  BY <1>1, <1>2, FS_EmptySet DEF Converges
<1>3. CASE P # {}
  <2>1. PICK c \in P : P = {c}
    BY <1>1, <1>3 DEF Single
  <2>2. Cardinality(P) = 1
    BY <2>1, FS_Singleton
  <2> QED
    BY <1>1, <2>2 DEF Converges
<1> QED
  BY <1>2, <1>3

(* Requests that race to find a child or create it leave one child (what   *)
(* persistence.md promises of them), however their reads, flushes, commits, *)
(* replays and re-runs interleave and whichever connections break, when    *)
(* each of them also writes the parent: the replay of Session.commit does  *)
(* not read again, so that only the version of the parent's row            *)
(* (PgStore.upsert, RowLedger) tells the loser.  A walker that never writes *)
(* the parent is not covered, nor one that deletes.                        *)
THEOREM OneChild == OpsCounted => (Spec => []Converges)
<1> SUFFICES ASSUME OpsCounted PROVE Spec => []Converges
  OBVIOUS
<1>1. "delete" \notin Ops
  BY DEF OpsCounted
<1>2. Spec => [](TypeOK /\ LedgerInv /\ WriteInv)
  BY <1>1, WriteAlways
<1>3. TypeOK /\ LedgerInv /\ WriteInv /\ OneInv /\ [Next]_vars => OneInv'
  BY OneNext DEF Setting
<1>4. OneInv => Converges
  BY SingleConverges DEF OneInv
<1> QED
  BY <1>2, <1>3, <1>4, OneInit, PTL DEF Spec
=============================================================================
