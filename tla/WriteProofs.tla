----------------------------- MODULE WriteProofs -----------------------------
(***************************************************************************)
(* What becomes of what a walker writes, for walkers that delete nothing:  *)
(* no commit drops what an earlier one saved, the walker sees its own      *)
(* writes as long as it runs, and a request answered ok has saved them all.*)
(* The three rest on one invariant, row by row: where the content of a     *)
(* cached anchor, the ledger's two versions of its row, the row in the     *)
(* open transaction and the committed row stand to each other.             *)
(*                                                                         *)
(* Why no deletions: a row that is deleted and inserted again starts over  *)
(* at version 0, so that an old version may be met a second time.          *)
(***************************************************************************)
EXTENDS LedgerProofs

Live(t) == t.mode # "none" /\ ~t.dead

(* Row r is the committed row d, or one that d has replaced.               *)
Older(r, d) == Present(r) => /\ Present(d) /\ r.ver <= d.ver /\ r.val \subseteq d.val
                             /\ (r.ver = d.ver => r = d)

(* Row r may replace d: its version is later and it drops nothing.         *)
Newer(r, d) == /\ Present(r)
               /\ Present(d) => d.ver < r.ver /\ d.val \subseteq r.val

(* Of a store with rows d, changed by the commits a, when c were made.     *)
Times(d, a, c) == \A id \in Ids : /\ a[id] \in 0 .. c
                                  /\ a[id] > 0 \/ id \in Seeded => Present(d[id])

(* What a session knows of a row was committed, and the cached anchor has  *)
(* the content the session knows.                                          *)
Knows(d, S, id) ==
    /\ Older(S.known[id], d[id])
    /\ Present(S.ups[id]) => id \in S.cached
    /\ id \in S.cached /\ Present(S.known[id]) => S.known[id].val \subseteq S.mem[id]

(* A row its transaction wrote is locked and may replace the committed one;*)
(* any other is that of the snapshot, and if no commit changed it since,   *)
(* the committed one.                                                      *)
Sees(d, a, S, t, id) ==
    /\ IF id \in t.wrote THEN id \in t.locked /\ Newer(t.view[id], d[id])
       ELSE /\ Older(t.view[id], d[id])
            /\ t.mode = "rw" /\ a[id] <= t.start => t.view[id] = d[id]
    /\ Present(S.ups[id]) => /\ id \in t.wrote /\ Newer(S.ups[id], d[id])
                             /\ S.ups[id].val \subseteq S.mem[id]
    /\ Present(S.known[id]) => /\ Present(t.view[id])
                               /\ S.known[id].val \subseteq t.view[id].val
    /\ id \in Seeded => Present(t.view[id])

(* An anchor of which the session knows no row is one it constructed, and  *)
(* if it is stored already the session has stored it, by a COMMIT that was *)
(* not answered.                                                           *)
Mine(d, s, S, t, used, id) ==
    /\ id \in S.cached /\ ~Present(S.known[id]) =>
         /\ id \in Mint[s]
         /\ Present(d[id]) /\ d[id].ver = 0 => d[id].val \subseteq S.mem[id]
         /\ Live(t) /\ id \in t.wrote => t.view[id].val \subseteq S.mem[id]
    /\ Live(t) /\ id \in t.wrote /\ ~Present(d[id]) => id \in Mint[s]
    /\ id \in Mint[s] \ used => /\ ~Present(d[id]) /\ id \notin S.cached
                                /\ Live(t) => id \notin t.wrote

Sound(d, a, c, s, S, t, used) ==
    /\ S.deleted = {} /\ S.rem = {}
    /\ Live(t) => /\ t.mode = "ro" => t.wrote = {}
                  /\ t.mode = "rw" => t.start <= c
    /\ \A id \in Ids : /\ Knows(d, S, id) /\ Mine(d, s, S, t, used, id)
                       /\ Live(t) => Sees(d, a, S, t, id)

(* A row has one uncommitted writer, among the transactions ts.            *)
Parted(ts, s, t) == \A o \in Sessions \ {s} : ts[o].locked \cap t.locked = {}

Grounded(s, S, t, used) == Sound(db, stamp, clock, s, S, t, used) /\ Parted(txn, s, t)

(* A unit that has begun reads in a transaction of its own tier.           *)
Tiers(S, t) == S.unit # "none" /\ (t.mode = "ro" => S.unit = "ro")

(* What attempt k.tag has written is in the cache, and stays there when    *)
(* the anchors k.loads are read again; so is what it needs that it does not*)
(* read again.  The outbox entry it joined with is in the transaction or   *)
(* the outbox, or the session knows it was lost.                           *)
Claims(box, S, t, k) ==
    /\ k.writes \subseteq Ids /\ k.loads \subseteq k.writes /\ k.needs \subseteq S.cached
    /\ Tiers(S, t)
    /\ k.joins => \/ k.tag \in box \/ S.lost
                  \/ S.joined /\ (Live(t) => k.tag \in t.out)
    /\ \A id \in k.writes : id \in S.cached /\ k.tag \in S.mem[id]
    /\ \A id \in k.loads : \/ id \in S.dirty \/ ~Present(Current(S, id))
                           \/ k.tag \in Current(S, id).val

Holds(s, S, t, k) == /\ Grounded(s, S, t, k.used)
                     /\ k.begun => Claims(outbox, S, t, k)

(* A request that has no answer yet and whose attempt goes on, and one in  *)
(* the unit of its attempt.                                                *)
Running(q) == q.answer = "none" /\ q.pc \notin {"handler", "close", "leave", "answered"}

Begun(q) == /\ Running(q) /\ q.pc \notin {"arrive", "scope", "open"}
            /\ q.pc \in {"barrier", "load"} => q.op.name \notin {"scope", "open"}

Claim(s, q) ==
    LET reading == q.pc \in {"barrier", "load"}
    IN  [used |-> q.used, begun |-> Begun(q), tag |-> <<s, q.run>>,
         writes |-> q.wset, joins |-> q.enqueued,
         loads |-> IF reading THEN q.wset \cap q.op.load ELSE {},
         needs |-> IF reading /\ q.op.name = "count" THEN {Root} \ q.op.load
                                                    ELSE {}]

(* What a request has written before its unit begins or while it queues,   *)
(* and what is stored of an attempt whose last commit succeeded.           *)
Told(d, box, s, t, q) ==
    /\ Running(q) /\ ~Begun(q) => q.wset = {} /\ ~q.enqueued
    /\ q.pc = "close" => q.answer # "none"
    /\ q.pc = "exit" \/ q.answer = "ok" =>
          /\ \A id \in q.wset : <<s, q.run>> \in d[id].val
          /\ q.enqueued => <<s, q.run>> \in box
    /\ q.op.name # "delete"
    /\ q.op.name = "effect" => q.op.id = Root
    /\ q.pc \in {"turn", "pin"} => ~q.enqueued
    /\ q.pc = "load" /\ q.op.load # {} => t.mode # "none"

WriteInv ==
    /\ Times(db, stamp, clock)
    /\ \A s \in Sessions : /\ Holds(s, ses[s], txn[s], Claim(s, req[s]))
                           /\ Told(db, outbox, s, txn[s], req[s])

-----------------------------------------------------------------------------
(* Rows                                                                    *)

LEMMA Versions ==
    ASSUME NEW r \in Row
    PROVE  /\ Present(r) => r.ver \in Nat /\ r.val \subseteq Tags
           /\ ~Present(r) => r = Absent
  BY DEF Row, Absent, Present

LEMMA RowOrder ==
    ASSUME NEW r \in Row, NEW d \in Row
    PROVE  /\ Older(d, d) /\ Older(Absent, d)
           /\ \A n \in Row : Older(r, d) /\ Newer(n, d) => Older(r, n)
           /\ Newer(r, d) => d.val \subseteq r.val
<1>1. Older(d, d) /\ Older(Absent, d)
  BY Versions DEF Older, Present, Absent
<1>2. ASSUME NEW n \in Row, Older(r, d), Newer(n, d) PROVE Older(r, n)
  BY <1>2, Versions DEF Older, Newer
<1>3. Newer(r, d) => d.val \subseteq r.val
  BY Versions DEF Newer, Absent
<1> QED
  BY <1>1, <1>2, <1>3

-----------------------------------------------------------------------------
(* Sessions that differ in nothing that matters here                       *)

Alike(S, R) ==
    /\ R.cached = S.cached /\ R.known = S.known /\ R.ups = S.ups
    /\ R.rem = S.rem /\ R.deleted = S.deleted
    /\ S.lost => R.lost
    /\ S.dirty \subseteq R.dirty
    /\ \A id \in Ids : S.mem[id] \subseteq R.mem[id]

Echoes(t, u) ==
    /\ u.mode = t.mode /\ u.dead = t.dead /\ u.start = t.start
    /\ u.view = t.view /\ u.wrote = t.wrote /\ u.locked = t.locked
    /\ t.out \subseteq u.out

LEMMA SoundAlike ==
    ASSUME NEW s, NEW S, NEW R, NEW t, NEW u, NEW used, Grounded(s, S, t, used),
           Alike(S, R), Echoes(t, u)
    PROVE  Grounded(s, R, u, used)
<1>1. Parted(txn, s, u) /\ Live(u) = Live(t)
  BY DEF Grounded, Parted, Echoes, Live
<1>2. ASSUME NEW id \in Ids
      PROVE  /\ Knows(db, R, id) /\ Mine(db, s, R, u, used, id)
             /\ Live(u) => Sees(db, stamp, R, u, id)
  <2>1. /\ Knows(db, S, id) /\ Mine(db, s, S, t, used, id)
        /\ Live(t) => Sees(db, stamp, S, t, id)
    BY DEF Grounded, Sound
  <2>2. S.mem[id] \subseteq R.mem[id]
    BY DEF Alike
  <2>3. Knows(db, R, id)
    BY <2>1, <2>2 DEF Knows, Alike
  <2>4. Mine(db, s, R, u, used, id)
    BY <1>1, <2>1, <2>2 DEF Mine, Alike, Echoes
  <2>5. Live(u) => Sees(db, stamp, R, u, id)
    BY <1>1, <2>1, <2>2 DEF Sees, Alike, Echoes
  <2> QED
    BY <2>3, <2>4, <2>5
<1> QED
  BY <1>1, <1>2 DEF Grounded, Sound, Alike, Echoes

LEMMA HoldsAlike ==
    ASSUME NEW s, NEW S, NEW R, NEW t, NEW u, NEW k, Holds(s, S, t, k),
           Alike(S, R), Echoes(t, u),
           k.begun /\ k.joins => R.joined = S.joined,
           R.unit = S.unit \/ (k.begun => Tiers(R, u))
    PROVE  Holds(s, R, u, k)
<1>1. Grounded(s, R, u, k.used)
  BY SoundAlike DEF Holds
<1>2. ASSUME k.begun PROVE Claims(outbox, R, u, k)
  <2>1. Claims(outbox, S, t, k)
    BY <1>2 DEF Holds
  <2>2. Tiers(R, u)
    BY <1>2, <2>1 DEF Claims, Tiers, Echoes
  <2>3. Live(u) = Live(t)
    BY DEF Live, Echoes
  <2>4. \A id : Current(R, id) = Current(S, id)
    BY DEF Current, Alike
  <2> QED
    BY <1>2, <2>1, <2>2, <2>3, <2>4 DEF Claims, Alike, Echoes
<1> QED
  BY <1>1, <1>2 DEF Holds

(* A claim that asks for less.                                             *)
LEMMA HoldsLess ==
    ASSUME NEW s, NEW S, NEW t, NEW k, NEW l, Holds(s, S, t, k), l.used = k.used,
           l.begun => k.begun /\ l.tag = k.tag /\ l.joins = k.joins /\ l.writes = k.writes
                      /\ l.loads \subseteq k.loads /\ l.needs \subseteq k.needs
    PROVE  Holds(s, S, t, l)
<1>1. ASSUME l.begun PROVE Claims(outbox, S, t, l)
  <2>1. Claims(outbox, S, t, k) /\ l.tag = k.tag /\ l.joins = k.joins
        /\ l.writes = k.writes /\ l.loads \subseteq k.loads /\ l.needs \subseteq k.needs
    BY <1>1 DEF Holds
  <2> QED
    BY <2>1 DEF Claims
<1> QED
  BY <1>1 DEF Holds

LEMMA NoTxnDead == /\ ~Live(NoTxn) /\ NoTxn.locked = {} /\ NoTxn.mode = "none"
  BY DEF NoTxn, Live

(* A transaction that is given up, or broken.                              *)
LEMMA HoldsDead ==
    ASSUME NEW s, NEW S, NEW t, NEW u, NEW k, Holds(s, S, t, k), ~Live(u),
           u.locked = {}, u.mode \in {"none", t.mode}
    PROVE  Holds(s, S, u, k)
<1>1. Grounded(s, S, u, k.used)
  <2>1. \A id \in Ids : Knows(db, S, id) /\ Mine(db, s, S, u, k.used, id)
    BY DEF Holds, Grounded, Sound, Mine
  <2>2. Parted(txn, s, u)
    BY DEF Parted
  <2> QED
    BY <2>1, <2>2 DEF Holds, Grounded, Sound
<1>2. k.begun => Claims(outbox, S, u, k)
  BY DEF Holds, Claims, Tiers
<1> QED
  BY <1>1, <1>2 DEF Holds

LEMMA HoldsNone ==
    ASSUME NEW s, NEW S, NEW t, NEW k, Holds(s, S, t, k) PROVE Holds(s, S, NoTxn, k)
  BY NoTxnDead, HoldsDead

-----------------------------------------------------------------------------
(* Opening, promoting and giving up transactions                           *)

(* What a transaction upserted goes back to the dirty anchors.             *)
LEMMA RollbackHolds ==
    ASSUME NEW s, NEW S \in Ses, NEW t, NEW k, Holds(s, S, t, k)
    PROVE  Holds(s, Rollback(S), t, k)
<1>1. PICK R : R = Rollback(S)
  OBVIOUS
<1>2. /\ R.cached = S.cached /\ R.mem = S.mem /\ R.known = S.known /\ R.ups = NoRows
      /\ R.dirty = S.dirty \cup (Upserted(S) \cap S.cached) /\ R.unit = S.unit
      /\ R.deleted = S.deleted \cup (S.rem \ S.cached) /\ R.rem = {}
      /\ R.lost = (S.lost \/ S.joined)
  BY <1>1 DEF Rollback, Ses
<1>3. \A id \in Ids : ~Present(R.ups[id])
  BY <1>2 DEF NoRows, Present, Absent
<1>4. Grounded(s, R, t, k.used)
  <2>1. S.rem = {} /\ S.deleted = {}
    BY DEF Holds, Grounded, Sound
  <2>2. ASSUME NEW id \in Ids
        PROVE  /\ Knows(db, R, id) /\ Mine(db, s, R, t, k.used, id)
               /\ Live(t) => Sees(db, stamp, R, t, id)
    <3>1. /\ Knows(db, S, id) /\ Mine(db, s, S, t, k.used, id)
          /\ Live(t) => Sees(db, stamp, S, t, id)
      BY DEF Holds, Grounded, Sound
    <3> QED
      BY <1>2, <1>3, <3>1 DEF Knows, Mine, Sees
  <2> QED
    BY <1>2, <2>1, <2>2 DEF Holds, Grounded, Sound
<1>5. ASSUME k.begun PROVE Claims(outbox, R, t, k)
  <2>1. Claims(outbox, S, t, k) /\ S.rem = {}
    BY <1>5 DEF Holds, Grounded, Sound
  <2>2. ASSUME NEW id \in k.loads
        PROVE  id \in R.dirty \/ ~Present(Current(R, id)) \/ k.tag \in Current(R, id).val
    <3>1. id \in Ids /\ id \in S.cached
      BY <2>1 DEF Claims
    <3>2. CASE Present(S.ups[id])
      BY <1>2, <3>1, <3>2 DEF Upserted
    <3>3. CASE ~Present(S.ups[id])
      <4>1. Current(R, id) = Current(S, id)
        BY <1>2, <1>3, <2>1, <3>1, <3>3 DEF Current
      <4> QED
        BY <1>2, <2>1, <4>1 DEF Claims
    <3> QED
      BY <3>2, <3>3
  <2> QED
    BY <1>2, <2>1, <2>2 DEF Claims, Tiers
<1> QED
  BY <1>1, <1>4, <1>5 DEF Holds

(* A new transaction, of a session that has written nothing.               *)
Starts(s, u, mode) ==
    /\ u.mode = mode /\ u.start = clock /\ u.view = db
    /\ u.wrote = {} /\ Parted(txn, s, u)

LEMMA BeginStarts ==
    ASSUME StoreReady, NEW mode \in {"rw", "ro"}, NEW s
    PROVE  Starts(s, Begin(mode), mode)
<1>1. PICK b : b = Begin(mode)
  OBVIOUS
<1>2. /\ b.mode = mode /\ b.start = clock /\ b.view = db /\ b.wrote = {} /\ b.locked = {}
  BY <1>1 DEF Begin, NoTxn
<1> QED
  BY <1>1, <1>2 DEF Starts, Parted

LEMMA StartHolds ==
    ASSUME StoreReady, NEW s, NEW S \in Ses, NEW t, NEW u, NEW k, Holds(s, S, t, k),
           Times(db, stamp, clock), Upserted(S) = {},
           NEW mode \in {"rw", "ro"}, Starts(s, u, mode),
           k.begun => (mode = "ro" => S.unit = "ro") /\ (k.joins => ~S.joined)
    PROVE  Holds(s, S, u, k)
<1>1. Grounded(s, S, u, k.used)
  <2>1. ASSUME NEW id \in Ids
        PROVE  /\ Knows(db, S, id) /\ Mine(db, s, S, u, k.used, id)
               /\ Sees(db, stamp, S, u, id)
    <3>1. Knows(db, S, id) /\ Mine(db, s, S, t, k.used, id)
      BY DEF Holds, Grounded, Sound
    <3>2. ~Present(S.ups[id])
      BY DEF Upserted
    <3>3. Mine(db, s, S, u, k.used, id)
      BY <3>1 DEF Mine, Starts
    <3>4. Older(db[id], db[id])
      BY RowOrder DEF StoreReady
    <3>5. id \in Seeded => Present(db[id])
      BY DEF Times
    <3>6. Sees(db, stamp, S, u, id)
      BY <3>1, <3>2, <3>4, <3>5 DEF Knows, Older, Sees, Starts
    <3> QED
      BY <3>1, <3>3, <3>6
  <2>2. clock <= clock
    BY DEF StoreReady
  <2> QED
    BY <2>1, <2>2 DEF Holds, Grounded, Sound, Starts
<1>2. k.begun => Claims(outbox, S, u, k)
  BY DEF Holds, Claims, Tiers, Starts
<1> QED
  BY <1>1, <1>2 DEF Holds

LEMMA ReclaimHolds ==
    ASSUME NEW s, NEW r, r.S \in Ses, NEW k, Holds(s, r.S, r.t, k)
    PROVE  LET q == Reclaim(r)
           IN  Holds(s, q.S, q.t, k) /\ q.t = r.t
<1>1. PICK R : R = Rollback(r.S) /\ Holds(s, R, r.t, k)
  BY RollbackHolds
<1>2. PICK q : q = Reclaim(r)
  OBVIOUS
<1>3. CASE q = LostOr(R, r.t)
  <2>1. q.S = R /\ q.t = r.t
    BY <1>3 DEF LostOr, Raise, Done
  <2> QED
    BY <1>1, <1>2, <2>1
<1> QED
  BY <1>1, <1>2, <1>3 DEF Reclaim

(* The two things a promotion of a read-only transaction does, of a        *)
(* request that has not begun its unit.                                    *)
LEMMA PromoteHolds ==
    ASSUME NEW s, NEW S \in Ses, NEW t, NEW k, Holds(s, S, t, k), ~k.begun,
           Upserted(S) = {}
    PROVE  Holds(s, Promote(S), t, k) /\ Upserted(Promote(S)) = {}
<1>1. PICK P : P = Promote(S)
  OBVIOUS
<1>2. /\ P.cached = S.cached /\ P.mem = S.mem /\ P.known = [id \in Ids |-> Current(S, id)]
      /\ P.ups = NoRows /\ P.dirty = S.dirty /\ P.unit = S.unit
      /\ P.deleted = S.deleted /\ P.rem = {} /\ P.lost = S.lost
  BY <1>1 DEF Promote, Ses
<1>3. S.rem = {}
  BY DEF Holds, Grounded, Sound
<1>4. P.known = S.known
  <2>1. \A id \in Ids : Current(S, id) = S.known[id]
    BY <1>3 DEF Current, Upserted
  <2>2. S.known \in [Ids -> Row]
    BY DEF Ses
  <2> QED
    BY <1>2, <2>1, <2>2
<1>5. P.ups = S.ups
  <2>1. S.ups \in [Ids -> Row]
    BY DEF Ses
  <2>2. \A id \in Ids : ~Present(S.ups[id])
    BY DEF Upserted
  <2>3. \A id \in Ids : S.ups[id] = Absent
    BY <2>1, <2>2, Versions
  <2> QED
    BY <1>2, <2>1, <2>3 DEF NoRows
<1>6. Alike(S, P)
  BY <1>2, <1>3, <1>4, <1>5 DEF Alike
<1>7. Echoes(t, t)
  BY DEF Echoes
<1> QED
  BY <1>1, <1>2, <1>5, <1>6, <1>7, HoldsAlike DEF Upserted

LEMMA DropHolds ==
    ASSUME NEW s, NEW S \in Ses, NEW t, NEW k, Holds(s, S, t, k), ~k.begun,
           Upserted(S) = {}
    PROVE  Holds(s, DropSnapshotReads(S), t, k)
<1>1. PICK F : F = S.snap \ (S.dirty \cup S.deleted)
  OBVIOUS
<1>2. PICK D : D = DropSnapshotReads(S)
  OBVIOUS
<1>3. PICK E : E = Forget(S, F)
  OBVIOUS
<1>4. /\ E.cached = S.cached \ F /\ E.mem = [id \in Ids |-> IF id \in F THEN {} ELSE S.mem[id]]
      /\ E.known = [id \in Ids |-> IF id \in F THEN Absent ELSE S.known[id]]
      /\ E.ups = S.ups /\ E.rem = S.rem /\ E.deleted = S.deleted
  BY <1>3 DEF Forget, Ses
<1>5. E \in Ses
  <2>1. F \in SUBSET Ids
    BY <1>1 DEF Ses
  <2> QED
    BY <1>3, <2>1, ForgetParts
<1>6. D = [E EXCEPT !.snap = {}]
  BY <1>1, <1>2, <1>3 DEF DropSnapshotReads
<1>7. /\ D.cached = E.cached /\ D.mem = E.mem /\ D.known = E.known
      /\ D.ups = E.ups /\ D.rem = E.rem /\ D.deleted = E.deleted
  BY <1>5, <1>6 DEF Ses
<1>8. ASSUME NEW id \in Ids
      PROVE  /\ Knows(db, D, id) /\ Mine(db, s, D, t, k.used, id)
             /\ Live(t) => Sees(db, stamp, D, t, id)
  <2>1. /\ Knows(db, S, id) /\ Mine(db, s, S, t, k.used, id)
        /\ Live(t) => Sees(db, stamp, S, t, id)
    BY DEF Holds, Grounded, Sound
  <2>2. ~Present(S.ups[id]) /\ ~Present(Absent)
    BY DEF Upserted, Present, Absent
  <2>3. CASE id \in F
    BY <1>4, <1>7, <2>1, <2>2, <2>3 DEF Knows, Older, Mine, Sees
  <2>4. CASE id \notin F
    <3>1. D.mem[id] = S.mem[id] /\ D.known[id] = S.known[id] /\ D.ups[id] = S.ups[id]
          /\ (id \in D.cached <=> id \in S.cached)
      BY <1>4, <1>7, <2>4
    <3> QED
      BY <2>1, <2>2, <3>1 DEF Knows, Mine, Sees
  <2> QED
    BY <2>3, <2>4
<1>9. Grounded(s, D, t, k.used)
  BY <1>4, <1>7, <1>8 DEF Holds, Grounded, Sound
<1> QED
  BY <1>2, <1>9 DEF Holds

LEMMA RaiseHolds ==
    ASSUME NEW s, NEW S \in Ses, NEW t, NEW k, Holds(s, S, t, k)
    PROVE  LET r == RaiseReadOnlyRetry(S)
           IN  Holds(s, r.S, r.t, k)
<1>1. PICK W : W = RegisterWriters(S) /\ W \in Ses
  BY RegisterWritersType
<1>2. /\ W.cached = S.cached /\ W.mem = S.mem /\ W.known = S.known /\ W.ups = S.ups
      /\ W.dirty = S.dirty /\ W.deleted = S.deleted /\ W.rem = S.rem
      /\ W.lost = S.lost /\ W.joined = S.joined
      /\ W.unit = S.unit \/ W.unit = "rw"
  BY <1>1 DEF RegisterWriters, Ses
<1>3. Alike(S, W)
  BY <1>2 DEF Alike
<1>4. Holds(s, S, NoTxn, k) /\ Echoes(NoTxn, NoTxn)
  BY HoldsNone DEF Echoes
<1>5. W.unit = S.unit \/ Tiers(W, NoTxn)
  BY <1>2, NoTxnDead DEF Tiers
<1>6. Holds(s, W, NoTxn, k)
  BY <1>2, <1>3, <1>4, <1>5, HoldsAlike
<1>7. PICK R : R = Rollback(W) /\ Holds(s, R, NoTxn, k) /\ R \in Ses
  BY <1>1, <1>6, RollbackHolds, RollbackParts
<1>8. PICK C : C = [R EXCEPT !.raised = TRUE]
  OBVIOUS
<1>9. /\ C.cached = R.cached /\ C.mem = R.mem /\ C.known = R.known /\ C.ups = R.ups
      /\ C.dirty = R.dirty /\ C.deleted = R.deleted /\ C.rem = R.rem
      /\ C.lost = R.lost /\ C.joined = R.joined /\ C.unit = R.unit
  BY <1>7, <1>8 DEF Ses
<1>10. Alike(R, C)
  BY <1>9 DEF Alike
<1>11. Holds(s, C, NoTxn, k)
  BY <1>4, <1>7, <1>9, <1>10, HoldsAlike
<1>12. RaiseReadOnlyRetry(S).S = C /\ RaiseReadOnlyRetry(S).t = NoTxn
  BY <1>1, <1>7, <1>8 DEF RaiseReadOnlyRetry, Raise
<1> QED
  BY <1>11, <1>12

(* A promotion changes the cache of no unit that has begun.                *)
Same(k, r, w) == w.S = r.S \/ (r.t.mode = "ro" /\ ~k.begun)

LEMMA PromotedHolds ==
    ASSUME StoreReady, NEW s, NEW O, NEW r, Fits(O, r), NEW k, Holds(s, r.S, r.t, k),
           Times(db, stamp, clock), Ok(r) => Kept(r.S, r.t)
    PROVE  LET p == Promoted(r)
           IN  Holds(s, p.S, p.t, k) /\ (Ok(p) => Same(k, r, p))
<1>1. /\ r.S \in Ses /\ r.t \in Txn /\ r.t.mode \in {"none", "rw", "ro"}
  BY FitsParts
<1>2. PICK p : p = Promoted(r)
  OBVIOUS
<1>3. Starts(s, Begin("rw"), "rw")
  BY BeginStarts
<1>4. CASE ~Ok(r) \/ r.t.mode = "rw"
  BY <1>2, <1>4 DEF Promoted, Same
<1>5. CASE Ok(r) /\ r.t.mode = "none"
  <2>1. p.S = r.S /\ p.t = Begin("rw")
    BY <1>2, <1>5 DEF Promoted, Done
  <2>2. Upserted(r.S) = {} /\ ~r.S.joined
    BY <1>5 DEF Kept, InFlight
  <2> QED
    BY <1>1, <1>2, <1>3, <2>1, <2>2, StartHolds DEF Same
<1>6. CASE Ok(r) /\ r.t.mode = "ro" /\ r.S.unit = "ro"
  <2>1. p = RaiseReadOnlyRetry(r.S)
    BY <1>2, <1>6 DEF Promoted
  <2>2. ~Ok(p)
    BY <2>1 DEF RaiseReadOnlyRetry, Raise, Ok
  <2> QED
    BY <1>1, <1>2, <2>1, <2>2, RaiseHolds
<1>7. CASE Ok(r) /\ r.t.mode = "ro" /\ r.S.unit # "ro" /\ r.t.dead
  <2>1. p.S = r.S /\ p.t = NoTxn
    BY <1>2, <1>7 DEF Promoted, Raise
  <2> QED
    BY <1>2, <2>1, HoldsNone DEF Same
<1>8. CASE Ok(r) /\ r.t.mode = "ro" /\ r.S.unit # "ro" /\ ~r.t.dead
  <2>1. ~k.begun
    BY <1>8 DEF Holds, Claims, Tiers
  <2>2. Upserted(r.S) = {}
    BY <1>8 DEF Holds, Grounded, Sound, Sees, Live, Upserted
  <2>3. PICK P : P = Promote(r.S) /\ Holds(s, P, r.t, k) /\ Upserted(P) = {} /\ P \in Ses
    BY <1>1, <2>1, <2>2, PromoteHolds, PromoteParts
  <2>4. PICK D : /\ D = DropSnapshotReads(P) /\ Holds(s, D, r.t, k) /\ D \in Ses
                 /\ Upserted(D) = {}
    BY <2>1, <2>3, DropHolds, DropParts
  <2>5. p.S = D /\ p.t = Begin("rw")
    BY <1>2, <1>8, <2>3, <2>4 DEF Promoted, Done
  <2> QED
    BY <1>2, <1>3, <1>8, <2>1, <2>4, <2>5, StartHolds DEF Same
<1> QED
  BY <1>1, <1>4, <1>5, <1>6, <1>7, <1>8

LEMMA BeginWritableHolds ==
    ASSUME StoreReady, NEW s, NEW O, NEW r, Fits(O, r), NEW k, Holds(s, r.S, r.t, k),
           Times(db, stamp, clock)
    PROVE  LET w == BeginWritable(r)
           IN  /\ Holds(s, w.S, w.t, k)
               /\ Ok(w) /\ Kept(r.S, r.t) => Same(k, r, w)
<1>1. PICK w : w = BeginWritable(r)
  OBVIOUS
<1>2. CASE Ok(r) /\ r.S.raised
  <2>1. w.S = r.S /\ w.t = r.t /\ ~Ok(w)
    BY <1>1, <1>2 DEF BeginWritable, Raise, Ok
  <2> QED
    BY <1>1, <2>1
<1>3. CASE ~(Ok(r) /\ r.S.raised)
  <2>1. PICK q : q = Reclaim(r) /\ Fits(O, q) /\ (Ok(q) => Ok(r) /\ Kept(q.S, q.t))
                 /\ (Ok(r) /\ Kept(r.S, r.t) => q = r)
    BY ReclaimFits
  <2>2. Holds(s, q.S, q.t, k)
    BY <2>1, FitsParts, ReclaimHolds
  <2>3. w = Promoted(q)
    BY <1>1, <1>3, <2>1 DEF BeginWritable
  <2>4. Holds(s, w.S, w.t, k) /\ (Ok(w) => Same(k, q, w) /\ Ok(q))
    BY <2>1, <2>2, <2>3, PromotedHolds, PromotedFits
  <2> QED
    BY <1>1, <2>1, <2>4
<1> QED
  BY <1>2, <1>3

LEMMA EnsureTxnHolds ==
    ASSUME StoreReady, NEW s, NEW O, NEW r, Fits(O, r), NEW k, Holds(s, r.S, r.t, k),
           Times(db, stamp, clock)
    PROVE  LET e == EnsureTxn(r)
           IN  Holds(s, e.S, e.t, k) /\ (Ok(e) => e.t.mode # "none")
<1>1. PICK q : /\ q = Reclaim(r) /\ Fits(O, q) /\ (Ok(q) => Kept(q.S, q.t))
               /\ Holds(s, q.S, q.t, k)
  BY FitsParts, ReclaimFits, ReclaimHolds
<1>2. PICK e : e = EnsureTxn(r) /\ e = Opened(q)
  BY <1>1 DEF EnsureTxn
<1>3. CASE ~Ok(q) /\ e = q
  BY <1>1, <1>2, <1>3
<1>4. CASE q.t.mode # "none" /\ e = q
  BY <1>1, <1>2, <1>4
<1>5. CASE e = BeginWritable(q)
  <2>1. Ok(e) => e.t.mode = "rw"
    BY <1>1, <1>5, BeginWritableFits
  <2> QED
    BY <1>1, <1>2, <1>5, <2>1, BeginWritableHolds
<1>6. CASE Ok(q) /\ q.t.mode = "none" /\ e = Done(q.S, Begin(Isolation(q.S)))
  <2>1. PICK mode \in {"rw", "ro"} : mode = Isolation(q.S)
    BY DEF Isolation
  <2>2. Starts(s, Begin(mode), mode) /\ q.S \in Ses
    BY <1>1, <2>1, BeginStarts, FitsParts
  <2>3. e.S = q.S /\ e.t = Begin(mode)
    BY <1>6, <2>1 DEF Done
  <2>4. Upserted(q.S) = {} /\ ~q.S.joined
    BY <1>1, <1>6 DEF Kept, InFlight
  <2>5. k.begun => (mode = "ro" => q.S.unit = "ro")
    BY <1>1, <2>1 DEF Holds, Claims, Tiers, Isolation
  <2>6. Holds(s, e.S, e.t, k)
    BY <1>1, <2>1, <2>2, <2>3, <2>4, <2>5, StartHolds
  <2>7. e.t.mode # "none"
    BY <2>2, <2>3 DEF Starts
  <2> QED
    BY <1>2, <2>6, <2>7
<1> QED
  BY <1>1, <1>2, <1>3, <1>4, <1>5, <1>6 DEF Opened

(* The outbox entry of an attempt goes into its transaction.               *)
LEMMA JoinHolds ==
    ASSUME StoreReady, NEW s, NEW O, NEW r, Fits(O, r), NEW k, Holds(s, r.S, r.t, k),
           Times(db, stamp, clock), ~k.joins,
           NEW l, l.used = k.used, l.begun => k.begun, l.tag = k.tag, l.writes = k.writes,
           l.loads = {}, l.needs = {}
    PROVE  LET j == Join(r, k.tag)
           IN  /\ Ok(j) => Holds(s, j.S, j.t, l)
               /\ ~Ok(j) => Holds(s, j.S, j.t, k)
<1>1. PICK w : /\ w = BeginWritable(r) /\ Fits(O, w) /\ Holds(s, w.S, w.t, k)
               /\ Ok(w) => w.t.mode = "rw"
  BY BeginWritableFits, BeginWritableHolds
<1>2. w.S \in Ses /\ w.t \in Txn
  BY <1>1, FitsParts
<1>3. PICK j : j = Join(r, k.tag) /\ j = Joined(w, k.tag)
  BY <1>1 DEF Join
<1>4. PICK J : J = [w.S EXCEPT !.joined = TRUE]
  OBVIOUS
<1>5. /\ J.cached = w.S.cached /\ J.mem = w.S.mem /\ J.known = w.S.known /\ J.ups = w.S.ups
      /\ J.dirty = w.S.dirty /\ J.deleted = w.S.deleted /\ J.rem = w.S.rem
      /\ J.lost = w.S.lost /\ J.unit = w.S.unit /\ J.joined
  BY <1>2, <1>4 DEF Ses
<1>6. Alike(w.S, J)
  BY <1>5 DEF Alike
<1>7. CASE ~Ok(w) /\ j = w
  BY <1>1, <1>3, <1>7
<1>8. CASE Ok(w) /\ w.t.dead /\ j = Raise(J, NoTxn, "db")
  <2>1. j.S = J /\ j.t = NoTxn /\ ~Ok(j)
    BY <1>8 DEF Raise, Ok
  <2>2. Echoes(w.t, w.t)
    BY DEF Echoes
  <2>3. Holds(s, J, w.t, k)
    BY <1>1, <1>5, <1>6, <2>2, HoldsAlike
  <2> QED
    BY <1>3, <2>1, <2>3, HoldsNone
<1>9. CASE Ok(w) /\ ~w.t.dead /\ j = Done(J, [w.t EXCEPT !.out = @ \cup {k.tag}])
  <2>1. PICK u : u = [w.t EXCEPT !.out = @ \cup {k.tag}]
    OBVIOUS
  <2>2. /\ u.mode = w.t.mode /\ u.dead = w.t.dead /\ u.start = w.t.start
        /\ u.view = w.t.view /\ u.wrote = w.t.wrote /\ u.locked = w.t.locked
        /\ u.out = w.t.out \cup {k.tag}
    BY <1>2, <2>1 DEF Txn
  <2>3. j.S = J /\ j.t = u /\ Ok(j)
    BY <1>9, <2>1 DEF Done, Ok
  <2>4. Echoes(w.t, u)
    BY <2>2 DEF Echoes
  <2>5. Holds(s, J, u, k)
    BY <1>1, <1>5, <1>6, <2>4, HoldsAlike
  <2>6. l.begun => Claims(outbox, J, u, l)
    BY <1>5, <2>2, <2>5 DEF Holds, Claims
  <2> QED
    BY <1>3, <2>3, <2>5, <2>6 DEF Holds
<1> QED
  BY <1>3, <1>4, <1>7, <1>8, <1>9 DEF Joined

-----------------------------------------------------------------------------
(* Flushing                                                                *)

LEMMA NoneChanged ==
    ASSUME StoreReady, NEW t \in Txn, NEW U \in SUBSET Ids, Times(db, stamp, clock),
           ~UpsertFails(t, U)
    PROVE  \A id \in U : /\ Target(t, id) = t.view[id]
                         /\ id \notin t.wrote => stamp[id] <= t.start
<1>1. ASSUME NEW id \in U, ChangedSince(t, id) PROVE FALSE
  <2>1. stamp[id] \in Nat /\ t.start \in Nat /\ id \in Ids
    BY DEF Times, StoreReady, Txn
  <2>2. stamp[id] > 0
    BY <1>1, <2>1 DEF ChangedSince
  <2>3. Present(db[id])
    BY <2>1, <2>2 DEF Times
  <2> QED
    BY <1>1, <2>3 DEF UpsertFails
<1>2. ASSUME NEW id \in U, id \notin t.wrote PROVE stamp[id] <= t.start
  <2>1. stamp[id] \in Nat /\ t.start \in Nat
    BY DEF Times, StoreReady, Txn
  <2> QED
    BY <1>1, <1>2, <2>1 DEF ChangedSince
<1> QED
  BY <1>1, <1>2 DEF Target

(* A row that lands is later than the committed one and drops nothing of   *)
(* it: the version check of the upsert and the ledger's version together.  *)
LEMMA LandsNewer ==
    ASSUME StoreReady, NEW s, NEW S \in Ses, NEW t \in Txn, NEW used, NEW id \in Ids,
           id \in S.cached, S.rem = {}, Live(t), t.mode = "rw",
           Knows(db, S, id), Mine(db, s, S, t, used, id), Sees(db, stamp, S, t, id),
           id \notin t.wrote => stamp[id] <= t.start,
           Target(t, id) = t.view[id], Lands(t, id, RowOf(S, id))
    PROVE  LET l == Landed(t, id, RowOf(S, id))
           IN  l.val = S.mem[id] /\ Newer(l, db[id])
<1>1. PICK v, d, c : v = t.view[id] /\ d = db[id] /\ c = Current(S, id)
  OBVIOUS
<1>2. v \in Row /\ d \in Row /\ S.known[id] \in Row /\ S.ups[id] \in Row
  BY <1>1 DEF Txn, StoreReady, Ses
<1>3. c = IF Present(S.ups[id]) THEN S.ups[id] ELSE S.known[id]
  BY <1>1 DEF Current
<1>4. PICK n : n = IF Present(c) THEN c.ver ELSE 0
  OBVIOUS
<1>5. PICK w : w = RowOf(S, id)
  OBVIOUS
<1>6. w.ver = n /\ w.val = S.mem[id] /\ w = [ver |-> n, val |-> S.mem[id]] /\ n \in Nat
  <2>1. w = [ver |-> n, val |-> S.mem[id]]
    BY <1>1, <1>4, <1>5 DEF RowOf, WriteVersion
  <2>2. n \in Nat
    BY <1>2, <1>3, <1>4, Versions
  <2> QED
    BY <2>1, <2>2
<1>7. PICK l : l = Landed(t, id, w)
  OBVIOUS
<1>8. /\ l.val = S.mem[id] /\ Present(l)
      /\ l.ver = IF Present(v) THEN n + 1 ELSE n
  <2>1. l = IF Present(v) THEN [w EXCEPT !.ver = @ + 1] ELSE w
    BY <1>1, <1>7 DEF Landed
  <2> QED
    BY <1>6, <2>1 DEF Present
<1>9. Present(v) => v.ver = n
  BY <1>1, <1>5, <1>6 DEF Lands
<1>10. ASSUME Present(d) PROVE d.ver < l.ver /\ d.val \subseteq S.mem[id]
  <2>1. d.ver \in Nat
    BY <1>2, <1>10, Versions
  <2>2. CASE id \in t.wrote
    <3>1. Newer(v, d)
      BY <1>1, <2>2 DEF Sees
    <3>2. Present(v) /\ d.ver < n
      BY <1>9, <1>10, <3>1 DEF Newer
    <3>3. d.ver < l.ver
      BY <1>6, <1>8, <2>1, <3>2
    <3>4. CASE Present(S.ups[id])
      <4>1. Newer(S.ups[id], d) /\ S.ups[id].val \subseteq S.mem[id]
        BY <1>1, <3>4 DEF Sees
      <4> QED
        BY <1>10, <3>3, <4>1 DEF Newer
    <3>5. CASE ~Present(S.ups[id]) /\ Present(S.known[id])
      <4>1. S.known[id].ver <= d.ver
        BY <1>1, <3>5 DEF Knows, Older
      <4>2. n = S.known[id].ver
        BY <1>3, <1>4, <3>5
      <4> QED
        BY <1>6, <2>1, <3>2, <4>1, <4>2
    <3>6. CASE ~Present(S.ups[id]) /\ ~Present(S.known[id])
      <4>1. n = 0
        BY <1>3, <1>4, <3>6
      <4> QED
        BY <2>1, <3>2, <4>1
    <3> QED
      BY <3>4, <3>5, <3>6
  <2>3. CASE id \notin t.wrote
    <3>1. v = d
      BY <1>1, <2>3 DEF Sees
    <3>2. d.ver = n /\ d.ver < l.ver
      BY <1>6, <1>8, <1>9, <1>10, <3>1
    <3>3. ~Present(S.ups[id])
      BY <2>3 DEF Sees
    <3>4. CASE Present(S.known[id])
      <4>1. S.known[id].ver = d.ver
        BY <1>3, <1>4, <3>2, <3>3, <3>4
      <4>2. S.known[id] = d
        BY <1>1, <3>4, <4>1 DEF Knows, Older
      <4>3. d.val \subseteq S.mem[id]
        BY <3>4, <4>2 DEF Knows
      <4> QED
        BY <3>2, <4>3
    <3>5. CASE ~Present(S.known[id])
      <4>1. d.ver = 0
        BY <1>3, <1>4, <3>2, <3>3, <3>5
      <4> QED
        BY <1>1, <1>10, <3>2, <3>5, <4>1 DEF Mine
    <3> QED
      BY <3>4, <3>5
  <2> QED
    BY <2>2, <2>3
<1>11. Newer(l, d)
  BY <1>8, <1>10 DEF Newer
<1> QED
  BY <1>1, <1>5, <1>7, <1>8, <1>11

LEMMA UpsertMore ==
    ASSUME NEW S \in Ses, NEW t \in Txn, NEW U \in SUBSET Ids
    PROVE  LET T == Upsert(t, Rows(S), U)
           IN  /\ T.start = t.start /\ T.out = t.out /\ T.locked = t.locked \cup U
               /\ \A id \in Landing(t, Rows(S), U) : T.view[id] = Landed(t, id, RowOf(S, id))
<1>1. PICK G : G = Landing(t, Rows(S), U)
  OBVIOUS
<1>2. PICK T : T = Upsert(t, Rows(S), U)
  OBVIOUS
<1>3. /\ T.start = t.start /\ T.out = t.out /\ T.locked = t.locked \cup U
      /\ T.view = [id \in Ids |-> IF id \in G THEN Landed(t, id, Rows(S)[id]) ELSE t.view[id]]
  BY <1>1, <1>2 DEF Upsert, Landing, Txn
<1>4. \A id \in G : id \in Ids /\ Rows(S)[id] = RowOf(S, id)
  BY <1>1 DEF Landing, Rows
<1> QED
  BY <1>1, <1>2, <1>3, <1>4

(* The rows that landed: the session that takes R's ledger for its own,    *)
(* with some of them upserted, is as sound as before.                      *)
LEMMA LandedHolds ==
    ASSUME StoreReady, NEW s, NEW S \in Ses, NEW t \in Txn, NEW k, Holds(s, S, t, k),
           Times(db, stamp, clock), Live(t), t.mode = "rw",
           NEW U \in SUBSET Ids, U \subseteq S.cached,
           ~UpsertFails(t, U), ~Blocked(s, U),
           NEW R, R.cached = S.cached, R.mem = S.mem, R.known = S.known,
           R.deleted = {}, R.rem = {},
           \A id \in Ids : \/ R.ups[id] = S.ups[id]
                           \/ /\ id \in Landing(t, Rows(S), U)
                              /\ R.ups[id] = Upsert(t, Rows(S), U).view[id]
    PROVE  Grounded(s, R, Upsert(t, Rows(S), U), k.used)
<1>1. PICK G : G = Landing(t, Rows(S), U)
  OBVIOUS
<1>2. PICK T : /\ T = Upsert(t, Rows(S), U) /\ Took(t, T, Rows(S), G)
               /\ T.start = t.start /\ T.out = t.out /\ T.locked = t.locked \cup U
               /\ \A id \in G : T.view[id] = Landed(t, id, RowOf(S, id))
  BY <1>1, UpsertFacts, UpsertMore
<1>3. Live(T) /\ T.mode = "rw" /\ T.wrote = t.wrote \cup G
  BY <1>2 DEF Took, Live
<1>4. Parted(txn, s, T)
  <2>1. \A o \in Sessions \ {s} : txn[o].locked \cap U = {}
    BY DEF Blocked
  <2> QED
    BY <1>2, <2>1 DEF Holds, Grounded, Parted
<1>5. S.rem = {}
  BY DEF Holds, Grounded, Sound
<1>6. ASSUME NEW id \in G
      PROVE  /\ id \in Ids /\ id \in U /\ id \in S.cached
             /\ T.view[id].val = S.mem[id] /\ Newer(T.view[id], db[id])
  <2>1. id \in U /\ id \in Ids /\ Lands(t, id, RowOf(S, id))
    BY <1>1, <1>6 DEF Landing, Rows
  <2>2. Target(t, id) = t.view[id] /\ (id \notin t.wrote => stamp[id] <= t.start)
    BY <2>1, NoneChanged
  <2>3. /\ Knows(db, S, id) /\ Mine(db, s, S, t, k.used, id) /\ Sees(db, stamp, S, t, id)
    BY <2>1 DEF Holds, Grounded, Sound
  <2> QED
    BY <1>2, <1>5, <2>1, <2>2, <2>3, LandsNewer
<1>7. ASSUME NEW id \in Ids
      PROVE  /\ Knows(db, R, id) /\ Mine(db, s, R, T, k.used, id)
             /\ Sees(db, stamp, R, T, id)
  <2>1. /\ Knows(db, S, id) /\ Mine(db, s, S, t, k.used, id) /\ Sees(db, stamp, S, t, id)
    BY DEF Holds, Grounded, Sound
  <2>2. CASE id \in G
    <3>1. /\ id \in U /\ id \in S.cached
          /\ T.view[id].val = S.mem[id] /\ Newer(T.view[id], db[id])
      BY <1>6, <2>2
    <3>2. R.ups[id] = S.ups[id] \/ R.ups[id] = T.view[id]
      BY <1>2
    <3>3. Present(T.view[id]) /\ id \in T.wrote /\ id \in T.locked
      BY <1>2, <1>3, <2>2, <3>1 DEF Newer
    <3>4. Knows(db, R, id)
      BY <2>1, <3>1 DEF Knows
    <3>5. S.known[id].val \subseteq S.mem[id] \/ ~Present(S.known[id])
      BY <2>1, <3>1 DEF Knows
    <3>6. Sees(db, stamp, R, T, id)
      BY <2>1, <3>1, <3>2, <3>3, <3>5 DEF Sees
    <3>7. ~Present(S.known[id]) => id \in Mint[s]
      BY <2>1, <3>1 DEF Mine
    <3>8. ~Present(db[id]) => ~Present(S.known[id])
      BY <2>1 DEF Knows, Older
    <3>9. Mine(db, s, R, T, k.used, id)
      BY <2>1, <3>1, <3>7, <3>8 DEF Mine
    <3> QED
      BY <3>4, <3>6, <3>9
  <2>3. CASE id \notin G
    <3>1. /\ R.ups[id] = S.ups[id] /\ T.view[id] = t.view[id]
          /\ (id \in T.wrote <=> id \in t.wrote) /\ (id \in t.locked => id \in T.locked)
      BY <1>1, <1>2, <1>3, <2>3 DEF Took
    <3>2. Knows(db, R, id)
      BY <2>1, <3>1 DEF Knows
    <3>3. Sees(db, stamp, R, T, id)
      BY <1>2, <2>1, <3>1 DEF Sees
    <3>4. Mine(db, s, R, T, k.used, id)
      BY <1>3, <2>1, <3>1 DEF Mine
    <3> QED
      BY <3>2, <3>3, <3>4
  <2> QED
    BY <2>2, <2>3
<1>8. T.start <= clock
  BY <1>2 DEF Holds, Grounded, Sound
<1> QED
  BY <1>2, <1>3, <1>4, <1>7, <1>8 DEF Grounded, Sound

(* What is read again is as the attempt wrote it, dirty or not.            *)
Firm(S, k) == \A id \in k.loads : ~Present(Current(S, id)) \/ k.tag \in Current(S, id).val

LEMMA LockTimeoutHolds ==
    ASSUME NEW s, NEW S \in Ses, NEW t, NEW k, Holds(s, S, t, k), NEW W
    PROVE  LET r == LockTimeout(S, W)
           IN  ~Ok(r) /\ Holds(s, r.S, r.t, k)
<1>1. PICK r : r = LockTimeout(S, W)
  OBVIOUS
<1>2. ~Ok(r) /\ r.t = NoTxn /\ (r.S = S \/ r.S = [S EXCEPT !.conflict = W])
  BY <1>1 DEF LockTimeout, Raise, Ok
<1>3. /\ r.S.cached = S.cached /\ r.S.mem = S.mem /\ r.S.known = S.known /\ r.S.ups = S.ups
      /\ r.S.dirty = S.dirty /\ r.S.deleted = S.deleted /\ r.S.rem = S.rem
      /\ r.S.lost = S.lost /\ r.S.joined = S.joined /\ r.S.unit = S.unit
  BY <1>2 DEF Ses
<1>4. Alike(S, r.S) /\ Echoes(t, t)
  BY <1>3 DEF Alike, Echoes
<1>5. Holds(s, r.S, t, k)
  BY <1>3, <1>4, HoldsAlike
<1> QED
  BY <1>1, <1>2, <1>5, HoldsNone

LEMMA FlushRowsHolds ==
    ASSUME StoreReady, NEW s, NEW O, NEW r, Fits(O, r), NEW k, Holds(s, r.S, r.t, k),
           Times(db, stamp, clock), NEW U \in SUBSET Ids, U \subseteq r.S.cached,
           r.S.dirty \cap r.S.cached \subseteq U,
           Ok(r) /\ U # {} => r.t.mode = "rw"
    PROVE  LET f == FlushRows(s, r, U)
           IN  /\ Holds(s, f.S, f.t, k)
               /\ Ok(f) => /\ f.t.mode = r.t.mode
                           /\ k.begun => Firm(f.S, k)
<1>1. r.S \in Ses /\ r.t \in Txn
  BY FitsParts
<1>2. PICK f : f = FlushRows(s, r, U)
  OBVIOUS
<1>3. ASSUME k.begun, NEW id \in k.loads
      PROVE  /\ id \in Ids /\ id \in r.S.cached /\ k.tag \in r.S.mem[id]
             /\ \/ id \in U \/ ~Present(Current(r.S, id)) \/ k.tag \in Current(r.S, id).val
  <2>1. Claims(outbox, r.S, r.t, k)
    BY <1>3 DEF Holds
  <2>2. id \in k.writes /\ id \in Ids /\ id \in r.S.cached /\ k.tag \in r.S.mem[id]
    BY <2>1 DEF Claims
  <2>3. id \in r.S.dirty \/ ~Present(Current(r.S, id)) \/ k.tag \in Current(r.S, id).val
    BY <2>1 DEF Claims
  <2> QED
    BY <2>2, <2>3
<1>4. CASE (~Ok(r) \/ U = {}) /\ f = r
  <2>1. k.begun /\ U = {} => Firm(r.S, k)
    BY <1>3 DEF Firm
  <2> QED
    BY <1>2, <1>4, <2>1
<1>5. CASE f = Raise(r.S, NoTxn, "db")
  <2>1. f.S = r.S /\ f.t = NoTxn /\ ~Ok(f)
    BY <1>5 DEF Raise, Ok
  <2> QED
    BY <1>2, <2>1, HoldsNone
<1>6. CASE f = LockTimeout(r.S, U)
  BY <1>1, <1>2, <1>6, LockTimeoutHolds
<1>7. PICK T : T = Upsert(r.t, Rows(r.S), U)
  OBVIOUS
<1>8. PICK G : /\ G = Landing(r.t, Rows(r.S), U) /\ Took(r.t, T, Rows(r.S), G)
               /\ T.start = r.t.start /\ T.out = r.t.out
  BY <1>1, <1>7, UpsertFacts, UpsertMore
<1>9. T.mode = r.t.mode /\ Live(T) = Live(r.t)
  BY <1>8 DEF Took, Live
<1>10. ASSUME Ok(r), U # {}, ~r.t.dead, ~Blocked(s, U), ~UpsertFails(r.t, U), NEW c,
              f = Raise([r.S EXCEPT !.conflict = c], T, "conflict")
       PROVE  Holds(s, f.S, f.t, k) /\ ~Ok(f)
  <2>1. PICK R : R = [r.S EXCEPT !.conflict = c]
    OBVIOUS
  <2>2. /\ R.cached = r.S.cached /\ R.mem = r.S.mem /\ R.known = r.S.known /\ R.ups = r.S.ups
        /\ R.dirty = r.S.dirty /\ R.deleted = r.S.deleted /\ R.rem = r.S.rem
        /\ R.lost = r.S.lost /\ R.joined = r.S.joined /\ R.unit = r.S.unit
    BY <1>1, <2>1 DEF Ses
  <2>3. R.deleted = {} /\ R.rem = {} /\ Live(r.t) /\ r.t.mode = "rw"
    BY <1>10, <2>2 DEF Holds, Grounded, Sound, Live
  <2>4. Grounded(s, R, T, k.used)
    BY <1>1, <1>7, <1>10, <2>2, <2>3, LandedHolds
  <2>5. ASSUME k.begun PROVE Claims(outbox, R, T, k)
    <3>1. \A id \in Ids : Current(R, id) = Current(r.S, id)
      BY <2>2 DEF Current
    <3>2. Claims(outbox, r.S, r.t, k)
      BY <2>5 DEF Holds
    <3> QED
      BY <1>8, <1>9, <2>2, <3>1, <3>2 DEF Claims, Tiers
  <2>6. f.S = R /\ f.t = T /\ ~Ok(f)
    BY <1>10, <2>1 DEF Raise, Ok
  <2> QED
    BY <2>4, <2>5, <2>6 DEF Holds
<1>11. ASSUME Ok(r), U # {}, ~r.t.dead, ~Blocked(s, U), ~UpsertFails(r.t, U),
              Stale(r.S, r.t, U) = {}, f = Done(Written(r.S, T, U), T)
       PROVE  Holds(s, f.S, f.t, k) /\ f.t.mode = r.t.mode /\ (k.begun => Firm(f.S, k))
  <2>1. PICK R : R = Written(r.S, T, U)
    OBVIOUS
  <2>2. /\ R.cached = r.S.cached /\ R.mem = r.S.mem /\ R.known = r.S.known
        /\ R.dirty = r.S.dirty /\ R.deleted = r.S.deleted /\ R.rem = r.S.rem \ U
        /\ R.lost = r.S.lost /\ R.joined = r.S.joined /\ R.unit = r.S.unit
        /\ R.ups = [id \in Ids |-> IF id \in U THEN T.view[id] ELSE r.S.ups[id]]
    BY <1>1, <2>1 DEF Written, Ses
  <2>3. R.deleted = {} /\ R.rem = {} /\ r.S.rem = {} /\ Live(r.t) /\ r.t.mode = "rw"
    BY <1>11, <2>2 DEF Holds, Grounded, Sound, Live
  <2>4. G = U
    <3>1. \A id \in U : Rows(r.S)[id] = RowOf(r.S, id)
      BY DEF Rows
    <3> QED
      BY <1>8, <1>11, <3>1 DEF Stale, Landing
  <2>5. Grounded(s, R, T, k.used)
    <3>1. \A id \in Ids : R.ups[id] = r.S.ups[id] \/ (id \in G /\ R.ups[id] = T.view[id])
      BY <2>2, <2>4
    <3> QED
      BY <1>1, <1>7, <1>8, <1>11, <2>2, <2>3, <3>1, LandedHolds
  <2>6. \A id \in U : Current(R, id) = T.view[id] /\ T.view[id].val = r.S.mem[id]
    <3>1. \A id \in U : Present(T.view[id]) /\ T.view[id].val = r.S.mem[id]
      BY <1>1, <1>8, <2>4, RowValue DEF Took
    <3> QED
      BY <2>2, <2>3, <3>1 DEF Current
  <2>7. \A id \in Ids \ U : Current(R, id) = Current(r.S, id)
    BY <2>2, <2>3 DEF Current
  <2>8. k.begun => Firm(R, k)
    BY <1>3, <2>6, <2>7 DEF Firm
  <2>9. ASSUME k.begun PROVE Claims(outbox, R, T, k)
    <3>1. Claims(outbox, r.S, r.t, k)
      BY <2>9 DEF Holds
    <3> QED
      BY <1>8, <1>9, <2>2, <2>8, <2>9, <3>1 DEF Claims, Tiers, Firm
  <2>10. f.S = R /\ f.t = T
    BY <1>11, <2>1 DEF Done
  <2> QED
    BY <1>9, <2>5, <2>8, <2>9, <2>10 DEF Holds
<1>12. \/ (~Ok(r) \/ U = {}) /\ f = r
       \/ f = Raise(r.S, NoTxn, "db")
       \/ f = LockTimeout(r.S, U)
       \/ /\ Ok(r) /\ U # {} /\ ~r.t.dead /\ ~Blocked(s, U) /\ ~UpsertFails(r.t, U)
          /\ \/ \E c : f = Raise([r.S EXCEPT !.conflict = c], T, "conflict")
             \/ Stale(r.S, r.t, U) = {} /\ f = Done(Written(r.S, T, U), T)
  BY <1>2, <1>7 DEF FlushRows
<1> QED
  BY <1>2, <1>4, <1>5, <1>6, <1>10, <1>11, <1>12

LEMMA FlushHolds ==
    ASSUME StoreReady, NEW s, NEW O, NEW r, Fits(O, r), NEW k, Holds(s, r.S, r.t, k),
           Times(db, stamp, clock), NEW full \in BOOLEAN,
           ~full \/ k.begun \/ r.t.mode # "ro"
    PROVE  LET f == Flush(s, r, full)
           IN  /\ Holds(s, f.S, f.t, k)
               /\ Ok(f) /\ r.t.mode # "none" => f.t.mode # "none"
<1>1. PICK p : p = Flush(s, r, full)
  OBVIOUS
<1>2. PICK q : /\ q = Reclaim(r) /\ Fits(O, q) /\ (Ok(q) => Kept(q.S, q.t))
               /\ Holds(s, q.S, q.t, k) /\ q.t = r.t
  BY FitsParts, ReclaimFits, ReclaimHolds
<1>3. CASE ~Ok(q)
  <2>1. p = q
    BY <1>1, <1>2, <1>3 DEF Flush, FlushLocked
  <2> QED
    BY <1>1, <1>2, <2>1
<1>4. CASE Ok(q)
  <2>1. PICK U \in SUBSET Ids : U = Unflushed(q.S, full)
    BY <1>2, FitsParts DEF Unflushed, Ses
  <2>2. q.S.deleted = {}
    BY <1>2 DEF Holds, Grounded, Sound
  <2>3. PICK w : w = Writable(q, U)
    OBVIOUS
  <2>4. /\ Fits(O, w) /\ Holds(s, w.S, w.t, k)
        /\ Ok(w) => /\ Lifted(q.S, w.S) /\ Same(k, q, w)
                    /\ U # {} => w.t.mode = "rw"
                    /\ r.t.mode # "none" => w.t.mode # "none"
    <3>1. CASE U \cup q.S.deleted = {}
      <4>1. w = q
        BY <2>3, <3>1 DEF Writable
      <4> QED
        BY <1>2, <3>1, <4>1 DEF Lifted, Same
    <3>2. CASE U \cup q.S.deleted # {}
      <4>1. w = BeginWritable(q)
        BY <1>4, <2>3, <3>2 DEF Writable
      <4>2. Fits(O, w) /\ (Ok(w) => w.t.mode = "rw" /\ Lifted(q.S, w.S))
        BY <1>2, <1>4, <4>1, BeginWritableFits
      <4> QED
        BY <1>2, <1>4, <4>1, <4>2, BeginWritableHolds
    <3> QED
      BY <3>1, <3>2
  <2>5. PICK f : f = FlushRows(s, w, U)
    OBVIOUS
  <2>6. PICK d : d = FlushDeletes(s, f)
    OBVIOUS
  <2>7. p = Flushed(d)
    BY <1>1, <1>2, <1>4, <2>1, <2>3, <2>5, <2>6 DEF Flush, FlushLocked, FlushThe
  <2>8. CASE ~Ok(w)
    <3>1. f = w /\ d = w /\ p = w
      BY <2>5, <2>6, <2>7, <2>8 DEF FlushRows, FlushDeletes, Flushed
    <3> QED
      BY <1>1, <2>4, <2>8, <3>1
  <2>9. CASE Ok(w)
    <3>1. U \subseteq q.S.cached /\ q.S.dirty \cap q.S.cached \subseteq U
          /\ (~full => U = q.S.dirty \cap q.S.cached)
      BY <2>1 DEF Unflushed
    <3>2. U \subseteq w.S.cached /\ w.S.dirty \cap w.S.cached \subseteq U
      <4>1. w.S.dirty \cap w.S.cached = q.S.dirty \cap q.S.cached
        BY <2>4, <2>9 DEF Lifted
      <4>2. w.S = q.S \/ ~full
        BY <1>2, <2>4, <2>9 DEF Same
      <4> QED
        BY <3>1, <4>1, <4>2
    <3>3. /\ Holds(s, f.S, f.t, k)
          /\ Ok(f) => /\ f.t.mode = w.t.mode
                      /\ k.begun => Firm(f.S, k)
      BY <2>4, <2>5, <2>9, <3>2, FlushRowsHolds
    <3>4. f.S \in Ses
      BY <2>4, <2>5, FitsParts, FlushRowsFrom, FromParts
    <3>5. d = f
      <4>1. f.S.deleted = {}
        BY <3>3 DEF Holds, Grounded, Sound
      <4> QED
        BY <2>6, <4>1 DEF FlushDeletes
    <3>6. CASE ~Ok(f)
      <4>1. p = f
        BY <2>7, <3>5, <3>6 DEF Flushed
      <4> QED
        BY <1>1, <3>3, <3>6, <4>1
    <3>7. CASE Ok(f)
      <4>1. PICK C : C = [f.S EXCEPT !.dirty = {}]
        OBVIOUS
      <4>2. p.S = C /\ p.t = f.t
        BY <2>7, <3>5, <3>7, <4>1 DEF Flushed, Done
      <4>3. /\ C.cached = f.S.cached /\ C.mem = f.S.mem /\ C.known = f.S.known
            /\ C.ups = f.S.ups /\ C.deleted = f.S.deleted /\ C.rem = f.S.rem
            /\ C.lost = f.S.lost /\ C.joined = f.S.joined /\ C.unit = f.S.unit
        BY <3>4, <4>1 DEF Ses
      <4>4. \A id \in Ids : Current(C, id) = Current(f.S, id)
        BY <4>3 DEF Current
      <4>5. Grounded(s, C, f.t, k.used)
        <5>1. ASSUME NEW id \in Ids
              PROVE  /\ Knows(db, C, id) /\ Mine(db, s, C, f.t, k.used, id)
                     /\ Live(f.t) => Sees(db, stamp, C, f.t, id)
          <6>1. /\ Knows(db, f.S, id) /\ Mine(db, s, f.S, f.t, k.used, id)
                /\ Live(f.t) => Sees(db, stamp, f.S, f.t, id)
            BY <3>3 DEF Holds, Grounded, Sound
          <6> QED
            BY <4>3, <6>1 DEF Knows, Mine, Sees
        <5> QED
          BY <3>3, <4>3, <5>1 DEF Holds, Grounded, Sound
      <4>6. ASSUME k.begun PROVE Claims(outbox, C, f.t, k)
        <5>1. Claims(outbox, f.S, f.t, k) /\ Firm(f.S, k)
          BY <3>3, <3>7, <4>6 DEF Holds
        <5>2. \A id \in k.loads : Current(C, id) = Current(f.S, id)
          BY <4>4, <5>1 DEF Claims
        <5> QED
          BY <4>3, <5>1, <5>2 DEF Claims, Tiers, Firm
      <4> QED
        BY <1>1, <2>4, <2>9, <3>3, <3>7, <4>2, <4>5, <4>6 DEF Holds
    <3> QED
      BY <3>6, <3>7
  <2> QED
    BY <2>8, <2>9
<1> QED
  BY <1>3, <1>4

LEMMA ReadBarrierHolds ==
    ASSUME StoreReady, NEW s, NEW S \in Ses, NEW t \in Txn, Apart(S), Agrees(S, t), Idle(t),
           NEW k, Holds(s, S, t, k), Times(db, stamp, clock)
    PROVE  LET r == ReadBarrier(s, Done(S, t))
           IN  Holds(s, r.S, r.t, k) /\ r.S \in Ses /\ (Ok(r) => r.t.mode # "none")
<1>1. Fits(S, Done(S, t)) /\ Done(S, t).S = S /\ Done(S, t).t = t
  BY FitsSelf DEF Done
<1>2. PICK e : /\ e = EnsureTxn(Done(S, t)) /\ Fits(S, e) /\ Holds(s, e.S, e.t, k)
               /\ Ok(e) => e.t.mode # "none"
  BY <1>1, EnsureTxnFits, EnsureTxnHolds
<1>a. PICK full \in BOOLEAN : full = FALSE
  OBVIOUS
<1>3. PICK r : r = ReadBarrier(s, Done(S, t)) /\ r = Flush(s, e, full) /\ ~full
  BY <1>2, <1>a DEF ReadBarrier
<1>4. /\ Holds(s, r.S, r.t, k)
      /\ Ok(r) /\ e.t.mode # "none" => r.t.mode # "none"
  BY <1>2, <1>3, FlushHolds
<1>5. Ok(r) => Ok(e)
  <2>1. ~Ok(e) => Reclaim(e) = e /\ r = e
    BY <1>3 DEF Reclaim, Flush, FlushLocked
  <2> QED
    BY <2>1
<1>6. r.S \in Ses
  BY <1>2, <1>3, FitsParts, FlushFrom, FromParts
<1> QED
  BY <1>2, <1>3, <1>4, <1>5, <1>6

-----------------------------------------------------------------------------
(* Reading and changing anchors                                            *)

(* What is missing of an attempt's own writes has expired, so the ledger   *)
(* has it as the attempt wrote it.                                         *)
LEMMA MissingHolds ==
    ASSUME NEW s, NEW S, NEW t, NEW k, Holds(s, S, t, k), NEW L,
           NEW l, l.used = k.used, l.begun => k.begun, l.tag = k.tag, l.joins = k.joins,
           l.writes = k.writes, l.loads \subseteq k.writes \cap Missing(S, L),
           l.needs \subseteq L \ Missing(S, L)
    PROVE  Holds(s, S, t, l)
<1>1. ASSUME l.begun PROVE Claims(outbox, S, t, l)
  <2>1. Claims(outbox, S, t, k) /\ S.deleted = {}
    BY <1>1 DEF Holds, Grounded, Sound
  <2>2. ASSUME NEW id \in l.loads
        PROVE  ~Present(Current(S, id)) \/ l.tag \in Current(S, id).val
    <3>1. id \in k.writes /\ ~Hit(S, id)
      BY <2>2 DEF Missing
    <3>2. id \in S.cached /\ k.tag \in S.mem[id]
      BY <2>1, <3>1 DEF Claims
    <3> QED
      BY <3>1, <3>2 DEF Hit, Expired
  <2>3. l.needs \subseteq S.cached
    BY <2>1 DEF Missing, Hit
  <2> QED
    BY <2>1, <2>2, <2>3 DEF Claims
<1> QED
  BY <1>1 DEF Holds

(* Reading rows again keeps what the attempt wrote; the rows that are there*)
(* are in the cache then.                                                  *)
LEMMA MaterializeHolds ==
    ASSUME StoreReady, NEW s, NEW S \in Ses, NEW t \in Txn, NEW k, Holds(s, S, t, k),
           Agrees(S, t), Live(t), NEW L \in SUBSET Ids, \A id \in L : Present(t.view[id]),
           k.begun => k.writes \cap L \subseteq k.loads,
           NEW l, l.used = k.used, l.begun => k.begun, l.tag = k.tag, l.joins = k.joins,
           l.writes = k.writes, l.loads = {}, l.needs = {}
    PROVE  LET M == Materialize(S, t, L)
           IN  Holds(s, M, t, l) /\ M.cached = S.cached \cup L
<1>1. PICK keep : keep = {id \in L \cap S.cached :
                            \/ id \in S.dirty
                            \/ ~Present(Current(S, id))
                            \/ Current(S, id).ver = t.view[id].ver}
  OBVIOUS
<1>2. PICK new : new = L \ keep
  OBVIOUS
<1>3. PICK M : M = Materialize(S, t, L)
  OBVIOUS
<1>4. /\ M.cached = S.cached \cup new
      /\ M.mem = [id \in Ids |-> IF id \in new THEN t.view[id].val ELSE S.mem[id]]
      /\ M.ups = [id \in Ids |-> IF id \in new /\ Present(S.ups[id]) THEN t.view[id]
                                                                     ELSE S.ups[id]]
      /\ M.known = [id \in Ids |-> IF id \in new /\ ~Present(S.ups[id]) THEN t.view[id]
                                                                        ELSE S.known[id]]
      /\ M.dirty = S.dirty /\ M.deleted = S.deleted /\ M.rem = S.rem
      /\ M.lost = S.lost /\ M.joined = S.joined /\ M.unit = S.unit
  BY <1>1, <1>2, <1>3 DEF Materialize, Ses
<1>5. M.cached = S.cached \cup L
  BY <1>1, <1>2, <1>4
<1>6. S.rem = {} /\ S.deleted = {}
  BY DEF Holds, Grounded, Sound
<1>7. ASSUME NEW id \in new
      PROVE  /\ id \in Ids /\ Present(t.view[id]) /\ ~Present(S.ups[id])
             /\ id \notin t.wrote
             /\ id \in S.cached => id \notin S.dirty /\ Present(S.known[id])
  <2>1. id \in L /\ id \in Ids /\ id \notin keep
    BY <1>2
  <2>2. id \in S.cached => /\ id \notin S.dirty /\ Present(Current(S, id))
                           /\ Current(S, id).ver # t.view[id].ver
    BY <1>1, <2>1
  <2>3. /\ t.wrote \subseteq Upserted(S) \cup S.rem \cup Pending(S)
        /\ \A i \in Upserted(S) : t.view[i] = S.ups[i] \/ i \in Pending(S)
    BY DEF Agrees, AgreesBut, Live
  <2>4. id \notin Pending(S)
    BY <1>6, <2>2 DEF Pending
  <2>5. ~Present(S.ups[id])
    <3> SUFFICES ASSUME Present(S.ups[id]) PROVE FALSE
      OBVIOUS
    <3>1. id \in S.cached
      BY <2>1 DEF Holds, Grounded, Sound, Knows
    <3>2. t.view[id] = S.ups[id]
      BY <2>1, <2>3, <2>4 DEF Upserted
    <3> QED
      BY <1>6, <2>2, <3>1, <3>2 DEF Current
  <2>6. id \notin t.wrote
    BY <1>6, <2>3, <2>4, <2>5 DEF Upserted
  <2> QED
    BY <1>6, <2>1, <2>2, <2>5, <2>6 DEF Current
<1>8. ASSUME NEW id \in Ids
      PROVE  /\ Knows(db, M, id) /\ Mine(db, s, M, t, k.used, id)
             /\ Sees(db, stamp, M, t, id)
  <2>1. /\ Knows(db, S, id) /\ Mine(db, s, S, t, k.used, id) /\ Sees(db, stamp, S, t, id)
    BY DEF Holds, Grounded, Sound
  <2>2. CASE id \in new
    <3>1. /\ Present(t.view[id]) /\ ~Present(S.ups[id]) /\ id \notin t.wrote
          /\ M.known[id] = t.view[id] /\ M.ups[id] = S.ups[id]
          /\ M.mem[id] = t.view[id].val
      BY <1>4, <1>7, <2>2
    <3>2. Older(t.view[id], db[id])
      BY <2>1, <3>1 DEF Sees
    <3>3. Knows(db, M, id)
      BY <3>1, <3>2 DEF Knows
    <3>4. Sees(db, stamp, M, t, id)
      BY <2>1, <3>1 DEF Sees
    <3>5. Mine(db, s, M, t, k.used, id)
      BY <2>1, <3>1, <3>2 DEF Mine, Older
    <3> QED
      BY <3>3, <3>4, <3>5
  <2>3. CASE id \notin new
    <3>1. /\ M.known[id] = S.known[id] /\ M.ups[id] = S.ups[id] /\ M.mem[id] = S.mem[id]
          /\ (id \in M.cached <=> id \in S.cached)
      BY <1>4, <2>3
    <3> QED
      BY <2>1, <3>1 DEF Knows, Mine, Sees
  <2> QED
    BY <2>2, <2>3
<1>9. Grounded(s, M, t, k.used)
  BY <1>4, <1>6, <1>8 DEF Holds, Grounded, Sound
<1>10. ASSUME l.begun PROVE Claims(outbox, M, t, l)
  <2>1. Claims(outbox, S, t, k)
    BY <1>10 DEF Holds
  <2>2. ASSUME NEW id \in l.writes PROVE id \in M.cached /\ l.tag \in M.mem[id]
    <3>1. id \in Ids /\ id \in S.cached /\ l.tag \in S.mem[id]
      BY <2>1, <2>2 DEF Claims
    <3>2. CASE id \notin new
      BY <1>4, <3>1, <3>2
    <3>3. CASE id \in new
      <4>1. id \in k.loads
        BY <1>2, <1>10, <2>2, <3>3
      <4>2. id \notin S.dirty /\ ~Present(S.ups[id]) /\ Present(S.known[id])
        BY <1>7, <3>1, <3>3
      <4>3. Current(S, id) = S.known[id]
        BY <1>6, <4>2 DEF Current
      <4>4. l.tag \in S.known[id].val
        BY <2>1, <4>1, <4>2, <4>3 DEF Claims
      <4>5. S.known[id].val \subseteq t.view[id].val
        BY <3>1, <4>2 DEF Holds, Grounded, Sound, Sees
      <4> QED
        BY <1>4, <3>1, <3>3, <4>4, <4>5
    <3> QED
      BY <3>2, <3>3
  <2> QED
    BY <1>4, <2>1, <2>2 DEF Claims, Tiers
<1> QED
  BY <1>3, <1>5, <1>9, <1>10 DEF Holds

LEMMA LoadFullHolds ==
    ASSUME StoreReady, NEW s, NEW S \in Ses, NEW t \in Txn, NEW k, Holds(s, S, t, k),
           Agrees(S, t), NEW L \in SUBSET Ids, t.mode # "none",
           k.begun => k.writes \cap L \subseteq k.loads,
           NEW l, l.used = k.used, l.begun => k.begun, l.tag = k.tag, l.joins = k.joins,
           l.writes = k.writes, l.loads = {}, l.needs = {}
    PROVE  LET r == LoadFull(Done(S, t), L)
           IN  /\ Ok(r) => /\ Holds(s, r.S, r.t, l)
                           /\ S.cached \cup (L \cap Seeded) \subseteq r.S.cached
               /\ ~Ok(r) => Holds(s, r.S, r.t, k)
<1>1. PICK r : r = LoadFull(Done(S, t), L)
  OBVIOUS
<1>2. CASE t.dead
  <2>1. r = Raise(S, NoTxn, "db")
    BY <1>1, <1>2 DEF LoadFull, Done, Ok
  <2>2. r.S = S /\ r.t = NoTxn /\ ~Ok(r)
    BY <2>1 DEF Raise, Ok
  <2> QED
    BY <1>1, <2>2, HoldsNone
<1>3. CASE ~t.dead
  <2>1. PICK G \in SUBSET Ids : G = {id \in L : Present(t.view[id])}
    OBVIOUS
  <2>2. PICK M : M = Materialize(S, t, G)
    OBVIOUS
  <2>3. PICK u : u = Reading(t, L)
    OBVIOUS
  <2>4. r = Done(M, u)
    BY <1>1, <1>3, <2>1, <2>2, <2>3 DEF LoadFull, Done, Ok
  <2>5. r.S = M /\ r.t = u /\ Ok(r)
    BY <2>4 DEF Done, Ok
  <2>6. Live(t)
    BY <1>3 DEF Live
  <2>7. Holds(s, M, t, l) /\ M.cached = S.cached \cup G
    <3>1. /\ \A id \in G : Present(t.view[id])
          /\ k.begun => k.writes \cap G \subseteq k.loads
      BY <2>1
    <3>2. /\ Holds(s, Materialize(S, t, G), t, l)
          /\ Materialize(S, t, G).cached = S.cached \cup G
      BY <2>6, <3>1, MaterializeHolds
    <3> QED
      BY <2>2, <3>2
  <2>8. Echoes(t, u)
    BY <2>3 DEF Reading, Txn, Echoes
  <2>9. Alike(M, M)
    BY DEF Alike
  <2>10. Holds(s, M, u, l)
    BY <2>7, <2>8, <2>9, HoldsAlike
  <2>11. L \cap Seeded \subseteq G
    BY <2>1, <2>6 DEF Holds, Grounded, Sound, Sees
  <2> QED
    BY <1>1, <2>5, <2>7, <2>10, <2>11
<1> QED
  BY <1>2, <1>3

(* One more anchor of the cache written.                                   *)
LEMMA HoldsMore ==
    ASSUME NEW s, NEW S, NEW t, NEW k, Holds(s, S, t, k), NEW id \in Ids,
           id \in S.cached, k.tag \in S.mem[id],
           NEW l, l.used = k.used, l.begun => k.begun, l.tag = k.tag, l.joins = k.joins,
           l.writes \subseteq k.writes \cup {id}, l.loads = {}, l.needs = {}
    PROVE  Holds(s, S, t, l)
BY DEF Holds, Claims

LEMMA WriteHolds ==
    ASSUME NEW s, NEW S \in Ses, NEW t, NEW k, Holds(s, S, t, k), NEW id \in Ids,
           id \in S.cached,
           NEW l, l.used = k.used, l.begun => k.begun, l.tag = k.tag, l.joins = k.joins,
           l.writes \subseteq k.writes \cup {id}, l.loads = {}, l.needs = {}
    PROVE  /\ Holds(s, Write(S, id, k.tag), t, l)
           /\ Holds(s, Mutate(S, id, k.tag), t, l)
<1>1. Echoes(t, t)
  BY DEF Echoes
<1>2. ASSUME NEW R, R.cached = S.cached, R.known = S.known, R.ups = S.ups,
             R.rem = S.rem, R.deleted = S.deleted, R.joined = S.joined,
             R.lost = S.lost, R.unit = S.unit, S.dirty \subseteq R.dirty,
             R.mem = [S.mem EXCEPT ![id] = @ \cup {k.tag}]
      PROVE  Holds(s, R, t, l)
  <2>1. S.mem \in [Ids -> SUBSET Tags]
    BY DEF Ses
  <2>2. \A i \in Ids : S.mem[i] \subseteq R.mem[i]
    BY <1>2, <2>1
  <2>3. k.tag \in R.mem[id]
    BY <1>2, <2>1
  <2>4. Alike(S, R)
    BY <1>2, <2>2 DEF Alike
  <2>5. Holds(s, R, t, k)
    BY <1>1, <1>2, <2>4, HoldsAlike
  <2> QED
    BY <1>2, <2>3, <2>5, HoldsMore
<1>3. Holds(s, Write(S, id, k.tag), t, l)
  <2>1. PICK R : R = Write(S, id, k.tag)
    OBVIOUS
  <2>2. /\ R.cached = S.cached /\ R.known = S.known /\ R.ups = S.ups
        /\ R.rem = S.rem /\ R.deleted = S.deleted /\ R.joined = S.joined
        /\ R.lost = S.lost /\ R.unit = S.unit /\ S.dirty \subseteq R.dirty
        /\ R.mem = [S.mem EXCEPT ![id] = @ \cup {k.tag}]
    BY <2>1 DEF Write, Ses
  <2> QED
    BY <1>2, <2>1, <2>2
<1>4. Holds(s, Mutate(S, id, k.tag), t, l)
  <2>1. PICK R : R = Mutate(S, id, k.tag)
    OBVIOUS
  <2>2. /\ R.cached = S.cached /\ R.known = S.known /\ R.ups = S.ups
        /\ R.rem = S.rem /\ R.deleted = S.deleted /\ R.joined = S.joined
        /\ R.lost = S.lost /\ R.unit = S.unit /\ S.dirty \subseteq R.dirty
        /\ R.mem = [S.mem EXCEPT ![id] = @ \cup {k.tag}]
    BY <2>1 DEF Mutate, Ses
  <2> QED
    BY <1>2, <2>1, <2>2
<1> QED
  BY <1>3, <1>4

(* An anchor the session constructs, under an id it has not used.          *)
LEMMA PutHolds ==
    ASSUME NEW s, NEW S \in Ses, NEW t, NEW k, Holds(s, S, t, k), NEW id \in Ids,
           id \in Mint[s] \ k.used,
           NEW l, l.used = k.used \cup {id}, l.begun => k.begun, l.tag = k.tag,
           l.joins = k.joins, l.writes \subseteq k.writes \cup {id},
           l.loads = {}, l.needs = {}
    PROVE  LET P == Put(S, id, k.tag)
           IN  Holds(s, P, t, l) /\ P.cached = S.cached \cup {id}
<1>1. PICK P : P = Put(S, id, k.tag)
  OBVIOUS
<1>2. /\ P.cached = S.cached \cup {id} /\ P.known = S.known /\ P.ups = S.ups
      /\ P.rem = S.rem /\ P.deleted = S.deleted \ {id} /\ P.joined = S.joined
      /\ P.lost = S.lost /\ P.unit = S.unit /\ S.dirty \subseteq P.dirty
      /\ P.mem = [S.mem EXCEPT ![id] = {k.tag}] /\ S.mem \in [Ids -> SUBSET Tags]
  BY <1>1 DEF Put, Ses
<1>3. P.mem[id] = {k.tag} /\ \A i \in Ids \ {id} : P.mem[i] = S.mem[i]
  BY <1>2
<1>4. ASSUME NEW i \in Ids
      PROVE  /\ Knows(db, P, i) /\ Mine(db, s, P, t, l.used, i)
             /\ Live(t) => Sees(db, stamp, P, t, i)
  <2>1. /\ Knows(db, S, i) /\ Mine(db, s, S, t, k.used, i)
        /\ Live(t) => Sees(db, stamp, S, t, i)
    BY DEF Holds, Grounded, Sound
  <2>2. CASE i = id
    <3>1. ~Present(db[i]) /\ i \notin S.cached /\ (Live(t) => i \notin t.wrote)
      BY <2>1, <2>2 DEF Mine
    <3>2. ~Present(S.ups[i]) /\ ~Present(S.known[i])
      BY <2>1, <3>1 DEF Knows, Older
    <3>3. Knows(db, P, i)
      BY <1>2, <2>1, <3>2 DEF Knows
    <3>4. Mine(db, s, P, t, l.used, i)
      BY <1>2, <2>1, <2>2, <3>1, <3>2 DEF Mine
    <3>5. Live(t) => Sees(db, stamp, P, t, i)
      BY <1>2, <2>1, <3>2 DEF Sees
    <3> QED
      BY <3>3, <3>4, <3>5
  <2>3. CASE i # id
    <3>1. /\ P.mem[i] = S.mem[i] /\ (i \in P.cached <=> i \in S.cached)
          /\ P.known = S.known /\ P.ups = S.ups
      BY <1>2, <1>3, <2>3
    <3>2. Knows(db, P, i)
      BY <2>1, <3>1 DEF Knows
    <3>3. Mine(db, s, P, t, l.used, i)
      BY <2>1, <3>1 DEF Mine
    <3>4. Live(t) => Sees(db, stamp, P, t, i)
      BY <2>1, <3>1 DEF Sees
    <3> QED
      BY <3>2, <3>3, <3>4
  <2> QED
    BY <2>2, <2>3
<1>5. Grounded(s, P, t, l.used)
  BY <1>2, <1>4 DEF Holds, Grounded, Sound
<1>6. ASSUME l.begun PROVE Claims(outbox, P, t, l)
  <2>1. Claims(outbox, S, t, k)
    BY <1>6 DEF Holds
  <2>2. ASSUME NEW i \in l.writes PROVE i \in P.cached /\ l.tag \in P.mem[i]
    BY <1>2, <1>3, <2>1, <2>2 DEF Claims
  <2> QED
    BY <1>2, <2>1, <2>2 DEF Claims, Tiers
<1> QED
  BY <1>1, <1>2, <1>5, <1>6 DEF Holds

(* A session that has forgotten every anchor.                              *)
LEMMA ForgottenHolds ==
    ASSUME StoreReady, NEW s, NEW S \in Ses, NEW t, NEW k, Holds(s, S, t, k),
           NEW A, A.cached = {}, A.deleted = {}, A.rem = {}, A.ups = NoRows,
           \A id \in Ids : A.known[id] \in {S.known[id], Absent},
           NEW l, l.used = k.used,
           l.begun => A.unit # "none" /\ ~l.joins /\ l.writes = {} /\ l.loads = {}
                      /\ l.needs = {}
    PROVE  Holds(s, A, NoTxn, l)
<1>1. ASSUME NEW id \in Ids
      PROVE  Knows(db, A, id) /\ Mine(db, s, A, NoTxn, l.used, id)
  <2>1. Knows(db, S, id) /\ Mine(db, s, S, t, k.used, id)
    BY DEF Holds, Grounded, Sound
  <2>2. Older(A.known[id], db[id])
    BY <2>1, RowOrder DEF Knows, StoreReady, Ses
  <2>3. ~Present(A.ups[id])
    BY DEF NoRows, Present, Absent
  <2> QED
    BY <2>1, <2>2, <2>3, NoTxnDead DEF Knows, Mine
<1>2. Grounded(s, A, NoTxn, l.used)
  BY <1>1, NoTxnDead DEF Grounded, Sound, Parted
<1>3. l.begun => Claims(outbox, A, NoTxn, l)
  BY NoTxnDead DEF Claims, Tiers
<1> QED
  BY <1>2, <1>3 DEF Holds

LEMMA AbortHolds ==
    ASSUME StoreReady, NEW s, NEW S \in Ses, NEW t, NEW k, Holds(s, S, t, k),
           NEW l, l.used = k.used,
           l.begun => S.unit # "none" /\ ~l.joins /\ l.writes = {} /\ l.loads = {}
                      /\ l.needs = {}
    PROVE  Holds(s, Abort(S), NoTxn, l)
<1>1. PICK R : R = Rollback(S) /\ R \in Ses
  BY RollbackParts
<1>2. R.ups = NoRows /\ R.rem = {} /\ R.known = S.known /\ R.unit = S.unit
  BY <1>1 DEF Rollback, Ses
<1>3. PICK F : F = Forget(R, R.cached)
  OBVIOUS
<1>4. /\ F.cached = {} /\ F.ups = NoRows /\ F.rem = {} /\ F.unit = S.unit
      /\ F.known = [id \in Ids |-> IF id \in R.cached THEN Absent ELSE S.known[id]]
  BY <1>1, <1>2, <1>3 DEF Forget, Ses
<1>5. PICK A : A = Abort(S)
  OBVIOUS
<1>6. F \in Ses
  <2>1. R.cached \in SUBSET Ids
    BY <1>1 DEF Ses
  <2> QED
    BY <1>1, <1>3, <2>1, ForgetParts
<1>7. /\ A.cached = {} /\ A.ups = NoRows /\ A.rem = {} /\ A.deleted = {}
      /\ A.known = F.known /\ A.unit = S.unit
  BY <1>1, <1>3, <1>4, <1>5, <1>6 DEF Abort, Ses
<1>8. \A id \in Ids : A.known[id] \in {S.known[id], Absent}
  BY <1>4, <1>7
<1> QED
  BY <1>5, <1>7, <1>8, ForgottenHolds

(* Replaying keeps what the session knows; what it gives up at a failed    *)
(* COMMIT is the same.                                                     *)
LEMMA LostHolds ==
    ASSUME NEW s, NEW S \in Ses, NEW t, NEW k, Holds(s, S, t, k), NEW b \in BOOLEAN
    PROVE  Holds(s, [S EXCEPT !.lost = @ \/ b], t, k)
<1>1. PICK R : R = [S EXCEPT !.lost = @ \/ b]
  OBVIOUS
<1>2. /\ R.cached = S.cached /\ R.mem = S.mem /\ R.known = S.known /\ R.ups = S.ups
      /\ R.dirty = S.dirty /\ R.deleted = S.deleted /\ R.rem = S.rem
      /\ R.joined = S.joined /\ R.unit = S.unit
      /\ S.lost => R.lost
  BY <1>1 DEF Ses
<1>3. Alike(S, R) /\ Echoes(t, t)
  BY <1>2 DEF Alike, Echoes
<1> QED
  BY <1>1, <1>2, <1>3, HoldsAlike

LEMMA ReplayHolds ==
    ASSUME NEW s, NEW S \in Ses, NEW t, NEW k, Holds(s, S, t, k), NEW b \in BOOLEAN
    PROVE  LET r == Replay(S, b)
           IN  Holds(s, r.S, r.t, k) /\ r.t = NoTxn /\ r.S \in Ses
<1>1. PICK R \in Ses : R = Rollback(S)
  BY RollbackParts
<1>2. PICK L : L = [R EXCEPT !.lost = @ \/ b] /\ L \in Ses
  <2>1. PICK L : L = [R EXCEPT !.lost = @ \/ b]
    OBVIOUS
  <2>2. (R.lost \/ b) \in BOOLEAN
    OBVIOUS
  <2> QED
    BY <2>1, <2>2 DEF Ses
<1>3. Holds(s, L, NoTxn, k)
  BY <1>1, <1>2, RollbackHolds, LostHolds, HoldsNone
<1>4. PICK r : r = Replay(S, b)
  OBVIOUS
<1>5. r.S = L /\ r.t = NoTxn
  BY <1>1, <1>2, <1>4 DEF Replay, LostOr, Raise, Done
<1> QED
  BY <1>2, <1>3, <1>4, <1>5

-----------------------------------------------------------------------------
(* Requests                                                                *)

(* Request p claims what q did, or less.                                   *)
Follows(q, p) ==
    /\ p.used = q.used
    /\ Begun(p) => /\ Begun(q) /\ p.run = q.run /\ p.wset = q.wset
                   /\ p.enqueued = q.enqueued /\ p.op = q.op
                   /\ p.pc \in {"barrier", "load"} => q.pc \in {"barrier", "load"}

LEMMA FollowsHolds ==
    ASSUME NEW s, NEW S, NEW t, NEW q, NEW p, Holds(s, S, t, Claim(s, q)), Follows(q, p)
    PROVE  Holds(s, S, t, Claim(s, p))
<1>1. PICK k, l : k = Claim(s, q) /\ l = Claim(s, p)
  OBVIOUS
<1>2. l.used = k.used /\ (l.begun <=> Begun(p)) /\ (k.begun <=> Begun(q))
  BY <1>1 DEF Claim, Follows
<1>3. ASSUME Begun(p)
      PROVE  /\ l.tag = k.tag /\ l.joins = k.joins /\ l.writes = k.writes
             /\ l.loads \subseteq k.loads /\ l.needs \subseteq k.needs
  BY <1>1, <1>3 DEF Claim, Follows
<1>4. l.begun => k.begun
  BY <1>2 DEF Follows
<1> QED
  BY <1>1, <1>2, <1>3, <1>4, HoldsLess

(* ... and has been told no more than q.                                   *)
Heeds(q, p) ==
    /\ Running(p) /\ ~Begun(p) => p.wset = {} /\ ~p.enqueued
    /\ p.pc = "close" => p.answer # "none"
    /\ p.pc = "exit" \/ p.answer = "ok" =>
          /\ q.pc = "exit" \/ q.answer = "ok"
          /\ p.run = q.run /\ p.wset = q.wset /\ p.enqueued = q.enqueued
    /\ p.op.name # "delete"
    /\ p.op.name = "effect" => p.op.id = Root
    /\ p.pc \in {"turn", "pin"} => ~p.enqueued

(* An attempt that goes on.                                                *)
LEMMA OnHeeds ==
    ASSUME NEW d, NEW box, NEW s, NEW t, NEW q, NEW p, Told(d, box, s, t, q),
           p.op = q.op, p.answer = "none", NEW x,
           p.pc \in {"body", "flush", "commit", "caught", "handler", "effects", "reload"}
    PROVE  Heeds(x, p)
  BY DEF Told, Heeds, Running, Begun

LEMMA HeedsTold ==
    ASSUME NEW d, NEW box, NEW s, NEW t, NEW u, NEW q, NEW p,
           Told(d, box, s, t, q), Heeds(q, p),
           p.pc = "load" /\ p.op.load # {} => u.mode # "none"
    PROVE  Told(d, box, s, u, p)
  BY DEF Told, Heeds

-----------------------------------------------------------------------------
(* Steps                                                                   *)

LEMMA WritePrime ==
    WriteInv' <=>
        /\ Times(db', stamp', clock')
        /\ \A o \in Sessions :
              /\ Sound(db', stamp', clock', o, ses'[o], txn'[o], req'[o].used)
              /\ Parted(txn', o, txn'[o])
              /\ Begun(req'[o]) => Claims(outbox', ses'[o], txn'[o], Claim(o, req'[o]))
              /\ Told(db', outbox', o, txn'[o], req'[o])
  BY DEF WriteInv, Times, Holds, Grounded, Sound, Knows, Mine, Sees, Older, Newer, Live,
         Parted, Claims, Tiers, Claim, Begun, Running, Told, Current, Present, Absent

LEMMA WriteParts ==
    ASSUME TypeOK, LedgerInv, WriteInv, NEW s \in Sessions
    PROVE  /\ ses[s] \in Ses /\ txn[s] \in Txn /\ req[s] \in Req /\ StoreReady
           /\ Tag(s) \in Tags /\ Root \in Ids /\ {Root} \in SUBSET Ids
           /\ Apart(ses[s]) /\ Agrees(ses[s], txn[s]) /\ Idle(txn[s])
           /\ Stage(ses[s], txn[s], req[s])
           /\ Times(db, stamp, clock)
           /\ Holds(s, ses[s], txn[s], Claim(s, req[s]))
           /\ Told(db, outbox, s, txn[s], req[s])
  BY PartsLedger DEF WriteInv

LEMMA BecomesWrites ==
    ASSUME TypeOK, WriteInv, NEW s \in Sessions, NEW S, NEW t, NEW q,
           Becomes(s, S, t, q), KeepTables, Holds(s, S, t, Claim(s, q)),
           Told(db, outbox, s, t, q)
    PROVE  WriteInv'
<1>1. /\ ses' = [ses EXCEPT ![s] = S]
      /\ txn' = [txn EXCEPT ![s] = t]
      /\ req' = [req EXCEPT ![s] = q]
      /\ ses \in [Sessions -> Ses] /\ req \in [Sessions -> Req] /\ txn \in [Sessions -> Txn]
      /\ db' = db /\ outbox' = outbox /\ clock' = clock /\ stamp' = stamp
  BY DEF Becomes, KeepTables, TypeOK, StoreTypeOK
<1>2. \A p : Claim(s, p).used = p.used /\ (Claim(s, p).begun <=> Begun(p))
  BY DEF Claim
<1>3. Times(db', stamp', clock')
  BY <1>1 DEF WriteInv
<1>4. ASSUME NEW o \in Sessions
      PROVE  /\ Sound(db', stamp', clock', o, ses'[o], txn'[o], req'[o].used)
             /\ Parted(txn', o, txn'[o])
             /\ Begun(req'[o]) => Claims(outbox', ses'[o], txn'[o], Claim(o, req'[o]))
             /\ Told(db', outbox', o, txn'[o], req'[o])
  <2>1. CASE o = s
    <3>1. ses'[o] = S /\ txn'[o] = t /\ req'[o] = q
      BY <1>1, <2>1
    <3>2. Parted(txn', s, t)
      BY <1>1 DEF Holds, Grounded, Parted
    <3> QED
      BY <1>1, <1>2, <2>1, <3>1, <3>2 DEF Holds, Grounded
  <2>2. CASE o # s
    <3>1. ses'[o] = ses[o] /\ txn'[o] = txn[o] /\ req'[o] = req[o]
      BY <1>1, <2>2
    <3>2. /\ Holds(o, ses[o], txn[o], Claim(o, req[o]))
          /\ Told(db, outbox, o, txn[o], req[o])
      BY DEF WriteInv
    <3>3. Parted(txn', o, txn[o])
      <4>1. Parted(txn, o, txn[o]) /\ Parted(txn, s, t)
        BY <3>2 DEF Holds, Grounded
      <4>2. ASSUME NEW p \in Sessions \ {o} PROVE txn'[p].locked \cap txn[o].locked = {}
        BY <1>1, <2>2, <4>1 DEF Parted
      <4> QED
        BY <4>2 DEF Parted
    <3>4. Claim(o, req[o]).used = req[o].used /\ (Claim(o, req[o]).begun <=> Begun(req[o]))
      BY DEF Claim
    <3> QED
      BY <1>1, <3>1, <3>2, <3>3, <3>4 DEF Holds, Grounded
  <2> QED
    BY <2>1, <2>2
<1> QED
  BY <1>3, <1>4, WritePrime

LEMMA StepWrites ==
    ASSUME TypeOK, WriteInv, NEW s \in Sessions, NEW S, NEW t, NEW q,
           Step(s, S, t, q), Holds(s, S, t, Claim(s, q)), Told(db, outbox, s, t, q)
    PROVE  WriteInv'
  BY BecomesWrites DEF Step

(* A step that changes nothing of what these claims are about.             *)
LEMMA FollowsWrites ==
    ASSUME TypeOK, WriteInv, NEW s \in Sessions, NEW S, NEW t, NEW q, NEW u, NEW p,
           Becomes(s, S, t, p), KeepTables, Holds(s, S, t, Claim(s, q)),
           Told(db, outbox, s, u, q), Follows(q, p), Heeds(q, p),
           p.pc # "load"
    PROVE  WriteInv'
  BY BecomesWrites, FollowsHolds, HeedsTold

-----------------------------------------------------------------------------
(* COMMIT                                                                  *)

(* The committed rows e have become later versions of the rows d.          *)
Grown(d, e) == \A id \in Ids : e[id] = d[id] \/ Newer(e[id], d[id])

LEMMA CommitGrows ==
    ASSUME TypeOK, LedgerInv, WriteInv, NEW s \in Sessions, CommitTxn(s), ~txn[s].dead
    PROVE  /\ \A id \in Ids : db'[id] = IF id \in txn[s].wrote THEN txn[s].view[id]
                                                              ELSE db[id]
           /\ txn[s].wrote # {} => txn[s].mode = "rw"
           /\ txn[s].wrote \subseteq txn[s].locked
           /\ Grown(db, db') /\ db' \in [Ids -> Row]
           /\ Times(db', stamp', clock')
           /\ outbox' = outbox \cup txn[s].out
<1>1. /\ txn[s] \in Txn /\ Idle(txn[s]) /\ StoreReady /\ Times(db, stamp, clock)
      /\ Holds(s, ses[s], txn[s], Claim(s, req[s]))
  BY WriteParts
<1>2. PICK t \in Txn : t = txn[s]
  BY <1>1
<1>3. db' = [id \in Ids |-> IF id \in t.wrote THEN t.view[id] ELSE db[id]]
      /\ outbox' = outbox \cup t.out
  BY <1>2 DEF CommitTxn
<1>4. t.wrote # {} => Live(t) /\ t.mode = "rw"
  <2>1. t.mode = "none" => t.wrote = {}
    BY <1>1, <1>2, NoTxnParts DEF Idle
  <2>2. t.mode # "none" => Live(t)
    BY <1>2 DEF Live
  <2>3. Live(t) /\ t.mode = "ro" => t.wrote = {}
    BY <1>1, <1>2 DEF Holds, Grounded, Sound
  <2>4. t.mode \in {"none", "rw", "ro"}
    BY DEF Txn
  <2> QED
    BY <2>1, <2>2, <2>3, <2>4
<1>5. \A id \in t.wrote : id \in Ids /\ id \in t.locked /\ Newer(t.view[id], db[id])
  <2>1. t.wrote \subseteq Ids
    BY DEF Txn
  <2> QED
    BY <1>1, <1>2, <1>4, <2>1 DEF Holds, Grounded, Sound, Sees
<1>6. Grown(db, db')
  BY <1>3, <1>5 DEF Grown
<1>7. db' \in [Ids -> Row]
  <2>1. t.view \in [Ids -> Row] /\ db \in [Ids -> Row]
    BY <1>1 DEF StoreReady, Txn
  <2> QED
    BY <1>3, <2>1
<1>8. ASSUME NEW id \in Ids PROVE Present(db[id]) => Present(db'[id])
  BY <1>6 DEF Grown, Newer
<1>9. Times(db', stamp', clock')
  <2>1. clock \in Nat
    BY <1>1 DEF StoreReady
  <2>2. CASE Alone(s)
    <3>1. clock' = 0 /\ stamp' = [id \in Ids |-> 0]
      BY <2>2 DEF CommitTxn
    <3> QED
      BY <1>1, <1>8, <3>1 DEF Times
  <2>3. CASE ~Alone(s) /\ t.mode = "rw"
    <3>1. clock' = clock + 1
          /\ stamp' = [id \in Ids |-> IF id \in t.wrote THEN clock + 1 ELSE stamp[id]]
      BY <1>2, <2>3 DEF CommitTxn
    <3>2. ASSUME NEW id \in Ids
          PROVE  stamp'[id] \in 0 .. clock + 1
                 /\ (stamp'[id] > 0 \/ id \in Seeded => Present(db'[id]))
      <4>1. CASE id \in t.wrote
        <5>1. stamp'[id] = clock + 1 /\ Present(db'[id])
          BY <1>3, <1>5, <3>1, <4>1 DEF Newer
        <5> QED
          BY <2>1, <5>1
      <4>2. CASE id \notin t.wrote
        <5>1. stamp'[id] = stamp[id] /\ stamp[id] \in 0 .. clock
              /\ (stamp[id] > 0 \/ id \in Seeded => Present(db[id]))
          BY <1>1, <3>1, <4>2 DEF Times
        <5> QED
          BY <1>8, <2>1, <5>1
      <4> QED
        BY <4>1, <4>2
    <3> QED
      BY <3>1, <3>2 DEF Times
  <2>4. CASE ~Alone(s) /\ t.mode # "rw"
    <3>1. clock' = clock /\ stamp' = stamp
      BY <1>2, <2>4 DEF CommitTxn
    <3> QED
      BY <1>1, <1>8, <3>1 DEF Times
  <2> QED
    BY <2>2, <2>3, <2>4
<1> QED
  BY <1>2, <1>3, <1>4, <1>5, <1>6, <1>7, <1>9

(* To the others a commit brings later versions of rows they do not write. *)
LEMMA CommitOthers ==
    ASSUME TypeOK, LedgerInv, WriteInv, NEW s \in Sessions, CommitTxn(s), ~txn[s].dead,
           NEW o \in Sessions, o # s
    PROVE  /\ Sound(db', stamp', clock', o, ses[o], txn[o], req[o].used)
           /\ Begun(req[o]) => Claims(outbox', ses[o], txn[o], Claim(o, req[o]))
           /\ Told(db', outbox', o, txn[o], req[o])
<1>1. /\ ses[o] \in Ses /\ txn[o] \in Txn /\ req[o] \in Req /\ StoreReady
      /\ Holds(o, ses[o], txn[o], Claim(o, req[o])) /\ Told(db, outbox, o, txn[o], req[o])
      /\ Holds(s, ses[s], txn[s], Claim(s, req[s])) /\ txn[s] \in Txn
      /\ Claim(o, req[o]).used = req[o].used
      /\ (Claim(o, req[o]).begun <=> Begun(req[o]))
  BY WriteParts DEF Claim
<1>2. PICK S \in Ses, t \in Txn, used \in SUBSET Ids :
        S = ses[o] /\ t = txn[o] /\ used = req[o].used
  <2>1. req[o].used \in SUBSET Ids
    BY WriteParts DEF Req
  <2> QED
    BY <1>1, <2>1
<1>3. Sound(db, stamp, clock, o, S, t, used)
  BY <1>1, <1>2 DEF Holds, Grounded
<1>4. PICK w \in Txn : w = txn[s]
  BY <1>1
<1>5. /\ \A id \in Ids : db'[id] = IF id \in w.wrote THEN w.view[id] ELSE db[id]
      /\ w.wrote # {} => w.mode = "rw"
      /\ w.wrote \subseteq w.locked
      /\ Grown(db, db') /\ db' \in [Ids -> Row]
      /\ outbox \subseteq outbox'
  BY <1>4, CommitGrows
<1>6. w.locked \cap t.locked = {}
  BY <1>1, <1>2, <1>4 DEF Holds, Grounded, Parted
<1>7. t.mode = "rw" => /\ clock \in Nat /\ clock' \in {clock, clock + 1}
                       /\ \A id \in Ids : stamp'[id] = IF id \in w.wrote THEN clock + 1
                                                                         ELSE stamp[id]
  <2>1. t.mode = "rw" => ~Alone(s)
    BY <1>2 DEF Alone
  <2>2. clock \in Nat
    BY <1>1 DEF StoreReady
  <2>3. CASE ~Alone(s) /\ w.mode = "rw"
    BY <1>4, <2>2, <2>3 DEF CommitTxn
  <2>4. CASE ~Alone(s) /\ w.mode # "rw"
    <3>1. w.wrote = {} /\ stamp' = stamp /\ clock' = clock
      BY <1>4, <1>5, <2>4 DEF CommitTxn
    <3> QED
      BY <2>2, <3>1
  <2> QED
    BY <2>1, <2>3, <2>4
<1>8. ASSUME NEW id \in Ids
      PROVE  /\ Knows(db', S, id) /\ Mine(db', o, S, t, used, id)
             /\ Live(t) => Sees(db', stamp', S, t, id)
  <2>1. /\ Knows(db, S, id) /\ Mine(db, o, S, t, used, id)
        /\ Live(t) => Sees(db, stamp, S, t, id)
    BY <1>3 DEF Sound
  <2>2. /\ db[id] \in Row /\ db'[id] \in Row /\ S.known[id] \in Row /\ t.view[id] \in Row
        /\ db'[id] = db[id] \/ Newer(db'[id], db[id])
    BY <1>1, <1>5 DEF StoreReady, Ses, Txn, Grown
  <2>3. Knows(db', S, id)
    BY <2>1, <2>2, RowOrder DEF Knows
  <2>4. ~Present(db[id]) /\ Present(db'[id]) => id \in Mint[s]
    <3>1. ~Present(db[id]) /\ Present(db'[id]) => id \in w.wrote
      BY <1>5
    <3>2. w.wrote # {} => Live(w)
      BY <1>4, <1>5 DEF Live
    <3> QED
      BY <1>1, <1>4, <3>1, <3>2 DEF Holds, Grounded, Sound, Mine
  <2>5. Mint[s] \cap Mint[o] = {}
    BY RequestAssumption
  <2>6. Mine(db', o, S, t, used, id)
    <3>1. ~Present(db'[id]) => ~Present(db[id])
      BY <2>2 DEF Newer
    <3>2. Present(db'[id]) /\ db'[id].ver = 0 /\ id \in Mint[o] => db'[id] = db[id]
      <4>1. Present(db[id]) => db[id].ver \in Nat
        BY <2>2, Versions
      <4>2. Present(db[id]) /\ Newer(db'[id], db[id]) => db[id].ver < db'[id].ver
        BY DEF Newer
      <4> QED
        BY <2>2, <2>4, <2>5, <4>1, <4>2
    <3>3. id \in Mint[o] /\ ~Present(db[id]) => ~Present(db'[id])
      BY <2>4, <2>5
    <3> QED
      BY <2>1, <3>1, <3>2, <3>3 DEF Mine
  <2>7. ASSUME Live(t) PROVE Sees(db', stamp', S, t, id)
    <3>1. CASE id \in t.wrote
      <4>1. db'[id] = db[id]
        BY <1>5, <1>6, <2>1, <2>7, <3>1 DEF Sees
      <4> QED
        BY <2>1, <2>7, <3>1, <4>1 DEF Sees
    <3>2. CASE id \notin t.wrote
      <4>1. Older(t.view[id], db'[id])
        BY <2>1, <2>2, <2>7, <3>2, RowOrder DEF Sees
      <4>2. t.mode = "rw" /\ stamp'[id] <= t.start => t.view[id] = db'[id]
        <5>1. t.mode = "rw" => t.start <= clock /\ t.start \in Nat
          BY <1>3, <2>7 DEF Sound, Txn
        <5>2. t.mode = "rw" /\ stamp'[id] <= t.start => id \notin w.wrote /\ stamp'[id] = stamp[id]
          BY <1>7, <5>1
        <5> QED
          BY <1>5, <2>1, <2>7, <3>2, <5>2 DEF Sees
      <4> QED
        BY <2>1, <2>7, <3>2, <4>1, <4>2 DEF Sees
    <3> QED
      BY <3>1, <3>2
  <2> QED
    BY <2>3, <2>6, <2>7
<1>9. Live(t) => (t.mode = "ro" => t.wrote = {}) /\ (t.mode = "rw" => t.start <= clock')
  <2>1. Live(t) /\ t.mode = "rw" => t.start <= clock /\ t.start \in Nat
    BY <1>3 DEF Sound, Txn
  <2> QED
    BY <1>3, <1>7, <2>1 DEF Sound
<1>10. Sound(db', stamp', clock', o, S, t, used)
  BY <1>3, <1>8, <1>9 DEF Sound
<1>11. Begun(req[o]) => Claims(outbox', S, t, Claim(o, req[o]))
  BY <1>1, <1>2, <1>5 DEF Holds, Claims
<1>12. Told(db', outbox', o, t, req[o])
  <2>1. \A id \in req[o].wset : id \in Ids
    BY <1>1 DEF Req
  <2>2. \A id \in Ids : db[id].val \subseteq db'[id].val
    BY <1>1, <1>5, RowOrder DEF Grown, StoreReady
  <2> QED
    BY <1>1, <1>2, <1>5, <2>1, <2>2 DEF Told
<1> QED
  BY <1>2, <1>10, <1>11, <1>12

(* The session that sent the COMMIT knows the rows it wrote, if it was     *)
(* answered, or what it knew before.                                       *)
LEMMA CommitOwn ==
    ASSUME TypeOK, LedgerInv, WriteInv, NEW s \in Sessions, CommitTxn(s), ~txn[s].dead,
           NEW R, R.cached = ses[s].cached, R.mem = ses[s].mem, R.ups = NoRows,
           R.rem = {}, R.deleted = {},
           \/ R.known = ses[s].known
           \/ /\ Exact(ses[s], txn[s]) /\ Kept(ses[s], txn[s])
              /\ \A id \in Ids : R.known[id] = Current(ses[s], id)
    PROVE  Sound(db', stamp', clock', s, R, NoTxn, req[s].used)
<1>1. /\ ses[s] \in Ses /\ txn[s] \in Txn /\ StoreReady
      /\ Holds(s, ses[s], txn[s], Claim(s, req[s])) /\ Claim(s, req[s]).used = req[s].used
      /\ Agrees(ses[s], txn[s]) /\ Idle(txn[s])
  BY WriteParts DEF Claim
<1>2. PICK S \in Ses, t \in Txn, used \in SUBSET Ids :
        S = ses[s] /\ t = txn[s] /\ used = req[s].used
  <2>1. req[s].used \in SUBSET Ids
    BY WriteParts DEF Req
  <2> QED
    BY <1>1, <2>1
<1>3. Sound(db, stamp, clock, s, S, t, used)
  BY <1>1, <1>2 DEF Holds, Grounded
<1>4. /\ \A id \in Ids : db'[id] = IF id \in t.wrote THEN t.view[id] ELSE db[id]
      /\ t.wrote # {} => Live(t)
      /\ Grown(db, db') /\ db' \in [Ids -> Row]
  BY <1>2, CommitGrows DEF Live
<1>5. ASSUME NEW id \in Ids
      PROVE  Knows(db', R, id) /\ Mine(db', s, R, NoTxn, used, id)
  <2>1. /\ Knows(db, S, id) /\ Mine(db, s, S, t, used, id)
        /\ Live(t) => Sees(db, stamp, S, t, id)
    BY <1>3 DEF Sound
  <2>2. /\ db[id] \in Row /\ db'[id] \in Row /\ S.known[id] \in Row
        /\ db'[id] = db[id] \/ Newer(db'[id], db[id])
    BY <1>1, <1>4 DEF StoreReady, Ses, Grown
  <2>3. \/ R.known[id] = S.known[id]
        \/ Present(S.ups[id]) /\ R.known[id] = S.ups[id] /\ Exact(S, t) /\ Kept(S, t)
    BY <1>2, <1>3 DEF Current, Sound
  <2>4. ~Present(R.ups[id])
    BY DEF NoRows, Present, Absent
  <2>5. Older(S.known[id], db'[id])
    BY <2>1, <2>2, RowOrder DEF Knows
  <2>6. CASE R.known[id] = S.known[id]
    <3>1. Knows(db', R, id)
      BY <1>2, <2>1, <2>4, <2>5, <2>6 DEF Knows
    <3>2. Present(db'[id]) /\ db'[id].ver = 0 /\ id \in S.cached /\ ~Present(S.known[id])
             => db'[id].val \subseteq S.mem[id]
      BY <1>4, <2>1 DEF Mine
    <3>3. id \in Mint[s] \ used => ~Present(db'[id]) /\ id \notin S.cached
      BY <1>4, <2>1 DEF Mine
    <3>4. Mine(db', s, R, NoTxn, used, id)
      BY <1>2, <2>1, <2>6, <3>2, <3>3, NoTxnDead DEF Mine
    <3> QED
      BY <3>1, <3>4
  <2>7. CASE R.known[id] # S.known[id]
    <3>1. id \in Upserted(S) /\ R.known[id] = S.ups[id] /\ Present(S.ups[id])
      BY <2>3, <2>7 DEF Upserted
    <3>2. t.mode # "none" /\ Live(t)
      BY <1>2, <2>3, <2>7, <3>1 DEF Live, Kept, InFlight
    <3>3. t.view[id] = S.ups[id]
      BY <1>2, <2>3, <2>7, <3>1, <3>2 DEF Exact, AgreesBut, Live
    <3>4. id \in t.wrote /\ S.ups[id].val \subseteq S.mem[id]
      BY <2>1, <3>1, <3>2 DEF Sees
    <3>5. db'[id] = R.known[id]
      BY <1>4, <3>1, <3>3, <3>4
    <3>6. Knows(db', R, id)
      BY <1>2, <2>2, <2>4, <3>1, <3>4, <3>5, RowOrder DEF Knows
    <3>7. id \in Mint[s] \ used => id \notin t.wrote
      BY <2>1, <3>2 DEF Mine
    <3>8. Mine(db', s, R, NoTxn, used, id)
      BY <1>2, <3>1, <3>4, <3>7, NoTxnDead DEF Mine
    <3> QED
      BY <3>6, <3>8
  <2> QED
    BY <2>6, <2>7
<1>6. Sound(db', stamp', clock', s, R, NoTxn, used)
  BY <1>5, NoTxnDead DEF Sound
<1> QED
  BY <1>2, <1>6

LEMMA CommitWrites ==
    ASSUME TypeOK, LedgerInv, WriteInv, NEW s \in Sessions, CommitTxn(s), ~txn[s].dead,
           NEW R, NEW q, Becomes(s, R, NoTxn, q), q.used = req[s].used,
           Sound(db', stamp', clock', s, R, NoTxn, q.used),
           Begun(q) => Claims(outbox', R, NoTxn, Claim(s, q)),
           Told(db', outbox', s, NoTxn, q)
    PROVE  WriteInv'
<1>1. /\ ses' = [ses EXCEPT ![s] = R]
      /\ txn' = [txn EXCEPT ![s] = NoTxn]
      /\ req' = [req EXCEPT ![s] = q]
      /\ ses \in [Sessions -> Ses] /\ req \in [Sessions -> Req] /\ txn \in [Sessions -> Txn]
  BY DEF Becomes, TypeOK, StoreTypeOK
<1>2. Times(db', stamp', clock')
  BY CommitGrows
<1>3. ASSUME NEW o \in Sessions
      PROVE  /\ Sound(db', stamp', clock', o, ses'[o], txn'[o], req'[o].used)
             /\ Parted(txn', o, txn'[o])
             /\ Begun(req'[o]) => Claims(outbox', ses'[o], txn'[o], Claim(o, req'[o]))
             /\ Told(db', outbox', o, txn'[o], req'[o])
  <2>1. CASE o = s
    <3>1. ses'[o] = R /\ txn'[o] = NoTxn /\ req'[o] = q
      BY <1>1, <2>1
    <3>2. Parted(txn', s, NoTxn)
      BY NoTxnDead DEF Parted
    <3> QED
      BY <2>1, <3>1, <3>2
  <2>2. CASE o # s
    <3>1. ses'[o] = ses[o] /\ txn'[o] = txn[o] /\ req'[o] = req[o]
      BY <1>1, <2>2
    <3>2. Parted(txn', o, txn[o])
      <4>1. Parted(txn, o, txn[o])
        BY DEF WriteInv, Holds, Grounded
      <4>2. ASSUME NEW p \in Sessions \ {o} PROVE txn'[p].locked \cap txn[o].locked = {}
        BY <1>1, <4>1, NoTxnDead DEF Parted
      <4> QED
        BY <4>2 DEF Parted
    <3> QED
      BY <2>2, <3>1, <3>2, CommitOthers
  <2> QED
    BY <2>1, <2>2
<1> QED
  BY <1>2, <1>3, WritePrime

(* The attempt that sends COMMIT has written all it claims.                *)
LEMMA SentWhole ==
    ASSUME TypeOK, LedgerInv, WriteInv, NEW s \in Sessions, CommitTxn(s),
           ~txn[s].dead, At(s, "commit"), Begun(req[s])
    PROVE  /\ req[s].enqueued => Tag(s) \in outbox'
           /\ \A id \in req[s].wset : /\ id \in Ids /\ id \in ses[s].cached
                                      /\ Tag(s) \in ses[s].mem[id]
                                      /\ Present(Current(ses[s], id))
                                      /\ Tag(s) \in Current(ses[s], id).val
<1>1. /\ txn[s] \in Txn /\ Stage(ses[s], txn[s], req[s])
      /\ Holds(s, ses[s], txn[s], Claim(s, req[s]))
  BY WriteParts
<1>2. Quiet(ses[s]) /\ ~ses[s].lost /\ Kept(ses[s], txn[s])
  BY <1>1 DEF Stage, At
<1>3. PICK k : k = Claim(s, req[s])
  OBVIOUS
<1>4. /\ k.tag = Tag(s) /\ k.writes = req[s].wset /\ k.joins = req[s].enqueued
      /\ (k.begun <=> Begun(req[s]))
  BY <1>3 DEF Claim, Tag
<1>5. Claims(outbox, ses[s], txn[s], k)
  BY <1>1, <1>3, <1>4 DEF Holds
<1>6. outbox' = outbox \cup txn[s].out
  BY CommitGrows
<1>7. req[s].enqueued => Tag(s) \in outbox'
  <2>1. ses[s].joined => Live(txn[s])
    BY <1>2 DEF Kept, InFlight, Live
  <2> QED
    BY <1>2, <1>4, <1>5, <1>6, <2>1 DEF Claims
<1>8. Unlike(ses[s]) = {}
  BY <1>2, QuietParts
<1> QED
  BY <1>4, <1>5, <1>7, <1>8 DEF Claims, Unlike

LEMMA AfterCommitWrites ==
    ASSUME TypeOK, LedgerInv, WriteInv, NEW s \in Sessions, At(s, "commit"),
           CommitTxn(s), ~txn[s].dead, AfterCommit(s)
    PROVE  WriteInv'
<1>1. /\ ses[s] \in Ses /\ txn[s] \in Txn /\ req[s] \in Req /\ StoreReady
      /\ Stage(ses[s], txn[s], req[s])
      /\ Holds(s, ses[s], txn[s], Claim(s, req[s]))
      /\ Told(db, outbox, s, txn[s], req[s])
  BY WriteParts
<1>2. /\ Exact(ses[s], txn[s]) /\ Kept(ses[s], txn[s]) /\ req[s].pc = "commit"
      /\ req[s].answer # "none" => req[s].kind = "close"
  BY <1>1 DEF Stage, At
<1>3. PICK P : P = Promote(ses[s])
  OBVIOUS
<1>4. /\ P \in Ses /\ P.cached = ses[s].cached /\ P.mem = ses[s].mem
      /\ P.known = [id \in Ids |-> Current(ses[s], id)] /\ P.ups = NoRows /\ P.rem = {}
      /\ P.deleted = ses[s].deleted /\ P.lost = ses[s].lost /\ P.unit = ses[s].unit
  <2>1. P \in Ses
    BY <1>1, <1>3, PromoteParts
  <2> QED
    BY <1>1, <1>3, <2>1 DEF Promote, Ses
<1>5. PICK L : L = LeaveQueue(P)
  OBVIOUS
<1>6. /\ L \in Ses /\ L.cached = P.cached /\ L.deleted = P.deleted
      /\ L.mem = P.mem /\ L.known = P.known /\ L.ups = P.ups
      /\ L.rem = P.rem /\ L.unit = P.unit
  BY <1>4, <1>5, LeaveQueueType DEF LeaveQueue, Ses
<1>7. PICK R : R = IF InFlight(ses[s]) THEN RegisterWriters(L) ELSE L
  OBVIOUS
<1>8. /\ R.cached = ses[s].cached /\ R.mem = ses[s].mem /\ R.ups = NoRows /\ R.rem = {}
      /\ R.deleted = ses[s].deleted
      /\ R.known = [id \in Ids |-> Current(ses[s], id)]
      /\ R.unit # "none" \/ ses[s].unit = "none"
  BY <1>4, <1>6, <1>7 DEF RegisterWriters, Ses
<1>9. ses[s].deleted = {}
  BY <1>1 DEF Holds, Grounded, Sound
<1>10. Sound(db', stamp', clock', s, R, NoTxn, req[s].used)
  BY <1>2, <1>8, <1>9, CommitOwn
<1>11. PICK G : G = Goto(req[s], AfterKind[req[s].kind])
  OBVIOUS
<1>12. /\ G \in Req /\ G.pc \in {"body", "effects", "exit", "leave"}
       /\ G.answer = req[s].answer /\ G.used = req[s].used /\ G.run = req[s].run
       /\ G.wset = req[s].wset /\ G.enqueued = req[s].enqueued /\ G.op = req[s].op
       /\ G.answer # "none" => G.pc = "leave"
  <2>1. /\ AfterKind[req[s].kind] \in {"body", "effects", "exit", "leave"}
        /\ AfterKind["close"] = "leave"
    BY <1>1 DEF Req, Kinds, AfterKind
  <2> QED
    BY <1>1, <1>2, <1>11, <2>1 DEF Goto, Req, Pcs
<1>13. PICK c, w, v : Becomes(s, R, NoTxn, [G EXCEPT !.committed = c, !.won = w, !.saved = v])
  BY <1>3, <1>5, <1>7, <1>11 DEF AfterCommit
<1>14. PICK q : q = [G EXCEPT !.committed = c, !.won = w, !.saved = v]
  OBVIOUS
<1>15. /\ q.pc = G.pc /\ q.answer = G.answer /\ q.used = req[s].used /\ q.run = req[s].run
       /\ q.wset = req[s].wset /\ q.enqueued = req[s].enqueued /\ q.op = req[s].op
  BY <1>12, <1>14 DEF Req
<1>16. Begun(q) \/ q.pc = "exit" => Begun(req[s])
  BY <1>2, <1>12, <1>15 DEF Begun, Running
<1>17. ASSUME Begun(req[s])
       PROVE  /\ req[s].enqueued => Tag(s) \in outbox'
              /\ \A id \in req[s].wset : /\ id \in Ids /\ id \in R.cached
                                         /\ Tag(s) \in R.mem[id]
                                         /\ Present(R.known[id])
                                         /\ Tag(s) \in R.known[id].val
              /\ ses[s].unit # "none"
  <2>1. ses[s].unit # "none"
    BY <1>1, <1>17 DEF Holds, Claim, Claims, Tiers
  <2> QED
    BY <1>8, <1>17, <2>1, SentWhole
<1>18. ASSUME Begun(q) PROVE Claims(outbox', R, NoTxn, Claim(s, q))
  <2>1. Begun(req[s]) /\ q.pc \notin {"barrier", "load"}
    BY <1>12, <1>15, <1>16, <1>18
  <2>2. PICK k : k = Claim(s, q)
    OBVIOUS
  <2>3. /\ k.writes = req[s].wset /\ k.tag = Tag(s) /\ k.joins = req[s].enqueued
        /\ k.loads = {} /\ k.needs = {}
    BY <1>15, <2>1, <2>2 DEF Claim, Tag
  <2>4. Tiers(R, NoTxn)
    BY <1>8, <1>17, <2>1, NoTxnDead DEF Tiers
  <2> QED
    BY <1>17, <2>1, <2>2, <2>3, <2>4 DEF Claims
<1>19. Told(db', outbox', s, NoTxn, q)
  <2>1. ASSUME NEW id \in Ids, Present(R.known[id])
        PROVE  R.known[id].val \subseteq db'[id].val
    BY <1>10, <2>1 DEF Sound, Knows, Older
  <2>2. ASSUME q.pc = "exit"
        PROVE  /\ \A id \in q.wset : <<s, q.run>> \in db'[id].val
               /\ q.enqueued => <<s, q.run>> \in outbox'
    <3>1. Begun(req[s])
      BY <1>16, <2>2
    <3> QED
      BY <1>15, <1>17, <2>1, <3>1 DEF Tag
  <2>3. ASSUME q.answer = "ok"
        PROVE  /\ \A id \in q.wset : <<s, q.run>> \in db'[id].val
               /\ q.enqueued => <<s, q.run>> \in outbox'
    <3>1. /\ \A id \in q.wset : id \in Ids /\ <<s, q.run>> \in db[id].val
          /\ q.enqueued => <<s, q.run>> \in outbox
      BY <1>1, <1>12, <1>15, <2>3 DEF Told, Req
    <3>2. \A id \in Ids : db[id].val \subseteq db'[id].val
      BY <1>1, CommitGrows, RowOrder DEF Grown, StoreReady
    <3>3. outbox \subseteq outbox'
      BY CommitGrows
    <3> QED
      BY <3>1, <3>2, <3>3
  <2>4. /\ q.op.name # "delete" /\ (q.op.name = "effect" => q.op.id = Root)
        /\ q.pc \in {"body", "effects", "exit", "leave"}
    BY <1>1, <1>12, <1>15 DEF Told
  <2>5. ~(Running(q) /\ ~Begun(q))
    BY <2>4 DEF Running, Begun
  <2> QED
    BY <2>2, <2>3, <2>4, <2>5 DEF Told
<1> QED
  BY <1>10, <1>13, <1>14, <1>15, <1>18, <1>19, CommitWrites

(* A commit that fails leaves session R and request q, whose transaction   *)
(* is given up.                                                            *)
GaveUp(s, S, k, R, q) ==
    /\ Becomes(s, R, NoTxn, q) /\ Holds(s, R, NoTxn, k)
    /\ R.cached = S.cached /\ R.mem = S.mem /\ R.known = S.known
    /\ R.ups = NoRows /\ R.rem = {}
    /\ R.deleted = S.deleted \cup (S.rem \ S.cached)
    /\ Follows(req[s], q) /\ Heeds(req[s], q)
    /\ q.pc \in {"flush", "body", "leave", "handler"}

LEMMA FailedCommit ==
    ASSUME NEW s, NEW S \in Ses, NEW t, NEW k, Holds(s, S, t, k), NEW exc,
           req[s] \in Req, req[s].pc \in {"flush", "commit"}, req[s].answer = "none",
           req[s].op.name # "delete", req[s].op.name = "effect" => req[s].op.id = Root,
           CommitFails(s, S, exc)
    PROVE  \E R, q : GaveUp(s, S, k, R, q)
<1>1. PICK p : p = IF exc = "db" THEN Replay(S, req[s].tries >= ReplayMax)
                   ELSE Raise(Rollback(S), NoTxn, exc)
  OBVIOUS
<1>2. PICK B \in Ses : B = Rollback(S)
  BY RollbackParts
<1>3. /\ B.cached = S.cached /\ B.mem = S.mem /\ B.known = S.known /\ B.ups = NoRows
      /\ B.rem = {} /\ B.deleted = S.deleted \cup (S.rem \ S.cached)
  BY <1>2 DEF Rollback, Ses
<1>4. Holds(s, B, NoTxn, k)
  BY <1>2, RollbackHolds, HoldsNone
<1>5. /\ p.t = NoTxn /\ Holds(s, p.S, NoTxn, k)
      /\ p.S.cached = S.cached /\ p.S.mem = S.mem /\ p.S.known = S.known
      /\ p.S.ups = NoRows /\ p.S.rem = {}
      /\ p.S.deleted = S.deleted \cup (S.rem \ S.cached)
  <2>1. CASE exc = "db"
    <3> DEFINE b == req[s].tries >= ReplayMax
    <3>1. b \in BOOLEAN
      OBVIOUS
    <3>2. p = Replay(S, b)
      BY <1>1, <2>1
    <3> HIDE DEF b
    <3>3. Holds(s, p.S, NoTxn, k) /\ p.t = NoTxn
      BY <3>1, <3>2, ReplayHolds
    <3>4. p.S = [B EXCEPT !.lost = @ \/ b]
      BY <1>2, <3>2 DEF Replay, LostOr, Raise, Done
    <3>5. /\ p.S.cached = B.cached /\ p.S.mem = B.mem /\ p.S.known = B.known
          /\ p.S.ups = B.ups /\ p.S.rem = B.rem /\ p.S.deleted = B.deleted
      BY <3>4 DEF Ses
    <3> QED
      BY <1>3, <3>3, <3>5
  <2>2. CASE exc # "db"
    <3>1. p.S = B /\ p.t = NoTxn
      BY <1>1, <1>2, <2>2 DEF Raise
    <3> QED
      BY <1>3, <1>4, <3>1
  <2> QED
    BY <2>1, <2>2
<1>6. PICK q : /\ Becomes(s, p.S, p.t, q)
               /\ \/ \E n : q = [req[s] EXCEPT !.pc = "flush", !.tries = n]
                  \/ q = Settle(req[s], p.exc)
  BY <1>1 DEF CommitFails
<1>7. /\ q.pc \in {"flush", "body", "leave", "handler"} /\ q.answer = "none"
      /\ q.used = req[s].used /\ q.run = req[s].run /\ q.wset = req[s].wset
      /\ q.enqueued = req[s].enqueued /\ q.op = req[s].op
  <2>1. CASE \E n : q = [req[s] EXCEPT !.pc = "flush", !.tries = n]
    BY <2>1 DEF Req
  <2>2. CASE q = Goto(req[s], "body") \/ q = Goto(req[s], "leave")
    BY <2>2 DEF Goto, Req
  <2>3. CASE q = Throw(req[s], p.exc)
    BY <2>3 DEF Throw, Req
  <2> QED
    BY <1>6, <2>1, <2>2, <2>3 DEF Settle
<1>8. Follows(req[s], q) /\ Heeds(req[s], q)
  BY <1>7 DEF Follows, Heeds, Begun, Running
<1> QED
  BY <1>5, <1>6, <1>7, <1>8 DEF GaveUp

LEMMA CommitFailsWrites ==
    ASSUME TypeOK, LedgerInv, WriteInv, NEW s \in Sessions, NEW S \in Ses, NEW t,
           Holds(s, S, t, Claim(s, req[s])), NEW exc,
           req[s].pc \in {"flush", "commit"}, req[s].answer = "none",
           CommitFails(s, S, exc), KeepTables
    PROVE  WriteInv'
<1>1. req[s] \in Req /\ Told(db, outbox, s, txn[s], req[s])
  BY WriteParts
<1>2. PICK R, q : GaveUp(s, S, Claim(s, req[s]), R, q)
  <2>1. req[s].op.name # "delete" /\ (req[s].op.name = "effect" => req[s].op.id = Root)
    BY <1>1 DEF Told
  <2> QED
    BY <1>1, <2>1, FailedCommit
<1>3. /\ Becomes(s, R, NoTxn, q) /\ Holds(s, R, NoTxn, Claim(s, req[s]))
      /\ Follows(req[s], q) /\ Heeds(req[s], q) /\ q.pc # "load"
  BY <1>2 DEF GaveUp
<1> QED
  BY <1>1, <1>3, FollowsWrites

LEMMA UnansweredWrites ==
    ASSUME TypeOK, LedgerInv, WriteInv, NEW s \in Sessions, req[s].pc = "commit",
           req[s].answer = "none", CommitTxn(s), ~txn[s].dead,
           CommitFails(s, ses[s], "db")
    PROVE  WriteInv'
<1>1. /\ ses[s] \in Ses /\ txn[s] \in Txn /\ req[s] \in Req /\ StoreReady
      /\ Stage(ses[s], txn[s], req[s])
      /\ Holds(s, ses[s], txn[s], Claim(s, req[s]))
      /\ Told(db, outbox, s, txn[s], req[s])
  BY WriteParts
<1>2. /\ ses[s].deleted = {} /\ ses[s].rem = {} /\ req[s].op.name # "delete"
      /\ req[s].op.name = "effect" => req[s].op.id = Root
  BY <1>1 DEF Told, Holds, Grounded, Sound
<1>3. PICK R, q : GaveUp(s, ses[s], Claim(s, req[s]), R, q)
  BY <1>1, <1>2, FailedCommit
<1>4. /\ R.cached = ses[s].cached /\ R.mem = ses[s].mem /\ R.known = ses[s].known
      /\ R.ups = NoRows /\ R.rem = {} /\ R.deleted = {}
      /\ Holds(s, R, NoTxn, Claim(s, req[s])) /\ Becomes(s, R, NoTxn, q)
      /\ Follows(req[s], q) /\ Heeds(req[s], q)
      /\ q.pc \in {"flush", "body", "leave", "handler"}
  BY <1>2, <1>3 DEF GaveUp
<1>5. Sound(db', stamp', clock', s, R, NoTxn, req[s].used)
  BY <1>4, CommitOwn
<1>6. q.used = req[s].used
  BY <1>4 DEF Follows
<1>7. outbox \subseteq outbox'
  BY CommitGrows
<1>8. ASSUME Begun(q) PROVE Claims(outbox', R, NoTxn, Claim(s, q))
  <2>1. Holds(s, R, NoTxn, Claim(s, q))
    BY <1>4, FollowsHolds
  <2>2. Claims(outbox, R, NoTxn, Claim(s, q))
    BY <1>8, <2>1 DEF Holds, Claim
  <2> QED
    BY <1>7, <2>2 DEF Claims
<1>9. Told(db', outbox', s, NoTxn, q)
  <2>1. ~(q.pc = "exit" \/ q.answer = "ok")
    BY <1>1, <1>4 DEF Heeds
  <2> QED
    BY <1>4, <2>1 DEF Heeds, Told
<1> QED
  BY <1>4, <1>5, <1>6, <1>8, <1>9, CommitWrites

LEMMA CommitStep ==
    ASSUME TypeOK, LedgerInv, WriteInv, NEW s \in Sessions,
           FlushAll(s) \/ SqlCommit(s) \/ SqlCommitFails(s) \/ CommitUnanswered(s)
    PROVE  WriteInv'
<1>1. /\ ses[s] \in Ses /\ txn[s] \in Txn /\ req[s] \in Req /\ StoreReady
      /\ Apart(ses[s]) /\ Agrees(ses[s], txn[s]) /\ Idle(txn[s])
      /\ Stage(ses[s], txn[s], req[s]) /\ Times(db, stamp, clock)
      /\ Holds(s, ses[s], txn[s], Claim(s, req[s]))
      /\ Told(db, outbox, s, txn[s], req[s])
  BY WriteParts
<1>2. CASE FlushAll(s)
  <2>1. /\ req[s].pc = "flush" /\ KeepTables
        /\ req[s].answer # "none" => Settled(ses[s], txn[s])
    BY <1>1, <1>2 DEF FlushAll, At, Stage
  <2>2. PICK full \in BOOLEAN : full = TRUE
    OBVIOUS
  <2>3. PICK f : f = Flush(s, Done(ses[s], txn[s]), full)
    OBVIOUS
  <2>4. PICK q : q = Goto(req[s], "commit")
    OBVIOUS
  <2>5. /\ q.pc = "commit" /\ q.answer = req[s].answer /\ q.used = req[s].used
        /\ q.run = req[s].run /\ q.wset = req[s].wset
        /\ q.enqueued = req[s].enqueued /\ q.op = req[s].op
    BY <1>1, <2>4 DEF Goto, Req
  <2>6. Follows(req[s], q)
    BY <2>1, <2>5 DEF Follows, Begun, Running
  <2>7. Heeds(req[s], q)
    BY <1>1, <2>1, <2>5 DEF Heeds, Begun, Running, Told
  <2>8. CASE ses[s].lost
    <3>1. PICK r : r = Raise(ses[s], txn[s], "lost")
      OBVIOUS
    <3>2. r.S = ses[s] /\ r.exc = "lost"
      BY <3>1 DEF Raise
    <3>3. CommitFails(s, ses[s], "lost")
      BY <1>2, <2>8, <3>1, <3>2 DEF FlushAll
    <3>4. req[s].answer = "none"
      BY <2>1, <2>8 DEF Settled
    <3> QED
      BY <1>1, <2>1, <3>3, <3>4, CommitFailsWrites
  <2>9. CASE ~ses[s].lost
    <3>1. Fits(ses[s], Done(ses[s], txn[s]))
      BY <1>1, FitsSelf
    <3>2. PICK d : d = Done(ses[s], txn[s])
      OBVIOUS
    <3>3. d.S = ses[s] /\ d.t = txn[s]
      BY <3>2 DEF Done
    <3>4. Claim(s, req[s]).begun \/ d.t.mode # "ro"
      <4>1. CASE req[s].answer = "none"
        BY <2>1, <4>1 DEF Claim, Begun, Running
      <4>2. CASE req[s].answer # "none"
        BY <2>1, <3>3, <4>2, NoTxnDead DEF Settled
      <4> QED
        BY <4>1, <4>2
    <3>5. Holds(s, f.S, f.t, Claim(s, req[s])) /\ f.S \in Ses
      <4>1. From(ses[s], f)
        BY <1>1, <2>3, <3>1, <3>2, FlushFits
      <4> QED
        BY <1>1, <2>3, <3>1, <3>2, <3>3, <3>4, <4>1, FlushHolds, FromParts
    <3>6. CASE Ok(f)
      <4>1. Becomes(s, f.S, f.t, q)
        BY <1>2, <2>2, <2>3, <2>4, <2>9, <3>6 DEF FlushAll, Ok
      <4> QED
        BY <1>1, <2>1, <2>5, <2>6, <2>7, <3>5, <4>1, FollowsWrites
    <3>7. CASE ~Ok(f)
      <4>1. CommitFails(s, f.S, f.exc)
        BY <1>2, <2>2, <2>3, <2>9, <3>7 DEF FlushAll, Ok
      <4>2. req[s].answer = "none"
        <5>1. ASSUME req[s].answer # "none" PROVE Ok(f)
          BY <1>1, <2>1, <2>3, <5>1, SettledFlush
        <5> QED
          BY <3>7, <5>1
      <4> QED
        BY <2>1, <3>5, <4>1, <4>2, CommitFailsWrites
    <3> QED
      BY <3>6, <3>7
  <2> QED
    BY <2>8, <2>9
<1>3. CASE SqlCommit(s)
  <2>1. At(s, "commit") /\ CommitTxn(s) /\ ~txn[s].dead /\ AfterCommit(s)
    BY <1>3 DEF SqlCommit, CanCommit
  <2> QED
    BY <2>1, AfterCommitWrites
<1>4. CASE SqlCommitFails(s) \/ CommitUnanswered(s)
  <2>1. req[s].pc = "commit" /\ CommitFails(s, ses[s], "db")
    BY <1>4 DEF SqlCommitFails, CommitUnanswered, CanCommit, At
  <2>2. req[s].answer = "none"
    <3>1. SUFFICES ASSUME req[s].answer # "none" PROVE FALSE
      BY <1>1 DEF Req
    <3>2. txn[s] = NoTxn
      BY <1>1, <3>1 DEF Stage, Settled
    <3> QED
      BY <1>4, <2>1, <3>2, NoTxnParts DEF SqlCommitFails, CommitUnanswered, CanCommit
  <2>3. CASE SqlCommitFails(s)
    <3>1. KeepTables
      BY <2>3 DEF SqlCommitFails
    <3> QED
      BY <1>1, <2>1, <2>2, <3>1, CommitFailsWrites
  <2>4. CASE CommitUnanswered(s)
    <3>1. CommitTxn(s) /\ ~txn[s].dead
      BY <2>4 DEF CommitUnanswered, CanCommit
    <3> QED
      BY <2>1, <2>2, <3>1, UnansweredWrites
  <2> QED
    BY <1>4, <2>3, <2>4
<1> QED
  BY <1>2, <1>3, <1>4

-----------------------------------------------------------------------------
(* Reads                                                                   *)

(* A read given up for good: the attempt goes on, or the request ends.     *)
LEMMA FailedFollows ==
    ASSUME NEW q \in Req, NEW e, NEW p, p = Failed(q, e), NEW x, q.answer = "none",
           q.op.name # "delete", q.op.name = "effect" => q.op.id = Root
    PROVE  /\ Follows(Goto(q, "load"), p) /\ Heeds(x, p) /\ p.used = q.used
           /\ p.pc \in {"scope", "close", "effects", "handler", "caught"}
           /\ q.op.name \in {"scope", "open"} => ~Begun(p)
<1>1. PICK n : n = Goto(q, "load")
  OBVIOUS
<1>2. /\ n.pc = "load" /\ n.answer = "none" /\ n.used = q.used /\ n.run = q.run
      /\ n.wset = q.wset /\ n.enqueued = q.enqueued /\ n.op = q.op
  BY <1>1 DEF Goto, Req
<1>3. /\ p.used = q.used /\ p.run = q.run
      /\ p.wset = q.wset /\ p.enqueued = q.enqueued /\ p.op = q.op
      /\ IF q.op.name = "scope" THEN p.pc = "scope" /\ p.answer = "error"
         ELSE IF q.op.name = "open" THEN p.pc = "close" /\ p.answer = "error"
         ELSE p.pc \in {"effects", "handler", "caught"} /\ p.answer = "none"
  BY DEF Failed, Throw, Req
<1> QED
  BY <1>1, <1>2, <1>3 DEF Follows, Heeds, Begun, Running

LEMMA FailsWrites ==
    ASSUME TypeOK, LedgerInv, WriteInv, NEW s \in Sessions, NEW r, r.S \in Ses,
           NEW q \in Req, q.answer = "none", q.op.name # "delete",
           q.op.name = "effect" => q.op.id = Root,
           Holds(s, r.S, r.t, Claim(s, Goto(q, "load"))),
           q.op.name \in {"scope", "open"} => r.t = NoTxn,
           Fails(s, r, q)
    PROVE  WriteInv'
<1>1. PICK F : F = FailedSession(q, r.S, r.exc)
  OBVIOUS
<1>2. PICK p : p = Failed(q, r.exc)
  OBVIOUS
<1>3. Step(s, F, r.t, p)
  BY <1>1, <1>2 DEF Fails
<1>4. /\ Follows(Goto(q, "load"), p) /\ Heeds(req[s], p) /\ p.used = q.used
      /\ p.pc \in {"scope", "close", "effects", "handler", "caught"}
      /\ q.op.name \in {"scope", "open"} => ~Begun(p)
  BY <1>2, FailedFollows
<1>5. StoreReady /\ Told(db, outbox, s, txn[s], req[s])
  BY WriteParts
<1>6. Told(db, outbox, s, r.t, p)
  <2>1. p.pc # "load"
    BY <1>4
  <2> QED
    BY <1>4, <1>5, <2>1, HeedsTold
<1>7. Holds(s, r.S, r.t, Claim(s, p))
  BY <1>4, FollowsHolds
<1>8. CASE q.op.name = "open"
  <2>1. F = Abort(r.S) /\ r.t = NoTxn
    BY <1>1, <1>8 DEF FailedSession
  <2>2. ~Claim(s, p).begun
    BY <1>4, <1>8 DEF Claim
  <2>3. Holds(s, F, r.t, Claim(s, p))
    BY <1>5, <1>7, <2>1, <2>2, AbortHolds
  <2> QED
    BY <1>3, <1>6, <2>3, StepWrites
<1>9. CASE q.op.name # "open"
  <2>1. F = r.S \/ F = [r.S EXCEPT !.lost = TRUE]
    BY <1>1, <1>9 DEF FailedSession
  <2>2. CASE F = r.S
    BY <1>3, <1>6, <1>7, <2>2, StepWrites
  <2>3. CASE F = [r.S EXCEPT !.lost = TRUE]
    <3>1. /\ F.cached = r.S.cached /\ F.mem = r.S.mem /\ F.known = r.S.known
          /\ F.ups = r.S.ups /\ F.dirty = r.S.dirty /\ F.deleted = r.S.deleted
          /\ F.rem = r.S.rem /\ F.joined = r.S.joined /\ F.unit = r.S.unit
          /\ F.lost
      BY <2>3 DEF Ses
    <3>2. Alike(r.S, F) /\ Echoes(r.t, r.t)
      BY <3>1 DEF Alike, Echoes
    <3>3. Holds(s, F, r.t, Claim(s, p))
      BY <1>7, <3>1, <3>2, HoldsAlike
    <3> QED
      BY <1>3, <1>6, <3>3, StepWrites
  <2> QED
    BY <2>1, <2>2, <2>3
<1> QED
  BY <1>8, <1>9

LEMMA RetriesWrites ==
    ASSUME TypeOK, LedgerInv, WriteInv, NEW s \in Sessions, NEW r, r.S \in Ses,
           NEW q \in Req, q.answer = "none", Heeds(req[s], Goto(q, "load")),
           Holds(s, r.S, r.t, Claim(s, Goto(q, "load"))),
           q.op.name \in {"scope", "open"} => r.t = NoTxn,
           NEW next \in Nat, Retries(s, r, q, next)
    PROVE  WriteInv'
<1>1. PICK no \in BOOLEAN : no = FALSE
  OBVIOUS
<1>2. PICK p : p = Replay(r.S, no) /\ p = Replay(r.S, FALSE)
  BY <1>1
<1>3. p.t = NoTxn /\ p.S \in Ses /\ Holds(s, p.S, NoTxn, Claim(s, Goto(q, "load")))
  BY <1>2, ReplayHolds
<1>4. PICK n : n = Goto(q, "load")
  OBVIOUS
<1>5. /\ n.pc = "load" /\ n.answer = "none" /\ n.used = q.used /\ n.run = q.run
      /\ n.wset = q.wset /\ n.enqueued = q.enqueued /\ n.op = q.op
  BY <1>4 DEF Goto, Req
<1>6. q.op.name # "delete" /\ (q.op.name = "effect" => q.op.id = Root)
  BY <1>4, <1>5 DEF Heeds
<1>7. CASE Step(s, p.S, p.t, [q EXCEPT !.pc = "barrier", !.tries = next])
  <2>1. PICK b : b = [q EXCEPT !.pc = "barrier", !.tries = next]
    OBVIOUS
  <2>2. /\ b.pc = "barrier" /\ b.answer = "none" /\ b.used = q.used /\ b.run = q.run
        /\ b.wset = q.wset /\ b.enqueued = q.enqueued /\ b.op = q.op
    BY <2>1 DEF Req
  <2>3. Follows(n, b)
    BY <1>5, <2>2 DEF Follows, Begun, Running
  <2>4. Heeds(req[s], b)
    BY <1>4, <1>5, <1>6, <2>2 DEF Heeds, Begun, Running
  <2>5. Told(db, outbox, s, p.t, b)
    <3>1. Told(db, outbox, s, txn[s], req[s])
      BY WriteParts
    <3> QED
      BY <2>2, <2>4, <3>1, HeedsTold
  <2>6. Holds(s, p.S, p.t, Claim(s, b))
    BY <1>3, <1>4, <2>3, FollowsHolds
  <2> QED
    BY <1>7, <2>1, <2>5, <2>6, StepWrites
<1>8. CASE Fails(s, p, q)
  BY <1>3, <1>6, <1>8, FailsWrites
<1>9. CASE Fails(s, r, q)
  BY <1>6, <1>9, FailsWrites
<1> QED
  BY <1>2, <1>7, <1>8, <1>9 DEF Retries

LEMMA BarrierWrites ==
    ASSUME TypeOK, LedgerInv, WriteInv, NEW s \in Sessions, NEW S \in Ses,
           Apart(S), Agrees(S, txn[s]), NEW q \in Req, Asks(S, txn[s], q),
           Heeds(req[s], Goto(q, "load")),
           Holds(s, S, txn[s], Claim(s, Goto(q, "load"))),
           Barrier(s, S, q)
    PROVE  WriteInv'
<1>1. /\ txn[s] \in Txn /\ Idle(txn[s]) /\ StoreReady /\ Times(db, stamp, clock)
      /\ Told(db, outbox, s, txn[s], req[s])
  BY WriteParts
<1>2. PICK r : r = IF q.op.load = {} THEN Done(S, txn[s])
                   ELSE ReadBarrier(s, Done(S, txn[s]))
  OBVIOUS
<1>3. PICK n : n = Goto(q, "load")
  OBVIOUS
<1>4. n.pc = "load" /\ n.op = q.op
  BY <1>3 DEF Goto, Req
<1>5. CASE q.op.load = {}
  <2>1. r.S = S /\ r.t = txn[s] /\ Ok(r)
    BY <1>2, <1>5 DEF Done, Ok
  <2>2. Step(s, S, txn[s], n)
    BY <1>2, <1>3, <1>5, <2>1 DEF Barrier
  <2>3. Told(db, outbox, s, txn[s], n)
    BY <1>1, <1>3, <1>4, <1>5, HeedsTold
  <2> QED
    BY <1>3, <2>2, <2>3, StepWrites
<1>6. CASE q.op.load # {}
  <2>1. r = ReadBarrier(s, Done(S, txn[s]))
    BY <1>2, <1>6
  <2>2. Holds(s, r.S, r.t, Claim(s, n)) /\ r.S \in Ses /\ (Ok(r) => r.t.mode # "none")
    BY <1>1, <1>3, <2>1, ReadBarrierHolds
  <2>3. CASE Ok(r)
    <3>1. Step(s, r.S, r.t, n)
      BY <1>2, <1>3, <2>3 DEF Barrier
    <3>2. Told(db, outbox, s, r.t, n)
      BY <1>1, <1>3, <2>2, <2>3, HeedsTold
    <3> QED
      BY <2>2, <3>1, <3>2, StepWrites
  <2>4. CASE ~Ok(r)
    <3>1. q.op.name \notin {"scope", "open"}
      <4>1. ASSUME q.op.name \in {"scope", "open"} PROVE Ok(r)
        <5>1. Early(S) /\ (S.scope => txn[s].mode # "rw") /\ (~S.scope => txn[s].mode # "ro")
          BY <4>1 DEF Asks
        <5> QED
          BY <1>1, <2>1, <5>1, EarlyBarrier
      <4> QED
        BY <2>4, <4>1
    <3>2. q.tries + 1 \in Nat
      BY DEF Req
    <3>3. Retries(s, r, q, q.tries + 1)
      BY <1>2, <2>4 DEF Barrier
    <3>4. q.answer = "none"
      BY DEF Asks
    <3> QED
      BY <1>3, <2>2, <3>1, <3>2, <3>3, <3>4, RetriesWrites
  <2> QED
    BY <2>3, <2>4
<1> QED
  BY <1>5, <1>6

LEMMA ReadWrites ==
    ASSUME TypeOK, LedgerInv, WriteInv, NEW s \in Sessions, NEW S \in Ses,
           Apart(S), Agrees(S, txn[s]), Holds(s, S, txn[s], Claim(s, req[s])),
           NEW name \in OpNames \ {"delete"}, NEW id \in Ids, NEW L \in SUBSET Ids,
           Root \in L \/ name # "count", id = Root \/ name # "effect",
           Read(s, S, name, id, L), Running(req[s]),
           Begun(req[s]) <=> name \notin {"scope", "open"},
           name \in {"scope", "open"} => Early(S),
           name = "scope" => S.scope /\ S.cached = {} /\ txn[s].mode # "rw",
           name = "open" => ~S.scope /\ txn[s].mode # "ro"
    PROVE  WriteInv'
<1>1. PICK o : o = [name |-> name, id |-> id, load |-> Missing(S, L)]
  OBVIOUS
<1>2. o \in Op /\ o.name = name /\ o.id = id /\ o.load = Missing(S, L)
  BY <1>1 DEF Op, Missing
<1>3. PICK q : q = [req[s] EXCEPT !.tries = 0, !.op = o]
  OBVIOUS
<1>4. /\ q \in Req /\ q.op = o /\ q.answer = "none" /\ q.used = req[s].used
      /\ q.run = req[s].run /\ q.wset = req[s].wset /\ q.enqueued = req[s].enqueued
  BY <1>2, <1>3, PartsType DEF Req, Running
<1>5. Asks(S, txn[s], q)
  BY <1>2, <1>4 DEF Asks
<1>6. PICK n : n = Goto(q, "load")
  OBVIOUS
<1>7. /\ n.pc = "load" /\ n.answer = "none" /\ n.used = req[s].used /\ n.run = req[s].run
      /\ n.wset = req[s].wset /\ n.enqueued = req[s].enqueued /\ n.op = o
  BY <1>4, <1>6 DEF Goto, Req
<1>8. Begun(n) <=> name \notin {"scope", "open"}
  BY <1>2, <1>7 DEF Begun, Running
<1>9. Heeds(req[s], n)
  <2>1. Told(db, outbox, s, txn[s], req[s])
    BY WriteParts
  <2>2. ~Begun(n) => n.wset = {} /\ ~n.enqueued
    BY <1>7, <1>8, <2>1 DEF Told
  <2> QED
    BY <1>2, <1>7, <2>2 DEF Heeds
<1>10. Holds(s, S, txn[s], Claim(s, n))
  <2>1. PICK k, l : k = Claim(s, req[s]) /\ l = Claim(s, n)
    OBVIOUS
  <2>2. /\ l.used = k.used /\ l.tag = k.tag /\ l.joins = k.joins /\ l.writes = k.writes
        /\ k.writes = req[s].wset /\ (l.begun <=> Begun(n)) /\ (k.begun <=> Begun(req[s]))
    BY <1>7, <2>1 DEF Claim
  <2>3. l.loads = req[s].wset \cap Missing(S, L)
    BY <1>2, <1>7, <2>1 DEF Claim
  <2>4. l.needs \subseteq {Root} \ Missing(S, L) /\ (name # "count" => l.needs = {})
    BY <1>2, <1>7, <2>1 DEF Claim
  <2>5. l.needs \subseteq L \ Missing(S, L)
    BY <2>4
  <2> QED
    BY <1>8, <2>1, <2>2, <2>3, <2>5, MissingHolds
<1> QED
  BY <1>1, <1>3, <1>4, <1>5, <1>6, <1>9, <1>10, BarrierWrites DEF Read

(* The claim of an attempt that has read what it wanted to.                *)
Bare(k) == [k EXCEPT !.loads = {}, !.needs = {}]

LEMMA LoadedWrites ==
    ASSUME TypeOK, LedgerInv, WriteInv, NEW s \in Sessions, At(s, "load")
    PROVE  LET r == Loaded(s)
           IN  /\ r.S \in Ses /\ r.t \in Txn
               /\ Ok(r) => /\ Holds(s, r.S, r.t, Bare(Claim(s, req[s])))
                           /\ Begun(req[s]) /\ req[s].op.name = "count"
                                 => Root \in r.S.cached
               /\ ~Ok(r) => r.t = NoTxn /\ Holds(s, r.S, NoTxn, Claim(s, req[s]))
<1>1. /\ ses[s] \in Ses /\ txn[s] \in Txn /\ req[s] \in Req /\ StoreReady
      /\ Agrees(ses[s], txn[s]) /\ Holds(s, ses[s], txn[s], Claim(s, req[s]))
      /\ Told(db, outbox, s, txn[s], req[s]) /\ req[s].pc = "load"
  BY WriteParts DEF At
<1>2. PICK L \in SUBSET Ids : L = req[s].op.load
  BY <1>1 DEF Req, Op
<1>3. PICK r : r = Loaded(s) /\ r.S \in Ses /\ r.t \in Txn
  BY LoadedLedger
<1>4. PICK k, l : k = Claim(s, req[s]) /\ l = Bare(k)
  OBVIOUS
<1>5. /\ k.used = req[s].used /\ (k.begun <=> Begun(req[s])) /\ k.writes = req[s].wset
      /\ k.loads = req[s].wset \cap L
      /\ k.needs = IF req[s].op.name = "count" THEN {Root} \ L ELSE {}
      /\ l.used = k.used /\ (l.begun <=> k.begun) /\ l.tag = k.tag /\ l.joins = k.joins
      /\ l.writes = k.writes /\ l.loads = {} /\ l.needs = {}
  BY <1>1, <1>2, <1>4 DEF Claim, Bare
<1>6. Begun(req[s]) /\ req[s].op.name = "count" => Root \in L \/ Root \in ses[s].cached
  BY <1>1, <1>4, <1>5 DEF Holds, Claims
<1>7. CASE L = {}
  <2>1. r.S = ses[s] /\ r.t = txn[s] /\ Ok(r)
    BY <1>2, <1>3, <1>7 DEF Loaded, Done, Ok
  <2>2. Holds(s, ses[s], txn[s], l)
    BY <1>1, <1>4, <1>5, HoldsLess
  <2> QED
    BY <1>3, <1>4, <1>6, <1>7, <2>1, <2>2
<1>8. CASE L # {}
  <2>1. r = LoadFull(Done(ses[s], txn[s]), L)
    BY <1>2, <1>3, <1>8 DEF Loaded
  <2>2. txn[s].mode # "none"
    BY <1>1, <1>2, <1>8 DEF Told
  <2>3. k.writes \cap L \subseteq k.loads
    BY <1>5
  <2>4. l.begun => k.begun
    BY <1>5
  <2>5. /\ Ok(r) => /\ Holds(s, r.S, r.t, l)
                    /\ ses[s].cached \cup (L \cap Seeded) \subseteq r.S.cached
        /\ ~Ok(r) => Holds(s, r.S, r.t, k)
    <3>1. PICK S \in Ses, t \in Txn : S = ses[s] /\ t = txn[s]
      BY <1>1
    <3>2. Holds(s, S, t, k) /\ Agrees(S, t) /\ t.mode # "none"
      BY <1>1, <1>4, <2>2, <3>1
    <3>3. PICK f : f = LoadFull(Done(S, t), L) /\ f = r
      BY <2>1, <3>1
    <3>4. /\ Ok(f) => /\ Holds(s, f.S, f.t, l)
                      /\ S.cached \cup (L \cap Seeded) \subseteq f.S.cached
          /\ ~Ok(f) => Holds(s, f.S, f.t, k)
      <4>1. /\ l.used = k.used /\ l.tag = k.tag /\ l.joins = k.joins
            /\ l.writes = k.writes /\ l.loads = {} /\ l.needs = {}
            /\ l.begun => k.begun
            /\ k.begun => k.writes \cap L \subseteq k.loads
            /\ StoreReady
        BY <1>1, <1>5, <2>3
      <4>2. \A g : g = LoadFull(Done(S, t), L) =>
                      /\ Ok(g) => /\ Holds(s, g.S, g.t, l)
                                  /\ S.cached \cup (L \cap Seeded) \subseteq g.S.cached
                      /\ ~Ok(g) => Holds(s, g.S, g.t, k)
        BY <3>2, <4>1, LoadFullHolds
      <4> QED
        BY <3>3, <4>2
    <3> QED
      BY <3>1, <3>3, <3>4
  <2>6. ~Ok(r) => r.t = NoTxn
    BY <1>3, LoadedLedger DEF Raise
  <2> QED
    BY <1>3, <1>4, <1>6, <2>5, <2>6, RequestAssumption
<1> QED
  BY <1>7, <1>8

-----------------------------------------------------------------------------
(* The actions                                                             *)

(* A request that claims nothing of its session: its unit has not begun, or*)
(* has ended.                                                              *)
LEMMA UnbegunHolds ==
    ASSUME NEW s, NEW S, NEW t, NEW k, Holds(s, S, t, k), NEW q, ~Begun(q),
           q.used = k.used
    PROVE  Holds(s, S, t, Claim(s, q)) /\ ~Claim(s, q).begun
<1>1. Claim(s, q).used = k.used /\ ~Claim(s, q).begun
  BY DEF Claim
<1> QED
  BY <1>1, HoldsLess

LEMMA ArrivalWrites ==
    ASSUME TypeOK, LedgerInv, WriteInv, NEW s \in Sessions, Arrive(s) \/ Open(s)
    PROVE  WriteInv'
<1>1. /\ ses[s] \in Ses /\ req[s] \in Req /\ Root \in Ids /\ {Root} \in SUBSET Ids
      /\ Apart(ses[s]) /\ Agrees(ses[s], txn[s]) /\ Stage(ses[s], txn[s], req[s])
      /\ Holds(s, ses[s], txn[s], Claim(s, req[s]))
      /\ Told(db, outbox, s, txn[s], req[s])
  BY WriteParts
<1>2. /\ req[s].pc \in {"arrive", "open"} /\ req[s].answer = "none"
      /\ Early(ses[s]) /\ txn[s] = NoTxn /\ ~ses[s].scope
      /\ req[s].pc = "arrive" => ses[s].cached = {}
  BY <1>1 DEF Arrive, Open, At, Stage
<1>3. Running(req[s]) /\ ~Begun(req[s])
  BY <1>2 DEF Begun, Running
<1>4. /\ "scope" \in OpNames \ {"delete"} /\ "open" \in OpNames \ {"delete"}
  BY DEF OpNames
<1>5. CASE Step(s, ses[s], txn[s], Goto(req[s], "open"))
  <2>1. PICK q : q = Goto(req[s], "open")
    OBVIOUS
  <2>2. /\ q.pc = "open" /\ q.answer = "none" /\ q.used = req[s].used
        /\ q.wset = req[s].wset /\ q.enqueued = req[s].enqueued /\ q.op = req[s].op
    BY <1>1, <1>2, <2>1 DEF Goto, Req
  <2>3. Follows(req[s], q) /\ q.pc # "load"
    BY <2>2 DEF Follows, Begun
  <2>4. Heeds(req[s], q)
    BY <1>1, <1>3, <2>2 DEF Heeds, Told
  <2> QED
    BY <1>1, <1>5, <2>1, <2>3, <2>4, FollowsWrites DEF Step
<1>6. CASE /\ At(s, "arrive")
           /\ Read(s, [ses[s] EXCEPT !.scope = TRUE], "scope", Root, {Root})
  <2>1. PICK S : S = [ses[s] EXCEPT !.scope = TRUE]
    OBVIOUS
  <2>2. /\ S \in Ses /\ S.scope /\ S.cached = ses[s].cached /\ S.dirty = ses[s].dirty
        /\ S.deleted = ses[s].deleted /\ S.lost = ses[s].lost /\ S.raised = ses[s].raised
        /\ S.unit = ses[s].unit /\ S.ups = ses[s].ups /\ S.rem = ses[s].rem
        /\ S.joined = ses[s].joined /\ S.mem = ses[s].mem /\ S.known = ses[s].known
    BY <1>1, <2>1 DEF Ses
  <2>3. Apart(S) /\ Agrees(S, txn[s])
    BY <1>2, <1>6, <2>2, NoTxnParts DEF Apart, Agrees, At
  <2>4. Early(S)
    <3>1. InFlight(S) = InFlight(ses[s])
      BY <2>2 DEF InFlight, Upserted
    <3> QED
      BY <1>2, <2>2, <3>1 DEF Early
  <2>5. Holds(s, S, txn[s], Claim(s, req[s]))
    <3>1. Alike(ses[s], S) /\ Echoes(txn[s], txn[s])
      BY <2>2 DEF Alike, Echoes
    <3> QED
      BY <1>1, <2>2, <3>1, HoldsAlike
  <2>6. /\ Read(s, S, "scope", Root, {Root}) /\ S.cached = {} /\ txn[s].mode # "rw"
        /\ Begun(req[s]) <=> "scope" \notin {"scope", "open"}
    BY <1>2, <1>3, <1>6, <2>1, <2>2, NoTxnParts DEF At
  <2> QED
    BY <1>1, <1>3, <1>4, <2>2, <2>3, <2>4, <2>5, <2>6, ReadWrites
<1>7. CASE Open(s)
  <2>1. /\ Read(s, ses[s], "open", Root, {Root}) /\ txn[s].mode # "ro"
        /\ Begun(req[s]) <=> "open" \notin {"scope", "open"}
    BY <1>2, <1>3, <1>7, NoTxnParts DEF Open
  <2> QED
    BY <1>1, <1>2, <1>3, <1>4, <2>1, ReadWrites
<1> QED
  BY <1>5, <1>6, <1>7 DEF Arrive

LEMMA ScopeWrites ==
    ASSUME TypeOK, LedgerInv, WriteInv, NEW s \in Sessions, ScopeLoaded(s) \/ ExitScope(s)
    PROVE  WriteInv'
<1>1. /\ ses[s] \in Ses /\ txn[s] \in Txn /\ req[s] \in Req
      /\ Apart(ses[s]) /\ Stage(ses[s], txn[s], req[s])
      /\ Holds(s, ses[s], txn[s], Claim(s, req[s]))
      /\ Told(db, outbox, s, txn[s], req[s])
  BY WriteParts
<1>2. CASE ScopeLoaded(s)
  <2>1. PICK r : r = Loaded(s)
    OBVIOUS
  <2>2. PICK q : q = Goto(req[s], "scope")
    OBVIOUS
  <2>3. /\ req[s].op.name = "scope" /\ Ok(r) /\ At(s, "load") /\ Step(s, r.S, r.t, q)
    BY <1>2, <2>1, <2>2 DEF ScopeLoaded, Loading
  <2>4. /\ q.pc = "scope" /\ q.answer = req[s].answer /\ q.used = req[s].used
        /\ q.wset = req[s].wset /\ q.enqueued = req[s].enqueued /\ q.op = req[s].op
        /\ q.run = req[s].run
    BY <1>1, <2>2 DEF Goto, Req
  <2>5. PICK k : k = Bare(Claim(s, req[s])) /\ Holds(s, r.S, r.t, k)
    BY <2>1, <2>3, LoadedWrites
  <2>6. k.used = q.used /\ ~Begun(q)
    BY <2>4, <2>5 DEF Bare, Claim, Begun
  <2>7. Holds(s, r.S, r.t, Claim(s, q))
    BY <2>5, <2>6, UnbegunHolds
  <2>8. Heeds(req[s], q)
    BY <1>1, <2>3, <2>4 DEF Heeds, Told, Running, Begun, At
  <2>9. Told(db, outbox, s, r.t, q)
    BY <1>1, <2>4, <2>8, HeedsTold
  <2> QED
    BY <2>3, <2>7, <2>9, StepWrites
<1>3. CASE ExitScope(s)
  <2>1. Early(ses[s]) /\ req[s].pc = "scope"
    BY <1>1, <1>3 DEF ExitScope, At, Stage
  <2>2. PICK S : S = [ses[s] EXCEPT !.scope = FALSE]
    OBVIOUS
  <2>3. /\ S \in Ses /\ S.cached = ses[s].cached /\ S.dirty = ses[s].dirty
        /\ S.deleted = ses[s].deleted /\ S.lost = ses[s].lost
        /\ S.unit = ses[s].unit /\ S.ups = ses[s].ups /\ S.rem = ses[s].rem
        /\ S.joined = ses[s].joined /\ S.mem = ses[s].mem /\ S.known = ses[s].known
    BY <1>1, <2>2 DEF Ses
  <2>4. PICK q : q = Goto(req[s], IF req[s].answer = "none" THEN "open" ELSE "answered")
    OBVIOUS
  <2>5. /\ q.pc = IF req[s].answer = "none" THEN "open" ELSE "answered"
        /\ q.answer = req[s].answer /\ q.used = req[s].used /\ q.op = req[s].op
        /\ q.wset = req[s].wset /\ q.enqueued = req[s].enqueued /\ q.run = req[s].run
    BY <1>1, <2>4 DEF Goto, Req
  <2>6. Heeds(req[s], q) /\ ~Begun(q) /\ q.pc # "load"
    BY <1>1, <2>1, <2>5 DEF Heeds, Told, Running, Begun
  <2>7. \A t : Told(db, outbox, s, t, q)
    BY <1>1, <2>6, HeedsTold
  <2>8. PICK l : l = Claim(s, q) /\ ~l.begun /\ Holds(s, S, txn[s], l)
    <3>1. PICK l : l = Claim(s, q)
      OBVIOUS
    <3>2. Holds(s, ses[s], txn[s], l) /\ ~l.begun
      <4>1. Claim(s, req[s]).used = q.used
        BY <2>5 DEF Claim
      <4> QED
        BY <1>1, <2>6, <3>1, <4>1, UnbegunHolds
    <3>3. Alike(ses[s], S) /\ Echoes(txn[s], txn[s])
      BY <2>3 DEF Alike, Echoes
    <3>4. Holds(s, S, txn[s], l)
      BY <2>3, <3>2, <3>3, HoldsAlike
    <3> QED
      BY <3>1, <3>2, <3>4
  <2>9. CASE txn[s].mode = "ro"
    <3>1. PICK C : C = IF txn[s].dead THEN Rollback(S) ELSE Promote(S)
      OBVIOUS
    <3>2. Step(s, DropSnapshotReads(C), NoTxn, q)
      BY <1>3, <2>2, <2>4, <2>9, <3>1 DEF ExitScope
    <3>3. Upserted(S) = {} /\ Apart(S)
      BY <1>1, <2>1, <2>3 DEF Early, InFlight, Upserted, Apart
    <3>4. C \in Ses /\ ~InFlight(C) /\ Holds(s, C, txn[s], l)
      <4>1. CASE txn[s].dead
        <5>1. C = Rollback(S)
          BY <3>1, <4>1
        <5> QED
          BY <2>3, <2>8, <3>3, <5>1, RollbackParts, RollbackHolds
      <4>2. CASE ~txn[s].dead
        <5>1. C = Promote(S)
          BY <3>1, <4>2
        <5> QED
          BY <2>3, <2>8, <3>3, <5>1, PromoteParts, PromoteHolds
      <4> QED
        BY <4>1, <4>2
    <3>5. Upserted(C) = {}
      BY <3>4 DEF InFlight
    <3>6. Holds(s, DropSnapshotReads(C), NoTxn, l)
      BY <2>8, <3>4, <3>5, DropHolds, HoldsNone
    <3> QED
      BY <2>7, <2>8, <3>2, <3>6, StepWrites
  <2>10. CASE txn[s].mode # "ro"
    <3>1. Step(s, S, txn[s], q)
      BY <1>3, <2>2, <2>4, <2>10 DEF ExitScope
    <3> QED
      BY <2>7, <2>8, <3>1, StepWrites
  <2> QED
    BY <2>9, <2>10
<1> QED
  BY <1>2, <1>3

LEMMA OpenUnitWrites ==
    ASSUME TypeOK, LedgerInv, WriteInv, NEW s \in Sessions, OpenUnit(s)
    PROVE  WriteInv'
<1>1. /\ req[s] \in Req /\ Told(db, outbox, s, txn[s], req[s])
  BY WriteParts
<1>2. PICK r : r = Loaded(s) /\ r \in Outcome
  <2>1. From(ses[s], Loaded(s))
    BY LoadedFrom
  <2> QED
    BY <2>1 DEF From
<1>3. /\ req[s].op.name = "open" /\ Ok(r) /\ At(s, "load") /\ req[s].pc = "load"
  BY <1>2 DEF OpenUnit, Loading, At
<1>4. /\ r.S \in Ses /\ r.t \in Txn /\ Early(r.S) /\ r.t.mode # "ro"
      /\ req[s].answer = "none"
  BY <1>2, <1>3, LoadedLedger DEF Opens
<1>5. PICK U : U = Unit(r.S) /\ U \in Ses
  BY <1>4, UnitType
<1>6. /\ U.cached = r.S.cached /\ U.dirty = r.S.dirty /\ U.deleted = r.S.deleted
      /\ U.ups = r.S.ups /\ U.rem = r.S.rem /\ U.raised = r.S.raised
      /\ U.joined = r.S.joined /\ U.unit \in {"ro", "rw"} /\ U.mem = r.S.mem
      /\ U.known = r.S.known /\ U.lost = r.S.lost
  BY <1>4, <1>5 DEF Unit, Ses
<1>7. ~U.raised
  BY <1>4, <1>6 DEF Early
<1>8. PICK u : u = UnitEnter(r)
  OBVIOUS
<1>9. u.S = U /\ u.t = r.t /\ Ok(u)
  <2>1. CASE r.t.mode = "none"
    <3>1. u = [r EXCEPT !.S = Unit(@)]
      BY <1>3, <1>8, <2>1 DEF UnitEnter
    <3>2. u.S = U /\ u.t = r.t /\ u.exc = r.exc
      BY <1>2, <1>5, <3>1 DEF Outcome
    <3> QED
      BY <1>3, <3>2 DEF Ok
  <2>2. CASE r.t.mode = "rw"
    <3>0. PICK e : e = Done(U, r.t)
      OBVIOUS
    <3>1. e.S = U /\ e.t = r.t /\ e.exc = "none"
      BY <3>0 DEF Done
    <3>2. u = EnsureTxn(e)
      BY <1>3, <1>5, <1>8, <2>2, <3>0 DEF UnitEnter
    <3>3. Reclaim(e) = e
      BY <2>2, <3>1 DEF Reclaim
    <3>4. BeginWritable(e) = e
      BY <1>7, <2>2, <3>1, <3>3 DEF BeginWritable, Promoted
    <3>5. u = e
      BY <2>2, <3>1, <3>2, <3>3, <3>4 DEF EnsureTxn, Opened
    <3> QED
      BY <3>1, <3>5 DEF Ok
  <2> QED
    BY <1>4, <2>1, <2>2 DEF Txn
<1>10. PICK q : q = Goto(req[s], "body")
  OBVIOUS
<1>11. Step(s, U, r.t, q)
  BY <1>2, <1>8, <1>9, <1>10 DEF OpenUnit
<1>12. /\ q.pc = "body" /\ q.answer = "none" /\ q.used = req[s].used
       /\ q.wset = req[s].wset /\ q.enqueued = req[s].enqueued /\ q.op = req[s].op
  BY <1>1, <1>4, <1>10 DEF Goto, Req
<1>13. q.wset = {} /\ ~q.enqueued
  BY <1>1, <1>3, <1>4, <1>12 DEF Told, Running, Begun
<1>14. PICK l : l = Claim(s, q)
  OBVIOUS
<1>15. /\ l.used = req[s].used /\ ~l.joins /\ l.writes = {} /\ l.loads = {} /\ l.needs = {}
  BY <1>12, <1>13, <1>14 DEF Claim
<1>16. Grounded(s, U, r.t, l.used)
  <2>1. PICK k : k = Bare(Claim(s, req[s])) /\ Holds(s, r.S, r.t, k)
    BY <1>2, <1>3, LoadedWrites
  <2>2. k.used = l.used
    BY <1>15, <2>1 DEF Bare, Claim
  <2>3. Alike(r.S, U) /\ Echoes(r.t, r.t)
    BY <1>6 DEF Alike, Echoes
  <2>4. Grounded(s, r.S, r.t, l.used)
    BY <2>1, <2>2 DEF Holds
  <2> QED
    BY <2>3, <2>4, SoundAlike
<1>17. Claims(outbox, U, r.t, l)
  BY <1>4, <1>6, <1>15 DEF Claims, Tiers
<1>18. Holds(s, U, r.t, l)
  BY <1>16, <1>17 DEF Holds
<1>19. Told(db, outbox, s, r.t, q)
  <2>1. Heeds(req[s], q)
    BY <1>1, <1>12, OnHeeds
  <2> QED
    BY <1>1, <1>12, <2>1, HeedsTold
<1> QED
  BY <1>11, <1>14, <1>18, <1>19, StepWrites

LEMMA RereadWrites ==
    ASSUME TypeOK, LedgerInv, WriteInv, NEW s \in Sessions, BarrierAgain(s) \/ LoadFails(s)
    PROVE  WriteInv'
<1>1. /\ ses[s] \in Ses /\ txn[s] \in Txn /\ req[s] \in Req
      /\ Apart(ses[s]) /\ Agrees(ses[s], txn[s]) /\ Stage(ses[s], txn[s], req[s])
      /\ Holds(s, ses[s], txn[s], Claim(s, req[s]))
      /\ Told(db, outbox, s, txn[s], req[s])
  BY WriteParts
<1>2. /\ Asks(ses[s], txn[s], req[s]) /\ req[s].answer = "none"
      /\ req[s].pc \in {"barrier", "load"}
  BY <1>1 DEF Stage, Asks, BarrierAgain, LoadFails, At
<1>3. PICK n : n = Goto(req[s], "load")
  OBVIOUS
<1>4. /\ n.pc = "load" /\ n.answer = "none" /\ n.used = req[s].used /\ n.run = req[s].run
      /\ n.wset = req[s].wset /\ n.enqueued = req[s].enqueued /\ n.op = req[s].op
  BY <1>1, <1>2, <1>3 DEF Goto, Req
<1>5. Follows(req[s], n) /\ Heeds(req[s], n)
  BY <1>1, <1>2, <1>4 DEF Follows, Heeds, Told, Begun, Running
<1>6. CASE BarrierAgain(s)
  <2>1. Holds(s, ses[s], txn[s], Claim(s, n))
    BY <1>1, <1>5, FollowsHolds
  <2> QED
    BY <1>1, <1>2, <1>3, <1>5, <1>6, <2>1, BarrierWrites DEF BarrierAgain
<1>7. CASE LoadFails(s)
  <2>1. PICK r : r = Loaded(s) /\ r.S \in Ses /\ ~Ok(r)
    BY <1>7, LoadedWrites DEF LoadFails
  <2>2. r.t = NoTxn /\ Holds(s, r.S, NoTxn, Claim(s, req[s]))
    BY <1>7, <2>1, LoadedWrites DEF LoadFails
  <2>3. Holds(s, r.S, r.t, Claim(s, n))
    BY <1>5, <2>2, FollowsHolds
  <2>4. PICK next \in Nat : Retries(s, r, req[s], next)
    <3>1. (IF req[s].tries < 2 THEN 2 ELSE 4) \in Nat
      OBVIOUS
    <3> QED
      BY <1>7, <2>1, <3>1 DEF LoadFails
  <2> QED
    BY <1>1, <1>2, <1>3, <1>5, <2>1, <2>2, <2>3, <2>4, RetriesWrites
<1> QED
  BY <1>6, <1>7

(* The claim of an attempt in its body, which wants nothing read.          *)
Body(s, k) ==
    /\ k.used = req[s].used /\ k.begun /\ k.tag = Tag(s) /\ k.writes = req[s].wset
    /\ k.joins = req[s].enqueued /\ k.loads = {} /\ k.needs = {}

LEMMA BodyHolds ==
    ASSUME TypeOK, LedgerInv, WriteInv, NEW s \in Sessions,
           req[s].pc \in {"body", "caught", "effects"}
    PROVE  /\ req[s].answer = "none" /\ Begun(req[s]) /\ Running(req[s])
           /\ \E k : Body(s, k) /\ Holds(s, ses[s], txn[s], k)
<1>1. /\ Stage(ses[s], txn[s], req[s])
      /\ Holds(s, ses[s], txn[s], Claim(s, req[s]))
  BY WriteParts
<1>2. req[s].answer = "none"
  BY <1>1 DEF Stage
<1>3. Begun(req[s]) /\ Running(req[s])
  BY <1>2 DEF Begun, Running
<1>4. Body(s, Claim(s, req[s]))
  BY <1>3 DEF Body, Claim, Tag
<1> QED
  BY <1>1, <1>2, <1>3, <1>4

LEMMA LoadedBody ==
    ASSUME TypeOK, LedgerInv, WriteInv, NEW s \in Sessions, At(s, "load"),
           Ok(Loaded(s)), req[s].op.name \notin {"scope", "open"}
    PROVE  /\ req[s].answer = "none" /\ Loaded(s).S \in Ses
           /\ req[s].op.name = "count" => Root \in Loaded(s).S.cached
           /\ \E k : Body(s, k) /\ Holds(s, Loaded(s).S, Loaded(s).t, k)
<1>1. req[s].answer = "none" /\ req[s].pc = "load"
  BY WriteParts DEF Stage, At
<1>2. Begun(req[s])
  BY <1>1 DEF Begun, Running
<1>3. Body(s, Bare(Claim(s, req[s])))
  BY <1>2 DEF Body, Bare, Claim, Tag
<1>4. PICK r : r = Loaded(s)
  OBVIOUS
<1>5. /\ r.S \in Ses /\ Holds(s, r.S, r.t, Bare(Claim(s, req[s])))
      /\ req[s].op.name = "count" => Root \in r.S.cached
  BY <1>2, <1>4, LoadedWrites
<1> QED
  BY <1>1, <1>3, <1>4, <1>5

(* A step of an attempt that goes on, with another claim or the same.      *)
LEMMA BodyStep ==
    ASSUME TypeOK, LedgerInv, WriteInv, NEW s \in Sessions, NEW S, NEW t, NEW p,
           Step(s, S, t, p), Holds(s, S, t, Claim(s, p)),
           p.pc \in {"body", "caught", "handler", "flush", "effects"},
           p.answer = "none", p.op = req[s].op
    PROVE  WriteInv'
<1>1. Told(db, outbox, s, txn[s], req[s])
  BY WriteParts
<1>2. Heeds(req[s], p) /\ p.pc # "load"
  BY <1>1, OnHeeds
<1>3. Told(db, outbox, s, t, p)
  BY <1>1, <1>2, HeedsTold
<1> QED
  BY <1>3, StepWrites

LEMMA BodyGoesOn ==
    ASSUME TypeOK, LedgerInv, WriteInv, NEW s \in Sessions, NEW S, NEW t, NEW p, NEW k,
           Body(s, k), Holds(s, S, t, k), Step(s, S, t, p),
           p.pc \in {"body", "caught", "handler", "flush", "effects"},
           p.answer = "none", p.op = req[s].op, p.used = req[s].used,
           p.run = req[s].run, p.wset = req[s].wset, p.enqueued = req[s].enqueued
    PROVE  WriteInv'
<1>1. PICK l : l = Claim(s, p)
  OBVIOUS
<1>2. /\ l.used = k.used /\ l.tag = k.tag /\ l.joins = k.joins /\ l.writes = k.writes
      /\ l.loads = {} /\ l.needs = {} /\ k.begun
  BY <1>1 DEF Body, Claim, Tag
<1>3. Holds(s, S, t, l)
  BY <1>2, HoldsLess
<1> QED
  BY <1>1, <1>3, BodyStep

LEMMA CountedParts ==
    ASSUME TypeOK, NEW s \in Sessions
    PROVE  LET G == Counted(s)
               q == req[s]
           IN  /\ G \in Req /\ G.pc = q.pc /\ G.answer = q.answer /\ G.op = q.op
               /\ G.used = q.used /\ G.run = q.run /\ G.wset = q.wset
               /\ G.enqueued = q.enqueued
<1>1. req[s] \in Req
  BY PartsType
<1> QED
  BY <1>1, CountedType DEF Counted, Req

LEMMA WalkerReadsWrites ==
    ASSUME TypeOK, LedgerInv, WriteInv, "delete" \notin Ops, NEW s \in Sessions,
           Get(s) \/ FindChild(s) \/ ReadOp(s) \/ FoundOp(s)
    PROVE  WriteInv'
<1>1. /\ ses[s] \in Ses /\ req[s] \in Req /\ Root \in Ids
      /\ Apart(ses[s]) /\ Agrees(ses[s], txn[s])
      /\ Holds(s, ses[s], txn[s], Claim(s, req[s]))
  BY WriteParts
<1>2. PICK G : G = Counted(s)
  OBVIOUS
<1>3. /\ G \in Req /\ G.pc = req[s].pc /\ G.answer = req[s].answer /\ G.op = req[s].op
      /\ G.used = req[s].used /\ G.run = req[s].run /\ G.wset = req[s].wset
      /\ G.enqueued = req[s].enqueued
  BY <1>2, CountedParts
<1>4. CASE Get(s) \/ FindChild(s)
  <2>1. PICK name \in OpNames \ {"delete", "scope", "open", "effect"},
             id \in Ids, L \in SUBSET Ids :
          /\ Read(s, ses[s], name, id, L) /\ At(s, "body")
          /\ Root \in L \/ name # "count"
    <3>1. CASE Get(s)
      <4>1. PICK name \in {"read", "write", "mutate", "delete"}, id \in Targets :
              CanOp(s, name) /\ Read(s, ses[s], name, id, {id})
        BY <3>1 DEF Get
      <4>2. name \in OpNames \ {"delete", "scope", "open", "effect"} /\ At(s, "body")
            /\ name # "count"
        BY <4>1 DEF CanOp, OpNames
      <4>3. id \in Ids /\ {id} \in SUBSET Ids
        BY RequestAssumption
      <4> QED
        BY <4>1, <4>2, <4>3
    <3>2. CASE FindChild(s)
      <4>1. PICK name \in {"find", "count"} :
              /\ CanOp(s, name)
              /\ Read(s, ses[s], name, Root,
                      IF name = "count" THEN Children \cup {Root} ELSE Children)
        BY <3>2 DEF FindChild
      <4>2. PICK L : L = IF name = "count" THEN Children \cup {Root} ELSE Children
        OBVIOUS
      <4>3. name \in OpNames \ {"delete", "scope", "open", "effect"} /\ At(s, "body")
        BY <4>1 DEF CanOp, OpNames
      <4>4. L \in SUBSET Ids
        BY <1>1, <4>2, MintType
      <4>5. Root \in L \/ name # "count"
        BY <4>2
      <4> QED
        BY <1>1, <4>1, <4>2, <4>3, <4>4, <4>5
    <3> QED
      BY <1>4, <3>1, <3>2
  <2>2. Running(req[s]) /\ Begun(req[s])
    BY <2>1, BodyHolds DEF At
  <2>3. /\ Begun(req[s]) <=> name \notin {"scope", "open"}
        /\ name \in OpNames \ {"delete"} /\ name # "effect"
    BY <2>2
  <2> QED
    BY <1>1, <2>1, <2>2, <2>3, ReadWrites
<1>5. CASE ReadOp(s) \/ FoundOp(s)
  <2>1. PICK p : p = Goto(G, "body")
    OBVIOUS
  <2>2. PICK r : r = Loaded(s)
    OBVIOUS
  <2>3. /\ At(s, "load") /\ Ok(Loaded(s)) /\ req[s].op.name \notin {"scope", "open"}
        /\ Step(s, r.S, r.t, p)
    BY <1>2, <1>5, <2>1, <2>2 DEF ReadOp, FoundOp, Loading
  <2>4. PICK k : Body(s, k) /\ Holds(s, r.S, r.t, k) /\ req[s].answer = "none"
    BY <2>2, <2>3, LoadedBody
  <2>5. /\ p.pc = "body" /\ p.answer = req[s].answer /\ p.op = req[s].op
        /\ p.used = req[s].used /\ p.run = req[s].run /\ p.wset = req[s].wset
        /\ p.enqueued = req[s].enqueued
    BY <1>3, <2>1 DEF Goto, Req
  <2> QED
    BY <2>3, <2>4, <2>5, BodyGoesOn
<1> QED
  BY <1>4, <1>5

(* An anchor the walker has read is written.                               *)
LEMMA ChangeWrites ==
    ASSUME TypeOK, LedgerInv, WriteInv, NEW s \in Sessions, WriteOp(s) \/ MutateOp(s)
    PROVE  WriteInv'
<1>1. PICK id \in Ids : id = req[s].op.id
  <2>1. req[s] \in Req
    BY WriteParts
  <2> QED
    BY <2>1 DEF Req, Op
<1>2. PICK G : G = Counted(s)
  OBVIOUS
<1>3. /\ G \in Req /\ G.pc = req[s].pc /\ G.answer = req[s].answer /\ G.op = req[s].op
      /\ G.used = req[s].used /\ G.run = req[s].run /\ G.wset = req[s].wset
      /\ G.enqueued = req[s].enqueued
  BY <1>2, CountedParts
<1>4. PICK r : r = Loaded(s)
  OBVIOUS
<1>5. /\ At(s, "load") /\ Ok(Loaded(s)) /\ req[s].op.name \notin {"scope", "open"}
      /\ id \in r.S.cached
  BY <1>1, <1>4 DEF WriteOp, MutateOp, Finds, Found, Loading
<1>6. PICK k : /\ Body(s, k) /\ Holds(s, r.S, r.t, k) /\ req[s].answer = "none"
               /\ r.S \in Ses
  BY <1>4, <1>5, LoadedBody
<1>7. PICK p : p = [G EXCEPT !.pc = "body", !.wset = @ \cup {id}]
  OBVIOUS
<1>8. /\ p.pc = "body" /\ p.answer = "none" /\ p.op = req[s].op
      /\ p.used = req[s].used /\ p.run = req[s].run /\ p.wset = req[s].wset \cup {id}
      /\ p.enqueued = req[s].enqueued
  BY <1>3, <1>6, <1>7 DEF Req
<1>9. PICK S : /\ S = Write(r.S, id, Tag(s)) \/ S = Mutate(r.S, id, Tag(s))
               /\ Step(s, S, r.t, p)
  BY <1>1, <1>2, <1>4, <1>7 DEF WriteOp, MutateOp
<1>10. PICK l : l = Claim(s, p)
  OBVIOUS
<1>11. /\ l.used = k.used /\ l.tag = k.tag /\ l.joins = k.joins
       /\ l.writes \subseteq k.writes \cup {id} /\ l.loads = {} /\ l.needs = {}
       /\ k.begun /\ k.tag = Tag(s)
  BY <1>6, <1>8, <1>10 DEF Body, Claim, Tag
<1>12. Holds(s, S, r.t, l)
  BY <1>5, <1>6, <1>9, <1>11, WriteHolds
<1> QED
  BY <1>8, <1>9, <1>10, <1>12, BodyStep

(* A new anchor, on its own or with the count on Root.                     *)
LEMMA CreateWrites ==
    ASSUME TypeOK, LedgerInv, WriteInv, NEW s \in Sessions,
           FindOrCreateOp(s) \/ FindOrCountOp(s) \/ CreateOp(s)
    PROVE  WriteInv'
<1>1. ses[s] \in Ses /\ req[s] \in Req /\ Root \in Ids /\ Tag(s) \in Tags
  BY WriteParts
<1>2. PICK G : G = Counted(s)
  OBVIOUS
<1>3. /\ G \in Req /\ G.pc = req[s].pc /\ G.answer = req[s].answer /\ G.op = req[s].op
      /\ G.used = req[s].used /\ G.run = req[s].run /\ G.wset = req[s].wset
      /\ G.enqueued = req[s].enqueued
  BY <1>2, CountedParts
<1>4. ASSUME NEW S \in Ses, NEW t, NEW k, Body(s, k), Holds(s, S, t, k),
             NEW id \in Mint[s] \ req[s].used, NEW p, p.pc = "body",
             p.answer = "none", p.op = req[s].op, p.run = req[s].run,
             p.enqueued = req[s].enqueued, p.used = req[s].used \cup {id},
             \/ /\ p.wset = req[s].wset \cup {id} /\ Step(s, Put(S, id, Tag(s)), t, p)
             \/ /\ p.wset = req[s].wset \cup {id, Root} /\ Root \in S.cached
                /\ Step(s, Write(Put(S, id, Tag(s)), Root, Tag(s)), t, p)
      PROVE  WriteInv'
  <2>1. id \in Ids
    BY <1>4, MintType
  <2>2. PICK m : m = [used |-> k.used \cup {id}, begun |-> TRUE, tag |-> k.tag,
                      writes |-> k.writes \cup {id}, joins |-> k.joins,
                      loads |-> {}, needs |-> {}]
    OBVIOUS
  <2>3. /\ m.used = k.used \cup {id} /\ m.tag = k.tag /\ m.joins = k.joins /\ m.begun
        /\ m.writes = k.writes \cup {id} /\ m.loads = {} /\ m.needs = {}
    BY <2>2
  <2>4. k.begun /\ k.tag = Tag(s) /\ id \in Mint[s] \ k.used
    BY <1>4 DEF Body
  <2>5. PICK P \in Ses : P = Put(S, id, Tag(s))
    BY <1>1, <1>4, <2>1, WriteKeeps DEF Keeps
  <2>6. Holds(s, P, t, m) /\ P.cached = S.cached \cup {id}
    BY <1>4, <2>1, <2>3, <2>4, <2>5, PutHolds
  <2>7. PICK l : l = Claim(s, p)
    OBVIOUS
  <2>8. /\ l.used = m.used /\ l.tag = m.tag /\ l.joins = m.joins
        /\ l.loads = {} /\ l.needs = {} /\ m.begun /\ l.writes = p.wset
    BY <1>4, <2>3, <2>7 DEF Body, Claim, Tag
  <2>9. CASE p.wset = req[s].wset \cup {id} /\ Step(s, P, t, p)
    <3>1. l.writes = m.writes
      BY <1>4, <2>3, <2>8, <2>9 DEF Body
    <3>2. Holds(s, P, t, l)
      BY <2>3, <2>6, <2>8, <3>1, HoldsLess
    <3> QED
      BY <1>4, <2>7, <2>9, <3>2, BodyStep
  <2>10. CASE /\ p.wset = req[s].wset \cup {id, Root} /\ Root \in S.cached
              /\ Step(s, Write(P, Root, Tag(s)), t, p)
    <3>1. l.writes \subseteq m.writes \cup {Root}
      BY <1>4, <2>3, <2>8, <2>10 DEF Body
    <3>2. Root \in P.cached /\ m.tag = Tag(s)
      BY <2>3, <2>4, <2>6, <2>10
    <3>3. Holds(s, Write(P, Root, Tag(s)), t, l)
      BY <1>1, <2>6, <2>8, <3>1, <3>2, WriteHolds
    <3> QED
      BY <1>4, <2>7, <2>10, <3>3, BodyStep
  <2> QED
    BY <1>4, <2>5, <2>9, <2>10
<1>5. CASE FindOrCreateOp(s) \/ FindOrCountOp(s)
  <2>1. PICK r : r = Loaded(s)
    OBVIOUS
  <2>2. /\ At(s, "load") /\ Ok(Loaded(s)) /\ req[s].op.name \notin {"scope", "open"}
    BY <1>5 DEF FindOrCreateOp, FindOrCountOp, Loading
  <2>3. PICK k : /\ Body(s, k) /\ Holds(s, r.S, r.t, k) /\ req[s].answer = "none"
                 /\ r.S \in Ses
    BY <2>1, <2>2, LoadedBody
  <2>4. req[s].op.name = "count" => Root \in r.S.cached
    BY <2>1, <2>2, LoadedBody
  <2>5. CASE FindOrCreateOp(s)
    <3>0. PICK id \in Mint[s] \ req[s].used :
            Step(s, Put(r.S, id, Tag(s)), r.t,
                 [G EXCEPT !.pc = "body", !.wset = @ \cup {id}, !.used = @ \cup {id}])
      BY <1>2, <2>1, <2>5 DEF FindOrCreateOp
    <3>1. PICK p :
            /\ p = [G EXCEPT !.pc = "body", !.wset = @ \cup {id}, !.used = @ \cup {id}]
            /\ Step(s, Put(r.S, id, Tag(s)), r.t, p)
      BY <3>0
    <3>2. /\ p.pc = "body" /\ p.answer = "none" /\ p.op = req[s].op
          /\ p.run = req[s].run /\ p.enqueued = req[s].enqueued
          /\ p.used = req[s].used \cup {id} /\ p.wset = req[s].wset \cup {id}
      BY <1>3, <2>3, <3>1 DEF Req
    <3> QED
      BY <1>4, <2>3, <3>1, <3>2
  <2>6. CASE FindOrCountOp(s)
    <3>0. PICK id \in Mint[s] \ req[s].used :
            Step(s, Write(Put(r.S, id, Tag(s)), Root, Tag(s)), r.t,
                 [G EXCEPT !.pc = "body", !.wset = @ \cup {id, Root},
                           !.used = @ \cup {id}])
      BY <1>2, <2>1, <2>6 DEF FindOrCountOp
    <3>1. PICK p :
            /\ p = [G EXCEPT !.pc = "body", !.wset = @ \cup {id, Root},
                             !.used = @ \cup {id}]
            /\ Step(s, Write(Put(r.S, id, Tag(s)), Root, Tag(s)), r.t, p)
      BY <3>0
    <3>2. Root \in r.S.cached
      BY <2>4, <2>6 DEF FindOrCountOp, Loading
    <3>3. /\ p.pc = "body" /\ p.answer = "none" /\ p.op = req[s].op
          /\ p.run = req[s].run /\ p.enqueued = req[s].enqueued
          /\ p.used = req[s].used \cup {id} /\ p.wset = req[s].wset \cup {id, Root}
      BY <1>3, <2>3, <3>1 DEF Req
    <3> QED
      BY <1>4, <2>3, <3>1, <3>2, <3>3
  <2> QED
    BY <1>5, <2>5, <2>6
<1>6. CASE CreateOp(s)
  <2>0. PICK id \in Mint[s] \ req[s].used :
          Step(s, Put(ses[s], id, Tag(s)), txn[s],
               [G EXCEPT !.wset = @ \cup {id}, !.used = @ \cup {id}])
    BY <1>2, <1>6 DEF CreateOp
  <2>1. PICK p :
          /\ p = [G EXCEPT !.wset = @ \cup {id}, !.used = @ \cup {id}]
          /\ Step(s, Put(ses[s], id, Tag(s)), txn[s], p)
    BY <2>0
  <2>2. req[s].pc = "body"
    BY <1>6 DEF CreateOp, CanOp, At
  <2>3. PICK k : Body(s, k) /\ Holds(s, ses[s], txn[s], k) /\ req[s].answer = "none"
    BY <2>2, BodyHolds
  <2>4. /\ p.pc = "body" /\ p.answer = "none" /\ p.op = req[s].op
        /\ p.run = req[s].run /\ p.enqueued = req[s].enqueued
        /\ p.used = req[s].used \cup {id} /\ p.wset = req[s].wset \cup {id}
    BY <1>3, <2>1, <2>2, <2>3 DEF Req
  <2> QED
    BY <1>1, <1>4, <2>1, <2>3, <2>4
<1> QED
  BY <1>5, <1>6

LEMMA EnqueueWrites ==
    ASSUME TypeOK, LedgerInv, WriteInv, NEW s \in Sessions, EnqueueOp(s)
    PROVE  WriteInv'
<1>1. /\ ses[s] \in Ses /\ txn[s] \in Txn /\ req[s] \in Req /\ StoreReady
      /\ Apart(ses[s]) /\ Agrees(ses[s], txn[s]) /\ Idle(txn[s])
      /\ Times(db, stamp, clock)
  BY WriteParts
<1>2. PICK G : G = Counted(s)
  OBVIOUS
<1>3. /\ G \in Req /\ G.pc = req[s].pc /\ G.answer = req[s].answer /\ G.op = req[s].op
      /\ G.used = req[s].used /\ G.run = req[s].run /\ G.wset = req[s].wset
      /\ G.enqueued = req[s].enqueued
  BY <1>2, CountedParts
<1>4. req[s].pc = "body" /\ ~req[s].enqueued
  BY DEF EnqueueOp, CanOp, At
<1>5. PICK k : Body(s, k) /\ Holds(s, ses[s], txn[s], k) /\ req[s].answer = "none"
  BY <1>4, BodyHolds
<1>6. PICK d : d = Done(ses[s], txn[s])
  OBVIOUS
<1>7. Fits(ses[s], d) /\ d.S = ses[s] /\ d.t = txn[s]
  <2>1. Fits(ses[s], Done(ses[s], txn[s]))
    BY <1>1, FitsSelf
  <2> QED
    BY <1>6, <2>1 DEF Done
<1>8. PICK r : r = Join(d, k.tag)
  OBVIOUS
<1>9. r = Join(Done(ses[s], txn[s]), Tag(s))
  BY <1>5, <1>6, <1>8 DEF Body
<1>10. Holds(s, d.S, d.t, k) /\ ~k.joins
  BY <1>4, <1>5, <1>7 DEF Body
<1>11. CASE Ok(r)
  <2>1. PICK p : p = [G EXCEPT !.enqueued = TRUE]
    OBVIOUS
  <2>2. Step(s, r.S, r.t, p)
    BY <1>2, <1>9, <1>11, <2>1 DEF EnqueueOp
  <2>3. /\ p.pc = "body" /\ p.answer = "none" /\ p.op = req[s].op
        /\ p.run = req[s].run /\ p.used = req[s].used /\ p.wset = req[s].wset
    BY <1>3, <1>4, <1>5, <2>1 DEF Req
  <2>4. PICK l : l = Claim(s, p)
    OBVIOUS
  <2>5. /\ l.used = k.used /\ l.tag = k.tag /\ l.writes = k.writes
        /\ l.loads = {} /\ l.needs = {} /\ k.begun
    BY <1>5, <2>3, <2>4 DEF Body, Claim, Tag
  <2>6. Holds(s, r.S, r.t, l)
    BY <1>1, <1>7, <1>8, <1>10, <1>11, <2>5, JoinHolds
  <2> QED
    BY <2>2, <2>3, <2>4, <2>6, BodyStep
<1>12. CASE ~Ok(r)
  <2>1. PICK p : p = [G EXCEPT !.pc = "caught", !.exc = r.exc]
    OBVIOUS
  <2>2. Step(s, r.S, r.t, p)
    BY <1>2, <1>9, <1>12, <2>1 DEF EnqueueOp
  <2>3. /\ p.pc = "caught" /\ p.answer = "none" /\ p.op = req[s].op
        /\ p.run = req[s].run /\ p.used = req[s].used /\ p.wset = req[s].wset
        /\ p.enqueued = req[s].enqueued
    BY <1>3, <1>5, <2>1 DEF Req
  <2>4. PICK l : l = k
    OBVIOUS
  <2>5. l.used = k.used /\ (l.begun => k.begun) /\ l.tag = k.tag /\ l.writes = k.writes
        /\ l.loads = {} /\ l.needs = {}
    BY <1>5, <2>4 DEF Body
  <2>6. Holds(s, r.S, r.t, k)
    BY <1>1, <1>7, <1>8, <1>10, <1>12, <2>5, JoinHolds
  <2> QED
    BY <1>5, <2>2, <2>3, <2>6, BodyGoesOn
<1> QED
  BY <1>11, <1>12

LEMMA WalkerWrites ==
    ASSUME TypeOK, LedgerInv, WriteInv, "delete" \notin Ops, NEW s \in Sessions, Walker(s)
    PROVE  WriteInv'
<1>1. req[s] \in Req /\ Told(db, outbox, s, txn[s], req[s])
  BY WriteParts
<1>2. PICK G : G = Counted(s)
  OBVIOUS
<1>3. /\ G \in Req /\ G.pc = req[s].pc /\ G.answer = req[s].answer /\ G.op = req[s].op
      /\ G.used = req[s].used /\ G.run = req[s].run /\ G.wset = req[s].wset
      /\ G.enqueued = req[s].enqueued
  BY <1>2, CountedParts
<1>4. ASSUME NEW p, Step(s, ses[s], txn[s], p), req[s].pc \in {"body", "caught"},
             p.pc \in {"body", "caught", "handler", "flush"},
             p.answer = req[s].answer, p.op = req[s].op, p.used = req[s].used,
             p.run = req[s].run, p.wset = req[s].wset, p.enqueued = req[s].enqueued
      PROVE  WriteInv'
  <2>1. PICK k : Body(s, k) /\ Holds(s, ses[s], txn[s], k) /\ req[s].answer = "none"
    BY <1>4, BodyHolds
  <2> QED
    BY <1>4, <2>1, BodyGoesOn
<1>5. CASE OnCommitOp(s) \/ WalkEnds(s) \/ FailOp(s)
  <2>1. G.pc = "body" /\ req[s].pc = "body"
    BY <1>3, <1>5 DEF OnCommitOp, WalkEnds, FailOp, CanOp, At
  <2>2. PICK p : /\ Step(s, ses[s], txn[s], p)
                 /\ \/ p = [G EXCEPT !.effect = TRUE]
                    \/ p = [G EXCEPT !.pc = "flush", !.kind = "walk", !.tries = 0]
                    \/ p = [G EXCEPT !.pc = "handler", !.exc = "app"]
    BY <1>2, <1>5 DEF OnCommitOp, WalkEnds, FailOp, Throw
  <2>3. /\ p.pc \in {"body", "flush", "handler"} /\ p.answer = req[s].answer
        /\ p.op = req[s].op /\ p.used = req[s].used /\ p.run = req[s].run
        /\ p.wset = req[s].wset /\ p.enqueued = req[s].enqueued
    BY <1>3, <2>1, <2>2 DEF Req
  <2> QED
    BY <1>4, <2>1, <2>2, <2>3
<1>6. CASE Propagate(s) \/ Swallow(s) \/ Return(s)
  <2>1. PICK p : /\ Step(s, ses[s], txn[s], p)
                 /\ \/ p = [req[s] EXCEPT !.pc = "handler"]
                    \/ p = [req[s] EXCEPT !.pc = "body", !.exc = "none"]
                    \/ p = [req[s] EXCEPT !.pc = "flush", !.kind = "final", !.tries = 0]
    BY <1>6 DEF Propagate, Swallow, Return, Goto
  <2>2. req[s].pc \in {"caught", "body"}
    BY <1>6 DEF Propagate, Swallow, Return, At
  <2>3. /\ p.pc \in {"body", "flush", "handler"} /\ p.answer = req[s].answer
        /\ p.op = req[s].op /\ p.used = req[s].used /\ p.run = req[s].run
        /\ p.wset = req[s].wset /\ p.enqueued = req[s].enqueued
    BY <1>1, <2>1 DEF Req
  <2> QED
    BY <1>4, <2>1, <2>2, <2>3
<1>7. ~DeleteOp(s)
  BY <1>1 DEF DeleteOp, Finds, Loading, Told
<1> QED
  BY <1>5, <1>6, <1>7, WalkerReadsWrites, ChangeWrites, CreateWrites, EnqueueWrites
     DEF Walker

-----------------------------------------------------------------------------
(* Effects, the conflict loop and the end                                  *)

LEMMA EffectsWrites ==
    ASSUME TypeOK, LedgerInv, WriteInv, NEW s \in Sessions,
           \/ NoEffect(s) \/ PlainEffect(s) \/ WritingEffect(s) \/ EffectWrites(s)
    PROVE  WriteInv'
<1>1. /\ ses[s] \in Ses /\ req[s] \in Req /\ Root \in Ids /\ {Root} \in SUBSET Ids
      /\ Apart(ses[s]) /\ Agrees(ses[s], txn[s])
      /\ Holds(s, ses[s], txn[s], Claim(s, req[s]))
      /\ Told(db, outbox, s, txn[s], req[s])
  BY WriteParts
<1>2. PICK F : F = Fired(s)
  OBVIOUS
<1>3. /\ F \in Req /\ F.pc = req[s].pc /\ F.answer = req[s].answer /\ F.op = req[s].op
      /\ F.used = req[s].used /\ F.run = req[s].run /\ F.wset = req[s].wset
      /\ F.enqueued = req[s].enqueued
  BY <1>1, <1>2, FiredType DEF Fired, Req
<1>4. CASE NoEffect(s) \/ PlainEffect(s)
  <2>1. req[s].pc = "effects"
    BY <1>4 DEF NoEffect, PlainEffect, At
  <2>2. PICK p : /\ Step(s, ses[s], txn[s], p)
                 /\ \/ p = [req[s] EXCEPT !.pc = "flush", !.kind = "outer", !.tries = 0]
                    \/ p = F
    BY <1>2, <1>4 DEF NoEffect, PlainEffect
  <2>3. /\ p.pc \in {"flush", "effects"} /\ p.answer = req[s].answer
        /\ p.op = req[s].op /\ p.used = req[s].used /\ p.run = req[s].run
        /\ p.wset = req[s].wset /\ p.enqueued = req[s].enqueued
    BY <1>1, <1>3, <2>1, <2>2 DEF Req
  <2>4. PICK k : Body(s, k) /\ Holds(s, ses[s], txn[s], k) /\ req[s].answer = "none"
    BY <2>1, BodyHolds
  <2> QED
    BY <2>2, <2>3, <2>4, BodyGoesOn
<1>5. CASE WritingEffect(s)
  <2>1. Read(s, ses[s], "effect", Root, {Root}) /\ req[s].pc = "effects"
    BY <1>5 DEF WritingEffect, At
  <2>2. "effect" \in OpNames \ {"delete"}
    BY DEF OpNames
  <2>3. Running(req[s]) /\ (Begun(req[s]) <=> "effect" \notin {"scope", "open"})
    BY <2>1, BodyHolds
  <2> QED
    BY <1>1, <2>1, <2>2, <2>3, ReadWrites
<1>6. CASE EffectWrites(s)
  <2>1. PICK r : r = Loaded(s)
    OBVIOUS
  <2>2. /\ At(s, "load") /\ Ok(Loaded(s)) /\ req[s].op.name = "effect"
        /\ req[s].op.id \in r.S.cached
    BY <1>6, <2>1 DEF EffectWrites, Finds, Loading, Found
  <2>3. Root \in r.S.cached
    BY <1>1, <2>2 DEF Told
  <2>4. PICK k : /\ Body(s, k) /\ Holds(s, r.S, r.t, k) /\ req[s].answer = "none"
                 /\ r.S \in Ses
    BY <2>1, <2>2, LoadedBody
  <2>5. PICK p : p = [F EXCEPT !.pc = "effects", !.wset = @ \cup {Root}]
    OBVIOUS
  <2>6. Step(s, Write(r.S, Root, Tag(s)), r.t, p)
    BY <1>2, <1>6, <2>1, <2>5 DEF EffectWrites
  <2>7. /\ p.pc = "effects" /\ p.answer = "none" /\ p.op = req[s].op
        /\ p.used = req[s].used /\ p.run = req[s].run
        /\ p.wset = req[s].wset \cup {Root} /\ p.enqueued = req[s].enqueued
    BY <1>3, <2>4, <2>5 DEF Req
  <2>8. PICK l : l = Claim(s, p)
    OBVIOUS
  <2>9. /\ l.used = k.used /\ l.tag = k.tag /\ l.joins = k.joins
        /\ l.writes \subseteq k.writes \cup {Root} /\ l.loads = {} /\ l.needs = {}
        /\ k.begun /\ k.tag = Tag(s)
    BY <2>4, <2>7, <2>8 DEF Body, Claim, Tag
  <2>10. Holds(s, Write(r.S, Root, Tag(s)), r.t, l)
    BY <1>1, <2>3, <2>4, <2>9, WriteHolds
  <2> QED
    BY <2>6, <2>7, <2>8, <2>10, BodyStep
<1> QED
  BY <1>4, <1>5, <1>6

(* A session whose unit ends claims nothing.                               *)
LEMMA EndsUnit ==
    ASSUME NEW s, NEW S \in Ses, NEW t, NEW k, Holds(s, S, t, k), ~k.begun
    PROVE  Holds(s, [S EXCEPT !.unit = "none", !.raised = FALSE], t, k)
<1>1. PICK R : R = [S EXCEPT !.unit = "none", !.raised = FALSE]
  OBVIOUS
<1>2. /\ R.cached = S.cached /\ R.dirty = S.dirty /\ R.deleted = S.deleted
      /\ R.lost = S.lost /\ R.ups = S.ups /\ R.rem = S.rem
      /\ R.joined = S.joined /\ R.mem = S.mem /\ R.known = S.known
  BY <1>1 DEF Ses
<1>3. Alike(S, R) /\ Echoes(t, t)
  BY <1>2 DEF Alike, Echoes
<1> QED
  BY <1>1, <1>3, HoldsAlike

LEMMA ReplyWrites ==
    ASSUME TypeOK, LedgerInv, WriteInv, NEW s \in Sessions,
           NEW a \in Answers \ {"none", "ok"}, Reply(s, a)
    PROVE  WriteInv'
<1>1. /\ ses[s] \in Ses /\ req[s] \in Req /\ StoreReady
      /\ Holds(s, ses[s], txn[s], Claim(s, req[s]))
      /\ Told(db, outbox, s, txn[s], req[s])
  BY WriteParts
<1>2. PICK q : q = [req[s] EXCEPT !.pc = "close", !.answer = a, !.effect = FALSE]
  OBVIOUS
<1>3. q.pc = "close" /\ q.answer = a /\ q.used = req[s].used /\ q.op = req[s].op
  BY <1>1, <1>2 DEF Req
<1>4. ~Begun(q) /\ Heeds(req[s], q) /\ q.pc # "load"
  BY <1>1, <1>3 DEF Begun, Running, Heeds, Told
<1>5. PICK l : l = Claim(s, q) /\ l.used = q.used /\ ~l.begun
  <2>1. Claim(s, q).used = q.used /\ ~Claim(s, q).begun
    BY <1>4 DEF Claim
  <2> QED
    BY <2>1
<1>6. Claim(s, req[s]).used = l.used
  BY <1>3, <1>5 DEF Claim
<1>7. PICK B \in Ses : B = Abort(ses[s])
  BY <1>1, AbortParts
<1>8. Holds(s, B, NoTxn, l)
  BY <1>1, <1>5, <1>6, <1>7, AbortHolds
<1>9. Holds(s, [B EXCEPT !.unit = "none", !.raised = FALSE], NoTxn, l)
  BY <1>5, <1>8, EndsUnit
<1>10. Told(db, outbox, s, NoTxn, q)
  BY <1>1, <1>4, HeedsTold
<1> QED
  BY <1>2, <1>5, <1>7, <1>9, <1>10, StepWrites DEF Reply

LEMMA RerunWrites ==
    ASSUME TypeOK, LedgerInv, WriteInv, NEW s \in Sessions, NEW S \in Ses,
           Holds(s, S, txn[s], Claim(s, req[s])),
           NEW pc \in {"turn", "reload"}, NEW n, Rerun(s, S, pc, n),
           req[s].answer = "none"
    PROVE  WriteInv'
<1>1. /\ req[s] \in Req /\ StoreReady /\ Told(db, outbox, s, txn[s], req[s])
  BY WriteParts
<1>2. PICK R \in Ses : R = Reenter(S)
  BY UnitType DEF Reenter
<1>3. R.unit # "none" /\ R.cached = S.cached /\ R.known = S.known /\ R.ups = S.ups
      /\ R.rem = S.rem /\ R.deleted = S.deleted /\ R.lost = S.lost /\ R.dirty = S.dirty
      /\ R.mem = S.mem
  BY <1>2 DEF Reenter, Unit, Ses
<1>4. PICK q : q = [req[s] EXCEPT !.pc = pc, !.exc = "none", !.attempt = n,
                !.roRetries = @ + (IF req[s].exc = "ro" THEN 1 ELSE 0),
                !.committed = FALSE, !.effect = FALSE, !.ops = 0,
                !.run = @ + 1, !.wset = {}, !.dset = {},
                !.enqueued = FALSE, !.saved = FALSE]
  OBVIOUS
<1>5. /\ q.pc = pc /\ q.answer = "none" /\ q.used = req[s].used /\ q.op = req[s].op
      /\ q.wset = {} /\ q.enqueued = FALSE
  BY <1>1, <1>4 DEF Req
<1>6. PICK l : l = Claim(s, q)
  OBVIOUS
<1>7. /\ l.used = req[s].used /\ ~l.joins /\ l.writes = {} /\ l.loads = {} /\ l.needs = {}
  BY <1>5, <1>6 DEF Claim
<1>8. Holds(s, Abort(R), NoTxn, l)
  <2>1. PICK m : m = [used |-> req[s].used, begun |-> FALSE]
    OBVIOUS
  <2>2. Holds(s, S, txn[s], m) /\ ~m.begun /\ m.used = l.used
    <3>1. Claim(s, req[s]).used = m.used /\ ~m.begun /\ m.used = l.used
      BY <1>7, <2>1 DEF Claim
    <3> QED
      BY <3>1, HoldsLess
  <2>3. Holds(s, R, txn[s], m)
    <3>1. Alike(S, R) /\ Echoes(txn[s], txn[s])
      BY <1>3 DEF Alike, Echoes
    <3> QED
      BY <2>2, <3>1, HoldsAlike
  <2> QED
    BY <1>1, <1>3, <1>7, <2>2, <2>3, AbortHolds
<1>9. Told(db, outbox, s, NoTxn, q)
  BY <1>1, <1>5 DEF Told, Running
<1> QED
  BY <1>2, <1>4, <1>6, <1>8, <1>9, StepWrites DEF Rerun

LEMMA HandlerWrites ==
    ASSUME TypeOK, LedgerInv, WriteInv, NEW s \in Sessions,
           \/ HandleReadOnlyRetry(s) \/ HandleConflict(s)
           \/ HandleError(s) \/ HandleAfterCommit(s)
    PROVE  WriteInv'
<1>1. /\ ses[s] \in Ses /\ req[s] \in Req /\ Stage(ses[s], txn[s], req[s])
      /\ Holds(s, ses[s], txn[s], Claim(s, req[s]))
  BY WriteParts
<1>2. /\ "conflict" \in Answers \ {"none", "ok"} /\ "error" \in Answers \ {"none", "ok"}
      /\ "failed_after_commit" \in Answers \ {"none", "ok"}
  BY DEF Answers
<1>3. req[s].answer = "none"
  BY <1>1 DEF Stage, HandleReadOnlyRetry, HandleConflict, HandleError,
              HandleAfterCommit, At
<1>4. CASE HandleReadOnlyRetry(s)
  <2>1. PICK S : S = [ses[s] EXCEPT !.raised = FALSE]
    OBVIOUS
  <2>2. /\ S \in Ses /\ S.cached = ses[s].cached /\ S.dirty = ses[s].dirty
        /\ S.deleted = ses[s].deleted /\ S.lost = ses[s].lost /\ S.unit = ses[s].unit
        /\ S.ups = ses[s].ups /\ S.rem = ses[s].rem /\ S.joined = ses[s].joined
        /\ S.mem = ses[s].mem /\ S.known = ses[s].known
    BY <1>1, <2>1 DEF Ses
  <2>3. Holds(s, S, txn[s], Claim(s, req[s]))
    <3>1. Alike(ses[s], S) /\ Echoes(txn[s], txn[s])
      BY <2>2 DEF Alike, Echoes
    <3> QED
      BY <1>1, <2>2, <3>1, HoldsAlike
  <2>4. Reply(s, "conflict") \/ \E n : Rerun(s, S, "reload", n)
    BY <1>4, <2>1 DEF HandleReadOnlyRetry
  <2> QED
    BY <1>2, <1>3, <2>2, <2>3, <2>4, ReplyWrites, RerunWrites
<1>5. CASE HandleConflict(s)
  <2>1. Reply(s, "conflict") \/ \E n : Rerun(s, ses[s], "turn", n)
    BY <1>5 DEF HandleConflict
  <2> QED
    BY <1>1, <1>2, <1>3, <2>1, ReplyWrites, RerunWrites
<1>6. CASE HandleError(s)
  <2>1. Reply(s, "error") \/ \E n : Rerun(s, ses[s], "reload", n)
    BY <1>6 DEF HandleError
  <2> QED
    BY <1>1, <1>2, <1>3, <2>1, ReplyWrites, RerunWrites
<1>7. CASE HandleAfterCommit(s)
  BY <1>2, <1>7, ReplyWrites DEF HandleAfterCommit
<1> QED
  BY <1>4, <1>5, <1>6, <1>7

LEMMA UnitExitWrites ==
    ASSUME TypeOK, LedgerInv, WriteInv, NEW s \in Sessions, UnitExit(s)
    PROVE  WriteInv'
<1>1. /\ ses[s] \in Ses /\ req[s] \in Req /\ StoreReady
      /\ Stage(ses[s], txn[s], req[s]) /\ req[s].pc = "exit"
      /\ Holds(s, ses[s], txn[s], Claim(s, req[s]))
      /\ Told(db, outbox, s, txn[s], req[s])
  BY WriteParts DEF UnitExit, At
<1>2. req[s].answer = "none"
  BY <1>1 DEF Stage
<1>3. PICK q : q = IF ses[s].raised THEN Throw(req[s], "ro")
                   ELSE [req[s] EXCEPT !.pc = "close", !.answer = "ok"]
  OBVIOUS
<1>4. /\ q.used = req[s].used /\ q.op = req[s].op /\ q.run = req[s].run
      /\ q.wset = req[s].wset /\ q.enqueued = req[s].enqueued
      /\ \/ q.pc = "handler" /\ q.answer = "none"
         \/ q.pc = "close" /\ q.answer = "ok"
  BY <1>1, <1>2, <1>3 DEF Throw, Req
<1>5. ~Begun(q) /\ Heeds(req[s], q) /\ q.pc # "load"
  BY <1>1, <1>4 DEF Begun, Running, Heeds, Told
<1>6. PICK l : l = Claim(s, q) /\ l.used = q.used /\ ~l.begun
  <2>1. Claim(s, q).used = q.used /\ ~Claim(s, q).begun
    BY <1>5 DEF Claim
  <2> QED
    BY <2>1
<1>7. Holds(s, ses[s], txn[s], l)
  <2>1. Claim(s, req[s]).used = q.used
    BY <1>4 DEF Claim
  <2> QED
    BY <1>1, <1>5, <1>6, <2>1, UnbegunHolds
<1>8. PICK S : S = [ses[s] EXCEPT !.unit = "none", !.raised = FALSE]
  OBVIOUS
<1>9. S \in Ses /\ Holds(s, S, txn[s], l)
  <2>1. S \in Ses
    BY <1>1, <1>8 DEF Ses
  <2> QED
    BY <1>1, <1>6, <1>7, <1>8, <2>1, EndsUnit
<1>10. Holds(s, Abort(S), NoTxn, l)
  BY <1>1, <1>6, <1>9, AbortHolds
<1>11. \A t : Told(db, outbox, s, t, q)
  BY <1>1, <1>5, HeedsTold
<1>12. Step(s, Abort(S), NoTxn, q) \/ Step(s, S, txn[s], q)
  BY <1>3, <1>8 DEF UnitExit
<1> QED
  BY <1>6, <1>9, <1>10, <1>11, <1>12, StepWrites

LEMMA TurnWrites ==
    ASSUME TypeOK, LedgerInv, WriteInv, NEW s \in Sessions,
           NoTurn(s) \/ LeavePlace(s) \/ TakeTurn(s) \/ TurnTimesOut(s)
    PROVE  WriteInv'
<1>1. /\ ses[s] \in Ses /\ req[s] \in Req /\ Stage(ses[s], txn[s], req[s])
      /\ Holds(s, ses[s], txn[s], Claim(s, req[s]))
      /\ Told(db, outbox, s, txn[s], req[s])
  BY WriteParts
<1>2. req[s].pc = "turn" /\ req[s].answer = "none" /\ ~req[s].enqueued
  BY <1>1 DEF NoTurn, LeavePlace, TakeTurn, TurnTimesOut, At, Stage, Told
<1>3. PICK S, q :
        /\ Becomes(s, S, txn[s], q) /\ KeepTables
        /\ \/ S = ses[s]
           \/ \E W : S = [ses[s] EXCEPT !.queued = W]
           \/ S = [ses[s] EXCEPT !.contended = {}]
        /\ \/ q = req[s]
           \/ q = Goto(req[s], "pin")
           \/ q = Goto(req[s], "reload")
  BY DEF NoTurn, LeavePlace, TakeTurn, TurnTimesOut, Step
<1>4. /\ S.cached = ses[s].cached /\ S.dirty = ses[s].dirty /\ S.deleted = ses[s].deleted
      /\ S.lost = ses[s].lost /\ S.unit = ses[s].unit /\ S.ups = ses[s].ups
      /\ S.rem = ses[s].rem /\ S.joined = ses[s].joined /\ S.mem = ses[s].mem
      /\ S.known = ses[s].known
  BY <1>1, <1>3 DEF Ses
<1>5. /\ q.pc \in {"turn", "pin", "reload"} /\ q.answer = "none" /\ q.op = req[s].op
      /\ q.used = req[s].used /\ q.run = req[s].run
      /\ q.wset = req[s].wset /\ q.enqueued = req[s].enqueued
  BY <1>1, <1>2, <1>3 DEF Goto, Req
<1>6. Holds(s, S, txn[s], Claim(s, req[s]))
  <2>1. Alike(ses[s], S) /\ Echoes(txn[s], txn[s])
    BY <1>4 DEF Alike, Echoes
  <2> QED
    BY <1>1, <1>4, <2>1, HoldsAlike
<1>7. Follows(req[s], q) /\ Heeds(req[s], q) /\ q.pc # "load"
  BY <1>1, <1>2, <1>5 DEF Follows, Heeds, Told, Begun, Running
<1> QED
  BY <1>1, <1>3, <1>6, <1>7, FollowsWrites

LEMMA PinWrites ==
    ASSUME TypeOK, LedgerInv, WriteInv, NEW s \in Sessions, Pin(s)
    PROVE  WriteInv'
<1>1. /\ ses[s] \in Ses /\ txn[s] \in Txn /\ req[s] \in Req /\ StoreReady
      /\ Stage(ses[s], txn[s], req[s]) /\ Times(db, stamp, clock)
      /\ Holds(s, ses[s], txn[s], Claim(s, req[s]))
      /\ Told(db, outbox, s, txn[s], req[s])
  BY WriteParts
<1>2. /\ req[s].pc = "pin" /\ req[s].answer = "none" /\ ~req[s].enqueued
      /\ Upserted(ses[s]) = {}
  BY <1>1 DEF Pin, At, Stage, Told
<1>3. PICK q : q = Goto(req[s], "reload")
  OBVIOUS
<1>4. /\ q.pc = "reload" /\ q.answer = "none" /\ q.op = req[s].op
      /\ q.used = req[s].used /\ q.run = req[s].run
      /\ q.wset = req[s].wset /\ q.enqueued = req[s].enqueued
  BY <1>1, <1>2, <1>3 DEF Goto, Req
<1>5. Follows(req[s], q) /\ Heeds(req[s], q) /\ q.pc # "load"
  BY <1>1, <1>2, <1>4 DEF Follows, Heeds, Told, Begun, Running
<1>6. PICK k : k = Claim(s, req[s])
  OBVIOUS
<1>7. ~k.joins
  BY <1>2, <1>6 DEF Claim
<1>8. PICK t : /\ Step(s, ses[s], t, q)
               /\ \/ t = NoTxn
                  \/ t = LockRows(Begin("rw"), ses[s].queued)
                     /\ ~Blocked(s, ses[s].queued)
  BY <1>3 DEF Pin
<1>9. Holds(s, ses[s], t, k)
  <2>1. CASE t = NoTxn
    BY <1>1, <1>6, <2>1, HoldsNone
  <2>2. CASE /\ t = LockRows(Begin("rw"), ses[s].queued)
             /\ ~Blocked(s, ses[s].queued)
    <3>1. PICK b : b = Begin("rw")
      OBVIOUS
    <3>2. /\ b.mode = "rw" /\ b.start = clock /\ b.view = db
          /\ b.wrote = {} /\ b.locked = {} /\ b \in Txn
      <4>1. b \in Txn
        BY <1>1, <3>1, BeginParts
      <4> QED
        BY <3>1, <4>1 DEF Begin, NoTxn
    <3>3. /\ t.mode = "rw" /\ t.start = clock /\ t.view = db /\ t.wrote = {}
          /\ t.locked \subseteq ses[s].queued
      BY <2>2, <3>1, <3>2 DEF LockRows, Reading, Txn
    <3>4. Parted(txn, s, t)
      BY <2>2, <3>3 DEF Parted, Blocked
    <3>5. Starts(s, t, "rw")
      BY <3>3, <3>4 DEF Starts
    <3>6. "rw" \in {"rw", "ro"} /\ (k.begun => ("rw" = "ro" => ses[s].unit = "ro"))
      OBVIOUS
    <3> QED
      BY <1>1, <1>2, <1>6, <1>7, <3>5, <3>6, StartHolds
  <2> QED
    BY <1>8, <2>1, <2>2
<1> QED
  BY <1>1, <1>5, <1>6, <1>8, <1>9, FollowsWrites DEF Step

LEMMA ReloadWrites ==
    ASSUME TypeOK, LedgerInv, WriteInv, NEW s \in Sessions, Reload(s) \/ Reloaded(s)
    PROVE  WriteInv'
<1>1. /\ ses[s] \in Ses /\ req[s] \in Req /\ Root \in Ids /\ {Root} \in SUBSET Ids
      /\ Apart(ses[s]) /\ Agrees(ses[s], txn[s]) /\ Stage(ses[s], txn[s], req[s])
      /\ Holds(s, ses[s], txn[s], Claim(s, req[s]))
  BY WriteParts
<1>2. CASE Reload(s)
  <2>1. Read(s, ses[s], "reload", Root, {Root}) /\ req[s].pc = "reload"
    BY <1>2 DEF Reload, At
  <2>2. "reload" \in OpNames \ {"delete"}
    BY DEF OpNames
  <2>3. req[s].answer = "none"
    BY <1>1, <2>1 DEF Stage
  <2>4. Running(req[s]) /\ (Begun(req[s]) <=> "reload" \notin {"scope", "open"})
    BY <2>1, <2>3 DEF Running, Begun
  <2> QED
    BY <1>1, <2>1, <2>2, <2>4, ReadWrites
<1>3. CASE Reloaded(s)
  <2>1. PICK p : p = Goto(req[s], "body")
    OBVIOUS
  <2>2. PICK r : r = Loaded(s)
    OBVIOUS
  <2>3. /\ At(s, "load") /\ Ok(Loaded(s)) /\ req[s].op.name \notin {"scope", "open"}
        /\ Step(s, r.S, r.t, p)
    BY <1>3, <2>1, <2>2 DEF Reloaded, Loading
  <2>4. PICK k : Body(s, k) /\ Holds(s, r.S, r.t, k) /\ req[s].answer = "none"
    BY <2>2, <2>3, LoadedBody
  <2>5. /\ p.pc = "body" /\ p.answer = req[s].answer /\ p.op = req[s].op
        /\ p.used = req[s].used /\ p.run = req[s].run /\ p.wset = req[s].wset
        /\ p.enqueued = req[s].enqueued
    BY <1>1, <2>1 DEF Goto, Req
  <2> QED
    BY <2>3, <2>4, <2>5, BodyGoesOn
<1> QED
  BY <1>2, <1>3

LEMMA LeavingWrites ==
    ASSUME TypeOK, LedgerInv, WriteInv, NEW s \in Sessions,
           CloseSession(s) \/ LeaveSession(s)
    PROVE  WriteInv'
<1>1. /\ ses[s] \in Ses /\ req[s] \in Req /\ StoreReady
      /\ Holds(s, ses[s], txn[s], Claim(s, req[s]))
      /\ Told(db, outbox, s, txn[s], req[s])
  BY WriteParts
<1>2. CASE CloseSession(s)
  <2>1. req[s].answer # "none"
    BY <1>1, <1>2 DEF CloseSession, At, Told
  <2>2. PICK q : /\ Step(s, ses[s], txn[s], q)
                 /\ q = [req[s] EXCEPT !.pc = "flush", !.kind = "close", !.tries = 0]
    BY <1>2 DEF CloseSession
  <2>3. /\ q.pc = "flush" /\ q.answer = req[s].answer /\ q.op = req[s].op
        /\ q.used = req[s].used /\ q.run = req[s].run
        /\ q.wset = req[s].wset /\ q.enqueued = req[s].enqueued
    BY <1>1, <2>2 DEF Req
  <2>4. Follows(req[s], q) /\ Heeds(req[s], q) /\ q.pc # "load"
    BY <1>1, <2>1, <2>3 DEF Follows, Heeds, Told, Begun, Running
  <2> QED
    BY <1>1, <2>2, <2>4, FollowsWrites DEF Step
<1>3. CASE LeaveSession(s)
  <2>1. PICK A : A = NewSession
    OBVIOUS
  <2>2. /\ A.cached = {} /\ A.deleted = {} /\ A.rem = {} /\ A.ups = NoRows
        /\ \A id \in Ids : A.known[id] = Absent
    BY <2>1 DEF NewSession, NoRows
  <2>3. PICK q : q = Goto(req[s], "answered")
    OBVIOUS
  <2>4. /\ q.pc = "answered" /\ q.answer = req[s].answer /\ q.op = req[s].op
        /\ q.used = req[s].used /\ q.run = req[s].run
        /\ q.wset = req[s].wset /\ q.enqueued = req[s].enqueued
    BY <1>1, <2>3 DEF Goto, Req
  <2>5. ~Begun(q) /\ Heeds(req[s], q) /\ q.pc # "load"
    BY <1>1, <2>4 DEF Heeds, Told, Begun, Running
  <2>6. PICK l : l = Claim(s, q)
    OBVIOUS
  <2>7. ~l.begun /\ l.used = req[s].used /\ Claim(s, req[s]).used = req[s].used
    BY <2>4, <2>5, <2>6 DEF Claim
  <2>8. Holds(s, A, NoTxn, l)
    BY <1>1, <2>2, <2>7, ForgottenHolds
  <2>9. Told(db, outbox, s, NoTxn, q)
    BY <1>1, <2>5, HeedsTold
  <2>10. Becomes(s, A, NoTxn, q) /\ KeepTables
    BY <1>3, <2>1, <2>3 DEF LeaveSession
  <2> QED
    BY <2>6, <2>8, <2>9, <2>10, BecomesWrites
<1> QED
  BY <1>2, <1>3

(* A connection that breaks takes its transaction with it, and no more.    *)
LEMMA ConnectionWrites ==
    ASSUME TypeOK, LedgerInv, WriteInv, NEW s \in Sessions, ConnectionLost(s)
    PROVE  WriteInv'
<1>1. /\ ses[s] \in Ses /\ txn[s] \in Txn /\ req[s] \in Req /\ Idle(txn[s])
      /\ Holds(s, ses[s], txn[s], Claim(s, req[s]))
      /\ Told(db, outbox, s, txn[s], req[s])
  BY WriteParts
<1>2. /\ ses \in [Sessions -> Ses] /\ req \in [Sessions -> Req]
      /\ ses' = ses /\ req' = req /\ KeepTables
  BY DEF TypeOK, ConnectionLost
<1>3. PICK t : /\ txn' = [txn EXCEPT ![s] = t]
               /\ t = IF txn[s].mode = "none" THEN NoTxn
                      ELSE [NoTxn EXCEPT !.mode = txn[s].mode, !.dead = TRUE]
  <2>1. txn \in [Sessions -> Txn]
    BY DEF TypeOK, StoreTypeOK
  <2> QED
    BY <2>1 DEF ConnectionLost, DropConnection
<1>4. Becomes(s, ses[s], t, req[s])
  BY <1>2, <1>3 DEF Becomes
<1>5. ~Live(t) /\ t.locked = {} /\ t.mode = txn[s].mode
  BY <1>3 DEF NoTxn, Live
<1>6. Holds(s, ses[s], t, Claim(s, req[s]))
  BY <1>1, <1>5, HoldsDead
<1>7. Told(db, outbox, s, t, req[s])
  BY <1>1, <1>5 DEF Told
<1> QED
  BY <1>2, <1>4, <1>6, <1>7, BecomesWrites

-----------------------------------------------------------------------------
(* The invariant and what it says                                          *)

LEMMA WriteInit == Init => WriteInv
<1> SUFFICES ASSUME Init PROVE WriteInv
  OBVIOUS
<1>1. /\ db = [id \in Ids |-> IF id \in Seeded THEN [ver |-> 0, val |-> {}]
                                               ELSE Absent]
      /\ clock = 0 /\ stamp = [id \in Ids |-> 0] /\ outbox = {}
      /\ txn = [s \in Sessions |-> NoTxn]
  BY DEF Init, StoreInit
<1>2. ASSUME NEW s \in Sessions
      PROVE  req[s] = NewRequest /\ txn[s] = NoTxn
             /\ ses[s] \in {NewSession, [NewSession EXCEPT !.recorded = TRUE]}
  BY <1>1 DEF Init
<1>3. Times(db, stamp, clock)
  BY <1>1 DEF Times, Present, Absent
<1>4. ASSUME NEW s \in Sessions
      PROVE  /\ Holds(s, ses[s], txn[s], Claim(s, req[s]))
             /\ Told(db, outbox, s, txn[s], req[s])
  <2>1. PICK q : q = req[s]
    OBVIOUS
  <2>2. /\ q.pc = "arrive" /\ q.answer = "none" /\ q.wset = {} /\ q.enqueued = FALSE
        /\ q.op.name = "open" /\ q.used = {}
    BY <1>2, <2>1 DEF NewRequest
  <2>3. Told(db, outbox, s, txn[s], q)
    BY <2>2 DEF Told
  <2>4. ~Begun(q)
    BY <2>2 DEF Begun
  <2>5. PICK S : S = ses[s]
    OBVIOUS
  <2>6. /\ S.cached = {} /\ S.deleted = {} /\ S.rem = {} /\ S.ups = NoRows
        /\ S.known = NoRows
    BY <1>2, <2>5 DEF NewSession
  <2>7. ASSUME NEW id \in Ids
        PROVE  Knows(db, S, id) /\ Mine(db, s, S, NoTxn, {}, id)
    <3>1. ~Present(S.ups[id]) /\ ~Present(S.known[id])
      BY <2>6 DEF NoRows, Present, Absent
    <3>2. Knows(db, S, id)
      BY <3>1 DEF Knows, Older
    <3>3. id \in Mint[s] => ~Present(db[id])
      BY <1>1, RequestAssumption DEF Present, Absent
    <3>4. Mine(db, s, S, NoTxn, {}, id)
      BY <2>6, <3>3, NoTxnDead DEF Mine
    <3> QED
      BY <3>2, <3>4
  <2>8. Grounded(s, S, NoTxn, {})
    BY <2>6, <2>7, NoTxnDead DEF Grounded, Sound, Parted
  <2>9. Claim(s, q).used = {} /\ ~Claim(s, q).begun
    BY <2>2, <2>4 DEF Claim
  <2>10. Holds(s, S, txn[s], Claim(s, q))
    BY <1>2, <2>8, <2>9 DEF Holds
  <2> QED
    BY <2>1, <2>3, <2>5, <2>10
<1> QED
  BY <1>3, <1>4 DEF WriteInv

LEMMA WriteNext ==
    ASSUME TypeOK, LedgerInv, WriteInv, "delete" \notin Ops, [Next]_vars
    PROVE  WriteInv'
<1>1. CASE UNCHANGED vars
  <2>1. UNCHANGED <<db, stamp, clock, outbox, ses, txn, req>>
    BY <1>1 DEF vars
  <2> QED
    BY <2>1, WritePrime DEF WriteInv, Holds, Grounded, Claim
<1>2. ASSUME NEW s \in Sessions, Walker(s) \/ Server(s) \/ Network(s)
      PROVE  WriteInv'
  <2>1. CASE Walker(s)
    BY <2>1, WalkerWrites
  <2>2. CASE Server(s)
    BY <2>2, ArrivalWrites, ScopeWrites, OpenUnitWrites, RereadWrites, CommitStep,
       EffectsWrites, UnitExitWrites, HandlerWrites, TurnWrites, PinWrites,
       ReloadWrites, LeavingWrites DEF Server
  <2>3. CASE Network(s)
    BY <2>3, CommitStep, ConnectionWrites DEF Network
  <2> QED
    BY <1>2, <2>1, <2>2, <2>3
<1> QED
  BY <1>1, <1>2 DEF Next, Terminated

LEMMA WriteAlways ==
    ASSUME "delete" \notin Ops
    PROVE  Spec => [](TypeOK /\ LedgerInv /\ WriteInv)
<1>1. TypeOK /\ LedgerInv /\ WriteInv /\ [Next]_vars => WriteInv'
  BY WriteNext
<1> QED
  BY <1>1, WriteInit, LedgerAlways, PTL DEF Spec

(* Only a COMMIT changes the tables.                                       *)
LEMMA ReadKeeps ==
    ASSUME NEW s, NEW S, NEW q PROVE Barrier(s, S, q) => KeepTables
<1>1. \A r, next : Retries(s, r, q, next) => KeepTables
  BY DEF Retries, Fails, Step
<1>2. Barrier(s, S, q) => KeepTables
  BY <1>1 DEF Barrier, Step
<1> QED
  BY <1>2

LEMMA OthersKeep ==
    ASSUME NEW s, Walker(s) \/ Server(s) \/ Network(s),
           ~SqlCommit(s), ~CommitUnanswered(s)
    PROVE  KeepTables
<1>1. ASSUME NEW S, NEW name, NEW id, NEW L, Read(s, S, name, id, L) PROVE KeepTables
  BY <1>1, ReadKeeps DEF Read
<1>2. CASE Walker(s)
  <2>1. CASE Get(s) \/ FindChild(s)
    BY <1>1, <2>1 DEF Get, FindChild
  <2>2. CASE ~(Get(s) \/ FindChild(s))
    BY <1>2, <2>2 DEF Walker, Step, ReadOp, WriteOp, MutateOp, DeleteOp, CreateOp, FoundOp,
       FindOrCreateOp, FindOrCountOp, EnqueueOp, OnCommitOp, WalkEnds, FailOp,
       Swallow, Propagate, Return
  <2> QED
    BY <2>1, <2>2
<1>3. CASE Server(s)
  <2>1. CASE Arrive(s) \/ Open(s) \/ WritingEffect(s) \/ Reload(s)
    BY <1>1, <2>1 DEF Arrive, Step, Open, WritingEffect, Reload
  <2>2. CASE BarrierAgain(s) \/ LoadFails(s)
    <3>1. \A r, next : Retries(s, r, req[s], next) => KeepTables
      BY DEF Retries, Fails, Step
    <3> QED
      BY <2>2, <3>1, ReadKeeps DEF BarrierAgain, LoadFails
  <2>3. CASE \/ ScopeLoaded(s) \/ ExitScope(s) \/ OpenUnit(s)
             \/ FlushAll(s) \/ SqlCommitFails(s) \/ NoEffect(s) \/ PlainEffect(s)
             \/ EffectWrites(s)
    BY <2>3 DEF ScopeLoaded, ExitScope, OpenUnit, FlushAll, SqlCommitFails, NoEffect,
       PlainEffect, EffectWrites, Step
  <2>4. CASE \/ UnitExit(s) \/ HandleReadOnlyRetry(s) \/ HandleConflict(s)
             \/ HandleError(s) \/ HandleAfterCommit(s)
    <3>1. /\ \A a : Reply(s, a) => KeepTables
          /\ \A S, pc, n : Rerun(s, S, pc, n) => KeepTables
      BY DEF Reply, Rerun, Step
    <3> QED
      BY <2>4, <3>1 DEF UnitExit, HandleReadOnlyRetry, HandleConflict, HandleError,
         HandleAfterCommit, Step
  <2>5. CASE \/ NoTurn(s) \/ LeavePlace(s) \/ TakeTurn(s) \/ TurnTimesOut(s) \/ Pin(s)
             \/ Reloaded(s) \/ CloseSession(s) \/ LeaveSession(s)
    BY <2>5 DEF NoTurn, LeavePlace, TakeTurn, TurnTimesOut, Pin, Reloaded,
       CloseSession, LeaveSession, Step
  <2> QED
    BY <1>3, <2>1, <2>2, <2>3, <2>4, <2>5 DEF Server
<1>4. CASE Network(s)
  BY <1>4 DEF Network, ConnectionLost
<1> QED
  BY <1>2, <1>3, <1>4

(* Without deletions no COMMIT drops what an earlier one saved: the new    *)
(* content of every row includes its old one, whatever the session had     *)
(* cached, replayed or promoted before it wrote the row (the version check *)
(* of PgStore.upsert, RowLedger, Session._flush and _rollback_txn).        *)
THEOREM NothingLost == "delete" \notin Ops => (Spec => NoLostUpdate)
<1> SUFFICES ASSUME "delete" \notin Ops PROVE Spec => NoLostUpdate
  OBVIOUS
<1>1. ASSUME TypeOK, LedgerInv, WriteInv, [Next]_vars
      PROVE  [\A id \in Ids : Present(db[id]) /\ Present(db'[id])
                                => db[id].val \subseteq db'[id].val]_vars
  <2>1. ASSUME db' = db
        PROVE  \A id \in Ids : db[id].val \subseteq db'[id].val
    BY <2>1
  <2>2. ASSUME NEW s \in Sessions, CommitTxn(s), ~txn[s].dead, NEW id \in Ids
        PROVE  db[id].val \subseteq db'[id].val
    <3>1. Grown(db, db') /\ db' \in [Ids -> Row]
      BY <1>1, <2>2, CommitGrows
    <3>2. db \in [Ids -> Row]
      BY <1>1 DEF TypeOK, StoreTypeOK
    <3>3. CASE Newer(db'[id], db[id])
      BY <3>1, <3>2, <3>3, RowOrder
    <3> QED
      BY <3>1, <3>3 DEF Grown
  <2>3. ASSUME NEW s \in Sessions, Walker(s) \/ Server(s) \/ Network(s)
        PROVE  db' = db \/ (CommitTxn(s) /\ ~txn[s].dead)
    <3>1. CASE SqlCommit(s) \/ CommitUnanswered(s)
      BY <3>1 DEF SqlCommit, CommitUnanswered, CanCommit
    <3>2. CASE ~(SqlCommit(s) \/ CommitUnanswered(s))
      <4>1. KeepTables
        BY <2>3, <3>2, OthersKeep
      <4> QED
        BY <4>1 DEF KeepTables
    <3> QED
      BY <3>1, <3>2
  <2> QED
    BY <1>1, <2>1, <2>2, <2>3 DEF Next, Terminated, vars
<1> QED
  BY <1>1, WriteAlways, PTL DEF Spec, NoLostUpdate

(* Without deletions the walker sees its own writes wherever its body      *)
(* stands: what it wrote is in the cache, with its content, whatever the   *)
(* session flushed, rolled back, replayed or read again under it           *)
(* (Session._flush, _rollback_txn, the read barrier, Mem.load).            *)
THEOREM OwnWritesSeen == "delete" \notin Ops => (Spec => []ReadsOwnWrites)
<1> SUFFICES ASSUME "delete" \notin Ops PROVE Spec => []ReadsOwnWrites
  OBVIOUS
<1>1. ASSUME TypeOK, LedgerInv, WriteInv, NEW s \in Sessions, At(s, "body"),
             NEW id \in req[s].wset
      PROVE  id \in ses[s].cached /\ Tag(s) \in ses[s].mem[id]
  <2>1. PICK k : Body(s, k) /\ Holds(s, ses[s], txn[s], k)
    BY <1>1, BodyHolds DEF At
  <2> QED
    BY <1>1, <2>1 DEF Holds, Claims, Body
<1>2. TypeOK /\ LedgerInv /\ WriteInv => ReadsOwnWrites
  BY <1>1 DEF ReadsOwnWrites
<1> QED
  BY <1>2, WriteAlways, PTL

(* Without deletions a request answered ok has saved the whole of its last *)
(* attempt: every row it wrote holds its write and its outbox entry is     *)
(* there, whichever of its commits was replayed or not answered            *)
(* (Session.commit, unit_exit, _run_function_with_occ).                    *)
THEOREM OkSavesAll == "delete" \notin Ops => (Spec => []OkIsWhole)
<1> SUFFICES ASSUME "delete" \notin Ops PROVE Spec => []OkIsWhole
  OBVIOUS
<1>1. ASSUME TypeOK, LedgerInv, WriteInv, NEW s \in Sessions, req[s].answer = "ok"
      PROVE  /\ \A id \in req[s].wset : Tag(s) \in db[id].val \/ Deleted(id)
             /\ req[s].enqueued => Tag(s) \in outbox
  BY <1>1, WriteParts DEF Told, Tag
<1>2. TypeOK /\ LedgerInv /\ WriteInv => OkIsWhole
  BY <1>1 DEF OkIsWhole
<1> QED
  BY <1>2, WriteAlways, PTL
=============================================================================
