------------------------------ MODULE PgStore ------------------------------
(***************************************************************************)
(* The transactional half of PgStore (jaclang/data) and the part of        *)
(* Postgres it relies on.  A row is a version and a content; a content is  *)
(* the set of tags of the attempts whose writes it includes, so that a     *)
(* lost, a leaked or a repeated write can be told apart.                   *)
(*                                                                         *)
(* Isolation is Postgres's own, as the code uses it: a transaction reads   *)
(* the snapshot taken when it begins plus its own writes, a row has one    *)
(* uncommitted writer, writing a row a later commit changed fails (SQLSTATE*)
(* 40001), and a SERIALIZABLE transaction commits only when the committed  *)
(* SERIALIZABLE transactions stay serializable with it.                    *)
(***************************************************************************)
EXTENDS Integers, FiniteSets

CONSTANTS Sessions,     \* one database session per request in flight
          Ids,          \* anchor ids
          Seeded        \* the ids of the anchors stored at the start

ASSUME SeededAssumption == Seeded \subseteq Ids

VARIABLES db,           \* the committed anchors table
          outbox,       \* tags of the committed outbox entries
          clock,        \* number of SERIALIZABLE transactions committed
          stamp,        \* the commit that last changed a row
          log,          \* what those transactions read and wrote
          txn,          \* the open transaction of each session
          advisory      \* advisory locks a session's connection holds

storeVars == <<db, outbox, clock, stamp, log, txn, advisory>>

Tags == Sessions \X Nat

Absent     == [ver |-> -1, val |-> {}]
Row        == {Absent} \cup [ver : Nat, val : SUBSET Tags]
Present(r) == r.ver # -1
NoRows     == [id \in Ids |-> Absent]

(* dead: the connection broke under the transaction, which the server has   *)
(* rolled back and the client has not noticed.                             *)
Txn == [mode : {"none", "rw", "ro"}, dead : BOOLEAN, start : Nat,
        view : [Ids -> Row], wrote : SUBSET Ids, locked : SUBSET Ids,
        reads : SUBSET Ids, out : SUBSET Tags]

Commit == [start : Nat, commit : Nat, reads : SUBSET Ids, wrote : SUBSET Ids]

NoTxn == [mode |-> "none", dead |-> FALSE, start |-> 0, view |-> NoRows,
          wrote |-> {}, locked |-> {}, reads |-> {}, out |-> {}]

StoreInit ==
    /\ db = [id \in Ids |-> IF id \in Seeded THEN [ver |-> 0, val |-> {}]
                                             ELSE Absent]
    /\ outbox = {}
    /\ clock = 0
    /\ stamp = [id \in Ids |-> 0]
    /\ log = {}
    /\ txn = [s \in Sessions |-> NoTxn]
    /\ advisory = [s \in Sessions |-> {}]

StoreTypeOK ==
    /\ db \in [Ids -> Row]
    /\ outbox \subseteq Tags
    /\ clock \in Nat
    /\ stamp \in [Ids -> Nat]
    /\ log \subseteq Commit
    /\ txn \in [Sessions -> Txn]
    /\ advisory \in [Sessions -> SUBSET Ids]

-----------------------------------------------------------------------------
(* Statements of a transaction, as functions of the transaction.  A dead    *)
(* connection fails the next one.                                          *)

Begin(mode) == [NoTxn EXCEPT !.mode = mode, !.start = clock, !.view = db]

(* A snapshot read takes no predicate lock: only SERIALIZABLE ones count.  *)
Reading(t, S) == IF t.mode = "rw" THEN [t EXCEPT !.reads = @ \cup S] ELSE t

Blocked(s, W) == \E o \in Sessions \ {s} : txn[o].locked \cap W # {}

ChangedSince(t, id) == id \notin t.wrote /\ stamp[id] > t.start

(* INSERT ... ON CONFLICT (id) DO UPDATE ... WHERE anchors.version =        *)
(* EXCLUDED.version.  It fails on a row committed after the snapshot, takes *)
(* a row deleted since for one that is not there, inserts such a row at the *)
(* version given, moves a row at that version to the next one, and leaves   *)
(* any other row alone.                                                    *)
UpsertFails(t, W) == \E id \in W : ChangedSince(t, id) /\ Present(db[id])

Target(t, id) == IF ChangedSince(t, id) THEN Absent ELSE t.view[id]

(* Mutants: no WHERE on the version, and one that any newer row satisfies. *)
LandsAnyway(t, id, row) == TRUE
LandsOnNewer(t, id, row) ==
    ~Present(Target(t, id)) \/ Target(t, id).ver >= row.ver

Lands(t, id, row) == ~Present(Target(t, id)) \/ Target(t, id).ver = row.ver

Landed(t, id, row) ==
    IF Present(Target(t, id)) THEN [row EXCEPT !.ver = @ + 1] ELSE row

Upsert(t, rows, W) ==
    LET landing == {id \in W : Lands(t, id, rows[id])}
    IN  [t EXCEPT
            !.view   = [id \in Ids |-> IF id \in landing
                                       THEN Landed(t, id, rows[id])
                                       ELSE t.view[id]],
            !.wrote  = @ \cup landing,
            !.locked = @ \cup W]

DeleteFails(t, D) == \E id \in D : ChangedSince(t, id) /\ Present(t.view[id])

Delete(t, D) ==
    LET gone == {id \in D : Present(t.view[id])}
    IN  [Reading(t, D) EXCEPT
            !.view   = [id \in Ids |-> IF id \in D THEN Absent
                                                   ELSE t.view[id]],
            !.wrote  = @ \cup gone,
            !.locked = @ \cup gone]

(* SELECT ... FOR UPDATE, the first statement of its transaction.          *)
LockRows(t, W) == [Reading(t, W) EXCEPT !.locked = @ \cup {id \in W : Present(t.view[id])}]

-----------------------------------------------------------------------------
(* COMMIT.  a precedes b in every serial order when b saw a's write, or    *)
(* when a read a row before b changed it.                                  *)

Entry(t) == [start |-> t.start, commit |-> clock + 1,
             reads |-> t.reads, wrote |-> t.wrote]

Precedes(a, b) ==
    /\ a.commit # b.commit
    /\ \/ b.start >= a.commit /\ a.wrote \cap (b.reads \cup b.wrote) # {}
       \/ b.commit > a.start /\ a.reads \cap b.wrote # {}

(* No path of the precedence graph leads from the new commit back to it:   *)
(* some set of commits holds all that follow it and nothing that precedes. *)
Serializable(t) ==
    LET new == Entry(t)
    IN  \E after \in SUBSET log :
           /\ \A b \in log : Precedes(new, b) => b \in after
           /\ \A a \in after, b \in log : Precedes(a, b) => b \in after
           /\ \A a \in after : ~Precedes(a, new)

(* Once no SERIALIZABLE transaction that overlaps a commit is open, nothing *)
(* can conflict with it any more and Postgres forgets what it read: the     *)
(* clock starts again.                                                     *)
Alone(s) == \A o \in Sessions \ {s} : txn[o].mode # "rw"

CommitTxn(s) ==
    LET t == txn[s]
    IN  /\ db' = [id \in Ids |-> IF id \in t.wrote THEN t.view[id] ELSE db[id]]
        /\ outbox' = outbox \cup t.out
        /\ IF Alone(s)
           THEN /\ clock' = 0
                /\ stamp' = [id \in Ids |-> 0]
                /\ log' = {}
           ELSE IF t.mode = "rw"
           THEN /\ clock' = clock + 1
                /\ stamp' = [id \in Ids |-> IF id \in t.wrote THEN clock + 1
                                                              ELSE stamp[id]]
                /\ log' = log \cup {Entry(t)}
           ELSE UNCHANGED <<clock, stamp, log>>

(* The connection breaks: the server rolls back and drops its locks.       *)
DropConnection(s) ==
    /\ txn' = [txn EXCEPT ![s] = IF @.mode = "none" THEN NoTxn
                                 ELSE [NoTxn EXCEPT !.mode = txn[s].mode,
                                                    !.dead = TRUE]]
    /\ advisory' = [advisory EXCEPT ![s] = {}]

(* Everything but the session's own transaction and advisory locks.        *)
KeepTables == UNCHANGED <<db, outbox, clock, stamp, log>>
=============================================================================
