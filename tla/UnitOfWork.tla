----------------------------- MODULE UnitOfWork -----------------------------
(***************************************************************************)
(* What serving a request promises to its caller, with no session, no      *)
(* transaction and no retry in sight: an attempt stages changes to anchors *)
(* and an outbox entry; all of them are saved in one step, on top of what  *)
(* every other request saved before; an attempt that has saved is never    *)
(* given up, and one that is given up has saved nothing.                   *)
(***************************************************************************)
EXTENDS Naturals

CONSTANTS Sessions, Ids, Seeded

VARIABLES rows,         \* the anchors there are, each with its writers
          entries,      \* the writers of the outbox entries
          unit          \* the attempt of each request

unitVars == <<rows, entries, unit>>

Tags == Sessions \X Nat

Gone   == [there |-> FALSE, val |-> {}]
NewRow == [there |-> TRUE, val |-> {}]

Attempt(n) == [n |-> n, state |-> "running", writes |-> {}, deletes |-> {},
               joins |-> FALSE]

Init == /\ rows = [id \in Ids |-> IF id \in Seeded THEN NewRow ELSE Gone]
        /\ entries = {}
        /\ unit = [s \in Sessions |-> Attempt(1)]

Open(s) == unit[s].state # "answered"

Stage(s, W, D, joins) ==
    /\ Open(s)
    /\ unit' = [unit EXCEPT ![s].writes = W, ![s].deletes = D,
                            ![s].joins = joins]
    /\ UNCHANGED <<rows, entries>>

StageWrites(s, W) ==
    Stage(s, unit[s].writes \cup W, unit[s].deletes, unit[s].joins)

StageDelete(s, id) ==
    Stage(s, unit[s].writes \ {id}, unit[s].deletes \cup {id}, unit[s].joins)

StageEntry(s) == Stage(s, unit[s].writes, unit[s].deletes, TRUE)

Save(s) ==
    LET u == unit[s]
        tag == <<s, u.n>>
    IN  /\ Open(s)
        /\ rows' = [id \in Ids |->
                      IF id \in u.deletes THEN Gone
                      ELSE IF id \in u.writes
                      THEN [there |-> TRUE, val |-> rows[id].val \cup {tag}]
                      ELSE rows[id]]
        /\ entries' = IF u.joins THEN entries \cup {tag} ELSE entries
        /\ unit' = [unit EXCEPT ![s].state = "saved"]

GiveUp(s) ==
    /\ unit[s].state = "running"
    /\ unit' = [unit EXCEPT ![s] = Attempt(unit[s].n + 1)]
    /\ UNCHANGED <<rows, entries>>

Answer(s) ==
    /\ Open(s)
    /\ unit' = [unit EXCEPT ![s].state = "answered"]
    /\ UNCHANGED <<rows, entries>>

Next == \E s \in Sessions :
    \/ \E W \in SUBSET Ids : StageWrites(s, W)
    \/ \E id \in Ids : StageDelete(s, id)
    \/ StageEntry(s) \/ Save(s) \/ GiveUp(s) \/ Answer(s)

Spec == Init /\ [][Next]_unitVars
=============================================================================
