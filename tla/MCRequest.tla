------------------------------ MODULE MCRequest ------------------------------
(* Small instances of Request: two requests, the user's root, one more      *)
(* stored anchor and the fresh ids the walkers' constructors draw.         *)
EXTENDS Request, TLC

CONSTANTS s1, s2, s3, root, x, n1, n2

TwoSessions == {s1, s2}
ThreeSessions == {s1, s2, s3}
NoSession   == {}
OneSession  == {s1}
MintOne     == (s1 :> {n1}) @@ (s2 :> {n2})
MintFirst   == s1 :> {n1}
(* Requests differ by the ids they mint only: where they mint none, they   *)
(* may be exchanged.                                                       *)
Exchange == Permutations(Sessions)

MintNone    == [s \in Sessions |-> {}]
=============================================================================
