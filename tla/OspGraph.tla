------------------------------ MODULE OspGraph ------------------------------
(***************************************************************************)
(* The graph in memory: rows of edges that are used again, the lists of    *)
(* rows of each node, with holes once they are indexed, and the index of   *)
(* their types.                                                            *)
(***************************************************************************)
EXTENDS Integers, Sequences, FiniteSets, SequencesExt

CONSTANTS EdgeSets,       \* sets of edges that a program may connect: [eobj, src, tgt, tag, undirected]
          Places,         \* nodes
          BaseOf,         \* a function of the types to all they are: themselves and what they inherit from
          IndexAt,        \* longer lists are indexed
          RegionOf,       \* a function of the nodes to a region, or 0
          PredMay         \* what a predicate may do: some of "connect", "disconnect"

VARIABLES osp,            \* OspGraph
          edges_,         \* the edges of the program
          linked,         \* the edges there are, oldest first
          picking         \* disconnect_between_pred: rows still to be asked about, rows to go, their edges
graphVars == <<osp, edges_, linked, picking>>

Ways == {"out", "inn"}
NodeAt(r, w) == IF w = "out" THEN r.src ELSE r.tgt
None_ == [x \in {} |-> 0]
Without_(f, x) == [y \in DOMAIN f \ {x} |-> f[y]]
With_(f, x, v) == [y \in DOMAIN f \cup {x} |-> IF y = x THEN v ELSE f[y]]
NewGraph == [rows |-> <<>>, freeRows |-> <<>>, rowOf |-> None_, adj |-> None_, dead |-> {}, regions |-> None_,
             tags |-> [w \in Ways |-> None_], holes |-> [w \in Ways |-> None_]]
NewAdj == [w \in Ways |-> <<>>]
NotPicking == [asks |-> <<>>, goes |-> <<>>, gone |-> {}, on |-> FALSE, called |-> FALSE]
GraphInit == edges_ \in EdgeSets /\ osp = NewGraph /\ linked = <<>> /\ picking = NotPicking

-----------------------------------------------------------------------------
IsA(tag, base) == base \in BaseOf[tag]
HasSubs(want) == \E t \in DOMAIN BaseOf : t # want /\ want \in BaseOf[t]
TagMatches(tag, want) == want = -1 \/ tag = want \/ IsA(tag, want)

(* A row that was given back last is taken first.                          *)
RowAlloc(G, e) ==
  LET new == [src |-> e.src, tgt |-> e.tgt, tag |-> e.tag, handle |-> e.eobj, undirected |-> e.undirected, live |-> TRUE,
              pos |-> [w \in Ways |-> 0]] IN
  IF G.freeRows # <<>>
  THEN [G EXCEPT !.freeRows = Front(@), !.rows[Last(G.freeRows)] = new, !.rowOf = With_(@, e.eobj, Last(G.freeRows))]
  ELSE [G EXCEPT !.rows = Append(@, new), !.rowOf = With_(@, e.eobj, Len(G.rows) + 1)]
RowRetire(G, rid) ==
  [G EXCEPT !.rowOf = Without_(@, G.rows[rid].handle), !.freeRows = Append(@, rid),
            !.rows[rid] = [@ EXCEPT !.live = FALSE, !.handle = 0, !.pos = [w \in Ways |-> 0]]]

(* A hole in a list is 0; the last of a list is none. Most of a list may   *)
(* not be holes.                                                           *)
Placed(G, w, list) ==
  LET place(rid) == SelectInSeq(list, LAMBDA r : r = rid) IN
  [G EXCEPT !.rows = <<>> \o [rid \in DOMAIN @ |-> IF place(rid) = 0 THEN @[rid] ELSE [@[rid] EXCEPT !.pos[w] = place(rid)]]]
Compact(G, h, w) ==
  LET list == SelectSeq(G.adj[h][w], LAMBDA rid : rid # 0) IN
  [Placed(G, w, list) EXCEPT !.adj[h][w] = list]
TrimHoles(list) == SubSeq(list, 1, SelectLastInSeq(list, LAMBDA rid : rid # 0))
HolesAt(G, h, w) == IF h \in DOMAIN G.holes[w] THEN G.holes[w][h] ELSE 0
SlotClear(G, h, w, rid) ==
  LET list == G.adj[h][w]
      pos == G.rows[rid].pos[w]
      had == HolesAt(G, h, w)
      kept == TrimHoles(Front(list)) IN
  IF pos \notin DOMAIN list \/ list[pos] # rid THEN [graph |-> G, holes |-> had]
  ELSE IF pos = Len(list)
  THEN [graph |-> [G EXCEPT !.adj[h][w] = kept], holes |-> had - (Len(list) - 1 - Len(kept))]
  ELSE LET made == [G EXCEPT !.adj[h][w][pos] = 0] IN
       IF (had + 1) * 2 > Len(list) THEN [graph |-> Compact(made, h, w), holes |-> 0]
       ELSE [graph |-> made, holes |-> had + 1]

(* The rows of a type are in the order of their places: halving finds one. *)
TagDrop(G, d, w, rid) ==
  LET tag == G.rows[rid].tag
      list == d[tag]
      key == G.rows[rid].pos[w]
      find[lo \in 0..Len(list), hi \in 0..Len(list)] ==
        LET mid == (lo + hi) \div 2 IN
        IF lo >= hi THEN lo ELSE IF G.rows[list[mid + 1]].pos[w] < key THEN find[mid + 1, hi] ELSE find[lo, mid]
      at == find[0, Len(list)] + 1
      left == IF at <= Len(list) /\ list[at] = rid THEN RemoveAt(list, at) ELSE list
  IN IF tag \notin DOMAIN d THEN d ELSE IF left = <<>> THEN Without_(d, tag) ELSE With_(d, tag, left)
DropSide(G, h, w, rid) ==
  IF h \notin DOMAIN G.tags[w] THEN [G EXCEPT !.adj[h][w] = RemoveFirst(@, rid)]
  ELSE LET d == TagDrop(G, G.tags[w][h], w, rid)
           clear == SlotClear(G, h, w, rid)
           H == clear.graph IN
       [H EXCEPT !.holes[w] = IF d # None_ /\ clear.holes > 0 THEN With_(@, h, clear.holes) ELSE Without_(@, h),
                 !.tags[w] = IF d = None_ THEN Without_(@, h) ELSE With_(@, h, d)]
Unlink(G, rid) ==
  LET r == G.rows[rid]
      H == IF r.src \in DOMAIN G.adj THEN DropSide(G, r.src, "out", rid) ELSE G
  IN IF r.tgt \in DOMAIN H.adj THEN DropSide(H, r.tgt, "inn", rid) ELSE H
Cut_(G, rids) == FoldLeft(LAMBDA H, rid : RowRetire(Unlink(H, rid), rid), G, rids)

BuildIndex(G, h, w) ==
  LET list == G.adj[h][w]
      types == {G.rows[rid].tag : rid \in ToSet(list)} IN
  [Placed(G, w, list) EXCEPT !.tags[w] = With_(@, h, [t \in types |-> SelectSeq(list, LAMBDA rid : G.rows[rid].tag = t)])]
(* A bug: a row is added to the list of a node and not to its index.       *)
AddSideUnindexed(G, h, w, rid) ==
  LET H == [G EXCEPT !.rows[rid].pos[w] = Len(G.adj[h][w]) + 1, !.adj[h][w] = Append(@, rid)] IN
  IF h \notin DOMAIN G.tags[w] /\ Len(H.adj[h][w]) > IndexAt THEN BuildIndex(H, h, w) ELSE H
AddSide(G, h, w, rid) ==
  LET H == [G EXCEPT !.rows[rid].pos[w] = Len(G.adj[h][w]) + 1, !.adj[h][w] = Append(@, rid)]
      tag == G.rows[rid].tag IN
  IF h \in DOMAIN G.tags[w]
  THEN [H EXCEPT !.tags[w][h] = With_(@, tag, IF tag \in DOMAIN @ THEN Append(@[tag], rid) ELSE <<rid>>)]
  ELSE IF Len(H.adj[h][w]) > IndexAt THEN BuildIndex(H, h, w) ELSE H

-----------------------------------------------------------------------------
(* What is read.                                                           *)
Narrowed(G, h, w, want) == want = -1 \/ h \in DOMAIN G.tags[w]
RowsFor(G, h, w, want) ==
  LET all == G.adj[h][w]
      d == G.tags[w][h]
      hits == {t \in DOMAIN d : t = want \/ IsA(t, want)}
      slots == UNION {{G.rows[rid].pos[w] : rid \in ToSet(d[t])} : t \in hits}
      sorted == SetToSortSeq(slots, LAMBDA p, q : p < q) IN
  CASE ~Narrowed(G, h, w, want) \/ want = -1 -> all
    [] OTHER -> IF ~HasSubs(want) THEN IF want \in DOMAIN d THEN d[want] ELSE <<>>
                ELSE IF Cardinality(hits) = 1 THEN d[CHOOSE t \in hits : TRUE]
                ELSE [i \in DOMAIN sorted |-> all[sorted[i]]]
Follows(dir, w) == dir = 3 \/ dir = (IF w = "out" THEN 2 ELSE 1)
Other(w) == IF w = "out" THEN "inn" ELSE "out"
Dedup(list) == FoldLeft(LAMBDA s, x : IF Contains(s, x) THEN s ELSE Append(s, x), <<>>, list)
CollectSide(G, h, w, dir, want, edgesOnly) ==
  LET rids == SelectSeq(RowsFor(G, h, w, want),
                        LAMBDA rid : /\ rid # 0 /\ G.rows[rid].live
                                     /\ Follows(dir, w) \/ G.rows[rid].undirected
                                     /\ Narrowed(G, h, w, want) \/ TagMatches(G.rows[rid].tag, want))
  IN [i \in DOMAIN rids |-> LET r == G.rows[rids[i]] IN IF edgesOnly THEN r.handle ELSE NodeAt(r, Other(w))]
RefsOf(G, h, dir, want, edgesOnly) ==
  IF h \notin DOMAIN G.adj \/ h \in G.dead THEN <<>>
  ELSE Dedup(CollectSide(G, h, "out", dir, want, edgesOnly) \o CollectSide(G, h, "inn", dir, want, edgesOnly))
EdgePeer(G, eobj, h) ==
  IF eobj \notin DOMAIN G.rowOf THEN -1
  ELSE LET r == G.rows[G.rowOf[eobj]] IN
       IF ~r.live THEN -1 ELSE IF r.src = h THEN r.tgt ELSE IF r.tgt = h THEN r.src ELSE -1
BetweenHits(G, from, to, want, anyRow) ==
  LET out == RowsFor(G, from, "out", want)
      shorter == to \in DOMAIN G.adj /\ Len(RowsFor(G, to, "inn", want)) < Len(out)
      nar == IF shorter THEN Narrowed(G, to, "inn", want) ELSE Narrowed(G, from, "out", want) IN
  IF from \notin DOMAIN G.adj THEN <<>>
  ELSE SelectSeq(IF shorter THEN RowsFor(G, to, "inn", want) ELSE out,
                 LAMBDA rid : /\ rid # 0 /\ G.rows[rid].live
                              /\ G.rows[rid].src = from /\ G.rows[rid].tgt = to
                              /\ anyRow \/ G.rows[rid].undirected
                              /\ nar \/ TagMatches(G.rows[rid].tag, want))
Between(G, src, tgt, dir, want) ==
  IF src \notin DOMAIN G.adj THEN <<>>
  ELSE Dedup(BetweenHits(G, src, tgt, want, Follows(dir, "out")) \o BetweenHits(G, tgt, src, want, Follows(dir, "inn")))

-----------------------------------------------------------------------------
(* Operations; during the calls of a predicate, what it does.              *)
Outside(what) == picking.on => picking.called /\ what \in PredMay
HasNoRows(G, h) == \A w \in Ways : h \notin DOMAIN G.adj \/ Len(G.adj[h][w]) - HolesAt(G, h, w) = 0
RegionReg(G, h) ==
  IF RegionOf[h] = 0 \/ ~HasNoRows(G, h) THEN G
  ELSE [G EXCEPT !.regions = With_(@, RegionOf[h], IF RegionOf[h] \in DOMAIN @ THEN @[RegionOf[h]] \cup {h} ELSE {h})]
Connect_(e) ==
  LET H == [osp EXCEPT !.adj = [h \in DOMAIN @ \cup {e.src, e.tgt} |-> IF h \in DOMAIN @ THEN @[h] ELSE NewAdj]]
      I == RegionReg(RegionReg(H, e.src), e.tgt)
      K == RowAlloc(I, e)
      rid == K.rowOf[e.eobj] IN
  /\ Outside("connect") /\ e.eobj \notin DOMAIN osp.rowOf /\ {e.src, e.tgt} \cap osp.dead = {}
  /\ osp' = AddSide(AddSide(K, e.src, "out", rid), e.tgt, "inn", rid)
  /\ linked' = Append(linked, e) /\ UNCHANGED picking
Disconnect_(eobj) ==
  /\ Outside("disconnect") /\ eobj \in DOMAIN osp.rowOf /\ osp.rows[osp.rowOf[eobj]].live
  /\ osp' = Cut_(osp, <<osp.rowOf[eobj]>>) /\ linked' = SelectSeq(linked, LAMBDA e : e.eobj # eobj) /\ UNCHANGED picking

(* What is meant by the edges between two nodes.                           *)
Joins(e, src, tgt, dir, want) ==
  /\ want = -1 \/ IsA(e.tag, want)
  /\ \/ e.src = src /\ e.tgt = tgt /\ (Follows(dir, "out") \/ e.undirected)
     \/ e.src = tgt /\ e.tgt = src /\ (Follows(dir, "inn") \/ e.undirected)
DisconnectBetween(src, tgt, dir, want) ==
  /\ ~picking.on /\ src \in DOMAIN osp.adj
  /\ osp' = Cut_(osp, Between(osp, src, tgt, dir, want))
  /\ linked' = SelectSeq(linked, LAMBDA e : ~Joins(e, src, tgt, dir, want)) /\ UNCHANGED picking
DisconnectBetweenPred(src, tgt, dir, want) ==
  /\ ~picking.on /\ src \in DOMAIN osp.adj /\ Between(osp, src, tgt, dir, want) # <<>>
  /\ picking' = [NotPicking EXCEPT !.on = TRUE, !.asks = Between(osp, src, tgt, dir, want)]
  /\ UNCHANGED <<osp, linked>>
AskPred(yes) ==
  /\ picking.asks # <<>>
  /\ LET rid == Head(picking.asks) IN
     picking' = [picking EXCEPT !.asks = Tail(@), !.called = TRUE,
                                !.goes = IF yes THEN Append(@, rid) ELSE @,
                                !.gone = IF yes THEN @ \cup {osp.rows[rid].handle} ELSE @]
  /\ UNCHANGED <<osp, linked>>
PredDone ==
  /\ picking.on /\ picking.asks = <<>>
  /\ osp' = Cut_(osp, picking.goes) /\ linked' = SelectSeq(linked, LAMBDA e : e.eobj \notin picking.gone)
  /\ picking' = NotPicking

RowsOf(G, h) == SelectSeq(G.adj[h]["out"] \o G.adj[h]["inn"], LAMBDA rid : rid # 0 /\ G.rows[rid].live)
Destroyed_(h) ==
  IF h \in osp.dead THEN osp
  ELSE LET H == [osp EXCEPT !.dead = @ \cup {h}] IN IF h \in DOMAIN osp.adj THEN Cut_(H, Dedup(RowsOf(osp, h))) ELSE H
Apart_(hs) == SelectSeq(linked, LAMBDA e : {e.src, e.tgt} \cap hs = {})
NodeDestroy(h) == ~picking.on /\ h \notin osp.dead /\ osp' = Destroyed_(h) /\ linked' = Apart_({h}) /\ UNCHANGED picking
ForgetIndex(G, hs) ==
  [G EXCEPT !.tags = [w \in Ways |-> [h \in DOMAIN @[w] \ hs |-> @[w][h]]],
            !.holes = [w \in Ways |-> [h \in DOMAIN @[w] \ hs |-> @[w][h]]]]
(* A node's place is free again, and another node may come to it.          *)
DropNode(h) ==
  /\ ~picking.on /\ h \in DOMAIN osp.adj \cup osp.dead
  /\ osp' = LET H == ForgetIndex(Destroyed_(h), {h}) IN [H EXCEPT !.adj = Without_(@, h), !.dead = @ \ {h}]
  /\ linked' = Apart_({h}) /\ UNCHANGED picking
(* All nodes of a region go at once, and their rows with them.             *)
RegionDied(rgn) ==
  LET hs == osp.regions[rgn]
      H == ForgetIndex(osp, hs)
      I == [H EXCEPT !.regions = Without_(@, rgn), !.adj = [h \in DOMAIN @ \ hs |-> @[h]], !.dead = @ \ hs]
      stash == FoldLeft(LAMBDA rids, h : rids \o RowsOf(osp, h), <<>>, SetToSeq(hs \cap DOMAIN osp.adj)) IN
  /\ ~picking.on /\ rgn \in DOMAIN osp.regions
  /\ osp' = Cut_(I, Dedup(stash)) /\ linked' = Apart_({h \in Places : RegionOf[h] = rgn}) /\ UNCHANGED picking

Types == DOMAIN BaseOf \cup {-1}
GraphSteps ==
  \/ \E e \in edges_ : Connect_(e)
  \/ \E e \in edges_ : Disconnect_(e.eobj)
  \/ \E src, tgt \in Places, dir \in 1..3, want \in Types :
       DisconnectBetween(src, tgt, dir, want) \/ DisconnectBetweenPred(src, tgt, dir, want)
  \/ \E yes \in BOOLEAN : AskPred(yes)
  \/ PredDone
  \/ \E h \in Places : NodeDestroy(h) \/ DropNode(h)
  \/ \E h \in Places : RegionDied(RegionOf[h])
GraphNext == GraphSteps /\ UNCHANGED edges_
GraphSpec == GraphInit /\ [][GraphNext]_graphVars

-----------------------------------------------------------------------------
(* Whatever was connected, cut, destroyed and used again, each node's      *)
(* edges are found from it, by direction and type, in the order they were  *)
(* made, and no others.                                                    *)
Linked(h, w, dir, want, edgesOnly) ==
  LET es == SelectSeq(linked, LAMBDA e : /\ NodeAt(e, w) = h /\ (Follows(dir, w) \/ e.undirected)
                                         /\ want = -1 \/ IsA(e.tag, want))
  IN [i \in DOMAIN es |-> IF edgesOnly THEN es[i].eobj ELSE NodeAt(es[i], Other(w))]
RefsAreExact ==
  \A h \in Places, dir \in 1..3, want \in Types, eo \in BOOLEAN :
    RefsOf(osp, h, dir, want, eo) = Dedup(Linked(h, "out", dir, want, eo) \o Linked(h, "inn", dir, want, eo))

(* An edge is known by its object as long as it is linked, with both its   *)
(* ends.                                                                   *)
PeersAreKnown ==
  /\ DOMAIN osp.rowOf = {e.eobj : e \in ToSet(linked)}
  /\ \A e \in ToSet(linked) : EdgePeer(osp, e.eobj, e.src) = e.tgt /\ EdgePeer(osp, e.eobj, e.tgt) = e.src
=============================================================================
