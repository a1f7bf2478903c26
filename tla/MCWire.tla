-------------------------------- MODULE MCWire --------------------------------
(***************************************************************************)
(* What the JavaScript runtime reads and writes by descriptor and handle,  *)
(* for one run: fetch and its pool, web sockets, the streams and handles   *)
(* of files, datagrams, those who watch files, and calls that work on whole   *)
(* trees.  A behaviour plays one of the parts and leaves the others at    *)
(* their initial state.                                                    *)
(***************************************************************************)
EXTENDS Fetch, WebSockets, FileStreams, Datagrams, Watchers, Trees, TLC

CONSTANT Parts      \* the parts to play
VARIABLE part,      \* the one a behaviour plays
         plays      \* the streams of files that are made in it
wireVars == <<part, plays, fetchVars, wsVars, fileVars, dgVars, watchVars, statVars, treeVars>>

(* The answers of servers: with a length, in chunks, compressed, or up to  *)
(* the end of the connection; the last one sends elsewhere.                *)
Answer(framing, close, redirect, parts) ==
  [framing |-> framing, close |-> close, redirect |-> redirect, parts |-> parts]
Answers == { Answer("length", FALSE, FALSE, 2), Answer("chunked", TRUE, FALSE, 1), Answer("packed", FALSE, TRUE, 1) }

(* Streams of files: one reads part of a file, one writes another file,    *)
(* and one is made from a file handle. Each is played by itself, and pairs *)
(* without pauses and without writes of the handle.                        *)
FilesOfStreams == [s \in {"reader", "writer", "handled"} |->
                     CASE s = "reader" -> "a" [] s = "writer" -> "b" [] OTHER -> "h"]
StartOf == [s \in {"reader", "writer", "handled"} |-> IF s = "reader" THEN 2 ELSE IF s = "writer" THEN 1 ELSE 0]
EndOf == [s \in {"reader", "writer", "handled"} |-> IF s = "reader" THEN 4 ELSE 0]
Held(file, n) == [i \in 1..n |-> <<file, i>>]
Disk == [f \in {"a", "b", "h"} |-> CASE f = "a" -> Held(f, 5) [] f = "b" -> Held(f, 1) [] OTHER -> Held(f, 2)]
NoShorts == {}
Nested == [x \in {"d", "e"} |-> IF x = "d" THEN "r" ELSE "d"]
NoLiberties == {}
Together == {{"reader"}, {"handled"}, {"reader", "writer"}, {"handled", "writer"}}
Plain == (\A s \in Streams_ : strm[s].flow => strm'[s].flow) /\ hand'.st # "writing"

(* Two programs, each with one call: on a tree with a link and a directory *)
(* in it, and on what there may be of another one at its destination.      *)
In(p) == {p \o x : x \in {<<"f">>, <<"d">>, <<"d", "g">>, <<"l">>}}
AllPaths == {<<"s">>, <<"t">>, <<"t", "c">>} \cup In(<<"s">>) \cup In(<<"t", "c">>)
FileNode(p) == [kind |-> "file", data |-> p]
DirNode == [kind |-> "dir", data |-> <<>>]
Shape(p) == [q \in {p} \cup In(p) |->
               CASE q \in {p, p \o <<"d">>} -> DirNode
                 [] q = p \o <<"l">> -> [kind |-> "link", data |-> p \o <<"f">>]
                 [] OTHER -> FileNode(q)]
Src == Shape(<<"s">>) @@ [p \in AllPaths |-> NoNode]
OnDisk == { Src,
            (<<"t">> :> DirNode) @@ (<<"t", "c">> :> DirNode) @@ (<<"t", "c", "f">> :> FileNode(<<"t", "c", "f">>)) @@ Src,
            Shape(<<"t", "c">>) @@ (<<"t">> :> DirNode) @@ Src,
            (<<"t">> :> DirNode) @@ (<<"t", "c">> :> FileNode(<<"t", "c">>)) @@ Src }
CallOn(kind, path) ==
  [kind |-> kind, path |-> path, dest |-> <<"-">>, recursive |-> TRUE, force |-> FALSE, errorOnExist |-> FALSE]
Cp(force, eoe) == [CallOn("cp", <<"s">>) EXCEPT !.dest = <<"t", "c">>, !.force = force, !.errorOnExist = eoe]
Plainly(j) == [j EXCEPT !.recursive = FALSE]
SomeCalls ==
  { CallOn("rm", <<"s">>), CallOn("rm", <<"s", "d">>), CallOn("rm", <<"t", "c">>),
    Plainly(CallOn("rm", <<"s">>)), Plainly(CallOn("rm", <<"s", "f">>)),
    CallOn("mkdir", <<"t", "c", "d">>), CallOn("mkdir", <<"t", "c">>), Plainly(CallOn("mkdir", <<"t", "c">>)),
    Cp(TRUE, FALSE), Cp(FALSE, TRUE), Cp(FALSE, FALSE), Plainly(Cp(TRUE, FALSE)),
    [Cp(TRUE, FALSE) EXCEPT !.dest = <<"s", "d">>] }
PairsOfCalls == [{1, 2} -> SomeCalls]
FirstJobs == CHOOSE j \in PairsOfCalls : TRUE

WireInit ==
  /\ part \in Parts
  /\ TreeInit /\ (part = "trees" \/ <<job, fs>> = <<FirstJobs, Src>>)
  /\ FetchInit /\ FileInit /\ DgInit /\ StatInit /\ (part = "stats" \/ version.now = 0)
  /\ WatchInit /\ (part = "watchers" \/ tree.dirs = {Root})
  /\ plays \in IF part = "files" THEN Together ELSE {{}}
  /\ WsInit /\ (part = "sockets" \/ \A c \in WsConns : cli[c].react = "none" /\ srv[c].react = "none")

Stays(p, vars) == IF part = p THEN TRUE ELSE UNCHANGED vars
WireNext ==
  /\ \/ part = "fetch" /\ FetchNext
     \/ part = "sockets" /\ WsNext
     \/ part = "datagrams" /\ DgNext
     \/ part = "watchers" /\ WatchNext
     \/ part = "stats" /\ StatNext
     \/ part = "trees" /\ TreeNext
     \/ part = "files" /\ FileNext /\ (\A s \in Streams_ \ plays : strm'[s].st = "new")
                         /\ (Cardinality(plays) = 2 => Plain)
  /\ Stays("fetch", fetchVars) /\ Stays("sockets", wsVars) /\ Stays("files", fileVars)
  /\ Stays("datagrams", dgVars) /\ Stays("watchers", watchVars) /\ Stays("stats", statVars)
  /\ Stays("trees", treeVars)
  /\ UNCHANGED <<part, plays>>
WireSpec == WireInit /\ [][WireNext]_wireVars

-----------------------------------------------------------------------------
(* A response is given to the fetch it answers, whole, over connections    *)
(* the pool keeps clean, and no fetch is forgotten.                        *)
ResponsesAreOwn == part = "fetch" => BodyIsItsOwn /\ PoolIsClean /\ NobodyForgotten

(* A web socket hears what its peer sent, opens and closes once, and is    *)
(* among the clients while it is open; one that is closing will be closed. *)
(* A socket of datagrams receives one at a time, as long as it listens,    *)
(* and tells each sender.                                                  *)
FramesAreHeard ==
  /\ part = "sockets" => MessagesHeardInOrder /\ OpensAndClosesOnce /\ ClientsAreTheOpen /\ ClosingEnds
  /\ part = "datagrams" => OneReceive /\ InTheirOrder /\ SendersTold

(* Files are read and written exactly, over descriptors of one's own, and  *)
(* who watches a tree or a path misses nothing of it, as long as it does.  *)
(* Trees are made, removed and copied whole, and nothing but them.         *)
FilesAreExact ==
  /\ part = "files" => ReadIsExact /\ WriteIsWhole /\ DescriptorsAreOwn /\ HandleWrites
  /\ part = "watchers" => TreeIsWatched /\ ClosedIsClosed /\ GivenInOrder
  /\ part = "stats" => NonePassedOver /\ PolledForSomebody
  /\ part = "trees" => RemovedIsGone /\ MadeIsThere /\ CopyIsWhole /\ KeepsToItself /\ OneGetsThrough
=============================================================================
