-------------------------------- MODULE Trees --------------------------------
(***************************************************************************)
(* mkdir, rm and cp of whole trees: programs, each of one call that is     *)
(* made of many system calls, at work on one file system.  The native      *)
(* mkdir, rmdir and unlink are silent when they fail.                      *)
(***************************************************************************)
EXTENDS Integers, Sequences, FiniteSets, SequencesExt

CONSTANTS Paths,          \* sequences of names, with the beginnings of each
          Disks,          \* what there may be at first: functions of Paths to nodes
          Actors,
          Jobs            \* what the actors do: functions of Actors to calls

VARIABLES fs,             \* the node of each path: [kind, data]
          was,            \* what there was at first
          job,            \* the calls: [kind, path, dest, recursive, force, errorOnExist]
          prog            \* of each actor: [todo, failed, first]
treeVars == <<fs, was, job, prog>>

NoNode == [kind |-> "none", data |-> <<>>]
Kind(p) == IF p = <<>> THEN "dir" ELSE fs[p].kind
StatKind(p) == IF Kind(p) = "link" THEN Kind(fs[p].data) ELSE Kind(p)
Under(p, q) == Len(p) <= Len(q) /\ SubSeq(q, 1, Len(p)) = p
ChildrenIn(disk, p) == {q \in Paths : Len(q) = Len(p) + 1 /\ Under(p, q) /\ disk[q].kind # "none"}
Listed(p) == SetToSeq(ChildrenIn(fs, p))
Beginnings(p) == [n \in 1..Len(p) |-> SubSeq(p, 1, n)]

(* A step of a call: what of it is to do, with which paths, and what it    *)
(* knows by now.                                                           *)
Step(do, p, q, known) == [do |-> do, at |-> p, to |-> q, known |-> known]
OneStep(do, p) == Step(do, p, <<>>, "none")
Begin(c) ==
  CASE c.kind = "mkdir" /\ c.recursive -> [n \in 1..Len(c.path) |-> OneStep("component", Beginnings(c.path)[n])]
    [] c.kind = "mkdir" -> <<OneStep("mkdir", c.path)>>
    [] c.kind = "rm" /\ c.recursive -> <<OneStep("remove", c.path)>>
    [] c.kind = "rm" -> <<OneStep("rm", c.path)>>
    [] OTHER -> <<Step("source", c.path, c.dest, "none")>>
TreeInit ==
  /\ fs \in Disks /\ was = fs /\ job \in Jobs
  /\ prog = [a \in Actors |-> [todo |-> Begin(job[a]), failed |-> FALSE, first |-> <<>>]]

Doing(a, do) == prog[a].todo # <<>> /\ prog[a].todo[1].do = do
This(a) == prog[a].todo[1].at
That(a) == prog[a].todo[1].to
Goes(a, steps) == prog' = [prog EXCEPT ![a].todo = steps \o Tail(@)] /\ UNCHANGED <<was, job>>
Fails(a) == prog' = [prog EXCEPT ![a].todo = <<>>, ![a].failed = TRUE] /\ UNCHANGED <<was, job>>
FailsUnless(a, holds, steps) == (IF holds THEN Goes(a, steps) ELSE Fails(a)) /\ UNCHANGED fs

(* The native calls.                                                       *)
Makes(p) == fs' = IF Kind(p) = "none" /\ Kind(Front(p)) = "dir" THEN [fs EXCEPT ![p] = [kind |-> "dir", data |-> <<>>]] ELSE fs
Unlinks(p) == fs' = IF Kind(p) \in {"file", "link"} THEN [fs EXCEPT ![p] = NoNode] ELSE fs
RemovesDir(p) == fs' = IF Kind(p) = "dir" /\ ChildrenIn(fs, p) = {} THEN [fs EXCEPT ![p] = NoNode] ELSE fs

-----------------------------------------------------------------------------
(* mkdir: each component is looked for, and made when it is not there.     *)
Component(a) ==
  /\ Doing(a, "component")
  /\ FailsUnless(a, StatKind(This(a)) \in {"none", "dir"},
                 IF StatKind(This(a)) = "none" THEN <<OneStep("make", This(a))>> ELSE <<>>)
Make(a) ==
  /\ Doing(a, "make") /\ Makes(This(a))
  /\ prog' = [prog EXCEPT ![a].todo = Tail(@), ![a].first = IF @ = <<>> THEN This(a) ELSE @]
  /\ UNCHANGED <<was, job>>
MkdirPlain(a) == Doing(a, "mkdir") /\ FailsUnless(a, StatKind(This(a)) = "none", <<OneStep("make", This(a))>>)

(* rm: a directory is listed, emptied and removed; a link is not followed. *)
RmLook(a) ==
  /\ Doing(a, "remove")
  /\ Goes(a, CASE Kind(This(a)) = "none" -> <<>>
               [] Kind(This(a)) = "dir" -> <<OneStep("empty", This(a))>>
               [] OTHER -> <<OneStep("unlink", This(a))>>)
  /\ UNCHANGED fs
(* A bug: the directory is removed, and not what is in it.                 *)
EmptyFiles(a) ==
  LET entries == SelectSeq(Listed(This(a)), LAMBDA q : Kind(q) # "dir") IN
  /\ Doing(a, "empty")
  /\ Goes(a, [i \in DOMAIN entries |-> OneStep("remove", entries[i])] \o <<OneStep("rmdir", This(a))>>)
  /\ UNCHANGED fs

Empty(a) ==
  LET entries == IF Kind(This(a)) = "dir" THEN Listed(This(a)) ELSE <<>> IN
  /\ Doing(a, "empty")
  /\ Goes(a, [i \in DOMAIN entries |-> OneStep("remove", entries[i])] \o <<OneStep("rmdir", This(a))>>)
  /\ UNCHANGED fs
Unlink(a) == Doing(a, "unlink") /\ Unlinks(This(a)) /\ Goes(a, <<>>)
RmdirEmpty(a) == Doing(a, "rmdir") /\ RemovesDir(This(a)) /\ Goes(a, <<>>)
Rm(a) == Doing(a, "rm") /\ FailsUnless(a, Kind(This(a)) # "dir", <<OneStep("unlink", This(a)), OneStep("rmdir", This(a))>>)

-----------------------------------------------------------------------------
(* cp: an item is looked at in its source and in its destination, the top  *)
(* one with its parents, and looked at again before it is copied.          *)
Source(a) ==
  /\ Doing(a, "source")
  /\ FailsUnless(a, Kind(This(a)) # "none", <<Step("destination", This(a), That(a), Kind(This(a)))>>)
Destination(a) ==
  LET s == This(a) d == That(a) src == prog[a].todo[1].known there == Kind(d)
      parents == IF s = job[a].path THEN <<OneStep("parents", Front(d))>> ELSE <<>>
  IN /\ Doing(a, "destination")
     /\ FailsUnless(a, /\ there # "none" => s # d /\ (src = "dir" <=> there = "dir")
                       /\ src = "dir" => ~Under(s, d),
                    parents \o <<Step(IF there = "none" THEN "new" ELSE "over", s, d, "none")>>)
Parents(a) ==
  /\ Doing(a, "parents")
  /\ FailsUnless(a, TRUE, IF StatKind(This(a)) # "none" THEN <<>>
                          ELSE [n \in DOMAIN This(a) |-> OneStep("component", Beginnings(This(a))[n])])
Into(s, d, q) == d \o SubSeq(q, Len(s) + 1, Len(q))
Over(a) ==
  LET s == This(a) d == That(a) c == job[a] now == Kind(s) IN
  /\ Doing(a, "over")
  /\ FailsUnless(a, now # "none" /\ (now = "dir" => c.recursive) /\ (now # "link" /\ c.errorOnExist => c.force),
       CASE now = "dir" -> <<Step("entries", s, d, "none")>>
         [] now = "file" -> IF c.force THEN <<OneStep("replace", d), Step("copy", s, d, "none")>> ELSE <<>>
         [] OTHER -> (IF Kind(d) = "link" THEN <<OneStep("replace", d)>> ELSE <<>>) \o <<Step("symlink", s, d, "none")>>)
New(a) ==
  LET s == This(a) d == That(a) IN
  /\ Doing(a, "new")
  /\ FailsUnless(a, Kind(s) # "none" /\ (Kind(s) = "dir" => job[a].recursive),
       CASE Kind(s) = "dir" -> <<OneStep("mkdir", d), Step("entries", s, d, "none")>>
         [] Kind(s) = "file" -> <<Step("copy", s, d, "none")>>
         [] OTHER -> <<Step("symlink", s, d, "none")>>)
Entries(a) ==
  LET s == This(a) d == That(a) IN
  /\ Doing(a, "entries")
  /\ FailsUnless(a, Kind(s) = "dir", [i \in DOMAIN Listed(s) |-> Step("source", Listed(s)[i], Into(s, d, Listed(s)[i]), "none")])
Replace(a) == Doing(a, "replace") /\ FailsUnless(a, StatKind(This(a)) # "none", <<OneStep("unlink", This(a))>>)
Copy(a) ==
  LET s == This(a) d == That(a) IN
  /\ Doing(a, "copy")
  /\ IF Kind(s) = "file" /\ Kind(d) \in {"none", "file"} /\ Kind(Front(d)) = "dir"
     THEN fs' = [fs EXCEPT ![d] = fs[s]] /\ Goes(a, <<>>)
     ELSE UNCHANGED fs /\ Fails(a)
Symlink(a) ==
  LET s == This(a) d == That(a) IN
  /\ Doing(a, "symlink")
  /\ IF Kind(s) = "link" /\ Kind(d) = "none"
     THEN fs' = (IF Kind(Front(d)) = "dir" THEN [fs EXCEPT ![d] = fs[s]] ELSE fs) /\ Goes(a, <<>>)
     ELSE UNCHANGED fs /\ Fails(a)

TreeNext ==
  \E a \in Actors :
    \/ Component(a) \/ Make(a) \/ MkdirPlain(a)
    \/ RmLook(a) \/ Empty(a) \/ Unlink(a) \/ RmdirEmpty(a) \/ Rm(a)
    \/ Source(a) \/ Destination(a) \/ Parents(a) \/ Over(a) \/ New(a)
    \/ Entries(a) \/ Replace(a) \/ Copy(a) \/ Symlink(a)
TreeSpec == TreeInit /\ [][TreeNext]_treeVars

-----------------------------------------------------------------------------
Done(a) == prog[a].todo = <<>>
Ok(a) == Done(a) /\ ~prog[a].failed
Doers(kinds) == \A a \in Actors : job[a].kind \in kinds
AloneThere(a) == \A b \in Actors \ {a} : ~Under(job[b].path, job[a].path) /\ ~Under(job[a].path, job[b].path)
                                     /\ ~Under(job[b].path, job[a].dest) /\ ~Under(job[a].dest, job[b].path)

(* Who removed a tree left nothing of it, whoever else removed there too.  *)
RemovedIsGone ==
  \A a \in Actors : job[a].kind = "rm" /\ Doers({"rm"}) /\ Ok(a) => \A p \in Paths : Under(job[a].path, p) => fs[p].kind = "none"

(* Who made directories has them, and fails only for what was in the way   *)
(* at first, whoever else made some of them meanwhile.                     *)
MadeIsThere ==
  \A a \in Actors : job[a].kind = "mkdir" /\ job[a].recursive /\ Doers({"mkdir"}) /\ Done(a) =>
    IF prog[a].failed THEN \E n \in DOMAIN job[a].path : was[Beginnings(job[a].path)[n]].kind = "file"
    ELSE /\ \A n \in DOMAIN job[a].path : Kind(Beginnings(job[a].path)[n]) = "dir"
         /\ AloneThere(a) => prog[a].first = FoldLeft(LAMBDA f, p : IF f = <<>> /\ was[p].kind = "none" THEN p ELSE f, <<>>, Beginnings(job[a].path))

(* A copy that is done has all of its source, and what was in the          *)
(* destination besides; what may not be replaced is not.                   *)
CopyIsWhole ==
  \A a \in Actors : job[a].kind = "cp" /\ ~Under(job[a].path, job[a].dest) /\ Ok(a) /\ AloneThere(a) =>
    \A p \in Paths :
      LET c == job[a] IN
      /\ Under(c.path, p) /\ was[p].kind # "none" =>
           LET q == Into(c.path, c.dest, p) IN
           fs[q] = IF was[q].kind = "file" /\ ~c.force THEN was[q] ELSE was[p]
      /\ Under(c.dest, p) /\ was[p].kind # "none" => fs[p].kind # "none"

(* No call changes what is not under a path it was given, or on the way to *)
(* one that it makes; and a copy leaves its source as it is.               *)
KeepsToItself ==
  \A p \in Paths : fs[p] # was[p] =>
    \E a \in Actors : \/ job[a].kind = "rm" /\ Under(job[a].path, p) /\ fs[p].kind = "none"
                      \/ job[a].kind = "mkdir" /\ Under(p, job[a].path) /\ fs[p].kind = "dir"
                      \/ job[a].kind = "cp" /\ (Under(job[a].dest, p) \/ (Under(p, job[a].dest) /\ fs[p].kind = "dir"))

(* Of those who copy the same tree to the same place one gets through, and *)
(* in the end all of it is there.                                          *)
OneGetsThrough ==
  \A a \in Actors : job[a].kind = "cp" /\ ~Under(job[a].path, job[a].dest) /\ job[a].force /\ was[job[a].path].kind = "dir" /\ (\A b \in Actors : job[b] = job[a] /\ Done(b)) =>
    (\E b \in Actors : Ok(b)) <=>
    \A p \in Paths : Under(job[a].path, p) => fs[Into(job[a].path, job[a].dest, p)] = was[p]
=============================================================================
