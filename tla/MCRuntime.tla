------------------------------ MODULE MCRuntime ------------------------------
(***************************************************************************)
(* The graph in memory, and the parts of the JavaScript runtime that need  *)
(* no network, for one run: a behaviour plays one of the parts and leaves  *)
(* the others at their initial state, so what is explored is the union of  *)
(* the parts' state graphs.                                                *)
(***************************************************************************)
EXTENDS Emitters, AsyncContext, Workers, Iterators, Combinators, Atomics, BlockLists, BinaryViews, Processes, Decoders,
        RegExps, Comparisons, OspGraph

CONSTANT Parts      \* the parts to play
VARIABLE part       \* the one a behaviour plays
runtimeVars == <<part, emitterVars, contextVars, workerVars, iterVars, combVars, atomicVars, blockVars, viewVars, procVars, decVars, reVars, setVars, cmpVars, graphVars>>

(* A regular expression that finds nothing.                                *)
SomeRegExp == [len |-> [i \in {0} |-> -1], global |-> FALSE, sticky |-> FALSE, unicode |-> FALSE,
               captures |-> CHOOSE c \in Captured : TRUE, lastIndex |-> 0]
NoText == [enc |-> "utf8", bytes |-> <<>>, fed |-> 0, ended |-> FALSE]
(* What varies from the start of one part is fixed while another plays.    *)
Plays(p, name, value) == part = p \/ name = value
RuntimeInit ==
  /\ part \in Parts
  /\ EmitterInit /\ Plays("emitters", <<dispatcher, licence>>, <<"emitter", CHOOSE l \in Licences("emitter") : TRUE>>)
  /\ ContextInit
  /\ WorkerInit /\ Plays("workers", scene, "locks")
  /\ IterInit /\ Plays("iterators", <<kind, left>>, <<"map", 0>>)
  /\ CombInit /\ Plays("combinators", method, "all")
  /\ AtomicInit /\ Plays("atomics", view, CHOOSE v \in Views : TRUE)
  /\ BlockInit
  /\ ViewInit /\ Plays("views", over, CHOOSE v \in ViewsOf : TRUE)
  /\ (part = "regexps" \/ (subj = <<>> /\ rx = SomeRegExp)) /\ RegExpInit
  /\ SetInit /\ (part = "sets" \/ data["this"] \o data["other"] = <<>>)
  /\ (part = "decoders" \/ text = NoText) /\ DecInit
  /\ ProcInit /\ Plays("processes", child.program, CHOOSE p \in Programs : TRUE)
  /\ GraphInit /\ Plays("graph", edges_, CHOOSE es \in EdgeSets : TRUE)
  /\ IF part = "comparisons" THEN CmpInit ELSE compared = [what |-> "nothing"]

Stays(p, vars) == IF part = p THEN TRUE ELSE UNCHANGED vars
RuntimeNext ==
  /\ \/ part = "emitters" /\ EmitterNext
     \/ part = "context" /\ ContextNext
     \/ part = "workers" /\ WorkerNext
     \/ part = "iterators" /\ IterNext
     \/ part = "combinators" /\ CombNext
     \/ part = "atomics" /\ AtomicNext
     \/ part = "blocklists" /\ BlockNext
     \/ part = "views" /\ ViewNext
     \/ part = "processes" /\ ProcNext
     \/ part = "decoders" /\ DecNext
     \/ part = "regexps" /\ RegExpNext
     \/ part = "sets" /\ SetNext
     \/ part = "comparisons" /\ CmpNext
     \/ part = "graph" /\ GraphNext
  /\ Stays("emitters", emitterVars) /\ Stays("context", contextVars)
  /\ Stays("workers", workerVars) /\ Stays("iterators", iterVars)
  /\ Stays("combinators", combVars) /\ Stays("atomics", atomicVars)
  /\ Stays("blocklists", blockVars) /\ Stays("views", viewVars)
  /\ Stays("processes", procVars) /\ Stays("decoders", decVars)
  /\ Stays("regexps", reVars) /\ Stays("sets", setVars)
  /\ Stays("comparisons", cmpVars) /\ Stays("graph", graphVars)
  /\ UNCHANGED part

RuntimeSpec == RuntimeInit /\ [][RuntimeNext]_runtimeVars

-----------------------------------------------------------------------------
(* Iterators go in step and none is left open.                             *)
IteratorsInStep == part = "iterators" => ZipInStep /\ NothingLeaks

(* The registry of waiters is exact, and so is the arithmetic; a list of   *)
(* blocked addresses refuses the addresses of its rules and no others; and *)
(* text and base64 mean the same however they are cut; a regular expression *)
(* finds all there is, and a method of a set tells the truth of what stays.*)
(* And what is said of two values that differ is what differs, and a node  *)
(* of the graph has the edges that were made and not cut.                  *)
DataIsExact ==
  /\ part = "atomics" => RegistryIsTruth /\ ModularArithmetic
  /\ part = "blocklists" => BlocksWhatWasAsked
  /\ part = "decoders" => CharactersAreWhole /\ ReadsOn
  /\ part = "regexps" => MatchesAreAll /\ RestIsKept /\ SplitIsWhole /\ TemplatesAreText
  /\ part = "sets" => StableAreRight
  /\ part = "comparisons" => DifferenceIsLeast /\ PrintIsFaithful /\ EqualityIsDeep
  /\ part = "graph" => RefsAreExact /\ PeersAreKnown

(* Operations on a buffer stay inside it, whatever a callback did to it,   *)
(* and do their work when none did anything.                               *)
ViewsAreExact == part = "views" => AccessInBounds /\ BlockIsOwn /\ ExactWhenAlone

(* A child is heard out before its close, its lines are those it wrote,    *)
(* and it reads what was written to it; neither waits for the other.       *)
ChildrenAreHeard == part = "processes" => OutputIsWhole /\ InputIsWhole /\ LinesAreWhole /\ ProcessGoesOn

-----------------------------------------------------------------------------
(* What a listener may do to the table while it is told.                   *)
CarefulLicences(d) ==
  CASE d = "emitter" -> {{"on", "twice"}}
    [] d \in {"port", "target"} -> {{"on", "throw"}, {"off", "throw"}}
    [] OTHER -> {{"twice", "on", "off", "dispatch", "throw"}}
AllLicences(d) == {{"twice", "on", "off", "dispatch", "throw"}}
AllViews == [signed : BOOLEAN, big : BOOLEAN]
(* One child writes a line that ends in two characters, one answers what   *)
(* it reads.                                                               *)
Children == { <<"a", Cr, Lf, "b">>, <<"read", "a", "read", Lf>> }
SomeViews == [off : {0, 2}, len : {1, 2}, fixed : BOOLEAN, bpe : {1, 2}]
FourBytes == <<5, 3, 4, 1>>
SomeResults == {-1, 0, 1, 3, 300}
SomeSubjects == {<<"a", "hi", "lo">>, <<>>}
SomeLengths == {-1, 0, 1, 2}
SomeTemplates ==
  { <<"$", "1", "0">>, <<"$", "<", "x", ">">>, <<"$", "$", "&">>, <<"x", "$">>, <<"$", "0", "1", "`">>, <<"$", "9", "'">> }
(* Lines that differ in their comma, and runs of equal lines.              *)
Line(t, c) == [text |-> t, comma |-> c]
SomeTexts ==
  LET a == Line("a", FALSE)
      b == Line("b", FALSE) IN
  SeqOf({a, b, Line("a", TRUE)}, 3) \cup {<<b, b, b, b>>, <<b, b, b, b, a>>, <<b, b, b, a>>, <<a, b, b, b, b, b, a>>}
(* Three objects that refer to each other; no array is reached from itself *)
(* by arrays only.                                                         *)
SomeShapes ==
  {g \in [{1, 2, 3} -> [kind : {"object", "array"}, of : [{"x"} -> 0..3] \cup [{"x", "y"} -> {0, 1, 3}]]] :
     \A n \in {1, 2, 3} : g[n].kind = "array" =>
       \A k \in DOMAIN g[n].of : g[n].of[k] \notin 1..n \/ g[g[n].of[k]].kind = "object"}
(* Three edges of three types, one a loop or three side by side.           *)
Edge(o, s, t, k, u) == [eobj |-> o, src |-> s, tgt |-> t, tag |-> k, undirected |-> u]
SomeEdges ==
  { {Edge(1, 1, 2, 1, FALSE), Edge(2, 1, 2, 2, TRUE), Edge(3, 1, 1, 1, FALSE)},
    {Edge(1, 1, 2, 1, FALSE), Edge(2, 1, 2, 2, FALSE), Edge(3, 1, 2, 3, TRUE)} }
SomeBases == <<{1}, {2, 1}, {3}>>
SomeRegions == <<7, 0>>
SmallInts == {-9, -1, 0, 1, 2, 5, 10}
=============================================================================
