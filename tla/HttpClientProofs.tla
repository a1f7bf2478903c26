--------------------------- MODULE HttpClientProofs ---------------------------
(***************************************************************************)
(* A connection of the http agent carries one request at a time, for any   *)
(* number of requests and every setting of the agent.  The proof goes over *)
(* worlds [req, sock, pool]: every operation of the agent takes a good     *)
(* world to a good one.                                                    *)
(***************************************************************************)
EXTENDS HttpClient, FiniteSetTheorems, SequenceTheorems, TLAPS

-----------------------------------------------------------------------------
(* The inductive invariant                                                 *)

AReq == [st : {"new", "asked", "aborted", "dropped", "failed"}, sock : Nat, ended : BOOLEAN,
         aborted : BOOLEAN, sent : BOOLEAN, res : {"none", "head", "done"}, hops : Nat]
ASock == [st : {"connecting", "open", "ended", "dead"}, owner : Requests,
          reader : Requests \cup {0}, idle : BOOLEAN,
          mode : {"none", "length", "close", "toEnd", "redirect"}, tracked : BOOLEAN,
          unanswered : SUBSET Requests]
Pool == [active : [Names -> Seq(Nat)], free : [Names -> Seq(Nat)],
         queue : [Names -> Seq(Requests)], total : Int]
Worlds == [req : [Requests -> AReq], sock : Seq(ASock), pool : Pool]

(* A response is read on the connection its request was sent on, and       *)
(* nothing else is asked there.                                            *)
Reads(w) ==
  \A s \in DOMAIN w.sock :
    LET r == w.sock[s].reader
    IN /\ w.sock[s].unanswered \subseteq {r}
       /\ r # 0 => w.req[r].sock = s /\ w.req[r].sent

(* A request that has a connection and was not sent has it for itself.     *)
Waiting(w, r) == w.req[r].sock # 0 /\ ~w.req[r].sent
Waits(w) ==
  \A r \in Requests :
    /\ w.req[r].sock <= Len(w.sock)
    /\ Waiting(w, r) =>
         /\ w.sock[w.req[r].sock].reader = 0
         /\ \A n \in Names : w.req[r].sock \notin ToSet(w.pool.free[n])
         /\ \A q \in Requests : Waiting(w, q) /\ w.req[q].sock = w.req[r].sock => q = r

(* A connection that is free is read by nobody, is free once, and is not   *)
(* in use.  An agent keeps them under one name.                            *)
Frees(w) ==
  \A n \in Names :
    /\ IsInjective(w.pool.free[n]) /\ IsInjective(w.pool.active[n])
    /\ ToSet(w.pool.active[n]) \subseteq DOMAIN w.sock
    /\ \A s \in ToSet(w.pool.free[n]) :
         s \in DOMAIN w.sock /\ w.sock[s].reader = 0 /\ s \notin ToSet(w.pool.active[n])
    /\ n # KeptUnder => w.pool.free[n] = <<>>

(* A request in the queue is there once, has no connection and was not     *)
(* sent; nor was one that is new.                                          *)
Bare(w, r) == w.req[r].sock = 0 /\ ~w.req[r].sent
Queues(w) ==
  /\ w.pool.queue["addr"] = <<>> /\ IsInjective(w.pool.queue["host"])
  /\ \A r \in ToSet(w.pool.queue["host"]) : Bare(w, r) /\ w.req[r].st # "new"
  /\ \A r \in Requests : w.req[r].st = "new" => Bare(w, r)

(* While the listeners of 'end' run, the connection is still that of the   *)
(* request whose response ended.                                           *)
Gives(w, g) ==
  g # 0 => /\ g \in Requests /\ w.req[g].sock # 0
           /\ w.sock[w.req[g].sock].reader = g /\ w.sock[w.req[g].sock].unanswered = {}

Good(w, g) == w \in Worlds /\ Reads(w) /\ Waits(w) /\ Frees(w) /\ Queues(w) /\ Gives(w, g)
ClientInv == Good(World, giving) /\ leaving \in {0} \cup DOMAIN asock

-----------------------------------------------------------------------------
(* Sequences                                                               *)

(* A bounded set of numbers that is not empty has a least and a greatest.  *)
LEMMA Extremes ==
    ASSUME NEW n \in Nat, NEW S, S \subseteq 1 .. n, S # {}
    PROVE  Min(S) \in S /\ Max(S) \in S
<1>1. S \subseteq Nat /\ \A i \in S : i <= n
  OBVIOUS
<1>2. \E x \in S : \A y \in S : x =< y
  <2>1. PICK x \in S : \A y \in S : ~(<<y, x>> \in OpToRel(<, Nat))
    BY <1>1, NatLessThanWellFounded, WFMin
  <2>2. \A y \in S : ~(y < x)
    BY <1>1, <2>1 DEF OpToRel
  <2> QED
    BY <1>1, <2>2
<1>3. \E x \in S : \A y \in S : x >= y
  <2>1. PICK T : T = {n - i : i \in S}
    OBVIOUS
  <2>2. T \subseteq Nat /\ T # {}
    <3>1. \A i \in S : n - i \in Nat
      BY <1>1
    <3>2. T \subseteq Nat
      BY <2>1, <3>1
    <3>3. PICK i \in S : TRUE
      OBVIOUS
    <3>4. n - i \in T
      BY <2>1, <3>3
    <3> QED
      BY <3>2, <3>4
  <2>3. PICK d \in T : \A e \in T : ~(<<e, d>> \in OpToRel(<, Nat))
    BY <2>2, NatLessThanWellFounded, WFMin
  <2>4. \A e \in T : ~(e < d)
    BY <2>2, <2>3 DEF OpToRel
  <2>5. PICK x \in S : d = n - x
    BY <2>1, <2>3
  <2>6. \A y \in S : n - y \in T
    BY <2>1
  <2> QED
    BY <1>1, <2>4, <2>5, <2>6
<1> QED
  BY <1>2, <1>3 DEF Min, Max

(* Part of a sequence: its elements are of it, each once.                  *)
Part(p, q) == IsInjective(p) /\ ToSet(p) \subseteq ToSet(q)

LEMMA NothingIs ==
    ASSUME NEW T
    PROVE  <<>> \in Seq(T) /\ ToSet(<<>>) = {} /\ IsInjective(<<>>)
BY DEF ToSet, IsInjective

LEMMA NothingIn ==
    ASSUME NEW T, NEW q \in Seq(T), ToSet(q) = {}
    PROVE  q = <<>>
<1>1. DOMAIN q = 1 .. Len(q) /\ Len(q) \in Nat
  OBVIOUS
<1>2. Len(q) = 0
  <2>1. SUFFICES ASSUME Len(q) # 0 PROVE FALSE
    OBVIOUS
  <2>2. 1 \in DOMAIN q
    BY <1>1, <2>1
  <2>3. q[1] \in ToSet(q)
    BY <2>2 DEF ToSet
  <2> QED
    BY <2>3
<1> QED
  BY <1>2, EmptySeq

LEMMA AppendIs ==
    ASSUME NEW T, NEW q \in Seq(T), NEW e \in T, IsInjective(q), e \notin ToSet(q)
    PROVE  /\ Append(q, e) \in Seq(T) /\ IsInjective(Append(q, e))
           /\ ToSet(Append(q, e)) = ToSet(q) \cup {e}
<1>1. PICK p \in Seq(T) : p = Append(q, e)
  BY AppendProperties
<1>2. /\ Len(q) \in Nat /\ Len(p) = Len(q) + 1
      /\ DOMAIN q = 1 .. Len(q) /\ DOMAIN p = 1 .. Len(q) + 1
      /\ \A i \in 1 .. Len(q) : p[i] = q[i]
      /\ p[Len(q) + 1] = e
  BY <1>1
<1>3. \A i \in DOMAIN q : q[i] # e
  BY DEF ToSet
<1>4. IsInjective(p)
  BY <1>2, <1>3 DEF IsInjective
<1>5. ToSet(p) \subseteq ToSet(q) \cup {e}
  BY <1>2 DEF ToSet
<1>6. ToSet(q) \cup {e} \subseteq ToSet(p)
  BY <1>2 DEF ToSet
<1> QED
  BY <1>1, <1>4, <1>5, <1>6

LEMMA SomeIs ==
    ASSUME NEW T, NEW q \in Seq(T), q # <<>>, IsInjective(q)
    PROVE  /\ Head(q) \in ToSet(q) /\ Head(q) \in T
           /\ Tail(q) \in Seq(T) /\ Part(Tail(q), q) /\ Head(q) \notin ToSet(Tail(q))
<1>1. PICK p \in Seq(T) : p = Tail(q)
  BY HeadTailProperties
<1>2. /\ Len(q) \in Nat /\ Len(q) > 0 /\ Len(p) = Len(q) - 1
      /\ DOMAIN q = 1 .. Len(q) /\ DOMAIN p = 1 .. Len(q) - 1
      /\ \A i \in 1 .. Len(q) - 1 : p[i] = q[i + 1]
      /\ Head(q) = q[1] /\ q[1] \in T
  BY <1>1
<1>3. IsInjective(p)
  <2>1. \A i, j \in DOMAIN q : q[i] = q[j] => i = j
    BY DEF IsInjective
  <2>2. SUFFICES ASSUME NEW i \in DOMAIN p, NEW j \in DOMAIN p, p[i] = p[j] PROVE i = j
    BY DEF IsInjective
  <2>3. /\ i + 1 \in DOMAIN q /\ j + 1 \in DOMAIN q /\ i \in Nat /\ j \in Nat
        /\ p[i] = q[i + 1] /\ p[j] = q[j + 1]
    BY <1>2
  <2>4. i + 1 = j + 1
    BY <2>1, <2>2, <2>3
  <2> QED
    BY <2>3, <2>4
<1>5. Head(q) \notin ToSet(p)
  <2>1. \A i, j \in DOMAIN q : q[i] = q[j] => i = j
    BY DEF IsInjective
  <2>2. ASSUME NEW i \in DOMAIN p PROVE p[i] # Head(q)
    <3>1. i + 1 \in DOMAIN q /\ 1 \in DOMAIN q /\ i + 1 # 1 /\ p[i] = q[i + 1]
      BY <1>2
    <3> QED
      BY <1>2, <2>1, <3>1
  <2> QED
    BY <2>2 DEF ToSet
<1>4. ToSet(p) \subseteq ToSet(q) /\ Head(q) \in ToSet(q)
  BY <1>2, SMTT(30) DEF ToSet
<1> QED
  BY <1>1, <1>2, <1>3, <1>4, <1>5 DEF Part

LEMMA SliceIs ==
    ASSUME NEW T, NEW q \in Seq(T), IsInjective(q), NEW a \in Nat, NEW b \in Nat,
           1 <= a, b <= Len(q)
    PROVE  /\ SubSeq(q, a, b) \in Seq(T) /\ Part(SubSeq(q, a, b), q)
           /\ \A i \in 1 .. Len(q) : i < a \/ i > b => q[i] \notin ToSet(SubSeq(q, a, b))
<1>1. PICK p : p = SubSeq(q, a, b)
  OBVIOUS
<1>2. /\ p \in Seq(T) /\ Len(p) = (IF a <= b THEN b - a + 1 ELSE 0)
      /\ \A i \in 1 .. b - a + 1 : p[i] = q[a + i - 1]
  <2>1. \A i \in a .. b : q[i] \in T
    OBVIOUS
  <2> QED
    BY <1>1, <2>1, SubSeqProperties
<1>3. DOMAIN p = 1 .. Len(p) /\ DOMAIN q = 1 .. Len(q) /\ Len(q) \in Nat
  BY <1>2
<1>4. \A i \in DOMAIN p : p[i] = q[a + i - 1] /\ a + i - 1 \in a .. b
  BY <1>2, <1>3
<1>5. IsInjective(p)
  BY <1>3, <1>4 DEF IsInjective
<1>6. ToSet(p) \subseteq ToSet(q)
  BY <1>3, <1>4 DEF ToSet
<1>7. \A i \in 1 .. Len(q) : i < a \/ i > b => q[i] \notin ToSet(p)
  BY <1>3, <1>4 DEF ToSet, IsInjective
<1> QED
  BY <1>1, <1>2, <1>5, <1>6, <1>7 DEF Part

LEMMA WithoutIs ==
    ASSUME NEW T, NEW q \in Seq(T), IsInjective(q), NEW e
    PROVE  /\ Without(q, e) \in Seq(T) /\ Part(Without(q, e), q)
           /\ e \notin ToSet(Without(q, e))
<1>1. PICK at : at = {i \in DOMAIN q : q[i] = e}
  OBVIOUS
<1>2. CASE at = {}
  <2>1. Without(q, e) = q /\ e \notin ToSet(q)
    BY <1>1, <1>2 DEF Without, ToSet
  <2> QED
    BY <2>1 DEF Part
<1>3. CASE at # {}
  <2>1. PICK m : m = Min(at)
    OBVIOUS
  <2>2. m \in at
    <3>1. Len(q) \in Nat /\ at \subseteq 1 .. Len(q)
      BY <1>1
    <3> QED
      BY <1>3, <2>1, <3>1, Extremes
  <2>3. m \in 1 .. Len(q) /\ q[m] = e /\ Len(q) \in Nat
    BY <1>1, <2>2
  <2>4. PICK a : a = SubSeq(q, 1, m - 1)
    OBVIOUS
  <2>5. PICK b : b = SubSeq(q, m + 1, Len(q))
    OBVIOUS
  <2>6. Without(q, e) = a \o b
    BY <1>1, <1>3, <2>1, <2>4, <2>5 DEF Without, RemoveAt
  <2>7. /\ a \in Seq(T) /\ Part(a, q)
        /\ \A i \in 1 .. Len(q) : i > m - 1 => q[i] \notin ToSet(a)
    BY <2>3, <2>4, SliceIs
  <2>8. /\ b \in Seq(T) /\ Part(b, q)
        /\ \A i \in 1 .. Len(q) : i < m + 1 => q[i] \notin ToSet(b)
    BY <2>3, <2>5, SliceIs
  <2>9. e \notin ToSet(a) /\ e \notin ToSet(b)
    BY <2>3, <2>7, <2>8
  <2>10. ToSet(a) \cap ToSet(b) = {}
    <3>1. \A i \in 1 .. Len(q) : q[i] \notin ToSet(a) \/ q[i] \notin ToSet(b)
      BY <2>3, <2>7, <2>8
    <3>2. \A x \in ToSet(q) : \E i \in 1 .. Len(q) : x = q[i]
      BY DEF ToSet
    <3> QED
      BY <2>7, <3>1, <3>2 DEF Part
  <2>11. PICK p : p = a \o b
    OBVIOUS
  <2>12. /\ p \in Seq(T) /\ DOMAIN p = 1 .. Len(a) + Len(b)
         /\ DOMAIN a = 1 .. Len(a) /\ DOMAIN b = 1 .. Len(b)
         /\ Len(a) \in Nat /\ Len(b) \in Nat
         /\ \A i \in 1 .. Len(a) : p[i] = a[i]
         /\ \A i \in Len(a) + 1 .. Len(a) + Len(b) : p[i] = b[i - Len(a)]
    BY <2>7, <2>8, <2>11
  <2>13. \A i \in DOMAIN p : \/ i \in DOMAIN a /\ p[i] = a[i] /\ p[i] \in ToSet(a)
                             \/ i - Len(a) \in DOMAIN b /\ p[i] = b[i - Len(a)] /\ p[i] \in ToSet(b)
    BY <2>12 DEF ToSet
  <2>14. ToSet(p) \subseteq ToSet(a) \cup ToSet(b)
    BY <2>13 DEF ToSet
  <2>15. IsInjective(p)
    <3>1. SUFFICES ASSUME NEW i \in DOMAIN p, NEW j \in DOMAIN p, p[i] = p[j] PROVE i = j
      BY DEF IsInjective
    <3>2. CASE i \in DOMAIN a /\ p[i] = a[i] /\ p[i] \in ToSet(a)
      BY <2>7, <2>10, <2>13, <3>1, <3>2 DEF Part, IsInjective
    <3>3. CASE i - Len(a) \in DOMAIN b /\ p[i] = b[i - Len(a)] /\ p[i] \in ToSet(b)
      <4>1. j - Len(a) \in DOMAIN b /\ p[j] = b[j - Len(a)]
        BY <2>10, <2>13, <3>1, <3>3
      <4>2. i - Len(a) = j - Len(a)
        BY <2>8, <3>1, <3>3, <4>1 DEF Part, IsInjective
      <4> QED
        BY <2>12, <4>2
    <3> QED
      BY <2>13, <3>2, <3>3
  <2> QED
    BY <2>6, <2>7, <2>8, <2>9, <2>11, <2>12, <2>14, <2>15 DEF Part
<1> QED
  BY <1>2, <1>3

-----------------------------------------------------------------------------
(* Worlds                                                                  *)

LEMMA WorldIs ==
    ASSUME NEW w \in Worlds
    PROVE  /\ w = [req |-> w.req, sock |-> w.sock, pool |-> w.pool]
           /\ w.req \in [Requests -> AReq]
           /\ w.sock \in Seq(ASock) /\ DOMAIN w.sock = 1 .. Len(w.sock) /\ Len(w.sock) \in Nat
           /\ \A s \in DOMAIN w.sock : w.sock[s] \in ASock
           /\ w.pool = [active |-> w.pool.active, free |-> w.pool.free,
                        queue |-> w.pool.queue, total |-> w.pool.total]
           /\ w.pool.active \in [Names -> Seq(Nat)] /\ w.pool.free \in [Names -> Seq(Nat)]
           /\ w.pool.queue \in [Names -> Seq(Requests)] /\ w.pool.total \in Int
<1>1. /\ w = [req |-> w.req, sock |-> w.sock, pool |-> w.pool]
      /\ w.req \in [Requests -> AReq] /\ w.sock \in Seq(ASock) /\ w.pool \in Pool
  BY DEF Worlds
<1>2. DOMAIN w.sock = 1 .. Len(w.sock) /\ Len(w.sock) \in Nat
  BY <1>1
<1>3. \A s \in DOMAIN w.sock : w.sock[s] \in ASock
  BY <1>1, <1>2, ElementOfSeq
<1>4. PICK P \in Pool : P = w.pool
  BY <1>1
<1>5. /\ P = [active |-> P.active, free |-> P.free, queue |-> P.queue, total |-> P.total]
      /\ P.active \in [Names -> Seq(Nat)] /\ P.free \in [Names -> Seq(Nat)]
      /\ P.queue \in [Names -> Seq(Requests)] /\ P.total \in Int
  BY DEF Pool
<1> QED
  BY <1>1, <1>2, <1>3, <1>4, <1>5

LEMMA RecordIs ==
    ASSUME NEW w \in Worlds
    PROVE  w = [req |-> w.req, sock |-> w.sock, pool |-> w.pool]
BY DEF Worlds

LEMMA SameLen ==
    ASSUME NEW a \in Nat, NEW b \in Nat, 1 .. a = 1 .. b
    PROVE  a = b
<1>1. a <= b
  <2>1. a = 0 \/ a \in 1 .. b
    OBVIOUS
  <2> QED
    BY <2>1
<1>2. b <= a
  <2>1. b = 0 \/ b \in 1 .. a
    OBVIOUS
  <2> QED
    BY <2>1
<1> QED
  BY <1>1, <1>2

(* A world made of typed parts.                                            *)
LEMMA WorldOf ==
    ASSUME NEW R \in [Requests -> AReq], NEW S \in Seq(ASock),
           NEW A \in [Names -> Seq(Nat)], NEW F \in [Names -> Seq(Nat)],
           NEW Q \in [Names -> Seq(Requests)], NEW t \in Int
    PROVE  [req |-> R, sock |-> S, pool |-> [active |-> A, free |-> F, queue |-> Q, total |-> t]] \in Worlds
BY DEF Worlds, Pool

-----------------------------------------------------------------------------
(* Changes that keep a world good                                          *)

(* Nothing is handed out: lists get shorter, responses are read.           *)
Lesser(w, v) ==
  /\ \A r \in Requests : /\ v.req[r].sock = w.req[r].sock /\ v.req[r].sent = w.req[r].sent
                         /\ v.req[r].st = "new" => w.req[r].st = "new"
  /\ DOMAIN v.sock = DOMAIN w.sock
  /\ \A s \in DOMAIN w.sock : /\ v.sock[s].reader = w.sock[s].reader
                              /\ v.sock[s].unanswered \subseteq w.sock[s].unanswered
  /\ \A n \in Names : /\ Part(v.pool.active[n], w.pool.active[n])
                      /\ Part(v.pool.free[n], w.pool.free[n])
                      /\ Part(v.pool.queue[n], w.pool.queue[n])

LEMMA LesserGood ==
    ASSUME NEW w, NEW g, Good(w, g), NEW v \in Worlds, Lesser(w, v)
    PROVE  Good(v, g)
<1>1. w \in Worlds
  BY DEF Good
<1>2. /\ Len(v.sock) = Len(w.sock)
      /\ DOMAIN w.sock = 1 .. Len(w.sock) /\ Len(w.sock) \in Nat
  BY <1>1, WorldIs DEF Lesser
<1>3. \A r \in Requests : w.req[r].sock \in Nat
  BY <1>1, WorldIs DEF AReq
<1>4. Reads(v)
  <2>1. SUFFICES ASSUME NEW s \in DOMAIN v.sock
                 PROVE  /\ v.sock[s].unanswered \subseteq {v.sock[s].reader}
                        /\ v.sock[s].reader # 0 => /\ v.req[v.sock[s].reader].sock = s
                                                   /\ v.req[v.sock[s].reader].sent
    BY DEF Reads
  <2>2. /\ v.sock[s].reader = w.sock[s].reader /\ s \in DOMAIN w.sock
        /\ v.sock[s].unanswered \subseteq w.sock[s].unanswered
    BY DEF Lesser
  <2>3. w.sock[s].reader \in Requests \cup {0}
    BY <1>1, <2>2, WorldIs DEF ASock
  <2>4. /\ w.sock[s].unanswered \subseteq {w.sock[s].reader}
        /\ w.sock[s].reader # 0 => /\ w.req[w.sock[s].reader].sock = s
                                   /\ w.req[w.sock[s].reader].sent
    BY <2>2 DEF Good, Reads
  <2> QED
    BY <2>2, <2>3, <2>4 DEF Lesser
<1>5. \A r \in Requests : Waiting(v, r) <=> Waiting(w, r)
  BY DEF Waiting, Lesser
<1>6. Waits(v)
  <2>1. SUFFICES ASSUME NEW r \in Requests
                 PROVE  /\ v.req[r].sock <= Len(v.sock)
                        /\ Waiting(v, r) =>
                             /\ v.sock[v.req[r].sock].reader = 0
                             /\ \A n \in Names : v.req[r].sock \notin ToSet(v.pool.free[n])
                             /\ \A q \in Requests : Waiting(v, q) /\ v.req[q].sock = v.req[r].sock => q = r
    BY DEF Waits
  <2>2. v.req[r].sock = w.req[r].sock /\ w.req[r].sock <= Len(w.sock)
    BY DEF Lesser, Good, Waits
  <2>3. ASSUME Waiting(w, r)
        PROVE  /\ w.sock[w.req[r].sock].reader = 0
               /\ \A n \in Names : w.req[r].sock \notin ToSet(w.pool.free[n])
               /\ \A q \in Requests : Waiting(w, q) /\ w.req[q].sock = w.req[r].sock => q = r
    BY <2>3 DEF Good, Waits
  <2>4. ASSUME Waiting(w, r) PROVE w.req[r].sock \in DOMAIN w.sock
    BY <1>2, <1>3, <2>2, <2>4 DEF Waiting
  <2>5. ASSUME Waiting(w, r) PROVE v.sock[v.req[r].sock].reader = 0
    BY <2>2, <2>3, <2>4, <2>5 DEF Lesser
  <2>6. ASSUME Waiting(w, r), NEW n \in Names PROVE v.req[r].sock \notin ToSet(v.pool.free[n])
    BY <2>2, <2>3, <2>6 DEF Lesser, Part
  <2>7. ASSUME Waiting(w, r), NEW q \in Requests, Waiting(w, q), v.req[q].sock = v.req[r].sock
        PROVE  q = r
    BY <2>2, <2>3, <2>7 DEF Lesser
  <2> QED
    BY <1>2, <1>5, <2>2, <2>5, <2>6, <2>7
<1>7. Frees(v)
  <2>1. SUFFICES ASSUME NEW n \in Names
                 PROVE  /\ IsInjective(v.pool.free[n]) /\ IsInjective(v.pool.active[n])
                        /\ ToSet(v.pool.active[n]) \subseteq DOMAIN v.sock
                        /\ \A s \in ToSet(v.pool.free[n]) :
                             s \in DOMAIN v.sock /\ v.sock[s].reader = 0 /\ s \notin ToSet(v.pool.active[n])
                        /\ n # KeptUnder => v.pool.free[n] = <<>>
    BY DEF Frees
  <2>2. Part(v.pool.active[n], w.pool.active[n]) /\ Part(v.pool.free[n], w.pool.free[n])
    BY DEF Lesser
  <2>3. /\ ToSet(w.pool.active[n]) \subseteq DOMAIN w.sock
        /\ \A s \in ToSet(w.pool.free[n]) :
             s \in DOMAIN w.sock /\ w.sock[s].reader = 0 /\ s \notin ToSet(w.pool.active[n])
        /\ n # KeptUnder => w.pool.free[n] = <<>>
    BY DEF Good, Frees
  <2>4. n # KeptUnder => v.pool.free[n] = <<>>
    <3>1. v.pool.free[n] \in Seq(Nat)
      BY WorldIs
    <3> QED
      BY <2>2, <2>3, <3>1, NothingIs, NothingIn DEF Part
  <2> QED
    BY <2>2, <2>3, <2>4 DEF Part, Lesser
<1>8. Queues(v)
  <2>1. "addr" \in Names /\ "host" \in Names
    BY DEF Names
  <2>2. /\ w.pool.queue["addr"] = <<>>
        /\ \A r \in ToSet(w.pool.queue["host"]) : Bare(w, r) /\ w.req[r].st # "new"
        /\ \A r \in Requests : w.req[r].st = "new" => Bare(w, r)
    BY DEF Good, Queues
  <2>3. /\ Part(v.pool.queue["addr"], w.pool.queue["addr"])
        /\ Part(v.pool.queue["host"], w.pool.queue["host"])
    BY <2>1 DEF Lesser
  <2>4. v.pool.queue["addr"] = <<>>
    <3>1. v.pool.queue["addr"] \in Seq(Requests)
      BY <2>1, WorldIs
    <3> QED
      BY <2>2, <2>3, <3>1, NothingIs, NothingIn DEF Part
  <2>5. ToSet(v.pool.queue["host"]) \subseteq Requests
    <3>1. v.pool.queue["host"] \in Seq(Requests)
      BY <2>1, WorldIs
    <3> QED
      BY <3>1 DEF ToSet
  <2>6. \A r \in ToSet(v.pool.queue["host"]) : Bare(v, r) /\ v.req[r].st # "new"
    BY <2>2, <2>3, <2>5 DEF Part, Lesser, Bare
  <2>7. \A r \in Requests : v.req[r].st = "new" => Bare(v, r)
    BY <2>2 DEF Lesser, Bare
  <2> QED
    BY <2>3, <2>4, <2>6, <2>7 DEF Queues, Part
<1>9. Gives(v, g)
  <2>1. SUFFICES ASSUME g # 0
                 PROVE  /\ g \in Requests /\ v.req[g].sock # 0
                        /\ v.sock[v.req[g].sock].reader = g /\ v.sock[v.req[g].sock].unanswered = {}
    BY DEF Gives
  <2>2. /\ g \in Requests /\ w.req[g].sock # 0
        /\ w.sock[w.req[g].sock].reader = g /\ w.sock[w.req[g].sock].unanswered = {}
    BY <2>1 DEF Good, Gives
  <2>3. w.req[g].sock <= Len(w.sock)
    BY <2>2 DEF Good, Waits
  <2>4. w.req[g].sock \in DOMAIN w.sock
    BY <1>2, <1>3, <2>2, <2>3
  <2> QED
    BY <2>2, <2>4 DEF Lesser
<1> QED
  BY <1>4, <1>6, <1>7, <1>8, <1>9 DEF Good

(* A request that waited for a connection gets one that nobody has: a new  *)
(* one, a free one, or one that is given back.                             *)
Taken(w, v, r, s) ==
  /\ w.req[r].sock = 0 /\ v.req[r].sock = s /\ ~v.req[r].sent /\ v.req[r].st # "new"
  /\ \A q \in Requests \ {r} : /\ v.req[q].sock = w.req[q].sock /\ v.req[q].sent = w.req[q].sent
                               /\ v.req[q].st = w.req[q].st
  /\ s \in DOMAIN v.sock /\ v.sock[s].reader = 0
  /\ Len(w.sock) <= Len(v.sock)
  /\ \A i \in DOMAIN v.sock :
       IF i \in DOMAIN w.sock
       THEN v.sock[i].reader = w.sock[i].reader /\ v.sock[i].unanswered = w.sock[i].unanswered
       ELSE v.sock[i].reader = 0 /\ v.sock[i].unanswered = {}
  /\ \A q \in Requests : Waiting(w, q) => w.req[q].sock # s
  /\ \A n \in Names : /\ Part(v.pool.free[n], w.pool.free[n]) /\ s \notin ToSet(v.pool.free[n])
                      /\ IsInjective(v.pool.active[n])
                      /\ ToSet(v.pool.active[n]) \subseteq ToSet(w.pool.active[n]) \cup {s}
                      /\ Part(v.pool.queue[n], w.pool.queue[n])
  /\ r \notin ToSet(v.pool.queue["host"])

LEMMA TakenGood ==
    ASSUME NEW w, NEW g, Good(w, g), NEW v \in Worlds, NEW r \in Requests, NEW s, Taken(w, v, r, s)
    PROVE  Good(v, g)
<1>1. w \in Worlds
  BY DEF Good
<1>2. /\ DOMAIN w.sock = 1 .. Len(w.sock) /\ Len(w.sock) \in Nat
      /\ DOMAIN v.sock = 1 .. Len(v.sock) /\ Len(v.sock) \in Nat
      /\ DOMAIN w.sock \subseteq DOMAIN v.sock
  <2>1. /\ DOMAIN w.sock = 1 .. Len(w.sock) /\ Len(w.sock) \in Nat
        /\ DOMAIN v.sock = 1 .. Len(v.sock) /\ Len(v.sock) \in Nat
    BY <1>1, WorldIs
  <2> QED
    BY <2>1 DEF Taken
<1>3. \A q \in Requests : w.req[q].sock \in Nat /\ v.req[q].sock \in Nat
  BY <1>1, WorldIs DEF AReq
<1>4. \A q \in Requests : w.req[q].sock <= Len(w.sock)
  BY DEF Good, Waits
<1>5. Reads(v)
  <2>1. SUFFICES ASSUME NEW i \in DOMAIN v.sock
                 PROVE  /\ v.sock[i].unanswered \subseteq {v.sock[i].reader}
                        /\ v.sock[i].reader # 0 => /\ v.req[v.sock[i].reader].sock = i
                                                   /\ v.req[v.sock[i].reader].sent
    BY DEF Reads
  <2>2. CASE i \notin DOMAIN w.sock
    BY <2>2 DEF Taken
  <2>3. CASE i \in DOMAIN w.sock
    <3>1. /\ v.sock[i].reader = w.sock[i].reader
          /\ v.sock[i].unanswered = w.sock[i].unanswered
      BY <2>3 DEF Taken
    <3>2. w.sock[i].reader \in Requests \cup {0}
      BY <1>1, <2>3, WorldIs DEF ASock
    <3>3. /\ w.sock[i].unanswered \subseteq {w.sock[i].reader}
          /\ w.sock[i].reader # 0 => /\ w.req[w.sock[i].reader].sock = i
                                     /\ w.req[w.sock[i].reader].sent
      BY <2>3 DEF Good, Reads
    <3>4. w.sock[i].reader # r
      <4>1. i # 0 /\ w.req[r].sock = 0 /\ r # 0
        BY <1>2, <2>3, ClientAssumption DEF Taken
      <4> QED
        BY <3>3, <4>1
    <3> QED
      BY <3>1, <3>2, <3>3, <3>4 DEF Taken
  <2> QED
    BY <2>2, <2>3
<1>6. \A q \in Requests \ {r} : Waiting(v, q) <=> Waiting(w, q)
  BY DEF Waiting, Taken
<1>7. Waits(v)
  <2>1. SUFFICES ASSUME NEW q \in Requests
                 PROVE  /\ v.req[q].sock <= Len(v.sock)
                        /\ Waiting(v, q) =>
                             /\ v.sock[v.req[q].sock].reader = 0
                             /\ \A n \in Names : v.req[q].sock \notin ToSet(v.pool.free[n])
                             /\ \A p \in Requests : Waiting(v, p) /\ v.req[p].sock = v.req[q].sock => p = q
    BY DEF Waits
  <2>2. CASE q = r
    <3>1. /\ v.req[r].sock = s /\ s \in DOMAIN v.sock /\ v.sock[s].reader = 0
          /\ \A n \in Names : s \notin ToSet(v.pool.free[n])
      BY DEF Taken
    <3>2. ASSUME NEW p \in Requests, Waiting(v, p), v.req[p].sock = s PROVE p = r
      BY <1>6, <3>2 DEF Taken
    <3> QED
      BY <1>2, <2>2, <3>1, <3>2
  <2>3. CASE q # r
    <3>1. v.req[q].sock = w.req[q].sock /\ v.req[q].sock <= Len(v.sock)
      BY <1>2, <1>3, <1>4, <2>3 DEF Taken
    <3>2. SUFFICES ASSUME Waiting(w, q)
                   PROVE  /\ v.sock[v.req[q].sock].reader = 0
                          /\ \A n \in Names : v.req[q].sock \notin ToSet(v.pool.free[n])
                          /\ \A p \in Requests : Waiting(v, p) /\ v.req[p].sock = v.req[q].sock => p = q
      BY <1>6, <2>3, <3>1
    <3>3. /\ w.sock[w.req[q].sock].reader = 0
          /\ \A n \in Names : w.req[q].sock \notin ToSet(w.pool.free[n])
          /\ \A p \in Requests : Waiting(w, p) /\ w.req[p].sock = w.req[q].sock => p = q
      BY <3>2 DEF Good, Waits
    <3>4. w.req[q].sock \in DOMAIN w.sock /\ w.req[q].sock # s
      BY <1>2, <1>3, <1>4, <3>2 DEF Waiting, Taken
    <3>5. v.sock[v.req[q].sock].reader = 0
      BY <1>2, <3>1, <3>3, <3>4 DEF Taken
    <3>6. \A n \in Names : v.req[q].sock \notin ToSet(v.pool.free[n])
      BY <3>1, <3>3 DEF Taken, Part
    <3>7. ASSUME NEW p \in Requests, Waiting(v, p), v.req[p].sock = v.req[q].sock PROVE p = q
      <4>1. p # r
        BY <3>1, <3>4, <3>7 DEF Taken
      <4> QED
        BY <1>6, <3>1, <3>3, <3>7, <4>1 DEF Taken
    <3> QED
      BY <3>5, <3>6, <3>7
  <2> QED
    BY <2>2, <2>3
<1>8. Frees(v)
  <2>1. SUFFICES ASSUME NEW n \in Names
                 PROVE  /\ IsInjective(v.pool.free[n]) /\ IsInjective(v.pool.active[n])
                        /\ ToSet(v.pool.active[n]) \subseteq DOMAIN v.sock
                        /\ \A i \in ToSet(v.pool.free[n]) :
                             i \in DOMAIN v.sock /\ v.sock[i].reader = 0 /\ i \notin ToSet(v.pool.active[n])
                        /\ n # KeptUnder => v.pool.free[n] = <<>>
    BY DEF Frees
  <2>2. /\ Part(v.pool.free[n], w.pool.free[n]) /\ s \notin ToSet(v.pool.free[n])
        /\ IsInjective(v.pool.active[n])
        /\ ToSet(v.pool.active[n]) \subseteq ToSet(w.pool.active[n]) \cup {s}
        /\ s \in DOMAIN v.sock
    BY DEF Taken
  <2>3. /\ ToSet(w.pool.active[n]) \subseteq DOMAIN w.sock
        /\ \A i \in ToSet(w.pool.free[n]) :
             i \in DOMAIN w.sock /\ w.sock[i].reader = 0 /\ i \notin ToSet(w.pool.active[n])
        /\ n # KeptUnder => w.pool.free[n] = <<>>
    BY DEF Good, Frees
  <2>4. n # KeptUnder => v.pool.free[n] = <<>>
    <3>1. v.pool.free[n] \in Seq(Nat)
      BY WorldIs
    <3> QED
      BY <2>2, <2>3, <3>1, NothingIs, NothingIn DEF Part
  <2>5. \A i \in ToSet(v.pool.free[n]) :
          i \in DOMAIN v.sock /\ v.sock[i].reader = 0 /\ i \notin ToSet(v.pool.active[n])
    <3>1. SUFFICES ASSUME NEW i \in ToSet(v.pool.free[n])
                   PROVE  i \in DOMAIN v.sock /\ v.sock[i].reader = 0 /\ i \notin ToSet(v.pool.active[n])
      OBVIOUS
    <3>2. i \in ToSet(w.pool.free[n]) /\ i # s
      BY <2>2 DEF Part
    <3>3. i \in DOMAIN w.sock /\ w.sock[i].reader = 0 /\ i \notin ToSet(w.pool.active[n])
      BY <2>3, <3>2
    <3> QED
      BY <1>2, <2>2, <3>2, <3>3 DEF Taken
  <2> QED
    BY <1>2, <2>2, <2>3, <2>4, <2>5 DEF Part
<1>9. Queues(v)
  <2>1. "addr" \in Names /\ "host" \in Names
    BY DEF Names
  <2>2. /\ w.pool.queue["addr"] = <<>>
        /\ \A q \in ToSet(w.pool.queue["host"]) : Bare(w, q) /\ w.req[q].st # "new"
        /\ \A q \in Requests : w.req[q].st = "new" => Bare(w, q)
    BY DEF Good, Queues
  <2>3. /\ Part(v.pool.queue["addr"], w.pool.queue["addr"])
        /\ Part(v.pool.queue["host"], w.pool.queue["host"])
    BY <2>1 DEF Taken
  <2>4. v.pool.queue["addr"] = <<>>
    <3>1. v.pool.queue["addr"] \in Seq(Requests)
      BY <2>1, WorldIs
    <3> QED
      BY <2>2, <2>3, <3>1, NothingIs, NothingIn DEF Part
  <2>5. ToSet(v.pool.queue["host"]) \subseteq Requests
    <3>1. v.pool.queue["host"] \in Seq(Requests)
      BY <2>1, WorldIs
    <3> QED
      BY <3>1 DEF ToSet
  <2>6. \A q \in ToSet(v.pool.queue["host"]) : Bare(v, q) /\ v.req[q].st # "new"
    BY <2>2, <2>3, <2>5 DEF Part, Taken, Bare
  <2>7. \A q \in Requests : v.req[q].st = "new" => Bare(v, q)
    BY <2>2 DEF Taken, Bare
  <2> QED
    BY <2>3, <2>4, <2>6, <2>7 DEF Queues, Part
<1>10. Gives(v, g)
  <2>1. SUFFICES ASSUME g # 0
                 PROVE  /\ g \in Requests /\ v.req[g].sock # 0
                        /\ v.sock[v.req[g].sock].reader = g /\ v.sock[v.req[g].sock].unanswered = {}
    BY DEF Gives
  <2>2. /\ g \in Requests /\ w.req[g].sock # 0
        /\ w.sock[w.req[g].sock].reader = g /\ w.sock[w.req[g].sock].unanswered = {}
    BY <2>1 DEF Good, Gives
  <2>3. w.req[g].sock \in DOMAIN w.sock /\ g # r
    BY <1>2, <1>3, <1>4, <2>2 DEF Taken
  <2> QED
    BY <1>2, <2>2, <2>3 DEF Taken
<1> QED
  BY <1>5, <1>7, <1>8, <1>9, <1>10 DEF Good

(* The lists stay as they are, and what they say of connections and        *)
(* requests.                                                               *)
LEMMA ListsGood ==
    ASSUME NEW w, NEW g, Good(w, g), NEW v \in Worlds, v.pool = w.pool,
           DOMAIN v.sock = DOMAIN w.sock,
           \A s \in DOMAIN w.sock :
             (\E n \in Names : s \in ToSet(w.pool.free[n])) => v.sock[s].reader = 0,
           \A r \in Requests : Bare(w, r) => Bare(v, r),
           \A r \in Requests : v.req[r].st = "new" => w.req[r].st = "new"
    PROVE  Frees(v) /\ Queues(v)
<1>1. w \in Worlds
  BY DEF Good
<1>2. Frees(v)
  BY DEF Good, Frees
<1>3. Queues(v)
  <2>1. "host" \in Names
    BY DEF Names
  <2>2. ToSet(w.pool.queue["host"]) \subseteq Requests
    <3>1. w.pool.queue["host"] \in Seq(Requests)
      BY <1>1, <2>1, WorldIs
    <3> QED
      BY <3>1 DEF ToSet
  <2> QED
    BY <2>2 DEF Good, Queues
<1> QED
  BY <1>2, <1>3

(* A request is written on the connection it waited with.                  *)
LEMMA FlushGood ==
    ASSUME NEW w, NEW g, Good(w, g), NEW r \in Requests, Waiting(w, r)
    PROVE  Good(Flush(w, r), g) /\ DOMAIN Flush(w, r).sock = DOMAIN w.sock
<1>1. w \in Worlds
  BY DEF Good
<1>2. PICK s : s = w.req[r].sock
  OBVIOUS
<1>3. /\ s \in DOMAIN w.sock /\ w.sock[s].reader = 0
      /\ \A n \in Names : s \notin ToSet(w.pool.free[n])
      /\ \A q \in Requests : Waiting(w, q) /\ w.req[q].sock = s => q = r
  <2>1. /\ s <= Len(w.sock) /\ s # 0 /\ w.sock[s].reader = 0
        /\ \A n \in Names : s \notin ToSet(w.pool.free[n])
        /\ \A q \in Requests : Waiting(w, q) /\ w.req[q].sock = s => q = r
    BY <1>2 DEF Good, Waits, Waiting
  <2>2. s \in Nat /\ Len(w.sock) \in Nat /\ DOMAIN w.sock = 1 .. Len(w.sock)
    BY <1>1, <1>2, WorldIs DEF AReq
  <2> QED
    BY <2>1, <2>2
<1>4. PICK x \in ASock : x = [w.sock[s] EXCEPT !.reader = r, !.unanswered = @ \cup {r}]
  <2>1. w.sock[s] \in ASock
    BY <1>1, <1>3, WorldIs
  <2> QED
    BY <2>1 DEF ASock
<1>5. x.reader = r /\ x.unanswered = {r}
  <2>1. w.sock[s] \in ASock
    BY <1>1, <1>3, WorldIs
  <2>2. x.reader = r /\ x.unanswered = w.sock[s].unanswered \cup {r}
    BY <1>4, <2>1 DEF ASock
  <2>3. w.sock[s].unanswered \subseteq {0} /\ w.sock[s].unanswered \subseteq Requests
    BY <1>3, <2>1 DEF Good, Reads, ASock
  <2> QED
    BY <2>2, <2>3, ClientAssumption
<1>6. PICK y \in AReq : y = [w.req[r] EXCEPT !.sent = TRUE]
  <2>1. w.req[r] \in AReq
    BY <1>1, WorldIs
  <2> QED
    BY <2>1 DEF AReq
<1>7. y.sock = s /\ y.sent /\ y.st = w.req[r].st
  <2>1. w.req[r] \in AReq
    BY <1>1, WorldIs
  <2> QED
    BY <1>2, <1>6, <2>1 DEF AReq
<1>8. PICK v : v = Flush(w, r)
  OBVIOUS
<1>9. v = [req |-> [w.req EXCEPT ![r] = y], sock |-> [w.sock EXCEPT ![s] = x], pool |-> w.pool]
  <2>1. w = [req |-> w.req, sock |-> w.sock, pool |-> w.pool]
    BY <1>1, RecordIs
  <2>2. v = [w EXCEPT !.req[r].sent = TRUE, !.sock[s].reader = r, !.sock[s].unanswered = @ \cup {r}]
    BY <1>2, <1>8 DEF Flush
  <2> QED
    BY <1>4, <1>6, <2>1, <2>2
<1>10. v.req = [w.req EXCEPT ![r] = y] /\ v.sock = [w.sock EXCEPT ![s] = x] /\ v.pool = w.pool
  BY <1>9
<1>11. v \in Worlds
  <2>1. [w.req EXCEPT ![r] = y] \in [Requests -> AReq]
    BY <1>1, WorldIs
  <2>2. [w.sock EXCEPT ![s] = x] \in Seq(ASock)
    <3>1. w.sock \in Seq(ASock) /\ s \in 1 .. Len(w.sock)
      BY <1>1, <1>3, WorldIs
    <3> QED
      BY <3>1, ExceptSeq
  <2>3. w.pool \in Pool
    BY <1>1 DEF Worlds
  <2> QED
    BY <1>9, <2>1, <2>2, <2>3 DEF Worlds
<1>12. /\ \A q \in Requests \ {r} : v.req[q] = w.req[q]
       /\ v.req[r] = y
       /\ DOMAIN v.sock = DOMAIN w.sock /\ Len(v.sock) = Len(w.sock)
       /\ \A i \in DOMAIN w.sock : i # s => v.sock[i] = w.sock[i]
       /\ v.sock[s] = x
  <2>1. w.req \in [Requests -> AReq] /\ w.sock \in Seq(ASock)
    BY <1>1, WorldIs
  <2> QED
    BY <1>3, <1>10, <2>1, ExceptSeq
<1>13. Reads(v)
  <2>1. SUFFICES ASSUME NEW i \in DOMAIN w.sock
                 PROVE  /\ v.sock[i].unanswered \subseteq {v.sock[i].reader}
                        /\ v.sock[i].reader # 0 => /\ v.req[v.sock[i].reader].sock = i
                                                   /\ v.req[v.sock[i].reader].sent
    BY <1>12 DEF Reads
  <2>2. CASE i = s
    BY <1>5, <1>7, <1>12, <2>2
  <2>3. CASE i # s
    <3>1. /\ w.sock[i].unanswered \subseteq {w.sock[i].reader}
          /\ w.sock[i].reader # 0 => /\ w.req[w.sock[i].reader].sock = i
                                     /\ w.req[w.sock[i].reader].sent
      BY DEF Good, Reads
    <3>2. w.sock[i].reader \in Requests \cup {0}
      BY <1>1, WorldIs DEF ASock
    <3>3. w.sock[i].reader # r
      BY <3>1, ClientAssumption DEF Waiting
    <3> QED
      BY <1>12, <2>3, <3>1, <3>2, <3>3
  <2> QED
    BY <2>2, <2>3
<1>14. Waits(v)
  <2>1. SUFFICES ASSUME NEW q \in Requests
                 PROVE  /\ v.req[q].sock <= Len(w.sock)
                        /\ Waiting(v, q) =>
                             /\ v.sock[v.req[q].sock].reader = 0
                             /\ \A n \in Names : v.req[q].sock \notin ToSet(v.pool.free[n])
                             /\ \A p \in Requests : Waiting(v, p) /\ v.req[p].sock = v.req[q].sock => p = q
    BY <1>12 DEF Waits
  <2>2. v.req[q].sock <= Len(w.sock)
    BY <1>2, <1>7, <1>12 DEF Good, Waits
  <2>3. \A p \in Requests : Waiting(v, p) => p # r /\ Waiting(w, p) /\ v.req[p].sock = w.req[p].sock
    BY <1>7, <1>12 DEF Waiting
  <2>4. SUFFICES ASSUME Waiting(v, q)
                 PROVE  /\ v.sock[v.req[q].sock].reader = 0
                        /\ \A n \in Names : v.req[q].sock \notin ToSet(v.pool.free[n])
                        /\ \A p \in Requests : Waiting(v, p) /\ v.req[p].sock = v.req[q].sock => p = q
    BY <2>2
  <2>5. /\ w.sock[w.req[q].sock].reader = 0
        /\ \A n \in Names : w.req[q].sock \notin ToSet(w.pool.free[n])
        /\ \A p \in Requests : Waiting(w, p) /\ w.req[p].sock = w.req[q].sock => p = q
    BY <2>3, <2>4 DEF Good, Waits
  <2>6. w.req[q].sock # s /\ w.req[q].sock \in DOMAIN w.sock
    <3>1. w.req[q].sock \in Nat /\ Len(w.sock) \in Nat /\ DOMAIN w.sock = 1 .. Len(w.sock)
      BY <1>1, WorldIs DEF AReq
    <3>2. w.req[q].sock # 0 /\ w.req[q].sock <= Len(w.sock)
      BY <2>3, <2>4 DEF Good, Waits, Waiting
    <3> QED
      BY <1>3, <2>3, <2>4, <3>1, <3>2
  <2> QED
    BY <1>10, <1>12, <2>3, <2>4, <2>5, <2>6
<1>15. Frees(v) /\ Queues(v)
  <2>1. \A i \in DOMAIN w.sock : (\E n \in Names : i \in ToSet(w.pool.free[n])) => v.sock[i].reader = 0
    <3>1. SUFFICES ASSUME NEW n \in Names, NEW i \in ToSet(w.pool.free[n])
                   PROVE  v.sock[i].reader = 0
      OBVIOUS
    <3>2. i # s /\ i \in DOMAIN w.sock /\ w.sock[i].reader = 0
      BY <1>3 DEF Good, Frees
    <3> QED
      BY <1>12, <3>2
  <2>2. \A q \in Requests : Bare(w, q) => Bare(v, q)
    BY <1>12 DEF Waiting, Bare
  <2>3. \A q \in Requests : v.req[q].st = "new" => w.req[q].st = "new"
    BY <1>7, <1>12
  <2> QED
    BY <1>10, <1>11, <1>12, <2>1, <2>2, <2>3, ListsGood
<1>16. Gives(v, g)
  <2>1. SUFFICES ASSUME g # 0
                 PROVE  /\ g \in Requests /\ v.req[g].sock # 0
                        /\ v.sock[v.req[g].sock].reader = g /\ v.sock[v.req[g].sock].unanswered = {}
    BY DEF Gives
  <2>2. /\ g \in Requests /\ w.req[g].sock # 0
        /\ w.sock[w.req[g].sock].reader = g /\ w.sock[w.req[g].sock].unanswered = {}
    BY <2>1 DEF Good, Gives
  <2>3. w.req[g].sock # s /\ g # r
    BY <1>2, <1>3, <2>1, <2>2
  <2>4. w.req[g].sock \in DOMAIN w.sock
    <3>1. w.req[g].sock \in Nat /\ Len(w.sock) \in Nat /\ DOMAIN w.sock = 1 .. Len(w.sock)
      BY <1>1, <2>2, WorldIs DEF AReq
    <3> QED
      BY <2>2, <3>1 DEF Good, Waits
  <2> QED
    BY <1>12, <2>2, <2>3, <2>4
<1> QED
  BY <1>8, <1>11, <1>12, <1>13, <1>14, <1>15, <1>16 DEF Good

(* A request lets go of its connection, which is read for nobody then.     *)
Cleared(w, v, r) ==
  /\ Bare(v, r) /\ v.req[r].st # "new"
  /\ \A q \in Requests \ {r} : /\ v.req[q].sock = w.req[q].sock /\ v.req[q].sent = w.req[q].sent
                               /\ v.req[q].st = w.req[q].st
  /\ DOMAIN v.sock = DOMAIN w.sock /\ v.pool = w.pool
  /\ \A s \in DOMAIN w.sock :
       IF w.sock[s].reader = r THEN v.sock[s].reader = 0 /\ v.sock[s].unanswered = {}
       ELSE v.sock[s].reader = w.sock[s].reader /\ v.sock[s].unanswered \subseteq w.sock[s].unanswered

LEMMA ClearedGood ==
    ASSUME NEW w, NEW g, Good(w, g), NEW v \in Worlds, NEW r \in Requests, r # g, Cleared(w, v, r)
    PROVE  Good(v, g)
<1>1. w \in Worlds
  BY DEF Good
<1>2. /\ DOMAIN w.sock = 1 .. Len(w.sock) /\ Len(w.sock) \in Nat /\ Len(v.sock) = Len(w.sock)
      /\ \A q \in Requests : w.req[q].sock \in Nat
  <2>1. DOMAIN v.sock = 1 .. Len(v.sock) /\ Len(v.sock) \in Nat
    BY WorldIs
  <2>2. DOMAIN w.sock = 1 .. Len(w.sock) /\ Len(w.sock) \in Nat
    BY <1>1, WorldIs
  <2>3. \A q \in Requests : w.req[q].sock \in Nat
    BY <1>1, WorldIs DEF AReq
  <2>4. DOMAIN v.sock = DOMAIN w.sock
    BY DEF Cleared
  <2>5. Len(v.sock) = Len(w.sock)
    BY <2>1, <2>2, <2>4, SameLen
  <2> QED
    BY <2>2, <2>3, <2>5
<1>3. Reads(v)
  <2>1. SUFFICES ASSUME NEW s \in DOMAIN w.sock
                 PROVE  /\ v.sock[s].unanswered \subseteq {v.sock[s].reader}
                        /\ v.sock[s].reader # 0 => /\ v.req[v.sock[s].reader].sock = s
                                                   /\ v.req[v.sock[s].reader].sent
    BY DEF Reads, Cleared
  <2>2. /\ w.sock[s].unanswered \subseteq {w.sock[s].reader}
        /\ w.sock[s].reader # 0 => /\ w.req[w.sock[s].reader].sock = s
                                   /\ w.req[w.sock[s].reader].sent
    BY DEF Good, Reads
  <2>3. w.sock[s].reader \in Requests \cup {0}
    BY <1>1, WorldIs DEF ASock
  <2>4. CASE w.sock[s].reader = r
    BY <2>4 DEF Cleared
  <2>5. CASE w.sock[s].reader # r
    <3>1. v.sock[s].reader = w.sock[s].reader /\ v.sock[s].unanswered \subseteq w.sock[s].unanswered
      BY <2>5 DEF Cleared
    <3> QED
      BY <2>2, <2>3, <2>5, <3>1 DEF Cleared
  <2> QED
    BY <2>4, <2>5
<1>4. Waits(v)
  <2>1. SUFFICES ASSUME NEW q \in Requests
                 PROVE  /\ v.req[q].sock <= Len(v.sock)
                        /\ Waiting(v, q) =>
                             /\ v.sock[v.req[q].sock].reader = 0
                             /\ \A n \in Names : v.req[q].sock \notin ToSet(v.pool.free[n])
                             /\ \A p \in Requests : Waiting(v, p) /\ v.req[p].sock = v.req[q].sock => p = q
    BY DEF Waits
  <2>2. v.req[q].sock <= Len(v.sock)
    <3>1. w.req[q].sock <= Len(w.sock)
      BY DEF Good, Waits
    <3> QED
      BY <1>2, <3>1 DEF Cleared, Bare
  <2>3. \A p \in Requests : Waiting(v, p) => Waiting(w, p) /\ v.req[p].sock = w.req[p].sock
    BY DEF Waiting, Cleared, Bare
  <2>4. SUFFICES ASSUME Waiting(v, q)
                 PROVE  /\ v.sock[v.req[q].sock].reader = 0
                        /\ \A n \in Names : v.req[q].sock \notin ToSet(v.pool.free[n])
                        /\ \A p \in Requests : Waiting(v, p) /\ v.req[p].sock = v.req[q].sock => p = q
    BY <2>2
  <2>5. /\ w.sock[w.req[q].sock].reader = 0 /\ w.req[q].sock <= Len(w.sock) /\ w.req[q].sock # 0
        /\ \A n \in Names : w.req[q].sock \notin ToSet(w.pool.free[n])
        /\ \A p \in Requests : Waiting(w, p) /\ w.req[p].sock = w.req[q].sock => p = q
    BY <2>3, <2>4 DEF Good, Waits, Waiting
  <2>6. w.req[q].sock \in DOMAIN w.sock
    BY <1>2, <2>5
  <2>7. v.sock[v.req[q].sock].reader = 0
    BY <2>3, <2>4, <2>5, <2>6 DEF Cleared
  <2>8. v.pool = w.pool
    BY DEF Cleared
  <2> QED
    BY <2>3, <2>4, <2>5, <2>7, <2>8
<1>5. Frees(v) /\ Queues(v)
  <2>1. \A i \in DOMAIN w.sock : (\E n \in Names : i \in ToSet(w.pool.free[n])) => v.sock[i].reader = 0
    <3>1. SUFFICES ASSUME NEW n \in Names, NEW i \in ToSet(w.pool.free[n])
                   PROVE  v.sock[i].reader = 0
      OBVIOUS
    <3>2. i \in DOMAIN w.sock /\ w.sock[i].reader = 0
      BY DEF Good, Frees
    <3> QED
      BY <3>2 DEF Cleared
  <2>2. /\ v.pool = w.pool /\ DOMAIN v.sock = DOMAIN w.sock
        /\ \A q \in Requests : Bare(w, q) => Bare(v, q)
        /\ \A q \in Requests : v.req[q].st = "new" => w.req[q].st = "new"
    BY DEF Cleared, Bare
  <2> QED
    BY <2>1, <2>2, ListsGood
<1>6. Gives(v, g)
  <2>1. SUFFICES ASSUME g # 0
                 PROVE  /\ g \in Requests /\ v.req[g].sock # 0
                        /\ v.sock[v.req[g].sock].reader = g /\ v.sock[v.req[g].sock].unanswered = {}
    BY DEF Gives
  <2>2. /\ g \in Requests /\ w.req[g].sock # 0
        /\ w.sock[w.req[g].sock].reader = g /\ w.sock[w.req[g].sock].unanswered = {}
    BY <2>1 DEF Good, Gives
  <2>3. w.req[g].sock \in DOMAIN w.sock
    <3>1. w.req[g].sock <= Len(w.sock)
      BY <2>2 DEF Good, Waits
    <3> QED
      BY <1>2, <2>2, <3>1
  <2> QED
    BY <2>2, <2>3 DEF Cleared
<1> QED
  BY <1>3, <1>4, <1>5, <1>6 DEF Good

(* A connection nobody has: a response was read whole on it, it is not     *)
(* free, and no request waits with it.                                     *)
Spare(w, s) ==
  /\ s \in DOMAIN w.sock /\ w.sock[s].reader = 0
  /\ \A n \in Names : s \notin ToSet(w.pool.free[n])
  /\ \A q \in Requests : Waiting(w, q) => w.req[q].sock # s

Freed(w, g) == [w EXCEPT !.sock[w.req[g].sock].reader = 0]

LEMMA ReleasedGood ==
    ASSUME NEW w, NEW g \in Requests, Good(w, g), NEW v,
           v = Freed(w, g)
    PROVE  /\ Good(v, 0) /\ Spare(v, w.req[g].sock)
           /\ v.pool = w.pool /\ v.req = w.req /\ DOMAIN v.sock = DOMAIN w.sock
<1>1. w \in Worlds
  BY DEF Good
<1>2. PICK s : s = w.req[g].sock
  OBVIOUS
<1>3. g # 0
  BY ClientAssumption
<1>4. s # 0 /\ w.sock[s].reader = g /\ w.sock[s].unanswered = {}
  BY <1>2, <1>3 DEF Good, Gives
<1>5. /\ DOMAIN w.sock = 1 .. Len(w.sock) /\ Len(w.sock) \in Nat
      /\ \A q \in Requests : w.req[q].sock \in Nat /\ w.req[q].sock <= Len(w.sock)
  <2>1. DOMAIN w.sock = 1 .. Len(w.sock) /\ Len(w.sock) \in Nat
    BY <1>1, WorldIs
  <2>2. \A q \in Requests : w.req[q].sock \in Nat
    BY <1>1, WorldIs DEF AReq
  <2> QED
    BY <2>1, <2>2 DEF Good, Waits
<1>6. s \in DOMAIN w.sock /\ w.sock[s] \in ASock
  <2>1. s \in DOMAIN w.sock
    BY <1>2, <1>4, <1>5
  <2> QED
    BY <1>1, <2>1, WorldIs
<1>7. PICK x \in ASock : x = [w.sock[s] EXCEPT !.reader = 0]
  BY <1>6 DEF ASock
<1>8. x.reader = 0 /\ x.unanswered = {}
  BY <1>4, <1>6, <1>7 DEF ASock
<1>9. v = [req |-> w.req, sock |-> [w.sock EXCEPT ![s] = x], pool |-> w.pool]
  <2>1. w = [req |-> w.req, sock |-> w.sock, pool |-> w.pool]
    BY <1>1, RecordIs
  <2>2. v = [w EXCEPT !.sock[s].reader = 0]
    BY <1>2 DEF Freed
  <2> QED
    BY <1>7, <2>1, <2>2
<1>10. v.req = w.req /\ v.sock = [w.sock EXCEPT ![s] = x] /\ v.pool = w.pool
  BY <1>9
<1>11. v \in Worlds
  <2>1. PICK S : S = [w.sock EXCEPT ![s] = x]
    OBVIOUS
  <2>2. PICK T \in Seq(ASock) : T = S
    <3>1. w.sock \in Seq(ASock) /\ s \in 1 .. Len(w.sock)
      BY <1>1, <1>5, <1>6, WorldIs
    <3> QED
      BY <2>1, <3>1, ExceptSeq
  <2>3. w.pool \in Pool /\ w.req \in [Requests -> AReq]
    BY <1>1 DEF Worlds
  <2>4. v = [req |-> w.req, sock |-> T, pool |-> w.pool]
    BY <1>9, <2>1, <2>2
  <2> QED
    BY <2>3, <2>4 DEF Worlds
<1>12. /\ DOMAIN v.sock = DOMAIN w.sock /\ Len(v.sock) = Len(w.sock)
       /\ \A i \in DOMAIN w.sock : i # s => v.sock[i] = w.sock[i]
       /\ v.sock[s] = x
  <2>1. w.sock \in Seq(ASock)
    BY <1>1, WorldIs
  <2> QED
    BY <1>5, <1>6, <1>10, <2>1, ExceptSeq
<1>13. \A q \in Requests : /\ Waiting(v, q) <=> Waiting(w, q)
                           /\ Waiting(w, q) => w.req[q].sock # s
  BY <1>3, <1>4, <1>10 DEF Good, Waits, Waiting
<1>14. Reads(v)
  <2>1. SUFFICES ASSUME NEW i \in DOMAIN w.sock
                 PROVE  /\ v.sock[i].unanswered \subseteq {v.sock[i].reader}
                        /\ v.sock[i].reader # 0 => /\ w.req[v.sock[i].reader].sock = i
                                                   /\ w.req[v.sock[i].reader].sent
    <3>1. v.req = w.req /\ DOMAIN v.sock = DOMAIN w.sock
      BY <1>10, <1>12
    <3> QED
      BY <3>1 DEF Reads
  <2>2. CASE i = s
    BY <1>8, <1>12, <2>2
  <2>3. CASE i # s
    <3>1. v.sock[i] = w.sock[i]
      BY <1>12, <2>3
    <3> QED
      BY <3>1 DEF Good, Reads
  <2> QED
    BY <2>2, <2>3
<1>15. Waits(v)
  <2>1. \A q \in Requests : Waiting(w, q) => w.req[q].sock \in DOMAIN w.sock
    BY <1>5 DEF Waiting
  <2>2. SUFFICES ASSUME NEW q \in Requests
                 PROVE  /\ w.req[q].sock <= Len(w.sock)
                        /\ Waiting(w, q) =>
                             /\ v.sock[w.req[q].sock].reader = 0
                             /\ \A n \in Names : w.req[q].sock \notin ToSet(w.pool.free[n])
                             /\ \A p \in Requests : Waiting(w, p) /\ w.req[p].sock = w.req[q].sock => p = q
    BY <1>10, <1>12, <1>13 DEF Waits
  <2> QED
    BY <1>12, <1>13, <2>1 DEF Good, Waits
<1>16. \A n \in Names : s \notin ToSet(w.pool.free[n])
  BY <1>3, <1>4 DEF Good, Frees
<1>17. Frees(v) /\ Queues(v)
  <2>1. \A i \in DOMAIN w.sock : (\E n \in Names : i \in ToSet(w.pool.free[n])) => v.sock[i].reader = 0
    <3>1. SUFFICES ASSUME NEW n \in Names, NEW i \in ToSet(w.pool.free[n])
                   PROVE  v.sock[i].reader = 0
      OBVIOUS
    <3>2. i # s /\ i \in DOMAIN w.sock /\ w.sock[i].reader = 0
      BY <1>16 DEF Good, Frees
    <3> QED
      BY <1>12, <3>2
  <2>2. /\ v.pool = w.pool /\ DOMAIN v.sock = DOMAIN w.sock
        /\ \A q \in Requests : Bare(w, q) => Bare(v, q)
        /\ \A q \in Requests : v.req[q].st = "new" => w.req[q].st = "new"
    BY <1>10, <1>12 DEF Bare
  <2> QED
    BY <1>11, <2>1, <2>2, ListsGood
<1>18. Spare(v, s)
  BY <1>6, <1>8, <1>10, <1>12, <1>13, <1>16 DEF Spare
<1> QED
  BY <1>2, <1>10, <1>11, <1>12, <1>14, <1>15, <1>17, <1>18 DEF Good, Gives

(* Only the lists change.                                                  *)
Listed(w, v) ==
  /\ \A r \in Requests : /\ v.req[r].sock = w.req[r].sock /\ v.req[r].sent = w.req[r].sent
                         /\ v.req[r].st = w.req[r].st
  /\ DOMAIN v.sock = DOMAIN w.sock
  /\ \A s \in DOMAIN w.sock : /\ v.sock[s].reader = w.sock[s].reader
                              /\ v.sock[s].unanswered = w.sock[s].unanswered

LEMMA ListedGood ==
    ASSUME NEW w, NEW g, Good(w, g), NEW v \in Worlds, Listed(w, v), Frees(v), Queues(v),
           \A r \in Requests, n \in Names :
             Waiting(w, r) => w.req[r].sock \notin ToSet(v.pool.free[n])
    PROVE  Good(v, g)
<1>1. w \in Worlds
  BY DEF Good
<1>2. /\ DOMAIN w.sock = 1 .. Len(w.sock) /\ Len(w.sock) \in Nat /\ Len(v.sock) = Len(w.sock)
      /\ \A q \in Requests : w.req[q].sock \in Nat /\ w.req[q].sock <= Len(w.sock)
  <2>1. DOMAIN v.sock = 1 .. Len(v.sock) /\ Len(v.sock) \in Nat
    BY WorldIs
  <2>2. DOMAIN w.sock = 1 .. Len(w.sock) /\ Len(w.sock) \in Nat
    BY <1>1, WorldIs
  <2>3. \A q \in Requests : w.req[q].sock \in Nat
    BY <1>1, WorldIs DEF AReq
  <2>4. DOMAIN v.sock = DOMAIN w.sock
    BY DEF Listed
  <2>5. Len(v.sock) = Len(w.sock)
    BY <2>1, <2>2, <2>4, SameLen
  <2> QED
    BY <2>2, <2>3, <2>5 DEF Good, Waits
<1>3. \A s \in DOMAIN w.sock : w.sock[s].reader \in Requests \cup {0}
  BY <1>1, WorldIs DEF ASock
<1>4. Reads(v)
  BY <1>3 DEF Good, Reads, Listed
<1>5. \A r \in Requests : Waiting(v, r) <=> Waiting(w, r)
  BY DEF Waiting, Listed
<1>6. Waits(v)
  <2>1. SUFFICES ASSUME NEW q \in Requests
                 PROVE  /\ v.req[q].sock <= Len(v.sock)
                        /\ Waiting(v, q) =>
                             /\ v.sock[v.req[q].sock].reader = 0
                             /\ \A n \in Names : v.req[q].sock \notin ToSet(v.pool.free[n])
                             /\ \A p \in Requests : Waiting(v, p) /\ v.req[p].sock = v.req[q].sock => p = q
    BY DEF Waits
  <2>2. v.req[q].sock = w.req[q].sock /\ v.req[q].sock <= Len(v.sock)
    BY <1>2 DEF Listed
  <2>3. SUFFICES ASSUME Waiting(w, q)
                 PROVE  /\ v.sock[v.req[q].sock].reader = 0
                        /\ \A n \in Names : v.req[q].sock \notin ToSet(v.pool.free[n])
                        /\ \A p \in Requests : Waiting(v, p) /\ v.req[p].sock = v.req[q].sock => p = q
    BY <1>5, <2>2
  <2>4. /\ w.sock[w.req[q].sock].reader = 0
        /\ \A p \in Requests : Waiting(w, p) /\ w.req[p].sock = w.req[q].sock => p = q
    BY <2>3 DEF Good, Waits
  <2>5. w.req[q].sock \in DOMAIN w.sock
    BY <1>2, <2>3 DEF Waiting
  <2>6. v.sock[v.req[q].sock].reader = 0
    BY <2>2, <2>4, <2>5 DEF Listed
  <2>7. \A p \in Requests : Waiting(v, p) /\ v.req[p].sock = v.req[q].sock => p = q
    BY <1>5, <2>2, <2>4 DEF Listed
  <2> QED
    BY <2>2, <2>3, <2>6, <2>7
<1>7. Gives(v, g)
  <2>1. SUFFICES ASSUME g # 0
                 PROVE  /\ g \in Requests /\ v.req[g].sock # 0
                        /\ v.sock[v.req[g].sock].reader = g /\ v.sock[v.req[g].sock].unanswered = {}
    BY DEF Gives
  <2>2. /\ g \in Requests /\ w.req[g].sock # 0
        /\ w.sock[w.req[g].sock].reader = g /\ w.sock[w.req[g].sock].unanswered = {}
    BY <2>1 DEF Good, Gives
  <2>3. w.req[g].sock \in DOMAIN w.sock
    BY <1>2, <2>2
  <2> QED
    BY <2>2, <2>3 DEF Listed
<1> QED
  BY <1>4, <1>6, <1>7 DEF Good

-----------------------------------------------------------------------------
(* The operations of the agent                                             *)

(* What they leave alone: requests that are not in the queue.              *)
Spares(w, v) ==
  /\ \A r \in Requests : r \notin ToSet(w.pool.queue["host"]) =>
       /\ r \notin ToSet(v.pool.queue["host"])
       /\ v.req[r].sock = w.req[r].sock /\ v.req[r].sent = w.req[r].sent
       /\ v.req[r].st = w.req[r].st
  /\ DOMAIN w.sock \subseteq DOMAIN v.sock

Grows(w, v) == DOMAIN w.sock \subseteq DOMAIN v.sock

LEMMA SparesOn ==
    ASSUME NEW w, NEW v, NEW u, Spares(w, v), Spares(v, u)
    PROVE  Spares(w, u)
BY DEF Spares

LEMMA NamesAre == "host" \in Names /\ "addr" \in Names /\ \A n \in Names : n = "host" \/ n = "addr"
BY DEF Names

(* A request has nothing and is not in the queue.                          *)
Asks(w, r) ==
  r \in Requests /\ Bare(w, r) /\ w.req[r].st # "new" /\ r \notin ToSet(w.pool.queue["host"])

LEMMA CreateSocketGood ==
    ASSUME NEW w, NEW g, Good(w, g), NEW r, Asks(w, r)
    PROVE  /\ Good(CreateSocket(w, r), g)
           /\ CreateSocket(w, r).pool.queue = w.pool.queue
           /\ \A q \in Requests \ {r} : CreateSocket(w, r).req[q] = w.req[q]
           /\ DOMAIN w.sock \subseteq DOMAIN CreateSocket(w, r).sock
<1>1. w \in Worlds /\ r \in Requests
  BY DEF Good, Asks
<1>2. /\ w.sock \in Seq(ASock) /\ DOMAIN w.sock = 1 .. Len(w.sock) /\ Len(w.sock) \in Nat
      /\ w.req \in [Requests -> AReq] /\ w.pool.active \in [Names -> Seq(Nat)]
      /\ w.pool.free \in [Names -> Seq(Nat)] /\ w.pool.queue \in [Names -> Seq(Requests)]
      /\ w.pool.total \in Int
  BY <1>1, WorldIs
<1>3. PICK s : s = Len(w.sock) + 1
  OBVIOUS
<1>4. PICK c : c = [st |-> "connecting", owner |-> r, reader |-> 0, idle |-> FALSE,
                    mode |-> "none", tracked |-> TRUE, unanswered |-> {}]
  OBVIOUS
<1>5. c \in ASock /\ c.reader = 0 /\ c.unanswered = {}
  BY <1>1, <1>4 DEF ASock
<1>6. PICK x \in AReq : x = [w.req[r] EXCEPT !.sock = s]
  <2>1. w.req[r] \in AReq /\ s \in Nat
    BY <1>1, <1>2, <1>3
  <2> QED
    BY <2>1 DEF AReq
<1>7. x.sock = s /\ x.sent = w.req[r].sent /\ x.st = w.req[r].st
  <2>1. w.req[r] \in AReq
    BY <1>1, <1>2
  <2> QED
    BY <1>6, <2>1 DEF AReq
<1>8. PICK v : v = CreateSocket(w, r)
  OBVIOUS
<1>9. v = [req |-> [w.req EXCEPT ![r] = x], sock |-> Append(w.sock, c),
           pool |-> [active |-> [w.pool.active EXCEPT !["host"] = Append(@, s)],
                     free |-> w.pool.free, queue |-> w.pool.queue, total |-> w.pool.total + 1]]
  <2>1. /\ w = [req |-> w.req, sock |-> w.sock, pool |-> w.pool]
        /\ w.pool = [active |-> w.pool.active, free |-> w.pool.free,
                     queue |-> w.pool.queue, total |-> w.pool.total]
    BY <1>1, WorldIs
  <2>2. PICK W : W = w.sock /\ W \in Seq(ASock)
    BY <1>2
  <2>3. v = [w EXCEPT !.sock = Append(@, c), !.pool.active["host"] = Append(@, s),
                      !.pool.total = @ + 1, !.req[r].sock = s]
    BY <1>3, <1>4, <1>8 DEF CreateSocket
  <2> QED
    BY <1>6, <2>1, <2>3
<1>10. s \in Nat /\ s \notin DOMAIN w.sock
  BY <1>2, <1>3
<1>11. /\ IsInjective(w.pool.active["host"]) /\ s \notin ToSet(w.pool.active["host"])
       /\ w.pool.active["host"] \in Seq(Nat)
  BY <1>2, <1>10, NamesAre DEF Good, Frees
<1>12. PICK a : a = Append(w.pool.active["host"], s)
  OBVIOUS
<1>13. a \in Seq(Nat) /\ IsInjective(a) /\ ToSet(a) = ToSet(w.pool.active["host"]) \cup {s}
  BY <1>10, <1>11, <1>12, AppendIs
<1>14. PICK A \in [Names -> Seq(Nat)] : A = [w.pool.active EXCEPT !["host"] = Append(@, s)]
  BY <1>2, <1>12, <1>13
<1>15. A["host"] = a /\ A["addr"] = w.pool.active["addr"]
  BY <1>2, <1>12, <1>14, NamesAre
<1>16. PICK R \in [Requests -> AReq] : R = [w.req EXCEPT ![r] = x]
  BY <1>2
<1>17. PICK S \in Seq(ASock) : S = Append(w.sock, c)
  BY <1>2, <1>5, AppendProperties
<1>18. /\ v \in Worlds /\ v.req = R /\ v.sock = S /\ v.pool.active = A
       /\ v.pool.free = w.pool.free /\ v.pool.queue = w.pool.queue
  <2>1. PICK t \in Int : t = w.pool.total + 1
    BY <1>2
  <2>2. PICK F \in [Names -> Seq(Nat)], Q \in [Names -> Seq(Requests)] :
          F = w.pool.free /\ Q = w.pool.queue
    BY <1>2
  <2>3. v = [req |-> R, sock |-> S, pool |-> [active |-> A, free |-> F, queue |-> Q, total |-> t]]
    BY <1>9, <1>14, <1>16, <1>17, <2>1, <2>2
  <2>4. v \in Worlds
    BY <2>3, WorldOf
  <2>5. /\ v.req = R /\ v.sock = S /\ v.pool.active = A
        /\ v.pool.free = F /\ v.pool.queue = Q
    BY <2>3
  <2> QED
    BY <2>2, <2>4, <2>5
<1>19. /\ Len(S) = s /\ DOMAIN S = 1 .. s
       /\ \A i \in DOMAIN w.sock : S[i] = w.sock[i]
       /\ S[s] = c
  BY <1>2, <1>3, <1>5, <1>17, AppendProperties
<1>20. R[r] = x /\ \A q \in Requests \ {r} : R[q] = w.req[q]
  BY <1>1, <1>2, <1>16
<1>21. \A i \in DOMAIN v.sock :
         IF i \in DOMAIN w.sock
         THEN v.sock[i].reader = w.sock[i].reader /\ v.sock[i].unanswered = w.sock[i].unanswered
         ELSE v.sock[i].reader = 0 /\ v.sock[i].unanswered = {}
  BY <1>2, <1>3, <1>5, <1>18, <1>19
<1>22. \A q \in Requests : Waiting(w, q) => w.req[q].sock # s
  <2>1. \A q \in Requests : w.req[q].sock \in Nat /\ w.req[q].sock <= Len(w.sock)
    BY <1>2 DEF AReq, Good, Waits
  <2> QED
    BY <1>2, <1>3, <2>1
<1>23. ASSUME NEW n \in Names
       PROVE  /\ Part(v.pool.free[n], w.pool.free[n]) /\ s \notin ToSet(v.pool.free[n])
              /\ IsInjective(v.pool.active[n])
              /\ ToSet(v.pool.active[n]) \subseteq ToSet(w.pool.active[n]) \cup {s}
              /\ Part(v.pool.queue[n], w.pool.queue[n])
  <2>1. IsInjective(w.pool.free[n]) /\ IsInjective(w.pool.active[n])
    BY DEF Good, Frees
  <2>2. s \notin ToSet(w.pool.free[n])
    BY <1>10 DEF Good, Frees
  <2>3. IsInjective(w.pool.queue[n])
    BY NamesAre, NothingIs DEF Good, Queues
  <2>4. CASE n = "host"
    BY <1>13, <1>15, <1>18, <2>1, <2>2, <2>3, <2>4 DEF Part
  <2>5. CASE n = "addr"
    BY <1>15, <1>18, <2>1, <2>2, <2>3, <2>5 DEF Part
  <2> QED
    BY <2>4, <2>5, NamesAre
<1>24. Taken(w, v, r, s)
  <2>1. w.req[r].sock = 0 /\ ~w.req[r].sent /\ w.req[r].st # "new"
        /\ r \notin ToSet(w.pool.queue["host"])
    BY DEF Asks, Bare
  <2>2. s \in DOMAIN v.sock /\ v.sock[s].reader = 0 /\ Len(w.sock) <= Len(v.sock)
    BY <1>2, <1>3, <1>5, <1>18, <1>19
  <2>3. /\ v.req[r].sock = s /\ ~v.req[r].sent /\ v.req[r].st # "new"
        /\ \A q \in Requests \ {r} : v.req[q] = w.req[q]
    BY <1>7, <1>18, <1>20, <2>1
  <2> QED
    BY <1>18, <1>21, <1>22, <1>23, <2>1, <2>2, <2>3 DEF Taken
<1>25. Good(v, g)
  BY <1>1, <1>18, <1>24, TakenGood
<1>26. DOMAIN w.sock \subseteq DOMAIN v.sock
  BY <1>2, <1>3, <1>18, <1>19
<1> QED
  BY <1>8, <1>18, <1>20, <1>25, <1>26

(* Lesser changes of one part of a world.                                  *)
LEMMA PoolLess ==
    ASSUME NEW w, NEW g, Good(w, g), NEW v \in Worlds, v.req = w.req, v.sock = w.sock,
           \A n \in Names : /\ Part(v.pool.active[n], w.pool.active[n])
                            /\ Part(v.pool.free[n], w.pool.free[n])
                            /\ Part(v.pool.queue[n], w.pool.queue[n])
    PROVE  Good(v, g) /\ Spares(w, v)
<1>1. Lesser(w, v)
  BY DEF Lesser
<1>2. Spares(w, v)
  BY NamesAre DEF Spares, Part
<1> QED
  BY <1>1, <1>2, LesserGood

LEMMA SockLess ==
    ASSUME NEW w, NEW g, Good(w, g), NEW v, NEW s \in DOMAIN w.sock, NEW x \in ASock,
           x.reader = w.sock[s].reader, x.unanswered \subseteq w.sock[s].unanswered,
           v = [req |-> w.req, sock |-> [w.sock EXCEPT ![s] = x], pool |-> w.pool]
    PROVE  /\ Good(v, g) /\ v.req = w.req /\ v.pool = w.pool /\ Spares(w, v)
           /\ DOMAIN v.sock = DOMAIN w.sock /\ v.sock[s] = x
           /\ \A i \in DOMAIN w.sock : i # s => v.sock[i] = w.sock[i]
<1>1. w \in Worlds
  BY DEF Good
<1>2. /\ w.req \in [Requests -> AReq] /\ w.sock \in Seq(ASock) /\ w.pool \in Pool
      /\ DOMAIN w.sock = 1 .. Len(w.sock)
  BY <1>1, WorldIs DEF Worlds
<1>3. PICK S : S = [w.sock EXCEPT ![s] = x]
  OBVIOUS
<1>4. /\ S \in Seq(ASock) /\ DOMAIN S = DOMAIN w.sock /\ S[s] = x
      /\ \A i \in DOMAIN w.sock : i # s => S[i] = w.sock[i]
  BY <1>2, <1>3, ExceptSeq
<1>5. v = [req |-> w.req, sock |-> S, pool |-> w.pool]
  BY <1>3
<1>6. v \in Worlds /\ v.req = w.req /\ v.sock = S /\ v.pool = w.pool
  BY <1>2, <1>4, <1>5 DEF Worlds
<1>7. \A n \in Names : /\ Part(w.pool.active[n], w.pool.active[n])
                       /\ Part(w.pool.free[n], w.pool.free[n])
                       /\ Part(w.pool.queue[n], w.pool.queue[n])
  BY NamesAre, NothingIs DEF Good, Frees, Queues, Part
<1>8. Lesser(w, v)
  BY <1>4, <1>6, <1>7 DEF Lesser
<1>9. Spares(w, v)
  BY <1>4, <1>6 DEF Spares
<1> QED
  BY <1>4, <1>6, <1>8, <1>9, LesserGood

LEMMA ReqLess ==
    ASSUME NEW w, NEW g, Good(w, g), NEW v, NEW r \in Requests, NEW x \in AReq,
           x.sock = w.req[r].sock, x.sent = w.req[r].sent, x.st = "new" => w.req[r].st = "new",
           v = [req |-> [w.req EXCEPT ![r] = x], sock |-> w.sock, pool |-> w.pool]
    PROVE  /\ Good(v, g) /\ v.sock = w.sock /\ v.pool = w.pool
           /\ v.req[r] = x /\ \A q \in Requests \ {r} : v.req[q] = w.req[q]
<1>1. w \in Worlds
  BY DEF Good
<1>2. w.req \in [Requests -> AReq] /\ w.sock \in Seq(ASock) /\ w.pool \in Pool
  BY <1>1 DEF Worlds
<1>3. PICK R \in [Requests -> AReq] : R = [w.req EXCEPT ![r] = x]
  BY <1>2
<1>4. R[r] = x /\ \A q \in Requests \ {r} : R[q] = w.req[q]
  BY <1>2, <1>3
<1>5. v = [req |-> R, sock |-> w.sock, pool |-> w.pool]
  BY <1>3
<1>6. v \in Worlds /\ v.req = R /\ v.sock = w.sock /\ v.pool = w.pool
  BY <1>2, <1>5 DEF Worlds
<1>7. \A n \in Names : /\ Part(w.pool.active[n], w.pool.active[n])
                       /\ Part(w.pool.free[n], w.pool.free[n])
                       /\ Part(w.pool.queue[n], w.pool.queue[n])
  BY NamesAre, NothingIs DEF Good, Frees, Queues, Part
<1>8. Lesser(w, v)
  BY <1>4, <1>6, <1>7 DEF Lesser
<1> QED
  BY <1>4, <1>6, <1>8, LesserGood

(* The list of one name without a connection.                              *)
LEMMA WithoutAt ==
    ASSUME NEW L \in [Names -> Seq(Nat)], \A n \in Names : IsInjective(L[n]), NEW m \in Names,
           NEW s, NEW K, K = [L EXCEPT ![m] = Without(@, s)]
    PROVE  /\ K \in [Names -> Seq(Nat)] /\ s \notin ToSet(K[m])
           /\ \A n \in Names : Part(K[n], L[n])
<1>1. PICK k : k = Without(L[m], s)
  OBVIOUS
<1>2. k \in Seq(Nat) /\ Part(k, L[m]) /\ s \notin ToSet(k)
  BY <1>1, WithoutIs
<1>3. K = [L EXCEPT ![m] = k]
  BY <1>1
<1>4. K \in [Names -> Seq(Nat)] /\ K[m] = k /\ \A n \in Names : n # m => K[n] = L[n]
  BY <1>2, <1>3
<1> QED
  BY <1>2, <1>4 DEF Part

LEMMA RemoveSocketGood ==
    ASSUME NEW w, NEW g, Good(w, g), NEW s
    PROVE  Good(RemoveSocket(w, s), g) /\ Spares(w, RemoveSocket(w, s))
<1>1. w \in Worlds
  BY DEF Good
<1>2. /\ w.pool.active \in [Names -> Seq(Nat)] /\ w.pool.free \in [Names -> Seq(Nat)]
      /\ w.pool.queue \in [Names -> Seq(Requests)] /\ w.pool.total \in Int
      /\ w = [req |-> w.req, sock |-> w.sock, pool |-> w.pool]
      /\ w.pool = [active |-> w.pool.active, free |-> w.pool.free,
                   queue |-> w.pool.queue, total |-> w.pool.total]
  BY <1>1, WorldIs
<1>3. \A n \in Names : IsInjective(w.pool.active[n]) /\ IsInjective(w.pool.free[n])
  BY DEF Good, Frees
<1>4. PICK A : A = [w.pool.active EXCEPT !["host"] = Without(@, s)]
  OBVIOUS
<1>5. A \in [Names -> Seq(Nat)] /\ \A n \in Names : Part(A[n], w.pool.active[n])
  BY <1>2, <1>3, <1>4, NamesAre, WithoutAt
<1>6. PICK F : F = [w.pool.free EXCEPT !["host"] = Without(@, s)]
  OBVIOUS
<1>7. F \in [Names -> Seq(Nat)] /\ \A n \in Names : Part(F[n], w.pool.free[n])
  BY <1>2, <1>3, <1>6, NamesAre, WithoutAt
<1>8. PICK t \in Int : t = IF w.pool.total = 0 THEN 0 ELSE w.pool.total - 1
  BY <1>2
<1>9. PICK gone : gone = [w EXCEPT !.pool.active["host"] = Without(@, s), !.pool.free["host"] = Without(@, s),
                                   !.pool.total = IF @ = 0 THEN 0 ELSE @ - 1]
  OBVIOUS
<1>10. gone = [req |-> w.req, sock |-> w.sock,
               pool |-> [active |-> A, free |-> F, queue |-> w.pool.queue, total |-> t]]
  BY <1>2, <1>4, <1>6, <1>8, <1>9
<1>11. \A n \in Names : IsInjective(w.pool.queue[n])
  BY NamesAre, NothingIs DEF Good, Queues
<1>12. /\ Good(gone, g) /\ gone.req = w.req /\ gone.sock = w.sock /\ Spares(w, gone)
       /\ gone.pool.queue = w.pool.queue
  <2>1. \A n \in Names : Part(w.pool.queue[n], w.pool.queue[n])
    BY <1>11 DEF Part
  <2>2. PICK B \in [Names -> Seq(Nat)], G \in [Names -> Seq(Nat)], Q \in [Names -> Seq(Requests)] :
          B = A /\ G = F /\ Q = w.pool.queue
    BY <1>2, <1>5, <1>7
  <2>3. gone = [req |-> w.req, sock |-> w.sock,
                pool |-> [active |-> B, free |-> G, queue |-> Q, total |-> t]]
    BY <1>10, <2>2
  <2>4. \A n \in Names : /\ Part(B[n], w.pool.active[n]) /\ Part(G[n], w.pool.free[n])
                         /\ Part(Q[n], w.pool.queue[n])
    BY <1>5, <1>7, <2>1, <2>2
  <2>5. PICK R \in [Requests -> AReq], S \in Seq(ASock) : R = w.req /\ S = w.sock
    BY <1>1, WorldIs
  <2>6. gone = [req |-> R, sock |-> S,
                pool |-> [active |-> B, free |-> G, queue |-> Q, total |-> t]]
    BY <2>3, <2>5
  <2>7. gone \in Worlds
    BY <2>6, WorldOf
  <2>8. /\ gone.req = R /\ gone.sock = S /\ gone.pool.active = B /\ gone.pool.free = G
        /\ gone.pool.queue = Q
    BY <2>6
  <2>9. Good(gone, g) /\ Spares(w, gone)
    BY <2>4, <2>5, <2>7, <2>8, PoolLess
  <2> QED
    BY <2>2, <2>5, <2>8, <2>9
<1>13. PICK q : q = w.pool.queue["host"]
  OBVIOUS
<1>14. CASE q = <<>>
  BY <1>9, <1>12, <1>13, <1>14 DEF RemoveSocket
<1>15. CASE q # <<>>
  <2>1. q \in Seq(Requests) /\ IsInjective(q)
    BY <1>2, <1>11, <1>13, NamesAre
  <2>2. /\ Head(q) \in ToSet(q) /\ Head(q) \in Requests
        /\ Tail(q) \in Seq(Requests) /\ Part(Tail(q), q) /\ Head(q) \notin ToSet(Tail(q))
    BY <1>15, <2>1, SomeIs
  <2>3. PICK Q : Q = [w.pool.queue EXCEPT !["host"] = Tail(q)]
    OBVIOUS
  <2>4. /\ Q \in [Names -> Seq(Requests)] /\ Q["host"] = Tail(q)
        /\ \A n \in Names : Part(Q[n], w.pool.queue[n])
    <3>1. Q \in [Names -> Seq(Requests)] /\ Q["host"] = Tail(q)
          /\ \A n \in Names : n # "host" => Q[n] = w.pool.queue[n]
      BY <1>2, <2>2, <2>3, NamesAre
    <3> QED
      BY <1>11, <1>13, <2>2, <3>1 DEF Part
  <2>5. PICK mid : mid = [gone EXCEPT !.pool.queue["host"] = Tail(q)]
    OBVIOUS
  <2>6. mid = [req |-> w.req, sock |-> w.sock,
               pool |-> [active |-> A, free |-> F, queue |-> Q, total |-> t]]
    BY <1>10, <2>3, <2>5
  <2>7. /\ Good(mid, g) /\ mid.req = w.req /\ mid.sock = w.sock /\ Spares(w, mid)
        /\ mid.pool.queue = Q
    <3>1. PICK B \in [Names -> Seq(Nat)], G \in [Names -> Seq(Nat)], P \in [Names -> Seq(Requests)] :
            B = A /\ G = F /\ P = Q
      BY <1>5, <1>7, <2>4
    <3>2. mid = [req |-> w.req, sock |-> w.sock,
                 pool |-> [active |-> B, free |-> G, queue |-> P, total |-> t]]
      BY <2>6, <3>1
    <3>3. \A n \in Names : /\ Part(B[n], w.pool.active[n]) /\ Part(G[n], w.pool.free[n])
                           /\ Part(P[n], w.pool.queue[n])
      BY <1>5, <1>7, <2>4, <3>1
    <3>4. PICK R \in [Requests -> AReq], S \in Seq(ASock) : R = w.req /\ S = w.sock
      BY <1>1, WorldIs
    <3>5. mid = [req |-> R, sock |-> S,
                 pool |-> [active |-> B, free |-> G, queue |-> P, total |-> t]]
      BY <3>2, <3>4
    <3>6. mid \in Worlds
      BY <3>5, WorldOf
    <3>7. /\ mid.req = R /\ mid.sock = S /\ mid.pool.active = B /\ mid.pool.free = G
          /\ mid.pool.queue = P
      BY <3>5
    <3>8. Good(mid, g) /\ Spares(w, mid)
      BY <3>3, <3>4, <3>6, <3>7, PoolLess
    <3> QED
      BY <3>1, <3>4, <3>7, <3>8
  <2>8. RemoveSocket(w, s) = CreateSocket(mid, Head(q))
    BY <1>9, <1>12, <1>13, <1>15, <2>5 DEF RemoveSocket
  <2>9. Asks(mid, Head(q))
    <3>1. Bare(w, Head(q)) /\ w.req[Head(q)].st # "new"
      BY <1>13, <2>2 DEF Good, Queues
    <3>2. mid.req = w.req /\ mid.pool.queue["host"] = Tail(q)
      BY <2>4, <2>7
    <3> QED
      BY <2>2, <3>1, <3>2 DEF Asks, Bare
  <2>10. PICK v : v = CreateSocket(mid, Head(q))
    OBVIOUS
  <2>11. /\ Good(v, g) /\ v.pool.queue = Q
         /\ \A p \in Requests \ {Head(q)} : v.req[p] = w.req[p]
         /\ DOMAIN w.sock \subseteq DOMAIN v.sock
    BY <2>7, <2>9, <2>10, CreateSocketGood
  <2>12. Spares(w, v)
    BY <1>13, <2>2, <2>4, <2>11 DEF Spares, Part
  <2> QED
    BY <2>8, <2>10, <2>11, <2>12
<1> QED
  BY <1>13, <1>14, <1>15

LEMMA CloseReadGood ==
    ASSUME NEW w, NEW g, Good(w, g), NEW s \in DOMAIN w.sock
    PROVE  Good(CloseRead(w, s), g) /\ Spares(w, CloseRead(w, s))
<1>1. w \in Worlds
  BY DEF Good
<1>2. PICK r \in Requests \cup {0} : r = w.sock[s].reader
  BY <1>1, WorldIs DEF ASock
<1>3. CASE ~(r # 0 /\ w.req[r].res = "head")
  <2>1. CloseRead(w, s) = w
    BY <1>2, <1>3 DEF CloseRead
  <2> QED
    BY <2>1 DEF Spares
<1>4. CASE r # 0 /\ w.req[r].res = "head"
  <2>1. r \in Requests /\ w.req[r] \in AReq
    BY <1>1, <1>4, WorldIs
  <2>2. PICK x \in AReq : x = [w.req[r] EXCEPT !.res = "done"]
    BY <2>1 DEF AReq
  <2>3. x.sock = w.req[r].sock /\ x.sent = w.req[r].sent /\ x.st = w.req[r].st
    BY <2>1, <2>2 DEF AReq
  <2>4. PICK v : v = CloseRead(w, s)
    OBVIOUS
  <2>5. v = [req |-> [w.req EXCEPT ![r] = x], sock |-> w.sock, pool |-> w.pool]
    <3>1. w = [req |-> w.req, sock |-> w.sock, pool |-> w.pool]
      BY <1>1, RecordIs
    <3>2. v = [w EXCEPT !.req[r].res = "done"]
      BY <1>2, <1>4, <2>4 DEF CloseRead
    <3> QED
      BY <2>2, <3>1, <3>2
  <2>6. /\ Good(v, g) /\ v.sock = w.sock /\ v.pool = w.pool
        /\ v.req[r] = x /\ \A q \in Requests \ {r} : v.req[q] = w.req[q]
    BY <2>1, <2>3, <2>5, ReqLess
  <2> QED
    BY <2>3, <2>4, <2>6 DEF Spares
<1> QED
  BY <1>3, <1>4

LEMMA KillGood ==
    ASSUME NEW w, NEW g, Good(w, g), NEW s \in DOMAIN w.sock
    PROVE  Good(Kill(w, s), g) /\ Spares(w, Kill(w, s))
<1>1. w \in Worlds
  BY DEF Good
<1>2. CASE w.sock[s].st = "dead"
  <2>1. Kill(w, s) = w
    BY <1>2 DEF Kill
  <2> QED
    BY <2>1 DEF Spares
<1>3. CASE w.sock[s].st # "dead"
  <2>1. w.sock[s] \in ASock
    BY <1>1, WorldIs
  <2>2. PICK x \in ASock : x = [w.sock[s] EXCEPT !.st = "dead", !.idle = FALSE]
    BY <2>1 DEF ASock
  <2>3. x.reader = w.sock[s].reader /\ x.unanswered = w.sock[s].unanswered
    BY <2>1, <2>2 DEF ASock
  <2>4. PICK dead : dead = [w EXCEPT !.sock[s].st = "dead", !.sock[s].idle = FALSE]
    OBVIOUS
  <2>5. dead = [req |-> w.req, sock |-> [w.sock EXCEPT ![s] = x], pool |-> w.pool]
    <3>1. w = [req |-> w.req, sock |-> w.sock, pool |-> w.pool]
      BY <1>1, RecordIs
    <3> QED
      BY <2>2, <2>4, <3>1
  <2>6. Good(dead, g) /\ Spares(w, dead)
    BY <2>3, <2>5, SockLess
  <2>7. PICK off : off = IF w.sock[s].tracked THEN RemoveSocket(dead, s) ELSE dead
    OBVIOUS
  <2>8. Good(off, g) /\ Spares(w, off)
    BY <2>6, <2>7, RemoveSocketGood, SparesOn
  <2>9. s \in DOMAIN off.sock
    BY <2>8 DEF Spares
  <2>10. Kill(w, s) = CloseRead(off, s)
    BY <1>3, <2>4, <2>7 DEF Kill
  <2> QED
    BY <2>8, <2>9, <2>10, CloseReadGood, SparesOn
<1> QED
  BY <1>2, <1>3

(* A request joins the queue.                                              *)
LEMMA EnqueueGood ==
    ASSUME NEW w, NEW g, Good(w, g), NEW r, Asks(w, r),
           NEW v, v = Enqueue(w, r)
    PROVE  Good(v, g) /\ v.sock = w.sock
<1>1. w \in Worlds /\ r \in Requests
  BY DEF Good, Asks
<1>2. /\ w.pool.queue \in [Names -> Seq(Requests)]
      /\ w.pool.active \in [Names -> Seq(Nat)] /\ w.pool.free \in [Names -> Seq(Nat)]
      /\ w.pool.total \in Int /\ w.req \in [Requests -> AReq] /\ w.sock \in Seq(ASock)
      /\ w = [req |-> w.req, sock |-> w.sock, pool |-> w.pool]
      /\ w.pool = [active |-> w.pool.active, free |-> w.pool.free,
                   queue |-> w.pool.queue, total |-> w.pool.total]
  BY <1>1, WorldIs
<1>3. PICK q : q = Append(w.pool.queue["host"], r)
  OBVIOUS
<1>4. /\ q \in Seq(Requests) /\ IsInjective(q)
      /\ ToSet(q) = ToSet(w.pool.queue["host"]) \cup {r}
  <2>1. /\ w.pool.queue["host"] \in Seq(Requests) /\ IsInjective(w.pool.queue["host"])
        /\ r \notin ToSet(w.pool.queue["host"])
    BY <1>2, NamesAre DEF Good, Queues, Asks
  <2> QED
    BY <1>1, <1>3, <2>1, AppendIs
<1>5. PICK Q : Q = [w.pool.queue EXCEPT !["host"] = q]
  OBVIOUS
<1>6. /\ Q \in [Names -> Seq(Requests)] /\ Q["host"] = q
      /\ Q["addr"] = w.pool.queue["addr"]
  BY <1>2, <1>4, <1>5, NamesAre
<1>7. v = [req |-> w.req, sock |-> w.sock,
           pool |-> [active |-> w.pool.active, free |-> w.pool.free, queue |-> Q, total |-> w.pool.total]]
  BY <1>2, <1>3, <1>5 DEF Enqueue
<1>8. /\ v \in Worlds /\ v.req = w.req /\ v.sock = w.sock /\ v.pool.active = w.pool.active
      /\ v.pool.free = w.pool.free /\ v.pool.queue = Q
  <2>1. PICK R \in [Requests -> AReq], S \in Seq(ASock) : R = w.req /\ S = w.sock
    BY <1>2
  <2>2. PICK A \in [Names -> Seq(Nat)], F \in [Names -> Seq(Nat)], t \in Int :
          A = w.pool.active /\ F = w.pool.free /\ t = w.pool.total
    BY <1>2
  <2>3. PICK P \in [Names -> Seq(Requests)] : P = Q
    BY <1>6
  <2>4. v = [req |-> R, sock |-> S, pool |-> [active |-> A, free |-> F, queue |-> P, total |-> t]]
    BY <1>7, <2>1, <2>2, <2>3
  <2>5. v \in Worlds
    <3>1. [req |-> R, sock |-> S, pool |-> [active |-> A, free |-> F, queue |-> P, total |-> t]] \in Worlds
      BY WorldOf
    <3> QED
      BY <2>4, <3>1
  <2>6. /\ v.req = R /\ v.sock = S /\ v.pool.active = A
        /\ v.pool.free = F /\ v.pool.queue = P
    BY <2>4
  <2> QED
    BY <2>1, <2>2, <2>3, <2>5, <2>6
<1>9. Listed(w, v)
  BY <1>8 DEF Listed
<1>10. Frees(v)
  BY <1>8 DEF Good, Frees
<1>11. Queues(v)
  <2>1. \A p \in ToSet(q) : Bare(w, p) /\ w.req[p].st # "new"
    BY <1>4 DEF Good, Queues, Asks
  <2> QED
    BY <1>4, <1>6, <1>8, <2>1 DEF Good, Queues, Bare
<1>12. \A p \in Requests, n \in Names : Waiting(w, p) => w.req[p].sock \notin ToSet(v.pool.free[n])
  BY <1>8 DEF Good, Waits
<1> QED
  BY <1>8, <1>9, <1>10, <1>11, <1>12, ListedGood

(* A request gets a connection that is there.                              *)
Asked(q, s) == [q EXCEPT !.sock = s, !.sent = FALSE, !.aborted = FALSE, !.res = "none"]
Hands(w, v, r, s) ==
  /\ w.req[r].sock = 0 /\ w.req[r].st # "new"
  /\ s \in DOMAIN w.sock /\ w.sock[s].reader = 0
  /\ \A q \in Requests : Waiting(w, q) => w.req[q].sock # s
  /\ v = [req |-> v.req, sock |-> v.sock, pool |-> v.pool] /\ v.pool \in Pool
  /\ v.req = [w.req EXCEPT ![r] = Asked(w.req[r], s)]
  /\ v.sock = [w.sock EXCEPT ![s] = v.sock[s]] /\ v.sock[s] \in ASock
  /\ v.sock[s].reader = 0 /\ v.sock[s].unanswered = w.sock[s].unanswered
  /\ r \notin ToSet(v.pool.queue["host"])
  /\ \A n \in Names : /\ Part(v.pool.free[n], w.pool.free[n]) /\ s \notin ToSet(v.pool.free[n])
                      /\ IsInjective(v.pool.active[n])
                      /\ ToSet(v.pool.active[n]) \subseteq ToSet(w.pool.active[n]) \cup {s}
                      /\ Part(v.pool.queue[n], w.pool.queue[n])

LEMMA TakeGood ==
    ASSUME NEW w, NEW g, Good(w, g), NEW r \in Requests, NEW s, NEW v, Hands(w, v, r, s)
    PROVE  Good(v, g) /\ Waiting(v, r) /\ DOMAIN v.sock = DOMAIN w.sock
<1>1. w \in Worlds
  BY DEF Good
<1>2. /\ w.req \in [Requests -> AReq] /\ w.sock \in Seq(ASock) /\ w.req[r] \in AReq
      /\ DOMAIN w.sock = 1 .. Len(w.sock) /\ Len(w.sock) \in Nat
  BY <1>1, WorldIs
<1>3. s \in Nat /\ s # 0 /\ s \in DOMAIN w.sock
  BY <1>2 DEF Hands
<1>4. PICK y \in AReq : y = Asked(w.req[r], s)
  BY <1>2, <1>3 DEF AReq, Asked
<1>5. y.sock = s /\ ~y.sent /\ y.st = w.req[r].st
  BY <1>2, <1>4 DEF AReq, Asked
<1>6. PICK R \in [Requests -> AReq] : R = [w.req EXCEPT ![r] = y]
  BY <1>2
<1>7. v.req = R /\ R[r] = y /\ \A q \in Requests \ {r} : R[q] = w.req[q]
  BY <1>2, <1>4, <1>6 DEF Hands
<1>8. PICK x \in ASock : x = v.sock[s]
  BY DEF Hands
<1>9. v.sock = [w.sock EXCEPT ![s] = x]
  BY <1>8 DEF Hands
<1>10. PICK S \in Seq(ASock) : S = v.sock /\ DOMAIN S = DOMAIN w.sock /\ Len(S) = Len(w.sock)
                               /\ \A i \in DOMAIN w.sock : i # s => S[i] = w.sock[i]
  BY <1>2, <1>3, <1>9, ExceptSeq, SMTT(30)
<1>11. v \in Worlds
  <2>1. PICK P \in Pool : P = v.pool
    BY DEF Hands
  <2>2. v = [req |-> R, sock |-> S, pool |-> P]
    BY <1>7, <1>10, <2>1 DEF Hands
  <2> QED
    BY <2>2 DEF Worlds
<1>12. \A i \in DOMAIN v.sock :
         IF i \in DOMAIN w.sock
         THEN v.sock[i].reader = w.sock[i].reader /\ v.sock[i].unanswered = w.sock[i].unanswered
         ELSE v.sock[i].reader = 0 /\ v.sock[i].unanswered = {}
  <2>1. \A i \in DOMAIN w.sock :
          v.sock[i].reader = w.sock[i].reader /\ v.sock[i].unanswered = w.sock[i].unanswered
    BY <1>10 DEF Hands
  <2> QED
    BY <1>10, <2>1
<1>13. Taken(w, v, r, s)
  <2>1. s \in DOMAIN v.sock /\ v.sock[s].reader = 0 /\ Len(w.sock) <= Len(v.sock)
    BY <1>2, <1>3, <1>10 DEF Hands
  <2>2. w.req[r].sock = 0 /\ v.req[r].sock = s /\ ~v.req[r].sent /\ v.req[r].st # "new"
    BY <1>5, <1>7 DEF Hands
  <2>3. /\ r \notin ToSet(v.pool.queue["host"])
        /\ \A q \in Requests : Waiting(w, q) => w.req[q].sock # s
        /\ \A n \in Names : /\ Part(v.pool.free[n], w.pool.free[n]) /\ s \notin ToSet(v.pool.free[n])
                            /\ IsInjective(v.pool.active[n])
                            /\ ToSet(v.pool.active[n]) \subseteq ToSet(w.pool.active[n]) \cup {s}
                            /\ Part(v.pool.queue[n], w.pool.queue[n])
    BY DEF Hands
  <2> QED
    BY <1>7, <1>12, <2>1, <2>2, <2>3 DEF Taken
<1>14. Good(v, g)
  BY <1>11, <1>13, TakenGood
<1>15. Waiting(v, r)
  BY <1>3, <1>5, <1>7 DEF Waiting
<1> QED
  BY <1>10, <1>14, <1>15

LEMMA AddRequestGood ==
    ASSUME NEW w, NEW g, Good(w, g), NEW r, Asks(w, r)
    PROVE  Good(AddRequest(w, r), g) /\ Grows(w, AddRequest(w, r))
<1>1. /\ w \in Worlds /\ r \in Requests /\ w.req[r].sock = 0 /\ ~w.req[r].sent
      /\ w.req[r].st # "new" /\ r \notin ToSet(w.pool.queue["host"])
  BY DEF Good, Asks, Bare
<1>2. /\ w.pool.queue \in [Names -> Seq(Requests)]
      /\ w.pool.active \in [Names -> Seq(Nat)] /\ w.pool.free \in [Names -> Seq(Nat)]
      /\ w.pool.total \in Int /\ w.req \in [Requests -> AReq] /\ w.sock \in Seq(ASock)
      /\ w = [req |-> w.req, sock |-> w.sock, pool |-> w.pool]
      /\ w.pool = [active |-> w.pool.active, free |-> w.pool.free,
                   queue |-> w.pool.queue, total |-> w.pool.total]
  BY <1>1, WorldIs
<1>3. PICK free : free = IF KeepAlive THEN w.pool.free["host"] ELSE <<>>
  OBVIOUS
<1>4. free \in Seq(Nat) /\ IsInjective(free) /\ DOMAIN free = 1 .. Len(free) /\ Len(free) \in Nat
  <2>1. free \in Seq(Nat) /\ IsInjective(free)
    BY <1>2, <1>3, NamesAre, NothingIs DEF Good, Frees
  <2> QED
    BY <2>1
<1>5. PICK alive : alive = {i \in DOMAIN free : w.sock[free[i]].st = "open"}
  OBVIOUS
<1>6. PICK at : at = IF Fifo THEN Min(alive) ELSE Max(alive)
  OBVIOUS
<1>7. PICK s : s = free[at]
  OBVIOUS
<1>8. PICK rest : rest = IF Fifo THEN SubSeq(free, at + 1, Len(free)) ELSE SubSeq(free, 1, at - 1)
  OBVIOUS
<1>9. PICK none : none = [w EXCEPT !.pool.free["host"] = IF KeepAlive THEN <<>> ELSE @]
  OBVIOUS
<1>10. \A n \in Names : /\ IsInjective(w.pool.active[n]) /\ IsInjective(w.pool.free[n])
                        /\ IsInjective(w.pool.queue[n])
  BY NamesAre, NothingIs DEF Good, Frees, Queues
<1>11. CASE alive # {}
  <2>1. KeepAlive
    <3>1. ~KeepAlive => DOMAIN free = {}
      BY <1>3
    <3> QED
      BY <1>5, <1>11, <3>1
  <2>2. free = w.pool.free["host"]
    BY <1>3, <2>1
  <2>3. at \in 1 .. Len(free)
    BY <1>4, <1>5, <1>6, <1>11, Extremes
  <2>4. /\ rest \in Seq(Nat) /\ Part(rest, free) /\ s \notin ToSet(rest) /\ s \in ToSet(free)
        /\ s \in Nat
    <3>1. CASE Fifo
      <4>1. at + 1 \in Nat /\ 1 <= at + 1 /\ Len(free) <= Len(free) /\ at < at + 1
        BY <1>4, <2>3
      <4>2. /\ rest \in Seq(Nat) /\ Part(rest, free)
            /\ \A i \in 1 .. Len(free) : i < at + 1 => free[i] \notin ToSet(rest)
        BY <1>4, <1>8, <3>1, <4>1, SliceIs
      <4> QED
        BY <1>4, <1>7, <2>3, <4>1, <4>2, SMTT(30) DEF ToSet
    <3>2. CASE ~Fifo
      <4>1. at - 1 \in Nat /\ at - 1 <= Len(free) /\ at > at - 1 /\ 1 <= 1 /\ 1 \in Nat
        BY <1>4, <2>3
      <4>2. /\ rest \in Seq(Nat) /\ Part(rest, free)
            /\ \A i \in 1 .. Len(free) : i > at - 1 => free[i] \notin ToSet(rest)
        BY <1>4, <1>8, <3>2, <4>1, SliceIs
      <4> QED
        BY <1>4, <1>7, <2>3, <4>1, <4>2, SMTT(30) DEF ToSet
    <3> QED
      BY <3>1, <3>2
  <2>5. /\ s \in DOMAIN w.sock /\ w.sock[s].reader = 0 /\ s \notin ToSet(w.pool.active["host"])
        /\ \A q \in Requests : Waiting(w, q) => w.req[q].sock # s
        /\ s \notin ToSet(w.pool.free["addr"])
    <3>1. s \in DOMAIN w.sock /\ w.sock[s].reader = 0 /\ s \notin ToSet(w.pool.active["host"])
      BY <2>2, <2>4, NamesAre DEF Good, Frees
    <3>2. \A q \in Requests : Waiting(w, q) => w.req[q].sock # s
      BY <2>2, <2>4, NamesAre DEF Good, Waits
    <3>3. w.pool.free["host"] # <<>>
      BY <2>2, <2>4, NothingIs
    <3>4. KeptUnder = "host"
      BY <3>3, NamesAre DEF Good, Frees
    <3>5. w.pool.free["addr"] = <<>>
      BY <3>4, NamesAre DEF Good, Frees
    <3> QED
      BY <3>1, <3>2, <3>5, NothingIs
  <2>6. PICK x \in ASock : x = [w.sock[s] EXCEPT !.idle = FALSE]
    <3>1. w.sock[s] \in ASock
      BY <1>1, <2>5, WorldIs
    <3> QED
      BY <3>1 DEF ASock
  <2>7. x.reader = 0 /\ x.unanswered = w.sock[s].unanswered
    <3>1. w.sock[s] \in ASock
      BY <1>1, <2>5, WorldIs
    <3> QED
      BY <2>5, <2>6, <3>1 DEF ASock
  <2>8. PICK a : a = Append(w.pool.active["host"], s)
    OBVIOUS
  <2>9. a \in Seq(Nat) /\ IsInjective(a) /\ ToSet(a) = ToSet(w.pool.active["host"]) \cup {s}
    <3>1. w.pool.active["host"] \in Seq(Nat) /\ IsInjective(w.pool.active["host"])
      BY <1>2, <1>10, NamesAre
    <3> QED
      BY <2>4, <2>5, <2>8, <3>1, AppendIs
  <2>10. PICK A : A = [w.pool.active EXCEPT !["host"] = a]
    OBVIOUS
  <2>11. PICK F : F = [w.pool.free EXCEPT !["host"] = rest]
    OBVIOUS
  <2>12. A \in [Names -> Seq(Nat)] /\ A["host"] = a /\ A["addr"] = w.pool.active["addr"]
    BY <1>2, <2>9, <2>10, NamesAre
  <2>13. F \in [Names -> Seq(Nat)] /\ F["host"] = rest /\ F["addr"] = w.pool.free["addr"]
    BY <1>2, <2>4, <2>11, NamesAre
  <2>14. ASSUME NEW n \in Names
         PROVE  /\ Part(F[n], w.pool.free[n]) /\ s \notin ToSet(F[n])
                /\ IsInjective(A[n])
                /\ ToSet(A[n]) \subseteq ToSet(w.pool.active[n]) \cup {s}
                /\ Part(w.pool.queue[n], w.pool.queue[n])
    <3>1. CASE n = "host"
      BY <1>10, <2>2, <2>4, <2>9, <2>12, <2>13, <3>1 DEF Part
    <3>2. CASE n = "addr"
      BY <1>10, <2>5, <2>12, <2>13, <3>2 DEF Part
    <3> QED
      BY <3>1, <3>2, NamesAre
  <2>15. PICK v : v = Reset([w EXCEPT !.pool.free["host"] = rest,
                                      !.pool.active["host"] = Append(@, s),
                                      !.sock[s].idle = FALSE, !.req[r].sock = s], r)
    OBVIOUS
  <2>16. v = [req |-> [w.req EXCEPT ![r] = [@ EXCEPT !.sock = s, !.sent = FALSE,
                                                     !.aborted = FALSE, !.res = "none"]],
              sock |-> [w.sock EXCEPT ![s] = x],
              pool |-> [active |-> A, free |-> F, queue |-> w.pool.queue, total |-> w.pool.total]]
    BY <1>1, <1>2, <2>5, <2>6, <2>8, <2>10, <2>11, <2>15, ZenonT(120) DEF Reset
  <2>17. Good(v, g) /\ Waiting(v, r) /\ DOMAIN v.sock = DOMAIN w.sock
    <3>1. PICK P : P = [active |-> A, free |-> F, queue |-> w.pool.queue, total |-> w.pool.total]
      OBVIOUS
    <3>2. P \in Pool /\ P.active = A /\ P.free = F /\ P.queue = w.pool.queue
      BY <1>2, <2>12, <2>13, <3>1 DEF Pool
    <3>3. PICK S : S = [w.sock EXCEPT ![s] = x]
      OBVIOUS
    <3>4. S[s] = x
      BY <2>5, <3>3
    <3>5. PICK R : R = [w.req EXCEPT ![r] = Asked(w.req[r], s)]
      OBVIOUS
    <3>6. v = [req |-> R, sock |-> S, pool |-> P]
      BY <2>16, <3>1, <3>3, <3>5 DEF Asked
    <3>7. v.req = R /\ v.sock = S /\ v.pool = P
      BY <3>6
    <3>8. \A n \in Names : /\ Part(v.pool.free[n], w.pool.free[n]) /\ s \notin ToSet(v.pool.free[n])
                           /\ IsInjective(v.pool.active[n])
                           /\ ToSet(v.pool.active[n]) \subseteq ToSet(w.pool.active[n]) \cup {s}
                           /\ Part(v.pool.queue[n], w.pool.queue[n])
      BY <2>14, <3>2, <3>7
    <3>9. Hands(w, v, r, s)
      <4>1. v.sock = [w.sock EXCEPT ![s] = v.sock[s]] /\ v.sock[s] = x
        BY <3>3, <3>4, <3>7
      <4>2. v = [req |-> v.req, sock |-> v.sock, pool |-> v.pool] /\ v.pool \in Pool
        BY <3>2, <3>6, <3>7
      <4>3. r \notin ToSet(v.pool.queue["host"])
        BY <1>1, <3>2, <3>7
      <4> QED
        BY <1>1, <2>5, <2>7, <3>5, <3>7, <3>8, <4>1, <4>2, <4>3 DEF Hands
    <3> QED
      BY <1>1, <3>9, TakeGood
  <2>18. AddRequest(w, r) = FlushReady(v, r)
    <3>1. AddRequest(w, r) = Reuse(w, r, s, rest)
      BY <1>3, <1>5, <1>6, <1>7, <1>8, <1>11, Zenon DEF AddRequest
    <3> QED
      BY <2>15, <3>1 DEF Reuse
  <2> QED
    BY <1>1, <2>17, <2>18, FlushGood DEF FlushReady, Grows
<1>12. CASE alive = {}
  <2>1. PICK F : F = IF KeepAlive THEN [w.pool.free EXCEPT !["host"] = <<>>] ELSE w.pool.free
    OBVIOUS
  <2>2. F \in [Names -> Seq(Nat)] /\ \A n \in Names : Part(F[n], w.pool.free[n])
    BY <1>2, <1>10, <2>1, NothingIs DEF Part
  <2>3. none = [req |-> w.req, sock |-> w.sock,
                pool |-> [active |-> w.pool.active, free |-> F, queue |-> w.pool.queue, total |-> w.pool.total]]
    <3>1. CASE KeepAlive
      BY <1>2, <1>9, <2>1, <3>1
    <3>2. CASE ~KeepAlive
      <4>1. none = w
        BY <1>2, <1>9, <3>2
      <4> QED
        BY <1>2, <2>1, <3>2, <4>1
    <3> QED
      BY <3>1, <3>2
  <2>4. \A n \in Names : /\ Part(w.pool.active[n], w.pool.active[n])
                         /\ Part(w.pool.queue[n], w.pool.queue[n])
    BY <1>10 DEF Part
  <2>5. Good(none, g) /\ Spares(w, none) /\ none.sock = w.sock
    <3>1. PICK A \in [Names -> Seq(Nat)], G \in [Names -> Seq(Nat)],
               Q \in [Names -> Seq(Requests)], t \in Int :
            A = w.pool.active /\ G = F /\ Q = w.pool.queue /\ t = w.pool.total
      BY <1>2, <2>2
    <3>2. none = [req |-> w.req, sock |-> w.sock,
                  pool |-> [active |-> A, free |-> G, queue |-> Q, total |-> t]]
      BY <2>3, <3>1
    <3>3. \A n \in Names : /\ Part(A[n], w.pool.active[n]) /\ Part(G[n], w.pool.free[n])
                           /\ Part(Q[n], w.pool.queue[n])
      BY <2>2, <2>4, <3>1
    <3>4. PICK R \in [Requests -> AReq], S \in Seq(ASock) : R = w.req /\ S = w.sock
      BY <1>2
    <3>5. none = [req |-> R, sock |-> S,
                  pool |-> [active |-> A, free |-> G, queue |-> Q, total |-> t]]
      BY <3>2, <3>4
    <3>6. none \in Worlds
      BY <3>5, WorldOf
    <3>7. /\ none.req = R /\ none.sock = S /\ none.pool.active = A /\ none.pool.free = G
          /\ none.pool.queue = Q
      BY <3>5
    <3> QED
      BY <3>3, <3>4, <3>6, <3>7, PoolLess
  <2>6. Asks(none, r)
    BY <1>1, <2>5 DEF Asks, Spares, Bare
  <2>7. \/ AddRequest(w, r) = Enqueue(none, r)
        \/ AddRequest(w, r) = CreateSocket(none, r)
    BY <1>3, <1>5, <1>9, <1>12, Zenon DEF AddRequest
  <2> QED
    BY <2>5, <2>6, <2>7, EnqueueGood, CreateSocketGood DEF Grows
<1> QED
  BY <1>11, <1>12

LEMMA TryFlushGood ==
    ASSUME NEW w, NEW g, Good(w, g), NEW r \in Requests
    PROVE  Good(TryFlush(w, r), g) /\ Grows(w, TryFlush(w, r))
<1>1. w \in Worlds
  BY DEF Good
<1>2. PICK s : s = w.req[r].sock
  OBVIOUS
<1>3. CASE ~Ready(w.req[r]) \/ w.sock[s].st = "connecting"
  <2>1. TryFlush(w, r) = w
    BY <1>2, <1>3 DEF TryFlush
  <2> QED
    BY <2>1 DEF Grows
<1>4. CASE Ready(w.req[r]) /\ w.sock[s].st # "connecting"
  <2>1. Waiting(w, r)
    BY <1>4 DEF Ready, Waiting
  <2>2. CASE w.sock[s].st \notin {"ended", "dead"}
    <3>1. TryFlush(w, r) = Flush(w, r)
      BY <1>2, <1>4, <2>2 DEF TryFlush
    <3> QED
      BY <2>1, <3>1, FlushGood DEF Grows
  <2>3. CASE w.sock[s].st \in {"ended", "dead"}
    <3>1. PICK x \in AReq : x = [w.req[r] EXCEPT !.sock = 0]
      <4>1. w.req[r] \in AReq
        BY <1>1, WorldIs
      <4> QED
        BY <4>1 DEF AReq
    <3>2. x.sock = 0 /\ x.sent = w.req[r].sent /\ x.st = w.req[r].st
      <4>1. w.req[r] \in AReq
        BY <1>1, WorldIs
      <4> QED
        BY <3>1, <4>1 DEF AReq
    <3>3. ~w.req[r].sent /\ w.req[r].sock # 0 /\ ~Bare(w, r)
      BY <2>1 DEF Waiting, Bare
    <3>4. w.req[r].st # "new" /\ r \notin ToSet(w.pool.queue["host"])
      BY <3>3 DEF Good, Queues
    <3>5. PICK v : v = [w EXCEPT !.req[r].sock = 0]
      OBVIOUS
    <3>6. v = [req |-> [w.req EXCEPT ![r] = x], sock |-> w.sock, pool |-> w.pool]
      <4>1. w = [req |-> w.req, sock |-> w.sock, pool |-> w.pool]
        BY <1>1, RecordIs
      <4> QED
        BY <3>1, <3>5, <4>1
    <3>7. /\ v \in Worlds /\ v.sock = w.sock /\ v.pool = w.pool
          /\ v.req[r] = x /\ \A q \in Requests \ {r} : v.req[q] = w.req[q]
      <4>1. w.req \in [Requests -> AReq] /\ w.sock \in Seq(ASock) /\ w.pool \in Pool
        BY <1>1 DEF Worlds
      <4>2. PICK R \in [Requests -> AReq] : R = [w.req EXCEPT ![r] = x]
        BY <4>1
      <4>3. R[r] = x /\ \A q \in Requests \ {r} : R[q] = w.req[q]
        BY <4>1, <4>2
      <4>4. v = [req |-> R, sock |-> w.sock, pool |-> w.pool]
        BY <3>6, <4>2
      <4> QED
        BY <4>1, <4>3, <4>4 DEF Worlds
    <3>8. \A i \in DOMAIN w.sock : w.sock[i].reader # r
      BY <3>3, ClientAssumption DEF Good, Reads
    <3>9. r # g
      <4>1. CASE g = 0
        BY <4>1, ClientAssumption
      <4>2. CASE g # 0
        <5>1. w.req[g].sock # 0 /\ w.sock[w.req[g].sock].reader = g /\ g \in Requests
          BY <4>2 DEF Good, Gives
        <5>2. w.req[g].sock \in DOMAIN w.sock
          <6>1. w.req[g].sock \in Nat /\ w.req[g].sock <= Len(w.sock)
            BY <1>1, <5>1, WorldIs DEF AReq, Good, Waits
          <6> QED
            BY <1>1, <5>1, <6>1, WorldIs
        <5> QED
          BY <3>8, <5>1, <5>2
      <4> QED
        BY <4>1, <4>2
    <3>10. Cleared(w, v, r)
      BY <3>2, <3>3, <3>4, <3>7, <3>8 DEF Cleared, Bare
    <3>11. Good(v, g)
      BY <3>7, <3>9, <3>10, ClearedGood
    <3>12. PICK u : u = RemoveSocket(v, s)
      OBVIOUS
    <3>13. Good(u, g) /\ Spares(v, u)
      BY <3>11, <3>12, RemoveSocketGood
    <3>14. Asks(u, r)
      BY <3>2, <3>3, <3>4, <3>7, <3>13 DEF Asks, Spares, Bare
    <3>15. TryFlush(w, r) = AddRequest(u, r)
      BY <1>2, <1>4, <2>3, <3>5, <3>12 DEF TryFlush
    <3> QED
      BY <3>7, <3>13, <3>14, <3>15, AddRequestGood DEF Grows, Spares
  <2> QED
    BY <2>2, <2>3
<1> QED
  BY <1>3, <1>4

LEMMA KeepSocketAliveGood ==
    ASSUME NEW w, NEW g, Good(w, g), NEW s, Spare(w, s)
    PROVE  Good(KeepSocketAlive(w, s), g) /\ Grows(w, KeepSocketAlive(w, s))
<1>1. w \in Worlds
  BY DEF Good
<1>2. /\ w.pool.queue \in [Names -> Seq(Requests)]
      /\ w.pool.active \in [Names -> Seq(Nat)] /\ w.pool.free \in [Names -> Seq(Nat)]
      /\ w.pool.total \in Int /\ w.req \in [Requests -> AReq] /\ w.sock \in Seq(ASock)
      /\ w = [req |-> w.req, sock |-> w.sock, pool |-> w.pool]
      /\ w.pool = [active |-> w.pool.active, free |-> w.pool.free,
                   queue |-> w.pool.queue, total |-> w.pool.total]
      /\ DOMAIN w.sock = 1 .. Len(w.sock)
  BY <1>1, WorldIs
<1>3. KeptUnder \in Names
  BY ClientAssumption DEF Names
<1>4. \A n \in Names : /\ IsInjective(w.pool.active[n]) /\ IsInjective(w.pool.free[n])
                       /\ IsInjective(w.pool.queue[n])
  BY NamesAre, NothingIs DEF Good, Frees, Queues
<1>5. PICK A : A = [w.pool.active EXCEPT ![KeptUnder] = Without(@, s)]
  OBVIOUS
<1>6. /\ A \in [Names -> Seq(Nat)] /\ s \notin ToSet(A[KeptUnder])
      /\ \A n \in Names : Part(A[n], w.pool.active[n])
  BY <1>2, <1>3, <1>4, <1>5, WithoutAt
<1>7. PICK off : off = [w EXCEPT !.pool.active[KeptUnder] = Without(@, s)]
  OBVIOUS
<1>8. off = [req |-> w.req, sock |-> w.sock,
             pool |-> [active |-> A, free |-> w.pool.free, queue |-> w.pool.queue, total |-> w.pool.total]]
  BY <1>2, <1>5, <1>7
<1>9. /\ Good(off, g) /\ off.req = w.req /\ off.sock = w.sock /\ Spares(w, off)
      /\ off.pool.active = A /\ off.pool.free = w.pool.free /\ off.pool.queue = w.pool.queue
      /\ off.pool.total = w.pool.total
  <2>1. \A n \in Names : /\ Part(w.pool.free[n], w.pool.free[n])
                         /\ Part(w.pool.queue[n], w.pool.queue[n])
    BY <1>4 DEF Part
  <2> QED
    <3>1. PICK B \in [Names -> Seq(Nat)], F \in [Names -> Seq(Nat)],
               Q \in [Names -> Seq(Requests)], t \in Int :
            B = A /\ F = w.pool.free /\ Q = w.pool.queue /\ t = w.pool.total
      BY <1>2, <1>6
    <3>2. off = [req |-> w.req, sock |-> w.sock,
                 pool |-> [active |-> B, free |-> F, queue |-> Q, total |-> t]]
      BY <1>8, <3>1
    <3>3. \A n \in Names : /\ Part(B[n], w.pool.active[n]) /\ Part(F[n], w.pool.free[n])
                           /\ Part(Q[n], w.pool.queue[n])
      BY <1>6, <2>1, <3>1
    <3>4. PICK R \in [Requests -> AReq], S \in Seq(ASock) : R = w.req /\ S = w.sock
      BY <1>2
    <3>5. off = [req |-> R, sock |-> S,
                 pool |-> [active |-> B, free |-> F, queue |-> Q, total |-> t]]
      BY <3>2, <3>4
    <3>6. off \in Worlds
      BY <3>5, WorldOf
    <3>7. /\ off.req = R /\ off.sock = S /\ off.pool.active = B /\ off.pool.free = F
          /\ off.pool.queue = Q /\ off.pool.total = t
      BY <3>5
    <3>8. Good(off, g) /\ Spares(w, off)
      BY <3>3, <3>4, <3>6, <3>7, PoolLess
    <3> QED
      BY <3>1, <3>4, <3>7, <3>8
<1>10. /\ s \in DOMAIN w.sock /\ w.sock[s].reader = 0 /\ s \in Nat
       /\ \A n \in Names : s \notin ToSet(w.pool.free[n])
       /\ \A q \in Requests : Waiting(w, q) => w.req[q].sock # s
  BY <1>2 DEF Spare
<1>11. w.sock[s] \in ASock
  BY <1>1, <1>10, WorldIs
<1>12. CASE Len(off.pool.free[KeptUnder]) >= MaxFree
  <2>1. KeepSocketAlive(w, s) = Kill(off, s)
    BY <1>7, <1>12 DEF KeepSocketAlive
  <2> QED
    BY <1>9, <1>10, <2>1, KillGood DEF Grows, Spares
<1>13. CASE ~(Len(off.pool.free[KeptUnder]) >= MaxFree) /\ off.pool.queue[KeptUnder] = <<>>
  <2>1. PICK v : v = [off EXCEPT !.pool.free[KeptUnder] = Append(@, s), !.sock[s].idle = TRUE]
    OBVIOUS
  <2>2. KeepSocketAlive(w, s) = v
    BY <1>7, <1>13, <2>1 DEF KeepSocketAlive
  <2>3. PICK x \in ASock : x = [w.sock[s] EXCEPT !.idle = TRUE]
    BY <1>11 DEF ASock
  <2>4. x.reader = w.sock[s].reader /\ x.unanswered = w.sock[s].unanswered
    BY <1>11, <2>3 DEF ASock
  <2>5. PICK f : f = Append(w.pool.free[KeptUnder], s)
    OBVIOUS
  <2>6. f \in Seq(Nat) /\ IsInjective(f) /\ ToSet(f) = ToSet(w.pool.free[KeptUnder]) \cup {s}
    <3>1. w.pool.free[KeptUnder] \in Seq(Nat) /\ IsInjective(w.pool.free[KeptUnder])
      BY <1>2, <1>3, <1>4
    <3> QED
      BY <1>3, <1>10, <2>5, <3>1, AppendIs
  <2>7. PICK F : F = [w.pool.free EXCEPT ![KeptUnder] = f]
    OBVIOUS
  <2>8. /\ F \in [Names -> Seq(Nat)] /\ F[KeptUnder] = f
        /\ \A n \in Names : n # KeptUnder => F[n] = w.pool.free[n]
    BY <1>2, <1>3, <2>6, <2>7
  <2>9. PICK S : S = [w.sock EXCEPT ![s] = x]
    OBVIOUS
  <2>10. /\ S \in Seq(ASock) /\ DOMAIN S = DOMAIN w.sock /\ S[s] = x
         /\ \A i \in DOMAIN w.sock : i # s => S[i] = w.sock[i]
    BY <1>2, <1>10, <2>9, ExceptSeq
  <2>11. v = [req |-> w.req, sock |-> S,
              pool |-> [active |-> A, free |-> F, queue |-> w.pool.queue, total |-> w.pool.total]]
    BY <1>8, <1>9, <1>10, <2>1, <2>3, <2>5, <2>7, <2>9
  <2>12. /\ v \in Worlds /\ v.req = w.req /\ v.sock = S /\ v.pool.active = A
         /\ v.pool.free = F /\ v.pool.queue = w.pool.queue
    <3>1. PICK R \in [Requests -> AReq], Q \in [Names -> Seq(Requests)], t \in Int :
            R = w.req /\ Q = w.pool.queue /\ t = w.pool.total
      BY <1>2
    <3>2. v = [req |-> R, sock |-> S, pool |-> [active |-> A, free |-> F, queue |-> Q, total |-> t]]
      BY <2>11, <3>1
    <3>3. A \in [Names -> Seq(Nat)] /\ F \in [Names -> Seq(Nat)] /\ S \in Seq(ASock)
      BY <1>6, <2>8, <2>10
    <3>4. v \in Worlds
      BY <3>2, <3>3, WorldOf
    <3>5. /\ v.req = R /\ v.sock = S /\ v.pool.active = A
          /\ v.pool.free = F /\ v.pool.queue = Q
      BY <3>2
    <3> QED
      BY <3>1, <3>4, <3>5
  <2>13. Listed(off, v)
    BY <1>9, <2>4, <2>10, <2>12 DEF Listed
  <2>14. Frees(v)
    <3>1. SUFFICES ASSUME NEW n \in Names
                   PROVE  /\ IsInjective(F[n]) /\ IsInjective(A[n])
                          /\ ToSet(A[n]) \subseteq DOMAIN w.sock
                          /\ \A i \in ToSet(F[n]) :
                               i \in DOMAIN w.sock /\ v.sock[i].reader = 0 /\ i \notin ToSet(A[n])
                          /\ n # KeptUnder => F[n] = <<>>
      BY <2>10, <2>12 DEF Frees
    <3>2. /\ IsInjective(A[n]) /\ ToSet(A[n]) \subseteq DOMAIN w.sock
          /\ IsInjective(w.pool.free[n])
          /\ \A i \in ToSet(w.pool.free[n]) :
               i \in DOMAIN w.sock /\ w.sock[i].reader = 0 /\ i \notin ToSet(A[n])
          /\ n # KeptUnder => w.pool.free[n] = <<>>
      BY <1>9 DEF Good, Frees
    <3>3. \A i \in DOMAIN w.sock : v.sock[i].reader = w.sock[i].reader
      BY <2>4, <2>10, <2>12
    <3>4. CASE n = KeptUnder
      BY <1>6, <1>10, <2>6, <2>8, <3>2, <3>3, <3>4
    <3>5. CASE n # KeptUnder
      BY <2>8, <3>2, <3>3, <3>5
    <3> QED
      BY <3>4, <3>5
  <2>15. Queues(v)
    BY <1>9, <2>12 DEF Good, Queues, Bare
  <2>16. ASSUME NEW r \in Requests, NEW n \in Names, Waiting(off, r)
         PROVE  off.req[r].sock \notin ToSet(v.pool.free[n])
    <3>1. Waiting(w, r) /\ off.req[r].sock = w.req[r].sock
      BY <1>9, <2>16 DEF Waiting
    <3>2. w.req[r].sock # s /\ w.req[r].sock \notin ToSet(w.pool.free[n])
      BY <1>10, <3>1 DEF Good, Waits
    <3> QED
      BY <2>6, <2>8, <2>12, <3>1, <3>2
  <2> QED
    BY <1>9, <2>2, <2>10, <2>12, <2>13, <2>14, <2>15, <2>16, ListedGood DEF Grows
<1>14. CASE ~(Len(off.pool.free[KeptUnder]) >= MaxFree) /\ off.pool.queue[KeptUnder] # <<>>
  <2>1. KeptUnder = "host"
    BY <1>3, <1>9, <1>14, NamesAre DEF Good, Queues
  <2>2. PICK q : q = w.pool.queue["host"]
    OBVIOUS
  <2>3. /\ Head(q) \in ToSet(q) /\ Head(q) \in Requests
        /\ Tail(q) \in Seq(Requests) /\ Part(Tail(q), q) /\ Head(q) \notin ToSet(Tail(q))
    <3>1. q \in Seq(Requests) /\ IsInjective(q) /\ q # <<>>
      BY <1>2, <1>4, <1>9, <1>14, <2>1, <2>2, NamesAre
    <3> QED
      BY <3>1, SomeIs
  <2>4. PICK r \in Requests : r = Head(q)
    BY <2>3
  <2>5. PICK v : v = Reset([off EXCEPT !.pool.queue["host"] = Tail(@), !.pool.active["host"] = Append(@, s),
                                       !.req[r].sock = s], r)
    BY SMTT(30)
  <2>6. KeepSocketAlive(w, s) = TryFlush(v, r)
    BY <1>7, <1>9, <1>14, <2>1, <2>2, <2>4, <2>5 DEF KeepSocketAlive
  <2>7. PICK Q : Q = [w.pool.queue EXCEPT !["host"] = Tail(q)]
    OBVIOUS
  <2>8. /\ Q \in [Names -> Seq(Requests)] /\ Q["host"] = Tail(q)
        /\ \A n \in Names : Part(Q[n], w.pool.queue[n])
    <3>1. Q \in [Names -> Seq(Requests)] /\ Q["host"] = Tail(q)
          /\ \A n \in Names : n # "host" => Q[n] = w.pool.queue[n]
      BY <1>2, <2>3, <2>7, NamesAre
    <3> QED
      BY <1>4, <2>2, <2>3, <3>1 DEF Part
  <2>9. PICK a : a = Append(A["host"], s)
    OBVIOUS
  <2>10. a \in Seq(Nat) /\ IsInjective(a) /\ ToSet(a) = ToSet(A["host"]) \cup {s}
    <3>1. A["host"] \in Seq(Nat) /\ IsInjective(A["host"]) /\ s \notin ToSet(A["host"])
      BY <1>6, <2>1, NamesAre DEF Part
    <3> QED
      BY <1>10, <2>9, <3>1, AppendIs
  <2>11. PICK B : B = [A EXCEPT !["host"] = a]
    OBVIOUS
  <2>12. /\ B \in [Names -> Seq(Nat)]
         /\ \A n \in Names : IsInjective(B[n]) /\ ToSet(B[n]) \subseteq ToSet(A[n]) \cup {s}
    <3>1. B \in [Names -> Seq(Nat)] /\ B["host"] = a /\ \A n \in Names : n # "host" => B[n] = A[n]
      BY <1>6, <2>10, <2>11, NamesAre
    <3> QED
      BY <1>6, <2>10, <3>1 DEF Part
  <2>13. v = [req |-> [w.req EXCEPT ![r] = [@ EXCEPT !.sock = s, !.sent = FALSE,
                                                     !.aborted = FALSE, !.res = "none"]],
              sock |-> w.sock,
              pool |-> [active |-> B, free |-> w.pool.free, queue |-> Q, total |-> w.pool.total]]
    <3>1. PICK R1 : R1 = [w.req EXCEPT ![r].sock = s, ![r].sent = FALSE, ![r].aborted = FALSE,
                                       ![r].res = "none"]
      OBVIOUS
    <3>2. PICK A1 : A1 = [A EXCEPT !["host"] = Append(@, s)]
      OBVIOUS
    <3>3. PICK Q1 : Q1 = [w.pool.queue EXCEPT !["host"] = Tail(@)]
      OBVIOUS
    <3>4. PICK P1 : P1 = [active |-> A1, free |-> w.pool.free, queue |-> Q1, total |-> w.pool.total]
      OBVIOUS
    <3>5. v = [req |-> R1, sock |-> w.sock, pool |-> P1]
      <4>1. PICK m : m = [off EXCEPT !.pool.queue["host"] = Tail(@), !.pool.active["host"] = Append(@, s),
                                     !.req[r].sock = s]
        OBVIOUS
      <4>2. PICK R0 : R0 = [w.req EXCEPT ![r].sock = s]
        OBVIOUS
      <4>3. m = [req |-> R0, sock |-> w.sock, pool |-> P1]
        BY <1>8, <3>2, <3>3, <3>4, <4>1, <4>2
      <4>4. v = Reset(m, r)
        BY <2>5, <4>1
      <4>5. v = [req |-> [R0 EXCEPT ![r].sent = FALSE, ![r].aborted = FALSE, ![r].res = "none"],
                 sock |-> w.sock, pool |-> P1]
        BY <4>3, <4>4 DEF Reset
      <4>6. R1 = [R0 EXCEPT ![r].sent = FALSE, ![r].aborted = FALSE, ![r].res = "none"]
        BY <3>1, <4>2
      <4> QED
        BY <4>5, <4>6
    <3>6. R1 = [w.req EXCEPT ![r] = [@ EXCEPT !.sock = s, !.sent = FALSE,
                                              !.aborted = FALSE, !.res = "none"]]
      BY <1>2, <3>1
    <3>7. A1 = B /\ Q1 = Q
      BY <2>2, <2>7, <2>9, <2>11, <3>2, <3>3
    <3> QED
      BY <3>4, <3>5, <3>6, <3>7
  <2>14. off.req[r].sock = 0 /\ off.req[r].st # "new"
    BY <1>9, <2>2, <2>3, <2>4 DEF Good, Queues, Bare
  <2>15. \A p \in Requests : Waiting(off, p) => off.req[p].sock # s
    BY <1>9, <1>10 DEF Waiting
  <2>16. \A n \in Names : Part(w.pool.free[n], off.pool.free[n])
    BY <1>4, <1>9 DEF Part
  <2>17. Good(v, g) /\ DOMAIN v.sock = DOMAIN w.sock
    <3>1. PICK P : P = [active |-> B, free |-> w.pool.free, queue |-> Q, total |-> w.pool.total]
      OBVIOUS
    <3>2. P \in Pool /\ P.active = B /\ P.free = w.pool.free /\ P.queue = Q
      BY <1>2, <2>8, <2>12, <3>1 DEF Pool
    <3>3. PICK R : R = [off.req EXCEPT ![r] = Asked(off.req[r], s)]
      OBVIOUS
    <3>4. v = [req |-> R, sock |-> w.sock, pool |-> P]
      BY <1>9, <2>13, <3>1, <3>3 DEF Asked
    <3>5. v.req = R /\ v.sock = w.sock /\ v.pool = P
      BY <3>4
    <3>6. \A n \in Names : /\ Part(v.pool.free[n], off.pool.free[n]) /\ s \notin ToSet(v.pool.free[n])
                           /\ IsInjective(v.pool.active[n])
                           /\ ToSet(v.pool.active[n]) \subseteq ToSet(off.pool.active[n]) \cup {s}
                           /\ Part(v.pool.queue[n], off.pool.queue[n])
      BY <1>9, <1>10, <2>8, <2>12, <2>16, <3>2, <3>5
    <3>7. Hands(off, v, r, s)
      <4>1. v.sock = [off.sock EXCEPT ![s] = v.sock[s]] /\ v.sock[s] \in ASock
        <5>1. w.sock = [w.sock EXCEPT ![s] = w.sock[s]]
          BY <1>2, <1>10
        <5> QED
          BY <1>9, <1>11, <3>5, <5>1
      <4>2. v = [req |-> v.req, sock |-> v.sock, pool |-> v.pool] /\ v.pool \in Pool
        BY <3>2, <3>4, <3>5
      <4>3. r \notin ToSet(v.pool.queue["host"])
        BY <2>3, <2>4, <2>8, <3>2, <3>5
      <4>4. /\ s \in DOMAIN off.sock /\ off.sock[s].reader = 0
            /\ v.sock[s].reader = 0 /\ v.sock[s].unanswered = off.sock[s].unanswered
        BY <1>9, <1>10, <3>5
      <4> QED
        BY <2>14, <2>15, <3>3, <3>5, <3>6, <4>1, <4>2, <4>3, <4>4 DEF Hands
    <3>8. Good(v, g) /\ DOMAIN v.sock = DOMAIN off.sock
      BY <1>9, <3>7, TakeGood
    <3> QED
      BY <1>9, <3>8
  <2> QED
    BY <2>6, <2>17, TryFlushGood DEF Grows
<1> QED
  BY <1>12, <1>13, <1>14

LEMMA ReleaseGood ==
    ASSUME NEW w, NEW r \in Requests, Good(w, r)
    PROVE  Good(Release(w, r), 0) /\ Grows(w, Release(w, r))
<1>1. w \in Worlds /\ r # 0
  BY ClientAssumption DEF Good
<1>2. Good(w, 0)
  BY DEF Good, Gives
<1>3. PICK s : s = w.req[r].sock
  OBVIOUS
<1>4. s \in DOMAIN w.sock
  <2>1. s \in Nat /\ s <= Len(w.sock) /\ s # 0
    BY <1>1, <1>3, WorldIs DEF AReq, Good, Waits, Gives
  <2> QED
    BY <1>1, <2>1, WorldIs
<1>5. CASE ~KeepAlive
  <2>1. Release(w, r) = w
    BY <1>5 DEF Release
  <2> QED
    BY <1>2, <2>1 DEF Grows
<1>6. CASE KeepAlive /\ w.sock[s].mode = "close"
  <2>1. Release(w, r) = Kill(w, s)
    BY <1>3, <1>6 DEF Release
  <2> QED
    BY <1>2, <1>4, <2>1, KillGood DEF Grows, Spares
<1>7. CASE KeepAlive /\ w.sock[s].mode # "close"
  <2>1. PICK off : off = [w EXCEPT !.sock[s].reader = 0]
    OBVIOUS
  <2>2. Good(off, 0) /\ Spare(off, s) /\ DOMAIN off.sock = DOMAIN w.sock
    BY <1>3, <2>1, ReleasedGood DEF Freed
  <2>3. Release(w, r) = KeepSocketAlive(off, s)
    BY <1>3, <1>7, <2>1 DEF Release
  <2> QED
    BY <2>2, <2>3, KeepSocketAliveGood DEF Grows
<1> QED
  BY <1>5, <1>6, <1>7

LEMMA ReissueGood ==
    ASSUME NEW w, Good(w, 0), NEW r \in Requests, NEW s \in DOMAIN w.sock,
           w.sock[s].reader = r, w.sock[s].unanswered = {}
    PROVE  Good(Reissue(w, r), 0)
<1>1. w \in Worlds /\ r # 0
  BY ClientAssumption DEF Good
<1>2. w.req[r].sock = s /\ w.req[r].sent /\ s # 0
  <2>1. w.req[r].sock = s /\ w.req[r].sent
    BY <1>1 DEF Good, Reads
  <2>2. DOMAIN w.sock = 1 .. Len(w.sock)
    BY <1>1, WorldIs
  <2> QED
    BY <2>1, <2>2
<1>3. w.req[r].st # "new" /\ r \notin ToSet(w.pool.queue["host"])
  BY <1>2 DEF Good, Queues, Bare
<1>4. w.req[r] \in AReq /\ w.sock[s] \in ASock
  BY <1>1, WorldIs
<1>5. PICK x \in AReq : x = [w.req[r] EXCEPT !.sent = FALSE, !.res = "none", !.hops = @ + 1, !.sock = 0]
  <2>1. PICK h \in Nat : h = w.req[r].hops + 1
    BY <1>4 DEF AReq
  <2>2. [w.req[r] EXCEPT !.sent = FALSE, !.res = "none", !.hops = h, !.sock = 0] \in AReq
    BY <1>4 DEF AReq
  <2> QED
    BY <2>1, <2>2
<1>6. x.sock = 0 /\ ~x.sent /\ x.st = w.req[r].st
  BY <1>4, <1>5 DEF AReq
<1>7. PICK y \in ASock : y = [w.sock[s] EXCEPT !.reader = 0, !.tracked = FALSE]
  BY <1>4 DEF ASock
<1>8. y.reader = 0 /\ y.unanswered = {}
  BY <1>4, <1>7 DEF ASock
<1>9. PICK off : off = [w EXCEPT !.req[r].sent = FALSE, !.req[r].res = "none", !.req[r].hops = @ + 1,
                                 !.req[r].sock = 0, !.sock[s].reader = 0, !.sock[s].tracked = FALSE]
  OBVIOUS
<1>10. PICK R \in [Requests -> AReq] : R = [w.req EXCEPT ![r] = x]
  BY <1>1, WorldIs
<1>11. R[r] = x /\ \A q \in Requests \ {r} : R[q] = w.req[q]
  BY <1>1, <1>10, WorldIs
<1>12. PICK S : S = [w.sock EXCEPT ![s] = y]
  OBVIOUS
<1>13. /\ S \in Seq(ASock) /\ DOMAIN S = DOMAIN w.sock /\ S[s] = y
       /\ \A i \in DOMAIN w.sock : i # s => S[i] = w.sock[i]
  <2>1. w.sock \in Seq(ASock) /\ DOMAIN w.sock = 1 .. Len(w.sock)
    BY <1>1, WorldIs
  <2> QED
    BY <1>12, <2>1, ExceptSeq
<1>14. off = [req |-> R, sock |-> S, pool |-> w.pool]
  <2>1. w = [req |-> w.req, sock |-> w.sock, pool |-> w.pool]
    BY <1>1, RecordIs
  <2>2. PICK R1 : R1 = [w.req EXCEPT ![r].sent = FALSE, ![r].res = "none", ![r].hops = @ + 1, ![r].sock = 0]
    OBVIOUS
  <2>3. PICK S1 : S1 = [w.sock EXCEPT ![s].reader = 0, ![s].tracked = FALSE]
    OBVIOUS
  <2>4. off = [req |-> R1, sock |-> S1, pool |-> w.pool]
    BY <1>9, <2>1, <2>2, <2>3
  <2>5. R1 = R
    <3>1. w.req \in [Requests -> AReq]
      BY <1>1, WorldIs
    <3> QED
      BY <1>5, <1>10, <2>2, <3>1
  <2>6. S1 = S
    BY <1>7, <1>12, <2>3
  <2> QED
    BY <2>4, <2>5, <2>6
<1>15. off \in Worlds /\ off.req = R /\ off.sock = S /\ off.pool = w.pool
  <2>1. w.pool \in Pool
    BY <1>1 DEF Worlds
  <2> QED
    BY <1>13, <1>14, <2>1 DEF Worlds
<1>16. \A i \in DOMAIN w.sock : w.sock[i].reader = r => i = s
  BY <1>1, <1>2 DEF Good, Reads
<1>17. Cleared(w, off, r)
  BY <1>3, <1>6, <1>8, <1>11, <1>13, <1>15, <1>16 DEF Cleared, Bare
<1>18. Good(off, 0)
  BY <1>1, <1>15, <1>17, ClearedGood
<1>19. PICK gone : gone = RemoveSocket(off, s)
  OBVIOUS
<1>20. Good(gone, 0) /\ Spares(off, gone)
  BY <1>18, <1>19, RemoveSocketGood
<1>21. s \in DOMAIN gone.sock
  BY <1>13, <1>15, <1>20 DEF Spares
<1>22. PICK dead : dead = Kill(gone, s)
  OBVIOUS
<1>23. Good(dead, 0) /\ Spares(off, dead)
  BY <1>20, <1>21, <1>22, KillGood, SparesOn
<1>24. Asks(dead, r)
  BY <1>3, <1>6, <1>11, <1>15, <1>23, SMTT(30) DEF Asks, Spares, Bare
<1>25. Reissue(w, r) = AddRequest(dead, r)
  BY <1>2, <1>9, <1>19, <1>22 DEF Reissue
<1> QED
  BY <1>23, <1>24, <1>25, AddRequestGood


-----------------------------------------------------------------------------
(* The steps                                                               *)

LEMMA Now ==
    ASSUME ClientInv
    PROVE  /\ Good(World, giving) /\ World \in Worlds
           /\ World.req = areq /\ World.sock = asock /\ World.pool = pool
           /\ leaving \in {0} \cup DOMAIN asock
BY DEF ClientInv, Good, World

LEMMA Then ==
    ASSUME NEW w, Good(w, giving'), Becomes(w), leaving' \in {0} \cup DOMAIN w.sock
    PROVE  ClientInv'
<1>1. w = [req |-> w.req, sock |-> w.sock, pool |-> w.pool]
  BY WorldIs DEF Good
<1>2. World' = w /\ asock' = w.sock
  BY <1>1 DEF World, Becomes
<1>3. Good(World', giving')
  BY <1>2
<1> QED
  BY <1>2, <1>3 DEF ClientInv

(* A response whose body was read whole, and its connection.               *)
LEMMA GivesIs ==
    ASSUME NEW v, Good(v, 0), NEW s \in DOMAIN v.sock, NEW r \in Requests,
           v.sock[s].reader = r, v.sock[s].unanswered = {}
    PROVE  Good(v, r)
<1>1. v \in Worlds /\ r # 0
  BY ClientAssumption DEF Good
<1>2. s # 0
  <2>1. DOMAIN v.sock = 1 .. Len(v.sock)
    BY <1>1, WorldIs
  <2> QED
    BY <2>1
<1>3. v.req[r].sock = s
  BY <1>1 DEF Good, Reads
<1> QED
  BY <1>1, <1>2, <1>3 DEF Good, Gives

LEMMA BothLess ==
    ASSUME NEW w, NEW g, Good(w, g), NEW v,
           NEW s \in DOMAIN w.sock, NEW x \in ASock,
           x.reader = w.sock[s].reader, x.unanswered \subseteq w.sock[s].unanswered,
           NEW r \in Requests, NEW y \in AReq,
           y.sock = w.req[r].sock, y.sent = w.req[r].sent, y.st = "new" => w.req[r].st = "new",
           v = [req |-> [w.req EXCEPT ![r] = y], sock |-> [w.sock EXCEPT ![s] = x], pool |-> w.pool]
    PROVE  Good(v, g) /\ v.sock[s] = x /\ DOMAIN v.sock = DOMAIN w.sock
<1>1. PICK u : u = [req |-> w.req, sock |-> [w.sock EXCEPT ![s] = x], pool |-> w.pool]
  OBVIOUS
<1>2. /\ Good(u, g) /\ u.req = w.req /\ u.pool = w.pool
      /\ DOMAIN u.sock = DOMAIN w.sock /\ u.sock[s] = x
  BY <1>1, SockLess
<1>3. v = [req |-> [u.req EXCEPT ![r] = y], sock |-> u.sock, pool |-> u.pool]
  BY <1>1
<1>4. Good(v, g) /\ v.sock = u.sock
  BY <1>2, <1>3, ReqLess
<1> QED
  BY <1>2, <1>4

LEMMA NewRequestGood ==
    ASSUME ClientInv, NEW r \in Requests, NewRequest(r)
    PROVE  ClientInv'
<1>1. PICK w : w = World
  OBVIOUS
<1>2. /\ Good(w, giving) /\ w \in Worlds /\ w.req = areq /\ w.sock = asock
      /\ leaving \in {0} \cup DOMAIN w.sock
  BY <1>1, Now
<1>3. w.req[r] \in AReq /\ w.req[r].st = "new"
  BY <1>2, WorldIs DEF NewRequest
<1>4. PICK e \in BOOLEAN : e = ("late" \notin Moves)
  OBVIOUS
<1>5. PICK x \in AReq : x = [w.req[r] EXCEPT !.st = "asked", !.ended = e]
  BY <1>3 DEF AReq
<1>6. x.st = "asked" /\ x.sock = w.req[r].sock /\ x.sent = w.req[r].sent
  BY <1>3, <1>5 DEF AReq
<1>7. PICK v : v = [w EXCEPT !.req[r].st = "asked", !.req[r].ended = e]
  OBVIOUS
<1>8. v = [req |-> [w.req EXCEPT ![r] = x], sock |-> w.sock, pool |-> w.pool]
  <2>1. w = [req |-> w.req, sock |-> w.sock, pool |-> w.pool]
    BY <1>2, RecordIs
  <2> QED
    BY <1>5, <1>7, <2>1
<1>9. Good(v, giving) /\ v.sock = w.sock /\ v.pool = w.pool /\ v.req[r] = x
  <2>1. Good(v, giving) /\ v.sock = w.sock /\ v.pool = w.pool
    BY <1>2, <1>3, <1>6, <1>8, ReqLess
  <2>2. w.req \in [Requests -> AReq] /\ v.req = [w.req EXCEPT ![r] = x]
    BY <1>2, <1>8, WorldIs
  <2> QED
    BY <2>1, <2>2
<1>10. Asks(v, r)
  <2>1. Bare(w, r) /\ r \notin ToSet(w.pool.queue["host"])
    BY <1>2, <1>3 DEF Good, Queues
  <2> QED
    BY <1>6, <1>9, <2>1 DEF Asks, Bare
<1>11. PICK u : u = AddRequest(v, r)
  OBVIOUS
<1>12. Good(u, giving) /\ DOMAIN w.sock \subseteq DOMAIN u.sock
  BY <1>9, <1>10, <1>11, AddRequestGood DEF Grows
<1>13. Becomes(u) /\ giving' = giving /\ leaving' = leaving
  BY <1>1, <1>4, <1>7, <1>11 DEF NewRequest, Runs
<1> QED
  BY <1>2, <1>12, <1>13, Then

LEMMA EndRequestGood ==
    ASSUME ClientInv, NEW r \in Requests, EndRequest(r)
    PROVE  ClientInv'
<1>1. PICK w : w = World
  OBVIOUS
<1>2. /\ Good(w, giving) /\ w \in Worlds /\ leaving \in {0} \cup DOMAIN w.sock
  BY <1>1, Now
<1>3. w.req[r] \in AReq
  BY <1>2, WorldIs
<1>4. PICK x \in AReq : x = [w.req[r] EXCEPT !.ended = TRUE]
  BY <1>3 DEF AReq
<1>5. x.st = w.req[r].st /\ x.sock = w.req[r].sock /\ x.sent = w.req[r].sent
  BY <1>3, <1>4 DEF AReq
<1>6. PICK v : v = [w EXCEPT !.req[r].ended = TRUE]
  OBVIOUS
<1>7. v = [req |-> [w.req EXCEPT ![r] = x], sock |-> w.sock, pool |-> w.pool]
  <2>1. w = [req |-> w.req, sock |-> w.sock, pool |-> w.pool]
    BY <1>2, RecordIs
  <2> QED
    BY <1>4, <1>6, <2>1
<1>8. Good(v, giving) /\ v.sock = w.sock
  BY <1>2, <1>5, <1>7, ReqLess
<1>9. PICK u : u = TryFlush(v, r)
  OBVIOUS
<1>10. Good(u, giving) /\ DOMAIN w.sock \subseteq DOMAIN u.sock
  BY <1>8, <1>9, TryFlushGood DEF Grows
<1>11. Becomes(u) /\ giving' = giving /\ leaving' = leaving
  BY <1>1, <1>6, <1>9 DEF EndRequest, Runs
<1> QED
  BY <1>2, <1>10, <1>11, Then

LEMMA AbortRequestGood ==
    ASSUME ClientInv, NEW r \in Requests, AbortRequest(r)
    PROVE  ClientInv'
<1>1. PICK w : w = World
  OBVIOUS
<1>2. /\ Good(w, giving) /\ w \in Worlds /\ w.req = areq
      /\ leaving \in {0} \cup DOMAIN w.sock
  BY <1>1, Now
<1>3. w.req[r] \in AReq
  BY <1>2, WorldIs
<1>4. PICK x \in AReq : x = [w.req[r] EXCEPT !.aborted = TRUE, !.st = "aborted"]
  BY <1>3 DEF AReq
<1>5. x.st = "aborted" /\ x.sock = w.req[r].sock /\ x.sent = w.req[r].sent
  BY <1>3, <1>4 DEF AReq
<1>6. PICK v : v = [w EXCEPT !.req[r].aborted = TRUE, !.req[r].st = "aborted"]
  OBVIOUS
<1>7. v = [req |-> [w.req EXCEPT ![r] = x], sock |-> w.sock, pool |-> w.pool]
  <2>1. w = [req |-> w.req, sock |-> w.sock, pool |-> w.pool]
    BY <1>2, RecordIs
  <2> QED
    BY <1>4, <1>6, <2>1
<1>8. Good(v, giving) /\ v.sock = w.sock
  BY <1>2, <1>5, <1>7, ReqLess
<1>9. PICK u : u = IF w.req[r].sock = 0 THEN v ELSE Kill(v, w.req[r].sock)
  OBVIOUS
<1>10. Becomes(u) /\ giving' = giving /\ leaving' = leaving
  BY <1>1, <1>2, <1>6, <1>9 DEF AbortRequest, Runs
<1>11. Good(u, giving) /\ DOMAIN w.sock \subseteq DOMAIN u.sock
  <2>1. CASE w.req[r].sock = 0
    BY <1>8, <1>9, <2>1
  <2>2. CASE w.req[r].sock # 0
    <3>1. w.req[r].sock \in Nat /\ w.req[r].sock <= Len(w.sock)
      BY <1>2, <1>3 DEF AReq, Good, Waits
    <3>2. w.req[r].sock \in DOMAIN v.sock
      BY <1>2, <1>8, <2>2, <3>1, WorldIs
    <3> QED
      BY <1>8, <1>9, <2>2, <3>2, KillGood DEF Spares
  <2> QED
    BY <2>1, <2>2
<1> QED
  BY <1>2, <1>10, <1>11, Then

(* The agent is destroyed: its lists are empty then.                       *)
LEMMA DestroyAgentGood ==
    ASSUME ClientInv, DestroyAgent
    PROVE  ClientInv'
<1>1. PICK w : w = World
  OBVIOUS
<1>2. /\ Good(w, giving) /\ w \in Worlds /\ w.req = areq /\ w.sock = asock
      /\ leaving \in {0} \cup DOMAIN w.sock
  BY <1>1, Now
<1>3. /\ w.req \in [Requests -> AReq] /\ w.sock \in Seq(ASock)
      /\ DOMAIN w.sock = 1 .. Len(w.sock) /\ Len(w.sock) \in Nat
      /\ \A s \in DOMAIN w.sock : w.sock[s] \in ASock
  BY <1>2, WorldIs
<1>4. PICK mine : asock' = [s \in DOMAIN w.sock |-> IF s \in mine
                             THEN [w.sock[s] EXCEPT !.st = "dead", !.idle = FALSE, !.tracked = FALSE]
                             ELSE w.sock[s]]
  BY <1>2 DEF DestroyAgent
<1>5. \A s \in DOMAIN w.sock : /\ asock'[s] \in ASock /\ asock'[s].reader = w.sock[s].reader
                               /\ asock'[s].unanswered = w.sock[s].unanswered
  <2>1. TAKE s \in DOMAIN w.sock
  <2>2. w.sock[s] \in ASock
    BY <1>3
  <2>3. CASE s \in mine
    <3>1. asock'[s] = [w.sock[s] EXCEPT !.st = "dead", !.idle = FALSE, !.tracked = FALSE]
      BY <1>4, <2>3
    <3> QED
      BY <2>2, <3>1 DEF ASock
  <2>4. CASE s \notin mine
    <3>1. asock'[s] = w.sock[s]
      BY <1>4, <2>4
    <3> QED
      BY <2>2, <3>1
  <2> QED
    BY <2>3, <2>4
<1>6. DOMAIN asock' = DOMAIN w.sock /\ asock' \in Seq(ASock)
  <2>1. DOMAIN asock' = 1 .. Len(w.sock) /\ asock' = [s \in 1 .. Len(w.sock) |-> asock'[s]]
    BY <1>3, <1>4
  <2>2. asock' \in [1 .. Len(w.sock) -> ASock]
    BY <1>3, <1>5, <2>1
  <2> QED
    BY <1>3, <2>1, <2>2, SeqDef, SMTT(30)
<1>7. PICK closed, waiting :
        areq' = [r \in Requests |->
                   IF r \in closed /\ w.req[r].res = "head" THEN [w.req[r] EXCEPT !.res = "done"]
                   ELSE IF r \in waiting THEN [w.req[r] EXCEPT !.st = "dropped"]
                   ELSE w.req[r]]
  <2>1. PICK M : M = UNION {ToSet(pool.active[n]) \cup ToSet(pool.free[n]) : n \in Names}
    OBVIOUS
  <2>2. PICK closed : closed = {asock[s].reader : s \in {s \in M : asock[s].st # "dead"}}
    OBVIOUS
  <2>3. PICK waiting : waiting = {r \in Requests : /\ areq[r].st = "asked" /\ ~areq[r].sent
                                                  /\ areq[r].sock \in M \cup {0}}
    OBVIOUS
  <2>4. areq' = [r \in Requests |->
                   IF r \in closed /\ areq[r].res = "head" THEN [areq[r] EXCEPT !.res = "done"]
                   ELSE IF r \in waiting THEN [areq[r] EXCEPT !.st = "dropped"]
                   ELSE areq[r]]
    BY <2>1, <2>2, <2>3 DEF DestroyAgent
  <2> QED
    BY <1>2, <2>4
<1>8. \A r \in Requests : /\ areq'[r] \in AReq
                          /\ areq'[r].sock = w.req[r].sock /\ areq'[r].sent = w.req[r].sent
                          /\ areq'[r].st = "new" => w.req[r].st = "new"
  <2>1. TAKE r \in Requests
  <2>2. w.req[r] \in AReq
    BY <1>3
  <2>3. \/ areq'[r] = [w.req[r] EXCEPT !.res = "done"]
        \/ areq'[r] = [w.req[r] EXCEPT !.st = "dropped"]
        \/ areq'[r] = w.req[r]
    BY <1>7
  <2>4. CASE areq'[r] = [w.req[r] EXCEPT !.res = "done"]
    BY <2>2, <2>4 DEF AReq
  <2>5. CASE areq'[r] = [w.req[r] EXCEPT !.st = "dropped"]
    BY <2>2, <2>5 DEF AReq
  <2>6. CASE areq'[r] = w.req[r]
    BY <2>2, <2>6
  <2> QED
    BY <2>3, <2>4, <2>5, <2>6
<1>9. areq' \in [Requests -> AReq]
  BY <1>7, <1>8
<1>10. PICK A \in [Names -> Seq(Nat)] : A = [n \in Names |-> <<>>]
  BY NothingIs
<1>11. PICK Q \in [Names -> Seq(Requests)] : Q = [n \in Names |-> <<>>]
  BY NothingIs
<1>12. pool' = [active |-> A, free |-> A, queue |-> Q, total |-> 0]
  BY <1>10, <1>11 DEF DestroyAgent
<1>13. PICK v : v = [req |-> areq', sock |-> asock',
                     pool |-> [active |-> A, free |-> A, queue |-> Q, total |-> 0]]
  OBVIOUS
<1>14. /\ v \in Worlds /\ v.req = areq' /\ v.sock = asock' /\ v.pool = pool'
       /\ v.pool.active = A /\ v.pool.free = A /\ v.pool.queue = Q
  <2>1. PICK R \in [Requests -> AReq] : R = areq'
    BY <1>9
  <2>2. PICK S \in Seq(ASock) : S = asock'
    BY <1>6
  <2>3. v = [req |-> R, sock |-> S, pool |-> [active |-> A, free |-> A, queue |-> Q, total |-> 0]]
    BY <1>13, <2>1, <2>2
  <2>4. v \in Worlds
    <3>1. PICK t \in Int : t = 0
      OBVIOUS
    <3>2. [req |-> R, sock |-> S, pool |-> [active |-> A, free |-> A, queue |-> Q, total |-> t]] \in Worlds
      BY WorldOf
    <3> QED
      BY <2>3, <3>1, <3>2
  <2>5. /\ v.req = R /\ v.sock = S
        /\ v.pool.active = A /\ v.pool.free = A /\ v.pool.queue = Q
    BY <2>3
  <2>6. v.pool = pool'
    BY <1>12, <1>13
  <2> QED
    BY <2>1, <2>2, <2>4, <2>5, <2>6
<1>15. Lesser(w, v)
  <2>1. \A n \in Names : /\ Part(A[n], w.pool.active[n]) /\ Part(A[n], w.pool.free[n])
                         /\ Part(Q[n], w.pool.queue[n])
    BY <1>10, <1>11, NothingIs DEF Part
  <2> QED
    BY <1>5, <1>6, <1>8, <1>14, <2>1 DEF Lesser
<1>16. Good(v, giving)
  BY <1>2, <1>14, <1>15, LesserGood
<1>17. Becomes(v) /\ giving' = giving /\ leaving' = leaving
  BY <1>14 DEF DestroyAgent, Runs, Becomes
<1> QED
  BY <1>2, <1>6, <1>14, <1>16, <1>17, Then

LEMMA ConnectedGood ==
    ASSUME ClientInv, NEW s \in DOMAIN asock, Connected(s)
    PROVE  ClientInv'
<1>1. PICK w : w = World
  OBVIOUS
<1>2. /\ Good(w, giving) /\ w \in Worlds /\ w.sock = asock
  BY <1>1, Now
<1>3. w.sock[s] \in ASock
  BY <1>2, WorldIs
<1>4. PICK x \in ASock : x = [w.sock[s] EXCEPT !.st = "open"]
  BY <1>3 DEF ASock
<1>5. x.reader = w.sock[s].reader /\ x.unanswered = w.sock[s].unanswered
  BY <1>3, <1>4 DEF ASock
<1>6. PICK v : v = [w EXCEPT !.sock[s].st = "open"]
  OBVIOUS
<1>7. v = [req |-> w.req, sock |-> [w.sock EXCEPT ![s] = x], pool |-> w.pool]
  <2>1. w = [req |-> w.req, sock |-> w.sock, pool |-> w.pool]
    BY <1>2, RecordIs
  <2> QED
    BY <1>4, <1>6, <2>1
<1>8. Good(v, giving)
  BY <1>2, <1>5, <1>7, SockLess
<1>9. PICK r \in Requests : r = asock[s].owner
  BY <1>2, <1>3 DEF ASock
<1>10. PICK u : u = TryFlush(v, r)
  OBVIOUS
<1>11. Good(u, giving)
  BY <1>8, <1>10, TryFlushGood
<1>12. Becomes(u) /\ giving' = giving /\ leaving' = 0
  BY <1>1, <1>6, <1>9, <1>10 DEF Connected, Runs, Net
<1> QED
  BY <1>11, <1>12, Then

LEMMA ConnectFailsGood ==
    ASSUME ClientInv, NEW s \in DOMAIN asock, ConnectFails(s)
    PROVE  ClientInv'
<1>1. PICK w : w = World
  OBVIOUS
<1>2. /\ Good(w, giving) /\ w \in Worlds /\ w.sock = asock
  BY <1>1, Now
<1>3. PICK r \in Requests : r = asock[s].owner
  <2>1. w.sock[s] \in ASock
    BY <1>2, WorldIs
  <2> QED
    BY <1>2, <2>1 DEF ASock
<1>4. w.req[r] \in AReq
  BY <1>2, WorldIs
<1>5. PICK x \in AReq : x = [w.req[r] EXCEPT !.st = IF @ = "asked" THEN "failed" ELSE @]
  BY <1>4 DEF AReq
<1>6. /\ x.sock = w.req[r].sock /\ x.sent = w.req[r].sent
      /\ x.st = "new" => w.req[r].st = "new"
  BY <1>4, <1>5 DEF AReq
<1>7. PICK v : v = [w EXCEPT !.req[r].st = IF @ = "asked" THEN "failed" ELSE @]
  OBVIOUS
<1>8. v = [req |-> [w.req EXCEPT ![r] = x], sock |-> w.sock, pool |-> w.pool]
  <2>1. w = [req |-> w.req, sock |-> w.sock, pool |-> w.pool]
    BY <1>2, RecordIs
  <2> QED
    BY <1>5, <1>7, <2>1
<1>9. Good(v, giving) /\ v.sock = w.sock
  BY <1>2, <1>6, <1>8, ReqLess
<1>10. PICK u : u = Kill(v, s)
  OBVIOUS
<1>11. Good(u, giving)
  BY <1>2, <1>9, <1>10, KillGood
<1>12. Becomes(u) /\ giving' = giving /\ leaving' = 0
  BY <1>1, <1>3, <1>7, <1>10 DEF ConnectFails, Runs, Net
<1> QED
  BY <1>11, <1>12, Then

LEMMA HeadGood ==
    ASSUME ClientInv, NEW s \in DOMAIN asock,
           NEW mode \in {"length", "close", "toEnd", "redirect"}, Head_(s, mode)
    PROVE  ClientInv'
<1>1. PICK w : w = World
  OBVIOUS
<1>2. /\ Good(w, giving) /\ w \in Worlds /\ w.sock = asock /\ w.req = areq
  BY <1>1, Now
<1>3. w.sock[s] \in ASock
  BY <1>2, WorldIs
<1>4. PICK r \in Requests : r = asock[s].reader
  BY <1>2, <1>3 DEF ASock, Head_
<1>5. w.req[r] \in AReq
  BY <1>2, WorldIs
<1>6. PICK x \in ASock : x = [w.sock[s] EXCEPT !.mode = mode]
  BY <1>3 DEF ASock
<1>7. x.reader = w.sock[s].reader /\ x.unanswered = w.sock[s].unanswered
  BY <1>3, <1>6 DEF ASock
<1>8. PICK y \in AReq : y = [w.req[r] EXCEPT !.res = "head"]
  BY <1>5 DEF AReq
<1>9. y.sock = w.req[r].sock /\ y.sent = w.req[r].sent /\ y.st = w.req[r].st
  BY <1>5, <1>8 DEF AReq
<1>10. PICK v : v = [w EXCEPT !.sock[s].mode = mode, !.req[r].res = "head"]
  OBVIOUS
<1>11. v = [req |-> [w.req EXCEPT ![r] = y], sock |-> [w.sock EXCEPT ![s] = x], pool |-> w.pool]
  <2>1. w = [req |-> w.req, sock |-> w.sock, pool |-> w.pool]
    BY <1>2, RecordIs
  <2> QED
    BY <1>6, <1>8, <1>10, <2>1
<1>12. Good(v, giving)
  BY <1>2, <1>7, <1>9, <1>11, BothLess
<1>13. Becomes(v) /\ giving' = giving /\ leaving' = 0
  BY <1>1, <1>4, <1>10 DEF Head_, Runs, Net
<1> QED
  BY <1>12, <1>13, Then

LEMMA BodyGood ==
    ASSUME ClientInv, NEW s \in DOMAIN asock, Body_(s)
    PROVE  ClientInv'
<1>1. PICK w : w = World
  OBVIOUS
<1>2. /\ Good(w, 0) /\ w \in Worlds /\ w.sock = asock /\ w.req = areq
      /\ giving = 0 /\ leaving = 0
  BY <1>1, Now DEF Body_, Net
<1>3. w.sock[s] \in ASock
  BY <1>2, WorldIs
<1>4. PICK r \in Requests : r = asock[s].reader
  BY <1>2, <1>3 DEF ASock, Body_
<1>5. w.req[r] \in AReq
  BY <1>2, WorldIs
<1>6. PICK x \in ASock : x = [w.sock[s] EXCEPT !.unanswered = @ \ {r}]
  BY <1>3 DEF ASock
<1>7. x.reader = r /\ x.reader = w.sock[s].reader /\ x.unanswered = {}
  <2>1. x.reader = w.sock[s].reader /\ x.unanswered = w.sock[s].unanswered \ {r}
    BY <1>3, <1>6 DEF ASock
  <2>2. w.sock[s].unanswered \subseteq {r}
    BY <1>2, <1>4 DEF Good, Reads
  <2> QED
    BY <1>2, <1>4, <2>1, <2>2
<1>8. PICK read : read = [w EXCEPT !.sock[s].unanswered = @ \ {r}]
  OBVIOUS
<1>9. read = [req |-> w.req, sock |-> [w.sock EXCEPT ![s] = x], pool |-> w.pool]
  <2>1. w = [req |-> w.req, sock |-> w.sock, pool |-> w.pool]
    BY <1>2, RecordIs
  <2> QED
    BY <1>6, <1>8, <2>1
<1>10. CASE asock[s].mode = "redirect"
  <2>1. Good(read, 0) /\ DOMAIN read.sock = DOMAIN w.sock /\ read.sock[s] = x
    BY <1>2, <1>7, <1>9, SockLess
  <2>2. PICK u : u = Reissue(read, r)
    OBVIOUS
  <2>3. Good(u, 0)
    BY <1>2, <1>7, <2>1, <2>2, ReissueGood
  <2>4. Becomes(u) /\ giving' = 0 /\ leaving' = 0
    BY <1>1, <1>2, <1>4, <1>8, <1>10, <2>2 DEF Body_, Runs
  <2> QED
    BY <2>3, <2>4, Then
<1>11. CASE asock[s].mode # "redirect"
  <2>1. PICK y \in AReq : y = [w.req[r] EXCEPT !.res = "done"]
    BY <1>5 DEF AReq
  <2>2. y.sock = w.req[r].sock /\ y.sent = w.req[r].sent /\ y.st = w.req[r].st
    BY <1>5, <2>1 DEF AReq
  <2>3. PICK v : v = [read EXCEPT !.req[r].res = "done"]
    OBVIOUS
  <2>4. v = [req |-> [w.req EXCEPT ![r] = y], sock |-> [w.sock EXCEPT ![s] = x], pool |-> w.pool]
    BY <1>9, <2>1, <2>3
  <2>5. Good(v, 0) /\ v.sock[s] = x /\ DOMAIN v.sock = DOMAIN w.sock
    <3>1. /\ x.reader = w.sock[s].reader /\ x.unanswered \subseteq w.sock[s].unanswered
          /\ s \in DOMAIN w.sock
      BY <1>2, <1>7
    <3> QED
      BY <1>2, <2>2, <2>4, <3>1, BothLess
  <2>6. Good(v, r)
    BY <1>2, <1>7, <2>5, GivesIs
  <2>7. Becomes(v) /\ giving' = r /\ leaving' = 0
    BY <1>1, <1>2, <1>4, <1>8, <1>11, <2>3 DEF Body_
  <2> QED
    BY <2>6, <2>7, Then
<1> QED
  BY <1>10, <1>11

LEMMA GivesBackGood ==
    ASSUME ClientInv, GivesBack
    PROVE  ClientInv'
<1>1. PICK w : w = World
  OBVIOUS
<1>2. Good(w, giving) /\ leaving \in {0} \cup DOMAIN w.sock
  BY <1>1, Now
<1>3. PICK g \in Requests : g = giving
  BY <1>2 DEF GivesBack, Good, Gives
<1>4. PICK u : u = Release(w, g)
  OBVIOUS
<1>5. Good(u, 0) /\ DOMAIN w.sock \subseteq DOMAIN u.sock
  BY <1>2, <1>3, <1>4, ReleaseGood DEF Grows
<1>6. Becomes(u) /\ giving' = 0 /\ leaving' = leaving
  BY <1>1, <1>3, <1>4 DEF GivesBack
<1> QED
  BY <1>2, <1>5, <1>6, Then

LEMMA PeerEndsGood ==
    ASSUME ClientInv, NEW s \in DOMAIN asock, PeerEnds(s)
    PROVE  ClientInv'
<1>1. PICK w : w = World
  OBVIOUS
<1>2. /\ Good(w, 0) /\ w \in Worlds /\ w.sock = asock /\ w.req = areq /\ giving = 0
  BY <1>1, Now DEF PeerEnds, Net
<1>3. w.sock[s] \in ASock
  BY <1>2, WorldIs
<1>4. PICK ends : ends = [w EXCEPT !.sock[s].st = "ended"]
  OBVIOUS
<1>5. PICK z \in ASock : z = [w.sock[s] EXCEPT !.st = "ended"]
  BY <1>3 DEF ASock
<1>6. z.reader = w.sock[s].reader /\ z.unanswered = w.sock[s].unanswered
  BY <1>3, <1>5 DEF ASock
<1>7. ends = [req |-> w.req, sock |-> [w.sock EXCEPT ![s] = z], pool |-> w.pool]
  <2>1. w = [req |-> w.req, sock |-> w.sock, pool |-> w.pool]
    BY <1>2, RecordIs
  <2> QED
    BY <1>4, <1>5, <2>1
<1>8. /\ Good(ends, 0) /\ ends.req = w.req /\ ends.pool = w.pool
      /\ DOMAIN ends.sock = DOMAIN w.sock /\ ends.sock[s] = z
  BY <1>2, <1>6, <1>7, SockLess
<1>9. CASE asock[s].reader # 0 /\ areq[asock[s].reader].res = "head"
  <2>1. PICK r \in Requests : r = asock[s].reader
    BY <1>2, <1>3, <1>9 DEF ASock
  <2>2. ends \in Worlds /\ ends.req[r] \in AReq
    BY <1>8, WorldIs DEF Good
  <2>3. PICK x \in ASock : x = [z EXCEPT !.unanswered = @ \ {r}]
    BY DEF ASock
  <2>4. x.reader = r /\ x.reader = z.reader /\ x.unanswered = {}
    <3>1. x.reader = z.reader /\ x.unanswered = z.unanswered \ {r}
      BY <2>3 DEF ASock
    <3>2. z.unanswered \subseteq {r}
      BY <1>2, <1>6, <2>1 DEF Good, Reads
    <3> QED
      BY <1>2, <1>6, <2>1, <3>1, <3>2
  <2>5. PICK y \in AReq : y = [ends.req[r] EXCEPT !.res = "done"]
    BY <2>2 DEF AReq
  <2>6. y.sock = ends.req[r].sock /\ y.sent = ends.req[r].sent /\ y.st = ends.req[r].st
    BY <2>2, <2>5 DEF AReq
  <2>7. PICK v : v = [ends EXCEPT !.req[r].res = "done", !.sock[s].unanswered = @ \ {r}]
    OBVIOUS
  <2>8. v = [req |-> [ends.req EXCEPT ![r] = y], sock |-> [ends.sock EXCEPT ![s] = x], pool |-> ends.pool]
    <3>1. ends = [req |-> ends.req, sock |-> ends.sock, pool |-> ends.pool]
      BY <2>2, RecordIs
    <3> QED
      BY <1>8, <2>3, <2>5, <2>7, <3>1
  <2>9. Good(v, 0) /\ v.sock[s] = x /\ DOMAIN v.sock = DOMAIN ends.sock
    <3>1. /\ x.reader = ends.sock[s].reader /\ x.unanswered \subseteq ends.sock[s].unanswered
          /\ s \in DOMAIN ends.sock
      BY <1>2, <1>8, <2>4
    <3> QED
      BY <1>8, <2>6, <2>8, <3>1, BothLess, SMTT(30)
  <2>10. Good(v, r)
    BY <1>2, <1>8, <2>4, <2>9, GivesIs
  <2>11. Becomes(v) /\ giving' = r /\ leaving' = s
    BY <1>1, <1>4, <1>9, <2>1, <2>7 DEF PeerEnds
  <2> QED
    BY <1>2, <1>8, <2>9, <2>10, <2>11, Then
<1>10. CASE ~(asock[s].reader # 0 /\ areq[asock[s].reader].res = "head")
  <2>1. Becomes(ends) /\ giving' = 0 /\ leaving' = s
    BY <1>1, <1>2, <1>4, <1>10 DEF PeerEnds
  <2> QED
    BY <1>2, <1>8, <2>1, Then
<1> QED
  BY <1>9, <1>10

LEMMA KilledGood ==
    ASSUME ClientInv, NEW s \in DOMAIN asock, Becomes(Kill(World, s)), giving' = giving, leaving' = 0
    PROVE  ClientInv'
<1>1. PICK w : w = World
  OBVIOUS
<1>2. Good(w, giving) /\ w.sock = asock
  BY <1>1, Now
<1>3. PICK u : u = Kill(w, s)
  OBVIOUS
<1>4. Good(u, giving)
  BY <1>2, <1>3, KillGood
<1>5. Becomes(u)
  BY <1>1, <1>3
<1> QED
  BY <1>4, <1>5, Then

-----------------------------------------------------------------------------
(* Every state                                                             *)

LEMMA InitGood == ClientInit => ClientInv
<1>1. SUFFICES ASSUME ClientInit PROVE ClientInv
  OBVIOUS
<1>2. PICK R \in [Requests -> AReq] :
        R = [r \in Requests |-> [st |-> "new", sock |-> 0, ended |-> FALSE, aborted |-> FALSE,
                                 sent |-> FALSE, res |-> "none", hops |-> 0]]
  BY DEF AReq
<1>3. PICK A \in [Names -> Seq(Nat)] : A = [n \in Names |-> <<>>]
  BY NothingIs
<1>4. PICK Q \in [Names -> Seq(Requests)] : Q = [n \in Names |-> <<>>]
  BY NothingIs
<1>5. PICK S \in Seq(ASock) : S = <<>> /\ DOMAIN S = {} /\ Len(S) = 0
  <2>1. DOMAIN <<>> = {} /\ Len(<<>>) = 0
    OBVIOUS
  <2> QED
    BY <2>1, NothingIs
<1>6. PICK w : w = World
  OBVIOUS
<1>7. w = [req |-> R, sock |-> S, pool |-> [active |-> A, free |-> A, queue |-> Q, total |-> 0]]
  BY <1>1, <1>2, <1>3, <1>4, <1>5, <1>6 DEF ClientInit, World
<1>8. /\ w \in Worlds /\ w.req = R /\ w.sock = S
      /\ w.pool.active = A /\ w.pool.free = A /\ w.pool.queue = Q
  <2>1. PICK t \in Int : t = 0
    OBVIOUS
  <2>2. w = [req |-> R, sock |-> S, pool |-> [active |-> A, free |-> A, queue |-> Q, total |-> t]]
    BY <1>7, <2>1
  <2> QED
    BY <2>2, WorldOf
<1>9. /\ \A r \in Requests : R[r].sock = 0 /\ ~R[r].sent
      /\ \A n \in Names : A[n] = <<>> /\ Q[n] = <<>>
  BY <1>2, <1>3, <1>4
<1>10. ToSet(<<>>) = {} /\ IsInjective(<<>>)
  BY NothingIs
<1>11. Reads(w)
  BY <1>5, <1>8 DEF Reads
<1>12. Waits(w)
  BY <1>5, <1>8, <1>9 DEF Waits, Waiting
<1>13. Frees(w)
  BY <1>8, <1>9, <1>10 DEF Frees
<1>14. Queues(w)
  BY <1>8, <1>9, <1>10, NamesAre DEF Queues, Bare
<1>15. Good(World, giving) /\ leaving = 0
  BY <1>1, <1>6, <1>8, <1>11, <1>12, <1>13, <1>14 DEF Good, Gives, ClientInit
<1> QED
  BY <1>15 DEF ClientInv

LEMMA TurnGood ==
    ASSUME ClientInv, NEW s \in DOMAIN asock, Turn(s)
    PROVE  ClientInv'
<1>1. CASE Connected(s)
  BY <1>1, ConnectedGood
<1>2. CASE IdleTimeout(s)
  <2>1. Becomes(Kill(World, s)) /\ giving' = giving /\ leaving' = 0
    BY <1>2 DEF IdleTimeout, Net, Runs
  <2> QED
    BY <2>1, KilledGood
<1>3. CASE Body_(s)
  BY <1>3, BodyGood
<1>4. ASSUME NEW mode \in {"length", "close", "toEnd"}, Head_(s, mode) PROVE ClientInv'
  BY <1>4, HeadGood
<1> QED
  BY <1>1, <1>2, <1>3, <1>4 DEF Turn

LEMMA NextGood == ClientInv /\ [ClientNext]_httpVars => ClientInv'
<1>1. SUFFICES ASSUME ClientInv, [ClientNext]_httpVars PROVE ClientInv'
  OBVIOUS
<1>2. CASE UNCHANGED httpVars
  <2>1. World' = World /\ giving' = giving /\ leaving' = leaving /\ asock' = asock
    BY <1>2 DEF World, httpVars
  <2> QED
    BY <1>1, <2>1 DEF ClientInv
<1>3. CASE GivesBack
  BY <1>1, <1>3, GivesBackGood
<1>4. CASE Leaves
  <2>1. /\ leaving \in DOMAIN asock /\ Becomes(Kill(World, leaving))
        /\ giving' = giving /\ leaving' = 0
    BY <1>1, <1>4, Now DEF Leaves
  <2> QED
    BY <1>1, <2>1, KilledGood
<1>5. CASE DestroyAgent
  BY <1>1, <1>5, DestroyAgentGood
<1>6. ASSUME NEW r \in Requests, NewRequest(r) \/ EndRequest(r) \/ AbortRequest(r)
      PROVE  ClientInv'
  BY <1>1, <1>6, NewRequestGood, EndRequestGood, AbortRequestGood
<1>7. ASSUME NEW s \in DOMAIN asock, Turn(s) \/ ConnectFails(s) \/ PeerEnds(s) \/ Head_(s, "redirect")
      PROVE  ClientInv'
  BY <1>1, <1>7, TurnGood, ConnectFailsGood, PeerEndsGood, HeadGood
<1> QED
  BY <1>1, <1>2, <1>3, <1>4, <1>5, <1>6, <1>7 DEF ClientNext

LEMMA InvExclusive == ClientInv => Exclusive
<1>1. SUFFICES ASSUME ClientInv PROVE Exclusive
  OBVIOUS
<1>2. PICK w : w = World
  OBVIOUS
<1>3. /\ Reads(w) /\ Frees(w) /\ w \in Worlds /\ w.sock = asock /\ w.pool = pool
  BY <1>1, <1>2, Now DEF Good
<1>4. ASSUME NEW s \in DOMAIN w.sock
      PROVE  /\ Cardinality(w.sock[s].unanswered) <= 1
             /\ w.sock[s].unanswered \subseteq {w.sock[s].reader}
  <2>1. w.sock[s].unanswered \subseteq {w.sock[s].reader}
    BY <1>3 DEF Reads
  <2>2. w.sock[s].unanswered = {} \/ w.sock[s].unanswered = {w.sock[s].reader}
    BY <2>1
  <2>3. Cardinality({}) = 0 /\ Cardinality({w.sock[s].reader}) = 1
    BY FS_EmptySet, FS_Singleton
  <2> QED
    BY <2>1, <2>2, <2>3
<1>5. ASSUME NEW n \in Names, NEW s \in ToSet(w.pool.free[n])
      PROVE  /\ w.sock[s].reader = 0 /\ s \notin ToSet(w.pool.active[n])
             /\ Cardinality({i \in DOMAIN w.pool.free[n] : w.pool.free[n][i] = s}) = 1
  <2>1. /\ w.sock[s].reader = 0 /\ s \notin ToSet(w.pool.active[n])
        /\ IsInjective(w.pool.free[n])
    BY <1>3 DEF Frees
  <2>2. PICK i \in DOMAIN w.pool.free[n] : w.pool.free[n][i] = s
    BY DEF ToSet
  <2>3. {j \in DOMAIN w.pool.free[n] : w.pool.free[n][j] = s} = {i}
    BY <2>1, <2>2 DEF IsInjective
  <2> QED
    BY <2>1, <2>3, FS_Singleton
<1> QED
  <2>1. \A s \in DOMAIN asock :
          /\ Cardinality(asock[s].unanswered) <= 1
          /\ asock[s].unanswered \subseteq {asock[s].reader}
    BY <1>3, <1>4
  <2>2. \A n \in Names : \A s \in ToSet(pool.free[n]) :
          /\ asock[s].reader = 0 /\ s \notin ToSet(pool.active[n])
          /\ Cardinality({i \in DOMAIN pool.free[n] : pool.free[n][i] = s}) = 1
    BY <1>3, <1>5
  <2> QED
    BY <2>1, <2>2, Zenon DEF Exclusive

(* A connection of the agent carries one request at a time, is in one of   *)
(* its lists and there once, for every number of requests and whatever the *)
(* limits, the scheduling and the moves of the program (addRequest,        *)
(* keepSocketAlive, _removeSocket, _tryFlush of http.js).                  *)
THEOREM OneRequestAtATime == ClientSpec => []Exclusive
<1>1. ClientInit => ClientInv
  BY InitGood
<1>2. ClientInv /\ [ClientNext]_httpVars => ClientInv'
  BY NextGood
<1>3. ClientInv => Exclusive
  BY InvExclusive
<1> QED
  BY <1>1, <1>2, <1>3, PTL DEF ClientSpec
=============================================================================
