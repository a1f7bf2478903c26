----------------------------- MODULE HttpClient -----------------------------
(***************************************************************************)
(* HTTP requests and the Agent that keeps their connections                *)
(* (builtins/js/http.js).  One handler is one step: it computes the next   *)
(* world [req, sock, pool] with the calls that nest in it, except that the *)
(* program runs, through the listeners of 'end', before a connection is    *)
(* given back.                                                             *)
(***************************************************************************)
EXTENDS Naturals, Sequences, SequencesExt, FiniteSets

CONSTANTS Requests,      \* the requests, numbers from 1
          KeepAlive,     \* the agent's keepAlive
          MaxSockets,    \* the agent's maxSockets
          MaxFree,       \* the agent's maxFreeSockets
          MaxTotal,      \* the agent's maxTotalSockets
          Fifo,          \* scheduling = "fifo"
          KeptUnder,     \* "host", or "addr" when the host has another address
          MaxHops,       \* maxRedirects
          Moves          \* what the program may do: "abort", "late", "destroy"

ASSUME ClientAssumption == Requests \subseteq Nat \ {0} /\ KeptUnder \in {"host", "addr"}

VARIABLES areq,          \* ClientRequest
          asock,         \* the sockets, in the order of their creation
          pool,          \* the Agent
          giving,        \* the request whose 'end' listeners run, or 0
          leaving        \* the socket that is destroyed after them, or 0

httpVars == <<areq, asock, pool, giving, leaving>>

Names == {"host", "addr"}
World == [req |-> areq, sock |-> asock, pool |-> pool]
ClientInit ==
  /\ areq = [r \in Requests |-> [st |-> "new", sock |-> 0, ended |-> FALSE, aborted |-> FALSE,
                                 sent |-> FALSE, res |-> "none", hops |-> 0]]
  /\ asock = <<>>
  /\ pool = [active |-> [n \in Names |-> <<>>], free |-> [n \in Names |-> <<>>],
             queue |-> [n \in Names |-> <<>>], total |-> 0]
  /\ giving = 0 /\ leaving = 0

-----------------------------------------------------------------------------
(* _createSocket: it counts from the start of the connection, and answers  *)
(* to the request it was made for.                                         *)
CreateSocket(w, r) ==
  LET s == Len(w.sock) + 1
  IN [w EXCEPT !.sock = Append(@, [st |-> "connecting", owner |-> r, reader |-> 0, idle |-> FALSE,
                                   mode |-> "none", tracked |-> TRUE, unanswered |-> {}]),
               !.pool.active["host"] = Append(@, s), !.pool.total = @ + 1,
               !.req[r].sock = s]

(* splice of indexOf, when it is found.                                    *)
Without(seq, s) ==
  LET at == {i \in DOMAIN seq : seq[i] = s}
  IN IF at = {} THEN seq ELSE RemoveAt(seq, Min(at))

\* Mutant: the queue waits for a response, not for a connection that closed.
RemoveOnly(w, s) ==
  [w EXCEPT !.pool.active["host"] = Without(@, s), !.pool.free["host"] = Without(@, s),
            !.pool.total = IF @ = 0 THEN 0 ELSE @ - 1]

(* _removeSocket: off the lists of the name, off the count, and the next   *)
(* request of the queue gets a connection of its own.                      *)
RemoveSocket(w, s) ==
  LET gone == [w EXCEPT !.pool.active["host"] = Without(@, s), !.pool.free["host"] = Without(@, s),
                        !.pool.total = IF @ = 0 THEN 0 ELSE @ - 1]
      queue == gone.pool.queue["host"]
  IN IF queue = <<>> THEN gone
     ELSE CreateSocket([gone EXCEPT !.pool.queue["host"] = Tail(queue)], Head(queue))

(* Socket.destroy: 'close' takes it from the agent and ends a response     *)
(* that was being read.                                                    *)
CloseRead(w, s) ==
  LET r == w.sock[s].reader
  IN IF r # 0 /\ w.req[r].res = "head" THEN [w EXCEPT !.req[r].res = "done"] ELSE w
Kill(w, s) ==
  IF w.sock[s].st = "dead" THEN w
  ELSE LET dead == [w EXCEPT !.sock[s].st = "dead", !.sock[s].idle = FALSE]
       IN CloseRead(IF w.sock[s].tracked THEN RemoveSocket(dead, s) ELSE dead, s)

(* _flushRequest: the request is written and its response will be read.    *)
Flush(w, r) ==
  LET s == w.req[r].sock
  IN [w EXCEPT !.req[r].sent = TRUE, !.sock[s].reader = r,
               !.sock[s].unanswered = @ \cup {r}]

Ready(q) == q.ended /\ ~q.sent /\ ~q.aborted /\ q.sock # 0
FlushReady(w, r) == IF Ready(w.req[r]) THEN Flush(w, r) ELSE w

(* addRequest: a free connection that still lives, or the queue, or a new  *)
(* connection.                                                             *)
Reset(w, r) == [w EXCEPT !.req[r].sent = FALSE, !.req[r].aborted = FALSE, !.req[r].res = "none"]
Reuse(w, r, s, rest) ==
  FlushReady(Reset([w EXCEPT !.pool.free["host"] = rest,
                             !.pool.active["host"] = Append(@, s),
                             !.sock[s].idle = FALSE, !.req[r].sock = s], r), r)
Enqueue(w, r) == [w EXCEPT !.pool.queue["host"] = Append(@, r)]
AddRequest(w, r) ==
  LET free == IF KeepAlive THEN w.pool.free["host"] ELSE <<>>
      alive == {i \in DOMAIN free : w.sock[free[i]].st = "open"}
      at == IF Fifo THEN Min(alive) ELSE Max(alive)
      s == free[at]
      rest == IF Fifo THEN SubSeq(free, at + 1, Len(free)) ELSE SubSeq(free, 1, at - 1)
      none == [w EXCEPT !.pool.free["host"] = IF KeepAlive THEN <<>> ELSE @]
  IN IF alive # {}
     THEN Reuse(w, r, s, rest)
     ELSE IF Len(w.pool.active["host"]) >= MaxSockets \/ w.pool.total >= MaxTotal
          THEN Enqueue(none, r)
          ELSE CreateSocket(none, r)

(* _tryFlush: on a connection that died meanwhile the request goes back to *)
(* the agent, and the connection is removed, though 'close' may have done  *)
(* so already.                                                             *)
TryFlush(w, r) ==
  LET q == w.req[r]
  IN IF ~Ready(q) \/ w.sock[q.sock].st = "connecting" THEN w
     ELSE IF w.sock[q.sock].st \in {"ended", "dead"}
          THEN AddRequest(RemoveSocket([w EXCEPT !.req[r].sock = 0], q.sock), r)
          ELSE Flush(w, r)

\* Mutant: the connection stays in the free list when the queue gets it.
KeepTwice(w, s) ==
  LET n == KeptUnder
      off == [w EXCEPT !.pool.active[n] = Without(@, s)]
      kept == [off EXCEPT !.pool.free[n] = Append(@, s), !.sock[s].idle = TRUE]
      next == Head(off.pool.queue[n])
  IN IF Len(off.pool.free[n]) >= MaxFree THEN Kill(off, s)
     ELSE IF off.pool.queue[n] = <<>> THEN kept
     ELSE TryFlush(Reset([kept EXCEPT !.pool.queue[n] = Tail(@), !.req[next].sock = s], next), next)

(* keepSocketAlive: to the free list of the name the socket's own address  *)
(* gives, with an idle timer; or straight to the next request of the queue.*)
KeepSocketAlive(w, s) ==
  LET n == KeptUnder
      off == [w EXCEPT !.pool.active[n] = Without(@, s)]
      kept == [off EXCEPT !.pool.free[n] = Append(@, s), !.sock[s].idle = TRUE]
      next == Head(off.pool.queue[n])
  IN IF Len(off.pool.free[n]) >= MaxFree THEN Kill(off, s)
     ELSE IF off.pool.queue[n] = <<>> THEN kept
     ELSE TryFlush(Reset([off EXCEPT !.pool.queue[n] = Tail(@), !.pool.active[n] = Append(@, s),
                                     !.req[next].sock = s], next), next)

(* _maybeReleaseSocket, after the listeners of 'end'.                      *)
Release(w, r) ==
  LET s == w.req[r].sock
      off == [w EXCEPT !.sock[s].reader = 0]
  IN IF ~KeepAlive THEN w
     ELSE IF w.sock[s].mode = "close" THEN Kill(w, s)
     ELSE KeepSocketAlive(off, s)

(* _reissueAfterRedirect: the connection is dropped, and the request asked *)
(* again.                                                                  *)
Reissue(w, r) ==
  LET s == w.req[r].sock
      off == [w EXCEPT !.req[r].sent = FALSE, !.req[r].res = "none", !.req[r].hops = @ + 1,
                       !.req[r].sock = 0, !.sock[s].reader = 0, !.sock[s].tracked = FALSE]
  IN AddRequest(Kill(RemoveSocket(off, s), s), r)

Becomes(w) == areq' = w.req /\ asock' = w.sock /\ pool' = w.pool

-----------------------------------------------------------------------------
(* The program.                                                            *)
Runs == UNCHANGED <<giving, leaving>>
NewRequest(r) ==
  /\ areq[r].st = "new" /\ \A q \in Requests : q < r => areq[q].st # "new"
  /\ LET asked == [World EXCEPT !.req[r].st = "asked", !.req[r].ended = "late" \notin Moves]
     IN Becomes(AddRequest(asked, r))
  /\ Runs

EndRequest(r) ==
  /\ areq[r].st = "asked" /\ ~areq[r].ended
  /\ Becomes(TryFlush([World EXCEPT !.req[r].ended = TRUE], r)) /\ Runs

(* destroy, also of a request that was answered: its socket is destroyed.  *)
AbortRequest(r) ==
  /\ "abort" \in Moves /\ areq[r].st = "asked" /\ areq[r].res # "done"
  /\ LET w == [World EXCEPT !.req[r].aborted = TRUE, !.req[r].st = "aborted"]
     IN Becomes(IF areq[r].sock = 0 THEN w ELSE Kill(w, areq[r].sock))
  /\ Runs

(* Agent.destroy: the queue is dropped and every connection it knows; the  *)
(* requests that wait for one of them are told nothing ("dropped").        *)
DestroyAgent ==
  /\ "destroy" \in Moves
  /\ LET mine == UNION {ToSet(pool.active[n]) \cup ToSet(pool.free[n]) : n \in Names}
         closed == {asock[s].reader : s \in {s \in mine : asock[s].st # "dead"}}
         waiting == {r \in Requests : /\ areq[r].st = "asked" /\ ~areq[r].sent
                                      /\ areq[r].sock \in mine \cup {0}}
     IN /\ mine # {} /\ giving = 0
        /\ asock' = [s \in DOMAIN asock |-> IF s \in mine
                       THEN [asock[s] EXCEPT !.st = "dead", !.idle = FALSE, !.tracked = FALSE]
                       ELSE asock[s]]
        /\ areq' = [r \in Requests |->
                      IF r \in closed /\ areq[r].res = "head" THEN [areq[r] EXCEPT !.res = "done"]
                      ELSE IF r \in waiting THEN [areq[r] EXCEPT !.st = "dropped"]
                      ELSE areq[r]]
  /\ pool' = [active |-> [n \in Names |-> <<>>], free |-> [n \in Names |-> <<>>],
              queue |-> [n \in Names |-> <<>>], total |-> 0]
  /\ Runs

-----------------------------------------------------------------------------
(* The network.                                                            *)
Net == giving = 0 /\ leaving = 0
Connected(s) ==
  /\ Net /\ asock[s].st = "connecting"
  /\ LET open == [World EXCEPT !.sock[s].st = "open"]
     IN Becomes(TryFlush(open, asock[s].owner))
  /\ Runs

ConnectFails(s) ==
  /\ Net /\ asock[s].st = "connecting"
  /\ LET r == asock[s].owner
     IN Becomes(Kill([World EXCEPT !.req[r].st = IF @ = "asked" THEN "failed" ELSE @], s))
  /\ Runs

(* The first data of a response: its head.  Its end may be told by a       *)
(* length, by the last chunk or by the end of the connection.              *)
Head_(s, mode) ==
  /\ Net /\ asock[s].st = "open" /\ asock[s].reader # 0 /\ areq[asock[s].reader].res = "none"
  /\ mode = "redirect" => areq[asock[s].reader].hops < MaxHops
  /\ Becomes([World EXCEPT !.sock[s].mode = mode, !.req[asock[s].reader].res = "head"])
  /\ Runs

(* The rest of it: 'end' is emitted, or the redirect followed.             *)
Body_(s) ==
  /\ Net /\ asock[s].st = "open" /\ asock[s].mode # "toEnd"
  /\ LET r == asock[s].reader
         read == [World EXCEPT !.sock[s].unanswered = @ \ {r}]
     IN /\ r # 0 /\ areq[r].res = "head"
        /\ IF asock[s].mode = "redirect" THEN Becomes(Reissue(read, r)) /\ Runs
           ELSE Becomes([read EXCEPT !.req[r].res = "done"]) /\ giving' = r /\ UNCHANGED leaving

GivesBack ==
  /\ giving # 0 /\ giving' = 0 /\ UNCHANGED leaving
  /\ Becomes(Release(World, giving))

(* The peer ends: a response in progress is complete, whatever its length  *)
(* said, and the socket is destroyed when its listeners are done.          *)
PeerEnds(s) ==
  /\ Net /\ asock[s].st = "open" /\ leaving' = s
  /\ LET r == asock[s].reader
         ends == [World EXCEPT !.sock[s].st = "ended"]
     IN IF r # 0 /\ areq[r].res = "head"
        THEN /\ Becomes([ends EXCEPT !.req[r].res = "done", !.sock[s].unanswered = @ \ {r}])
             /\ giving' = r
        ELSE Becomes(ends) /\ UNCHANGED giving
Leaves ==
  /\ leaving # 0 /\ giving = 0 /\ leaving' = 0 /\ UNCHANGED giving
  /\ Becomes(Kill(World, leaving))

IdleTimeout(s) ==
  /\ Net /\ asock[s].idle /\ Becomes(Kill(World, s)) /\ Runs

Turn(s) == Connected(s) \/ IdleTimeout(s) \/ Body_(s) \/ \E mode \in {"length", "close", "toEnd"} : Head_(s, mode)
ClientNext ==
  \/ GivesBack \/ Leaves \/ DestroyAgent
  \/ \E r \in Requests : NewRequest(r) \/ EndRequest(r) \/ AbortRequest(r)
  \/ \E s \in DOMAIN asock : Turn(s) \/ ConnectFails(s) \/ PeerEnds(s) \/ Head_(s, "redirect")

(* The listeners return; connections are made, servers answer, end what    *)
(* only an end completes, and close what was not kept; timers fire.        *)
ClientFairness ==
  /\ WF_httpVars(GivesBack \/ Leaves)
  /\ \A s \in 1..(MaxHops + 2) * Cardinality(Requests) :
       /\ WF_httpVars(s \in DOMAIN asock /\ Turn(s))
       /\ SF_httpVars(s \in DOMAIN asock /\ PeerEnds(s))
ClientSpec == ClientInit /\ [][ClientNext]_httpVars /\ ClientFairness

-----------------------------------------------------------------------------
(* A connection carries one request at a time: it is handed on only when   *)
(* the response to the last one was read whole, and it is in one list,     *)
(* once, so no response is taken for another's, whatever is queued,        *)
(* redirected, ended late, aborted or closed.                              *)
Exclusive ==
  /\ \A s \in DOMAIN asock :
       /\ asock[s].st = "open" => Cardinality(asock[s].unanswered) <= 1
       /\ asock[s].reader # 0 => asock[s].unanswered \subseteq {asock[s].reader}
  /\ \A n \in Names : \A s \in ToSet(pool.free[n]) :
       /\ asock[s].reader = 0 \/ asock[s].st # "open"
       /\ s \notin ToSet(pool.active[n])
       /\ Cardinality({i \in DOMAIN pool.free[n] : pool.free[n][i] = s}) = 1

(* The agent never has more connections to an origin than maxSockets.      *)
LimitKept == Len(pool.active["host"]) <= MaxSockets

(* A request that was ended is sent, or fails: the queue is served, also   *)
(* when connections die with requests waiting.                             *)
Served == \A r \in Requests : areq[r].st = "asked" /\ areq[r].ended ~> areq[r].sent \/ areq[r].st # "asked"
=============================================================================
