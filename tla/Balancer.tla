------------------------------- MODULE Balancer -------------------------------
(***************************************************************************)
(* simulate of examples/knowledge/dns-balancing-lab/src/lab.mjs: requests  *)
(* are spread over backends by cached DNS answers, by weighted slots or by *)
(* the fewest active requests.  Operators only: Served is one turn of its  *)
(* loop and returns the new state.  Backends are numbered in the order of  *)
(* their ids.  An input i is a record of                                   *)
(*   weight, healthy    of each backend                                    *)
(*   answers            [at, addresses, ttl], in the order of at           *)
(*   supplied           connections open before the first request          *)
(*   strategy, cache    cache: TRUE for dnsCacheMode ttl                   *)
(*   maxStreams         of the connections opened here                     *)
(***************************************************************************)
EXTENDS Integers, Sequences, FiniteSets, FiniteSetsExt

None == 0
Lifetime == 20

Begun(i) ==
  [input |-> i, now |-> 0, rows |-> <<>>, running |-> {},
   connections |-> i.supplied, nextId |-> 1,
   dns |-> <<>>, expires |-> -1, cursor |-> 0,
   active |-> [b \in DOMAIN i.weight |-> 0], failed |-> FALSE]

\* running has the rows whose completion is still in the list.
Released(s, t) ==
  LET done == {n \in s.running : s.rows[n].doneAt <= t}
      freed(P(_)) == Cardinality({n \in done : P(s.rows[n])})
  IN [s EXCEPT !.running = @ \ done,
        !.active = [b \in DOMAIN @ |-> @[b] - freed(LAMBDA r : r.selected = b)],
        !.connections = [k \in DOMAIN @ |->
           [@[k] EXCEPT !.streams = @ - freed(LAMBDA r : r.connection = s.connections[k].id)]]]

\* The last answer that came in by t, or the first one.
DnsAnswer(i, t) == i.answers[Max({1} \cup {k \in DOMAIN i.answers : i.answers[k].at <= t})]

\* Mutant: an answer is still used in the instant it expires.
CacheValidTooLong(s, t) == s.input.cache /\ s.dns # <<>> /\ s.expires >= t
CacheValid(s, t) == s.input.cache /\ s.dns # <<>> /\ s.expires > t

Resolved(s, t) ==
  LET answer == DnsAnswer(s.input, t) IN
  IF CacheValid(s, t) THEN s
  ELSE [s EXCEPT !.dns = answer.addresses, !.expires = t + answer.ttl]

Eligible(i) == {b \in DOMAIN i.weight : i.healthy[b] /\ i.weight[b] > 0}
Weight(i, backends) == MapThenSumSet(LAMBDA b : i.weight[b], backends)

\* The slots of a backend follow those of the ones before it.
WeightedRoundRobin(i, cursor) ==
  LET slot == cursor % Weight(i, Eligible(i)) IN
  CHOOSE b \in Eligible(i) :
    slot - Weight(i, {c \in Eligible(i) : c < b}) \in 0 .. i.weight[b] - 1

SelectLeastConnections(i, active) ==
  CHOOSE b \in Eligible(i) : \A c \in Eligible(i) \ {b} :
    LET load == active[b] * i.weight[c]   other == active[c] * i.weight[b]
    IN load < other \/ (load = other /\ b < c)

\* None when the code throws: no backend is eligible, or DNS named one that is
\* unhealthy or unknown.
Selected(s) ==
  LET i == s.input
      address == s.dns[(Len(s.rows) % Len(s.dns)) + 1]
  IN IF i.strategy = "dns" THEN IF address \in DOMAIN i.healthy /\ i.healthy[address] THEN address ELSE None
     ELSE IF Eligible(i) = {} THEN None
     ELSE IF i.strategy = "proxy-least" THEN SelectLeastConnections(i, s.active)
     ELSE WeightedRoundRobin(i, s.cursor)

Reusable(s, t, address) ==
  {k \in DOMAIN s.connections :
     LET c == s.connections[k] IN
     c.address = address /\ c.createdAt <= t /\ c.reusableUntil > t /\ c.streams < c.maxStreams}

FreeId(s) == Min({n \in s.nextId .. s.nextId + Len(s.connections) :
                    \A k \in DOMAIN s.connections : s.connections[k].id # n})

\* The state with the connection to use, and its place.
OpenOrReuse(s, t, address) ==
  IF Reusable(s, t, address) # {}
  THEN [state |-> s, place |-> Min(Reusable(s, t, address))]
  ELSE [state |-> [s EXCEPT !.nextId = FreeId(s) + 1,
          !.connections = Append(@, [id |-> FreeId(s), address |-> address, createdAt |-> t,
             reusableUntil |-> t + Lifetime, maxStreams |-> s.input.maxStreams, streams |-> 0])],
        place |-> Len(s.connections) + 1]

Recorded(s, t, service, b, connection) ==
  [s EXCEPT !.now = t, !.active[b] = @ + 1, !.running = @ \cup {Len(s.rows) + 1},
     !.rows = Append(@, [arrival |-> t, doneAt |-> t + service, dns |-> s.dns, expires |-> s.expires,
                         selected |-> b, connection |-> connection])]

Served(before, t, service) ==
  LET s == Resolved(Released(before, t), t)
      b == Selected(s)
      opened == OpenOrReuse(s, t, b)
  IN IF b = None THEN [s EXCEPT !.failed = TRUE]
     ELSE IF s.input.strategy = "dns"
     THEN LET o == opened.state IN
          Recorded([o EXCEPT !.connections[opened.place].streams = @ + 1], t, service, b,
                   o.connections[opened.place].id)
     ELSE Recorded([s EXCEPT !.cursor = IF s.input.strategy = "proxy-least" THEN @ ELSE @ + 1],
                   t, service, b, None)
-----------------------------------------------------------------------------
\* What runs: every request that is not over, and the last one in any case.
Running(s) == {n \in DOMAIN s.rows : s.rows[n].doneAt > s.now \/ n = Len(s.rows)}

\* The counters of the backends and of the connections agree with the requests
\* under way, and a connection is used in its lifetime, for its address, by no
\* more requests than it takes.
CountsTrue(s) ==
  /\ \A b \in DOMAIN s.active : s.active[b] = Cardinality({n \in Running(s) : s.rows[n].selected = b})
  /\ \A k \in DOMAIN s.connections :
       LET c == s.connections[k]
           mine == {n \in DOMAIN s.rows : s.rows[n].connection = c.id}
       IN /\ c.streams = Cardinality(mine \cap Running(s)) /\ c.streams <= c.maxStreams
          /\ \A n \in mine : /\ s.rows[n].selected = c.address
                             /\ c.createdAt <= s.rows[n].arrival /\ s.rows[n].arrival < c.reusableUntil

\* No request gets an answer that was replaced as long ago as its time to live,
\* nor any replaced one without the cache.
AnswersFresh(s) ==
  \A n \in DOMAIN s.rows : LET r == s.rows[n] IN
    \E t \in 0 .. r.arrival :
      LET answer == DnsAnswer(s.input, t) IN
      /\ answer.addresses = r.dns
      /\ IF s.input.cache THEN r.arrival < t + answer.ttl ELSE t = r.arrival

\* Any run of as many requests as there are slots gives each backend its weight;
\* with least connections nobody gets a second request while another has none.
SpreadTrue(s) ==
  LET i == s.input
      slots == Weight(i, Eligible(i))
      last == s.rows[Len(s.rows)].selected
  IN /\ i.strategy \in {"proxy-rr", "proxy-weighted"} =>
          \A first \in 1 .. Len(s.rows) - slots + 1, b \in Eligible(i) :
            Cardinality({n \in first .. first + slots - 1 : s.rows[n].selected = b}) = i.weight[b]
     /\ i.strategy = "proxy-least" /\ Len(s.rows) > 0 /\ s.active[last] > 1 =>
          \A b \in Eligible(i) : s.active[b] > 0

\* A request fails only where the address DNS named is not healthy, or no backend is.
RoutingTrue(s) ==
  IF s.failed THEN \E b \in DOMAIN s.input.healthy : ~s.input.healthy[b]
  ELSE CountsTrue(s) /\ AnswersFresh(s) /\ SpreadTrue(s)
=============================================================================
