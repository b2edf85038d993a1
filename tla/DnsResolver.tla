----------------------------- MODULE DnsResolver -----------------------------
(***************************************************************************)
(* Name resolution in one worker (manager/dns_ops.rs, manager/dns_cache.rs *)
(* and the DNS parts of manager/phases.rs and manager/commands.rs).  Every *)
(* request that the cache cannot answer becomes a group with two queries,  *)
(* A and AAAA.  Answers are recognised by their 16-bit transaction id      *)
(* alone; they may be lost, late, duplicated or out of order.              *)
(*                                                                         *)
(* A request's group id is unique, so the request itself stands for it.    *)
(* The transaction ids come from a counter that all workers share: a query *)
(* may get any id that is not pending here.  One address per domain and    *)
(* family is enough to tell answers apart.                                 *)
(***************************************************************************)
EXTENDS Naturals, Sequences, FiniteSets

CONSTANTS
  Requests,      (* calls of resolve and resolve_all                       *)
  Domains,
  Ids,           (* transaction ids                                        *)
  Prefer,        (* the families that callers of resolve prefer            *)
  MaxArrivals    (* bound: answers that arrive with one poll               *)

ASSUME RequestsAssumption == IsFiniteSet(Requests) /\ Domains # {}
ASSUME PreferAssumption == Prefer # {} /\ Prefer \subseteq {"v4", "v6"}
ASSUME ArrivalsAssumption == MaxArrivals \in Nat

VARIABLES
  request,   (* what each request asks for: domain, family it prefers, all *)
  state,     (* where each request is                                      *)
  got,       (* the addresses it was answered with                         *)
  groups,    (* dns_groups                                                 *)
  queries,   (* dns_queries                                                *)
  cache,     (* dns_cache: the records that have not expired               *)
  flight,    (* answers on their way                                       *)
  inbox,     (* answers in the receive buffers of the DNS sockets          *)
  polling,   (* inside poll_stack_common, after a socket changed           *)
  up         (* a session is running                                       *)

requestVars == <<request, state, got>>
tableVars   == <<groups, queries, cache>>
vars == <<request, state, got, groups, queries, cache,
          flight, inbox, polling, up>>

Families == {"v4", "v6"}
Address == [family : Families, domain : Domains]

\* An answer and what it may hold: the address asked for, or none when it
\* reports a failure or has no records.
Answer == [id : Ids, about : Address]
Contents(a) == {{a.about}, {}}
Request == [domain : Domains, prefer : Prefer, all : BOOLEAN]

\* The results that a group still waits for, and what the others found; a
\* group that waits for none is removed at once.
Group == [domain : Domains, prefer : Families, all : BOOLEAN,
          replied : BOOLEAN, overdue : BOOLEAN,
          pending : (SUBSET Families) \ {{}}, result : [Families -> SUBSET Address]]
Query == [group : Requests, family : Families]

Without(f, S) == [x \in DOMAIN f \ S |-> f[x]]
With(f, x, v) == [y \in DOMAIN f \cup {x} |-> IF y = x THEN v ELSE f[y]]

-----------------------------------------------------------------------------
(* The requests.                                                           *)

Ask(r) ==
  /\ state[r] = "new"
  /\ \E q \in Request : request' = [request EXCEPT ![r] = q]
  /\ state' = [state EXCEPT ![r] = "asked"]
  /\ UNCHANGED <<got, tableVars, flight, inbox, polling, up>>

Answered(r, addresses) ==
  /\ state' = [state EXCEPT ![r] = "answered"]
  /\ got' = [got EXCEPT ![r] = addresses]

-----------------------------------------------------------------------------
(* The cache.                                                              *)

\* dns_cache_get: an address of the preferred family if there is one.
\* dns_cache_get_all: every address.
FromCache(q) ==
  LET preferred == {a \in cache[q.domain] : a.family = q.prefer}
  IN  IF q.all \/ preferred = {} THEN cache[q.domain] ELSE preferred

\* A record's TTL runs out, or the entry is evicted.
CacheForgets(d) ==
  /\ \E rest \in SUBSET cache[d] : rest # cache[d] /\ cache' = [cache EXCEPT ![d] = rest]
  /\ UNCHANGED <<requestVars, groups, queries, flight, inbox, polling, up>>

-----------------------------------------------------------------------------
(* try_resolve_dns_group.                                                  *)

Done(g) == g.pending = {}
Found(g) == UNION {g.result[f] : f \in Families}
Preferred(g) == g.result[g.prefer]

\* Whether a group's answer is sent now: resolve waits for one address, of
\* either family, resolve_all for both answers.
Replies(g) == ~g.replied /\ (Done(g) \/ (~g.all /\ Found(g) # {}))

\* ... and with which addresses; none stands for an error.
Reply(g) == IF g.all \/ Preferred(g) = {} THEN Found(g) ELSE Preferred(g)

\* Group g of request r, with the results it has by now and the queries qs
\* that are pending: answer the request if that is possible; once both
\* results are there, update the cache and forget the group and its queries.
TryResolve(r, g, qs) ==
  /\ groups' = IF Done(g) THEN Without(groups, {r})
               ELSE With(groups, r, [g EXCEPT !.replied = @ \/ Replies(g)])
  /\ queries' = IF Done(g) THEN Without(qs, {i \in DOMAIN qs : qs[i].group = r}) ELSE qs
  /\ cache' = IF Done(g) /\ Found(g) # {}
              THEN [cache EXCEPT ![g.domain] = Found(g)] ELSE cache
  /\ IF Replies(g) THEN Answered(r, Reply(g))
     ELSE /\ state' = [state EXCEPT ![r] = IF g.replied THEN @ ELSE "waiting"]
          /\ UNCHANGED got

-----------------------------------------------------------------------------
(* The manager.                                                            *)

Idle == up /\ ~polling

\* DnsResolve and DnsResolveAll, answered from the cache.
ResolveCached(r) ==
  /\ Idle /\ state[r] = "asked"
  /\ cache[request[r].domain] # {}
  /\ Answered(r, FromCache(request[r]))
  /\ UNCHANGED <<request, tableVars, flight, inbox, polling, up>>

NewGroup(q, sent) ==
  [domain |-> q.domain, prefer |-> q.prefer, all |-> q.all, replied |-> FALSE,
   overdue |-> FALSE, pending |-> sent, result |-> [f \in Families |-> {}]]

\* An id is taken without a look at the pending queries.
AnyIds(sent) == {ids \in [sent -> Ids] : \A f, g \in sent : f # g => ids[f] # ids[g]}

\* build_unique_dns_query: ids that no pending query has.
UniqueIds(sent) ==
  {ids \in [sent -> Ids \ DOMAIN queries] : \A f, g \in sent : f # g => ids[f] # ids[g]}

\* The pending queries once request r's queries got these ids, ...
QueriesWith(r, ids) ==
  LET taken == {ids[f] : f \in DOMAIN ids}
  IN  [i \in DOMAIN queries \cup taken |->
         IF i \in taken
         THEN [group |-> r, family |-> CHOOSE f \in DOMAIN ids : ids[f] = i]
         ELSE queries[i]]

\* ... and the answers that the server is going to give.  Bound: an answer
\* does not outlive its query so long that the counter returns to its id.
FlightWith(r, ids) ==
  {a \in flight : \A f \in DOMAIN ids : a.id # ids[f] \/ a.id \in DOMAIN queries}
    \cup {[id |-> ids[f],
           about |-> [family |-> f, domain |-> request[r].domain]] : f \in DOMAIN ids}

\* start_dns_query and start_dns_query_all.  Both queries go out unless
\* there is no socket, no id, or the socket takes no more; a query that does
\* not go out has failed.
StartDnsQuery(r) ==
  /\ Idle /\ state[r] = "asked"
  /\ cache[request[r].domain] = {}
  /\ \E sent \in SUBSET Families : \E ids \in UniqueIds(sent) :
       /\ flight' = FlightWith(r, ids)
       /\ TryResolve(r, NewGroup(request[r], sent), QueriesWith(r, ids))
  /\ UNCHANGED <<request, inbox, polling, up>>

\* poll_stack_common finds that a socket has changed, because answers have
\* arrived (again, maybe) or for another reason.
Poll ==
  /\ Idle
  /\ \E n \in 0 .. MaxArrivals : \E arrived \in [1 .. n -> flight] : inbox' = arrived
  /\ polling' = TRUE
  /\ UNCHANGED <<requestVars, tableVars, flight, up>>

\* process_dns_responses, one answer: an unknown id is ignored, the answer
\* to a query is noted in its group.
ProcessResponse ==
  /\ polling /\ inbox # << >>
  /\ inbox' = Tail(inbox)
  /\ LET a == Head(inbox)
     IN  IF a.id \notin DOMAIN queries THEN UNCHANGED <<tableVars, state, got>>
         ELSE \E content \in Contents(a) :
                LET q == queries[a.id]
                    g == [groups[q.group] EXCEPT !.pending = @ \ {q.family},
                                                 !.result[q.family] = content]
                IN  TryResolve(q.group, g, Without(queries, {a.id}))
  /\ UNCHANGED <<request, flight, polling, up>>

\* Five seconds have passed since the group was created.
FiveSeconds(r) ==
  /\ r \in DOMAIN groups /\ ~groups[r].overdue
  /\ groups' = [groups EXCEPT ![r].overdue = TRUE]
  /\ UNCHANGED <<requestVars, queries, cache, flight, inbox, polling, up>>

Overdue == {r \in DOMAIN groups : groups[r].overdue}
QueriesOf(rs) == {i \in DOMAIN queries : queries[i].group \in rs}

\* Timed-out groups are removed, their queries stay.
ExpireGroupsOnly ==
  /\ polling /\ inbox = << >>
  /\ groups' = Without(groups, Overdue)
  /\ state' = [r \in Requests |-> IF r \in Overdue THEN "answered" ELSE state[r]]
  /\ polling' = FALSE
  /\ UNCHANGED <<request, got, queries, cache, flight, inbox, up>>

\* The group is removed, and with it the sender that has not been used.
ExpireSilently ==
  /\ polling /\ inbox = << >>
  /\ groups' = Without(groups, Overdue)
  /\ queries' = Without(queries, QueriesOf(Overdue))
  /\ polling' = FALSE
  /\ UNCHANGED <<requestVars, cache, flight, inbox, up>>

\* Only groups that were answered early time out.
ExpireReplied ==
  /\ polling /\ inbox = << >>
  /\ LET gone == {r \in Overdue : groups[r].replied}
     IN  /\ groups' = Without(groups, gone)
         /\ queries' = Without(queries, QueriesOf(gone))
  /\ polling' = FALSE
  /\ UNCHANGED <<requestVars, cache, flight, inbox, up>>

\* expire_dns_groups: only here, after a poll that changed a socket.  The
\* requests that still wait read Timeout.
ExpireDnsGroups ==
  /\ polling /\ inbox = << >>
  /\ groups' = Without(groups, Overdue)
  /\ queries' = Without(queries, QueriesOf(Overdue))
  /\ state' = [r \in Requests |-> IF r \in Overdue THEN "answered" ELSE state[r]]
  /\ polling' = FALSE
  /\ UNCHANGED <<request, got, cache, flight, inbox, up>>

\* The session ends: the RuntimeState is dropped, and whoever waits reads
\* ResponseChannelClosed.  The next session's sockets have other ports.
EndSession ==
  /\ Idle
  /\ up' = FALSE
  /\ state' = [r \in Requests |-> IF state[r] = "waiting" THEN "answered" ELSE state[r]]
  /\ groups' = << >> /\ queries' = << >>
  /\ cache' = [d \in Domains |-> {}]
  /\ flight' = {}
  /\ UNCHANGED <<request, got, inbox, polling>>

\* handle_command_disconnected: NotConnected.
ResolveDisconnected(r) ==
  /\ ~up /\ state[r] = "asked"
  /\ Answered(r, {})
  /\ UNCHANGED <<request, tableVars, flight, inbox, polling, up>>

StartSession ==
  /\ ~up
  /\ up' = TRUE
  /\ UNCHANGED <<requestVars, tableVars, flight, inbox, polling>>

-----------------------------------------------------------------------------

Init ==
  /\ request \in [Requests -> {CHOOSE q \in Request : TRUE}]
  /\ state = [r \in Requests |-> "new"]
  /\ got = [r \in Requests |-> {}]
  /\ groups = << >> /\ queries = << >>
  /\ cache = [d \in Domains |-> {}]
  /\ flight = {} /\ inbox = << >>
  /\ polling = FALSE /\ up = FALSE

Handler(r) == ResolveCached(r) \/ StartDnsQuery(r) \/ ResolveDisconnected(r)
PollStep == ProcessResponse \/ ExpireDnsGroups

Next ==
  \/ \E r \in Requests : Ask(r) \/ Handler(r) \/ FiveSeconds(r)
  \/ \E d \in Domains : CacheForgets(d)
  \/ Poll \/ PollStep \/ EndSession \/ StartSession

\* The manager takes commands and goes on once it has begun, time passes.
\* Nothing makes an answer arrive or a socket change.
Fairness ==
  /\ \A r \in Requests : WF_vars(FiveSeconds(r)) /\ SF_vars(Handler(r))
  /\ WF_vars(PollStep)

Spec == Init /\ [][Next]_vars

FairSpec == Spec /\ Fairness

-----------------------------------------------------------------------------
(* Properties.                                                             *)

TypeOK ==
  /\ request \in [Requests -> Request]
  /\ state \in [Requests -> {"new", "asked", "waiting", "answered"}]
  /\ got \in [Requests -> SUBSET Address]
  /\ DOMAIN groups \subseteq Requests
  /\ \A r \in DOMAIN groups : groups[r] \in Group
  /\ DOMAIN queries \subseteq Ids
  /\ \A i \in DOMAIN queries : queries[i] \in Query
  /\ cache \in [Domains -> SUBSET Address]
  /\ flight \subseteq Answer
  /\ inbox \in Seq(Answer)
  /\ polling \in BOOLEAN /\ up \in BOOLEAN

\* The pending queries are exactly the results that some group still waits
\* for, one query each: no group waits for an answer that would be ignored,
\* and no answer can reach a group that is gone or has that result
\* (dns_queries against dns_groups).
QueriesMatchGroups ==
  /\ \A i \in DOMAIN queries :
       /\ queries[i].group \in DOMAIN groups
       /\ queries[i].family \in groups[queries[i].group].pending
       /\ \A j \in DOMAIN queries : queries[j] = queries[i] => j = i
  /\ \A r \in DOMAIN groups : \A f \in groups[r].pending :
         \E i \in DOMAIN queries : queries[i] = [group |-> r, family |-> f]

\* A request waits exactly while its group holds the sender of its answer:
\* nobody is forgotten when a group goes, or answered twice.
NobodyForgotten ==
  \A r \in Requests :
    state[r] = "waiting" <=> (r \in DOMAIN groups /\ ~groups[r].replied)

\* Answers late, lost or duplicated, or of other groups: what a request is
\* answered with, and what the cache holds, are addresses of the domain that
\* was asked for.
AnswersOwnDomain ==
  /\ \A r \in Requests : \A a \in got[r] : a.domain = request[r].domain
  /\ \A d \in Domains : \A a \in cache[d] : a.domain = d

\* Every request is answered, provided that sockets keep changing: the
\* timeout of a group is only looked at then (poll_stack_common).
EveryoneAnswered ==
  []<><<Poll>>_vars =>
    \A r \in Requests : state[r] = "asked" ~> state[r] = "answered"

=============================================================================
