-------------------------- MODULE DnsResolverProofs --------------------------
(***************************************************************************)
(* DnsResolver for every set of requests, domains and transaction ids: the *)
(* queries match the groups, nobody is forgotten, and nobody is answered   *)
(* with the addresses of another domain.                                   *)
(***************************************************************************)
EXTENDS DnsResolver, TLAPS

\* A group that was answered early belongs to an answered request.
RepliedAnswered ==
  \A r \in DOMAIN groups : groups[r].replied => state[r] = "answered"

GotOnceAnswered ==
  \A r \in Requests : state[r] # "answered" => got[r] = {}

\* A group collects addresses of the domain that its request asks for.
GroupsOwnDomain ==
  \A r \in DOMAIN groups :
    /\ groups[r].domain = request[r].domain
    /\ \A f \in Families : \A a \in groups[r].result[f] : a.domain = request[r].domain

\* An answer whose id is pending is about the domain of that query: the id
\* was free when the query got it.
OwnAnswer(a) ==
  a.id \in DOMAIN queries => a.about.domain = request[queries[a.id].group].domain

AnswersMatchQueries ==
  /\ \A a \in flight : OwnAnswer(a)
  /\ \A n \in DOMAIN inbox : OwnAnswer(inbox[n])

InboxOnlyInPoll == ~polling => inbox = << >>

IInv ==
  /\ TypeOK /\ QueriesMatchGroups /\ NobodyForgotten /\ AnswersOwnDomain
  /\ RepliedAnswered /\ GotOnceAnswered
  /\ GroupsOwnDomain /\ AnswersMatchQueries /\ InboxOnlyInPoll

-----------------------------------------------------------------------------
(* try_resolve_dns_group is called with a group that may have both results *)
(* by now, and with queries that match the other groups and this one.      *)

AnyGroup == [domain : Domains, prefer : Families, all : BOOLEAN,
             replied : BOOLEAN, overdue : BOOLEAN,
             pending : SUBSET Families, result : [Families -> SUBSET Address]]

QueryTable(qs) == DOMAIN qs \subseteq Ids /\ \A i \in DOMAIN qs : qs[i] \in Query

MatchWith(r, g, qs) ==
  /\ \A i \in DOMAIN qs :
       /\ qs[i].group = r => qs[i].family \in g.pending
       /\ qs[i].group # r => /\ qs[i].group \in DOMAIN groups
                             /\ qs[i].family \in groups[qs[i].group].pending
       /\ \A j \in DOMAIN qs : qs[j] = qs[i] => j = i
  /\ \A f \in g.pending : \E i \in DOMAIN qs : qs[i] = [group |-> r, family |-> f]
  /\ \A x \in DOMAIN groups \ {r} : \A f \in groups[x].pending :
       \E i \in DOMAIN qs : qs[i] = [group |-> x, family |-> f]

\* Tables after the call: types, and queries against groups.
LEMMA TryResolveTables ==
  ASSUME TypeOK, NEW r \in Requests, NEW g \in AnyGroup, NEW qs,
         QueryTable(qs), MatchWith(r, g, qs), TryResolve(r, g, qs)
  PROVE  /\ DOMAIN groups' \subseteq Requests
         /\ \A x \in DOMAIN groups' : groups'[x] \in Group
         /\ QueryTable(queries')
         /\ QueriesMatchGroups'
<1> DEFINE kept == [g EXCEPT !.replied = @ \/ Replies(g)]
<1>1. CASE Done(g)
  <2>1. groups' = Without(groups, {r})
    BY <1>1 DEF TryResolve
  <2>2. queries' = Without(qs, {i \in DOMAIN qs : qs[i].group = r})
    BY <1>1 DEF TryResolve
  <2>3. /\ DOMAIN groups' = DOMAIN groups \ {r}
        /\ \A x \in DOMAIN groups' : groups'[x] = groups[x]
    BY <2>1 DEF Without
  <2>4. /\ DOMAIN queries' = {i \in DOMAIN qs : qs[i].group # r}
        /\ \A i \in DOMAIN queries' : queries'[i] = qs[i]
    BY <2>2 DEF Without
  <2>5. QueriesMatchGroups'
    BY <2>3, <2>4 DEF QueriesMatchGroups, MatchWith
  <2> QED
    BY <2>3, <2>4, <2>5 DEF TypeOK, QueryTable
<1>2. CASE ~Done(g)
  <2>1. groups' = With(groups, r, kept) /\ queries' = qs
    BY <1>2 DEF TryResolve
  <2>2. kept.pending = g.pending /\ kept \in Group
    BY <1>2, Zenon DEF AnyGroup, Group, Done, Replies
  <2> HIDE DEF kept
  <2>3. /\ DOMAIN groups' = DOMAIN groups \cup {r}
        /\ groups'[r] = kept
        /\ \A x \in DOMAIN groups \ {r} : groups'[x] = groups[x]
    BY <2>1 DEF With
  <2>4. QueriesMatchGroups'
    BY <2>1, <2>2, <2>3 DEF QueriesMatchGroups, MatchWith
  <2> QED
    BY <2>1, <2>2, <2>3, <2>4 DEF TypeOK
<1> QED
  BY <1>1, <1>2

\* Requests after the call: whoever waits has a group that has not replied.
LEMMA TryResolveRequests ==
  ASSUME IInv, NEW r \in Requests, NEW g \in AnyGroup, NEW qs,
         state[r] = "answered" <=> g.replied,
         g.replied \/ state[r] \in {"asked", "waiting"},
         TryResolve(r, g, qs)
  PROVE  /\ state' \in [Requests -> {"new", "asked", "waiting", "answered"}]
         /\ NobodyForgotten' /\ RepliedAnswered'
<1> DEFINE kept == [g EXCEPT !.replied = @ \/ Replies(g)]
<1>1. /\ state \in [Requests -> {"new", "asked", "waiting", "answered"}]
      /\ DOMAIN groups \subseteq Requests
  BY DEF IInv, TypeOK
<1>2. state' = [state EXCEPT ![r] = IF g.replied \/ Replies(g) THEN "answered" ELSE "waiting"]
  <2>1. CASE Replies(g)
    BY <2>1 DEF TryResolve, Answered
  <2>2. CASE ~Replies(g) /\ g.replied
    BY <2>2, <1>1 DEF TryResolve
  <2>3. CASE ~Replies(g) /\ ~g.replied
    BY <2>3, <1>1 DEF TryResolve
  <2> QED
    BY <2>1, <2>2, <2>3
<1>3. \A x \in Requests \ {r} :
        /\ x \in DOMAIN groups' <=> x \in DOMAIN groups
        /\ x \in DOMAIN groups => groups'[x] = groups[x]
        /\ state'[x] = state[x]
  BY <1>1, <1>2 DEF TryResolve, With, Without
<1>4. r \in DOMAIN groups' <=> ~Done(g)
  BY DEF TryResolve, With, Without
<1>5. ~Done(g) => groups'[r].replied = (g.replied \/ Replies(g))
  <2>1. kept.replied = (g.replied \/ Replies(g))
    BY Zenon DEF AnyGroup, Replies
  <2>2. ~Done(g) => groups'[r] = kept
    BY DEF TryResolve, With
  <2> QED
    BY <2>1, <2>2
<1>6. Done(g) => g.replied \/ Replies(g)
  BY DEF Replies
<1>7. /\ state'[r] = IF g.replied \/ Replies(g) THEN "answered" ELSE "waiting"
      /\ state' \in [Requests -> {"new", "asked", "waiting", "answered"}]
  BY <1>1, <1>2
<1>8. state'[r] = "waiting" <=> (r \in DOMAIN groups' /\ ~groups'[r].replied)
  BY <1>4, <1>5, <1>6, <1>7
<1>9. NobodyForgotten'
  <2>1. \A x \in Requests : state[x] = "waiting" <=> (x \in DOMAIN groups /\ ~groups[x].replied)
    BY DEF IInv, NobodyForgotten
  <2>2. ASSUME NEW x \in Requests
        PROVE  state'[x] = "waiting" <=> (x \in DOMAIN groups' /\ ~groups'[x].replied)
    <3>1. CASE x = r
      BY <3>1, <1>8, Zenon
    <3>2. CASE x # r
      <4>1. /\ x \in DOMAIN groups' <=> x \in DOMAIN groups
            /\ x \in DOMAIN groups => groups'[x] = groups[x]
            /\ state'[x] = state[x]
        BY <3>2, <1>3
      <4>2. state[x] = "waiting" <=> (x \in DOMAIN groups /\ ~groups[x].replied)
        BY <2>1
      <4>3. CASE x \in DOMAIN groups
        BY <4>1, <4>2, <4>3, Zenon
      <4>4. CASE x \notin DOMAIN groups
        BY <4>1, <4>2, <4>4, Zenon
      <4> QED
        BY <4>3, <4>4
    <3> QED
      BY <3>1, <3>2
  <2> QED
    BY <2>2, Zenon DEF NobodyForgotten
<1>10. r \in DOMAIN groups' /\ groups'[r].replied => state'[r] = "answered"
  BY <1>4, <1>5, <1>7
<1>11. DOMAIN groups' \subseteq Requests
  BY <1>1, <1>3 DEF TryResolve, With, Without
<1>12. RepliedAnswered'
  <2>1. \A x \in DOMAIN groups : groups[x].replied => state[x] = "answered"
    BY DEF IInv, RepliedAnswered
  <2>2. ASSUME NEW x \in DOMAIN groups', groups'[x].replied
        PROVE  state'[x] = "answered"
    <3>1. CASE x = r
      BY <3>1, <2>2, <1>10, Zenon
    <3>2. CASE x # r
      <4>1. x \in Requests \ {r}
        BY <3>2, <1>11
      <4>2. x \in DOMAIN groups /\ groups'[x] = groups[x] /\ state'[x] = state[x]
        BY <4>1, <1>3, Zenon
      <4>3. groups[x].replied
        BY <4>2, <2>2, Zenon
      <4>4. state[x] = "answered"
        BY <4>2, <4>3, <2>1, Zenon
      <4> QED
        BY <4>2, <4>4
    <3> QED
      BY <3>1, <3>2
  <2> QED
    BY <2>2, Zenon DEF RepliedAnswered
<1> QED
  BY <1>7, <1>9, <1>12

\* Addresses after the call: those of the group go to its request and to
\* the entry of its domain in the cache.
LEMMA TryResolveAddresses ==
  ASSUME IInv, NEW r \in Requests, NEW g \in AnyGroup, NEW qs,
         g.replied \/ state[r] \in {"asked", "waiting"},
         g.domain = request[r].domain,
         \A f \in Families : \A a \in g.result[f] : a.domain = request[r].domain,
         TryResolve(r, g, qs), request' = request
  PROVE  /\ got' \in [Requests -> SUBSET Address]
         /\ cache' \in [Domains -> SUBSET Address]
         /\ AnswersOwnDomain' /\ GotOnceAnswered' /\ GroupsOwnDomain'
<1> DEFINE kept == [g EXCEPT !.replied = @ \/ Replies(g)]
<1>1. /\ state \in [Requests -> {"new", "asked", "waiting", "answered"}]
      /\ got \in [Requests -> SUBSET Address]
      /\ cache \in [Domains -> SUBSET Address]
      /\ DOMAIN groups \subseteq Requests
  BY DEF IInv, TypeOK
<1>2. /\ Found(g) \in SUBSET Address /\ g.domain \in Domains
      /\ \A a \in Found(g) : a.domain = request[r].domain
  BY DEF Found, AnyGroup
<1>3. /\ Reply(g) \in SUBSET Address
      /\ \A a \in Reply(g) : a.domain = request[r].domain
  BY <1>2 DEF Reply, Preferred, AnyGroup
<1>4. /\ cache' \in [Domains -> SUBSET Address]
      /\ \A d \in Domains : \A a \in cache'[d] : a.domain = d
  <2>1. CASE Done(g) /\ Found(g) # {}
    <3>1. cache' = [cache EXCEPT ![g.domain] = Found(g)]
      BY <2>1 DEF TryResolve
    <3> QED
      BY <3>1, <1>1, <1>2 DEF IInv, AnswersOwnDomain
  <2>2. CASE ~(Done(g) /\ Found(g) # {})
    BY <2>2, <1>1 DEF TryResolve, IInv, AnswersOwnDomain
  <2> QED
    BY <2>1, <2>2
<1>5. /\ got' \in [Requests -> SUBSET Address]
      /\ \A x \in Requests : \A a \in got'[x] : a.domain = request[x].domain
      /\ GotOnceAnswered'
  <2>1. CASE Replies(g)
    <3>1. /\ got' = [got EXCEPT ![r] = Reply(g)]
          /\ state' = [state EXCEPT ![r] = "answered"]
      BY <2>1 DEF TryResolve, Answered
    <3> QED
      BY <3>1, <1>1, <1>3 DEF IInv, AnswersOwnDomain, GotOnceAnswered
  <2>2. CASE ~Replies(g)
    <3>1. /\ got' = got
          /\ state' = [state EXCEPT ![r] = IF g.replied THEN @ ELSE "waiting"]
      BY <2>2 DEF TryResolve
    <3>2. \A x \in Requests : state'[x] # "answered" => state[x] # "answered"
      BY <3>1, <1>1
    <3> QED
      BY <3>1, <3>2, <1>1 DEF IInv, AnswersOwnDomain, GotOnceAnswered
  <2> QED
    BY <2>1, <2>2
<1>6. GroupsOwnDomain'
  <2>1. CASE Done(g)
    BY <2>1 DEF TryResolve, Without, IInv, GroupsOwnDomain
  <2>2. CASE ~Done(g)
    <3>1. kept.domain = g.domain /\ kept.result = g.result
      BY Zenon DEF AnyGroup
    <3>2. groups' = With(groups, r, kept)
      BY <2>2 DEF TryResolve
    <3> HIDE DEF kept
    <3> QED
      BY <3>1, <3>2 DEF With, IInv, GroupsOwnDomain
  <2> QED
    BY <2>1, <2>2
<1> QED
  BY <1>4, <1>5, <1>6 DEF AnswersOwnDomain

-----------------------------------------------------------------------------
(* Every action keeps the invariant.                                       *)

LEMMA NoGroupBeforeAnswer ==
  ASSUME IInv, NEW r \in Requests, state[r] \in {"new", "asked"}
  PROVE  r \notin DOMAIN groups /\ got[r] = {}
<1>1. got[r] = {}
  BY DEF IInv, GotOnceAnswered
<1>2. ASSUME r \in DOMAIN groups PROVE FALSE
  <2>1. groups[r].replied
    BY <1>2 DEF IInv, NobodyForgotten
  <2>2. state[r] = "answered"
    BY <1>2, <2>1 DEF IInv, RepliedAnswered
  <2> QED
    BY <2>2
<1> QED
  BY <1>1, <1>2

LEMMA InitIInv == Init => IInv
<1> SUFFICES ASSUME Init PROVE IInv
  OBVIOUS
<1>1. DOMAIN groups = {} /\ DOMAIN queries = {}
  BY DEF Init
<1>2. Request # {}
  <2>1. PICK d \in Domains, p \in Prefer : TRUE
    BY RequestsAssumption, PreferAssumption
  <2>2. [domain |-> d, prefer |-> p, all |-> TRUE] \in Request
    BY Zenon DEF Request
  <2> QED
    BY <2>2
<1>3. (CHOOSE q \in Request : TRUE) \in Request
  BY <1>2
<1>4. TypeOK
  <2>1. request \in [Requests -> Request]
    BY <1>3 DEF Init
  <2>2. /\ state \in [Requests -> {"new", "asked", "waiting", "answered"}]
        /\ got \in [Requests -> SUBSET Address]
        /\ cache \in [Domains -> SUBSET Address]
    BY DEF Init
  <2>3. flight \subseteq Answer /\ polling \in BOOLEAN /\ up \in BOOLEAN
    BY DEF Init
  <2>4. inbox \in Seq(Answer)
    BY DEF Init
  <2> QED
    BY <1>1, <2>1, <2>2, <2>3, <2>4 DEF TypeOK
<1>5. QueriesMatchGroups /\ NobodyForgotten /\ RepliedAnswered /\ GroupsOwnDomain
  BY <1>1 DEF Init, QueriesMatchGroups, NobodyForgotten, RepliedAnswered, GroupsOwnDomain
<1>6. AnswersOwnDomain /\ GotOnceAnswered /\ InboxOnlyInPoll
  BY DEF Init, AnswersOwnDomain, GotOnceAnswered, InboxOnlyInPoll
<1>7. AnswersMatchQueries
  BY <1>1 DEF Init, AnswersMatchQueries, OwnAnswer
<1> QED
  BY <1>4, <1>5, <1>6, <1>7 DEF IInv

LEMMA AskIInv ==
  ASSUME IInv, NEW r \in Requests, Ask(r)
  PROVE  IInv'
<1>1. PICK q \in Request : request' = [request EXCEPT ![r] = q]
  BY DEF Ask
<1>2. /\ state[r] = "new" /\ state' = [state EXCEPT ![r] = "asked"]
      /\ UNCHANGED <<got, groups, queries, cache, flight, inbox, polling, up>>
  BY DEF Ask, tableVars
<1>3. r \notin DOMAIN groups /\ got[r] = {}
  BY <1>2, NoGroupBeforeAnswer
<1>4. TypeOK /\ QueriesMatchGroups
  BY DEF IInv
<1>5. TypeOK'
  BY <1>1, <1>2, <1>4 DEF TypeOK
<1>6. /\ \A x \in Requests : x # r => request'[x] = request[x] /\ state'[x] = state[x]
      /\ state'[r] = "asked"
  BY <1>1, <1>2, <1>4 DEF TypeOK
<1>7. \A x \in DOMAIN groups : x \in Requests /\ x # r
  BY <1>3, <1>4 DEF TypeOK
<1>8. QueriesMatchGroups'
  BY <1>2, <1>4 DEF QueriesMatchGroups
<1>9. NobodyForgotten'
  BY <1>2, <1>3, <1>6 DEF IInv, NobodyForgotten
<1>10. RepliedAnswered'
  BY <1>2, <1>6, <1>7 DEF IInv, RepliedAnswered
<1>11. GroupsOwnDomain'
  BY <1>2, <1>6, <1>7 DEF IInv, GroupsOwnDomain
<1>12. GotOnceAnswered'
  BY <1>2, <1>3, <1>6 DEF IInv, GotOnceAnswered
<1>13. AnswersOwnDomain'
  BY <1>2, <1>3, <1>6 DEF IInv, AnswersOwnDomain
<1>14. \A i \in DOMAIN queries : request'[queries[i].group] = request[queries[i].group]
  BY <1>4, <1>6, <1>7 DEF QueriesMatchGroups
<1>15. AnswersMatchQueries'
  BY <1>2, <1>14 DEF IInv, AnswersMatchQueries, OwnAnswer
<1>16. InboxOnlyInPoll'
  BY <1>2 DEF IInv, InboxOnlyInPoll
<1> QED
  BY <1>5, <1>8, <1>9, <1>10, <1>11, <1>12, <1>13, <1>15, <1>16 DEF IInv

LEMMA CacheForgetsIInv ==
  ASSUME IInv, NEW d \in Domains, CacheForgets(d)
  PROVE  IInv'
<1>1. PICK rest \in SUBSET cache[d] : cache' = [cache EXCEPT ![d] = rest]
  BY DEF CacheForgets
<1>2. UNCHANGED <<request, state, got, groups, queries, flight, inbox, polling, up>>
  BY DEF CacheForgets, requestVars
<1>3. TypeOK
  BY DEF IInv
<1>4. TypeOK'
  BY <1>1, <1>2, <1>3 DEF TypeOK
<1>5. \A e \in Domains : cache'[e] \subseteq cache[e]
  BY <1>1, <1>3 DEF TypeOK
<1>6. AnswersOwnDomain'
  BY <1>2, <1>5 DEF IInv, AnswersOwnDomain
<1>7. (QueriesMatchGroups /\ NobodyForgotten /\ RepliedAnswered /\ GotOnceAnswered)'
  BY <1>2 DEF IInv, QueriesMatchGroups, NobodyForgotten, RepliedAnswered, GotOnceAnswered
<1>8. (GroupsOwnDomain /\ AnswersMatchQueries /\ InboxOnlyInPoll)'
  BY <1>2 DEF IInv, GroupsOwnDomain, AnswersMatchQueries, OwnAnswer, InboxOnlyInPoll
<1> QED
  BY <1>4, <1>6, <1>7, <1>8 DEF IInv

\* A request that has no group is answered at once.
LEMMA AnsweredIInv ==
  ASSUME IInv, NEW r \in Requests, state[r] = "asked", NEW addresses \in SUBSET Address,
         \A a \in addresses : a.domain = request[r].domain,
         Answered(r, addresses),
         UNCHANGED <<request, groups, queries, cache, flight, inbox, polling, up>>
  PROVE  IInv'
<1>1. r \notin DOMAIN groups
  BY NoGroupBeforeAnswer
<1>2. TypeOK
  BY DEF IInv
<1>3. /\ state' = [state EXCEPT ![r] = "answered"]
      /\ got' = [got EXCEPT ![r] = addresses]
  BY DEF Answered
<1>4. TypeOK'
  BY <1>2, <1>3 DEF TypeOK
<1>5. /\ \A x \in Requests : x # r => state'[x] = state[x] /\ got'[x] = got[x]
      /\ state'[r] = "answered" /\ got'[r] = addresses
  BY <1>2, <1>3 DEF TypeOK
<1>6. NobodyForgotten'
  BY <1>1, <1>5 DEF IInv, NobodyForgotten
<1>7. RepliedAnswered'
  BY <1>2, <1>5 DEF IInv, RepliedAnswered, TypeOK
<1>8. GotOnceAnswered'
  BY <1>5 DEF IInv, GotOnceAnswered
<1>9. AnswersOwnDomain'
  BY <1>5 DEF IInv, AnswersOwnDomain
<1>10. (QueriesMatchGroups /\ GroupsOwnDomain /\ AnswersMatchQueries /\ InboxOnlyInPoll)'
  BY DEF IInv, QueriesMatchGroups, GroupsOwnDomain, AnswersMatchQueries, OwnAnswer,
         InboxOnlyInPoll
<1> QED
  BY <1>4, <1>6, <1>7, <1>8, <1>9, <1>10 DEF IInv

LEMMA ResolveCachedIInv ==
  ASSUME IInv, NEW r \in Requests, ResolveCached(r)
  PROVE  IInv'
<1>1. /\ state[r] = "asked" /\ Answered(r, FromCache(request[r]))
      /\ UNCHANGED <<request, groups, queries, cache, flight, inbox, polling, up>>
  BY DEF ResolveCached, tableVars
<1>2. request[r].domain \in Domains /\ cache[request[r].domain] \subseteq Address
  BY DEF IInv, TypeOK, Request
<1>3. FromCache(request[r]) \subseteq cache[request[r].domain]
  BY DEF FromCache
<1>4. \A a \in FromCache(request[r]) : a.domain = request[r].domain
  BY <1>2, <1>3 DEF IInv, AnswersOwnDomain
<1> QED
  BY <1>1, <1>2, <1>3, <1>4, AnsweredIInv

LEMMA ResolveDisconnectedIInv ==
  ASSUME IInv, NEW r \in Requests, ResolveDisconnected(r)
  PROVE  IInv'
<1>1. /\ state[r] = "asked" /\ Answered(r, {})
      /\ UNCHANGED <<request, groups, queries, cache, flight, inbox, polling, up>>
  BY DEF ResolveDisconnected, tableVars
<1> QED
  BY <1>1, AnsweredIInv

LEMMA PollIInv ==
  ASSUME IInv, Poll
  PROVE  IInv'
<1>1. PICK n \in 0 .. MaxArrivals : \E arrived \in [1 .. n -> flight] : inbox' = arrived
  BY DEF Poll
<1>2. /\ polling' = TRUE
      /\ UNCHANGED <<request, state, got, groups, queries, cache, flight, up>>
  BY DEF Poll, requestVars, tableVars
<1>3. TypeOK
  BY DEF IInv
<1>4. n \in Nat /\ inbox' \in [1 .. n -> flight]
  BY <1>1, ArrivalsAssumption
<1>5. inbox' \in Seq(Answer)
  <2>1. flight \subseteq Answer
    BY <1>3 DEF TypeOK
  <2> QED
    BY <1>4, <2>1
<1>6. TypeOK'
  BY <1>2, <1>3, <1>5 DEF TypeOK
<1>7. AnswersMatchQueries'
  BY <1>2, <1>4 DEF IInv, AnswersMatchQueries, OwnAnswer
<1>8. (QueriesMatchGroups /\ NobodyForgotten /\ RepliedAnswered /\ GotOnceAnswered)'
  BY <1>2 DEF IInv, QueriesMatchGroups, NobodyForgotten, RepliedAnswered, GotOnceAnswered
<1>9. (GroupsOwnDomain /\ AnswersOwnDomain /\ InboxOnlyInPoll)'
  BY <1>2 DEF IInv, GroupsOwnDomain, AnswersOwnDomain, InboxOnlyInPoll
<1> QED
  BY <1>6, <1>7, <1>8, <1>9 DEF IInv

LEMMA FiveSecondsIInv ==
  ASSUME IInv, NEW r \in Requests, FiveSeconds(r)
  PROVE  IInv'
<1> DEFINE late == [groups[r] EXCEPT !.overdue = TRUE]
<1>1. /\ r \in DOMAIN groups
      /\ groups' = [groups EXCEPT ![r] = late]
      /\ UNCHANGED <<request, state, got, queries, cache, flight, inbox, polling, up>>
  BY DEF FiveSeconds, requestVars
<1>2. TypeOK
  BY DEF IInv
<1>3. groups[r] \in Group
  BY <1>1, <1>2 DEF TypeOK
<1>4. /\ late \in Group
      /\ late.domain = groups[r].domain /\ late.replied = groups[r].replied
      /\ late.pending = groups[r].pending /\ late.result = groups[r].result
  BY <1>3, Zenon DEF Group
<1> HIDE DEF late
<1>5. /\ DOMAIN groups' = DOMAIN groups /\ groups'[r] = late
      /\ \A x \in DOMAIN groups : x # r => groups'[x] = groups[x]
  BY <1>1
<1>6. \A x \in DOMAIN groups :
        /\ groups'[x] \in Group
        /\ groups'[x].domain = groups[x].domain /\ groups'[x].replied = groups[x].replied
        /\ groups'[x].pending = groups[x].pending /\ groups'[x].result = groups[x].result
  <2> TAKE x \in DOMAIN groups
  <2>1. CASE x = r
    BY <2>1, <1>4, <1>5, Zenon
  <2>2. CASE x # r
    <3>1. groups'[x] = groups[x]
      BY <2>2, <1>5
    <3>2. groups[x] \in Group
      BY <1>2 DEF TypeOK
    <3> QED
      BY <3>1, <3>2, Zenon
  <2> QED
    BY <2>1, <2>2
<1>7. TypeOK'
  BY <1>1, <1>2, <1>5, <1>6 DEF TypeOK
<1>8. QueriesMatchGroups'
  BY <1>1, <1>5, <1>6 DEF IInv, QueriesMatchGroups
<1>9. NobodyForgotten'
  <2>1. ASSUME NEW x \in Requests
        PROVE  state'[x] = "waiting" <=> (x \in DOMAIN groups' /\ ~groups'[x].replied)
    <3>1. state[x] = "waiting" <=> (x \in DOMAIN groups /\ ~groups[x].replied)
      BY DEF IInv, NobodyForgotten
    <3>2. CASE x \in DOMAIN groups
      BY <3>1, <3>2, <1>1, <1>5, <1>6, Zenon
    <3>3. CASE x \notin DOMAIN groups
      BY <3>1, <3>3, <1>1, <1>5, Zenon
    <3> QED
      BY <3>2, <3>3
  <2> QED
    BY <2>1, Zenon DEF NobodyForgotten
<1>10. RepliedAnswered'
  BY <1>1, <1>5, <1>6, Zenon DEF IInv, RepliedAnswered
<1>11. GroupsOwnDomain'
  BY <1>1, <1>5, <1>6 DEF IInv, GroupsOwnDomain
<1>12. (AnswersOwnDomain /\ GotOnceAnswered /\ AnswersMatchQueries /\ InboxOnlyInPoll)'
  BY <1>1 DEF IInv, AnswersOwnDomain, GotOnceAnswered, AnswersMatchQueries, OwnAnswer,
              InboxOnlyInPoll
<1> QED
  BY <1>7, <1>8, <1>9, <1>10, <1>11, <1>12 DEF IInv

LEMMA ExpireDnsGroupsIInv ==
  ASSUME IInv, ExpireDnsGroups
  PROVE  IInv'
<1>1. /\ inbox = << >>
      /\ groups' = Without(groups, Overdue)
      /\ queries' = Without(queries, QueriesOf(Overdue))
      /\ state' = [r \in Requests |-> IF r \in Overdue THEN "answered" ELSE state[r]]
      /\ polling' = FALSE
      /\ UNCHANGED <<request, got, cache, flight, inbox, up>>
  BY DEF ExpireDnsGroups
<1>2. TypeOK
  BY DEF IInv
<1>3. /\ DOMAIN groups' = DOMAIN groups \ Overdue
      /\ \A x \in DOMAIN groups' : groups'[x] = groups[x]
  BY <1>1 DEF Without
<1>4. /\ DOMAIN queries' = {i \in DOMAIN queries : queries[i].group \notin Overdue}
      /\ \A i \in DOMAIN queries' : queries'[i] = queries[i]
  BY <1>1 DEF Without, QueriesOf
<1>5. Overdue \subseteq DOMAIN groups
  BY DEF Overdue
<1>6. \A x \in Requests : state'[x] = IF x \in Overdue THEN "answered" ELSE state[x]
  BY <1>1
<1>7. TypeOK'
  BY <1>1, <1>2, <1>3, <1>4 DEF TypeOK
<1>8. QueriesMatchGroups'
  BY <1>3, <1>4 DEF IInv, QueriesMatchGroups
<1>9. NobodyForgotten'
  <2>1. ASSUME NEW x \in Requests
        PROVE  state'[x] = "waiting" <=> (x \in DOMAIN groups' /\ ~groups'[x].replied)
    <3>1. state[x] = "waiting" <=> (x \in DOMAIN groups /\ ~groups[x].replied)
      BY DEF IInv, NobodyForgotten
    <3>2. CASE x \in Overdue
      BY <3>2, <1>3, <1>6
    <3>3. CASE x \notin Overdue /\ x \in DOMAIN groups
      <4>1. x \in DOMAIN groups' /\ groups'[x] = groups[x] /\ state'[x] = state[x]
        BY <3>3, <1>3, <1>6
      <4> QED
        BY <3>1, <3>3, <4>1, Zenon
    <3>4. CASE x \notin DOMAIN groups
      <4>1. x \notin DOMAIN groups' /\ state'[x] = state[x]
        BY <3>4, <1>3, <1>5, <1>6
      <4> QED
        BY <3>1, <3>4, <4>1, Zenon
    <3> QED
      BY <3>2, <3>3, <3>4
  <2> QED
    BY <2>1, Zenon DEF NobodyForgotten
<1>10. RepliedAnswered'
  <2>1. \A x \in DOMAIN groups' : x \in DOMAIN groups /\ state'[x] = state[x]
    BY <1>2, <1>3, <1>6 DEF TypeOK
  <2> QED
    BY <1>3, <2>1, Zenon DEF IInv, RepliedAnswered
<1>11. GroupsOwnDomain'
  BY <1>1, <1>3 DEF IInv, GroupsOwnDomain
<1>12. GotOnceAnswered'
  BY <1>1, <1>6 DEF IInv, GotOnceAnswered
<1>13. AnswersMatchQueries'
  BY <1>1, <1>4 DEF IInv, AnswersMatchQueries, OwnAnswer
<1>14. (AnswersOwnDomain /\ InboxOnlyInPoll)'
  BY <1>1 DEF IInv, AnswersOwnDomain, InboxOnlyInPoll
<1> QED
  BY <1>7, <1>8, <1>9, <1>10, <1>11, <1>12, <1>13, <1>14 DEF IInv

LEMMA EndSessionIInv ==
  ASSUME IInv, EndSession
  PROVE  IInv'
<1>1. /\ ~polling /\ up' = FALSE
      /\ state' = [r \in Requests |-> IF state[r] = "waiting" THEN "answered" ELSE state[r]]
      /\ groups' = << >> /\ queries' = << >>
      /\ cache' = [d \in Domains |-> {}] /\ flight' = {}
      /\ UNCHANGED <<request, got, inbox, polling>>
  BY DEF EndSession, Idle
<1>2. TypeOK
  BY DEF IInv
<1>3. DOMAIN groups' = {} /\ DOMAIN queries' = {}
  BY <1>1
<1>4. TypeOK'
  <2>1. state' \in [Requests -> {"new", "asked", "waiting", "answered"}]
    BY <1>1, <1>2 DEF TypeOK
  <2>2. cache' \in [Domains -> SUBSET Address]
    BY <1>1
  <2> QED
    BY <1>1, <1>2, <1>3, <2>1, <2>2 DEF TypeOK
<1>5. (QueriesMatchGroups /\ RepliedAnswered /\ GroupsOwnDomain)'
  BY <1>3 DEF QueriesMatchGroups, RepliedAnswered, GroupsOwnDomain
<1>6. NobodyForgotten'
  BY <1>1, <1>3 DEF NobodyForgotten
<1>7. GotOnceAnswered'
  BY <1>1 DEF IInv, GotOnceAnswered
<1>8. AnswersMatchQueries'
  BY <1>3 DEF AnswersMatchQueries, OwnAnswer
<1>9. (AnswersOwnDomain /\ InboxOnlyInPoll)'
  BY <1>1 DEF IInv, AnswersOwnDomain, InboxOnlyInPoll
<1> QED
  BY <1>4, <1>5, <1>6, <1>7, <1>8, <1>9 DEF IInv

LEMMA UnchangedIInv ==
  ASSUME IInv, UNCHANGED <<request, state, got, groups, queries, cache, flight, inbox, polling>>,
         up' \in BOOLEAN
  PROVE  IInv'
<1>1. TypeOK'
  BY DEF IInv, TypeOK
<1>2. (QueriesMatchGroups /\ NobodyForgotten /\ RepliedAnswered /\ GotOnceAnswered)'
  BY DEF IInv, QueriesMatchGroups, NobodyForgotten, RepliedAnswered, GotOnceAnswered
<1>3. (GroupsOwnDomain /\ AnswersOwnDomain /\ AnswersMatchQueries /\ InboxOnlyInPoll)'
  BY DEF IInv, GroupsOwnDomain, AnswersOwnDomain, AnswersMatchQueries, OwnAnswer,
         InboxOnlyInPoll
<1> QED
  BY <1>1, <1>2, <1>3 DEF IInv

\* What is left of the queries after a call of try_resolve_dns_group.
LEMMA TryResolveQueries ==
  ASSUME NEW r, NEW g, NEW qs, TryResolve(r, g, qs)
  PROVE  DOMAIN queries' \subseteq DOMAIN qs /\ \A i \in DOMAIN queries' : queries'[i] = qs[i]
  BY DEF TryResolve, Without

LEMMA ProcessResponseIInv ==
  ASSUME IInv, ProcessResponse
  PROVE  IInv'
<1> DEFINE a == Head(inbox)
           q == queries[a.id]
           r == q.group
           f == q.family
           left == Without(queries, {a.id})
<1>1. /\ polling /\ inbox # << >> /\ inbox' = Tail(inbox)
      /\ UNCHANGED <<request, flight, polling, up>>
  BY DEF ProcessResponse
<1>2. TypeOK
  BY DEF IInv
<1>3. inbox \in Seq(Answer)
  BY <1>2 DEF TypeOK
<1>4. /\ a \in Answer /\ a = inbox[1] /\ 1 \in DOMAIN inbox
      /\ inbox' \in Seq(Answer)
      /\ \A n \in DOMAIN inbox' : n + 1 \in DOMAIN inbox /\ inbox'[n] = inbox[n + 1]
  BY <1>1, <1>3
<1>5. OwnAnswer(a)
  BY <1>4 DEF IInv, AnswersMatchQueries
<1>6. InboxOnlyInPoll'
  BY <1>1 DEF InboxOnlyInPoll
<1>7. ASSUME DOMAIN queries' \subseteq DOMAIN queries,
             \A i \in DOMAIN queries' : queries'[i] = queries[i]
      PROVE  AnswersMatchQueries'
  <2>1. /\ \A b \in flight : OwnAnswer(b)
        /\ \A n \in DOMAIN inbox : OwnAnswer(inbox[n])
    BY DEF IInv, AnswersMatchQueries
  <2> QED
    BY <1>1, <1>4, <1>7, <2>1 DEF AnswersMatchQueries, OwnAnswer
<1>8. CASE a.id \notin DOMAIN queries
  <2>1. UNCHANGED <<groups, queries, cache, state, got>>
    BY <1>8 DEF ProcessResponse, tableVars
  <2>2. TypeOK'
    BY <1>1, <1>2, <1>4, <2>1 DEF TypeOK
  <2>3. AnswersMatchQueries'
    BY <1>7, <2>1
  <2>4. (QueriesMatchGroups /\ NobodyForgotten /\ RepliedAnswered /\ GotOnceAnswered)'
    BY <2>1 DEF IInv, QueriesMatchGroups, NobodyForgotten, RepliedAnswered, GotOnceAnswered
  <2>5. (GroupsOwnDomain /\ AnswersOwnDomain)'
    BY <1>1, <2>1 DEF IInv, GroupsOwnDomain, AnswersOwnDomain
  <2> QED
    BY <1>6, <2>2, <2>3, <2>4, <2>5 DEF IInv
<1>9. CASE a.id \in DOMAIN queries
  <2>1. PICK content \in Contents(a) :
          TryResolve(r, [groups[r] EXCEPT !.pending = @ \ {f}, !.result[f] = content], left)
    BY <1>9 DEF ProcessResponse
  <2> DEFINE g == [groups[r] EXCEPT !.pending = @ \ {f}, !.result[f] = content]
  <2>2. TryResolve(r, g, left)
    BY <2>1
  <2>3. /\ q \in Query /\ r \in DOMAIN groups /\ r \in Requests
        /\ f \in groups[r].pending /\ f \in Families
        /\ q = [group |-> r, family |-> f]
    <3>1. q \in Query
      BY <1>2, <1>9 DEF TypeOK
    <3>2. r \in DOMAIN groups /\ f \in groups[r].pending
      BY <1>9 DEF IInv, QueriesMatchGroups
    <3> QED
      BY <3>1, <3>2 DEF Query
  <2>4. groups[r] \in Group
    BY <1>2, <2>3 DEF TypeOK
  <2>5. /\ content \in SUBSET Address
        /\ \A b \in content : b.domain = request[r].domain
    <3>1. a.about \in Address
      BY <1>4 DEF Answer
    <3>2. a.about.domain = request[r].domain
      BY <1>5, <1>9 DEF OwnAnswer
    <3> HIDE DEF a, r
    <3> QED
      BY <3>1, <3>2 DEF Contents
  <2> HIDE DEF a, q, r, f
  <2>6. /\ g.pending = groups[r].pending \ {f}
        /\ g.result = [groups[r].result EXCEPT ![f] = content]
        /\ g.replied = groups[r].replied /\ g.domain = groups[r].domain
        /\ g.prefer = groups[r].prefer /\ g.all = groups[r].all
        /\ g.overdue = groups[r].overdue
    BY <2>4, Zenon DEF Group
  <2>7. g \in AnyGroup
    <3>1. /\ g.pending \in SUBSET Families
          /\ g.result \in [Families -> SUBSET Address]
      BY <2>4, <2>5, <2>6 DEF Group
    <3>2. groups[r] \in AnyGroup
      BY <2>4, Zenon DEF Group, AnyGroup
    <3>3. [groups[r] EXCEPT !.pending = g.pending] \in AnyGroup
      BY <3>1, <3>2, Zenon DEF AnyGroup
    <3>4. [[groups[r] EXCEPT !.pending = g.pending] EXCEPT !.result = g.result] \in AnyGroup
      BY <3>1, <3>3, Zenon DEF AnyGroup
    <3>5. g = [[groups[r] EXCEPT !.pending = g.pending] EXCEPT !.result = g.result]
      BY <2>6, Zenon
    <3> QED
      BY <3>4, <3>5, Zenon
  <2>8. /\ g.domain = request[r].domain
        /\ \A e \in Families : \A b \in g.result[e] : b.domain = request[r].domain
    <3>1. /\ groups[r].domain = request[r].domain
          /\ \A e \in Families : \A b \in groups[r].result[e] : b.domain = request[r].domain
      BY <2>3 DEF IInv, GroupsOwnDomain
    <3>2. groups[r].result \in [Families -> SUBSET Address]
      BY <2>4 DEF Group
    <3> HIDE DEF g
    <3> QED
      BY <2>5, <2>6, <3>1, <3>2
  <2>9. /\ state[r] = "answered" <=> g.replied
        /\ g.replied \/ state[r] \in {"asked", "waiting"}
    <3>1. groups[r].replied => state[r] = "answered"
      BY <2>3 DEF IInv, RepliedAnswered
    <3>2. ~groups[r].replied => state[r] = "waiting"
      BY <2>3 DEF IInv, NobodyForgotten
    <3> HIDE DEF g
    <3> QED
      BY <2>6, <3>1, <3>2
  <2> HIDE DEF g
  <2>10. /\ DOMAIN left = DOMAIN queries \ {a.id}
         /\ \A i \in DOMAIN left : left[i] = queries[i]
    BY DEF Without
  <2> HIDE DEF left
  <2>11. QueryTable(left)
    BY <1>2, <2>10 DEF TypeOK, QueryTable
  <2>12. MatchWith(r, g, left)
    <3>1. QueriesMatchGroups /\ queries[a.id] = [group |-> r, family |-> f]
      BY <2>3 DEF IInv, q
    <3>2. \A i \in DOMAIN queries : queries[i] \in Query
      BY <1>2 DEF TypeOK
    <3>3. ASSUME NEW i \in DOMAIN left
          PROVE  /\ left[i].group = r => left[i].family \in g.pending
                 /\ left[i].group # r => /\ left[i].group \in DOMAIN groups
                                         /\ left[i].family \in groups[left[i].group].pending
                 /\ \A j \in DOMAIN left : left[j] = left[i] => j = i
      <4>1. /\ i \in DOMAIN queries /\ i # a.id /\ left[i] = queries[i]
            /\ queries[i] = [group |-> queries[i].group, family |-> queries[i].family]
        BY <2>10, <3>2 DEF Query
      <4>2. /\ queries[i].group \in DOMAIN groups
            /\ queries[i].family \in groups[queries[i].group].pending
            /\ \A j \in DOMAIN queries : queries[j] = queries[i] => j = i
        BY <3>1, <4>1 DEF QueriesMatchGroups
      <4>3. queries[i].group = r => queries[i].family # f
        BY <1>9, <3>1, <4>1, <4>2
      <4> QED
        BY <2>6, <2>10, <4>1, <4>2, <4>3
    <3>4. \A e \in g.pending : \E i \in DOMAIN left : left[i] = [group |-> r, family |-> e]
      <4> TAKE e \in g.pending
      <4>1. e \in groups[r].pending /\ e # f
        BY <2>6
      <4>2. PICK i \in DOMAIN queries : queries[i] = [group |-> r, family |-> e]
        BY <2>3, <3>1, <4>1 DEF QueriesMatchGroups
      <4>3. i # a.id
        BY <3>1, <4>1, <4>2
      <4> QED
        BY <2>10, <4>2, <4>3
    <3>5. \A x \in DOMAIN groups \ {r} : \A e \in groups[x].pending :
            \E i \in DOMAIN left : left[i] = [group |-> x, family |-> e]
      <4> TAKE x \in DOMAIN groups \ {r}
      <4> TAKE e \in groups[x].pending
      <4>1. PICK i \in DOMAIN queries : queries[i] = [group |-> x, family |-> e]
        BY <3>1 DEF QueriesMatchGroups
      <4>2. i # a.id
        BY <3>1, <4>1
      <4> QED
        BY <2>10, <4>1, <4>2
    <3> QED
      BY <3>3, <3>4, <3>5 DEF MatchWith
  <2>13. /\ DOMAIN groups' \subseteq Requests
         /\ \A x \in DOMAIN groups' : groups'[x] \in Group
         /\ QueryTable(queries')
         /\ QueriesMatchGroups'
    BY <1>2, <2>2, <2>3, <2>7, <2>11, <2>12, TryResolveTables
  <2>14. /\ state' \in [Requests -> {"new", "asked", "waiting", "answered"}]
         /\ NobodyForgotten' /\ RepliedAnswered'
    BY <2>2, <2>3, <2>7, <2>9, TryResolveRequests
  <2>15. /\ got' \in [Requests -> SUBSET Address]
         /\ cache' \in [Domains -> SUBSET Address]
         /\ AnswersOwnDomain' /\ GotOnceAnswered' /\ GroupsOwnDomain'
    BY <1>1, <2>2, <2>3, <2>7, <2>8, <2>9, TryResolveAddresses
  <2>16. TypeOK'
    BY <1>1, <1>2, <1>4, <2>13, <2>14, <2>15 DEF TypeOK, QueryTable
  <2>17. AnswersMatchQueries'
    <3>1. DOMAIN queries' \subseteq DOMAIN left /\ \A i \in DOMAIN queries' : queries'[i] = left[i]
      BY <2>2, TryResolveQueries
    <3> QED
      BY <1>7, <2>10, <3>1
  <2> QED
    BY <1>6, <2>13, <2>14, <2>15, <2>16, <2>17 DEF IInv
<1> QED
  BY <1>8, <1>9

LEMMA StartDnsQueryIInv ==
  ASSUME IInv, NEW r \in Requests, StartDnsQuery(r)
  PROVE  IInv'
<1>0. PICK sent \in SUBSET Families : \E ids \in UniqueIds(sent) :
        /\ flight' = FlightWith(r, ids)
        /\ TryResolve(r, NewGroup(request[r], sent), QueriesWith(r, ids))
  BY DEF StartDnsQuery
<1>1. PICK ids \in UniqueIds(sent) :
        /\ flight' = FlightWith(r, ids)
        /\ TryResolve(r, NewGroup(request[r], sent), QueriesWith(r, ids))
  BY <1>0
<1> DEFINE taken == {ids[f] : f \in sent}
           g == NewGroup(request[r], sent)
           more == QueriesWith(r, ids)
<1>2. TryResolve(r, g, more)
  BY <1>1
<1>3. /\ ~polling /\ state[r] = "asked"
      /\ UNCHANGED <<request, inbox, polling, up>>
  BY DEF StartDnsQuery, Idle
<1>4. TypeOK /\ QueriesMatchGroups
  BY DEF IInv
<1>5. /\ ids \in [sent -> Ids \ DOMAIN queries]
      /\ \A e, f \in sent : e # f => ids[e] # ids[f]
  BY DEF UniqueIds
<1>6. r \notin DOMAIN groups
  BY <1>3, NoGroupBeforeAnswer
<1>7. request[r] \in Request
  BY <1>4 DEF TypeOK
<1>8. /\ g \in AnyGroup
      /\ g.pending = sent /\ g.domain = request[r].domain /\ g.replied = FALSE
      /\ \A f \in Families : g.result[f] = {}
  <2>1. g.pending = sent /\ g.domain = request[r].domain /\ g.replied = FALSE
    BY Zenon DEF NewGroup
  <2>2. g.result = [f \in Families |-> {}]
    BY Zenon DEF NewGroup
  <2>3. request[r].domain \in Domains /\ request[r].prefer \in Families /\ request[r].all \in BOOLEAN
    BY <1>7, PreferAssumption, Zenon DEF Request, Families
  <2>4. [f \in Families |-> {}] \in [Families -> SUBSET Address]
    OBVIOUS
  <2>5. g \in AnyGroup
    <3>1. sent \in SUBSET Families /\ FALSE \in BOOLEAN
      OBVIOUS
    <3> QED
      BY <2>3, <2>4, <3>1, Zenon DEF NewGroup, AnyGroup
  <2> QED
    BY <2>1, <2>2, <2>5
<1> HIDE DEF g
<1>9. /\ DOMAIN more = DOMAIN queries \cup taken
      /\ taken \subseteq Ids
      /\ \A i \in DOMAIN queries : i \notin taken /\ more[i] = queries[i]
      /\ \A f \in sent : ids[f] \in taken /\ more[ids[f]] = [group |-> r, family |-> f]
  <2>1. taken \subseteq Ids /\ \A i \in DOMAIN queries : i \notin taken
    BY <1>5
  <2>2. more = [i \in DOMAIN queries \cup taken |->
                  IF i \in taken
                  THEN [group |-> r, family |-> CHOOSE f \in sent : ids[f] = i]
                  ELSE queries[i]]
    <3>1. DOMAIN ids = sent
      BY <1>5
    <3> QED
      BY <3>1 DEF QueriesWith
  <2>3. ASSUME NEW f \in sent
        PROVE  ids[f] \in taken /\ (CHOOSE e \in sent : ids[e] = ids[f]) = f
    BY <1>5
  <2>4. ASSUME NEW f \in sent
        PROVE  more[ids[f]] = [group |-> r, family |-> f]
    <3>1. more[ids[f]] = [group |-> r, family |-> CHOOSE e \in sent : ids[e] = ids[f]]
      BY <2>3, <2>2
    <3> QED
      BY <2>3, <3>1
  <2> QED
    BY <2>1, <2>3, <2>4, <2>2
<1>10. \A i \in taken : \E f \in sent : i = ids[f]
  OBVIOUS
<1> HIDE DEF taken, more
<1>11. QueryTable(more)
  <2>1. ASSUME NEW i \in taken PROVE more[i] \in Query
    <3>1. PICK f \in sent : i = ids[f]
      BY <1>10
    <3>2. more[i] = [group |-> r, family |-> f] /\ f \in Families
      BY <1>9, <3>1
    <3> QED
      BY <3>2 DEF Query
  <2> QED
    BY <1>4, <1>9, <2>1 DEF TypeOK, QueryTable
<1>12. MatchWith(r, g, more)
  <2>1. \A i \in DOMAIN queries : queries[i].group # r
    BY <1>4, <1>6 DEF QueriesMatchGroups
  <2>2. ASSUME NEW i \in DOMAIN queries
        PROVE  /\ more[i].group # r /\ more[i].group \in DOMAIN groups
               /\ more[i].family \in groups[more[i].group].pending
               /\ \A j \in DOMAIN more : more[j] = more[i] => j = i
    <3>1. more[i] = queries[i] /\ queries[i].group # r
      BY <1>9, <2>1
    <3>2. ASSUME NEW j \in DOMAIN more, more[j] = more[i]
          PROVE  j = i
      <4>1. CASE j \in DOMAIN queries
        BY <1>4, <1>9, <3>2, <4>1 DEF QueriesMatchGroups
      <4>2. CASE j \in taken
        <5>1. PICK f \in sent : j = ids[f]
          BY <1>10, <4>2
        <5>2. more[j] = [group |-> r, family |-> f]
          BY <1>9, <5>1
        <5> QED
          BY <3>1, <3>2, <5>2
      <4> QED
        BY <1>9, <4>1, <4>2
    <3> QED
      BY <1>4, <3>1, <3>2 DEF QueriesMatchGroups
  <2>3. ASSUME NEW i \in taken
        PROVE  /\ more[i].group = r /\ more[i].family \in g.pending
               /\ \A j \in DOMAIN more : more[j] = more[i] => j = i
    <3>1. PICK f \in sent : i = ids[f]
      BY <1>10
    <3>2. more[i] = [group |-> r, family |-> f]
      BY <1>9, <3>1
    <3>3. ASSUME NEW j \in DOMAIN more, more[j] = more[i]
          PROVE  j = i
      <4>1. j \notin DOMAIN queries
        BY <1>9, <2>1, <3>2, <3>3
      <4>2. PICK e \in sent : j = ids[e]
        BY <1>9, <1>10, <4>1
      <4>3. more[j] = [group |-> r, family |-> e]
        BY <1>9, <4>2
      <4> QED
        BY <3>1, <3>2, <3>3, <4>2, <4>3
    <3> QED
      BY <1>8, <3>2, <3>3
  <2>4. \A f \in g.pending : \E i \in DOMAIN more : more[i] = [group |-> r, family |-> f]
    BY <1>8, <1>9
  <2>5. \A x \in DOMAIN groups \ {r} : \A f \in groups[x].pending :
          \E i \in DOMAIN more : more[i] = [group |-> x, family |-> f]
    BY <1>4, <1>9 DEF QueriesMatchGroups
  <2> QED
    BY <1>9, <2>2, <2>3, <2>4, <2>5 DEF MatchWith
<1>13. /\ DOMAIN groups' \subseteq Requests
       /\ \A x \in DOMAIN groups' : groups'[x] \in Group
       /\ QueryTable(queries')
       /\ QueriesMatchGroups'
  BY <1>2, <1>4, <1>8, <1>11, <1>12, TryResolveTables
<1>14. /\ state' \in [Requests -> {"new", "asked", "waiting", "answered"}]
       /\ NobodyForgotten' /\ RepliedAnswered'
  <2>1. /\ state[r] = "answered" <=> g.replied
        /\ g.replied \/ state[r] \in {"asked", "waiting"}
    BY <1>3, <1>8
  <2> QED
    BY <1>2, <1>8, <2>1, TryResolveRequests
<1>15. /\ got' \in [Requests -> SUBSET Address]
       /\ cache' \in [Domains -> SUBSET Address]
       /\ AnswersOwnDomain' /\ GotOnceAnswered' /\ GroupsOwnDomain'
  <2>1. /\ g.replied \/ state[r] \in {"asked", "waiting"}
        /\ g.domain = request[r].domain
        /\ \A f \in Families : \A a \in g.result[f] : a.domain = request[r].domain
    BY <1>3, <1>8
  <2> QED
    BY <1>2, <1>3, <1>8, <2>1, TryResolveAddresses
<1>16. \A a \in flight' : \/ a \in flight /\ a.id \notin taken
                          \/ \E f \in sent : a = [id |-> ids[f], about |->
                               [family |-> f, domain |-> request[r].domain]]
  <2>1. DOMAIN ids = sent /\ \A f \in sent : ids[f] \notin DOMAIN queries
    BY <1>5
  <2> QED
    BY <1>1, <2>1 DEF taken, FlightWith
<1>17. flight' \subseteq Answer
  <2>1. request[r].domain \in Domains
    BY <1>7 DEF Request
  <2>2. ASSUME NEW a \in flight' PROVE a \in Answer
    <3>1. CASE a \in flight
      BY <1>4, <3>1 DEF TypeOK
    <3>2. ASSUME NEW f \in sent, a = [id |-> ids[f], about |->
                                        [family |-> f, domain |-> request[r].domain]]
          PROVE  a \in Answer
      <4>1. ids[f] \in Ids /\ f \in Families
        BY <1>5
      <4>2. [family |-> f, domain |-> request[r].domain] \in Address
        BY <2>1, <4>1 DEF Address
      <4> QED
        BY <3>2, <4>1, <4>2 DEF Answer
    <3> QED
      BY <1>16, <3>1, <3>2
  <2> QED
    BY <2>2
<1>18. TypeOK'
  BY <1>3, <1>4, <1>13, <1>14, <1>15, <1>17 DEF TypeOK, QueryTable
<1>19. AnswersMatchQueries'
  <2>1. DOMAIN queries' \subseteq DOMAIN more /\ \A i \in DOMAIN queries' : queries'[i] = more[i]
    BY <1>2, TryResolveQueries
  <2>2. inbox' = << >>
    BY <1>3 DEF IInv, InboxOnlyInPoll
  <2>3. ASSUME NEW a \in flight', a.id \in DOMAIN queries'
        PROVE  a.about.domain = request'[queries'[a.id].group].domain
    <3>1. CASE a \in flight /\ a.id \notin taken
      <4>1. a.id \in DOMAIN queries /\ queries'[a.id] = queries[a.id]
        BY <1>9, <2>1, <2>3, <3>1
      <4> QED
        BY <1>3, <3>1, <4>1 DEF IInv, AnswersMatchQueries, OwnAnswer
    <3>2. CASE \E f \in sent : a = [id |-> ids[f], about |->
                                  [family |-> f, domain |-> request[r].domain]]
      <4>1. PICK f \in sent : a = [id |-> ids[f], about |->
                                  [family |-> f, domain |-> request[r].domain]]
        BY <3>2
      <4>2. queries'[a.id] = [group |-> r, family |-> f]
        BY <1>9, <2>1, <2>3, <4>1
      <4> QED
        BY <1>3, <4>1, <4>2
    <3> QED
      BY <1>16, <3>1, <3>2
  <2> QED
    BY <2>2, <2>3 DEF AnswersMatchQueries, OwnAnswer
<1>20. InboxOnlyInPoll'
  BY <1>3 DEF IInv, InboxOnlyInPoll
<1> QED
  BY <1>13, <1>14, <1>15, <1>18, <1>19, <1>20 DEF IInv

LEMMA NextIInv == IInv /\ [Next]_vars => IInv'
<1> SUFFICES ASSUME IInv, [Next]_vars PROVE IInv'
  OBVIOUS
<1>1. ASSUME NEW r \in Requests, Ask(r) \/ Handler(r) \/ FiveSeconds(r) PROVE IInv'
  BY <1>1, AskIInv, ResolveCachedIInv, StartDnsQueryIInv, ResolveDisconnectedIInv,
     FiveSecondsIInv DEF Handler
<1>2. ASSUME NEW d \in Domains, CacheForgets(d) PROVE IInv'
  BY <1>2, CacheForgetsIInv
<1>3. CASE Poll \/ PollStep \/ EndSession
  BY <1>3, PollIInv, ProcessResponseIInv, ExpireDnsGroupsIInv, EndSessionIInv DEF PollStep
<1>4. CASE StartSession
  BY <1>4, UnchangedIInv DEF StartSession, requestVars, tableVars
<1>5. CASE UNCHANGED vars
  <2>1. up' \in BOOLEAN
    BY <1>5 DEF vars, IInv, TypeOK
  <2> QED
    BY <1>5, <2>1, UnchangedIInv DEF vars
<1> QED
  BY <1>1, <1>2, <1>3, <1>4, <1>5 DEF Next

LEMMA AlwaysIInv == Spec => []IInv
  BY InitIInv, NextIInv, PTL DEF Spec

-----------------------------------------------------------------------------

\* The variables keep their types; in particular no group is left in
\* dns_groups that waits for no result.
THEOREM DnsTypeCorrect == Spec => []TypeOK
<1>1. IInv => TypeOK
  BY DEF IInv
<1> QED
  BY <1>1, AlwaysIInv, PTL

\* dns_queries holds exactly one query for every result that a group of
\* dns_groups waits for, whatever is lost, late or duplicated and whichever
\* groups expire.
THEOREM DnsQueriesMatchGroups == Spec => []QueriesMatchGroups
<1>1. IInv => QueriesMatchGroups
  BY DEF IInv
<1> QED
  BY <1>1, AlwaysIInv, PTL

\* A request waits exactly while dns_groups holds the sender of its answer.
THEOREM DnsNobodyForgotten == Spec => []NobodyForgotten
<1>1. IInv => NobodyForgotten
  BY DEF IInv
<1> QED
  BY <1>1, AlwaysIInv, PTL

\* Requests are answered with addresses of their own domain, and dns_cache
\* holds those of its key, however answers are reordered or repeated.
THEOREM DnsAnswersOwnDomain == Spec => []AnswersOwnDomain
<1>1. IInv => AnswersOwnDomain
  BY DEF IInv
<1> QED
  BY <1>1, AlwaysIInv, PTL

=============================================================================
