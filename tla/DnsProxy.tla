-------------------------------- MODULE DnsProxy --------------------------------
(*******************************************************************************)
(* The embedded DNS server (dns.rs): one loop that receives datagrams into one *)
(* buffer and a detached task per query that posts it to the DoH server and    *)
(* answers its peer, with the DoH reply or with SERVFAIL.                      *)
(*                                                                             *)
(* The HTTP client opens its connection with the first post, which needs the   *)
(* address of the DoH host.  With doh_server_ip, or an address in the URL, it  *)
(* is known; otherwise the system resolver is asked.  Whose server that is the *)
(* platform decides: this very proxy as long as the process's own traffic      *)
(* rides the tunnel (dns.rs:108-114), the network's own where the app is       *)
(* exempt from it.  Both are modelled; what becomes of the post itself in      *)
(* either case is Pipeline's.                                                  *)
(*                                                                             *)
(* A query stands for its own content: the answer to query q is q.             *)
(*******************************************************************************)
EXTENDS Integers, FiniteSets

CONSTANTS
    MaxQueries,             \* bound: datagrams, the resolver's own included
    MayFail                 \* may a post to the DoH server fail?

ASSUME DnsAssumption ==
    /\ MaxQueries \in Nat
    /\ MayFail \in BOOLEAN

Queries == 1..MaxQueries
None == 0

VARIABLES
    pinned,                 \* is the DoH server's address known?
    exempt,                 \* does the app's own traffic bypass the tunnel?
    loop,                   \* the receive loop
    cancelled,              \* the session's Cancel
    buf,                    \* the query whose bytes are in the receive buffer
    asked,                  \* datagrams sent to the proxy so far
    parses,                 \* is a query a well-formed DNS message?
    stage,                  \* what became of each query
    query,                  \* the bytes its task works on
    lookup,                 \* the resolver's query a task waits for
    pooled,                 \* has the HTTP client an open connection?
    answers                 \* replies sent: <<peer's query, kind, bytes answered>>

dnsVars == <<pinned, exempt, loop, cancelled, buf, asked, parses, stage, query, lookup,
             pooled, answers>>

\* "socket": in the UDP socket's queue.  "silent": no reply, it did not parse.
Waiting == {"received", "resolving", "posting"}
Ended == {"answered", "servfail", "silent"}

DnsTypeOK ==
    /\ pinned \in BOOLEAN
    /\ exempt \in BOOLEAN
    /\ loop \in {"open", "ended"}
    /\ cancelled \in BOOLEAN
    /\ buf \in Queries \cup {None}
    /\ asked \in 0..MaxQueries
    /\ parses \in [Queries -> BOOLEAN]
    /\ stage \in [Queries -> {"none", "socket", "lost"} \cup Waiting \cup Ended]
    /\ query \in [Queries -> Queries \cup {None}]
    /\ lookup \in [Queries -> Queries \cup {None}]
    /\ pooled \in BOOLEAN
    /\ answers \subseteq Queries \X {"answer", "servfail"} \X Queries

DnsInit ==
    /\ pinned \in BOOLEAN
    /\ exempt \in BOOLEAN
    /\ loop = "open"
    /\ cancelled = FALSE
    /\ buf = None
    /\ asked = 0
    /\ parses = [q \in Queries |-> FALSE]
    /\ stage = [q \in Queries |-> "none"]
    /\ query = [q \in Queries |-> None]
    /\ lookup = [q \in Queries |-> None]
    /\ pooled = FALSE
    /\ answers = {}

Move(q, from, to) == stage[q] = from /\ stage' = [stage EXCEPT ![q] = to]

\* Each task holds the socket, so it takes datagrams, which are lost, until the
\* last one has ended.
SocketOpen == loop = "open" \/ \E q \in Queries : stage[q] \in Waiting

-----------------------------------------------------------------------------
(* The operating system's resolver, external *)

Ask(wellformed) ==
    /\ asked < MaxQueries
    /\ SocketOpen
    /\ asked' = asked + 1
    /\ Move(asked + 1, "none", IF loop = "open" THEN "socket" ELSE "lost")
    /\ parses' = [parses EXCEPT ![asked + 1] = wellformed]
    /\ UNCHANGED <<pinned, exempt, loop, cancelled, buf, query, lookup, pooled, answers>>

-----------------------------------------------------------------------------
(* The loop *)

\* Mutation: the task is handed the buffer, not a copy of the datagram.
ReceiveShared(q) ==
    /\ loop = "open"
    /\ Move(q, "socket", "received")
    /\ buf' = q
    /\ query' = [p \in Queries |-> IF stage[p] \in Waiting \/ p = q THEN q ELSE query[p]]
    /\ UNCHANGED <<pinned, exempt, loop, cancelled, asked, parses, lookup, pooled, answers>>

Receive(q) ==
    /\ loop = "open"
    /\ Move(q, "socket", "received")
    /\ buf' = q
    /\ query' = [query EXCEPT ![q] = q]
    /\ UNCHANGED <<pinned, exempt, loop, cancelled, asked, parses, lookup, pooled, answers>>

\* A session's part or stop() cancels it.
Cancel ==
    /\ ~cancelled
    /\ cancelled' = TRUE
    /\ UNCHANGED <<pinned, exempt, loop, buf, asked, parses, stage, query, lookup,
                   pooled, answers>>

\* Mutation: the token is looked at after a datagram was received, and only then.
LoopEndsOnReceive ==
    /\ cancelled
    /\ loop = "open"
    /\ \E q \in Queries : stage[q] = "socket"
    /\ loop' = "ended"
    /\ stage' = [q \in Queries |-> IF stage[q] = "socket" THEN "lost" ELSE stage[q]]
    /\ UNCHANGED <<pinned, exempt, cancelled, buf, asked, parses, query, lookup, pooled,
                   answers>>

\* Datagrams nobody received are lost with the loop; the tasks go on.
LoopEnds ==
    /\ cancelled
    /\ loop = "open"
    /\ loop' = "ended"
    /\ stage' = [q \in Queries |-> IF stage[q] = "socket" THEN "lost" ELSE stage[q]]
    /\ UNCHANGED <<pinned, exempt, cancelled, buf, asked, parses, query, lookup, pooled,
                   answers>>

-----------------------------------------------------------------------------
(* The task of a query *)

\* The connection is there, or the known address is dialed.
Post(q) ==
    /\ pooled \/ pinned
    /\ Move(q, "received", "posting")
    /\ UNCHANGED <<pinned, exempt, loop, cancelled, buf, asked, parses, query, lookup,
                   pooled, answers>>

\* getaddrinfo is asked for the DoH host.
NeedsAddress(q) == stage[q] = "received" /\ ~pooled /\ ~pinned

\* It asks this proxy.
Resolve(q) ==
    /\ NeedsAddress(q)
    /\ ~exempt
    /\ asked < MaxQueries
    /\ asked' = asked + 1
    /\ parses' = [parses EXCEPT ![asked + 1] = TRUE]
    /\ lookup' = [lookup EXCEPT ![q] = asked + 1]
    /\ stage' = [stage EXCEPT ![q] = "resolving",
                              ![asked + 1] = IF loop = "open" THEN "socket" ELSE "lost"]
    /\ UNCHANGED <<pinned, exempt, loop, cancelled, buf, query, pooled, answers>>

\* It asks the network's own server, which tells it.
ResolveOutside(q) ==
    /\ NeedsAddress(q)
    /\ exempt
    /\ Move(q, "received", "resolving")
    /\ UNCHANGED <<pinned, exempt, loop, cancelled, buf, asked, parses, query, lookup,
                   pooled, answers>>

FoundOutside(q) ==
    /\ exempt
    /\ Move(q, "resolving", "posting")
    /\ UNCHANGED <<pinned, exempt, loop, cancelled, buf, asked, parses, query, lookup,
                   pooled, answers>>

Reply(q, kind) == answers' = answers \cup {<<q, kind, query[q]>>}

Answer(q) ==
    /\ Move(q, "posting", "answered")
    /\ Reply(q, "answer")
    /\ pooled' = TRUE
    /\ UNCHANGED <<pinned, exempt, loop, cancelled, buf, asked, parses, query, lookup>>

\* forward_doh returns an error: SERVFAIL, if the query parses.
GiveUp(q) ==
    IF parses[query[q]]
    THEN Reply(q, "servfail") /\ stage' = [stage EXCEPT ![q] = "servfail"]
    ELSE UNCHANGED answers /\ stage' = [stage EXCEPT ![q] = "silent"]

\* The resolver's query was dealt with: the post goes out if it was answered.
LookupEnds(q) ==
    /\ stage[q] = "resolving"
    /\ lookup[q] # None
    /\ stage[lookup[q]] \in Ended \cup {"lost"}
    /\ IF stage[lookup[q]] = "answered"
       THEN Move(q, "resolving", "posting") /\ UNCHANGED answers
       ELSE GiveUp(q)
    /\ UNCHANGED <<pinned, exempt, loop, cancelled, buf, asked, parses, query, lookup, pooled>>

\* Bound: the resolver's query is one too many, and counts as lost.
NotAsked(q) ==
    /\ NeedsAddress(q)
    /\ ~exempt
    /\ asked = MaxQueries

\* The server failed the post, or post and lookup took longer than the timeout.
Fail(q) ==
    /\ (MayFail /\ stage[q] \in {"posting", "resolving"}) \/ NotAsked(q)
    /\ GiveUp(q)
    /\ UNCHANGED <<pinned, exempt, loop, cancelled, buf, asked, parses, query, lookup, pooled>>

\* A connection that was idle for 30 s, or broke, is dropped.
PoolDrops ==
    /\ pooled
    /\ MayFail
    /\ pooled' = FALSE
    /\ UNCHANGED <<pinned, exempt, loop, cancelled, buf, asked, parses, stage, query,
                   lookup, answers>>

-----------------------------------------------------------------------------
TaskStep(q) ==
    \/ Post(q) \/ Resolve(q) \/ LookupEnds(q) \/ ResolveOutside(q) \/ FoundOutside(q)
    \/ Answer(q) \/ Fail(q)

DnsNext ==
    \/ \E wellformed \in BOOLEAN : Ask(wellformed)
    \/ Cancel \/ LoopEnds \/ PoolDrops
    \/ \E q \in Queries : Receive(q) \/ TaskStep(q)

DnsSpec == DnsInit /\ [][DnsNext]_dnsVars

(* tokio polls the loop and the tasks, the client's 15 s timeout ends every    *)
(* post, and the resolver times out.  Nobody has to ask or to cancel.          *)
DnsFairSpec ==
    /\ DnsSpec
    /\ WF_dnsVars(LoopEnds)
    /\ \A q \in Queries : WF_dnsVars(Receive(q)) /\ WF_dnsVars(TaskStep(q))

-----------------------------------------------------------------------------
(* Properties *)

\* Whatever comes into the buffer meanwhile, a reply answers the bytes its own
\* peer sent, and nobody gets an answer and a SERVFAIL (dns.rs:67-83).
RepliesAreOwn ==
    \A r \in answers : r[1] = r[3] /\ \A s \in answers : s[1] = r[1] => s = r

\* Where the system resolver asks this proxy for the DoH host's address, nothing
\* but SERVFAIL is ever sent (dns.rs:98-100, 108-114): the first connection waits
\* for a lookup that waits for that connection.
SelfResolverIsMute ==
    ~pinned /\ ~exempt => ~pooled /\ \A r \in answers : r[2] = "servfail"

\* Every datagram sent to a session's proxy is dealt with, and after a cancel the
\* socket is closed in the end (dns.rs:56-84).
QueriesEnd ==
    /\ \A q \in Queries : stage[q] = "socket" ~> stage[q] \in Ended \cup {"lost"}
    /\ cancelled ~> ~SocketOpen

\* "`doh_server_ip` (optional; pins DoH server resolution)" (README.md:53): with
\* a DoH server that answers every post, each query received by a session that
\* goes on is answered.
ReceivedIsAnswered ==
    \A q \in Queries : stage[q] = "received" ~> stage[q] = "answered" \/ cancelled
==================================================================================
