-------------------------------- MODULE TaskProofs --------------------------------
(*******************************************************************************)
(* Proofs about what the session's tasks are made of: the DNS proxy, for any   *)
(* number of datagrams, a connection of the SOCKS5 listener, for any number of *)
(* bytes in flight, and the cancellation token, for any sets of waiters and    *)
(* cancellers.  The three do not interact here: each theorem is about the      *)
(* specification of one module, whose name it carries.                         *)
(*******************************************************************************)
EXTENDS DnsProxy, SocksConn, CancelToken, TLAPS

-----------------------------------------------------------------------------
(* DnsProxy: what is answered to whom, and that a proxy that must ask itself *)
(* never answers *)

\* A task works on its own copy of the datagram, and what was not asked yet has
\* no task.
TasksKnow ==
    \A q \in Queries :
        /\ q > asked => stage[q] = "none"
        /\ stage[q] \in Waiting => query[q] = q

\* Without an address no task whose lookup comes back here gets as far as a post:
\* the only way there is an open connection or an answered lookup.
NothingPosted ==
    ~pinned /\ ~exempt => ~pooled /\ \A q \in Queries : stage[q] \notin {"posting", "answered"}

\* The kind of a reply is what became of its query, whose task has ended.
RepliesShow ==
    \A r \in answers :
        /\ r[1] = r[3]
        /\ stage[r[1]] = IF r[2] = "answer" THEN "answered" ELSE "servfail"

DnsInv ==
    /\ DnsTypeOK
    /\ TasksKnow
    /\ NothingPosted
    /\ RepliesShow
    /\ SelfResolverIsMute

-----------------------------------------------------------------------------
LEMMA DnsInitKeeps == DnsInit => DnsInv
<1>. SUFFICES ASSUME DnsInit PROVE DnsInv
  OBVIOUS
<1>1. DnsTypeOK
  <2>1. asked \in 0..MaxQueries
    BY DnsAssumption DEF DnsInit
  <2>2. answers \subseteq Queries \X {"answer", "servfail"} \X Queries
    BY DEF DnsInit
  <2>3. QED
    BY <2>1, <2>2 DEF DnsInit, DnsTypeOK
<1>2. TasksKnow /\ NothingPosted
  BY DEF DnsInit, TasksKnow, NothingPosted, Waiting
<1>3. RepliesShow /\ SelfResolverIsMute
  BY DEF DnsInit, RepliesShow, SelfResolverIsMute
<1>4. QED
  BY <1>1, <1>2, <1>3 DEF DnsInv

\* The next datagram is one of the queries.
LEMMA NextQuery ==
    ASSUME DnsTypeOK, asked < MaxQueries
    PROVE  asked + 1 \in Queries /\ asked + 1 \in 0..MaxQueries
BY DnsAssumption DEF DnsTypeOK, Queries

LEMMA ReplyKinds ==
    ASSUME DnsTypeOK, NEW r \in answers
    PROVE  r[1] \in Queries /\ r[2] \in {"answer", "servfail"}
BY DEF DnsTypeOK

\* A step that ends no task but q's, and answers nobody else, keeps the others'
\* replies what they are.
LEMMA OthersKeepReplies ==
    ASSUME DnsInv, NEW q \in Queries, stage[q] \notin {"answered", "servfail"},
           \A p \in Queries \ {q} : stage[p] \in {"answered", "servfail"} => stage'[p] = stage[p]
    PROVE  \A r \in answers :
               /\ r[1] = r[3]
               /\ stage'[r[1]] = IF r[2] = "answer" THEN "answered" ELSE "servfail"
<1>. SUFFICES ASSUME NEW r \in answers
              PROVE  /\ r[1] = r[3]
                     /\ stage'[r[1]] = IF r[2] = "answer" THEN "answered" ELSE "servfail"
  OBVIOUS
<1>1. r[1] \in Queries /\ r[1] = r[3]
  BY ReplyKinds DEF DnsInv, RepliesShow
<1>2. stage[r[1]] = IF r[2] = "answer" THEN "answered" ELSE "servfail"
  BY DEF DnsInv, RepliesShow
<1>3. QED
  BY <1>1, <1>2

LEMMA AskKeeps ==
    ASSUME DnsInv, NEW wellformed \in BOOLEAN, Ask(wellformed)
    PROVE  DnsInv'
<1>1. asked + 1 \in Queries /\ asked + 1 \in 0..MaxQueries
  BY NextQuery DEF DnsInv, Ask
<1>2. DnsTypeOK'
  BY <1>1 DEF DnsInv, DnsTypeOK, Ask, Move
<1>3. TasksKnow' /\ NothingPosted'
  <2>1. \A q \in Queries : q > asked' => stage'[q] = "none"
    BY <1>1 DEF DnsInv, DnsTypeOK, TasksKnow, Ask, Move, Queries
  <2>2. QED
    BY <1>1, <2>1 DEF DnsInv, DnsTypeOK, TasksKnow, NothingPosted, Ask, Move, Waiting
<1>4. RepliesShow'
  <2>1. stage[asked + 1] = "none"
    BY DEF Ask, Move
  <2>2. \A p \in Queries \ {asked + 1} : stage'[p] = stage[p]
    BY DEF DnsInv, DnsTypeOK, Ask, Move
  <2>3. QED
    BY <1>1, <2>1, <2>2, OthersKeepReplies DEF RepliesShow, Ask
<1>5. QED
  BY <1>2, <1>3, <1>4 DEF DnsInv, SelfResolverIsMute, Ask

LEMMA LoopKeeps ==
    ASSUME DnsInv, Cancel \/ LoopEnds \/ PoolDrops \/ \E q \in Queries : Receive(q)
    PROVE  DnsInv'
<1>. USE DEF DnsInv, DnsTypeOK, TasksKnow, NothingPosted, RepliesShow, SelfResolverIsMute
<1>1. ASSUME NEW q \in Queries, Receive(q) PROVE DnsInv'
  BY <1>1 DEF Receive, Move, Waiting
<1>2. CASE Cancel
  BY <1>2 DEF Cancel
<1>3. CASE LoopEnds
  BY <1>3 DEF LoopEnds, Waiting
<1>4. CASE PoolDrops
  BY <1>4 DEF PoolDrops
<1>5. QED
  BY <1>1, <1>2, <1>3, <1>4

\* A task that gives up answers its own query, with SERVFAIL, or nothing.
LEMMA GiveUpKeeps ==
    ASSUME DnsInv, NEW q \in Queries, stage[q] \in Waiting, GiveUp(q),
           UNCHANGED <<pinned, exempt, loop, cancelled, buf, asked, parses, query, lookup, pooled>>
    PROVE  DnsInv'
<1>1. PICK to \in {"servfail", "silent"} : stage' = [stage EXCEPT ![q] = to]
  BY DEF GiveUp
<1>2. query[q] = q
  BY DEF DnsInv, TasksKnow
<1>3. answers' \subseteq answers \cup {<<q, "servfail", q>>}
  BY <1>2 DEF GiveUp, Reply
<1>4. DnsTypeOK'
  BY <1>1, <1>3 DEF DnsInv, DnsTypeOK, Ended
<1>5. TasksKnow' /\ NothingPosted'
  BY <1>1 DEF DnsInv, DnsTypeOK, TasksKnow, NothingPosted, Waiting
<1>6. RepliesShow' /\ SelfResolverIsMute'
  <2>1. \A p \in Queries \ {q} : stage'[p] = stage[p]
    BY <1>1 DEF DnsInv, DnsTypeOK
  <2>2. answers' # answers => stage'[q] = "servfail"
    BY DEF GiveUp, DnsInv, DnsTypeOK
  <2>3. RepliesShow'
    BY <1>3, <2>1, <2>2, OthersKeepReplies DEF RepliesShow, Waiting
  <2>4. QED
    BY <1>3, <2>3 DEF DnsInv, SelfResolverIsMute
<1>7. QED
  BY <1>4, <1>5, <1>6 DEF DnsInv

LEMMA TaskKeeps ==
    ASSUME DnsInv, NEW q \in Queries, TaskStep(q)
    PROVE  DnsInv'
<1>1. CASE Post(q)
  BY <1>1 DEF DnsInv, DnsTypeOK, TasksKnow, NothingPosted, RepliesShow, SelfResolverIsMute,
              Post, Move, Waiting
<1>2. CASE Resolve(q)
  <2>1. asked + 1 \in Queries /\ asked + 1 \in 0..MaxQueries
    BY <1>2, NextQuery DEF DnsInv, Resolve
  <2>2. DnsTypeOK'
    BY <1>2, <2>1 DEF DnsInv, DnsTypeOK, Resolve, NeedsAddress, Waiting
  <2>3. TasksKnow' /\ NothingPosted'
    <3>1. \A p \in Queries : p > asked' => stage'[p] = "none"
      BY <1>2, <2>1 DEF DnsInv, DnsTypeOK, TasksKnow, Resolve, NeedsAddress, Queries
    <3>2. QED
      BY <1>2, <2>1, <3>1 DEF DnsInv, DnsTypeOK, TasksKnow, NothingPosted, Resolve, NeedsAddress, Waiting
  <2>4. RepliesShow'
    <3>1. \A p \in Queries \ {asked + 1} :
              stage[p] \in {"answered", "servfail"} => stage'[p] = stage[p]
      BY <1>2 DEF DnsInv, DnsTypeOK, Resolve, NeedsAddress
    <3>2. stage[asked + 1] = "none"
      BY <2>1 DEF DnsInv, DnsTypeOK, TasksKnow, Queries
    <3>3. QED
      BY <1>2, <2>1, <3>1, <3>2, OthersKeepReplies DEF RepliesShow, Resolve
  <2>5. QED
    BY <1>2, <2>2, <2>3, <2>4 DEF DnsInv, SelfResolverIsMute, Resolve
<1>3. CASE LookupEnds(q)
  <2>1. stage[q] \in Waiting
    BY <1>3 DEF LookupEnds, Waiting
  <2>2. CASE GiveUp(q)
    BY <1>3, <2>1, <2>2, GiveUpKeeps DEF LookupEnds
  <2>3. CASE ~GiveUp(q)
    <3>1. lookup[q] \in Queries /\ stage[lookup[q]] = "answered"
      BY <1>3, <2>3 DEF LookupEnds, DnsInv, DnsTypeOK
    <3>2. pinned \/ exempt
      BY <3>1 DEF DnsInv, NothingPosted
    <3>3. Move(q, "resolving", "posting") /\ UNCHANGED answers
      BY <1>3, <3>1 DEF LookupEnds
    <3>4. QED
      BY <1>3, <3>2, <3>3
      DEF DnsInv, DnsTypeOK, TasksKnow, NothingPosted, RepliesShow, SelfResolverIsMute,
          LookupEnds, Move, Waiting
  <2>4. QED
    BY <2>2, <2>3
<1>4. CASE Answer(q)
  <2>1. query[q] = q /\ (pinned \/ exempt)
    BY <1>4 DEF DnsInv, TasksKnow, NothingPosted, Answer, Move, Waiting
  <2>2. DnsTypeOK' /\ TasksKnow' /\ NothingPosted'
    BY <1>4, <2>1 DEF DnsInv, DnsTypeOK, TasksKnow, NothingPosted, Answer, Move, Reply,
                      Waiting, Ended
  <2>3. RepliesShow' /\ SelfResolverIsMute'
    <3>1. \A p \in Queries \ {q} : stage'[p] = stage[p]
      BY <1>4 DEF DnsInv, DnsTypeOK, Answer, Move
    <3>2. stage[q] = "posting" /\ stage'[q] = "answered"
      BY <1>4 DEF DnsInv, DnsTypeOK, Answer, Move
    <3>3. answers' = answers \cup {<<q, "answer", q>>}
      BY <1>4, <2>1 DEF Answer, Reply
    <3>4. RepliesShow'
      BY <3>1, <3>2, <3>3, OthersKeepReplies DEF RepliesShow
    <3>5. QED
      BY <1>4, <2>1, <3>4 DEF DnsInv, SelfResolverIsMute, Answer
  <2>4. QED
    BY <2>2, <2>3 DEF DnsInv
<1>5. CASE Fail(q)
  <2>1. stage[q] \in Waiting
    BY <1>5 DEF Fail, NotAsked, NeedsAddress, Waiting
  <2>2. QED
    BY <1>5, <2>1, GiveUpKeeps DEF Fail
<1>6. CASE ResolveOutside(q) \/ FoundOutside(q)
  BY <1>6 DEF DnsInv, DnsTypeOK, TasksKnow, NothingPosted, RepliesShow, SelfResolverIsMute,
              ResolveOutside, FoundOutside, NeedsAddress, Move, Waiting
<1>7. QED
  BY <1>1, <1>2, <1>3, <1>4, <1>5, <1>6 DEF TaskStep

LEMMA DnsInductive == DnsSpec => []DnsInv
<1>1. DnsInv /\ [DnsNext]_dnsVars => DnsInv'
  <2>. SUFFICES ASSUME DnsInv, [DnsNext]_dnsVars PROVE DnsInv'
    OBVIOUS
  <2>1. ASSUME NEW wellformed \in BOOLEAN, Ask(wellformed) PROVE DnsInv'
    BY <2>1, AskKeeps
  <2>2. CASE Cancel \/ LoopEnds \/ PoolDrops \/ \E q \in Queries : Receive(q)
    BY <2>2, LoopKeeps
  <2>3. ASSUME NEW q \in Queries, TaskStep(q) PROVE DnsInv'
    BY <2>3, TaskKeeps
  <2>4. CASE UNCHANGED dnsVars
    BY <2>4 DEF dnsVars, DnsInv, DnsTypeOK, TasksKnow, NothingPosted, RepliesShow, SelfResolverIsMute
  <2>5. QED
    BY <2>1, <2>2, <2>3, <2>4 DEF DnsNext
<1>2. QED
  BY <1>1, DnsInitKeeps, PTL DEF DnsSpec

-----------------------------------------------------------------------------

\* The variables keep their types.
THEOREM DnsTypes == DnsSpec => []DnsTypeOK
<1>1. DnsInv => DnsTypeOK
  BY DEF DnsInv
<1>2. QED
  BY <1>1, DnsInductive, PTL

\* Every reply answers the bytes that its own peer sent, and no query
\* has an answer and a SERVFAIL (dns.rs:67-83).
THEOREM NobodyGetsAnothersReply == DnsSpec => []RepliesAreOwn
<1>1. DnsInv => RepliesAreOwn
  <2>. SUFFICES ASSUME DnsInv, NEW r \in answers, NEW s \in answers, s[1] = r[1]
                PROVE  r[1] = r[3] /\ s = r
    BY DEF RepliesAreOwn
  <2>1. r \in Queries \X {"answer", "servfail"} \X Queries /\ r[1] = r[3]
    BY DEF DnsInv, DnsTypeOK, RepliesShow
  <2>2. s \in Queries \X {"answer", "servfail"} \X Queries /\ s[1] = s[3]
    BY DEF DnsInv, DnsTypeOK, RepliesShow
  <2>3. r[2] = s[2]
    BY <2>1, <2>2 DEF DnsInv, RepliesShow
  <2>4. QED
    BY <2>1, <2>2, <2>3
<1>2. QED
  BY <1>1, DnsInductive, PTL

\* A proxy that the system resolver asks for the DoH host's address, the app being
\* neither exempt nor given that address, sends nothing but SERVFAIL, however many
\* queries it is asked (dns.rs:98-100, 108-114).
THEOREM SelfResolverNeverAnswers == DnsSpec => []SelfResolverIsMute
<1>1. DnsInv => SelfResolverIsMute
  BY DEF DnsInv
<1>2. QED
  BY <1>1, DnsInductive, PTL

-----------------------------------------------------------------------------
(* SocksConn *)

\* Behind the check the credentials are right, and a pump is spawned last.
\* Nothing refills what the pump to the client has drained at the end of the Tor
\* stream.
Checked == handler \in {"request", "dialing", "reply", "pumping"} => creds

Pumped == down # "none" => handler \in {"pumping", "ended"}

SocksInv == SocksTypeOK /\ Checked /\ Pumped /\ ReplyOutlivesHalfClose

\* It holds when a client has connected.
LEMMA SocksInitKeeps ==
    ASSUME SocksInit
    PROVE  SocksInv
<1>1. sent \in 0..MaxData /\ back \in 0..MaxData
  BY SocksAssumption DEF SocksAssumption, SocksInit
<1>2. SocksTypeOK
  BY <1>1 DEF SocksInit, SocksTypeOK
<1>3. Checked /\ Pumped /\ ReplyOutlivesHalfClose
  BY DEF SocksInit, Checked, Pumped, ReplyOutlivesHalfClose
<1>4. QED
  BY <1>2, <1>3 DEF SocksInv

\* The handler keeps it: the request is read only behind the check.
LEMMA NegotiationKeeps ==
    ASSUME SocksInv, Negotiation \/ HandlerStep
    PROVE  SocksInv'
<1>. USE DEF Negotiation, HandlerStep, Greet, CheckCredentials,
             ReadRequest, Refuse,
             DialSucceeds, DialFails, Confirm, ConfirmFails,
             BothEnded, Negotiate,
             pumpVars, farVars
<1>1. SocksTypeOK'
  BY DEF SocksInv, SocksTypeOK
<1>2. Checked'
  BY DEF SocksInv, Checked
<1>3. Pumped'
  BY DEF SocksInv, Pumped
<1>4. ReplyOutlivesHalfClose'
  BY DEF SocksInv, Pumped, ReplyOutlivesHalfClose
<1>5. QED
  BY <1>1, <1>2, <1>3, <1>4 DEF SocksInv

\* So do the two pumps,
LEMMA PumpsKeep ==
    ASSUME SocksInv, UpStep \/ DownStep
    PROVE  SocksInv'
<1>. USE DEF UpStep, CopyUp, UpReadsEof, UpCancelled,
             EndUp, DownStep, CopyDown,
             DownReadsEof, DownCancelled, EndDown, pumpVars,
             farVars
<1>1. SocksTypeOK'
  <2>1. sent' \in 0..MaxData /\ back' \in 0..MaxData
    BY SocksAssumption DEF SocksAssumption, SocksInv, SocksTypeOK
  <2>2. QED
    BY <2>1 DEF SocksInv, SocksTypeOK
<1>2. Checked'
  BY DEF SocksInv, Checked
<1>3. Pumped'
  BY DEF SocksInv, Pumped, SocksTypeOK
<1>4. ReplyOutlivesHalfClose'
  BY DEF SocksInv, ReplyOutlivesHalfClose
<1>5. QED
  BY <1>1, <1>2, <1>3, <1>4 DEF SocksInv

\* and the client, the far end and the token.
LEMMA EnvironmentKeeps ==
    ASSUME SocksInv, Environment
    PROVE  SocksInv'
<1>. USE DEF Environment, ClientSends, ClientEnds, TorSends,
             TorFinishes, EngineCancels,
             pumpVars, farVars
<1>1. SocksTypeOK'
  <2>1. sent' \in 0..MaxData /\ back' \in 0..MaxData
    BY SocksAssumption DEF SocksAssumption, SocksInv, SocksTypeOK
  <2>2. QED
    BY <2>1 DEF SocksInv, SocksTypeOK
<1>2. Checked' /\ Pumped'
  BY DEF SocksInv, Checked, Pumped
<1>3. ReplyOutlivesHalfClose'
  BY DEF SocksInv, ReplyOutlivesHalfClose
<1>4. QED
  BY <1>1, <1>2, <1>3 DEF SocksInv

\* So it holds in every reachable state of a connection.
LEMMA SocksInductive == SocksSpec => []SocksInv
<1>1. SocksInv /\ UNCHANGED socksVars => SocksInv'
  BY DEF SocksInv, SocksTypeOK, Checked, Pumped, ReplyOutlivesHalfClose,
         socksVars, pumpVars, farVars
<1>2. SocksInv /\ [SocksNext]_socksVars => SocksInv'
  BY <1>1, NegotiationKeeps, PumpsKeep, EnvironmentKeeps DEF SocksNext
<1>3. SocksInit => SocksInv
  BY SocksInitKeeps
<1>4. QED
  BY <1>2, <1>3, PTL DEF SocksSpec

\* The variables keep their types.
THEOREM SocksTypes == SocksSpec => []SocksTypeOK
<1>1. SocksInv => SocksTypeOK
  BY DEF SocksInv
<1>2. QED
  BY <1>1, SocksInductive, PTL

\* No stream is dialed for a client without the session's credentials
\* (arti_runtime.rs:177-184).
THEOREM NobodyDialsUnchecked == SocksSpec => []DialsAreAuthenticated
<1>1. SocksInv => DialsAreAuthenticated
  BY DEF SocksInv, Checked, DialsAreAuthenticated
<1>2. QED
  BY <1>1, SocksInductive, PTL

\* A half-close of the client does not cut off the reply (187-204).
THEOREM HalfCloseKeepsReply == SocksSpec => []ReplyOutlivesHalfClose
<1>1. SocksInv => ReplyOutlivesHalfClose
  BY DEF SocksInv
<1>2. QED
  BY <1>1, SocksInductive, PTL

-----------------------------------------------------------------------------
(* CancelToken *)

\* The facts NoLostWakeup rests on: the version moves exactly when the value is
\* set, and no snapshot is ahead of the notify count.
TokenInv ==
    /\ TokenTypeOK
    /\ value <=> version # Seen
    /\ \A c \in Cancellers : pcC[c] = "stored" => value
    /\ \A w \in Waiters : snap[w] <= notifies
    /\ NoLostWakeup
    /\ NoSpuriousRelease

\* No reachable state of the token parks a waiter for ever or releases one early.
LEMMA TokenInductive == TokenSpec => []TokenInv
<1>. USE DEF TokenInv, TokenTypeOK, NoLostWakeup, NoSpuriousRelease,
             Seen, CancellerStates, WaiterStates
<1>1. TokenInit => TokenInv
  <2>. SUFFICES ASSUME TokenInit PROVE TokenInv
    OBVIOUS
  <2>1. TokenTypeOK
    BY DEF TokenInit
  <2>2. ~value /\ version = Seen
    BY DEF TokenInit
  <2>3. \A c \in Cancellers : pcC[c] # "stored"
    BY DEF TokenInit
  <2>4. \A w \in Waiters : pcW[w] = "away" /\ snap[w] = 0
    BY DEF TokenInit
  <2>5. notifies = 0 /\ 0 <= 0
    BY DEF TokenInit
  <2>. QED
    BY <2>1, <2>2, <2>3, <2>4, <2>5
<1>2. TokenInv /\ [TokenNext]_tokenVars => TokenInv'
  <2>. SUFFICES ASSUME TokenInv, [TokenNext]_tokenVars PROVE TokenInv'
    OBVIOUS
  <2>1. ASSUME NEW c \in Cancellers, Store(c) PROVE TokenInv'
    BY <2>1 DEF Store, GoC
  <2>2. ASSUME NEW c \in Cancellers, Notify(c) PROVE TokenInv'
    BY <2>2 DEF Notify, GoC
  <2>3. ASSUME NEW w \in Waiters, Enter(w) PROVE TokenInv'
    BY <2>3 DEF Enter, GoW
  <2>4. ASSUME NEW w \in Waiters, ReturnEarly(w) PROVE TokenInv'
    BY <2>4 DEF ReturnEarly, GoW
  <2>5. ASSUME NEW w \in Waiters, SeeFalse(w) PROVE TokenInv'
    BY <2>5 DEF SeeFalse, GoW
  <2>6. ASSUME NEW w \in Waiters, Subscribe(w) PROVE TokenInv'
    BY <2>6 DEF Subscribe, GoW
  <2>7. ASSUME NEW w \in Waiters, Park(w) PROVE TokenInv'
    BY <2>7 DEF Park, GoW
  <2>8. ASSUME NEW w \in Waiters, SeeChange(w) PROVE TokenInv'
    BY <2>8 DEF SeeChange, GoW
  <2>9. ASSUME NEW w \in Waiters, Woken(w) PROVE TokenInv'
    BY <2>9 DEF Woken, GoW
  <2>10. ASSUME NEW w \in Waiters, Abandon(w) PROVE TokenInv'
    BY <2>10 DEF Abandon, GoW
  <2>11. CASE UNCHANGED tokenVars
    BY <2>11 DEF tokenVars
  <2>. QED
    BY <2>1, <2>2, <2>3, <2>4, <2>5, <2>6, <2>7, <2>8, <2>9, <2>10, <2>11
    DEF TokenNext, CancelStep, WaitStep
<1>. QED
  BY <1>1, <1>2, PTL DEF TokenSpec

\* The variables keep their types.
THEOREM TokenTypes == TokenSpec => []TokenTypeOK
<1>1. TokenInv => TokenTypeOK
  BY DEF TokenInv
<1>. QED
  BY <1>1, TokenInductive, PTL

\* A cancel() that lands between any two steps of cancelled() is not missed.
THEOREM WakeupsAreKept == TokenSpec => []NoLostWakeup
<1>1. TokenInv => NoLostWakeup
  BY DEF TokenInv
<1>. QED
  BY <1>1, TokenInductive, PTL

\* cancelled() resolves only after some clone called cancel().
THEOREM ReleasesAreEarned == TokenSpec => []NoSpuriousRelease
<1>1. TokenInv => NoSpuriousRelease
  BY DEF TokenInv
<1>. QED
  BY <1>1, TokenInductive, PTL

\* Every step of the token is a step of the latch, or a stutter.
THEOREM TokenIsLatch == TokenSpec => L!Spec
<1>. DEFINE out == {w \in Waiters : pcW[w] = "released"}
<1>1. TokenInit => L!Init
  BY DEF TokenInit, L!Init
<1>2. TokenInv /\ TokenInv' /\ [TokenNext]_tokenVars => [L!Next]_(L!vars)
  <2>. SUFFICES ASSUME TokenInv, TokenInv', [TokenNext]_tokenVars
                PROVE L!Request \/ (\E w \in Waiters : L!Release(w)) \/ UNCHANGED <<value, out>>
    BY DEF L!Next, L!vars
  <2>. USE DEF TokenInv, TokenTypeOK
  <2>1. ASSUME NEW c \in Cancellers, Store(c) PROVE L!Request
    BY <2>1 DEF Store, L!Request
  <2>2. ASSUME NEW w \in Waiters, pcW[w] # "released", value, UNCHANGED value,
               pcW' = [pcW EXCEPT ![w] = "released"]
        PROVE  L!Release(w)
    <3>1. out' = out \cup {w}
      BY <2>2
    <3>. QED
      BY <2>2, <3>1 DEF L!Release
  <2>3. ASSUME NEW w \in Waiters, ReturnEarly(w) \/ SeeChange(w) PROVE L!Release(w)
    BY <2>2, <2>3 DEF ReturnEarly, SeeChange, GoW
  <2>4. ASSUME NEW w \in Waiters, Enter(w) \/ SeeFalse(w) \/ Subscribe(w) \/ Park(w)
                                  \/ Woken(w) \/ Abandon(w)
        PROVE  UNCHANGED <<value, out>>
    BY <2>4 DEF Enter, SeeFalse, Subscribe, Park, Woken,
                Abandon, GoW, WaiterStates
  <2>5. ASSUME NEW c \in Cancellers, Notify(c) PROVE UNCHANGED <<value, out>>
    BY <2>5 DEF Notify
  <2>6. CASE UNCHANGED tokenVars
    BY <2>6 DEF tokenVars
  <2>. QED
    BY <2>1, <2>3, <2>4, <2>5, <2>6 DEF TokenNext, CancelStep, WaitStep
<1>. QED
  BY <1>1, <1>2, TokenInductive, PTL DEF TokenSpec, L!Spec
===================================================================================
