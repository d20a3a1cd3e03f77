----------------------------- MODULE IpcServerProofs -----------------------------
(*******************************************************************************)
(* Proofs about IpcServer, for any number of clients, sessions and pipelined   *)
(* requests: whom a token lets in, and who is told or obeyed.                  *)
(*******************************************************************************)
EXTENDS IpcServer, TLAPS

-----------------------------------------------------------------------------
(* The inductive invariant *)

\* Only the newest session can be about to serve, and one that serves generated
\* the token or an earlier one than it.
Ordered ==
    /\ token <= born
    /\ \A s \in Sessions :
        /\ s > born => server[s] = "none"
        /\ server[s] = "bound" => s = born
        /\ server[s] = "open" => s <= token

\* No client has, or has sent, a token newer than the one it asked for last.
Honest(r) ==
    /\ r.knows <= token
    /\ \A k \in DOMAIN r.inbox : r.inbox[k][2] <= r.knows

\* A handler that was spawned but not polled yet will expect the token of its
\* session or of a later one.  What let a client in is a token it knows and the
\* one expected, and nobody is served before.
Sound(r) ==
    /\ r.handler \in {"none", "backlog", "spawned"} => r.expected = NoToken
    /\ r.handler = "spawned" => r.sess <= token
    /\ r.expected # NoToken => r.sess <= r.expected
    /\ r.auth # NoToken => r.auth = r.expected /\ r.auth <= r.knows
    /\ r.served => r.auth # NoToken

IInv ==
    /\ TypeOK
    /\ Ordered
    /\ \A c \in Clients : Sound(conn[c]) /\ Honest(conn[c])

-----------------------------------------------------------------------------
(* Type correctness *)

LEMMA InitTyped == Init => TypeOK
BY IpcAssumption DEF Init, TypeOK, NotConnected, Connection, Sessions, Tokens, None, NoToken

\* A consumed line leaves a connection: one shorter inbox, another handler.
LEMMA GoesTyped ==
    ASSUME TypeOK, NEW c \in Clients, conn[c].inbox # <<>>,
           NEW next \in {"reading", "logs", "closed"}
    PROVE  Goes(c, next) \in Connection
<1>1. conn[c] \in Connection
  BY DEF TypeOK
<1>2. Tail(conn[c].inbox) \in Seq(Requests \X Tokens)
  BY <1>1 DEF Connection
<1>3. QED
  BY <1>1, <1>2 DEF Goes, Connection

LEMMA AnswersTyped ==
    ASSUME TypeOK, NEW c \in Clients, conn[c].inbox # <<>>,
           NEW next \in {"reading", "logs", "closed"}
    PROVE  Answers(c, next) \in Connection
BY GoesTyped DEF Answers

\* A client that learns nothing is as honest as before, with a line read or not.
LEMMA StaysHonest ==
    ASSUME NEW r \in Connection, Honest(r), NEW n \in Connection, n.knows = r.knows,
           n.inbox = r.inbox \/ (r.inbox # <<>> /\ n.inbox = Tail(r.inbox))
    PROVE  Honest(n)
<1>1. CASE n.inbox = r.inbox
  BY <1>1 DEF Honest
<1>2. CASE r.inbox # <<>> /\ n.inbox = Tail(r.inbox)
  <2>1. r.inbox \in Seq(Requests \X Tokens)
    BY DEF Connection
  <2>2. \A k \in DOMAIN n.inbox : k + 1 \in DOMAIN r.inbox /\ n.inbox[k] = r.inbox[k + 1]
    BY <1>2, <2>1
  <2>3. QED
    BY <2>2 DEF Honest
<1>3. QED
  BY <1>1, <1>2

\* A step of one connection, which leaves the server's variables alone, is good
\* when the connection is good after it.
LEMMA StepOfOne ==
    ASSUME IInv, NEW c \in Clients, NEW r \in Connection, Sound(r), Honest(r),
           conn' = [conn EXCEPT ![c] = r],
           UNCHANGED <<token, born, server, path>>,
           cancelled' \in [Sessions -> BOOLEAN]
    PROVE  IInv'
<1>1. TypeOK'
  BY DEF IInv, TypeOK
<1>2. Ordered'
  BY DEF IInv, Ordered
<1>3. ASSUME NEW d \in Clients PROVE (Sound(conn[d]) /\ Honest(conn[d]))'
  <2>0. conn \in [Clients -> Connection] /\ token' = token
    BY DEF IInv, TypeOK
  <2>1. CASE d = c
    <3>1. conn'[d] = r
      BY <2>0, <2>1
    <3>2. QED
      BY <2>0, <3>1 DEF Sound, Honest
  <2>2. CASE d # c
    <3>1. conn'[d] = conn[d] /\ Sound(conn[d]) /\ Honest(conn[d])
      BY <2>0, <2>2 DEF IInv
    <3>2. QED
      BY <2>0, <3>1 DEF Sound, Honest
  <2>3. QED
    BY <2>1, <2>2
<1>4. QED
  BY <1>1, <1>2, <1>3 DEF IInv

\* What a step does to the handler of a connection that was accepted and polled
\* keeps it sound as long as it leaves the token's history alone.
LEMMA GoesSound ==
    ASSUME IInv, NEW c \in Clients, conn[c].handler = "reading",
           conn[c].inbox # <<>>, NEW next \in {"reading", "logs", "closed"}
    PROVE  /\ Goes(c, next) \in Connection /\ Sound(Goes(c, next)) /\ Honest(Goes(c, next))
           /\ Answers(c, next) \in Connection /\ Sound(Answers(c, next))
           /\ Honest(Answers(c, next))
<1>1. conn[c] \in Connection /\ Sound(conn[c]) /\ Honest(conn[c]) /\ TypeOK
  BY DEF IInv, TypeOK
<1>2. Goes(c, next) \in Connection /\ Answers(c, next) \in Connection
  BY <1>1, GoesTyped, AnswersTyped
<1>3. ASSUME NEW n \in {"reading", "logs", "closed"}
      PROVE  Sound(Goes(c, n)) /\ Honest(Goes(c, n))
  <2>. DEFINE r == conn[c]  g == Goes(c, n)
  <2>1. /\ g.handler = n /\ g.expected = r.expected /\ g.auth = r.auth
        /\ g.sess = r.sess /\ g.served = r.served /\ g.knows = r.knows
        /\ g.inbox = Tail(r.inbox)
    BY <1>1 DEF Goes, Connection
  <2>2. Sound(g)
    BY <1>1, <2>1 DEF Sound
  <2>3. g \in Connection
    BY <1>1, GoesTyped
  <2>4. QED
    BY <1>1, <2>1, <2>2, <2>3, StaysHonest
<1>4. QED
  BY <1>2, <1>3 DEF Answers

-----------------------------------------------------------------------------
(* The server's steps *)

LEMMA BindKeeps == IInv /\ Bind => IInv'
<1>. SUFFICES ASSUME IInv, Bind PROVE IInv'
  OBVIOUS
<1>1. born \in Nat /\ MaxSessions \in Nat /\ born + 1 \in Sessions
  BY IpcAssumption DEF IInv, TypeOK, Bind, Sessions
<1>2. TypeOK'
  BY <1>1 DEF IInv, TypeOK, Bind, Sessions
<1>3. Ordered'
  BY <1>1 DEF IInv, TypeOK, Ordered, Bind, Sessions, Tokens
<1>4. \A c \in Clients : (Sound(conn[c]) /\ Honest(conn[c]))'
  BY DEF IInv, Sound, Honest, Bind
<1>5. QED
  BY <1>2, <1>3, <1>4 DEF IInv

LEMMA UnlistenKeeps ==
    ASSUME IInv, NEW s \in Sessions, server[s] \in {"bound", "open"}, Unlisten(s),
           cancelled' \in [Sessions -> BOOLEAN], path' \in Sessions \cup {None}
    PROVE  IInv'
<1>1. ASSUME NEW c \in Clients
      PROVE conn'[c] \in Connection /\ Sound(conn[c])' /\ Honest(conn[c])'
  <2>1. conn[c] \in Connection /\ Sound(conn[c]) /\ Honest(conn[c])
    BY DEF IInv, TypeOK
  <2>2. conn'[c] = conn[c] \/ conn'[c] = [conn[c] EXCEPT !.handler = "closed"]
    BY DEF Unlisten
  <2>3. conn'[c] \in Connection /\ Sound(conn[c])'
    BY <2>1, <2>2 DEF Sound, Connection, Unlisten
  <2>4. conn'[c].knows = conn[c].knows /\ conn'[c].inbox = conn[c].inbox /\ token' = token
    BY <2>1, <2>2 DEF Connection, Unlisten
  <2>5. QED
    BY <2>1, <2>3, <2>4 DEF Honest
<1>2. TypeOK'
  BY <1>1 DEF IInv, TypeOK, Unlisten
<1>3. Ordered'
  BY DEF IInv, TypeOK, Ordered, Unlisten
<1>4. QED
  BY <1>1, <1>2, <1>3 DEF IInv

LEMMA ServerKeeps ==
    ASSUME IInv, NEW s \in Sessions, ServerStep(s)
    PROVE  IInv'
<1>1. CASE BindFails(s)
  BY <1>1, UnlistenKeeps DEF BindFails, IInv, TypeOK
<1>2. CASE Serve(s)
  <2>1. s = born /\ born \in Nat /\ s \in Tokens
    BY <1>2, IpcAssumption DEF IInv, TypeOK, Ordered, Serve, Sessions, Tokens
  <2>2. TypeOK'
    BY <1>2, <2>1 DEF IInv, TypeOK, Serve
  <2>3. token <= token'
    BY <1>2, <2>1 DEF IInv, TypeOK, Ordered, Serve, Tokens
  <2>4. Ordered'
    <3>1. ASSUME NEW t \in Sessions, server[t] # "none" PROVE t <= born
      BY <3>1, <2>1 DEF IInv, Ordered, Sessions
    <3>2. QED
      BY <1>2, <2>1, <3>1 DEF IInv, TypeOK, Ordered, Serve, Sessions
  <2>5. ASSUME NEW c \in Clients PROVE (Sound(conn[c]) /\ Honest(conn[c]))'
    <3>1. conn[c] \in Connection /\ Sound(conn[c]) /\ Honest(conn[c]) /\ conn' = conn
      BY <1>2 DEF IInv, TypeOK, Serve
    <3>2. /\ conn[c].sess \in Nat /\ token \in Nat /\ token' \in Nat
          /\ conn[c].knows \in Nat
      BY <3>1, <2>2 DEF Connection, IInv, TypeOK, Sessions, Tokens, None
    <3>3. Sound(conn[c])'
      BY <3>1, <3>2, <2>3 DEF Sound
    <3>4. QED
      BY <3>1, <3>2, <2>3, <3>3 DEF Honest
  <2>6. QED
    BY <2>2, <2>4, <2>5 DEF IInv
<1>3. CASE LoopCancelled(s)
  BY <1>3, UnlistenKeeps DEF LoopCancelled, IInv, TypeOK
<1>4. CASE LoopAborted(s)
  BY <1>4, UnlistenKeeps DEF LoopAborted, IInv, TypeOK
<1>5. CASE EngineCancels(s)
  BY <1>5 DEF EngineCancels, IInv, TypeOK, Ordered, Sound, Honest
<1>6. QED
  BY <1>1, <1>2, <1>3, <1>4, <1>5 DEF ServerStep, LoopStep

-----------------------------------------------------------------------------
(* The steps of a client and of its handler *)

LEMMA ClientKeeps ==
    ASSUME IInv, NEW c \in Clients, ClientStep(c) \/ Accept(c)
    PROVE  IInv'
<1>. DEFINE r == conn[c]
<1>1. r \in Connection /\ Sound(r) /\ Honest(r) /\ token \in Tokens /\ path \in Sessions \cup {None}
      /\ cancelled \in [Sessions -> BOOLEAN] /\ conn \in [Clients -> Connection]
  BY DEF IInv, TypeOK
<1>2. CASE FetchToken(c)
  <2>. DEFINE n == [r EXCEPT !.knows = token]
  <2>0. /\ n \in Connection /\ n.knows = token /\ n.inbox = r.inbox
        /\ n.handler = r.handler /\ n.expected = r.expected /\ n.sess = r.sess
        /\ n.auth = r.auth /\ n.served = r.served
    BY <1>1 DEF Connection
  <2>1. n \in Connection /\ Sound(n) /\ Honest(n)
    <3>1. /\ r.knows \in Int /\ token \in Int /\ r.auth \in Int
          /\ r.inbox \in Seq(Requests \X Tokens)
      BY <1>1 DEF Connection, Tokens, NoToken
    <3>2. \A k \in DOMAIN r.inbox : r.inbox[k][2] \in Int
      BY <3>1 DEF Tokens
    <3>3. Sound(n)
      BY <1>1, <2>0, <3>1 DEF Sound, Honest
    <3>4. Honest(n)
      BY <1>1, <2>0, <3>1, <3>2 DEF Honest
    <3>5. QED
      BY <2>0, <3>3, <3>4
  <2>2. conn' = [conn EXCEPT ![c] = n]
    BY <1>2 DEF FetchToken
  <2>3. QED
    BY <1>1, <1>2, <2>1, <2>2, StepOfOne DEF FetchToken, KeepServer
<1>3. CASE Connect(c)
  <2>. DEFINE n == [r EXCEPT !.sess = path, !.handler = "backlog", !.open = TRUE]
  <2>0. n \in Connection /\ n.inbox = r.inbox /\ n.knows = r.knows
    BY <1>1, <1>3 DEF Connection, Connect
  <2>1. n \in Connection /\ Sound(n) /\ Honest(n)
    BY <1>1, <1>3, <2>0, StaysHonest DEF Connection, Sound, Connect
  <2>2. conn' = [conn EXCEPT ![c] = n]
    BY <1>3 DEF Connect
  <2>3. QED
    BY <1>1, <1>3, <2>1, <2>2, StepOfOne DEF Connect, KeepServer
<1>4. CASE Close(c)
  <2>. DEFINE n == [r EXCEPT !.open = FALSE]
  <2>0. n \in Connection /\ n.inbox = r.inbox /\ n.knows = r.knows
    BY <1>1 DEF Connection
  <2>1. n \in Connection /\ Sound(n) /\ Honest(n)
    BY <1>1, <2>0, StaysHonest DEF Connection, Sound
  <2>2. conn' = [conn EXCEPT ![c] = n]
    BY <1>4 DEF Close
  <2>3. QED
    BY <1>1, <1>4, <2>1, <2>2, StepOfOne DEF Close, KeepServer
<1>5. ASSUME NEW op \in Requests, Request(c, op) PROVE IInv'
  <2>. DEFINE n == [r EXCEPT !.inbox = Append(@, <<op, r.knows>>)]
  <2>1. Append(r.inbox, <<op, r.knows>>) \in Seq(Requests \X Tokens)
    BY <1>1 DEF Connection
  <2>2. n \in Connection /\ Sound(n) /\ Honest(n)
    <3>1. /\ n \in Connection /\ n.inbox = Append(r.inbox, <<op, r.knows>>) /\ n.knows = r.knows
          /\ Sound(n)
      BY <1>1, <2>1 DEF Connection, Sound
    <3>2. r.inbox \in Seq(Requests \X Tokens) /\ r.knows \in Int
      BY <1>1 DEF Connection, Tokens
    <3>3. \A k \in DOMAIN n.inbox :
              (k \in DOMAIN r.inbox /\ n.inbox[k] = r.inbox[k]) \/ n.inbox[k] = <<op, r.knows>>
      BY <3>1, <3>2
    <3>4. Honest(n)
      BY <1>1, <3>1, <3>2, <3>3 DEF Honest
    <3>5. QED
      BY <3>1, <3>4
  <2>3. conn' = [conn EXCEPT ![c] = n]
    BY <1>5 DEF Request
  <2>4. QED
    BY <1>1, <1>5, <2>2, <2>3, StepOfOne DEF Request, KeepServer
<1>6. CASE Accept(c)
  <2>. DEFINE n == [r EXCEPT !.handler = "spawned"]
  <2>1. server[r.sess] = "open" /\ r.handler = "backlog"
    BY <1>6 DEF Accept
  <2>2. r.sess \in Sessions => r.sess <= token
    BY <2>1 DEF IInv, Ordered
  <2>3. r.sess = None => r.sess <= token
    BY <1>1 DEF None, Tokens
  <2>0. n \in Connection /\ n.inbox = r.inbox /\ n.knows = r.knows
    BY <1>1 DEF Connection
  <2>4. n \in Connection /\ Sound(n) /\ Honest(n)
    BY <1>1, <2>0, <2>1, <2>2, <2>3, StaysHonest DEF Connection, Sound
  <2>5. conn' = [conn EXCEPT ![c] = n]
    BY <1>6 DEF Accept
  <2>6. QED
    BY <1>1, <1>6, <2>4, <2>5, StepOfOne DEF Accept, KeepServer
<1>7. QED
  BY <1>2, <1>3, <1>4, <1>5, <1>6 DEF ClientStep

LEMMA HandlerKeeps ==
    ASSUME IInv, NEW c \in Clients, HandlerStep(c)
    PROVE  IInv'
<1>. DEFINE r == conn[c]
<1>1. r \in Connection /\ Sound(r) /\ Honest(r) /\ token \in Tokens
      /\ cancelled \in [Sessions -> BOOLEAN] /\ conn \in [Clients -> Connection]
  BY DEF IInv, TypeOK
<1>2. CASE FirstPoll(c)
  <2>. DEFINE n == [r EXCEPT !.handler = "reading", !.expected = token]
  <2>1. r.handler = "spawned"
    BY <1>2 DEF FirstPoll
  <2>0. n \in Connection /\ n.inbox = r.inbox /\ n.knows = r.knows
    BY <1>1 DEF Connection
  <2>2. n \in Connection /\ Sound(n) /\ Honest(n)
    BY <1>1, <2>0, <2>1, StaysHonest DEF Connection, Sound
  <2>3. conn' = [conn EXCEPT ![c] = n]
    BY <1>2 DEF FirstPoll
  <2>4. QED
    BY <1>1, <1>2, <2>2, <2>3, StepOfOne DEF FirstPoll, KeepServer
<1>3. CASE ReadEof(c) \/ LogsEnd(c)
  <2>. DEFINE n == [r EXCEPT !.handler = "closed"]
  <2>0. n \in Connection /\ n.inbox = r.inbox /\ n.knows = r.knows
    BY <1>1 DEF Connection
  <2>1. n \in Connection /\ Sound(n) /\ Honest(n)
    BY <1>1, <2>0, StaysHonest DEF Connection, Sound
  <2>2. conn' = [conn EXCEPT ![c] = n]
    BY <1>3 DEF ReadEof, LogsEnd
  <2>3. QED
    BY <1>1, <1>3, <2>1, <2>2, StepOfOne DEF ReadEof, LogsEnd, KeepServer
<1>4. CASE ReadJunk(c) \/ Reject(c)
  <2>1. PICK next \in {"reading", "closed"} : conn' = [conn EXCEPT ![c] = Goes(c, next)]
    BY <1>4 DEF ReadJunk, Reject
  <2>2. r.handler = "reading" /\ r.inbox # <<>>
    BY <1>4 DEF ReadJunk, Reject, Reads
  <2>3. Goes(c, next) \in Connection /\ Sound(Goes(c, next)) /\ Honest(Goes(c, next))
    BY <2>2, GoesSound
  <2>4. QED
    BY <1>1, <1>4, <2>1, <2>3, StepOfOne DEF ReadJunk, Reject, KeepServer
<1>5. CASE AuthenticateAgain(c)
  <2>1. r.handler = "reading" /\ r.inbox # <<>>
    BY <1>5 DEF AuthenticateAgain, Reads
  <2>2. /\ Answers(c, "reading") \in Connection /\ Sound(Answers(c, "reading"))
        /\ Honest(Answers(c, "reading"))
    BY <2>1, GoesSound
  <2>3. QED
    BY <1>1, <1>5, <2>2, StepOfOne DEF AuthenticateAgain, KeepServer
<1>6. CASE Authenticate(c)
  <2>. DEFINE g == Answers(c, "reading")  n == [g EXCEPT !.auth = Presented(c)]
  <2>1. r.handler = "reading" /\ r.inbox # <<>> /\ ~Authed(c)
    BY <1>6 DEF Authenticate, Reads
  <2>2. g \in Connection /\ Sound(g) /\ Honest(g)
    BY <2>1, GoesSound
  <2>3. /\ g.handler \in {"reading", "closed"} /\ g.expected = r.expected
        /\ g.served = r.served /\ g.sess = r.sess /\ g.knows = r.knows
    BY <1>1 DEF Answers, Goes, Connection
  <2>4. Presented(c) \in Tokens /\ Presented(c) <= r.knows
    <3>1. r.inbox \in Seq(Requests \X Tokens)
      BY <1>1 DEF Connection
    <3>2. 1 \in DOMAIN r.inbox /\ Head(r.inbox) = r.inbox[1] /\ r.inbox[1] \in Requests \X Tokens
      BY <2>1, <3>1
    <3>3. QED
      BY <1>1, <3>2 DEF Presented, Honest
  <2>5. r.expected = Presented(c) /\ r.expected # NoToken
    BY <1>6, <2>4 DEF Authenticate, Tokens, NoToken
  <2>6. n \in Connection /\ n.inbox = g.inbox /\ n.knows = g.knows
    BY <2>2, <2>4 DEF Connection
  <2>7. Sound(n)
    BY <1>1, <2>2, <2>3, <2>4, <2>5 DEF Connection, Sound
  <2>8. Honest(n)
    BY <2>2, <2>6, StaysHonest
  <2>9. conn' = [conn EXCEPT ![c] = n]
    BY <1>6 DEF Authenticate
  <2>10. QED
    BY <1>1, <1>6, <2>6, <2>7, <2>8, <2>9, StepOfOne DEF Authenticate, KeepServer
<1>7. CASE TellStatus(c) \/ SubscribeLogs(c)
  <2>1. PICK next \in {"reading", "logs"} :
            conn' = [conn EXCEPT ![c] =
                [Answers(c, next) EXCEPT !.served = @ \/ conn[c].open]]
    BY <1>7 DEF TellStatus, SubscribeLogs
  <2>. DEFINE g == Answers(c, next)
              n == [g EXCEPT !.served = @ \/ conn[c].open]
  <2>2. r.handler = "reading" /\ r.inbox # <<>> /\ Authed(c)
    BY <1>7 DEF TellStatus, SubscribeLogs, Reads
  <2>3. g \in Connection /\ Sound(g) /\ Honest(g)
    BY <2>2, GoesSound
  <2>4. g.auth = r.auth
    BY <1>1 DEF Answers, Goes, Connection
  <2>5. n \in Connection /\ n.inbox = g.inbox /\ n.knows = g.knows
    BY <1>1, <2>3 DEF Connection
  <2>6. Sound(n) /\ Honest(n)
    BY <2>2, <2>3, <2>4, <2>5, StaysHonest DEF Sound, Authed, Connection
  <2>7. QED
    BY <1>1, <1>7, <2>1, <2>5, <2>6, StepOfOne DEF TellStatus, SubscribeLogs, KeepServer
<1>8. CASE Stop(c)
  <2>. DEFINE g == Goes(c, "closed")
              n == [g EXCEPT !.served = @ \/ conn[c].open, !.ignored = ~conn[c].open]
  <2>1. r.handler = "reading" /\ r.inbox # <<>> /\ Authed(c)
    BY <1>8 DEF Stop, Reads
  <2>2. g \in Connection /\ Sound(g) /\ Honest(g)
    BY <2>1, GoesSound
  <2>3. g.auth = r.auth
    BY <1>1 DEF Goes, Connection
  <2>4. n \in Connection /\ n.inbox = g.inbox /\ n.knows = g.knows
    <3>1. (~conn[c].open) \in BOOLEAN /\ (g.served \/ conn[c].open) \in BOOLEAN
      OBVIOUS
    <3>2. QED
      BY <2>2, <3>1 DEF Connection
  <2>5. Sound(n)
    BY <2>1, <2>2, <2>3 DEF Sound, Authed, Connection
  <2>6. Honest(n)
    BY <2>2, <2>4, StaysHonest
  <2>7. cancelled' \in [Sessions -> BOOLEAN]
    BY <1>1, <1>8 DEF Stop, Connection
  <2>8. conn' = [conn EXCEPT ![c] = n]
    BY <1>8 DEF Stop
  <2>9. QED
    BY <1>1, <1>8, <2>4, <2>5, <2>6, <2>7, <2>8, StepOfOne DEF Stop
<1>9. QED
  BY <1>2, <1>3, <1>4, <1>5, <1>6, <1>7, <1>8 DEF HandlerStep

-----------------------------------------------------------------------------
(* The theorems *)

LEMMA Inductive == Spec => []IInv
<1>1. Init => IInv
  BY InitTyped, IpcAssumption
  DEF Init, IInv, Ordered, Sound, Honest, NotConnected, None, NoToken, Sessions
<1>2. IInv /\ [Next]_vars => IInv'
  <2>. SUFFICES ASSUME IInv, [Next]_vars PROVE IInv'
    OBVIOUS
  <2>1. CASE Bind
    BY <2>1, BindKeeps
  <2>2. ASSUME NEW s \in Sessions, ServerStep(s) PROVE IInv'
    BY <2>2, ServerKeeps
  <2>3. ASSUME NEW c \in Clients, ClientStep(c) \/ Accept(c) PROVE IInv'
    BY <2>3, ClientKeeps
  <2>4. ASSUME NEW c \in Clients, HandlerStep(c) PROVE IInv'
    BY <2>4, HandlerKeeps
  <2>5. CASE UNCHANGED vars
    BY <2>5 DEF vars, IInv, TypeOK, Ordered, Sound, Honest
  <2>6. QED
    BY <2>1, <2>2, <2>3, <2>4, <2>5 DEF Next
<1>3. QED
  BY <1>1, <1>2, PTL DEF Spec

\* The variables keep their types, in every session and for every client.
THEOREM TypeCorrect == Spec => []TypeOK
<1>1. IInv => TypeOK
  BY DEF IInv
<1>2. QED
  BY <1>1, Inductive, PTL

\* No connection of a session is authenticated by the token of an earlier one,
\* although clients may connect before the token is rotated (ipc.rs:80-86) and
\* the handler reads it only when it is first polled (ipc.rs:147).
THEOREM TokensDieWithTheirSession == Spec => []OldTokensAreDead
<1>1. IInv => OldTokensAreDead
  <2>. SUFFICES ASSUME IInv, NEW c \in Clients, Authed(c)
                PROVE  conn[c].auth >= conn[c].sess
    BY DEF OldTokensAreDead
  <2>1. conn[c] \in Connection /\ Sound(conn[c])
    BY DEF IInv, TypeOK
  <2>2. conn[c].sess \in Int /\ conn[c].expected \in Int
    BY <2>1 DEF Connection, Sessions, Tokens, None, NoToken
  <2>3. QED
    BY <2>1, <2>2 DEF Sound, Authed
<1>2. QED
  BY <1>1, Inductive, PTL

\* Nobody is told or obeyed who has not presented the token expected of it, and
\* for that a client must have been given the token of its session or of a later
\* one: what was known before the session started opens nothing (ipc.rs:147,
\* 173-200).
THEOREM StrangersAreNotServed == Spec => []OnlyHoldersAreServed
<1>1. IInv => OnlyHoldersAreServed
  <2>. SUFFICES ASSUME IInv, NEW c \in Clients, conn[c].served
                PROVE  conn[c].auth = conn[c].expected /\ conn[c].knows >= conn[c].sess
    BY DEF OnlyHoldersAreServed
  <2>1. conn[c] \in Connection /\ Sound(conn[c])
    BY DEF IInv, TypeOK
  <2>2. conn[c].sess \in Int /\ conn[c].expected \in Int /\ conn[c].knows \in Int
    BY <2>1 DEF Connection, Sessions, Tokens, None, NoToken
  <2>3. conn[c].auth = conn[c].expected /\ conn[c].auth <= conn[c].knows
    BY <2>1 DEF Sound
  <2>4. conn[c].expected # NoToken /\ conn[c].sess <= conn[c].expected
    BY <2>1 DEF Sound
  <2>5. QED
    BY <2>2, <2>3, <2>4
<1>2. QED
  BY <1>1, Inductive, PTL
==================================================================================
