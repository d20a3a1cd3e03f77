-------------------------------- MODULE IpcServer --------------------------------
(*******************************************************************************)
(* ipc.rs: the Unix-socket server of each engine session, its connections and  *)
(* the process-wide auth token.  A session binds the socket, rotates the token *)
(* and then spawns its accept loop.  Every accepted connection gets a detached *)
(* handler, which reads the token it will expect when it is first polled, and  *)
(* which only a log subscriber's await ties to the session's Cancel.           *)
(*                                                                             *)
(* A token is the number of the session that generated it; 0 is the one before *)
(* any rotation.  Requests are pipelined: a client may send, and close, before *)
(* the handler reads.                                                          *)
(*******************************************************************************)
EXTENDS Integers, Sequences

CONSTANTS
    Clients,                \* connections, each made at most once
    MaxSessions,            \* bound: engine sessions
    MaxPipe                 \* bound: requests a client has sent and nobody read

ASSUME IpcAssumption ==
    /\ MaxSessions \in Nat
    /\ MaxPipe \in Nat

Sessions == 1..MaxSessions
Tokens == 0..MaxSessions
None == 0
NoToken == -1

VARIABLES
    token,                  \* AUTH_TOKEN
    born,                   \* sessions so far
    server,                 \* each session's listener
    cancelled,              \* each session's Cancel
    path,                   \* the session whose listener owns <private_dir>/ipc.sock
    conn                    \* each client, its connection and the handler of that

vars == <<token, born, server, cancelled, path, conn>>

Requests == {"auth", "status", "logs", "stop", "junk"}

Connection ==
    [knows : Tokens,                    \* the token last asked of the platform
     sess : Sessions \cup {None},       \* the session it is connected to
     open : BOOLEAN,                    \* has the client kept its end open?
     inbox : Seq(Requests \X Tokens),   \* requests sent and not read
     handler : {"none", "backlog", "spawned", "reading", "logs", "closed"},
     expected : Tokens \cup {NoToken},  \* the token the handler compares with
     auth : Tokens \cup {NoToken},      \* the token it presented and was let in with
     served : BOOLEAN,                  \* was it told a status or logs, or obeyed?
     ignored : BOOLEAN]                 \* was a Stop of an authenticated client lost?

TypeOK ==
    /\ token \in Tokens
    /\ born \in 0..MaxSessions
    /\ server \in [Sessions -> {"none", "bound", "open", "ended"}]
    /\ cancelled \in [Sessions -> BOOLEAN]
    /\ path \in Sessions \cup {None}
    /\ conn \in [Clients -> Connection]

NotConnected ==
    [knows |-> 0, sess |-> None, open |-> FALSE, inbox |-> <<>>, handler |-> "none",
     expected |-> NoToken, auth |-> NoToken, served |-> FALSE, ignored |-> FALSE]

Init ==
    /\ token = 0
    /\ born = 0
    /\ server = [s \in Sessions |-> "none"]
    /\ cancelled = [s \in Sessions |-> FALSE]
    /\ path = None
    /\ conn = [c \in Clients |-> NotConnected]

-----------------------------------------------------------------------------
(* The server *)

\* A stale socket file is removed first.  The engine's lock keeps one session
\* from binding before the last one serves or failed; the last one need not be
\* cancelled by then, for stop() cancels without the lock.
Bind ==
    /\ born < MaxSessions
    /\ \A s \in Sessions : server[s] # "bound"
    /\ born' = born + 1
    /\ server' = [server EXCEPT ![born + 1] = "bound"]
    /\ path' = born + 1
    /\ UNCHANGED <<token, cancelled, conn>>

\* The listener is dropped, which resets the connections nobody accepted.
Unlisten(s) ==
    /\ server' = [server EXCEPT ![s] = "ended"]
    /\ conn' = [c \in Clients |->
        IF conn[c].sess = s /\ conn[c].handler = "backlog"
        THEN [conn[c] EXCEPT !.handler = "closed"] ELSE conn[c]]
    /\ UNCHANGED <<token, born>>

\* set_owner_only fails: the file stays, and the failed start() cancels.
BindFails(s) ==
    /\ server[s] = "bound"
    /\ Unlisten(s)
    /\ cancelled' = [cancelled EXCEPT ![s] = TRUE]
    /\ UNCHANGED path

\* Mutation: the first session's token is kept.
ServeUnrotated(s) ==
    /\ server[s] = "bound"
    /\ server' = [server EXCEPT ![s] = "open"]
    /\ token' = IF token = 0 THEN s ELSE token
    /\ UNCHANGED <<born, cancelled, path, conn>>

\* rotate_auth_token, and the accept loop is spawned.
Serve(s) ==
    /\ server[s] = "bound"
    /\ server' = [server EXCEPT ![s] = "open"]
    /\ token' = s
    /\ UNCHANGED <<born, cancelled, path, conn>>

\* The loop's cancelled() branch removes the file, whoever bound it.
LoopCancelled(s) ==
    /\ cancelled[s] /\ server[s] = "open"
    /\ Unlisten(s)
    /\ path' = None
    /\ UNCHANGED cancelled

\* stop() aborts the loop after it cancelled the session.
LoopAborted(s) ==
    /\ cancelled[s] /\ server[s] = "open"
    /\ Unlisten(s)
    /\ UNCHANGED <<cancelled, path>>

\* The engine cancels: stop(), or a part of it ended.
EngineCancels(s) ==
    /\ server[s] \in {"bound", "open"}
    /\ ~cancelled[s]
    /\ cancelled' = [cancelled EXCEPT ![s] = TRUE]
    /\ UNCHANGED <<token, born, server, path, conn>>

-----------------------------------------------------------------------------
(* The clients, external: they use the platform's nativeAuthToken *)

KeepServer == UNCHANGED <<token, born, server, cancelled, path>>

FetchToken(c) ==
    /\ conn[c].knows # token
    /\ conn' = [conn EXCEPT ![c].knows = token]
    /\ KeepServer

Connect(c) ==
    /\ conn[c].handler = "none"
    /\ path # None
    /\ server[path] \in {"bound", "open"}
    /\ conn' = [conn EXCEPT ![c].sess = path, ![c].handler = "backlog", ![c].open = TRUE]
    /\ KeepServer

Request(c, op) ==
    /\ conn[c].open /\ conn[c].handler # "closed"
    /\ Len(conn[c].inbox) < MaxPipe
    /\ conn' = [conn EXCEPT ![c].inbox = Append(@, <<op, conn[c].knows>>)]
    /\ KeepServer

Close(c) ==
    /\ conn[c].open
    /\ conn' = [conn EXCEPT ![c].open = FALSE]
    /\ KeepServer

-----------------------------------------------------------------------------
(* The accept loop spawns handle_client, whose steps follow *)

Accept(c) ==
    /\ conn[c].handler = "backlog"
    /\ server[conn[c].sess] = "open"
    /\ conn' = [conn EXCEPT ![c].handler = "spawned"]
    /\ KeepServer

FirstPoll(c) ==
    /\ conn[c].handler = "spawned"
    /\ conn' = [conn EXCEPT ![c].handler = "reading", ![c].expected = token]
    /\ KeepServer

Authed(c) == conn[c].auth # NoToken

\* The line to read next is such a request; what was sent before a close can
\* still be read.
Reads(c, op) ==
    /\ conn[c].handler = "reading"
    /\ conn[c].inbox # <<>>
    /\ Head(conn[c].inbox)[1] = op

\* The connection with the line consumed and its handler at its next await.
Goes(c, next) == [conn[c] EXCEPT !.inbox = Tail(@), !.handler = next]

\* send() fails when the client has closed its end: the handler returns.
Answers(c, next) == Goes(c, IF conn[c].open THEN next ELSE "closed")

\* The reply to a line that does not parse may fail; the loop goes on.
ReadJunk(c) ==
    /\ Reads(c, "junk")
    /\ conn' = [conn EXCEPT ![c] = Goes(c, "reading")]
    /\ KeepServer

\* The token of the line to read next.
Presented(c) == Head(conn[c].inbox)[2]

\* Mutation: the token is not compared with the expected one.
AuthenticateUnchecked(c) ==
    /\ Reads(c, "auth") /\ ~Authed(c)
    /\ conn' = [conn EXCEPT ![c] = [Answers(c, "reading") EXCEPT !.auth = Presented(c)]]
    /\ KeepServer

Authenticate(c) ==
    /\ Reads(c, "auth") /\ ~Authed(c)
    /\ Presented(c) = conn[c].expected
    /\ conn' = [conn EXCEPT ![c] = [Answers(c, "reading") EXCEPT !.auth = Presented(c)]]
    /\ KeepServer

\* A wrong token, or anything but Auth first: an error reply and the end.
Reject(c) ==
    /\ ~Authed(c)
    /\ \/ Reads(c, "auth") /\ Presented(c) # conn[c].expected
       \/ \E op \in {"status", "logs", "stop"} : Reads(c, op)
    /\ conn' = [conn EXCEPT ![c] = Goes(c, "closed")]
    /\ KeepServer

AuthenticateAgain(c) ==
    /\ Reads(c, "auth") /\ Authed(c)
    /\ conn' = [conn EXCEPT ![c] = Answers(c, "reading")]
    /\ KeepServer

TellStatus(c) ==
    /\ Reads(c, "status") /\ Authed(c)
    /\ conn' = [conn EXCEPT ![c] = [Answers(c, "reading") EXCEPT !.served = @ \/ conn[c].open]]
    /\ KeepServer

SubscribeLogs(c) ==
    /\ Reads(c, "logs") /\ Authed(c)
    /\ conn' = [conn EXCEPT ![c] = [Answers(c, "logs") EXCEPT !.served = @ \/ conn[c].open]]
    /\ KeepServer

\* The session is cancelled after the reply was sent, and only then.
Stop(c) ==
    /\ Reads(c, "stop") /\ Authed(c)
    /\ cancelled' = [cancelled EXCEPT ![conn[c].sess] = @ \/ conn[c].open]
    /\ conn' = [conn EXCEPT ![c] = [Goes(c, "closed") EXCEPT
                                    !.served = @ \/ conn[c].open,
                                    !.ignored = ~conn[c].open]]
    /\ UNCHANGED <<token, born, server, path>>

ReadEof(c) ==
    /\ conn[c].handler = "reading"
    /\ conn[c].inbox = <<>> /\ ~conn[c].open
    /\ conn' = [conn EXCEPT ![c].handler = "closed"]
    /\ KeepServer

\* Mutation: a log subscriber is released by its client only.
LogsEndByClient(c) ==
    /\ conn[c].handler = "logs"
    /\ conn[c].inbox # <<>> /\ ~conn[c].open
    /\ conn' = [conn EXCEPT ![c].handler = "closed"]
    /\ KeepServer

LogsEnd(c) ==
    /\ conn[c].handler = "logs"
    /\ cancelled[conn[c].sess]
    /\ conn' = [conn EXCEPT ![c].handler = "closed"]
    /\ KeepServer

-----------------------------------------------------------------------------
LoopStep(s) == LoopCancelled(s) \/ LoopAborted(s)

ServerStep(s) == BindFails(s) \/ Serve(s) \/ LoopStep(s) \/ EngineCancels(s)

ClientStep(c) ==
    \/ FetchToken(c) \/ Connect(c) \/ Close(c)
    \/ \E op \in Requests : Request(c, op)

HandlerStep(c) ==
    \/ FirstPoll(c) \/ ReadJunk(c) \/ Authenticate(c) \/ Reject(c)
    \/ AuthenticateAgain(c) \/ TellStatus(c) \/ SubscribeLogs(c) \/ Stop(c)
    \/ ReadEof(c) \/ LogsEnd(c)

Next ==
    \/ Bind
    \/ \E s \in Sessions : ServerStep(s)
    \/ \E c \in Clients : ClientStep(c) \/ Accept(c) \/ HandlerStep(c)

Spec == Init /\ [][Next]_vars

(* tokio polls the loop and every handler that can go on.  Nothing is assumed  *)
(* of the clients, and nobody has to cancel.                                   *)
FairSpec ==
    /\ Spec
    /\ \A s \in Sessions : WF_vars(LoopStep(s))
    /\ \A c \in Clients : WF_vars(HandlerStep(c))

-----------------------------------------------------------------------------
(* Properties *)

\* A session's connection is never authenticated by the token of an earlier
\* session (ipc.rs:50-51, 86, 147): the token is rotated before the loop that
\* accepts anyone exists, though clients may already wait in the backlog.
OldTokensAreDead ==
    \A c \in Clients : Authed(c) => conn[c].auth >= conn[c].sess

\* Status and log lines are sent to, and a Stop is carried out for, only a client
\* that presented the token its handler expected, and that was given the token
\* of the session it is connected to or of a later one: one that knows nothing
\* newer than the token from before its session is not served, whatever it
\* sends, in whatever order (ipc.rs:147, 173-200).
OnlyHoldersAreServed ==
    \A c \in Clients :
        conn[c].served =>
            /\ conn[c].auth = conn[c].expected
            /\ conn[c].knows >= conn[c].sess

\* A handler whose client is gone and whose session is cancelled ends: none of
\* its awaits outlives both.
HandlersEnd ==
    \A c \in Clients :
        /\ conn[c].handler \in {"spawned", "reading", "logs"}
        /\ ~conn[c].open /\ cancelled[conn[c].sess]
        ~> conn[c].handler = "closed"

\* "Stop the engine." (ipc.rs:37-38): a Stop read from an authenticated client
\* is carried out.
StopIsObeyed == \A c \in Clients : ~conn[c].ignored

\* "`cancel`/`disconnect` instantly aborts every background task and tears down
\* every socket" (README.md:39-40): the connections of a cancelled session are
\* closed in the end.
CancelClosesClients ==
    \A c \in Clients :
        <>[](conn[c].sess # None /\ cancelled[conn[c].sess] => conn[c].handler = "closed")
==================================================================================
