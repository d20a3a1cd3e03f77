-------------------------------- MODULE SocksConn --------------------------------
(*******************************************************************************)
(* One connection of the SOCKS5 listener in front of Arti (arti_runtime.rs).   *)
(* The handler negotiates, dials through Tor, confirms, and then starts a pump *)
(* in each direction and waits for both.  Only the pumps look at the session's *)
(* Cancel.  A pump that ends drops its halves: the client's write half is shut *)
(* down by that, the halves of the Tor stream close it only together.          *)
(*                                                                             *)
(* The client and the far end of the Tor stream are external: each may stop    *)
(* sending, at any time or never, and the Tor client may never answer a dial.  *)
(*******************************************************************************)
EXTENDS Naturals

CONSTANT MaxData            \* bound: bytes in flight in each direction

ASSUME SocksAssumption == MaxData \in Nat

VARIABLES
    handler,                \* where the handler is
    creds,                  \* are the client's user name and password the session's?
    up,                     \* the pump from the client to Tor
    down,                   \* the pump from Tor to the client
    sent,                   \* client bytes not read yet
    back,                   \* Tor bytes not read yet
    clientTold,             \* has the client seen the end of the stream?
    clientDone,             \* the client: "open", "finished" sending, or "gone"
    torDone,                \* has the far end closed the Tor stream?
    sessionCancelled        \* the session's Cancel

pumpVars == <<up, down, sent, back>>
farVars == <<clientDone, torDone, sessionCancelled>>
socksVars == <<handler, creds, pumpVars, clientTold, farVars>>

SocksTypeOK ==
    /\ handler \in {"greeting", "auth", "request", "dialing", "reply", "pumping", "ended"}
    /\ creds \in BOOLEAN
    /\ up \in {"none", "copying", "ended"} /\ down \in {"none", "copying", "ended"}
    /\ sent \in 0..MaxData /\ back \in 0..MaxData
    /\ clientTold \in BOOLEAN
    /\ clientDone \in {"open", "finished", "gone"}
    /\ torDone \in BOOLEAN
    /\ sessionCancelled \in BOOLEAN

SocksInit ==
    /\ handler = "greeting"
    /\ creds \in BOOLEAN
    /\ up = "none" /\ down = "none"
    /\ sent = 0 /\ back = 0
    /\ clientTold = FALSE
    /\ clientDone = "open"
    /\ torDone = FALSE
    /\ sessionCancelled = FALSE

-----------------------------------------------------------------------------
(* The negotiation: no step of it looks at the token *)

\* Every return drops the socket, which the client sees.
Negotiate(from, to) ==
    /\ handler = from
    /\ handler' = to
    /\ clientTold' = (to = "ended")
    /\ UNCHANGED <<creds, pumpVars, farVars>>

\* The methods are read and user/password is among them.
Greet == clientDone # "gone" /\ Negotiate("greeting", "auth")

\* Mutation: the outcome of the comparison is sent, and not acted upon.
CheckNothing == clientDone # "gone" /\ Negotiate("auth", "request")

CheckCredentials == clientDone # "gone" /\ creds /\ Negotiate("auth", "request")

\* The request is read and connect() is called on the Tor client.
ReadRequest == clientDone # "gone" /\ Negotiate("request", "dialing")

\* A malformed message, wrong credentials, an unsupported request, an end of
\* file: the handler returns, without a SOCKS failure reply to the request.
Refuse == \E from \in {"greeting", "auth", "request"} : Negotiate(from, "ended")

DialSucceeds == Negotiate("dialing", "reply")

DialFails == Negotiate("dialing", "ended")

\* The reply is sent and both pumps are spawned.
Confirm ==
    /\ handler = "reply"
    /\ handler' = "pumping"
    /\ up' = "copying" /\ down' = "copying"
    /\ UNCHANGED <<creds, sent, back, clientTold, farVars>>

\* The client is gone: the reply cannot be written, and the stream is dropped.
ConfirmFails == clientDone = "gone" /\ Negotiate("reply", "ended")

BothEnded == up = "ended" /\ down = "ended" /\ Negotiate("pumping", "ended")

-----------------------------------------------------------------------------
(* The pumps *)

CopyUp ==
    /\ up = "copying"
    /\ sent > 0
    /\ sent' = sent - 1
    /\ UNCHANGED <<handler, creds, up, down, back, clientTold, farVars>>

CopyDown ==
    /\ down = "copying"
    /\ back > 0 /\ clientDone # "gone"
    /\ back' = back - 1
    /\ UNCHANGED <<handler, creds, up, down, sent, clientTold, farVars>>

\* The Tor stream stays open with its other half: the far end is told nothing.
EndUp ==
    /\ up = "copying"
    /\ up' = "ended"
    /\ UNCHANGED <<handler, creds, down, sent, back, clientTold, farVars>>

\* Dropping the client's write half shuts it down.
EndDown ==
    /\ down = "copying"
    /\ down' = "ended"
    /\ clientTold' = TRUE
    /\ UNCHANGED <<handler, creds, up, sent, back, farVars>>

\* Mutation: the first direction to end takes the other one with it.
UpReadsEofForBoth ==
    /\ up = "copying"
    /\ clientDone = "finished" /\ sent = 0
    /\ up' = "ended" /\ down' = "ended"
    /\ clientTold' = TRUE
    /\ UNCHANGED <<handler, creds, sent, back, farVars>>

\* The client finished and all was copied, or a write to a closed stream fails.
UpReadsEof ==
    /\ \/ clientDone = "finished" /\ sent = 0
       \/ clientDone = "gone"
       \/ torDone /\ sent > 0
    /\ EndUp

\* Mutation: the end of the Tor stream is noticed by the next read only.
DownReadsEofLate == torDone /\ back > 0 /\ EndDown

\* The far end closed and all was copied, or a write to a client that is gone
\* fails.
DownReadsEof ==
    /\ \/ torDone /\ back = 0
       \/ clientDone = "gone" /\ back > 0
    /\ EndDown

UpCancelled == sessionCancelled /\ EndUp

\* Mutation: one pump for both directions looks at the token.
DownCancelledWithUp == sessionCancelled /\ up = "copying" /\ EndDown

DownCancelled == sessionCancelled /\ EndDown

-----------------------------------------------------------------------------
(* The client, the far end and the engine *)

\* Bound: MaxData bytes wait to be read.
ClientSends ==
    /\ handler = "pumping" /\ clientDone = "open"
    /\ sent < MaxData
    /\ sent' = sent + 1
    /\ UNCHANGED <<handler, creds, up, down, back, clientTold, farVars>>

\* A client that is gone has closed both directions: reads and writes at our end
\* fail from now on.
ClientEnds ==
    /\ \/ clientDone = "open" /\ clientDone' = "finished"
       \/ clientDone # "gone" /\ clientDone' = "gone"
    /\ UNCHANGED <<handler, creds, pumpVars, clientTold, torDone, sessionCancelled>>

TorSends ==
    /\ handler = "pumping" /\ ~torDone
    /\ back < MaxData
    /\ back' = back + 1
    /\ UNCHANGED <<handler, creds, up, down, sent, clientTold, farVars>>

TorFinishes ==
    /\ handler = "pumping" /\ ~torDone
    /\ torDone' = TRUE
    /\ UNCHANGED <<handler, creds, pumpVars, clientTold, clientDone, sessionCancelled>>

EngineCancels ==
    /\ ~sessionCancelled
    /\ sessionCancelled' = TRUE
    /\ UNCHANGED <<handler, creds, pumpVars, clientTold, clientDone, torDone>>

-----------------------------------------------------------------------------
Negotiation ==
    \/ Greet \/ CheckCredentials \/ ReadRequest \/ Refuse
    \/ DialSucceeds \/ DialFails

HandlerStep == Confirm \/ ConfirmFails \/ BothEnded

UpStep == CopyUp \/ UpReadsEof \/ UpCancelled

DownStep == CopyDown \/ DownReadsEof \/ DownCancelled

Environment ==
    ClientSends \/ ClientEnds \/ TorSends \/ TorFinishes \/ EngineCancels

SocksNext == Negotiation \/ HandlerStep \/ UpStep \/ DownStep \/ Environment

SocksSpec == SocksInit /\ [][SocksNext]_socksVars

(* tokio polls a task that can go on, and both ends take the bytes that are     *)
(* copied to them.  A select! polls its branches in random order, so a pump    *)
(* that is cancelled or at the end does not copy for ever.  The negotiation    *)
(* fails when its client has gone; else it waits for the client and for Tor,   *)
(* of which nothing more is assumed.                                           *)
SocksFairSpec ==
    /\ SocksSpec
    /\ WF_socksVars(HandlerStep)
    /\ WF_socksVars(clientDone = "gone" /\ Refuse)
    /\ WF_socksVars(UpStep) /\ WF_socksVars(DownStep)
    /\ SF_socksVars(UpReadsEof \/ UpCancelled) /\ SF_socksVars(DownReadsEof \/ DownCancelled)

-----------------------------------------------------------------------------
(* Properties *)

\* Nothing is dialed for a client that did not present this session's user name
\* and password (arti_runtime.rs:177-184).
DialsAreAuthenticated == handler \in {"dialing", "reply", "pumping"} => creds

\* A client that has finished sending still gets all the far end sends: without
\* a cancel, the pump to a client that is there ends only at the end of the Tor
\* stream (187-204).
ReplyOutlivesHalfClose ==
    down = "ended" /\ ~sessionCancelled /\ clientDone # "gone" => torDone /\ back = 0

\* A cancelled connection that reached its pumps ends, whatever the client and
\* the far end do (190-205).
CancelEndsPumps ==
    handler = "pumping" /\ sessionCancelled ~> handler = "ended"

\* The end of the Tor stream reaches the client.
TorEofReachesClient ==
    handler = "pumping" /\ torDone ~> clientTold

\* "dial the requested target through Arti, then byte-pump until EOF"
\* (arti_runtime.rs:169-170): a client that has left is not waited for.
ClientEofEnds ==
    handler = "pumping" /\ clientDone = "gone" ~> handler = "ended"

\* "instantly aborts every background task and tears down every socket"
\* (README.md:39-40): a cancelled connection ends.
CancelEndsConnection == sessionCancelled ~> handler = "ended"
==================================================================================
