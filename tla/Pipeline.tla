--------------------------------- MODULE Pipeline ---------------------------------
(*******************************************************************************)
(* The local end points of a session and the way of a connection through them: *)
(* TUN, Leaf #2, Arti's SOCKS listener, Tor; and for Arti's own bridge         *)
(* connection Leaf #1, whose outbound is "direct".  A port is drawn by binding *)
(* and releasing it (util.rs), and bound for good much later: by Leaf on its   *)
(* thread, by Arti after its bootstrap, which needs the bridge connection.     *)
(*                                                                             *)
(* "direct" is a socket of this app, and the app's own sockets are routed into *)
(* the TUN like any other app's, unless the per-app lists exempt it.           *)
(*                                                                             *)
(* The session's Cancel is a flag, as CancelToken shows; sessions follow one   *)
(* another, as the host's main thread has it.                                  *)
(*******************************************************************************)
EXTENDS Naturals

CONSTANTS
    Ports,                  \* the ports of 127.0.0.1 that the system gives out
    NoPort,                 \* no port was drawn yet
    Apps,                   \* the apps that are, or were, installed
    Own,                    \* this app
    MaxSessions,            \* bound: Engine::start calls
    PtChecksAuth,           \* does Leaf's SOCKS inbound insist on its credentials?
    BridgeCarried           \* does a dial of the sentinel 0.0.0.0:1 reach the bridge?

Sessions == 1..MaxSessions

ASSUME PipelineAssumption ==
    /\ NoPort \notin Ports
    /\ Own \in Apps
    /\ MaxSessions \in Nat
    /\ PtChecksAuth \in BOOLEAN
    /\ BridgeCarried \in BOOLEAN

None == 0
Inbounds == {"pt", "arti"}          \* the SOCKS listeners of Leaf #1 and of Arti
Parts == Inbounds \cup {"main"}     \* and Leaf #2

\* The bridge connection of each session, and one connection of client: those of
\* two apps do not meet.  One of Own is the DoH client's.
Flows == Sessions \cup {None}

VARIABLES
    client,                 \* the app whose connection is followed
    tunnelled,              \* the apps whose packets the system routes into the TUN
    cached,                 \* does arti-cache hold a directory that is still good?
    born,                   \* sessions begun so far
    port,                   \* the port drawn for each SOCKS listener
    owner,                  \* who listens on each port
    part,                   \* the parts of each session
    cancelled,              \* each session's Cancel
    conn                    \* where a connection is, and who carried it there

sessionVars == <<born, port, owner, part, cancelled>>
setting == <<client, tunnelled, cached>>
vars == <<setting, sessionVars, conn>>

Nobody == [who |-> "nobody", ses |-> None]
Listener(s, r) == [who |-> r, ses |-> s]

PartStates == {"none", "starting", "up", "done"}
Carriers == Sessions \cup {None}
Conns == [at : {"closed", "main", "far"}, main : Carriers, arti : Carriers]

Closed == [at |-> "closed", main |-> None, arti |-> None]

TypeOK ==
    /\ client \in Apps
    /\ tunnelled \subseteq Apps
    /\ cached \in BOOLEAN
    /\ born \in 0..MaxSessions
    /\ port \in [Sessions -> [Inbounds -> Ports \cup {NoPort}]]
    /\ owner \in [Ports -> [who : Inbounds, ses : Sessions] \cup {Nobody}]
    /\ part \in [Sessions -> [Parts -> PartStates]]
    /\ cancelled \in [Sessions -> BOOLEAN]
    /\ conn \in [Flows -> Conns]

\* establish() with the per-app lists: an app that is not installed cannot be
\* added to one, and an empty list of allowed apps is none.
RoutedBy(allowing, checked, installed) ==
    LET allowed == checked \cap installed
    IN  IF ~allowing THEN Apps \ checked
        ELSE IF allowed = {} THEN Apps ELSE allowed

Init ==
    /\ client \in Apps
    /\ \E allowing \in BOOLEAN, checked, installed \in SUBSET Apps :
        Own \in installed /\ tunnelled = RoutedBy(allowing, checked, installed)
    /\ cached \in BOOLEAN
    /\ born = 0
    /\ port = [s \in Sessions |-> [r \in Inbounds |-> NoPort]]
    /\ owner = [p \in Ports |-> Nobody]
    /\ part = [s \in Sessions |-> [p \in Parts |-> "none"]]
    /\ cancelled = [s \in Sessions |-> FALSE]
    /\ conn = [f \in Flows |-> Closed]

Exempt == Own \notin tunnelled

-----------------------------------------------------------------------------
(* The bring-up: ports are drawn, threads and tasks are spawned *)

\* random_local_port: no listener of ours is on it, and at the moment nobody's.
Draw(s, r) ==
    \E p \in Ports : owner[p] = Nobody /\ port' = [port EXCEPT ![s][r] = p]

Spawn(s, p) == part' = [part EXCEPT ![s][p] = "starting"]

\* pt::spawn, once the session before was stopped.
Begin(s) ==
    /\ born = s - 1
    /\ \A t \in Sessions : t < s => cancelled[t]
    /\ born' = s
    /\ Draw(s, "pt")
    /\ Spawn(s, "pt")
    /\ UNCHANGED <<setting, owner, cancelled, conn>>

\* SocksEndpoint::new_random and spawn_arti.
StartArti(s) ==
    /\ born = s /\ part[s]["arti"] = "none"
    /\ Draw(s, "arti")
    /\ Spawn(s, "arti")
    /\ UNCHANGED <<setting, born, owner, cancelled, conn>>

\* No port is free: start() fails, its FdGuard closes the TUN, and the PT that is
\* dropped cancels the session.
StartArtiFails(s) ==
    /\ born = s /\ part[s]["arti"] = "none"
    /\ \A p \in Ports : owner[p] # Nobody
    /\ part' = [part EXCEPT ![s]["arti"] = "done", ![s]["main"] = "done"]
    /\ cancelled' = [cancelled EXCEPT ![s] = TRUE]
    /\ UNCHANGED <<setting, born, port, owner, conn>>

StartMain(s) ==
    /\ born = s /\ part[s]["arti"] # "none" /\ part[s]["main"] = "none"
    /\ part' = [part EXCEPT ![s]["main"] = "up"]
    /\ UNCHANGED <<setting, born, port, owner, cancelled, conn>>

\* stop(), a failed bring-up, or a client of the IPC server.
Cancel(s) ==
    /\ s <= born /\ ~cancelled[s]
    /\ cancelled' = [cancelled EXCEPT ![s] = TRUE]
    /\ UNCHANGED <<setting, born, port, owner, part, conn>>

-----------------------------------------------------------------------------
(* Parts come up and end *)

Listens(s, r) ==
    /\ part[s][r] = "starting"
    /\ owner[port[s][r]] = Nobody
    /\ part' = [part EXCEPT ![s][r] = "up"]
    /\ owner' = [owner EXCEPT ![port[s][r]] = Listener(s, r)]
    /\ UNCHANGED <<setting, born, port, cancelled, conn>>

Carries(s, p, f) ==
    \/ p = "main" /\ conn[f].main = s
    \/ p = "arti" /\ (conn[f].arti = s \/ f = s)

\* Whatever ends cancels its session, lets its port go and drops what it carried.
Ends(s, p) ==
    /\ part' = [part EXCEPT ![s][p] = "done"]
    /\ owner' = [q \in Ports |-> IF owner[q] = Listener(s, p) THEN Nobody ELSE owner[q]]
    /\ cancelled' = [cancelled EXCEPT ![s] = TRUE]
    /\ conn' = [f \in Flows |-> IF Carries(s, p, f) THEN Closed ELSE conn[f]]
    /\ UNCHANGED <<setting, born, port>>

PtListens(s) == Listens(s, "pt")

\* The port is taken: by another session, or by any other program meanwhile.
PtRefused(s) == part[s]["pt"] = "starting" /\ Ends(s, "pt")

\* leaf::start returns: shut down, or with an error.
LeafEnds(s, p) ==
    /\ p # "arti"
    /\ part[s][p] \in {"starting", "up"}
    /\ Ends(s, p)

\* Arti has its bridge.
Bridged(s) == conn[s].at = "far" /\ BridgeCarried

\* create_bootstrapped() has a directory: from the cache, or by the bridge.
Bootstrapped(s) == cached \/ Bridged(s)

ArtiListens(s) == Bootstrapped(s) /\ Listens(s, "arti")

\* Mutation: spawn_arti leaves the token alone when run() fails.
ArtiRefusedQuietly(s) ==
    /\ Bootstrapped(s)
    /\ part[s]["arti"] = "starting"
    /\ part' = [part EXCEPT ![s]["arti"] = "done"]
    /\ UNCHANGED <<setting, born, port, owner, cancelled, conn>>

\* The port was lost in the meantime: run() returns the error of the bind.
ArtiRefused(s) ==
    /\ Bootstrapped(s)
    /\ part[s]["arti"] = "starting"
    /\ Ends(s, "arti")

\* A bootstrap that fails or is aborted; the loop that sees the token.
ArtiEnds(s) ==
    /\ \/ part[s]["arti"] = "starting"
       \/ part[s]["arti"] = "up" /\ cancelled[s]
    /\ Ends(s, "arti")

-----------------------------------------------------------------------------
(* The way of a connection *)

Move(f, to) ==
    /\ conn' = [conn EXCEPT ![f] = to]
    /\ UNCHANGED <<setting, sessionVars>>

\* The app whose socket meets the system's routes: a bridge connection leaves
\* Leaf #1 by a socket of this app.
AppOf(f) == IF f \in Sessions THEN Own ELSE client

\* Arti dials its bridge through whatever listens on the port it was given for
\* Leaf #1; its transport is configured with that address and no credentials.
BridgeDialled(s) ==
    /\ part[s]["arti"] \in {"starting", "up"}
    /\ owner[port[s]["pt"]].who = "pt"
    /\ ~PtChecksAuth

Dialled(f) == conn[f].at = "closed" /\ (f \in Sessions => BridgeDialled(f))

\* The TUN is there from before the start until Leaf #2 closes it.
TunUp == born > 0 /\ part[born]["main"] # "done"

RoutedIn(f) == AppOf(f) \in tunnelled /\ TunUp

\* Mutation: the sockets of the app are protected, as by VpnService.protect.
RouteOutProtected(f) ==
    /\ Dialled(f)
    /\ ~RoutedIn(f) \/ AppOf(f) = Own
    /\ Move(f, [Closed EXCEPT !.at = "far"])

\* By the system's other routes, past the TUN.
RouteOut(f) ==
    /\ Dialled(f)
    /\ ~RoutedIn(f)
    /\ Move(f, [Closed EXCEPT !.at = "far"])

RouteIn(f) ==
    /\ Dialled(f)
    /\ RoutedIn(f)
    /\ part[born]["main"] = "up"
    /\ Move(f, [at |-> "main", main |-> born, arti |-> None])

\* Mutation: Arti's listener does not compare the credentials.
ChainAcceptsAny(s, o) == o.who = "arti"

\* The only rule's target is the chain, which begins at the port of Arti's
\* listener; that compares the credentials of its own session.
ChainAccepts(s, o) == o = Listener(s, "arti")

\* Through the chain, by the bridge, the Tor exit and the VLESS server, to the
\* target.
Chain(f) ==
    /\ conn[f].at = "main"
    /\ LET o == owner[port[conn[f].main]["arti"]]
       IN  /\ ChainAccepts(conn[f].main, o)
           /\ Bridged(o.ses)
           /\ Move(f, [at |-> "far", main |-> conn[f].main, arti |-> o.ses])

\* Refused, timed out, cut or finished; whoever wants it may dial again.
Closes(f) == conn[f].at # "closed" /\ Move(f, Closed)

-----------------------------------------------------------------------------
ArtiStart(s) == StartArti(s) \/ StartArtiFails(s)

GoesOn(s) == ArtiStart(s) \/ StartMain(s)

PtStep(s) == PtListens(s) \/ PtRefused(s)

ArtiStep(s) == ArtiListens(s) \/ ArtiRefused(s)

Next ==
    \/ \E s \in Sessions :
        \/ Begin(s) \/ GoesOn(s) \/ Cancel(s)
        \/ PtStep(s) \/ ArtiStep(s) \/ ArtiEnds(s)
        \/ \E p \in Parts : LeafEnds(s, p)
    \/ \E f \in Flows : RouteOut(f) \/ RouteIn(f) \/ Chain(f) \/ Closes(f)

Spec == Init /\ [][Next]_vars

(* A bring-up goes on, and what was spawned tries to bind its port.  Arti dials *)
(* its bridge again and again, and one of its dials is not cut before it is    *)
(* through and used, if there is a way through at all.  All of it is said of   *)
(* the last session: the others are cancelled.                                 *)
Latest(A(_)) == \E s \in Sessions : s = born /\ A(s)

FairSpec ==
    /\ Spec
    /\ WF_vars(Latest(GoesOn)) /\ WF_vars(Latest(PtStep))
    /\ SF_vars(Latest(RouteOut)) /\ SF_vars(Latest(ArtiStep))

-----------------------------------------------------------------------------
(* Properties *)

Live(s) == s <= born /\ ~cancelled[s]

\* Nothing is carried without an exemption of this app: the bridge connection
\* would have to be carried by the Arti that waits for it, since the direct
\* outbound of Leaf #1 ends in Leaf #2, whose chain begins at Arti; and a good
\* directory in the cache brings up the listener, but no bridge
\* (arti_runtime.rs:66-92, leaf_config.rs:50-53, 137-144).
ServingNeedsExemption ==
    \A f \in Flows :
        conn[f].at = "far" /\ conn[f].arti # None /\ Live(conn[f].arti) => Exempt

\* What Leaf #2 of a session took from the TUN arrives by Arti of the same
\* session, whoever has come to listen on its port (runtime.rs:17-26,
\* leaf_config.rs:98-107, arti_runtime.rs:239-246).
ChainIsWhole ==
    \A f \in Flows :
        conn[f].at = "far" /\ conn[f].main # None => conn[f].arti = conn[f].main

\* A DoH query of a live session does not travel through the tunnel: with an
\* exemption it goes past it, without one there is no Arti to take it
\* (dns.rs:108-115).
DohGoesPastTheTunnel ==
    client = Own /\ conn[None].at = "far" /\ conn[None].arti # None
        => ~Live(conn[None].arti)

\* A bring-up whose bridge can be reached comes to serve or ends, also when a
\* port was lost between the draw and the bind (util.rs:9-14).
Serves(s) == \A p \in Parts : part[s][p] = "up"

Reachable == Exempt /\ BridgeCarried /\ ~PtChecksAuth

Settled == \A s \in Sessions : s = born => Serves(s) \/ cancelled[s]

BringUpSettles == Reachable ~> Settled

\* "the request is in fact delivered to Leaf #2's TUN inbound" (dns.rs:108-111).
DohRidesTheTunnel ==
    [][\A s \in Sessions : s = born /\ Serves(s) /\ client = Own => ~RouteOut(None)]_vars
===================================================================================
