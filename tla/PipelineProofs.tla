------------------------------- MODULE PipelineProofs -------------------------------
(*********************************************************************************)
(* Proofs about Pipeline, for any ports, apps and number of sessions, whether or *)
(* not Leaf checks its credentials and whatever carries the bridge.              *)
(*********************************************************************************)
EXTENDS Pipeline, TLAPS

\* Sessions follow one another: those before the last are cancelled, those after
\* it have nothing, and the TUN of a session that is not cancelled is open.
InTurn ==
    /\ \A s \in Sessions : s < born => cancelled[s]
    /\ \A s \in Sessions : s > born => part[s]["arti"] = "none" /\ conn[s].at = "closed"
    /\ \A s \in Sessions : part[s]["main"] = "done" => cancelled[s]

\* A connection was carried by sessions that exist, and from the TUN only if the
\* app is routed there.
Carriage ==
    /\ \A f \in Flows : conn[f].main <= born /\ conn[f].arti <= born
    /\ \A f \in Flows : conn[f].at = "main" => conn[f].main \in Sessions
    /\ conn[None].at = "main" \/ conn[None].arti # None => client \in tunnelled

\* Without an exemption the bridge connection of a live session waits in its own
\* Leaf #2, or is not there.
BridgeWaits ==
    Own \in tunnelled =>
        \A s \in Sessions :
            Live(s) => /\ conn[s].at # "far"
                       /\ conn[s].at = "main" => conn[s].main = s

IInv == TypeOK /\ InTurn /\ Carriage /\ BridgeWaits /\ ServingNeedsExemption /\ ChainIsWhole

LEMMA InitKeeps == Init => IInv
<1>. SUFFICES ASSUME Init PROVE IInv
  OBVIOUS
<1>. USE PipelineAssumption DEF Init, Sessions, None
<1>1. TypeOK
  <2>1. tunnelled \subseteq Apps
    BY DEF RoutedBy
  <2>2. conn \in [Flows -> Conns]
    BY DEF Flows, Conns, Closed, Carriers
  <2>3. QED
    BY <2>1, <2>2 DEF TypeOK, Inbounds, Parts, PartStates
<1>2. InTurn
  BY DEF InTurn, Flows, Closed, Inbounds, Parts
<1>3. Carriage
  BY DEF Carriage, Flows, Closed
<1>4. BridgeWaits /\ ServingNeedsExemption /\ ChainIsWhole
  BY DEF BridgeWaits, ServingNeedsExemption, ChainIsWhole, Live, Flows, Closed
<1>5. QED
  BY <1>1, <1>2, <1>3, <1>4 DEF IInv

\* What a step that leaves the connections alone has to show.
LEMMA QuietKeeps ==
    ASSUME IInv, TypeOK', InTurn', UNCHANGED <<setting, conn>>, born' >= born,
           \A s \in Sessions : s <= born /\ cancelled[s] => cancelled'[s]
    PROVE  IInv'
<1>. USE PipelineAssumption DEF IInv, setting
<1>0. born \in Nat /\ born' \in Nat /\ \A f \in Flows : conn[f].main \in Nat /\ conn[f].arti \in Nat
  BY DEF TypeOK, Conns, Carriers, Sessions, None
<1>1. Carriage'
  BY <1>0 DEF Carriage
<1>2. \A s \in Sessions : Live(s)' => Live(s) \/ s > born
  BY <1>0 DEF Live, Sessions, TypeOK
<1>3. BridgeWaits'
  BY <1>2 DEF BridgeWaits, InTurn
<1>4. ServingNeedsExemption'
  <2>. SUFFICES ASSUME NEW f \in Flows, conn[f].at = "far", conn[f].arti # None,
                       Live(conn[f].arti)'
                PROVE  Exempt
    BY DEF ServingNeedsExemption, Exempt
  <2>1. conn[f].arti \in Sessions /\ conn[f].arti <= born
    BY DEF TypeOK, Conns, Carriers, Carriage
  <2>2. Live(conn[f].arti)
    BY <1>0, <1>2, <2>1 DEF Sessions
  <2>3. QED
    BY <2>2 DEF ServingNeedsExemption
<1>5. ChainIsWhole'
  BY DEF ChainIsWhole
<1>6. QED
  BY <1>1, <1>3, <1>4, <1>5

LEMMA BringUpKeeps ==
    ASSUME IInv, NEW s \in Sessions, Begin(s) \/ GoesOn(s) \/ Cancel(s)
    PROVE  IInv'
<1>. USE PipelineAssumption DEF IInv
<1>0. s \in Nat /\ s # 0 /\ s <= MaxSessions /\ born \in Nat
  BY DEF Sessions, TypeOK
<1>1. CASE Begin(s)
  <2>. USE <1>1 DEF Begin, Spawn, Draw
  <2>1. born' \in 0..MaxSessions /\ born' = born + 1
    BY <1>0
  <2>2. TypeOK'
    BY <2>1 DEF TypeOK, setting, Inbounds, Parts, PartStates
  <2>3. InTurn'
    BY <1>0, <2>1 DEF InTurn, TypeOK, Sessions, Parts, Inbounds
  <2>4. QED
    BY <1>0, <2>1, <2>2, <2>3, QuietKeeps
<1>2. CASE StartArti(s)
  <2>. USE <1>2 DEF StartArti, Spawn, Draw
  <2>1. TypeOK'
    BY DEF TypeOK, setting, Inbounds, Parts, PartStates
  <2>2. InTurn'
    BY <1>0 DEF InTurn, TypeOK, Sessions, Parts, Inbounds
  <2>3. QED
    BY <1>0, <2>1, <2>2, QuietKeeps
<1>3. CASE StartArtiFails(s)
  <2>. USE <1>3 DEF StartArtiFails
  <2>1. TypeOK'
    BY DEF TypeOK, setting, Inbounds, Parts, PartStates
  <2>2. InTurn'
    BY <1>0 DEF InTurn, TypeOK, Sessions, Parts, Inbounds
  <2>3. QED
    BY <1>0, <2>1, <2>2, QuietKeeps DEF TypeOK
<1>4. CASE StartMain(s)
  <2>. USE <1>4 DEF StartMain
  <2>1. TypeOK'
    BY DEF TypeOK, setting, Inbounds, Parts, PartStates
  <2>2. InTurn'
    BY <1>0 DEF InTurn, TypeOK, Sessions, Parts, Inbounds
  <2>3. QED
    BY <1>0, <2>1, <2>2, QuietKeeps
<1>5. CASE Cancel(s)
  <2>. USE <1>5 DEF Cancel
  <2>1. TypeOK'
    BY DEF TypeOK, setting
  <2>2. InTurn'
    BY <1>0 DEF InTurn, TypeOK
  <2>3. QED
    BY <1>0, <2>1, <2>2, QuietKeeps DEF TypeOK
<1>6. QED
  BY <1>1, <1>2, <1>3, <1>4, <1>5 DEF GoesOn, ArtiStart

LEMMA ListensKeeps ==
    ASSUME IInv, NEW s \in Sessions, NEW r \in Inbounds, Listens(s, r)
    PROVE  IInv'
<1>. USE PipelineAssumption DEF IInv, Listens
<1>1. TypeOK'
  BY DEF TypeOK, setting, Inbounds, Parts, PartStates, Listener
<1>2. InTurn'
  BY DEF InTurn, TypeOK, Sessions, Parts, Inbounds
<1>3. QED
  BY <1>1, <1>2, QuietKeeps DEF TypeOK

\* A part that is there ends; a connection it carried is closed, any other stays.
LEMMA EndsKeeps ==
    ASSUME IInv, NEW s \in Sessions, NEW p \in Parts, part[s][p] # "none", Ends(s, p)
    PROVE  IInv'
<1>. USE PipelineAssumption DEF IInv, Ends
<1>0. born \in Nat
  BY DEF TypeOK
<1>1. \A f \in Flows : conn'[f] = Closed \/ conn'[f] = conn[f]
  BY DEF Flows
<1>2. TypeOK'
  <2>1. conn' \in [Flows -> Conns]
    BY DEF TypeOK, Conns, Closed, Carriers
  <2>2. part' \in [Sessions -> [Parts -> PartStates]]
    BY DEF TypeOK, PartStates
  <2>3. QED
    BY <2>1, <2>2 DEF TypeOK, setting
<1>3. \A t \in Sessions : cancelled[t] => cancelled'[t]
  BY DEF TypeOK
<1>4. InTurn'
  <2>1. \A t \in Sessions : t > born => part'[t]["arti"] = "none" /\ conn'[t].at = "closed"
    <3>. SUFFICES ASSUME NEW t \in Sessions, t > born
                  PROVE  part'[t]["arti"] = "none" /\ conn'[t].at = "closed"
      OBVIOUS
    <3>1. ~(t = s /\ p = "arti")
      BY DEF InTurn
    <3>2. t \in Flows
      BY DEF Flows
    <3>3. QED
      BY <1>1, <3>1, <3>2 DEF InTurn, TypeOK, Closed
  <2>2. \A t \in Sessions : part'[t]["main"] = "done" => cancelled'[t]
    BY <1>3 DEF InTurn, TypeOK
  <2>3. QED
    BY <1>3, <2>1, <2>2 DEF InTurn
<1>5. \A t \in Sessions : Live(t)' => Live(t)
  BY <1>3 DEF Live
<1>6. Carriage'
  <2>1. \A f \in Flows : conn'[f].main <= born /\ conn'[f].arti <= born
    BY <1>0, <1>1 DEF Carriage, Closed, None
  <2>2. \A f \in Flows : conn'[f].at = "main" => conn'[f].main \in Sessions
    BY <1>1 DEF Carriage, Closed
  <2>3. conn'[None].at = "main" \/ conn'[None].arti # None => client \in tunnelled
    BY <1>1 DEF Carriage, Closed, Flows
  <2>4. QED
    BY <2>1, <2>2, <2>3 DEF Carriage, setting
<1>7. BridgeWaits'
  <2>. SUFFICES ASSUME Own \in tunnelled, NEW t \in Sessions, Live(t)'
                PROVE  conn'[t].at # "far" /\ (conn'[t].at = "main" => conn'[t].main = t)
    BY DEF BridgeWaits, setting
  <2>1. conn'[t] = Closed \/ conn'[t] = conn[t]
    BY <1>1 DEF Flows
  <2>2. QED
    BY <1>5, <2>1 DEF BridgeWaits, Closed
<1>8. ServingNeedsExemption'
  <2>. SUFFICES ASSUME NEW f \in Flows, conn'[f].at = "far", conn'[f].arti # None,
                       conn'[f].arti <= born', ~cancelled'[conn'[f].arti]
                PROVE  Exempt
    BY DEF ServingNeedsExemption, Exempt, setting, Live
  <2>1. conn'[f] = conn[f]
    BY <1>1 DEF Closed
  <2>2. conn[f].arti \in Sessions
    BY <2>1 DEF TypeOK, Conns, Carriers
  <2>3. Live(conn[f].arti)
    BY <1>3, <2>1, <2>2 DEF Live
  <2>4. QED
    BY <2>1, <2>3 DEF ServingNeedsExemption
<1>9. ChainIsWhole'
  BY <1>1 DEF ChainIsWhole, Closed
<1>10. QED
  BY <1>2, <1>4, <1>6, <1>7, <1>8, <1>9

\* What a connection that moves has to show.
LEMMA MoveKeeps ==
    ASSUME IInv, NEW f \in Flows, NEW to \in Conns, Move(f, to),
           to.main <= born /\ to.arti <= born,
           to.at = "main" => to.main \in Sessions,
           f = None /\ (to.at = "main" \/ to.arti # None) => client \in tunnelled,
           f \in Sessions /\ Live(f) /\ Own \in tunnelled =>
               to.at # "far" /\ (to.at = "main" => to.main = f),
           to.at = "far" /\ to.arti # None /\ Live(to.arti) => Exempt,
           to.at = "far" /\ to.main # None => to.arti = to.main,
           f \in Sessions /\ to.at # "closed" => f <= born
    PROVE  IInv'
<1>. USE DEF IInv, Move, setting, sessionVars
<1>0. \A g \in Flows : conn'[g] = IF g = f THEN to ELSE conn[g]
  BY DEF TypeOK
<1>1. TypeOK'
  BY DEF TypeOK
<1>2. InTurn'
  <2>1. \A s \in Sessions : s > born => conn'[s].at = "closed"
    <3>. SUFFICES ASSUME NEW s \in Sessions, s > born PROVE conn'[s].at = "closed"
      OBVIOUS
    <3>1. s \in Nat /\ born \in Nat /\ s \in Flows
      BY PipelineAssumption DEF Sessions, TypeOK, Flows
    <3>2. CASE s = f
      BY <1>0, <3>1, <3>2
    <3>3. CASE s # f
      BY <1>0, <3>1, <3>3 DEF InTurn
    <3>4. QED
      BY <3>2, <3>3
  <2>2. QED
    BY <2>1 DEF InTurn
<1>3. Carriage'
  BY <1>0 DEF Carriage, Flows
<1>4. BridgeWaits'
  <2>. SUFFICES ASSUME Own \in tunnelled, NEW t \in Sessions, Live(t)
                PROVE  conn'[t].at # "far" /\ (conn'[t].at = "main" => conn'[t].main = t)
    BY DEF BridgeWaits, Live
  <2>1. conn'[t] = IF t = f THEN to ELSE conn[t]
    BY <1>0 DEF Flows
  <2>2. QED
    BY <2>1 DEF BridgeWaits
<1>5. ServingNeedsExemption'
  <2>. SUFFICES ASSUME NEW g \in Flows, conn'[g].at = "far", conn'[g].arti # None,
                       Live(conn'[g].arti)
                PROVE  Exempt
    BY DEF ServingNeedsExemption, Exempt, Live
  <2>1. CASE g = f
    BY <1>0, <2>1
  <2>2. CASE g # f
    BY <1>0, <2>2 DEF ServingNeedsExemption
  <2>3. QED
    BY <2>1, <2>2
<1>6. ChainIsWhole'
  BY <1>0 DEF ChainIsWhole
<1>7. QED
  BY <1>1, <1>2, <1>3, <1>4, <1>5, <1>6

\* The session that is not cancelled is the last one, and its TUN is open.
LEMMA LiveIsLast ==
    ASSUME IInv, NEW s \in Sessions, Live(s)
    PROVE  s = born /\ TunUp
<1>1. s \in Nat /\ s # 0 /\ born \in Nat
  BY PipelineAssumption DEF Sessions, IInv, TypeOK
<1>2. s = born
  BY <1>1 DEF Live, IInv, InTurn
<1>3. QED
  BY <1>1, <1>2 DEF TunUp, Live, IInv, InTurn

\* A connection that is dialled belongs to the app or to a session that began.
LEMMA DialledBegan ==
    ASSUME IInv, NEW s \in Sessions, Dialled(s)
    PROVE  s <= born
<1>1. s \in Nat /\ born \in Nat
  BY PipelineAssumption DEF Sessions, IInv, TypeOK
<1>2. QED
  BY <1>1 DEF Dialled, BridgeDialled, IInv, InTurn

LEMMA RoutesKeep ==
    ASSUME IInv, NEW f \in Flows, RouteOut(f) \/ RouteIn(f) \/ Closes(f)
    PROVE  IInv'
<1>0. born \in Nat /\ None \notin Sessions
  BY PipelineAssumption DEF IInv, TypeOK, Sessions, None
<1>1. CASE RouteOut(f)
  <2>. DEFINE to == [Closed EXCEPT !.at = "far"]
  <2>1. to = [at |-> "far", main |-> None, arti |-> None] /\ to \in Conns
    BY DEF Closed, Conns, Carriers
  <2>2. f \in Sessions /\ Live(f) => Own \notin tunnelled
    BY <1>1, LiveIsLast DEF RouteOut, RoutedIn, AppOf
  <2>3. f \in Sessions => f <= born
    BY <1>1, DialledBegan DEF RouteOut
  <2>4. Move(f, to)
    BY <1>1 DEF RouteOut
  <2>. HIDE DEF to
  <2>5. QED
    BY <1>0, <2>1, <2>2, <2>3, <2>4, MoveKeeps DEF None
<1>2. CASE RouteIn(f)
  <2>. DEFINE to == [at |-> "main", main |-> born, arti |-> None]
  <2>1. born \in Sessions
    BY <1>0, <1>2 DEF RouteIn, RoutedIn, TunUp, IInv, TypeOK, Sessions
  <2>2. to = [at |-> "main", main |-> born, arti |-> None] /\ to \in Conns
    BY <2>1 DEF Conns, Carriers
  <2>3. f = None => client \in tunnelled
    BY <1>0, <1>2 DEF RouteIn, RoutedIn, AppOf
  <2>4. f \in Sessions /\ Live(f) => f = born
    BY LiveIsLast
  <2>5. f \in Sessions => f <= born
    BY <1>2, DialledBegan DEF RouteIn
  <2>6. Move(f, to)
    BY <1>2 DEF RouteIn
  <2>. HIDE DEF to
  <2>7. QED
    BY <1>0, <2>1, <2>2, <2>3, <2>4, <2>5, <2>6, MoveKeeps DEF None
<1>3. CASE Closes(f)
  <2>1. Closed = [at |-> "closed", main |-> None, arti |-> None] /\ Closed \in Conns
    BY DEF Closed, Conns, Carriers
  <2>2. Move(f, Closed)
    BY <1>3 DEF Closes
  <2>. HIDE DEF Closed
  <2>3. QED
    BY <1>0, <2>1, <2>2, MoveKeeps DEF None
<1>4. QED
  BY <1>1, <1>2, <1>3

\* Arti takes the connection of its own Leaf #2 only, and carries none before it
\* has its bridge: the bridge connection itself is never carried.
LEMMA ChainKeeps ==
    ASSUME IInv, NEW f \in Flows, Chain(f)
    PROVE  IInv'
<1>. DEFINE m  == conn[f].main
            to == [at |-> "far", main |-> m, arti |-> m]
<1>1. conn[f] \in Conns /\ m \in Sessions /\ m <= born /\ m # None
  BY PipelineAssumption DEF Chain, IInv, TypeOK, Carriage, Sessions, None
<1>2. Move(f, to) /\ Bridged(m)
  BY DEF Chain, ChainAccepts, Listener
<1>3. to = [at |-> "far", main |-> m, arti |-> m] /\ to \in Conns
  BY <1>1 DEF Conns, Carriers
<1>4. Live(m) => Own \notin tunnelled
  BY <1>1, <1>2 DEF Bridged, IInv, BridgeWaits
<1>5. f \in Sessions /\ Live(f) => Own \notin tunnelled
  BY <1>4 DEF Chain, IInv, BridgeWaits
<1>6. f \in Sessions => f <= born
  BY PipelineAssumption DEF Chain, IInv, InTurn, TypeOK, Sessions
<1>7. f = None => client \in tunnelled
  BY DEF Chain, IInv, Carriage
<1>. HIDE DEF to, m
<1>8. QED
  BY <1>1, <1>2, <1>3, <1>4, <1>5, <1>6, <1>7, MoveKeeps DEF Exempt

LEMMA StepKeeps == IInv /\ [Next]_vars => IInv'
<1>. SUFFICES ASSUME IInv, [Next]_vars PROVE IInv'
  OBVIOUS
<1>1. ASSUME NEW s \in Sessions, Begin(s) \/ GoesOn(s) \/ Cancel(s)
      PROVE  IInv'
  BY <1>1, BringUpKeeps
<1>2. ASSUME NEW s \in Sessions, PtListens(s) \/ ArtiListens(s)
      PROVE  IInv'
  BY <1>2, ListensKeeps DEF PtListens, ArtiListens, Inbounds
<1>3. ASSUME NEW s \in Sessions, PtRefused(s) \/ ArtiRefused(s) \/ ArtiEnds(s)
      PROVE  IInv'
  BY <1>3, EndsKeeps DEF PtRefused, ArtiRefused, ArtiEnds, Parts, Inbounds
<1>4. ASSUME NEW s \in Sessions, NEW p \in Parts, LeafEnds(s, p)
      PROVE  IInv'
  BY <1>4, EndsKeeps DEF LeafEnds
<1>5. ASSUME NEW f \in Flows, RouteOut(f) \/ RouteIn(f) \/ Chain(f) \/ Closes(f)
      PROVE  IInv'
  BY <1>5, RoutesKeep, ChainKeeps
<1>6. CASE UNCHANGED vars
  BY <1>6 DEF vars, setting, sessionVars, IInv, TypeOK, InTurn, Carriage, BridgeWaits,
              ServingNeedsExemption, ChainIsWhole, Live, Exempt
<1>7. QED
  BY <1>1, <1>2, <1>3, <1>4, <1>5, <1>6 DEF Next, PtStep, ArtiStep

LEMMA Inductive == Spec => []IInv
<1>1. QED
  BY InitKeeps, StepKeeps, PTL DEF Spec

\* The variables keep their types: two listeners never share a port, and a
\* connection has at most one carrier of each kind.
THEOREM TypeCorrect == Spec => []TypeOK
<1>1. QED
  BY Inductive, PTL DEF IInv

\* Traffic of a live session flows only if this app is exempt from its own VPN.
THEOREM NothingFlowsUnexempt == Spec => []ServingNeedsExemption
<1>1. QED
  BY Inductive, PTL DEF IInv

\* What came by Leaf #2 of a session arrives by Arti of that session.
THEOREM ChainStaysWhole == Spec => []ChainIsWhole
<1>1. QED
  BY Inductive, PTL DEF IInv

\* No DoH query of a live session arrives through the tunnel.
THEOREM DohAlwaysGoesPast == Spec => []DohGoesPastTheTunnel
<1>1. IInv => DohGoesPastTheTunnel
  <2>. SUFFICES ASSUME IInv, client = Own, conn[None].at = "far", conn[None].arti # None,
                       Live(conn[None].arti)
                PROVE  FALSE
    BY DEF DohGoesPastTheTunnel
  <2>1. Own \in tunnelled
    BY DEF IInv, Carriage
  <2>2. Exempt
    BY DEF IInv, ServingNeedsExemption, Flows
  <2>3. QED
    BY <2>1, <2>2 DEF Exempt
<1>2. QED
  BY <1>1, Inductive, PTL
===================================================================================
