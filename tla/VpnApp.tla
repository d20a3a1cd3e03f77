---------------------------------- MODULE VpnApp ----------------------------------
(*******************************************************************************)
(* What the user is shown and what runs, on Android.  Three parties exchange   *)
(* messages: the Dart controller (vpn_state.dart), the app's main thread       *)
(* (MainActivity's channel handler, FfVpnService, VpnEventBus) and, external,  *)
(* the system's activity manager, which delivers start and stop intents,       *)
(* brings a stopped service down and runs the permission dialog.               *)
(*                                                                             *)
(* Method calls and their results, events and intents each take time to be     *)
(* delivered, so calls of connect() and disconnect() interleave: both are      *)
(* coroutines that suspend at every await of the channel.  The engine is what  *)
(* is left of Engine here: off, up, or dead in its slot.                       *)
(*                                                                             *)
(* A message is <<op, id>>: the id of the Dart call it belongs to, or the      *)
(* service instance an intent is for.                                          *)
(*******************************************************************************)
EXTENDS Integers, Sequences, FiniteSets

CONSTANTS
    MaxPresses,             \* bound: presses of the home screen's button
    MaxRestarts,            \* bound: times the activity and its Dart isolate are made anew
    MayRevoke,              \* may another VPN app take the permission away?
    MayThrow,               \* may the system refuse to start or to message the service?
    MayDie                  \* may a running engine end on its own?

ASSUME AppAssumption ==
    /\ MaxPresses \in Nat
    /\ MaxRestarts \in Nat
    /\ MayRevoke \in BOOLEAN
    /\ MayThrow \in BOOLEAN
    /\ MayDie \in BOOLEAN

Presses == 1..MaxPresses
None == 0

VARIABLES
    status,                 \* VpnState.status
    loaded,                 \* has _bootstrap read the saved configuration?
    presses,                \* button presses so far: connect() and disconnect() calls
    wish,                   \* history: what the last press asked for
    call,                   \* what each call awaits
    restarts,               \* times the UI was made anew
    fresh,                  \* history: no press since the UI was made (anew)?
    toDart,                 \* results and events on their way to Dart
    looper,                 \* messages queued on the main thread
    sink,                   \* is VpnEventBus listened to?
    pending,                \* MainActivity.pendingResult
    pendingStart,           \* is pendingArgs set?
    dialogs,                \* permission dialogs not answered yet
    granted,                \* VpnService.prepare(this) == null
    overtaken,              \* history: whose dialog took the place of a pending result
    ams,                    \* intents and destroys on their way to the main thread
    service,                \* the activity manager's record of FfVpnService
    instance,               \* number of its current instance
    engine                  \* the engine in the slot

dartVars == <<status, loaded, presses, wish, call, restarts, fresh>>
activityVars == <<sink, pending, pendingStart, dialogs, granted, overtaken>>
serviceVars == <<ams, service, instance>>
vars == <<dartVars, toDart, looper, activityVars, serviceVars, engine>>

Statuses == {"disconnected", "connecting", "connected", "disconnecting", "error"}
\* "crossed": a disconnect pressed while a connect() was under way.  A press that
\* was refused or whose UI is gone asks for nothing.
Wishes == {"none", "on", "off", "crossed"}
Awaits == {"none", "hasPermission", "requestPermission", "connect", "disconnect", "over"}
Methods == {"hasPermission", "requestPermission", "connect", "disconnect"}
Events == {"running", "stopped", "failed"}
Results == {"true", "false", "error"}
Intents == {"start", "stop", "destroy"}

Id == 0..MaxPresses

\* A result has the id of its call; an intent that of its service instance.
IntentMessages == Intents \X Id
EventMessages == Events \X {None}
DartMessages == (Results \X Presses) \cup EventMessages
LooperMessages ==
    (Methods \X Presses) \cup {<<"listen", None>>} \cup IntentMessages \cup EventMessages

TypeOK ==
    /\ status \in Statuses
    /\ loaded \in BOOLEAN
    /\ presses \in 0..MaxPresses
    /\ wish \in Wishes
    /\ call \in [Presses -> Awaits]
    /\ restarts \in 0..MaxRestarts
    /\ fresh \in BOOLEAN
    /\ toDart \in Seq(DartMessages)
    /\ looper \in Seq(LooperMessages)
    /\ sink \in BOOLEAN
    /\ pending \in Presses \cup {None}
    /\ pendingStart \in BOOLEAN
    /\ dialogs \in 0..MaxPresses
    /\ granted \in BOOLEAN
    /\ overtaken \in [Presses -> Presses \cup {None}]
    /\ ams \in Seq(IntentMessages)
    /\ service \in {"none", "started", "stopping"}
    /\ instance \in Id
    /\ engine \in {"off", "up", "dead"}

Init ==
    /\ status = "disconnected"
    /\ loaded = FALSE
    /\ presses = 0
    /\ wish = "none"
    /\ call = [n \in Presses |-> "none"]
    /\ restarts = 0
    /\ fresh = TRUE
    /\ toDart = <<>>
    /\ looper = <<>>
    /\ sink = FALSE
    /\ pending = None
    /\ pendingStart = FALSE
    /\ dialogs = 0
    /\ granted \in BOOLEAN
    /\ overtaken = [n \in Presses |-> None]
    /\ ams = <<>>
    /\ service = "none"
    /\ instance = 0
    /\ engine = "off"

-----------------------------------------------------------------------------
(* The Dart controller *)

Invoke(n, method) ==
    /\ call' = [call EXCEPT ![n] = method]
    /\ looper' = Append(looper, <<method, n>>)

\* The rest of _bootstrap: the saved configuration is there, then events() is
\* listened to.  The button is disabled without a configuration.
Bootstrap ==
    /\ ~loaded
    /\ loaded' = TRUE
    /\ looper' = Append(looper, <<"listen", None>>)
    /\ UNCHANGED <<status, presses, wish, call, restarts, fresh, toDart,
                   activityVars, serviceVars, engine>>

Press(what) ==
    /\ loaded
    /\ presses < MaxPresses
    /\ presses' = presses + 1
    /\ wish' = what
    /\ fresh' = FALSE
    /\ UNCHANGED <<loaded, restarts, toDart, activityVars, serviceVars, engine>>

\* connect() up to its first await.
PressConnect ==
    /\ Press("on")
    /\ status \notin {"connected", "connecting"}
    /\ status' = "connecting"
    /\ Invoke(presses + 1, "hasPermission")

PressDisconnect ==
    /\ Press(IF \E m \in Presses : call[m] \in Methods \ {"disconnect"} THEN "crossed" ELSE "off")
    /\ status \in {"connected", "connecting"}
    /\ status' = "disconnecting"
    /\ Invoke(presses + 1, "disconnect")

Receive(op, n) ==
    /\ toDart # <<>>
    /\ Head(toDart) = <<op, n>>
    /\ toDart' = Tail(toDart)
    /\ UNCHANGED <<loaded, presses, restarts, fresh, activityVars, serviceVars, engine>>

Return(n) == call' = [call EXCEPT ![n] = "over"] /\ UNCHANGED looper

\* connect() after its first two awaits: nothing here looks at the status again.
PermissionMissing(n) ==
    /\ Receive("false", n)
    /\ Invoke(n, "requestPermission")
    /\ UNCHANGED <<status, wish>>

PermissionThere(n) ==
    /\ Receive("true", n)
    /\ call[n] \in {"hasPermission", "requestPermission"}
    /\ Invoke(n, "connect")
    /\ UNCHANGED <<status, wish>>

ConnectReturns(n) ==
    /\ Receive("true", n)
    /\ call[n] = "connect"
    /\ Return(n)
    /\ UNCHANGED <<status, wish>>

\* The catch branch of connect(): whichever of its three calls was refused.
ConnectThrows(n) ==
    /\ Receive("error", n)
    /\ call[n] # "disconnect"
    /\ Return(n)
    /\ status' = "error"
    /\ UNCHANGED wish

DisconnectReturns(n) ==
    /\ Receive("true", n)
    /\ call[n] = "disconnect"
    /\ Return(n)
    /\ status' = "disconnected"
    /\ UNCHANGED wish

DisconnectThrows(n) ==
    /\ Receive("error", n)
    /\ call[n] = "disconnect"
    /\ Return(n)
    /\ status' = "error"
    /\ wish' = IF n = presses THEN "none" ELSE wish

ShowRunning ==
    /\ Receive("running", None)
    /\ status' = "connected"
    /\ UNCHANGED <<wish, call, looper>>

\* Mutation: running:false is ignored in every state but connected's own.
ShowStoppedLate ==
    /\ Receive("stopped", None)
    /\ status' = IF status = "disconnecting" THEN "disconnected" ELSE status
    /\ UNCHANGED <<wish, call, looper>>

\* running:false is ignored while connecting.
ShowStopped ==
    /\ Receive("stopped", None)
    /\ status' = IF status = "connecting" THEN status ELSE "disconnected"
    /\ UNCHANGED <<wish, call, looper>>

ShowFailed ==
    /\ Receive("failed", None)
    /\ status' = "error"
    /\ UNCHANGED <<wish, call, looper>>

\* What a queue holds besides calls of the isolate, in its order.
Kept(q) == {k \in DOMAIN q : q[k][1] \notin Methods \cup {"listen"}}
Rank(q, k) == Cardinality({i \in Kept(q) : i <= k})
WithoutCalls(q) ==
    [j \in 1..Cardinality(Kept(q)) |-> q[CHOOSE k \in Kept(q) : Rank(q, k) = j]]

\* The activity is destroyed and made anew beside the running service: a fresh
\* isolate, no sink, no pending result; calls not handled yet are lost.
RestartUi ==
    /\ restarts < MaxRestarts
    /\ restarts' = restarts + 1
    /\ fresh' = TRUE
    /\ status' = "disconnected"
    /\ wish' = "none"
    /\ loaded' = FALSE
    /\ call' = [n \in Presses |-> IF n <= presses THEN "over" ELSE "none"]
    /\ toDart' = <<>>
    /\ looper' = WithoutCalls(looper)
    /\ sink' = FALSE
    /\ pending' = None
    /\ pendingStart' = FALSE
    /\ overtaken' = [n \in Presses |-> None]
    /\ UNCHANGED <<presses, dialogs, granted, serviceVars, engine>>

-----------------------------------------------------------------------------
(* MainActivity *)

Handle(op, n) ==
    /\ looper # <<>>
    /\ Head(looper) = <<op, n>>
    /\ looper' = Tail(looper)
    /\ UNCHANGED dartVars

Reply(op, n) == toDart' = Append(toDart, <<op, n>>)

\* startService or startForegroundService: an instance is made if there is none.
SendIntent(op) ==
    LET for == IF service = "none" THEN instance + 1 ELSE instance
    IN  /\ instance' = for
        /\ service' = "started"
        /\ ams' = Append(ams, <<op, for>>)

AskUser(n, start) ==
    /\ pending' = n
    /\ pendingStart' = start
    /\ dialogs' = dialogs + 1
    /\ overtaken' = IF pending = None THEN overtaken ELSE [overtaken EXCEPT ![pending] = n]

OnListen ==
    /\ Handle("listen", None)
    /\ sink' = TRUE
    /\ UNCHANGED <<toDart, pending, pendingStart, dialogs, granted, overtaken, serviceVars, engine>>

OnHasPermission(n) ==
    /\ Handle("hasPermission", n)
    /\ Reply(IF granted THEN "true" ELSE "false", n)
    /\ UNCHANGED <<activityVars, serviceVars, engine>>

\* A result that was pending is overwritten, and never answered.
OnRequestPermission(n) ==
    /\ Handle("requestPermission", n)
    /\ IF granted
       THEN Reply("true", n) /\ UNCHANGED <<pending, pendingStart, dialogs, overtaken>>
       ELSE AskUser(n, FALSE) /\ UNCHANGED toDart
    /\ UNCHANGED <<sink, granted, serviceVars, engine>>

OnConnect(n) ==
    /\ Handle("connect", n)
    /\ IF granted
       THEN /\ Reply("true", n)
            /\ SendIntent("start")
            /\ UNCHANGED <<pending, pendingStart, dialogs, overtaken>>
       ELSE AskUser(n, TRUE) /\ UNCHANGED <<toDart, serviceVars>>
    /\ UNCHANGED <<sink, granted, engine>>

\* startForegroundService throws, from the background for one: the channel replies
\* with an error, and no intent was sent.
OnConnectThrows(n) ==
    /\ MayThrow
    /\ granted
    /\ Handle("connect", n)
    /\ Reply("error", n)
    /\ UNCHANGED <<activityVars, serviceVars, engine>>

\* Mutation: the pending result of a dialog that is open is dropped.
OnDisconnectForgetful(n) ==
    /\ Handle("disconnect", n)
    /\ Reply("true", n)
    /\ SendIntent("stop")
    /\ pending' = None
    /\ pendingStart' = FALSE
    /\ UNCHANGED <<sink, dialogs, granted, overtaken, engine>>

\* Mutation: nothing is sent when no engine is up yet.
OnDisconnectIfUp(n) ==
    /\ Handle("disconnect", n)
    /\ Reply("true", n)
    /\ IF engine = "up" THEN SendIntent("stop") ELSE UNCHANGED serviceVars
    /\ UNCHANGED <<activityVars, engine>>

OnDisconnect(n) ==
    /\ Handle("disconnect", n)
    /\ Reply("true", n)
    /\ SendIntent("stop")
    /\ UNCHANGED <<activityVars, engine>>

\* startService throws likewise.
OnDisconnectThrows(n) ==
    /\ MayThrow
    /\ Handle("disconnect", n)
    /\ Reply("error", n)
    /\ UNCHANGED <<activityVars, serviceVars, engine>>

\* Mutation: the pending result is left where it was.
OnActivityResultKeeping(ok) ==
    /\ dialogs > 0
    /\ dialogs' = dialogs - 1
    /\ granted' = (granted \/ ok)
    /\ IF pending = None THEN UNCHANGED toDart
       ELSE Reply(IF ok THEN "true" ELSE "error", pending)
    /\ IF ok /\ pendingStart THEN SendIntent("start") ELSE UNCHANGED serviceVars
    /\ UNCHANGED <<dartVars, looper, sink, pending, pendingStart, overtaken, engine>>

\* onActivityResult: the first answer takes the pending result, whichever
\* dialog it came from.  What startVpn throws here nothing catches: the process
\* ends with everything this module models, and begins again at Init.
OnActivityResult(ok) ==
    /\ dialogs > 0
    /\ dialogs' = dialogs - 1
    /\ granted' = (granted \/ ok)
    /\ pending' = None
    /\ pendingStart' = FALSE
    /\ IF pending = None THEN UNCHANGED toDart
       ELSE Reply(IF ok THEN "true" ELSE "error", pending)
    /\ IF ok /\ pendingStart THEN SendIntent("start") ELSE UNCHANGED serviceVars
    /\ UNCHANGED <<dartVars, looper, sink, overtaken, engine>>

-----------------------------------------------------------------------------
(* FfVpnService and VpnEventBus *)

\* Run the intent at the head of the queue and post the events it emits.
Serve(op, i, events) ==
    /\ looper # <<>>
    /\ Head(looper) = <<op, i>>
    /\ looper' = Tail(looper) \o [k \in 1..Len(events) |-> <<events[k], None>>]
    /\ UNCHANGED <<dartVars, toDart, activityVars, ams, instance>>

\* stopSelf() of an instance the activity manager no longer knows does nothing.
StopSelf(i) ==
    service' = IF i = instance /\ service = "started" THEN "stopping" ELSE service

StopTunnel(op, i, events) ==
    /\ Serve(op, i, events \o <<"stopped">>)
    /\ engine' = "off"
    /\ StopSelf(i)

\* establish() returns null without the permission: stopSelfSafely.
StartUnprepared(i) ==
    /\ ~granted
    /\ Serve("start", i, <<>>)
    /\ StopSelf(i)
    /\ UNCHANGED engine

\* Mutation: running:true is not emitted.
StartSucceedsSilently(i) ==
    /\ granted
    /\ engine = "off"
    /\ Serve("start", i, <<>>)
    /\ engine' = "up"
    /\ UNCHANGED service

StartSucceeds(i) ==
    /\ granted
    /\ engine = "off"
    /\ Serve("start", i, <<"running">>)
    /\ engine' = "up"
    /\ UNCHANGED service

\* The return code is not 0: the bring-up failed, or an engine was running, which
\* stopTunnel then stops.
StartRefused(i) ==
    /\ granted
    /\ StopTunnel("start", i, <<>>)

StartThrows(i) ==
    /\ granted
    /\ StopTunnel("start", i, <<"failed">>)

OnStop(i) == StopTunnel("stop", i, <<>>)

\* Mutation: onDestroy leaves the engine alone.
OnDestroyQuietly(i) ==
    /\ Serve("destroy", i, <<>>)
    /\ UNCHANGED <<service, engine>>

OnDestroy(i) == StopTunnel("destroy", i, <<>>)

\* A posted event runs: to the sink, or nowhere.
DeliverEvent(e) ==
    /\ Handle(e, None)
    /\ IF sink THEN Reply(e, None) ELSE UNCHANGED toDart
    /\ UNCHANGED <<activityVars, serviceVars, engine>>

-----------------------------------------------------------------------------
(* The system, external: the activity manager, another VPN app; and the engine *)

ArriveIntent ==
    /\ ams # <<>>
    /\ looper' = Append(looper, Head(ams))
    /\ ams' = Tail(ams)
    /\ UNCHANGED <<dartVars, toDart, activityVars, service, instance, engine>>

\* A stopped service is brought down when nothing is bound to it any more; an
\* intent that comes first keeps it.
BringDown ==
    /\ service = "stopping"
    /\ service' = "none"
    /\ ams' = Append(ams, <<"destroy", instance>>)
    /\ UNCHANGED <<dartVars, toDart, looper, activityVars, instance, engine>>

\* VpnService.onRevoke, which the service does not override, is stopSelf().
Revoke ==
    /\ MayRevoke
    /\ granted
    /\ granted' = FALSE
    /\ StopSelf(instance)
    /\ UNCHANGED <<dartVars, toDart, looper, sink, pending, pendingStart, dialogs,
                   overtaken, ams, instance, engine>>

\* The session is cancelled from within: the slot keeps it and nothing is emitted.
EngineDies ==
    /\ MayDie
    /\ engine = "up"
    /\ engine' = "dead"
    /\ UNCHANGED <<dartVars, toDart, looper, activityVars, serviceVars>>

-----------------------------------------------------------------------------
ControllerStep(n) ==
    \/ PermissionMissing(n) \/ PermissionThere(n) \/ ConnectReturns(n)
    \/ ConnectThrows(n) \/ DisconnectReturns(n) \/ DisconnectThrows(n)

ActivityStep(n) ==
    \/ OnHasPermission(n) \/ OnRequestPermission(n)
    \/ OnConnect(n) \/ OnConnectThrows(n) \/ OnDisconnect(n) \/ OnDisconnectThrows(n)

ServiceStep(i) ==
    \/ StartUnprepared(i) \/ StartSucceeds(i) \/ StartRefused(i) \/ StartThrows(i)
    \/ OnStop(i) \/ OnDestroy(i)

Next ==
    \/ Bootstrap \/ PressConnect \/ PressDisconnect \/ RestartUi
    \/ ShowRunning \/ ShowStopped \/ ShowFailed
    \/ \E n \in Presses : ControllerStep(n) \/ ActivityStep(n)
    \/ OnListen
    \/ \E ok \in BOOLEAN : OnActivityResult(ok)
    \/ \E i \in Id : ServiceStep(i)
    \/ \E e \in Events : DeliverEvent(e)
    \/ ArriveIntent \/ BringDown \/ Revoke \/ EngineDies

Spec == Init /\ [][Next]_vars

-----------------------------------------------------------------------------
(* Properties *)

\* Nothing is under way: no message is to be delivered and no dialog is open.
Quiet ==
    /\ loaded
    /\ toDart = <<>> /\ looper = <<>> /\ ams = <<>>
    /\ dialogs = 0
    /\ service # "stopping"

\* Once everything is delivered, "connected" is shown only if there is an engine
\* (vpn_state.dart:108-115): no order of results, events and intents leaves the
\* UI showing a tunnel that was stopped.
ConnectedIsTrue == Quiet /\ status = "connected" => engine # "off"

\* What tells the user of a running engine: "connected", or the error of a call
\* that the system refused and that may have been the disconnect.
Shown == {"connected"} \cup {s \in {"error"} : MayThrow}

\* And a running engine is shown, whatever order its events, the results and the
\* intents came in: as connected, or as an error where a call can be refused
\* (vpn_state.dart:101-103, 169-171, 179-181).  Only a UI made anew knows nothing
\* of it, and only until its button is pressed: that connect fails, or its start
\* is refused and ends the engine.
EngineIsShown == Quiet /\ engine = "up" => status \in Shown \/ fresh

\* A disconnect that no connect() of the same UI crossed, and that was not
\* refused, leaves no engine: no start intent that is still under way, no dialog
\* and no instance of the service brings one up behind it (vpn_state.dart:174-182,
\* MainActivity.kt:52-57, 72-91, FfVpnService.kt:132-148).
DisconnectHolds == Quiet /\ wish = "off" => engine = "off"

\* The engine does not outlive its foreground service, whatever intents cross a
\* stopSelf() (FfVpnService.kt:132-148, 184-187).
EngineHasService == Quiet /\ engine # "off" => service = "started"

\* An engine does not survive the loss of the VPN permission.
RevokedIsOff == Quiet /\ ~granted => engine = "off"

\* Where call n is: queued for the activity, answered, or the pending result.
Asked(n) == {k \in DOMAIN looper : looper[k][1] \in Methods /\ looper[k][2] = n}
Answered(n) == {k \in DOMAIN toDart : toDart[k][2] = n}
Held(n) == {pending} \cap {n}

\* A channel call is answered at most once, and only while it is awaited: not by
\* two dialogs that are open at a time, nor by one that outlived its UI
\* (MainActivity.kt:33, 44, 75-90).
CallsAnsweredOnce ==
    \A n \in Presses :
        Cardinality(Asked(n)) + Cardinality(Answered(n)) + Cardinality(Held(n))
            <= IF call[n] \in Methods THEN 1 ELSE 0

\* The calls that wait for the user while the permission is missing.
NeedsUser == {"requestPermission", "connect"}

\* An awaited call is answered in the end, or waits for the user: its future is
\* left behind only where the dialog of another press took the place of its
\* result (MainActivity.kt:33, 44, 72-91), never by an answer of the dialog, a
\* disconnect in between, or a second dialog that found nothing to replace.
CallsAreNotLost ==
    \A n \in Presses :
        call[n] \in Methods /\ Asked(n) \cup Answered(n) \cup Held(n) = {} =>
            call[n] \in NeedsUser /\ overtaken[n] \notin {None, n}

\* "so an unexpected service stop (Rust crash, OS killed the foreground service,
\* battery saver, etc.) is reflected in the UI" (vpn_state.dart:101-103): a
\* connect that came to nothing does not leave the UI connecting.
ConnectingEnds == Quiet => status # "connecting"

\* The same comment of a Rust crash: a dead engine is not shown as connected.
CrashIsShown == Quiet /\ status = "connected" => engine # "dead"

\* "Drive status from the native side [...] not just our optimistic state"
\* (vpn_state.dart:101-103): a running engine is shown by a UI made anew.
EngineIsShownAnew == Quiet /\ engine = "up" => status = "connected"

\* "`cancel`/`disconnect` instantly aborts every background task"
\* (README.md:39-40): after a disconnect that nothing followed, no engine runs.
DisconnectIsFinal == Quiet /\ wish \in {"off", "crossed"} => engine = "off"
==================================================================================
