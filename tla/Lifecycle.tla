----------------------------- MODULE Lifecycle -----------------------------
(***************************************************************************)
(* The life of the process (cmd/mercator/run.go, pkg/server/server.go): the *)
(* main goroutine opens the components and defers their closes, starts the  *)
(* server on a goroutine, waits for a signal or the server's error, shuts   *)
(* the server down and unwinds.  Server.Start waits for the same signals    *)
(* and for the context, and calls the same Shutdown, which runs once.       *)
(***************************************************************************)
EXTENDS Integers, Sequences, SequencesExt

CONSTANTS
    Settings,       \* configurations [policy, evidence, schedule, tls: "off", "good", "bad"]
    MaxInFlight,    \* bound on concurrent requests
    MaxSignals      \* bound on signals

ASSUME LifeAssumption ==
    /\ Settings \subseteq [policy : BOOLEAN, evidence : BOOLEAN, schedule : BOOLEAN, tls : {"off", "good", "bad"}]
    /\ MaxInFlight \in Nat /\ MaxSignals \in Nat

VARIABLES
    settings,
    mainAt, toOpen,
    deferred,       \* the deferred closes, the next one first
    startAt,        \* Server.Start
    listener,       \* the http.Server: "none", "created", "starting", "up", "closed", "failed"
    isRunning,
    once,           \* shutdownOnce: "unused", "start" or "main" while one of them is inside, "done"
    inFlight,
    registered,     \* who has called signal.Notify
    signalled,      \* whose channel holds a signal
    signals,
    ctxDone, startErr,
    excuse          \* ghost: why requests may outlive the server: it never stopped for them

lifeVars == <<settings, mainAt, toOpen, deferred, startAt, listener, isRunning, once, inFlight, registered, signalled,
              signals, ctxDone, startErr, excuse>>
serverVars == <<startAt, listener, isRunning, once, inFlight, registered, signalled, signals, startErr, excuse>>

(* The components in the order runServer opens them.                        *)
Opened(s) == <<"manager">> \o (IF s.policy THEN <<"engine">> ELSE <<>>)
             \o (IF s.evidence THEN <<"storage", "recorder">> ELSE <<>>)
             \o (IF s.evidence /\ s.schedule THEN <<"pruner">> ELSE <<>>)

LifeInit(s) ==
    /\ settings = s /\ mainAt = "loading" /\ toOpen = Opened(s) /\ deferred = <<>>
    /\ startAt = "none" /\ listener = "none" /\ isRunning = FALSE /\ once = "unused" /\ inFlight = 0
    /\ registered = {} /\ signalled = {} /\ signals = 0 /\ ctxDone = FALSE /\ startErr = FALSE /\ excuse = FALSE

Alive == mainAt # "exited"

-----------------------------------------------------------------------------
(* runServer.  It ends at once with a bad configuration or in a dry run.    *)
LoadConfiguration ==
    /\ mainAt = "loading" /\ mainAt' \in {"opening", "exited"}
    /\ UNCHANGED <<settings, toOpen, deferred, ctxDone, serverVars>>

(* An engine or a pruner that cannot start is left out; without its storage *)
(* the process gives up.                                                    *)
OpenInOrder ==   \* faulty: what was opened first is closed first
    /\ mainAt = "opening" /\ toOpen # <<>>
    /\ toOpen' = Tail(toOpen)
    /\ deferred' = Append(deferred, Head(toOpen))
    /\ UNCHANGED <<settings, mainAt, ctxDone, serverVars>>
OpenComponent ==
    /\ mainAt = "opening" /\ toOpen # <<>>
    /\ toOpen' = Tail(toOpen)
    /\ \/ deferred' = <<Head(toOpen)>> \o deferred /\ mainAt' = mainAt
       \/ Head(toOpen) \in {"engine", "pruner"} /\ UNCHANGED <<deferred, mainAt>>
       \/ Head(toOpen) = "storage" /\ mainAt' = "unwinding" /\ deferred' = deferred
    /\ UNCHANGED <<settings, ctxDone, serverVars>>
LaunchServer ==
    /\ mainAt = "opening" /\ toOpen = <<>>
    /\ mainAt' = "sleeping" /\ startAt' = "launched" /\ deferred' = <<"cancel">> \o deferred
    /\ UNCHANGED <<settings, toOpen, listener, isRunning, once, inFlight, registered, signalled, signals, ctxDone, startErr, excuse>>

(* waitForServerReady only sleeps.                                          *)
WaitForShutdown ==
    /\ mainAt = "sleeping"
    /\ mainAt' = "waiting" /\ registered' = registered \cup {"main"}
    /\ UNCHANGED <<settings, toOpen, deferred, startAt, listener, isRunning, once, inFlight, signalled, signals, ctxDone, startErr, excuse>>
MainSeesError ==
    /\ mainAt = "waiting" /\ startErr
    /\ mainAt' = "unwinding"
    /\ UNCHANGED <<settings, toOpen, deferred, ctxDone, serverVars>>
MainSeesSignal ==
    /\ mainAt = "waiting" /\ "main" \in signalled
    /\ mainAt' = "shutdown" /\ ctxDone' = TRUE
    /\ UNCHANGED <<settings, toOpen, deferred, serverVars>>

(* The deferred calls, one at a time; then the process ends and everything  *)
(* in it.                                                                   *)
Unwind ==
    /\ mainAt = "unwinding"
    /\ IF deferred = <<>> THEN mainAt' = "exited" /\ UNCHANGED <<deferred, ctxDone>>
       ELSE deferred' = Tail(deferred) /\ ctxDone' = (ctxDone \/ Head(deferred) = "cancel") /\ UNCHANGED mainAt
    /\ UNCHANGED <<settings, toOpen, serverVars>>

-----------------------------------------------------------------------------
(* Server.Start.  A failure to configure TLS leaves isRunning set.          *)
mainVars == <<settings, mainAt, toOpen, deferred>>
StartRuns ==
    /\ Alive /\ startAt = "launched"
    /\ startAt' = "creating" /\ isRunning' = TRUE
    /\ UNCHANGED <<mainVars, listener, once, inFlight, registered, signalled, signals, ctxDone, startErr, excuse>>
StartCreates ==
    /\ Alive /\ startAt = "creating"
    /\ startAt' = "configuring" /\ listener' = "created"
    /\ UNCHANGED <<mainVars, isRunning, once, inFlight, registered, signalled, signals, ctxDone, startErr, excuse>>
StartListens ==
    /\ Alive /\ startAt = "configuring"
    /\ IF settings.tls = "bad" THEN startAt' = "returned" /\ startErr' = TRUE /\ UNCHANGED <<listener, registered>>
       ELSE /\ startAt' = "selecting" /\ registered' = registered \cup {"start"} /\ UNCHANGED startErr
            /\ listener' = IF listener = "closed" THEN "closed" ELSE "starting"
    /\ UNCHANGED <<mainVars, isRunning, once, inFlight, signalled, signals, ctxDone, excuse>>
ListenAndServe ==
    /\ Alive /\ listener = "starting"
    /\ listener' \in {"up", "failed"}
    /\ UNCHANGED <<mainVars, startAt, isRunning, once, inFlight, registered, signalled, signals, ctxDone, startErr, excuse>>
ServeFails ==
    /\ Alive /\ listener = "up"
    /\ listener' = "failed" /\ excuse' = TRUE
    /\ UNCHANGED <<mainVars, startAt, isRunning, once, inFlight, registered, signalled, signals, ctxDone, startErr>>
StartSelects ==
    /\ Alive /\ startAt = "selecting"
    /\ \/ (ctxDone \/ "start" \in signalled) /\ startAt' = "shutdown" /\ UNCHANGED startErr
       \/ listener = "failed" /\ startAt' = "returned" /\ startErr' = TRUE
    /\ UNCHANGED <<mainVars, listener, isRunning, once, inFlight, registered, signalled, signals, ctxDone, excuse>>

-----------------------------------------------------------------------------
(* Server.Shutdown, called by Start and by main: the first one in drains,   *)
(* the other waits for it and gets nil.                                     *)
Leave(who, failed) ==
    IF who = "main" THEN mainAt' = "unwinding" /\ UNCHANGED <<startAt, startErr>>
    ELSE startAt' = "returned" /\ startErr' = (startErr \/ failed) /\ UNCHANGED mainAt
InShutdown(who) == IF who = "main" THEN mainAt = "shutdown" ELSE Alive /\ startAt = "shutdown"
shutdownVars == <<settings, toOpen, deferred, inFlight, registered, signalled, signals, ctxDone>>

EnterShutdown(who) ==
    /\ InShutdown(who) /\ once = "unused"
    /\ IF isRunning /\ listener # "none"
       THEN /\ once' = who
            /\ listener' = IF listener = "failed" THEN "failed" ELSE "closed"
            /\ UNCHANGED <<mainAt, startAt, startErr, isRunning, excuse>>
       ELSE /\ once' = "done" /\ isRunning' = FALSE /\ excuse' = TRUE   \* nothing to stop yet
            /\ Leave(who, FALSE) /\ UNCHANGED listener
    /\ UNCHANGED shutdownVars
Drained(who) ==
    /\ InShutdown(who) /\ once = who /\ inFlight = 0
    /\ once' = "done" /\ isRunning' = FALSE /\ Leave(who, FALSE)
    /\ UNCHANGED <<shutdownVars, listener, excuse>>
DrainForever(who) == FALSE /\ InShutdown(who) /\ UNCHANGED lifeVars   \* faulty: no timeout
DrainTimesOut(who) ==
    /\ InShutdown(who) /\ once = who /\ inFlight > 0
    /\ once' = "done" /\ isRunning' = FALSE /\ excuse' = TRUE /\ Leave(who, TRUE)
    /\ UNCHANGED <<shutdownVars, listener>>
ShutdownWasDone(who) ==
    /\ InShutdown(who) /\ once = "done"
    /\ Leave(who, FALSE)
    /\ UNCHANGED <<shutdownVars, listener, isRunning, once, excuse>>

-----------------------------------------------------------------------------
(* Requests, and the signal: without a channel for it the process dies.     *)
RequestArrives ==
    /\ Alive /\ listener = "up" /\ inFlight < MaxInFlight
    /\ inFlight' = inFlight + 1
    /\ UNCHANGED <<mainVars, startAt, listener, isRunning, once, registered, signalled, signals, ctxDone, startErr, excuse>>
RequestEnds ==
    /\ Alive /\ inFlight > 0
    /\ inFlight' = inFlight - 1
    /\ UNCHANGED <<mainVars, startAt, listener, isRunning, once, registered, signalled, signals, ctxDone, startErr, excuse>>
Signal ==
    /\ Alive /\ signals < MaxSignals
    /\ signals' = signals + 1
    /\ IF registered = {} THEN mainAt' = "exited" /\ UNCHANGED signalled
       ELSE signalled' = signalled \cup registered /\ UNCHANGED mainAt
    /\ UNCHANGED <<settings, toOpen, deferred, startAt, listener, isRunning, once, inFlight, registered, ctxDone, startErr, excuse>>

MainStep == LoadConfiguration \/ OpenComponent \/ LaunchServer \/ WaitForShutdown \/ MainSeesError \/ MainSeesSignal \/ Unwind
StartStep == StartRuns \/ StartCreates \/ StartListens \/ StartSelects
Shutdown(who) == EnterShutdown(who) \/ Drained(who) \/ DrainTimesOut(who) \/ ShutdownWasDone(who)
LifeNext ==
    \/ MainStep \/ StartStep \/ ListenAndServe \/ ServeFails
    \/ \E who \in {"main", "start"} : Shutdown(who)
    \/ RequestArrives \/ RequestEnds \/ Signal

(* Goroutines go on and the shutdown timeout passes; requests may hang.     *)
LifeFairness ==
    /\ WF_lifeVars(MainStep) /\ WF_lifeVars(StartStep) /\ WF_lifeVars(ListenAndServe)
    /\ WF_lifeVars(Shutdown("main")) /\ WF_lifeVars(Shutdown("start"))

-----------------------------------------------------------------------------
Open(component) == \E i \in DOMAIN deferred : deferred[i] = component

(* What writes evidence is closed before the storage it writes to, and      *)
(* nothing is closed under a request that is being served, unless the       *)
(* requests did not end within the shutdown timeout, serving itself failed, *)
(* or the signal came before there was a server to stop (the defers of      *)
(* run.go:104-221 and Shutdown, server.go:127-160).                         *)
TornDownInOrder ==
    /\ mainAt = "unwinding" /\ (Open("recorder") \/ Open("pruner")) => Open("storage")
    /\ mainAt = "unwinding" /\ inFlight > 0 => excuse

(* A signal that main's channel received ends the process, although         *)
(* Server.Start reacts to it too and both call Shutdown, even when a        *)
(* request never ends (run.go:254-274, server.go:106-123).                  *)
SignalEndsProcess == "main" \in signalled ~> mainAt = "exited"
=============================================================================
