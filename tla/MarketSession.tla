--------------------------- MODULE MarketSession ---------------------------
(***************************************************************************)
(* MarketSessionManager (src/backend/app/market_api/session_manager.py):   *)
(* one observation session at a time, its evidence log and its verdict.    *)
(*                                                                         *)
(* The manager is driven by the start and stop endpoints, the monitor      *)
(* task, the feed's callbacks (ticks and connection states) and, from      *)
(* worker threads, the error recorders of the REST endpoints.  Coroutines  *)
(* interleave at their awaits: feed.subscribe in start(), feed.unsubscribe *)
(* in _release_subscriptions(), the monitor's sleep.  Every operation      *)
(* between two awaits is an operator from worlds to worlds; a world is     *)
(* what the manager reads and writes: session and runtime (lost in a       *)
(* crash), log and saved (the JSONL store).  All writes go to the latest   *)
(* session, so log and saved are those of the latest one; what became of   *)
(* the sessions before it is counted in abandoned.                         *)
(*                                                                         *)
(* Worker threads hold no lock: one loads the count of errors, stores it,  *)
(* appends its event and saves in four steps, also while the loop is       *)
(* inside _finalize, which is split where such a step can matter: between  *)
(* reading the session and the log (Judge) and writing both (Concluded).   *)
(* A crash cuts the loop's other steps short too, see Interrupted.         *)
(*                                                                         *)
(* Time is abstracted: _stale_started_at and _disconnect_started_at to     *)
(* whether they are set, and the age of the last tick to a choice, because *)
(* every stale interval starts beyond the threshold (baseline = last tick) *)
(* so its duration exceeds the threshold as soon as it is recorded.  The   *)
(* monitored instruments are one: it is resolved by the provider or not.   *)
(* A session's event log is abstracted to what is read back from it: how   *)
(* often each incident occurs, which milestones occur, and which of those  *)
(* are still among the last EventWindow events.                            *)
(***************************************************************************)
EXTENDS Integers, FiniteSets

CONSTANTS
    ApiCallers,     \* concurrent requests to the start and stop endpoints
    Recorders,      \* worker threads that may report a provider error
    EventWindow,    \* list_events(limit=1000)
    MaxSessions, MaxCrashes, MaxExchangeMoves, MaxDisconnects,
    MaxStales, MaxErrors       \* bounds of the model

ASSUME SessionAssumption ==
    /\ EventWindow \in Nat /\ MaxSessions \in Nat /\ MaxCrashes \in Nat
    /\ MaxExchangeMoves \in Nat /\ MaxDisconnects \in Nat
    /\ MaxStales \in Nat /\ MaxErrors \in Nat
    /\ IsFiniteSet(Recorders)

VARIABLES
    session,    \* _session; NoSession for None
    runtime,    \* the per-session fields _reset_runtime_state clears
    log,        \* market_observation_events.jsonl: the latest session's events
    saved,      \* market_sessions.jsonl: the latest session's last saved row
    sessions,   \* how many sessions were created
    abandoned,  \* history: earlier sessions that never were completed on disk
    cut,        \* history: the process died in this session while a worker recorded
    monitor,    \* where the monitor task is
    callers,    \* where each request is inside start() or stop()
    started,    \* the session that a request inside start() created, else 0
    recorders,  \* where each worker thread is inside record_provider_error()
    hasFeed,    \* feed_manager is not None: live provider, else recorded data
    feedState,  \* the feed manager's state (see MarketFeed)
    feedRefs,   \* references the feed counts for the manager (see MarketFeed)
    strays,     \* history: those of them that no stop will ever return
    exchange,   \* what provider.get_market_status() answers
    moves, crashes                           \* counters for the bounds

worldVars == <<session, runtime, log, saved>>
historyVars == <<sessions, abandoned, cut>>
requestVars == <<callers, started>>
referenceVars == <<feedRefs, strays>>
outsideVars == <<hasFeed, feedState, exchange, moves, crashes>>
sessionVars ==
    <<worldVars, historyVars, monitor, requestVars, recorders, referenceVars, outsideVars>>

\* OTHER stands for PRE_OPEN and for UNKNOWN, which the manager treats alike: only
\* the status of a new session, CREATED here, tells them apart (PRE_OPEN there).
Exchanges == {"OPEN", "CLOSED", "OTHER"}
Disconnected == {"DISCONNECTED", "FAILED", "NOT_CONFIGURED"}
FeedStates ==
    {"NOT_CONFIGURED", "DISCONNECTED", "CONNECTING", "CONNECTED", "FAILED", "NOT_AVAILABLE"}
Finished == {"COMPLETED", "FAILED"}

NoSession ==
    [status |-> "NONE", exchange |-> "OTHER", ticked |-> FALSE,
     disconnects |-> 0, reconnects |-> 0, stales |-> 0, errors |-> 0,
     failures |-> {}, verdict |-> "NONE", evidence |-> {}]

NoRuntime ==
    [subscribed |-> FALSE, lastState |-> "NONE", down |-> FALSE,
     stale |-> FALSE, sustained |-> FALSE, hadOpen |-> FALSE]

\* The kinds of events the model tells apart; all others only fill the log.
Milestones == {"PROVIDER_CONNECTED", "STREAM_READY", "SUBSCRIBED", "SESSION_OPEN"}
Incidents ==
    {"PROVIDER_DISCONNECTED", "PROVIDER_RECONNECTED", "STALE_DATA_DETECTED", "PROVIDER_ERROR"}

\* count: how often each incident is in the log; seen: the milestones in it; left:
\* how many more events until the last one of a kind leaves the window.
NoEvents ==
    [count |-> [k \in Incidents |-> 0], seen |-> {}, left |-> [k \in Milestones |-> 0]]

\* The kinds of events in a log.
Shown(evs) == evs.seen \union {k \in Incidents : evs.count[k] > 0}

-----------------------------------------------------------------------------
(* Worlds. *)

World == [session |-> session, runtime |-> runtime, log |-> log, saved |-> saved]

IdleRecorder == [at |-> "idle", errors |-> 0, of |-> 0]

ActiveIn(w) == w.session.status \notin Finished \union {"NONE"}
Active == ActiveIn(World)

\* append_event, for one event of kind e.
Appended(evs, e) ==
    [count |-> [k \in Incidents |-> evs.count[k] + (IF k = e THEN 1 ELSE 0)],
     seen  |-> evs.seen \union ({e} \intersect Milestones),
     left  |-> [k \in Milestones |->
                  IF k = e THEN EventWindow ELSE IF evs.left[k] = 0 THEN 0 ELSE evs.left[k] - 1]]

Log(w, e) == [w EXCEPT !.log = Appended(@, e)]
Save(w) == [w EXCEPT !.saved = w.session]

\* The milestones that list_events(session_id) still returns.
Window(evs) == {k \in Milestones : evs.left[k] > 0}

-----------------------------------------------------------------------------
(* The manager's operations, from world to world. *)

\* record_provider_state: a connection after a loss that was counted ...
RecoveredStillDown(w) == [w EXCEPT !.session.reconnects = @ + 1]  \* a plausible mistake
Recovered(w) == [w EXCEPT !.session.reconnects = @ + 1, !.runtime.down = FALSE]

\* ... the first connection, and a loss: a state that follows another one, or none.
RecordState(w, st) ==
    LET previous == w.runtime.lastState
        seen == [w EXCEPT !.runtime.lastState = st]
        recorded ==
            CASE st = "CONNECTED" /\ w.runtime.down ->
                    Log(Recovered(seen), "PROVIDER_RECONNECTED")
              [] st = "CONNECTED" /\ ~w.runtime.down /\ previous # "CONNECTED" ->
                    Log(seen, "PROVIDER_CONNECTED")
              [] st \in Disconnected /\ previous # "NONE" /\ previous \notin Disconnected ->
                    Log([seen EXCEPT !.session.disconnects = @ + 1, !.runtime.down = TRUE],
                        "PROVIDER_DISCONNECTED")
              [] OTHER -> seen
    IN  IF ~ActiveIn(w) THEN w
        ELSE IF previous # st THEN Save(recorded) ELSE recorded

\* record_provider_error on the event loop (see Recorder... for the worker threads).
WriteErrorUnlogged(w) == Save([w EXCEPT !.session.errors = @ + 1])  \* a plausible mistake
WriteError(w) == Save(Log([w EXCEPT !.session.errors = @ + 1], "PROVIDER_ERROR"))

RecordError(w) == IF ActiveIn(w) THEN WriteError(w) ELSE w

\* observe_tick; whether the tick itself is recorded depends on mode and cadence.
ObserveTick(w, recorded) ==
    LET ticked == [w EXCEPT !.session.ticked = TRUE]
        recovered ==
            IF ~w.runtime.stale THEN ticked
            ELSE Log([ticked EXCEPT
                        !.runtime.stale = FALSE,
                        !.runtime.sustained = TRUE,
                        !.session.status = IF @ = "DEGRADED" THEN "RUNNING" ELSE @],
                     "STALE_DATA_RECOVERED")
    IN  IF ~ActiveIn(w) THEN w
        ELSE IF recorded THEN Save(Log(recovered, "TICK_RECEIVED")) ELSE recovered

\* A quiet stream is only suspicious while the market is open and the feed connected.
TicksAreDueWheneverConnected(ex, streamUp) == streamUp  \* a plausible mistake
TicksAreDue(ex, streamUp) == ex = "OPEN" /\ streamUp

\* check_stale; aged: the last tick is older than the threshold.
CheckStale(w, ex, streamUp, aged) ==
    IF ~ActiveIn(w) \/ ~TicksAreDue(ex, streamUp) \/ ~aged \/ w.runtime.stale THEN w
    ELSE Save(Log([w EXCEPT !.runtime.stale = TRUE,
                            !.session.stales = @ + 1,
                            !.session.status = "DEGRADED"], "STALE_DATA_DETECTED"))

\* capture_summary: three events per snapshot.
CaptureSummary(w) ==
    Save(Log(Log(Log(w, "SUMMARY_SNAPSHOT"), "BREADTH_UPDATE"), "SECTOR_UPDATE"))

\* _release_subscriptions: whether the feed is called ...
MustReleaseIfConnected(w) ==  \* a plausible mistake
    hasFeed /\ w.runtime.subscribed /\ feedState = "CONNECTED"
MustRelease(w) == hasFeed /\ w.runtime.subscribed

\* ... and the rest of it, after the feed answered.
Released(w) ==
    IF ~w.runtime.subscribed THEN w
    ELSE Log([w EXCEPT !.runtime.subscribed = FALSE], "UNSUBSCRIBED")

Criteria ==
    {"provider_connected", "stream_ready", "required_instruments_subscribed",
     "first_tick_received_during_open_session", "no_sustained_stale_interval",
     "reconnect_succeeded_if_required"}

\* _criteria: the names of those that fail, given the events that are read.
FailedCriteria(s, run, kinds, live) ==
    {name \in Criteria :
        CASE name = "provider_connected" -> "PROVIDER_CONNECTED" \notin kinds
          [] name = "stream_ready" -> live /\ "STREAM_READY" \notin kinds
          [] name = "required_instruments_subscribed" -> "SUBSCRIBED" \notin kinds
          [] name = "first_tick_received_during_open_session" ->
                "SESSION_OPEN" \in kinds /\ ~s.ticked
          [] name = "no_sustained_stale_interval" -> run.sustained
          [] name = "reconnect_succeeded_if_required" -> s.reconnects < s.disconnects}

VerdictIgnoringWarnings(failures, warned) ==  \* a plausible mistake
    IF failures # {} THEN "FAIL" ELSE "PASS"
Verdict(failures, warned) ==
    CASE failures # {} -> "FAIL"
      [] failures = {} /\ warned -> "PASS_WITH_WARNINGS"
      [] OTHER -> "PASS"

Warned(w) == w.session.reconnects > 0 \/ ~w.runtime.hadOpen \/ w.session.errors > 0

\* _finalize: the session ends ...
Ended(w) == [w EXCEPT
                !.runtime.sustained = @ \/ w.runtime.stale,
                !.runtime.stale = FALSE,
                !.runtime.down = FALSE,
                !.session.status = "COMPLETED"]

\* ... is judged by the events that can be read now ...
Judge(w) ==
    LET ended == Ended(w)
        failures == FailedCriteria(ended.session, ended.runtime, Window(ended.log), hasFeed)
    IN  [ended EXCEPT
            !.session.failures = failures,
            !.session.evidence = Shown(ended.log),
            !.session.verdict = Verdict(failures, Warned(ended))]

\* ... and is written: the event first, then the session's last row.
ConcludedUnsaved(w) == Log(w, "SESSION_COMPLETED")  \* a plausible mistake
Concluded(w) == Save(Log(w, "SESSION_COMPLETED"))

\* start(), up to the await of feed.subscribe.
InitialStatus(ex) ==
    CASE ex = "OPEN" -> "RUNNING"
      [] ex = "CLOSED" -> "CLOSED"
      [] OTHER -> "CREATED"

Fresh(w) ==
    Save([w EXCEPT
            !.log = NoEvents,
            !.runtime = [NoRuntime EXCEPT !.hadOpen = (exchange = "OPEN")],
            !.session = [NoSession EXCEPT
                           !.exchange = exchange,
                           !.status = InitialStatus(exchange)]])

Placed(w) ==
    LET created == Log(Fresh(w), "SESSION_CREATED")
    IN  CASE exchange = "OPEN" -> Log(created, "SESSION_OPEN")
          [] exchange = "CLOSED" -> Log(created, "SESSION_CLOSED")
          [] OTHER -> created

Created(w) == RecordState(Placed(w), feedState)

\* start(), after feed.subscribe returned: it acts on the session that is current now.
Subscribed(w, outcome) ==
    LET heard == RecordState([w EXCEPT !.runtime.subscribed = @ \/ outcome = "resolved"],
                             feedState)
        told == Log(heard, IF outcome = "resolved" THEN "SUBSCRIBED" ELSE "SUBSCRIBED_NONE")
    IN  IF feedState = "CONNECTED" THEN Log(told, "STREAM_READY") ELSE told

\* The feed resolves the instrument or not; it raises before it counted the reference
\* (the cap), or after that (its client's calls).
Outcomes == {"resolved", "unresolved", "refused", "raised"}
Errors == {"refused", "raised"}

AfterSubscribe(w, outcome) ==
    Save(IF outcome \in Errors THEN RecordError(w) ELSE Subscribed(w, outcome))

\* start() with recorded data: nothing to await.
AfterRecorded(w) ==
    Save(Log([w EXCEPT !.runtime.subscribed = TRUE], "SUBSCRIBED"))

\* One round of the monitor: the feed's state, the exchange's opening, ...
Heard(w) == RecordState([w EXCEPT !.session.exchange = exchange], feedState)
Opened(w) ==
    IF exchange = "OPEN" /\ w.session.exchange # "OPEN"
    THEN Log([Heard(w) EXCEPT !.runtime.hadOpen = TRUE, !.session.status = "RUNNING"],
             "SESSION_OPEN")
    ELSE Heard(w)

\* ... the age of the last tick and a summary, up to the release of the subscriptions.
Checked(w, aged) == CheckStale(Opened(w), exchange, feedState = "CONNECTED", aged)
MonitorRound(w, aged, due) ==
    IF due THEN CaptureSummary(Checked(w, aged)) ELSE Checked(w, aged)

ClosesFromOpen(w) == exchange = "CLOSED" /\ w.session.exchange = "OPEN"  \* a plausible mistake
Closes(w) == exchange = "CLOSED" /\ w.runtime.hadOpen

ExchangeClosed(w) == Log([w EXCEPT !.session.status = "CLOSED"], "SESSION_CLOSED")

-----------------------------------------------------------------------------
(* Actions. *)

SessionInit ==
    /\ session = NoSession
    /\ runtime = NoRuntime
    /\ log = NoEvents
    /\ saved = NoSession
    /\ sessions = 0
    /\ abandoned = 0
    /\ cut = FALSE
    /\ monitor = "none"
    /\ callers = [k \in ApiCallers |-> "idle"]
    /\ started = [k \in ApiCallers |-> 0]
    /\ recorders = [r \in Recorders |-> IdleRecorder]
    /\ hasFeed \in BOOLEAN
    /\ feedState \in IF hasFeed THEN {"DISCONNECTED", "NOT_CONFIGURED"}
                     ELSE {"CONNECTED", "NOT_AVAILABLE"}
    /\ feedRefs = 0
    /\ strays = 0
    /\ exchange \in Exchanges
    /\ moves = 0
    /\ crashes = 0

\* The manager is left in world w.
Become(w) ==
    /\ session' = w.session
    /\ runtime' = w.runtime
    /\ log' = w.log
    /\ saved' = w.saved

\* _finalize runs on the event loop, which does nothing else meanwhile.
Ending == monitor = "concluding" \/ \E k \in ApiCallers : callers[k] = "concluding"
LoopFree == ~Ending

\* _start_monitor: a task that is not done, even one that is being cancelled, is kept.
StartMonitor == monitor' = IF monitor \in {"none", "done"} THEN "starting" ELSE monitor

\* _finalize cancels the monitor, which learns of it when it is next scheduled.
KeepMonitor == UNCHANGED monitor  \* a plausible mistake
CancelMonitor ==
    monitor' = IF monitor \in {"starting", "asleep", "releasing"} THEN "cancelled" ELSE monitor

Unfinished == saved.status \notin {"NONE", "COMPLETED"}

\* POST /session/start; a session that is active already is just returned.
MayStart == LoopFree /\ ~Active /\ sessions < MaxSessions
NewSession ==
    /\ sessions' = sessions + 1
    /\ abandoned' = IF Unfinished THEN abandoned + 1 ELSE abandoned

Start(k) ==
    /\ callers[k] = "idle"
    /\ MayStart
    /\ NewSession
    /\ cut' = FALSE
    /\ IF hasFeed
       THEN /\ Become(Created(World))
            /\ callers' = [callers EXCEPT ![k] = "subscribing"]
            /\ started' = [started EXCEPT ![k] = sessions + 1]
            /\ UNCHANGED monitor
       ELSE /\ Become(AfterRecorded(Created(World)))
            /\ StartMonitor
            /\ UNCHANGED requestVars
    /\ UNCHANGED <<recorders, referenceVars, outsideVars>>

\* While start() awaited the feed its session ended, is being released, or made way
\* for another: what it subscribed is then returned by nobody.
Releasing == monitor = "releasing" \/ \E k \in ApiCallers : callers[k] = "releasing"
Overtaken(k) == started[k] # sessions \/ ~Active \/ Releasing

\* The feed has tried to connect by then.  The references are taken in the feed before
\* its awaits, and counted here when start() resumes: until then no step of the manager
\* reads or returns them.
StartSubscribed(k) ==
    /\ callers[k] = "subscribing"
    /\ LoopFree
    /\ feedState # "DISCONNECTED"
    /\ \E outcome \in Outcomes :
          /\ outcome \in Errors => session.errors < MaxErrors
          /\ Become(AfterSubscribe(World, outcome))
          /\ feedRefs' = IF outcome \in {"resolved", "raised"} THEN feedRefs + 1 ELSE feedRefs
          /\ strays' = IF outcome = "raised" \/ (outcome = "resolved" /\ Overtaken(k))
                       THEN strays + 1 ELSE strays
    /\ StartMonitor
    /\ callers' = [callers EXCEPT ![k] = "answering"]
    /\ started' = [started EXCEPT ![k] = 0]
    /\ UNCHANGED <<historyVars, recorders, outsideVars>>

\* feed.unsubscribe: the count is taken down before its first await.
OneLessUnchecked(n) == n - 1  \* a plausible mistake
OneLess(n) == IF n = 0 THEN 0 ELSE n - 1
GiveBack == feedRefs' = OneLess(feedRefs)

\* POST /session/stop; after a restart it takes over the last saved session.
Adopted(w) == IF w.session = NoSession THEN [w EXCEPT !.session = saved] ELSE w

Stop(k) ==
    /\ callers[k] = "idle"
    /\ LoopFree
    /\ saved # NoSession
    /\ LET w == Adopted(World) IN
          IF w.session.status = "COMPLETED"
          THEN /\ Become(w)
               /\ UNCHANGED <<callers, feedRefs>>
          ELSE IF MustRelease(w)
          THEN /\ Become(w)
               /\ GiveBack
               /\ callers' = [callers EXCEPT ![k] = "releasing"]
          ELSE /\ Become(Judge(Released(w)))
               /\ callers' = [callers EXCEPT ![k] = "concluding"]
               /\ UNCHANGED feedRefs
    /\ UNCHANGED <<historyVars, monitor, started, recorders, strays, outsideVars>>

\* feed.unsubscribe returned or raised.
ReleasedWorlds ==
    {Released(World)} \union (IF session.errors < MaxErrors THEN {Released(RecordError(World))} ELSE {})

StopReleased(k) ==
    /\ callers[k] = "releasing"
    /\ LoopFree
    /\ \E w \in ReleasedWorlds : Become(Judge(w))
    /\ callers' = [callers EXCEPT ![k] = "concluding"]
    /\ UNCHANGED <<historyVars, monitor, started, recorders, referenceVars, outsideVars>>

StopConcludes(k) ==
    /\ callers[k] = "concluding"
    /\ Become(Concluded(World))
    /\ CancelMonitor
    /\ callers' = [callers EXCEPT ![k] = "answering"]
    /\ UNCHANGED <<historyVars, started, recorders, referenceVars, outsideVars>>

\* The response is written: the loop has turned, so a new monitor has begun and a
\* cancelled one has ended.
Answer(k) ==
    /\ callers[k] = "answering"
    /\ LoopFree
    /\ monitor \notin {"starting", "cancelled"}
    /\ callers' = [callers EXCEPT ![k] = "idle"]
    /\ UNCHANGED <<historyVars, worldVars, monitor, started, recorders, referenceVars, outsideVars>>

\* _monitor_loop: it looks for a session to observe before its first sleep, ...
MonitorStarts ==
    /\ monitor = "starting"
    /\ LoopFree
    /\ monitor' = IF Active THEN "asleep" ELSE "done"
    /\ UNCHANGED <<historyVars, worldVars, requestVars, recorders, referenceVars, outsideVars>>

\* ... does a round, then sleeps again, releases at the exchange's close, or ends.
MonitorWakes ==
    /\ monitor = "asleep"
    /\ LoopFree
    /\ \E aged, due \in BOOLEAN :
          /\ aged => session.stales < MaxStales
          /\ LET w == MonitorRound(World, aged, due) IN
                IF ~Closes(w)
                THEN /\ Become(w)
                     /\ monitor' = IF ActiveIn(w) THEN "asleep" ELSE "done"
                     /\ UNCHANGED feedRefs
                ELSE IF MustRelease(w)
                THEN /\ Become(ExchangeClosed(w))
                     /\ GiveBack
                     /\ monitor' = "releasing"
                ELSE /\ Become(Judge(Released(ExchangeClosed(w))))
                     /\ monitor' = "concluding"
                     /\ UNCHANGED feedRefs
    /\ UNCHANGED <<historyVars, requestVars, recorders, strays, outsideVars>>

MonitorReleased ==
    /\ monitor = "releasing"
    /\ LoopFree
    /\ \E w \in ReleasedWorlds : Become(Judge(w))
    /\ monitor' = "concluding"
    /\ UNCHANGED <<historyVars, requestVars, recorders, referenceVars, outsideVars>>

MonitorConcludes ==
    /\ monitor = "concluding"
    /\ Become(Concluded(World))
    /\ monitor' = "done"
    /\ UNCHANGED <<historyVars, requestVars, recorders, referenceVars, outsideVars>>

MonitorCancelled ==
    /\ monitor = "cancelled"
    /\ LoopFree
    /\ monitor' = "done"
    /\ UNCHANGED <<historyVars, worldVars, requestVars, recorders, referenceVars, outsideVars>>

\* A normalized tick from the feed's callback.
Tick ==
    /\ Active
    /\ LoopFree
    /\ \E recorded \in BOOLEAN : Become(ObserveTick(World, recorded))
    /\ UNCHANGED <<historyVars, monitor, requestVars, recorders, referenceVars, outsideVars>>

\* A REST endpoint's worker thread: it tests active, ...
RecorderMoves(r) ==
    UNCHANGED <<historyVars, monitor, requestVars, referenceVars, outsideVars>>

RecorderTests(r) ==
    /\ recorders[r].at = "idle"
    /\ Active
    /\ session.errors < MaxErrors
    /\ recorders' = [recorders EXCEPT ![r].at = "tested"]
    /\ UNCHANGED worldVars
    /\ RecorderMoves(r)

\* ... reads the count of the session that is current now, ...
RecorderLoads(r) ==
    /\ recorders[r].at = "tested"
    /\ recorders' = [recorders EXCEPT ![r] =
                        [at |-> "loaded", errors |-> session.errors, of |-> sessions]]
    /\ UNCHANGED worldVars
    /\ RecorderMoves(r)

\* ... writes one more to that session, whatever was counted meanwhile, ...
RecorderStores(r) ==
    /\ recorders[r].at = "loaded"
    /\ session' = IF recorders[r].of = sessions
                  THEN [session EXCEPT !.errors = recorders[r].errors + 1]
                  ELSE session
    /\ recorders' = [recorders EXCEPT ![r] = [IdleRecorder EXCEPT !.at = "counted"]]
    /\ UNCHANGED <<runtime, log, saved>>
    /\ RecorderMoves(r)

\* ... appends the event and saves the session, both those of the current session.
RecorderAppends(r) ==
    /\ recorders[r].at = "counted"
    /\ Become(Log(World, "PROVIDER_ERROR"))
    /\ recorders' = [recorders EXCEPT ![r].at = "appended"]
    /\ RecorderMoves(r)

RecorderSaves(r) ==
    /\ recorders[r].at = "appended"
    /\ Become(Save(World))
    /\ recorders' = [recorders EXCEPT ![r].at = "idle"]
    /\ RecorderMoves(r)

-----------------------------------------------------------------------------
(* Outside (external): the feed's connection, the exchange, crashes. *)

\* The transitions of the feed manager when several subscribers connect it at once:
\* one's success may follow another's failure, and the reverse.
FeedNext ==
    CASE feedState = "DISCONNECTED" -> {"CONNECTING"}
      [] feedState = "CONNECTING" -> {"CONNECTED", "FAILED"}
      [] feedState = "CONNECTED" -> {"CONNECTING", "FAILED"}
      [] feedState = "FAILED" -> {"CONNECTING", "CONNECTED"}
      [] OTHER -> {}

\* Each is reported by the feed's callback at once.  reconnect() reports DISCONNECTED
\* and RECONNECTING before CONNECTING without an await.
FeedMoves ==
    /\ hasFeed
    /\ LoopFree
    /\ \E next \in FeedNext :
          LET lost == feedState = "CONNECTED" /\ next = "CONNECTING"
              w == IF lost THEN RecordState(RecordState(World, "DISCONNECTED"), "RECONNECTING")
                   ELSE World
          IN  /\ lost \/ next = "FAILED" => session.disconnects < MaxDisconnects
              /\ Become(RecordState(w, next))
              /\ feedState' = next
    /\ UNCHANGED <<historyVars, monitor, requestVars, recorders, referenceVars,
                   hasFeed, exchange, moves, crashes>>

ExchangeMoves ==
    /\ moves < MaxExchangeMoves
    /\ exchange' \in Exchanges \ {exchange}
    /\ moves' = moves + 1
    /\ UNCHANGED <<historyVars, worldVars, monitor, requestVars, recorders, referenceVars,
                   hasFeed, feedState, crashes>>

\* The worlds the loop's next step may pass through or end in.
Interrupted ==
    IF Ending THEN {Concluded(World)}
    ELSE {ObserveTick(World, recorded) : recorded \in BOOLEAN}
         \union (IF ~hasFeed THEN {}
                 ELSE {RecordState(World, st) : st \in FeedNext \union {"DISCONNECTED"}})
         \union (IF monitor # "asleep" THEN {}
                 ELSE {Heard(World), Opened(World)}
                      \union {MonitorRound(World, aged, due) : aged, due \in BOOLEAN})
         \union (IF \A k \in ApiCallers : callers[k] # "subscribing" THEN {}
                 ELSE {RecordError(World)} \union
                      {Subscribed(World, outcome) : outcome \in {"resolved", "unresolved"}})
         \union (IF ~Releasing THEN {} ELSE {RecordError(World), Ended(World)})

\* A process that dies on the way to v has appended its events, and saved the session
\* or not; a worker that was about to save may have saved it before its event.
Recording(where) == \E r \in Recorders : recorders[r].at \in where
DiesOnTheWayTo(v) ==
    \/ log' = v.log /\ saved' = v.saved
    \/ log' = v.log /\ UNCHANGED saved
    \/ Recording({"appended"}) /\ UNCHANGED log /\ saved' = v.session

\* Everything in memory is lost.
MemoryIsLost ==
    /\ crashes < MaxCrashes
    /\ crashes' = crashes + 1
    /\ session' = NoSession
    /\ runtime' = NoRuntime
    /\ monitor' = "none"
    /\ callers' = [k \in ApiCallers |-> "idle"]
    /\ started' = [k \in ApiCallers |-> 0]
    /\ recorders' = [r \in Recorders |-> IdleRecorder]
    /\ feedState' = IF hasFeed /\ feedState # "NOT_CONFIGURED" THEN "DISCONNECTED" ELSE feedState
    /\ feedRefs' = 0
    /\ strays' = 0
    /\ UNCHANGED <<hasFeed, exchange, moves>>

Crash ==
    /\ MemoryIsLost
    /\ \E v \in {World} \union Interrupted : DiesOnTheWayTo(v)
    /\ cut' = (cut \/ Recording({"counted", "appended"}))
    /\ UNCHANGED <<sessions, abandoned>>

\* A start() that is cut short before its first await has saved the new session.
CrashInStart ==
    /\ MayStart
    /\ \E k \in ApiCallers : callers[k] = "idle"
    /\ MemoryIsLost
    /\ NewSession
    /\ \E v \in {Fresh(World), Placed(World), Created(World)} : log' = v.log /\ saved' = v.saved
    /\ cut' = FALSE

-----------------------------------------------------------------------------

Continue(k) == StartSubscribed(k) \/ StopReleased(k) \/ StopConcludes(k) \/ Answer(k)
MonitorSteps ==
    MonitorStarts \/ MonitorWakes \/ MonitorReleased \/ MonitorConcludes \/ MonitorCancelled
RecorderSteps(r) ==
    \/ RecorderTests(r) \/ RecorderLoads(r) \/ RecorderStores(r)
    \/ RecorderAppends(r) \/ RecorderSaves(r)

SessionNext ==
    \/ \E k \in ApiCallers : Start(k) \/ Stop(k) \/ Continue(k)
    \/ MonitorSteps
    \/ Tick
    \/ \E r \in Recorders : RecorderSteps(r)
    \/ FeedMoves
    \/ ExchangeMoves
    \/ Crash
    \/ CrashInStart

\* The event loop resumes what it can resume; requests, ticks, connection changes
\* and errors are never owed.
SessionFairness ==
    /\ \A k \in ApiCallers : WF_sessionVars(Continue(k))
    /\ WF_sessionVars(MonitorSteps)

SessionSafetySpec == SessionInit /\ [][SessionNext]_sessionVars
SessionSpec == SessionSafetySpec /\ SessionFairness

-----------------------------------------------------------------------------
(* Properties. *)

SessionRecord ==
    [status : {"NONE", "CREATED", "RUNNING", "DEGRADED", "CLOSED", "COMPLETED"},
     exchange : Exchanges,
     ticked : BOOLEAN, disconnects : Nat, reconnects : Nat, stales : Nat, errors : Nat,
     failures : SUBSET Criteria, verdict : {"NONE", "PASS", "PASS_WITH_WARNINGS", "FAIL"},
     evidence : SUBSET (Milestones \union Incidents)]

RecorderRecord ==
    [at : {"idle", "tested", "loaded", "counted", "appended"}, errors : Nat, of : Nat]

SessionTypeOK ==
    /\ session \in SessionRecord
    /\ DOMAIN runtime = DOMAIN NoRuntime
    /\ saved \in SessionRecord
    /\ sessions \in 0..MaxSessions /\ abandoned \in 0..sessions /\ cut \in BOOLEAN
    /\ monitor \in {"none", "starting", "asleep", "releasing", "concluding", "cancelled", "done"}
    /\ callers \in [ApiCallers -> {"idle", "subscribing", "releasing", "concluding", "answering"}]
    /\ started \in [ApiCallers -> 0..MaxSessions]
    /\ recorders \in [Recorders -> RecorderRecord]
    /\ feedState \in FeedStates
    /\ feedRefs \in Nat /\ strays \in Nat
    /\ exchange \in Exchanges

\* Every incident a stored session counts is evidenced in its event log, whatever is
\* lost in a crash: losses, reconnects and stale intervals are never claimed without
\* the event that shows them (append before save).  The loop may save an error that a
\* worker has counted and not yet logged, so for errors this holds up to the workers
\* in between; and no count is vouched for once a process died with a worker there.
CountsAreEvidenced ==
    ~cut =>
        /\ saved.disconnects <= log.count["PROVIDER_DISCONNECTED"]
        /\ saved.reconnects <= log.count["PROVIDER_RECONNECTED"]
        /\ saved.stales <= log.count["STALE_DATA_DETECTED"]
        /\ saved.errors <= log.count["PROVIDER_ERROR"]
                            + Cardinality({r \in Recorders : recorders[r].at = "counted"})

\* Recoveries never outnumber losses: each reconnect counted closes a distinct
\* disconnect, so the recovery criterion cannot be met by a surplus.
ReconnectsAreOwed ==
    session.reconnects + (IF runtime.down THEN 1 ELSE 0) <= session.disconnects

\* A PASS without warnings means that up to the session's judgement its log shows a
\* connection and subscriptions, no disconnect and no stale interval, even if the
\* process restarted or a request raced the monitor.
PassIsClean ==
    saved.verdict = "PASS" =>
        /\ {"PROVIDER_CONNECTED", "SUBSCRIBED"} \subseteq saved.evidence
        /\ saved.evidence \intersect {"PROVIDER_DISCONNECTED", "STALE_DATA_DETECTED"} = {}

\* docs/market-session-observation-v1.md:36 "all criteria pass without warnings", and
\* :35 counts a recorded error as a warning: a session stored as PASS counts none.
PassWithoutErrors == saved.verdict = "PASS" => saved.errors = 0

\* docs/market-session-observation-v1.md:38 "The result is computed from the recorded
\* contract and event stream": a criterion that an event of the stream meets never
\* fails the session, however long it was.
VerdictFromEventStream ==
    saved.status = "COMPLETED" /\ "PROVIDER_CONNECTED" \in saved.evidence
        => "provider_connected" \notin saved.failures

\* docs/market-session-observation-v1.md:32 "successful recovery where a disconnect
\* occurred": a session that ends with its provider connected again is not failed for
\* want of a reconnect, however many attempts the recovery took.
RecoveredMeansMet ==
    session.status = "COMPLETED" /\ runtime.lastState = "CONNECTED"
        => "reconnect_succeeded_if_required" \notin session.failures

\* Only a crash leaves a session without its completion: the sessions on disk that
\* are unfinished and neither observed nor being finalized are no more than the crashes.
UnfinishedOnlyByCrash ==
    abandoned + (IF Unfinished /\ ~Active /\ ~Ending THEN 1 ELSE 0) <= crashes

\* docs/market-live-runbook-v1.md:94: a closed or unknown market never degrades a
\* session, nor does a stream that is not connected.
DegradesOnlyWhenOpen ==
    [][session.status # "DEGRADED" /\ session'.status = "DEGRADED"
          => exchange = "OPEN" /\ feedState = "CONNECTED"]_sessionVars

Over == session.status = "COMPLETED" /\ \A k \in ApiCallers : callers[k] = "idle"

\* Once a session is over and no request is under way, every reference has gone back
\* to the feed but those of a subscription that raised or was overtaken by a stop: a
\* session that ends at whatever point of its release leaves no other.
ReferencesReturned == Over => feedRefs <= strays

\* Without the exceptions, as backend/tests/test_market_session_observation.py:115
\* "assert service.feed_manager.subscriptions == ()" has it of a stopped session.
NoReferenceLeft == Over => feedRefs = 0

\* A completed session stays completed: no tick, connection event, monitor round or
\* request that was under way reopens it, on disk or in memory.
CompletionIsFinal ==
    [][sessions' = sessions =>
         /\ saved.status = "COMPLETED" => saved'.status = "COMPLETED"
         /\ session.status = "COMPLETED" => session'.status \in {"COMPLETED", "NONE"}]_sessionVars

\* docs/market-live-runbook-v1.md:98: once the exchange closes on a session that was
\* open, the session is finalized without anybody asking for it, if the monitor is
\* there to see it: a start() that finds the last session's monitor cancelled and not
\* yet ended goes without one.
CloseCompletes ==
    (monitor \in {"starting", "asleep"} /\ Active /\ runtime.hadOpen /\ exchange = "CLOSED")
        ~> (~Active \/ exchange # "CLOSED")
=============================================================================
