--------------------------- MODULE SmartphoneSensor ---------------------------
(***************************************************************************)
(* The smartphone sensor page (edu.udayton.udri.smartphone/WebContent/     *)
(* script.js): seven switches, a WebSocket to the controller, GPS and      *)
(* battery readings taken by interval timers, a position watch and a       *)
(* battery level listener, all sending JSON on the current socket.         *)
(*                                                                         *)
(* A user toggle and the onchange handler it fires are one step (the page  *)
(* is single-threaded and the handler reads the box it belongs to), so a   *)
(* JS flag equals its checkbox after every step.  Timers and watches are   *)
(* counted: the handle variable only ever names the most recently created  *)
(* one, so a live timer is either that one or an orphan no code can clear. *)
(* Asynchronous completions (socket open, geolocation and getBattery       *)
(* callbacks, timer ticks, level changes) are steps of their own, in any   *)
(* order.  Sent payloads are abstracted to their dataType.                 *)
(***************************************************************************)
EXTENDS Integers

CONSTANTS
  Undefined,     \* JS undefined
  MaxToggles,    \* bound on user toggles
  MaxPending,    \* bound on outstanding callbacks of one kind
  Levels,        \* battery levels the phone reports, in whole percent (1..100)
  PercentInputs  \* positive parseInt results of the percent field

Switches == {"sensor", "gps", "gpsTime", "gpsPosition", "battery", "batteryTime", "batteryStatus"}

VARIABLES
  check,                 \* sensorCheck, gpsCheck, gpsTimeUpdateCheck, ... by switch
  ws,                    \* readyState of webSocket: "none" before the first one
  gpsTimers,             \* live intervals running getGpsCoords
  gpsTimerHandleLive,    \* gpsTimedLoopInterval names a live interval
  gpsWatches,            \* live watchPosition watches
  gpsWatchHandleLive,    \* gpsWatch names a live watch
  batteryTimers,         \* live intervals running getBatteryLevel
  batteryTimerHandleLive,\* batteryTimedLoopInterval names a live interval
  batteryStatusListener, \* Undefined or the BatteryManager [onlevelchange]
  posRequests,           \* getCurrentPosition calls awaiting their callback
  levelRequests,         \* getBattery() promises of getBatteryLevel pending
  statusRequests,        \* getBattery() promises of setBatteryStatusUpdateCheck pending
  sessions,              \* times the sensor switch was turned on
  toggles,               \* user toggles so far
  delivered,             \* dataTypes sent on an open socket since the last toggle
  gpsTimeUpdateMinutes,     \* the minutes setting of the GPS timed update
  batteryTimeUpdateMinutes, \* the minutes setting of the battery timed update
  gpsTimerPeriod,        \* minutes of the interval gpsTimedLoopInterval names
  batteryTimerPeriod,    \* minutes of the interval batteryTimedLoopInterval names
  batteryStatusUpdatePercent, \* the threshold of the battery status-based update
  batteryLevel,          \* the BatteryManager's level, in percent
  listenerReports        \* history: <<level, threshold>> of each batteryListener send

vars == <<check, ws, gpsTimers, gpsTimerHandleLive, gpsTimerPeriod, gpsWatches, gpsWatchHandleLive,
          batteryTimers, batteryTimerHandleLive, batteryTimerPeriod, batteryStatusListener,
          posRequests, levelRequests, statusRequests, sessions, toggles, delivered,
          gpsTimeUpdateMinutes, batteryTimeUpdateMinutes, batteryStatusUpdatePercent,
          batteryLevel, listenerReports>>

settings == <<gpsTimeUpdateMinutes, batteryTimeUpdateMinutes, batteryStatusUpdatePercent>>
levelVars == <<batteryLevel, listenerReports>>

timerVars == <<gpsTimers, gpsTimerHandleLive, gpsTimerPeriod, gpsWatches, gpsWatchHandleLive,
               batteryTimers, batteryTimerHandleLive, batteryTimerPeriod>>

GpsTimeOn(c)      == c["gpsTime"] /\ c["gps"] /\ c["sensor"]
GpsPositionOn(c)  == c["gpsPosition"] /\ c["gps"] /\ c["sensor"]
BatteryTimeOn(c)  == c["batteryTime"] /\ c["battery"] /\ c["sensor"]
BatteryStatusOn(c) == c["batteryStatus"] /\ c["battery"] /\ c["sensor"]

Init ==
  /\ check = [s \in Switches |-> FALSE]
  /\ ws = "none"
  /\ gpsTimers = 0 /\ gpsTimerHandleLive = FALSE
  /\ gpsWatches = 0 /\ gpsWatchHandleLive = FALSE
  /\ batteryTimers = 0 /\ batteryTimerHandleLive = FALSE
  /\ batteryStatusListener = Undefined
  /\ posRequests = 0 /\ levelRequests = 0 /\ statusRequests = 0
  /\ sessions = 0 /\ toggles = 0
  /\ delivered = {}
  /\ gpsTimeUpdateMinutes = 1 /\ batteryTimeUpdateMinutes = 1
  /\ gpsTimerPeriod = 0 /\ batteryTimerPeriod = 0
  /\ batteryStatusUpdatePercent = 20
  /\ batteryLevel \in Levels
  /\ listenerReports = {}

-----------------------------------------------------------------------------
(* The four setters, as relations between the switch values c they read   *)
(* and the primed state they write.                                        *)

\* Mutant: the else branch without clearInterval(gpsTimedLoopInterval).
setGpsTimeUpdateCheckNoClear(c) ==
  IF GpsTimeOn(c)
    THEN /\ posRequests' = posRequests + 1
         /\ gpsTimers' = gpsTimers + 1
         /\ gpsTimerHandleLive' = TRUE
         /\ gpsTimerPeriod' = gpsTimeUpdateMinutes
    ELSE UNCHANGED <<gpsTimers, gpsTimerHandleLive, gpsTimerPeriod, posRequests>>

\* setInterval(getGpsCoords, ...) after one getGpsCoords(), or clearInterval.
setGpsTimeUpdateCheck(c) ==
  IF GpsTimeOn(c)
    THEN /\ posRequests' = posRequests + 1
         /\ gpsTimers' = gpsTimers + 1
         /\ gpsTimerHandleLive' = TRUE
         /\ gpsTimerPeriod' = gpsTimeUpdateMinutes
    ELSE /\ gpsTimers' = IF gpsTimerHandleLive THEN gpsTimers - 1 ELSE gpsTimers
         /\ gpsTimerHandleLive' = FALSE
         /\ UNCHANGED <<gpsTimerPeriod, posRequests>>

\* watchPosition(...), or clearWatch(gpsWatch).
setGpsPositionUpdateCheck(c) ==
  IF GpsPositionOn(c)
    THEN /\ gpsWatches' = gpsWatches + 1
         /\ gpsWatchHandleLive' = TRUE
    ELSE /\ gpsWatches' = IF gpsWatchHandleLive THEN gpsWatches - 1 ELSE gpsWatches
         /\ gpsWatchHandleLive' = FALSE

setBatteryTimeUpdateCheck(c) ==
  IF BatteryTimeOn(c)
    THEN /\ levelRequests' = levelRequests + 1
         /\ batteryTimers' = batteryTimers + 1
         /\ batteryTimerHandleLive' = TRUE
         /\ batteryTimerPeriod' = batteryTimeUpdateMinutes
    ELSE /\ batteryTimers' = IF batteryTimerHandleLive THEN batteryTimers - 1 ELSE batteryTimers
         /\ batteryTimerHandleLive' = FALSE
         /\ UNCHANGED <<batteryTimerPeriod, levelRequests>>

\* navigator.getBattery().then(install listener), or detach the listener.
setBatteryStatusUpdateCheck(c) ==
  IF BatteryStatusOn(c)
    THEN /\ statusRequests' = statusRequests + 1
         /\ UNCHANGED batteryStatusListener
    ELSE /\ batteryStatusListener' =
              IF batteryStatusListener # Undefined
                THEN [batteryStatusListener EXCEPT !.onlevelchange = "null"]
                ELSE Undefined
         /\ UNCHANGED statusRequests

-----------------------------------------------------------------------------
(* User toggles: flip the box, run its onchange handler.                    *)

Toggle(s) ==
  /\ toggles < MaxToggles
  /\ check' = [check EXCEPT ![s] = ~@]
  /\ toggles' = toggles + 1
  /\ delivered' = {}
  /\ UNCHANGED <<settings, levelVars>>

\* Mutant: setSensorCheck without its setGpsTimeUpdateCheck() call.
setSensorCheckSkipsGpsTime ==
  /\ Toggle("sensor")
  /\ IF check'["sensor"]
       THEN /\ ws' = "connecting"
            /\ sessions' = sessions + 1
            /\ UNCHANGED <<gpsTimers, gpsTimerHandleLive, gpsTimerPeriod, posRequests>>
            /\ setGpsPositionUpdateCheck(check')
            /\ setBatteryTimeUpdateCheck(check')
            /\ setBatteryStatusUpdateCheck(check')
       ELSE /\ ws' = "closed"
            /\ UNCHANGED <<sessions, timerVars, batteryStatusListener,
                           posRequests, levelRequests, statusRequests>>

setSensorCheck ==
  /\ Toggle("sensor")
  /\ IF check'["sensor"]
       THEN /\ ws' = "connecting"
            /\ sessions' = sessions + 1
            /\ setGpsTimeUpdateCheck(check')
            /\ setGpsPositionUpdateCheck(check')
            /\ setBatteryTimeUpdateCheck(check')
            /\ setBatteryStatusUpdateCheck(check')
       ELSE /\ ws' = "closed"
            /\ UNCHANGED <<sessions, timerVars, batteryStatusListener,
                           posRequests, levelRequests, statusRequests>>

setGpsCheck ==
  /\ Toggle("gps")
  /\ setGpsTimeUpdateCheck(check')
  /\ setGpsPositionUpdateCheck(check')
  /\ UNCHANGED <<ws, sessions, batteryTimers, batteryTimerHandleLive, batteryTimerPeriod,
                 batteryStatusListener, levelRequests, statusRequests>>

setBatteryCheck ==
  /\ Toggle("battery")
  /\ setBatteryTimeUpdateCheck(check')
  /\ setBatteryStatusUpdateCheck(check')
  /\ UNCHANGED <<ws, sessions, gpsTimers, gpsTimerHandleLive, gpsTimerPeriod, gpsWatches,
                 gpsWatchHandleLive, posRequests>>

ToggleGpsTime ==
  /\ Toggle("gpsTime")
  /\ setGpsTimeUpdateCheck(check')
  /\ UNCHANGED <<ws, sessions, gpsWatches, gpsWatchHandleLive, batteryTimers,
                 batteryTimerHandleLive, batteryTimerPeriod, batteryStatusListener, levelRequests, statusRequests>>

ToggleGpsPosition ==
  /\ Toggle("gpsPosition")
  /\ setGpsPositionUpdateCheck(check')
  /\ UNCHANGED <<ws, sessions, gpsTimers, gpsTimerHandleLive, gpsTimerPeriod, batteryTimers,
                 batteryTimerHandleLive, batteryTimerPeriod, batteryStatusListener,
                 posRequests, levelRequests, statusRequests>>

ToggleBatteryTime ==
  /\ Toggle("batteryTime")
  /\ setBatteryTimeUpdateCheck(check')
  /\ UNCHANGED <<ws, sessions, gpsTimers, gpsTimerHandleLive, gpsTimerPeriod, gpsWatches,
                 gpsWatchHandleLive, batteryStatusListener, posRequests, statusRequests>>

ToggleBatteryStatus ==
  /\ Toggle("batteryStatus")
  /\ setBatteryStatusUpdateCheck(check')
  /\ UNCHANGED <<ws, sessions, timerVars, posRequests, levelRequests>>

\* A number field, abstracted to what parseInt makes of its text: NaN
\* (no leading digits), zero, or one of the given positive numbers.
ParseIntResults(positives) ==
  {[nan |-> TRUE, int |-> 0]} \cup {[nan |-> FALSE, int |-> n] : n \in {0} \cup positives}

\* The user edits a setting's field; its onchange handler keeps a positive
\* parseInt result ("newVal > 0" is false for NaN) and ignores the rest.
SetMinutes(minutes, positives) ==
  /\ toggles < MaxToggles
  /\ toggles' = toggles + 1
  /\ \E newVal \in ParseIntResults(positives) :
       IF ~newVal.nan /\ newVal.int > 0 THEN minutes' = newVal.int ELSE UNCHANGED minutes
  /\ UNCHANGED <<check, ws, timerVars, batteryStatusListener, posRequests, levelRequests,
                 statusRequests, sessions, delivered, levelVars>>

setGpsTimeUpdateMinutes ==
  SetMinutes(gpsTimeUpdateMinutes, {2})
  /\ UNCHANGED <<batteryTimeUpdateMinutes, batteryStatusUpdatePercent>>

setBatteryTimeUpdateMinutes ==
  SetMinutes(batteryTimeUpdateMinutes, {2})
  /\ UNCHANGED <<gpsTimeUpdateMinutes, batteryStatusUpdatePercent>>

setBatteryStatusUpdatePercent ==
  SetMinutes(batteryStatusUpdatePercent, PercentInputs)
  /\ UNCHANGED <<gpsTimeUpdateMinutes, batteryTimeUpdateMinutes>>

-----------------------------------------------------------------------------
(* Asynchronous completions.                                               *)

\* webSocket.send(JSON.stringify({dataType: kind, ...})): delivered on an
\* open socket; InvalidStateError while connecting; dropped once closed.
Send(kind) ==
  delivered' = IF ws = "open" THEN delivered \cup {kind} ELSE delivered

SocketOpens ==
  /\ ws = "connecting"
  /\ ws' = "open"
  /\ UNCHANGED <<check, timerVars, batteryStatusListener, posRequests, levelRequests,
                 statusRequests, sessions, toggles, settings, levelVars, delivered>>

\* The server or the network closes the socket; script.js sets no onclose.
SocketDrops ==
  /\ ws \in {"connecting", "open"}
  /\ ws' = "closed"
  /\ UNCHANGED <<check, timerVars, batteryStatusListener, posRequests, levelRequests,
                 statusRequests, sessions, toggles, settings, levelVars, delivered>>

\* A GPS interval fires: getGpsCoords() asks for the position.
GpsTick ==
  /\ gpsTimers > 0
  /\ posRequests < MaxPending
  /\ posRequests' = posRequests + 1
  /\ UNCHANGED <<check, ws, timerVars, batteryStatusListener, levelRequests,
                 statusRequests, sessions, toggles, settings, levelVars, delivered>>

\* The getCurrentPosition success callback of getGpsCoords.
getGpsCoordsCallback ==
  /\ posRequests > 0
  /\ posRequests' = posRequests - 1
  /\ Send("coordinates")
  /\ UNCHANGED <<check, ws, timerVars, batteryStatusListener, levelRequests,
                 statusRequests, sessions, toggles, settings, levelVars>>

\* A watch reports a position farther than gpsPositionUpdateMeters from
\* its lastPos (a nearer one changes nothing).
gpsWatchCallback ==
  /\ gpsWatches > 0
  /\ Send("coordinates")
  /\ UNCHANGED <<check, ws, timerVars, batteryStatusListener, posRequests, levelRequests,
                 statusRequests, sessions, toggles, settings, levelVars>>

\* A battery interval fires: getBatteryLevel() calls getBattery().
BatteryTick ==
  /\ batteryTimers > 0
  /\ levelRequests < MaxPending
  /\ levelRequests' = levelRequests + 1
  /\ UNCHANGED <<check, ws, timerVars, batteryStatusListener, posRequests,
                 statusRequests, sessions, toggles, settings, levelVars, delivered>>

\* The then() of getBatteryLevel.
getBatteryLevelCallback ==
  /\ levelRequests > 0
  /\ levelRequests' = levelRequests - 1
  /\ Send("batteryStatus")
  /\ UNCHANGED <<check, ws, timerVars, batteryStatusListener, posRequests,
                 statusRequests, sessions, toggles, settings, levelVars>>

\* Mutant: onlevelchange = batteryListener() (the call's result, undefined).
statusCallbackCallsListener ==
  /\ statusRequests > 0
  /\ statusRequests' = statusRequests - 1
  /\ batteryStatusListener' = [onlevelchange |-> Undefined]
  /\ UNCHANGED <<check, ws, timerVars, posRequests, levelRequests,
                 sessions, toggles, settings, levelVars, delivered>>

\* The then() of setBatteryStatusUpdateCheck: keep the BatteryManager and
\* install batteryListener, whatever the switches are by now.
batteryStatusCallback ==
  /\ statusRequests > 0
  /\ statusRequests' = statusRequests - 1
  /\ batteryStatusListener' = [onlevelchange |-> "batteryListener"]
  /\ UNCHANGED <<check, ws, timerVars, posRequests, levelRequests,
                 sessions, toggles, settings, levelVars, delivered>>

\* 2^s mod m, for the exact arithmetic below.
RECURSIVE Pow2Mod(_, _)
Pow2Mod(s, m) == IF s = 0 THEN 1 % m ELSE (2 * Pow2Mod(s - 1, m)) % m

\* floor(log2(n / d)) for positive integers n and d.
RECURSIVE Log2Floor(_, _)
Log2Floor(n, d) ==
  CASE n >= 2 * d -> 1 + Log2Floor(n, 2 * d)
    [] n < d      -> Log2Floor(2 * n, d) - 1
    [] OTHER      -> 0

\* The sign of (level * 100) - k in JS doubles, for level = k / 100.
\* level is the double nearest k/100, m * 2^-s with a 53-bit m; the
\* product m * 100 * 2^-s is exactly k + eps * 2^-s, where eps is
\* m*100 - k*2^s, found from k*2^s mod 100 (and mod 200 for a tie).  That
\* product rounds back to k unless |eps| exceeds half an ulp of k, which is
\* 2^(ek - e - 1) in units of 2^-s; ties go to k, whose mantissa is even.
LevelTimes100Sign(k) ==
  LET e    == Log2Floor(k, 100)
      ek   == Log2Floor(k, 1)
      s    == 52 - e
      r    == (k * Pow2Mod(s, 100)) % 100
      qOdd == (k * Pow2Mod(s, 200)) % 200 >= 100
      eps  == IF r < 50 \/ (r = 50 /\ ~qOdd) THEN -r ELSE 100 - r
      half == 2^(ek - e - 1)
  IN  CASE eps < -half -> -1
        [] eps > half  -> 1
        [] OTHER       -> 0

\* batteryStatusListener.level * 100 < batteryStatusUpdatePercent, for a
\* level of k percent and an integer threshold p.
LevelBelowPercent(k, p) == k < p \/ (k = p /\ LevelTimes100Sign(k) = -1)

\* batteryListener, run by levelchange at level k: report the level when
\* it is below the threshold.
batteryListener(k) ==
  IF LevelBelowPercent(k, batteryStatusUpdatePercent)
    THEN /\ Send("batteryStatus")
         /\ listenerReports' = listenerReports \cup {<<k, batteryStatusUpdatePercent>>}
    ELSE UNCHANGED <<delivered, listenerReports>>

\* The phone's battery level changes to k and the BatteryManager fires
\* levelchange, which runs batteryListener if it is installed.
batteryLevelChanges(k) ==
  /\ k # batteryLevel
  /\ batteryLevel' = k
  /\ IF batteryStatusListener # Undefined /\ batteryStatusListener.onlevelchange = "batteryListener"
       THEN batteryListener(k)
       ELSE UNCHANGED <<delivered, listenerReports>>
  /\ UNCHANGED <<check, ws, timerVars, batteryStatusListener, posRequests, levelRequests,
                 statusRequests, sessions, toggles, settings>>

Next ==
  \/ setSensorCheck \/ setGpsCheck \/ setBatteryCheck
  \/ ToggleGpsTime \/ ToggleGpsPosition \/ ToggleBatteryTime \/ ToggleBatteryStatus
  \/ setGpsTimeUpdateMinutes \/ setBatteryTimeUpdateMinutes \/ setBatteryStatusUpdatePercent
  \/ SocketOpens \/ SocketDrops
  \/ GpsTick \/ getGpsCoordsCallback \/ gpsWatchCallback
  \/ BatteryTick \/ getBatteryLevelCallback
  \/ batteryStatusCallback \/ \E k \in Levels : batteryLevelChanges(k)

\* The browser completes the handshake, fires live intervals and answers
\* geolocation and getBattery requests; the user and the network owe nothing.
Fairness ==
  /\ WF_vars(SocketOpens)
  /\ WF_vars(GpsTick) /\ WF_vars(getGpsCoordsCallback)
  /\ WF_vars(BatteryTick) /\ WF_vars(getBatteryLevelCallback)

Spec == Init /\ [][Next]_vars /\ Fairness

-----------------------------------------------------------------------------
(* Properties.                                                             *)

TypeOK ==
  /\ check \in [Switches -> BOOLEAN]
  /\ ws \in {"none", "connecting", "open", "closed"}
  /\ {gpsTimers, gpsWatches, batteryTimers, posRequests, levelRequests,
      statusRequests, sessions, toggles} \subseteq Nat
  /\ {gpsTimerHandleLive, gpsWatchHandleLive, batteryTimerHandleLive} \subseteq BOOLEAN
  /\ batteryStatusListener \in {Undefined} \cup [onlevelchange : {"batteryListener", "null"}]
  /\ delivered \subseteq {"coordinates", "batteryStatus"}
  /\ {gpsTimeUpdateMinutes, batteryTimeUpdateMinutes} \subseteq {1, 2}
  /\ {gpsTimerPeriod, batteryTimerPeriod} \subseteq {0, 1, 2}
  /\ batteryStatusUpdatePercent \in {20} \cup PercentInputs
  /\ batteryLevel \in Levels
  /\ listenerReports \subseteq Levels \X ({20} \cup PercentInputs)

\* Timers and watches leak only across sensor sessions: turning the sensor
\* off leaves them running and overwriting a handle orphans its timer, but
\* within one session every setter clears what it started, so each kind
\* has at most one live timer (or watch) per sensor-on.
LeakBoundedBySessions ==
  /\ gpsTimers <= sessions
  /\ gpsWatches <= sessions
  /\ batteryTimers <= sessions

\* With time-based GPS (or battery) reporting switched on, a reading of
\* that kind is eventually delivered on the open socket, unless the user
\* switches it off or the connection drops.
TimedReadingsDelivered ==
  /\ GpsTimeOn(check) ~> (~GpsTimeOn(check) \/ "coordinates" \in delivered \/ ws = "closed")
  /\ BatteryTimeOn(check) ~> (~BatteryTimeOn(check) \/ "batteryStatus" \in delivered \/ ws = "closed")

\* The comments of setSensorCheck and of each setter: when a required switch
\* is off the setter "will ... stop retrieving" that data; so no interval,
\* watch or level listener of a kind runs while that kind is switched off.
RetrievalStopsWhenDisabled ==
  /\ ~GpsTimeOn(check) => gpsTimers = 0
  /\ ~GpsPositionOn(check) => gpsWatches = 0
  /\ ~BatteryTimeOn(check) => batteryTimers = 0
  /\ ~BatteryStatusOn(check) =>
        (batteryStatusListener = Undefined \/ batteryStatusListener.onlevelchange # "batteryListener")

\* The comment of batteryListener: it "returns [the level] when the current
\* level is lower than the specified threshold", so every level it reports
\* is below the threshold in force when it reports.
ReportsOnlyBelowThreshold == \A r \in listenerReports : r[1] < r[2]
=============================================================================
