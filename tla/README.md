# TLA+ models of the OSUS-R browser scripts

This directory holds TLA+ models of the JavaScript in `src/`. It has the
modules, the TLC configurations that check them, and a record of what the
checks show. `PROJECT.json` lists the components, the runs, the mutants, the
source lines each definition models (`map`), the findings and the hazards.

## 1. Inventory

The repository's JavaScript is glue around two external systems. One is
PrimeFaces Push over Atmosphere, which carries server events to the web GUI.
The other is a WebSocket, which carries phone readings to the controller.
The components:

| Component | Source | State | Operations | Interacts with |
|---|---|---|---|---|
| Topic callback registry | `push/common/commonPushEventFunctions.js` (registry part), `commonControllerFunctions.js`, `devices/commonAssetFunctions.js` | `window.thEvent.callbackMap`: topic -> array of TopicCallback {clientId, uniqueId, componentId, filter, callback, regProps, cleanupFilter, cleanupTopic} | `registerComponent`, `unregisterComponents`, `checkForCleanup`, `handleRegisteredCallbacks`, the three cleanup filters | Pages call register/unregister when components render. The router calls cleanup and dispatch for each event. Callbacks update the DOM. |
| Push message router | `commonPushEventFunctions.js` (`messageRouterFunction`, `performGenericOperations`, `handleGenericEvents`), the page `handleMessage` scripts under `push/pages/`, `pushGrowlMessages.js`, `messageSocketConnection.js`, `messageSocketFunctionCheck.js` | none of its own. It fires `rc*` remote commands, which are asynchronous AJAX re-renders. | route null, growl and event messages. Generic controller events update the sidebar, active controller and main content, then run cleanup, then dispatch. Then the page handler runs, then `decrementRequestCount`. | The Atmosphere socket calls it once per message. Re-renders call `registerComponent` again. |
| Long-polling request-count workaround | `commonPushConnectionFunctions.js`, PrimeFaces `Socket` widget (`push.js` line 40) | `requestCount` of the Atmosphere request | `decrementRequestCount` after every message | Atmosphere's `maxRequest` check on each long-poll reconnect |
| Atmosphere 1.0.13 transport | `push.js` line 34 (one minified line) | transports, reconnect counters, timers | subscribe, reconnect, fallback, close | vendored third-party code |
| Push component callbacks | `components/statusComponent.js`, `components/pushUpdateOutputText.js` | the text of the component's element | `statusCallback`, `outputTextCallback`, `outputTextActiveControllerCallback` (updates only when the event's controller.id matches the id in its client id) | the registry invokes them |
| Smartphone sensor page | `edu.udayton.udri.smartphone/WebContent/script.js` | 7 switch flags, `webSocket`, two interval handles, a watch handle, the battery listener, 4 thresholds | 7 switch handlers, 4 threshold setters, `getGpsCoords`, `getBatteryLevel`, `batteryListener`, the watch callback | The browser supplies timers, geolocation, the Battery API and the WebSocket. |
| Constants | `commonTopicValues.js`, `commonMessageTypes.js`, `commonPushEventProperties.js` | string constants | none | `window.thTopic` and `window.thType` are modelled in `PushConstants`. The router's topics are their property names. |
| Logging | `logging/logJS.js` | `window.thJSLog` | `logMessage`, `getLoggedMessages` (drain) | the router logs each message |
| Hex input mask | `inputNumbersLettersOnly.js` | none | jQuery mask set-up | DOM |
| Firefox test profile | `gui.integration/firefox_profile/prefs.js` | browser preferences | none | integration tests |

**What is hard.** Each page runs single-threaded, so there is no data race.
The hard part is the order of events:

- Server events arrive one after another on the push socket. Between two
  events, `rc*` remote commands return asynchronously and re-render the page,
  and the re-rendered components register their callbacks again.
- On the phone, timer ticks, geolocation callbacks, `getBattery()` promises and
  the socket handshake all complete between user toggles, in any order.

The registry mutates arrays while iterating over them (`splice` followed by
`i--`). It also keeps the first registration when the same component registers
again. An event runs cleanup and dispatch in a fixed order.

**What makes each component correct.**

- Registry (spec.md sections 3, 4 and 8):
  - At most one registration exists per (topic, uniqueId, componentId).
  - Registering again updates only the subscriber (clientId).
  - `unregister(id)` removes every registration of `id`.
  - Cleanup removes exactly the registrations whose predicate holds.
  - A dispatch invokes exactly the remaining registrations of the topic whose
    filter matches.
  - A malformed filter counts as no filter (spec.md 4.1).
- Router:
  - Every message is routed once.
  - Cleanup runs before dispatch.
  - The request count is decremented after each message, as the comment
    promises.
  - Re-renders for an old active controller must not bring its callbacks back.
- Smartphone page:
  - A reading kind is retrieved only while its switches are on (the setters'
    comments).
  - Timers are not leaked.
  - While a kind is on, its readings are eventually delivered.

## 2. Modules

| Module | Models | State / actions |
|---|---|---|
| `TopicRegistrySpec` | spec.md sections 3 and 4: the registry as a set of <<topic, callback>> pairs | `regs`, `invoked`. Actions: `Register`, `Unregister`, `Event` (cleanup, then filtered dispatch). |
| `TopicCallbackRegistry` | the registry code | `callbackMap`: a function from topics to sequences of TopicCallback records. `invoked`: the callbacks the last event invoked. `lastEvent`. Actions: `registerComponent`, `unregisterComponents`, `performGenericOperations` (the event branch: `handleGenericEvents` with `checkForCleanup`, then `handleRegisteredCallbacks`). `spliceLoop` is the `splice`/`i--` loop, written as a recursive operator. `split` is `String.split("=")`. |
| `MC_Registry` | registry instance | 3 topics, 2 ids, 2 client ids, 5 (or 6) registration descriptors |
| `PushMessageRouter` | the router, the page scripts, the socket life cycle, the request-count workaround, the log buffer | Composes `TopicCallbackRegistry` by `Reg == INSTANCE`. Variables: `page`, `phase` (loading, ready, loaded), `socket`, `transport`, `requestCount`, `rcPending` (outstanding `rc*` re-renders), `thJSLog`, `reloadTimer`, plus the history variables `logged`, `drained` and `routed`. Actions: `RenderRegisters`, `DocumentReady`, `WindowLoad`, `Deliver(m)` (the Atmosphere reconnect test, then `messageRouterFunction`: null, growl or event, with `performGenericOperations`, the page's `handleMessage` and `decrementRequestCount`), `RemoteCommandReturns`, `getLoggedMessages`, `produceSessionTimeoutGrowl`, `TimeoutReload`, `Navigate`. `topicOrder` is the order in which topics first got an array. `checkForCleanup` walks the map with `for...in`, which visits keys in that order. `cleanTopics` and `cleanArray` are that walk. A registration with a cleanup topic and no cleanup filter makes the walk throw a TypeError. Then the throw aborts the rest of the event: the remaining cleanup, the other re-renders, the dispatch, the page handler and the decrement. Atmosphere calls the callback unwrapped, so the error escapes it, but over long-polling the XHR has already reconnected before the callback runs, so the socket survives. |
| `MC_Router` | router instance | 3 topics, 2 controllers, one component, 5 messages (null, growl, three events), 2 registration descriptors |
| `PushConstants` | `commonTopicValues.js`, `commonMessageTypes.js` | The 27 topic values as the local prefix followed by a path, and the two message types. An `ASSUME` checks that the topic values are pairwise distinct, which is what lets the other modules name a topic by its property. |
| `ActiveControllerView` | the active controller's observation count: `outputTextActiveControllerCallback`, the registry (by `INSTANCE`), `activeControllerCleanupFilter`, and the `rcUpdateActiveController` re-render | The registry's variables, plus `shown` (the count element on the page, [ctrl, text]) and `rcQueue` (the remote commands in PrimeFaces' AJAX queue, each pending or holding the response rendered). The server is the environment. `serverActive`, `serverCount` and `channel` hold its active controller, its counts, and the events pushed and not yet routed, in order. Page actions: `Deliver` (cleanup, dispatch to the callbacks, then the re-render request) and `RemoteCommandReturns` (replace the element, run its `registerComponent`). Server actions: `ServerSetsActive`, `ServerCountsObservation` and `ServerRenders`. |
| `MC_View` | view instance | 2 controllers, at most 2 changes of the active one, counts up to 2, client ids `mainForm:activeControllerObsCnt_<id>` |
| `SmartphoneSensor` | `script.js` | Switch flags, socket readyState, live-timer and live-watch counts with "handle names a live one" flags, the battery listener, pending callbacks, sessions, and the kinds delivered since the last toggle. Actions: the 7 switch handlers (each a toggle plus its handler), the three integer setters (`parseInt`, then store if positive), and the asynchronous completions (socket opens or drops, ticks, geolocation and battery callbacks). `batteryLevelChanges(k)` sets the battery level to k percent and runs `batteryListener`. `batteryLevel` is the level, and `listenerReports` holds the (level, threshold) pairs the listener has reported. |

**Abstractions.**

- Strings: a JS string is a sequence of tokens, where `"="` is one token and
  the others are atoms without `=`. `split("=")` is modelled on that
  representation.
- `undefined` and `null` are one model value, `Undefined`. The code compares
  them with `==`, under which they are equal.
- `callback` and `regProps` are left out of the registry: they only shape the
  DOM update.
- Timers and watches are counts. A handle always names the newest timer or
  watch, so every other live one is an orphan that no code can clear.
- Payloads are reduced to their `dataType`.
- Router messages are records with a type and a topic, or `Undefined`. A log
  entry is the number of the message it records, so order and duplicates are
  visible.
- A JS value compared with `==` carries its JS type. The Atmosphere response
  is an object, so `response == 200` is false, as it is in the browser.
- `parseInt` results are one of NaN, 0 and 2, which cover the setters' three
  branches.
- Position deltas are a nondeterministic choice between "send" and "do
  nothing". The "do nothing" outcome is a stutter step.
- A battery level is a whole percent k, so `battery.level` is the double
  nearest k/100. `LevelTimes100Sign(k)` gives the sign of
  `level * 100 - k` as JS computes it. It uses integer arithmetic on the
  53-bit mantissa, and ties round to even. For k in 1..100 it is -1 exactly
  at 29, 57 and 58, as in the browser.

- The observation-count component's registration is on a page outside
  `src/`. `ActiveControllerView` reads its form from the scripts:
  - topic `observationCountUpdated`, which carries the counts;
  - no filter, since the callback tests the controller id itself;
  - no uniqueId, and component id `"activeControllerObsCnt_" + id`, which is
    what `activeControllerCleanupFilter` keeps;
  - cleanup topic `activeControllerChanged`;
  - rendered by `rcUpdateActiveController`, the re-render that
    `handleGenericEvents` requests on that topic.

## 3. Runs

| Run | Checks | Result |
|---|---|---|
| `registry` (`MC_Registry.cfg`) | `TypeOK`, `UniqueRegistration`, `RegistryRefinement` (the code implements `TopicRegistrySpec`) | pass, 24,248 states |
| `registry_malformed_filter` (`MC_Registry_malformed.cfg`) | `MalformedFilterIsNoFilter` (spec.md 4.1) | violation. A filter `controller.id` without `=` fires only when the event lacks `controller.id`. |
| `smartphone` (`MC_Smartphone.cfg`) | `TypeOK`, `LeakBoundedBySessions`, `TimedReadingsDelivered` (liveness) | pass, 30,102 states |
| `registry_asset_cleanup` (`MC_Registry_asset.cfg`) | `CleanupTopicHonoured` | violation, 3 states. A status callback registered with `assetDescriptionCleanupFilter` on `assetRemoved` outlives the `assetRemoved` event, because `handleGenericEvents` cleans up only on controller topics. |
| `router` (`MC_Router.cfg`) | `TypeOK`, `LogDrainedOnceInOrder` (each log entry is handed out at most once, in order) | pass, 1,073,039 states, about 2 minutes |
| `router_decrement` (`MC_Router_decrement.cfg`) | `DecrementAfterMessage` (the comment of `decrementRequestCount`) | violation. The first long-polling message leaves `requestCount` unchanged. |
| `router_cleanup_throw` (`MC_Router_throw.cfg`) | `EventDispatchesMatching` (spec.md 4.1 and 8: an event invokes every remaining callback of its topic whose filter matches) | violation, depth 6. One component registers a cleanup topic and no cleanup filter. A `controllerRemoved` event then throws in `checkForCleanup`. The status callback of the removed controller is not invoked. |
| `smartphone_percent` (`MC_Smartphone_percent.cfg`) | `ReportsOnlyBelowThreshold` (the comment of `batteryListener`: it reports the level only when it is lower than the threshold) | violation. With the threshold at 29, a level of exactly 29 percent is reported, because `0.29 * 100` is `28.999999999999996`. |
| `view` (`MC_View.cfg`) | `TypeOK`, `CountShownIsItsControllers` (an element never shows more than its controller counted), `AtRestShowsActiveController` (at rest, the page shows the active controller's component, and it is registered) | pass, 12,432 states |
| `view_stale_count` (`MC_View_count.cfg`) | `AtRestShowsActiveCount` (at rest, the page shows the active controller's current count) | violation, 7 states. The active controller changes to c2. The server renders the re-render with count 0, then c2 counts one observation. The count event reaches no registration, because c1's was cleaned up and c2's is not registered yet. The response then shows 0. |
| `smartphone_stop` (`MC_Smartphone_stop.cfg`) | `RetrievalStopsWhenDisabled` (the setters' comments) | violation. Switching the sensor off closes the socket but leaves the GPS interval, the watch and the battery listener running. |

**Bounds.**

- Registry:
  - Two registrations of controller c1 sit next to each other on one topic.
    Removing both needs the `i--`.
  - One callback listens on `controllerRemoved` and is also cleaned up by it.
    This exercises the order of cleanup and dispatch.
  - The active-controller topic holds an observation count and a page-wide
    component, so both branches of `activeControllerCleanupFilter` are
    exercised.
  - Two client ids exercise re-registration.
  - Events carry every combination of `controller.id` and `asset.uuid` in
    {c1, c2, undefined}.
  - `MaxCallbacks = 3` bounds the length of a topic's array. No correct run
    reaches it, because each topic has at most 2 distinct keys.
- Smartphone:
  - `MaxToggles = 6` is enough to switch a kind on, then turn the sensor off
    and on again. That is the shortest way to orphan a timer.
  - `MaxPending = 1` caps outstanding callbacks per kind. The setters may
    exceed it, and ticks wait for it.
  - The passing runs use levels {10, 30} around the default threshold 20, so
    the listener both reports and stays quiet. The percent run uses levels
    {29, 80} and lets the user type 29.

- Router:
  - Three topics exercise the three paths of `handleGenericEvents`: a
    controller topic with cleanup (`controllerRemoved`), the topic that also
    re-renders the main content (`activeControllerChanged`), and an asset
    topic that cleans up nothing (`assetRemoved`).
  - `MaxMessages = 3` lets two messages be logged, with a reload or a drain
    between them. `MaxReloads = 1` allows one reload or navigation, after
    which the log must still hand out entries in order. Every page is an
    initial state.
  - `maxRequest` is -1, the PrimeFaces default. Nothing in the repository
    sets it, so Atmosphere's reconnect test short-circuits and the request
    count never matters; no property is stated about it.
  - The throw run has its own descriptor set: the c1 status, plus a
    component on `activeControllerChanged` with cleanup topic
    `controllerRemoved` and no filter. The passing run keeps descriptors that
    all have filters, because `topicOrder` already doubles its state space.

- View: two changes are the fewest in which a response rendered for one
  controller returns after the cleanup of the next change. Counts up to 2
  let a count event race a re-render of the same controller. The client-id
  prefix has no `_`. A prefix with one (a JSF `j_idt` container) would make
  `split("_")[1]` miss the id, and the element would never update.

**Fairness (router).** None is assumed, because no property of the router is a
liveness property. `CHECK_DEADLOCK FALSE` is set because a page whose message
budget is spent, with nothing pending, really stops.

**Fairness (view).** None. Its properties are stated at rest, when every
pushed event is routed and every remote command has returned. The page
stops when the server's bounds are spent, so `CHECK_DEADLOCK FALSE` is set.

**Fairness (smartphone).**

- Weak fairness on the browser's side:
  - The WebSocket handshake completes.
  - A live interval keeps firing.
  - `getCurrentPosition` and `getBattery()` call back.
- None on the user's toggles, and none on the network, which may drop the
  socket. `TimedReadingsDelivered` is therefore conditioned on the socket not
  being closed.
- `CHECK_DEADLOCK FALSE` is set because an idle page really stops: nothing is
  switched on and nothing is pending.

## 4. Plan

Items marked done were done in the first four sittings.

1. **Done.** `TopicRegistrySpec`, `TopicCallbackRegistry` and `MC_Registry`:
   the registry, its refinement, the malformed-filter divergence, and the
   asset cleanup that never runs.
2. **Done.** `SmartphoneSensor`: timer leaks, the stop-retrieval bug, the
   liveness of timed readings, and the minutes setters.
3. **Done.** `PushMessageRouter`: the router over null, growl and event
   messages, re-renders as pending remote commands, the socket life cycle, the
   request-count workaround, and the log buffer.
4. **Done.** `PushConstants`; the `for...in` order of `checkForCleanup` and
   the TypeError of a missing cleanup filter; `setBatteryStatusUpdatePercent`
   and the exact double comparison in `batteryListener`.
5. **Done.** `ActiveControllerView`: the re-render race at
   `handleGenericEvents`, with the server rendering from its state when it
   handles the request.
6. Next:
   - Liveness of re-renders. It needs fairness on AJAX responses, which the
     browser does not promise.
   - On the phone: the first send racing the socket handshake, and form-state
     restoration on reload.

## 5. Not modelled

- The Atmosphere transport (`push.js` line 34), apart from the long-polling
  reconnect test. It is a minified vendored library.
- The DOM effects of the component callbacks, the growl rendering
  (`handleGrowlMessage`), and the input mask. They are pure I/O.
- Which components an `rc*` re-render renders again. The server's pages and
  beans decide that, outside `src/`. `PushMessageRouter` lets a re-render
  register any descriptor. `ActiveControllerView` fixes this for the
  observation-count component alone, from what the scripts show of it.
- The Firefox profile. It is configuration.
- `setGpsPositionUpdateMeters` and `getPositionDelta`. The threshold is
  compared only with a haversine distance, and TLC has no reals or
  trigonometry. The model abstracts that comparison to a choice, so no
  property could tell the thresholds apart.
- `statusCallback` and `outputTextCallback`. Each writes the event's value
  to its element unconditionally, so no property could tell them from a DOM
  assignment. `outputTextActiveControllerCallback` is modelled, because its
  controller-id test decides what the count element shows.
