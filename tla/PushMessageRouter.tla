------------------------- MODULE PushMessageRouter -------------------------
(***************************************************************************)
(* One page of the web GUI between two loads: the push socket, the message *)
(* router of commonPushEventFunctions.js, the page's handleMessage script  *)
(* (assets, comms, channels or system configuration), the JS log buffer of *)
(* logJS.js, and the topic callback registry, composed by INSTANCE.        *)
(*                                                                         *)
(* A page load runs the components' inline registerComponent calls, then   *)
(* $(document).ready (the page's first remote commands), then              *)
(* $(window).load, which connects the socket.  Each message the transport  *)
(* delivers runs messageRouterFunction to completion (the page is single-  *)
(* threaded).  A p:remoteCommand (an rc* call) is an asynchronous re-      *)
(* render: it is pending until its response arrives, and the re-rendered   *)
(* components may register again.  A reload (the session-timeout growl's   *)
(* timer, or the user navigating) unloads the page and starts a fresh      *)
(* one.                                                                    *)
(*                                                                         *)
(* Topics are named by their thTopic property (the values are distinct     *)
(* strings); a log entry is the number of the message it records.          *)
(***************************************************************************)
EXTENDS Integers, Sequences, SequencesExt, PushConstants

CONSTANTS
  Topics, Ids, ComponentIds, ClientIds, ControllerIdKey, AssetUuidKey,
  Descriptors, Undefined, MaxCallbacks,   \* as in TopicCallbackRegistry
  Messages,      \* messages the server may push; Undefined is a null message
  MaxRequest,    \* the Atmosphere request's maxRequest
  MaxMessages,   \* bound on messages delivered
  MaxReloads     \* bound on page reloads

VARIABLES
  callbackMap, invoked, lastEvent,   \* the registry (TopicCallbackRegistry)
  topicOrder,    \* the topics of callbackMap in the order for...in visits them
  page,          \* the page loaded, named by its handleMessage script
  phase,         \* "loading", "ready" (document ready), "loaded" (window load)
  socket,        \* "none", "open", "closed" (maxRequest reached)
  transport,     \* "websocket" or "long-polling" once connected
  requestCount,  \* the Atmosphere request's requestCount
  rcPending,     \* remote commands requested and not yet answered
  thJSLog,       \* window.thJSLog
  logged,        \* history: every entry ever logged, in order
  drained,       \* history: every entry getLoggedMessages returned, in order
  routed,        \* messages delivered so far (numbers the log entries)
  reloadTimer,   \* the 5 s reload timeout of produceSessionTimeoutGrowl is set
  reloads        \* page reloads so far

regVars == <<callbackMap, invoked, lastEvent, topicOrder>>
vars == <<callbackMap, invoked, lastEvent, topicOrder, page, phase, socket, transport, requestCount,
          rcPending, thJSLog, logged, drained, routed, reloadTimer, reloads>>

\* window.thTopic.controllerUpdated ... activeControllerChanged.
ControllerTopics ==
  {"controllerUpdated", "controllerRemoved", "controllerAdded", "activeControllerChanged"}

Reg == INSTANCE TopicCallbackRegistry

\* The event topics are thTopic properties.
ASSUME Topics \subseteq TopicNames

isMessageEvent(type) == type = eventMessageType
isMessageGrowl(type) == type = growlMessageType

Pages == {"assets", "comms", "channels", "config"}

-----------------------------------------------------------------------------
(* Remote commands the scripts request, as sets of rc* names.              *)

\* The rc* calls of handleGenericEvents for a topic.
GenericRemoteCommands(topic) ==
  IF topic \in ControllerTopics
    THEN {"rcUpdateSidebar"}
         \cup (IF topic \notin {"controllerAdded", "controllerRemoved"}
                 THEN {"rcUpdateActiveController"} ELSE {})
         \cup (IF topic = "activeControllerChanged" THEN {"rcUpdateMainContent"} ELSE {})
    ELSE {}

\* handleMessage of pushEventAssetMessages.js.
AssetsHandleMessage(topic) ==
  CASE topic \in {"assetAdded", "assetUpdated"} ->
         {"rcUpdateAssetsSideList", "rcUpdateAssetsList", "rcUpdateAssetCommandControl"}
    [] topic = "assetActivationStatusUpdated" -> {"rcUpdateAssetsList"}
    [] topic = "assetRemoved" ->
         {"rcUpdateAssetsList", "rcUpdateAssetsSideList", "rcUpdateAssetCommandControl",
          "rcUpdateObservations"}
    [] topic = "assetLocationUpdated" -> {"rcUpdateAssetsLocation"}
    [] topic = "assetTypesUpdated" -> {"rcUpdateAssetTypes"}
    [] topic = "assetCommandSynced" -> {"rcUpdateAssetCommandControl"}
    [] topic = "obsStoreUpdated" -> {"rcUpdateObservations"}
    [] topic \in {"configModelUpdated", "metaModelUpdated"} -> {"rcUpdateConfigDialog"}
    [] topic = "assetGetCommandResponseReceived" -> {"rcUpdateGetCommandWithResponse"}
    [] OTHER -> {}

\* handleMessage of pushEventCommsMessages.js (two independent ifs).
CommsHandleMessage(topic) ==
  (IF topic = "commsLayerUpdated" THEN {"rcUpdateComms"} ELSE {})
  \cup (IF topic = "commsTypesUpdated" THEN {"rcUpdateLayers"} ELSE {})

\* handleMessage of pushEventChannelMessages.js.
ChannelsHandleMessage(topic) ==
  IF topic \in {"channelRemoved", "channelUpdated", "controllerUpdated"}
    THEN {"rcUpdateChannels"} ELSE {}

\* handleMessage of pushEventConfigMessages.js.
ConfigHandleMessage(topic) ==
  CASE topic \in {"bundleInfoReceived", "bundleInfoRemoved", "bundleStatusUpdated"} ->
         {"rcUpdateBundleTable"}
    [] topic = "configDisplayModelsUpdated" -> {"rcUpdateConfigTable", "rcUpdateFactoryConfigTable"}
    [] OTHER -> {}

handleMessage(p, topic) ==
  CASE p = "assets"   -> AssetsHandleMessage(topic)
    [] p = "comms"    -> CommsHandleMessage(topic)
    [] p = "channels" -> ChannelsHandleMessage(topic)
    [] p = "config"   -> ConfigHandleMessage(topic)

\* The rc* calls of the page scripts' $(document).ready handlers (the
\* channels script has none).
AssetsDocumentReady == {"rcUpdateAssetsList", "rcUpdateAssetsSideList"}
CommsDocumentReady == {"rcUpdateComms"}
ConfigDocumentReady == {"rcUpdateBundleTable", "rcUpdateConfigTable", "rcUpdateFactoryConfigTable"}

DocumentReadyCommands(p) ==
  CASE p = "assets"   -> AssetsDocumentReady
    [] p = "comms"    -> CommsDocumentReady
    [] p = "channels" -> {}
    [] p = "config"   -> ConfigDocumentReady

RemoteCommands == UNION { GenericRemoteCommands(m.topic) \cup handleMessage(p, m.topic) :
                            m \in Messages \ {Undefined}, p \in Pages }
                  \cup UNION { DocumentReadyCommands(p) : p \in Pages }

-----------------------------------------------------------------------------
(* The transport and the request-count workaround.                         *)

\* Atmosphere's long-polling reconnect test "-1 == maxRequest ||
\* requestCount++ < maxRequest": the count is only taken (and incremented)
\* when maxRequest is not -1.  A message is handed on only when it passes.
ReconnectAllowed(count) == MaxRequest = -1 \/ count < MaxRequest
CountAfterReconnect(count) == IF MaxRequest = -1 THEN count ELSE count + 1

\* socket.connection.response: $.atmosphere.subscribe returns the request,
\* whose response property is the AtmosphereResponse object.
AtmosphereResponse == [jsType |-> "object", status |-> 200, state |-> "messageReceived"]

\* JS "x == n" for a number n, x a JS value tagged with its typeof: an
\* object converts to "[object Object]", which is NaN as a number, and NaN
\* equals nothing.
LooseEqualsNumber(x, n) == x.jsType = "number" /\ x.value = n

\* decrementRequestCount(messageSocket): the request count it leaves.
decrementRequestCount(count) ==
  IF LooseEqualsNumber(AtmosphereResponse, 200) THEN count - 1 ELSE count

-----------------------------------------------------------------------------
(* The log buffer of logJS.js.                                             *)

logMessage(entry) ==
  /\ thJSLog' = Append(thJSLog, entry)
  /\ logged' = Append(logged, entry)

\* Mutant: getLoggedMessages hands out the copy but keeps the buffer.
getLoggedMessagesKeepsBuffer ==
  /\ drained' = drained \o thJSLog
  /\ UNCHANGED <<regVars, page, phase, socket, transport, requestCount, rcPending,
                 thJSLog, logged, routed, reloadTimer, reloads>>

\* getLoggedMessages: copy the buffer, hand the copy out, empty the buffer.
getLoggedMessages ==
  /\ drained' = drained \o thJSLog
  /\ thJSLog' = <<>>
  /\ UNCHANGED <<regVars, page, phase, socket, transport, requestCount, rcPending,
                 logged, routed, reloadTimer, reloads>>

-----------------------------------------------------------------------------
(* The registry as the router drives it.                                   *)

\* registerComponent; a topic's first registration creates its array, and
\* for...in visits the arrays in the order they were created.
register(c, d) ==
  /\ Reg!registerComponent(c, d)
  /\ topicOrder' = IF d.topic \in DOMAIN callbackMap THEN topicOrder
                                                    ELSE Append(topicOrder, d.topic)

\* The inner loop of checkForCleanup over one array from index i: splice
\* each callback of the fired topic whose filter holds, and stop with
\* "threw" at the first one whose cleanupFilter is undefined (calling it
\* throws a TypeError), leaving it and the rest of the array as they are.
RECURSIVE cleanArray(_, _, _, _)
cleanArray(arr, i, topic, props) ==
  IF i > Len(arr) THEN [arr |-> arr, threw |-> FALSE]
  ELSE IF arr[i].cleanupTopic # topic THEN cleanArray(arr, i + 1, topic, props)
  ELSE IF arr[i].cleanupFilter = Undefined THEN [arr |-> arr, threw |-> TRUE]
  ELSE IF Reg!CleanupFilterHolds(props, arr[i])
         THEN cleanArray(RemoveAt(arr, i), i, topic, props)
         ELSE cleanArray(arr, i + 1, topic, props)

\* The outer for...in loop of checkForCleanup over the topics still to
\* visit, in order; a throw ends the whole pass.
RECURSIVE cleanTopics(_, _, _, _)
cleanTopics(map, order, topic, props) ==
  IF order = <<>> THEN [map |-> map, threw |-> FALSE]
  ELSE LET r == cleanArray(map[Head(order)], 1, topic, props)
           m == [map EXCEPT ![Head(order)] = r.arr]
       IN  IF r.threw THEN [map |-> m, threw |-> TRUE]
                      ELSE cleanTopics(m, Tail(order), topic, props)

-----------------------------------------------------------------------------
(* Routing one message.                                                    *)

\* An event whose cleanup pass throws: handleGenericEvents has requested
\* rcUpdateSidebar and spliced what the pass reached; the TypeError then
\* skips the rest of the router (the other rc* calls, the dispatch, the
\* log, handleMessage and decrementRequestCount).  Atmosphere calls the
\* callback unwrapped, so the error escapes it; over long-polling the XHR
\* has already reconnected before the callback, so the socket stays up.
CleanupThrew(m, pass) ==
  /\ callbackMap' = pass.map
  /\ invoked' = <<>>
  /\ lastEvent' = [topic |-> m.topic, props |-> m.props]
  /\ rcPending' = rcPending \cup {"rcUpdateSidebar"}
  /\ UNCHANGED <<topicOrder, thJSLog, logged>>

\* The checkForCleanup pass an event message runs (none off controller
\* topics).
CleanupPass(m) ==
  IF m.topic \in ControllerTopics THEN cleanTopics(callbackMap, topicOrder, m.topic, m.props)
                                 ELSE [map |-> callbackMap, threw |-> FALSE]

\* performGenericOperations followed, for an event, by the page's
\* handleMessage: a growl is logged (its rendering is DOM only); an event
\* runs the registry's cleanup and dispatch, requests the generic and the
\* page's re-renders, and is logged; any other type does nothing.
performGenericOperations(m, entry) ==
  CASE isMessageGrowl(m.type) ->
         /\ logMessage(entry)
         /\ UNCHANGED <<regVars, rcPending>>
    [] isMessageEvent(m.type) /\ CleanupPass(m).threw -> CleanupThrew(m, CleanupPass(m))
    [] isMessageEvent(m.type) /\ ~CleanupPass(m).threw ->
         /\ Reg!performGenericOperations(m.topic, m.props)
         /\ rcPending' = rcPending \cup GenericRemoteCommands(m.topic)
                                   \cup handleMessage(page, m.topic)
         /\ logMessage(entry)
         /\ UNCHANGED topicOrder
    [] OTHER -> UNCHANGED <<regVars, rcPending, thJSLog, logged>>

\* messageRouterFunction(message) with the request count "count" the
\* transport left: route a non-null message, then decrementRequestCount.
messageRouterFunction(m, count, entry) ==
  /\ IF m # Undefined
       THEN performGenericOperations(m, entry)
       ELSE UNCHANGED <<regVars, rcPending, thJSLog, logged>>
  /\ requestCount' = IF m # Undefined /\ isMessageEvent(m.type) /\ CleanupPass(m).threw
                       THEN count
                       ELSE decrementRequestCount(count)

\* The transport delivers message m: PrimeFaces' onMessage parses it and
\* calls the router.  Over long-polling the reconnect test comes first and
\* a failed test closes the connection instead ("maxRequest reached").
Deliver(m) ==
  /\ phase = "loaded" /\ socket = "open"
  /\ routed < MaxMessages
  /\ routed' = routed + 1
  /\ IF transport = "long-polling" /\ ~ReconnectAllowed(requestCount)
       THEN /\ socket' = "closed"
            /\ requestCount' = CountAfterReconnect(requestCount)
            /\ UNCHANGED <<regVars, rcPending, thJSLog, logged>>
       ELSE /\ UNCHANGED socket
            /\ messageRouterFunction(m,
                 IF transport = "long-polling" THEN CountAfterReconnect(requestCount)
                                               ELSE requestCount,
                 routed')
  /\ UNCHANGED <<page, phase, transport, drained, reloadTimer, reloads>>

-----------------------------------------------------------------------------
(* The page's life cycle.                                                  *)

\* A fresh page: window.thEvent.callbackMap and window.thJSLog are empty.
Init ==
  /\ Reg!Init
  /\ topicOrder = <<>>
  /\ page \in Pages
  /\ phase = "loading"
  /\ socket = "none" /\ transport = "none" /\ requestCount = 0
  /\ rcPending = {}
  /\ thJSLog = <<>> /\ logged = <<>> /\ drained = <<>>
  /\ routed = 0
  /\ reloadTimer = FALSE /\ reloads = 0

\* A component rendered with the page runs its inline registerComponent.
RenderRegisters ==
  /\ phase = "loading"
  /\ \E c \in ClientIds, d \in Descriptors : register(c, d)
  /\ UNCHANGED <<page, phase, socket, transport, requestCount, rcPending,
                 thJSLog, logged, drained, routed, reloadTimer, reloads>>

\* $(document).ready: the handleMessage check of messageSocketFunctionCheck.js
\* (every page modelled defines it, so no alert) and the page script's
\* first remote commands.
DocumentReady ==
  /\ phase = "loading"
  /\ phase' = "ready"
  /\ rcPending' = DocumentReadyCommands(page)
  /\ UNCHANGED <<regVars, page, socket, transport, requestCount, thJSLog, logged,
                 drained, routed, reloadTimer, reloads>>

\* $(window).load: messageSocket.connect() subscribes a new Atmosphere
\* request (requestCount 0) over websocket, or its long-polling fallback.
WindowLoad ==
  /\ phase = "ready"
  /\ phase' = "loaded"
  /\ socket' = "open"
  /\ transport' \in {"websocket", "long-polling"}
  /\ requestCount' = 0
  /\ UNCHANGED <<regVars, page, rcPending, thJSLog, logged, drained, routed,
                 reloadTimer, reloads>>

\* The response to remote command rc arrives and its components re-render;
\* each may run registerComponent again.
RemoteCommandReturns(rc) ==
  /\ rc \in rcPending
  /\ rcPending' = rcPending \ {rc}
  /\ \/ UNCHANGED regVars
     \/ \E c \in ClientIds, d \in Descriptors : register(c, d)
  /\ UNCHANGED <<page, phase, socket, transport, requestCount, thJSLog, logged,
                 drained, routed, reloadTimer, reloads>>

\* produceSessionTimeoutGrowl: a timed growl and setTimeout(reload, 5000).
produceSessionTimeoutGrowl ==
  /\ phase = "loaded"
  /\ ~reloadTimer
  /\ reloadTimer' = TRUE
  /\ UNCHANGED <<regVars, page, phase, socket, transport, requestCount, rcPending,
                 thJSLog, logged, drained, routed, reloads>>

\* The window unloads (messageSocket.disconnect()) and page p loads afresh:
\* every window variable starts over and pending remote commands are lost.
Unload(p) ==
  /\ reloads < MaxReloads
  /\ reloads' = reloads + 1
  /\ page' = p
  /\ phase' = "loading"
  /\ socket' = "none" /\ transport' = "none" /\ requestCount' = 0
  /\ callbackMap' = <<>> /\ invoked' = <<>> /\ lastEvent' = Undefined /\ topicOrder' = <<>>
  /\ rcPending' = {}
  /\ thJSLog' = <<>>
  /\ reloadTimer' = FALSE
  /\ UNCHANGED <<logged, drained, routed>>

\* location.reload(true) when the session-timeout timer fires.
TimeoutReload == reloadTimer /\ Unload(page)

\* The user follows a link or refreshes.
Navigate == \E p \in Pages : Unload(p)

Next ==
  \/ RenderRegisters
  \/ DocumentReady
  \/ WindowLoad
  \/ \E m \in Messages : Deliver(m)
  \/ \E rc \in rcPending : RemoteCommandReturns(rc)
  \/ getLoggedMessages
  \/ produceSessionTimeoutGrowl
  \/ TimeoutReload
  \/ Navigate

Spec == Init /\ [][Next]_vars

-----------------------------------------------------------------------------
(* Properties.                                                             *)

TypeOK ==
  /\ Reg!TypeOK
  /\ topicOrder \in Seq(Topics)
  /\ page \in Pages
  /\ phase \in {"loading", "ready", "loaded"}
  /\ socket \in {"none", "open", "closed"}
  /\ transport \in {"none", "websocket", "long-polling"}
  /\ requestCount \in Int
  /\ rcPending \subseteq RemoteCommands
  /\ \A s \in {thJSLog, logged, drained} : s \in Seq(1..MaxMessages)
  /\ routed \in 0..MaxMessages
  /\ reloadTimer \in BOOLEAN
  /\ reloads \in 0..MaxReloads

\* logJS.js: getLoggedMessages hands out each logged entry at most once and
\* in the order logMessage recorded it, across messages, drains and page
\* reloads; the buffer always holds the newest entries logged.
LogDrainedOnceInOrder ==
  /\ IsSuffix(thJSLog, logged)
  /\ IsSorted(drained \o thJSLog, <)

\* spec.md 4.1 and 8: a dispatch invokes exactly the registrations of the
\* fired topic whose filter matches, and cleanup only removes those whose
\* predicate holds.  So right after an event message, the callbacks
\* messageRouterFunction invoked are exactly the matching ones the topic's
\* array still holds, whatever other registrations exist.
EventDispatchesMatching ==
  lastEvent # Undefined =>
    ToSet(invoked) =
      { cb \in IF lastEvent.topic \in DOMAIN callbackMap
                 THEN ToSet(callbackMap[lastEvent.topic]) ELSE {} :
          Reg!SpecFilterMatches(cb, lastEvent.props) }

\* The comment of decrementRequestCount: each message received over
\* long-polling decreases the request counter by 1, to prevent disconnects.
DecrementAfterMessage ==
  [][ routed' = routed + 1 /\ transport = "long-polling" /\ socket' = "open"
        => requestCount' = requestCount - 1 ]_vars

=============================================================================
