------------------------ MODULE TopicCallbackRegistry ------------------------
(***************************************************************************)
(* The client-side topic callback registry of the web GUI                  *)
(* (push/common/commonPushEventFunctions.js, with the cleanup filters of   *)
(* commonControllerFunctions.js and devices/commonAssetFunctions.js).      *)
(*                                                                         *)
(* window.thEvent.callbackMap is a function from the topics that have an   *)
(* array to that array, in insertion order.  A JS string is a sequence of  *)
(* tokens: "=" and atoms (property names, ids) that contain no "=";        *)
(* String.split("=") is modelled on that representation.  JS undefined and *)
(* null are the model value Undefined.  The callback function and regProps *)
(* of a TopicCallback only shape the DOM update and are left out; a        *)
(* dispatch records which callbacks were invoked, in order.                *)
(***************************************************************************)
EXTENDS Naturals, Sequences, SequencesExt, TLC

CONSTANTS
  Topics,            \* values of window.thTopic
  ControllerTopics,  \* controllerUpdated/Removed/Added, activeControllerChanged
  Ids,               \* controller ids and asset uuids
  ComponentIds,      \* component ids of single-instance components
  ClientIds,         \* JSF client ids of rendered components
  ControllerIdKey,   \* "controller.id"   (window.thEventProps.ControllerId)
  AssetUuidKey,      \* "asset.uuid"      (window.thEventProps.AssetUuid)
  Descriptors,       \* what a page passes to registerComponent, less clientId
  Undefined,         \* JS undefined / null
  MaxCallbacks       \* bound on the length of one topic's array

PropKeys == {ControllerIdKey, AssetUuidKey}

\* "activeControllerObsCnt_" + controllerId
ObsCnt(id) == <<"activeControllerObsCnt_", id>>

CleanupFilters ==
  {"controllerRemovedFilter", "activeControllerCleanupFilter", "assetDescriptionCleanupFilter"}

\* The message properties of an event.
Props == [PropKeys -> Ids \cup {Undefined}]

VARIABLES
  callbackMap,   \* window.thEvent.callbackMap
  invoked,       \* callbacks invoked by the most recent event, in order
  lastEvent      \* [topic, props] when the last step was an event, else Undefined

vars == <<callbackMap, invoked, lastEvent>>

TopicCallback(clientId, d) ==
  [clientId |-> clientId, uniqueId |-> d.uniqueId, componentId |-> d.componentId,
   filter |-> d.filter, cleanupFilter |-> d.cleanupFilter, cleanupTopic |-> d.cleanupTopic]

TopicCallbacks == { TopicCallback(c, d) : c \in ClientIds, d \in Descriptors }

\* A registration names one of the cleanup filter functions or none.  The
\* cleanup pass of this module is the one that does not throw: a descriptor
\* with a cleanup topic and no filter makes checkForCleanup throw a
\* TypeError, which PushMessageRouter models.
ASSUME \A d \in Descriptors : d.cleanupFilter \in CleanupFilters \cup {Undefined}

-----------------------------------------------------------------------------
(* Cleanup filters: TRUE when the callback is to be removed.               *)

controllerRemovedFilter(props, cb) == cb.uniqueId = props[ControllerIdKey]

activeControllerCleanupFilter(props, cb) ==
  /\ cb.uniqueId # props[ControllerIdKey]
  /\ cb.componentId # ObsCnt(props[ControllerIdKey])

assetDescriptionCleanupFilter(props, cb) == cb.uniqueId = props[AssetUuidKey]

CleanupFilterHolds(props, cb) ==
  CASE cb.cleanupFilter = "controllerRemovedFilter"       -> controllerRemovedFilter(props, cb)
    [] cb.cleanupFilter = "activeControllerCleanupFilter" -> activeControllerCleanupFilter(props, cb)
    [] cb.cleanupFilter = "assetDescriptionCleanupFilter" -> assetDescriptionCleanupFilter(props, cb)

-----------------------------------------------------------------------------
(* Filters.                                                                *)

\* s.split("="): the maximal runs of s between "=" tokens.
RECURSIVE split(_)
split(s) ==
  IF \A i \in 1..Len(s) : s[i] # "="
    THEN <<s>>
    ELSE LET i == SelectInSeq(s, LAMBDA c : c = "=")
         IN  <<SubSeq(s, 1, i - 1)>> \o split(SubSeq(s, i + 1, Len(s)))

\* props[piece]: only a piece that is one property name has a value.
PropOf(props, piece) ==
  IF Len(piece) = 1 /\ piece[1] \in PropKeys THEN props[piece[1]] ELSE Undefined

\* props[key] == value, for a property value and a split piece or undefined.
LooseEquals(pv, fv) ==
  IF pv = Undefined \/ fv = Undefined THEN pv = fv ELSE fv = <<pv>>

\* The test handleRegisteredCallbacks applies before invoking a callback.
filterFires(cb, props) ==
  IF cb.filter \in {Undefined, <<>>}
    THEN TRUE
    ELSE LET filterPair == split(cb.filter)
             filterValue == IF Len(filterPair) >= 2 THEN filterPair[2] ELSE Undefined
         IN  LooseEquals(PropOf(props, filterPair[1]), filterValue)

\* The filter semantics of spec.md 4.1: a "key=value" filter compares
\* props[key] with value; anything else counts as no filter.
WellFormed(f) ==
  /\ f \notin {Undefined, <<>>}
  /\ \E i \in 1..Len(f) : /\ f[i] = "="
                          /\ \A j \in 1..Len(f) : f[j] = "=" => j = i
                          /\ i > 1 /\ i < Len(f)

SpecFilterMatches(cb, props) ==
  WellFormed(cb.filter) =>
    LET p == split(cb.filter) IN LooseEquals(PropOf(props, p[1]), p[2])

-----------------------------------------------------------------------------
(* Array helpers.                                                          *)

\* Mutant: the loop splices without stepping i back (no "i--").
RECURSIVE spliceLoopNoStepBack(_, _, _)
spliceLoopNoStepBack(arr, i, doomed) ==
  IF i > Len(arr) THEN arr
  ELSE IF arr[i] \in doomed
         THEN spliceLoopNoStepBack(RemoveAt(arr, i), i + 1, doomed)
         ELSE spliceLoopNoStepBack(arr, i + 1, doomed)

\* The loop of unregisterComponents and checkForCleanup: walk the array,
\* splice(i, 1) each element in doomed and step i back over the gap.
RECURSIVE spliceLoop(_, _, _)
spliceLoop(arr, i, doomed) ==
  IF i > Len(arr) THEN arr
  ELSE IF arr[i] \in doomed
         THEN spliceLoop(RemoveAt(arr, i), i, doomed)
         ELSE spliceLoop(arr, i + 1, doomed)

\* Mutant: the search loop starts at the second element (i = 1).
findCallBackFromSecond(arr, uniqueId, componentId) ==
  SelectInSubSeq(arr, 2, Len(arr), LAMBDA cb : cb.uniqueId = uniqueId /\ cb.componentId = componentId)

\* Index of the callback with this uniqueId and componentId, 0 for none
\* (the code returns -1).
findCallBackNeedingUpdate(arr, uniqueId, componentId) ==
  SelectInSeq(arr, LAMBDA cb : cb.uniqueId = uniqueId /\ cb.componentId = componentId)

-----------------------------------------------------------------------------
(* Operations.                                                             *)

Init ==
  /\ callbackMap = <<>>
  /\ invoked = <<>>
  /\ lastEvent = Undefined

\* Mutant: the append moved after the if/else, so it also runs when the
\* pair was found (appending the updated entry, or undefined when the
\* clientId was already current).
registerComponentAppendAfterIf(clientId, d) ==
  LET topic == d.topic
      eventReg == TopicCallback(clientId, d)
  IN
  /\ IF topic \notin DOMAIN callbackMap
       THEN callbackMap' = (topic :> <<eventReg>>) @@ callbackMap
       ELSE LET cbs == callbackMap[topic]
                index == findCallBackNeedingUpdate(cbs, d.uniqueId, d.componentId)
                updated == IF index > 0 THEN [cbs EXCEPT ![index].clientId = clientId] ELSE cbs
                appended == CASE index = 0                      -> eventReg
                              [] cbs[index].clientId # clientId -> updated[index]
                              [] OTHER                          -> Undefined
            IN  /\ Len(cbs) < MaxCallbacks
                /\ callbackMap' = [callbackMap EXCEPT ![topic] = Append(updated, appended)]
  /\ lastEvent' = Undefined
  /\ UNCHANGED invoked

registerComponent(clientId, d) ==
  LET topic == d.topic
      eventReg == TopicCallback(clientId, d)
  IN
  /\ IF topic \notin DOMAIN callbackMap
       THEN callbackMap' = (topic :> <<eventReg>>) @@ callbackMap
       ELSE LET cbs == callbackMap[topic]
                index == findCallBackNeedingUpdate(cbs, d.uniqueId, d.componentId)
            IN  IF index > 0
                  THEN callbackMap' = [callbackMap EXCEPT ![topic][index].clientId = clientId]
                  ELSE /\ Len(cbs) < MaxCallbacks
                       /\ callbackMap' = [callbackMap EXCEPT ![topic] = Append(cbs, eventReg)]
  /\ lastEvent' = Undefined
  /\ UNCHANGED invoked

unregisterComponents(uniqueIdToRemove) ==
  /\ callbackMap' =
       [t \in DOMAIN callbackMap |->
          spliceLoop(callbackMap[t], 1,
                     {cb \in ToSet(callbackMap[t]) : cb.uniqueId = uniqueIdToRemove})]
  /\ lastEvent' = Undefined
  /\ UNCHANGED invoked

\* The callback map after checkForCleanup(topic, props).
checkForCleanup(map, topic, props) ==
  [t \in DOMAIN map |->
     spliceLoop(map[t], 1,
                {cb \in ToSet(map[t]) : cb.cleanupTopic = topic /\ CleanupFilterHolds(props, cb)})]

\* The callback map after handleGenericEvents: the cleanup pass runs for
\* the four controller topics only (the rc* remote commands it also fires
\* re-render the page and are not registry state).
handleGenericEvents(map, topic, props) ==
  IF topic \in ControllerTopics THEN checkForCleanup(map, topic, props) ELSE map

\* The callbacks handleRegisteredCallbacks(topic, props) invokes, in order.
handleRegisteredCallbacks(map, topic, props) ==
  IF topic \notin DOMAIN map
    THEN <<>>
    ELSE SelectSeq(map[topic], LAMBDA cb : filterFires(cb, props))

\* performGenericOperations on an event message: generic handling, then the
\* registered callbacks of the topic against the cleaned-up map.
performGenericOperations(topic, props) ==
  LET cleaned == handleGenericEvents(callbackMap, topic, props)
  IN  /\ callbackMap' = cleaned
      /\ invoked' = handleRegisteredCallbacks(cleaned, topic, props)
      /\ lastEvent' = [topic |-> topic, props |-> props]

Next ==
  \/ \E c \in ClientIds, d \in Descriptors : registerComponent(c, d)
  \/ \E id \in Ids : unregisterComponents(id)
  \/ \E t \in Topics, props \in Props : performGenericOperations(t, props)

Spec == Init /\ [][Next]_vars

-----------------------------------------------------------------------------
(* Properties.                                                             *)

TypeOK ==
  /\ DOMAIN callbackMap \subseteq Topics
  /\ \A t \in DOMAIN callbackMap : callbackMap[t] \in Seq(TopicCallbacks)
  /\ invoked \in Seq(TopicCallbacks)

\* spec.md 3: at most one registration per (topic, uniqueId, componentId);
\* registerComponent keeps this only because findCallBackNeedingUpdate
\* finds every earlier registration of the pair.
UniqueRegistration ==
  \A t \in DOMAIN callbackMap : \A i, j \in 1..Len(callbackMap[t]) :
     /\ callbackMap[t][i].uniqueId = callbackMap[t][j].uniqueId
     /\ callbackMap[t][i].componentId = callbackMap[t][j].componentId
     => i = j

\* The registry as the set of <<topic, callback>> pairs it holds.
RegSet == UNION { { <<t, cb>> : cb \in ToSet(callbackMap[t]) } : t \in DOMAIN callbackMap }

Abstract == INSTANCE TopicRegistrySpec
  WITH regs <- RegSet, invoked <- ToSet(invoked),
       CleanupTopics <- ControllerTopics, Callbacks <- TopicCallbacks,
       Matches <- SpecFilterMatches, CleanupHolds <- CleanupFilterHolds

\* The array-and-splice registry of commonPushEventFunctions.js implements
\* the set-level registry of spec.md: every register, unregister and event
\* step (cleanup pass, then filtered dispatch) is a step of TopicRegistrySpec.
RegistryRefinement == Abstract!Spec

\* spec.md 4.1: a filter that is not of the form key=value is treated as no
\* filter, so right after an event every such callback of its topic has
\* fired, whatever the event's properties.
MalformedFilterIsNoFilter ==
  (lastEvent # Undefined /\ lastEvent.topic \in DOMAIN callbackMap) =>
    \A cb \in ToSet(callbackMap[lastEvent.topic]) :
       (cb.filter \notin {Undefined, <<>>} /\ ~WellFormed(cb.filter)) => cb \in ToSet(invoked)

\* assetDescriptionCleanupFilter (commonAssetFunctions.js) returns "true if
\* the topic callback should be removed": right after an event, no callback
\* whose cleanupTopic is that event's topic and whose cleanup filter holds
\* for its properties is still registered.
CleanupTopicHonoured ==
  lastEvent # Undefined =>
    \A t \in DOMAIN callbackMap : \A cb \in ToSet(callbackMap[t]) :
       ~(cb.cleanupTopic = lastEvent.topic /\ CleanupFilterHolds(lastEvent.props, cb))
=============================================================================
