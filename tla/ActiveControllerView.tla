------------------------ MODULE ActiveControllerView ------------------------
(***************************************************************************)
(* The active controller's observation count on a web GUI page: the        *)
(* pushUpdateOutputText component whose callback is                        *)
(* outputTextActiveControllerCallback (pushUpdateOutputText.js), the       *)
(* registry it registers with (TopicCallbackRegistry, by INSTANCE), the    *)
(* cleanup it gets on activeControllerChanged (activeControllerCleanupFilter *)
(* of commonControllerFunctions.js), and the rcUpdateActiveController re-  *)
(* render that handleGenericEvents requests for that topic.                *)
(*                                                                         *)
(* The server is the environment.  It changes the active controller and    *)
(* counts observations, and it pushes one event for each change, in order, *)
(* on the page's push connection.  It renders a remote command's response  *)
(* from its state when it handles the request.  PrimeFaces' AJAX queue     *)
(* sends one remote command at a time, in the order requested.  A          *)
(* response replaces the component's element and runs its inline           *)
(* registerComponent.  The component registers on observationCountUpdated  *)
(* with no filter (the callback tests the controller id itself), no        *)
(* uniqueId, component id "activeControllerObsCnt_" + id, and cleanup on    *)
(* activeControllerChanged.  The page shows one such element,              *)
(* [ctrl, text], whose client id ends in that component id.                *)
(***************************************************************************)
EXTENDS Integers, Sequences, SequencesExt, PushConstants

CONSTANTS
  Controllers,      \* controller ids
  ClientIdPrefix,   \* the naming-container prefix of the client id, as tokens
  ControllerIdKey,  \* "controller.id"
  AssetUuidKey,     \* "asset.uuid"
  Undefined,        \* JS undefined / null
  MaxChanges,       \* bound on active-controller changes
  MaxCount          \* bound on each controller's observation count

VARIABLES
  callbackMap, invoked, lastEvent,  \* the registry (TopicCallbackRegistry)
  serverActive,  \* the server's active controller
  serverCount,   \* the server's observation count of each controller
  channel,       \* events pushed and not yet routed, in order
  rcQueue,       \* rcUpdateActiveController calls: Pending, or the response rendered
  shown,         \* the count element on the page: [ctrl, text]
  changes        \* active-controller changes so far

vars == <<callbackMap, invoked, lastEvent, serverActive, serverCount, channel, rcQueue,
          shown, changes>>
regVars == <<callbackMap, invoked, lastEvent>>

\* A remote command sent and not yet handled by the server.
Pending == Undefined

\* "activeControllerObsCnt_" + controllerId, the component id.
ObsCntId(c) == <<"activeControllerObsCnt_", c>>

\* The client id of the component of controller c: the prefix, then the
\* component id with its "_" as a token of its own.
ClientIdOf(c) == ClientIdPrefix \o <<"activeControllerObsCnt", "_", c>>

\* The registerComponent call of the component rendered for controller c.
ObsCntDescriptor(c) ==
  [topic |-> "observationCountUpdated", uniqueId |-> Undefined, componentId |-> ObsCntId(c),
   filter |-> <<>>, cleanupFilter |-> "activeControllerCleanupFilter",
   cleanupTopic |-> "activeControllerChanged"]

ViewTopics == {"activeControllerChanged", "observationCountUpdated"}

\* window.thTopic.controllerUpdated ... activeControllerChanged.
ControllerTopics ==
  {"controllerUpdated", "controllerRemoved", "controllerAdded", "activeControllerChanged"}
ASSUME ViewTopics \subseteq TopicNames

Reg == INSTANCE TopicCallbackRegistry
  WITH Topics <- ViewTopics,
       ControllerTopics <- ControllerTopics,
       Ids <- Controllers, ComponentIds <- {}, ClientIds <- {ClientIdOf(c) : c \in Controllers},
       Descriptors <- {ObsCntDescriptor(c) : c \in Controllers},
       MaxCallbacks <- Cardinality(Controllers)

EventProps(c) == (ControllerIdKey :> c) @@ (AssetUuidKey :> Undefined)

-----------------------------------------------------------------------------
(* The callback and the re-render request.                                 *)

\* s.split(sep) for a string of tokens.
RECURSIVE splitOn(_, _)
splitOn(s, sep) ==
  LET i == SelectInSeq(s, LAMBDA t : t = sep)
  IN  IF i = 0 THEN <<s>> ELSE <<SubSeq(s, 1, i - 1)>> \o splitOn(SubSeq(s, i + 1, Len(s)), sep)

\* Mutant: the text read from a property the event does not carry
\* (regProps' valueProp mistaken), so undefined is written.
outputTextCallbackWrongValue(id, prop, value, dom) ==
  IF ClientIdOf(dom.ctrl) = id /\ Reg!LooseEquals(prop[ControllerIdKey], <<dom.ctrl>>)
    THEN [dom EXCEPT !.text = Undefined] ELSE dom

\* Mutant: the text is set without the controller-id test.
outputTextCallbackNoIdTest(id, prop, value, dom) ==
  IF ClientIdOf(dom.ctrl) = id THEN [dom EXCEPT !.text = value] ELSE dom

\* outputTextActiveControllerCallback(id, topic, prop, regProps) on the
\* page's element dom: idSplit[1] of id.split("_") is the controller id,
\* and $("[id='" + id + "']") selects the element only if it is on the page.
outputTextActiveControllerCallback(id, prop, value, dom) ==
  LET idSplit == splitOn(id, "_")
      activeControllerId == IF Len(idSplit) >= 2 THEN idSplit[2] ELSE Undefined
  IN  IF Reg!LooseEquals(prop[ControllerIdKey], activeControllerId) /\ ClientIdOf(dom.ctrl) = id
        THEN [dom EXCEPT !.text = value]
        ELSE dom

\* Mutant: rcUpdateActiveController only for controllerUpdated.
requestsActiveControllerUpdateOnlyUpdated(topic) == topic = "controllerUpdated"

\* handleGenericEvents calls rcUpdateActiveController for a controller topic
\* other than controllerAdded and controllerRemoved.
requestsActiveControllerUpdate(topic) ==
  /\ topic \in ControllerTopics
  /\ topic \notin {"controllerAdded", "controllerRemoved"}

-----------------------------------------------------------------------------
(* The server.                                                             *)

Init ==
  /\ serverActive \in Controllers
  /\ serverCount = [c \in Controllers |-> 0]
  /\ channel = <<>>
  /\ rcQueue = <<>>
  /\ shown = [ctrl |-> serverActive, text |-> 0]
  /\ callbackMap = ("observationCountUpdated" :>
                      <<Reg!TopicCallback(ClientIdOf(serverActive), ObsCntDescriptor(serverActive))>>)
  /\ invoked = <<>>
  /\ lastEvent = Undefined
  /\ changes = 0

\* The user (in any session) makes c the active controller.
ServerSetsActive(c) ==
  /\ c # serverActive
  /\ changes < MaxChanges
  /\ serverActive' = c
  /\ changes' = changes + 1
  /\ channel' = Append(channel, [topic |-> "activeControllerChanged", props |-> EventProps(c),
                                 value |-> Undefined])
  /\ UNCHANGED <<regVars, serverCount, rcQueue, shown>>

\* Controller c reports one more observation.
ServerCountsObservation(c) ==
  /\ serverCount[c] < MaxCount
  /\ serverCount' = [serverCount EXCEPT ![c] = @ + 1]
  /\ channel' = Append(channel, [topic |-> "observationCountUpdated", props |-> EventProps(c),
                                 value |-> serverCount'[c]])
  /\ UNCHANGED <<regVars, serverActive, rcQueue, shown, changes>>

\* The server handles the remote command at the head of the AJAX queue and
\* renders the component of its active controller with its count.
ServerRenders ==
  /\ rcQueue # <<>> /\ Head(rcQueue) = Pending
  /\ rcQueue' = [rcQueue EXCEPT ![1] = [ctrl |-> serverActive, text |-> serverCount[serverActive]]]
  /\ UNCHANGED <<regVars, serverActive, serverCount, channel, shown, changes>>

-----------------------------------------------------------------------------
(* The page.                                                               *)

\* messageRouterFunction on the next event: performGenericOperations runs
\* cleanup (requesting rcUpdateActiveController) and then the registered
\* callbacks, each updating the element it names.
Deliver ==
  /\ channel # <<>>
  /\ LET e == Head(channel) IN
       /\ Reg!performGenericOperations(e.topic, e.props)
       /\ shown' = FoldLeft(LAMBDA dom, cb : outputTextActiveControllerCallback(cb.clientId, e.props,
                                                                               e.value, dom),
                            shown, invoked')
       /\ rcQueue' = IF requestsActiveControllerUpdate(e.topic) THEN Append(rcQueue, Pending)
                                                               ELSE rcQueue
  /\ channel' = Tail(channel)
  /\ UNCHANGED <<serverActive, serverCount, changes>>

\* The response at the head of the queue arrives: the element is replaced
\* by the one rendered and the component registers.
RemoteCommandReturns ==
  /\ rcQueue # <<>> /\ Head(rcQueue) # Pending
  /\ LET r == Head(rcQueue) IN
       /\ shown' = r
       /\ Reg!registerComponent(ClientIdOf(r.ctrl), ObsCntDescriptor(r.ctrl))
  /\ rcQueue' = Tail(rcQueue)
  /\ UNCHANGED <<serverActive, serverCount, channel, changes>>

Next ==
  \/ \E c \in Controllers : ServerSetsActive(c) \/ ServerCountsObservation(c)
  \/ ServerRenders
  \/ Deliver
  \/ RemoteCommandReturns

Spec == Init /\ [][Next]_vars

-----------------------------------------------------------------------------
(* Properties.                                                             *)

Events == [topic : ViewTopics, props : {EventProps(c) : c \in Controllers},
           value : 1..MaxCount \cup {Undefined}]
Views == [ctrl : Controllers, text : 0..MaxCount]

TypeOK ==
  /\ Reg!TypeOK
  /\ serverActive \in Controllers
  /\ serverCount \in [Controllers -> 0..MaxCount]
  /\ channel \in Seq(Events)
  /\ rcQueue \in Seq(Views \cup {Pending})
  /\ shown \in Views
  /\ changes \in 0..MaxChanges

\* Every event pushed is routed and every remote command has returned.
AtRest == channel = <<>> /\ rcQueue = <<>>

\* The registrations of the observation count components.
CountRegistrations ==
  IF "observationCountUpdated" \in DOMAIN callbackMap
    THEN ToSet(callbackMap["observationCountUpdated"]) ELSE {}

\* The controller-id test of outputTextActiveControllerCallback: the
\* components register with no filter, so every controller's count event
\* reaches every registration still in the map, stale ones included.  The
\* element of controller c never shows more than c has counted.
CountShownIsItsControllers == shown.text <= serverCount[shown.ctrl]

\* After activeControllerChanged the page re-renders the component, and
\* the re-renders return in order, so once the page is at rest it shows
\* the server's active controller and that component is registered for
\* the next count.
AtRestShowsActiveController ==
  AtRest =>
    /\ shown.ctrl = serverActive
    /\ \E cb \in CountRegistrations : cb.clientId = ClientIdOf(serverActive)

\* The count component is "updated via javascript": once the page is at
\* rest it shows the active controller's current count.
AtRestShowsActiveCount == AtRest => shown.text = serverCount[serverActive]

=============================================================================
