------------------------------ MODULE MC_Router ------------------------------
(***************************************************************************)
(* The router instantiated for TLC: any of the four pages, a null message, *)
(* a growl, and three events (controller c1 removed, active controller     *)
(* changed to c2, asset c1 removed); two registrations the events clean    *)
(* up; at most three messages and one reload.                              *)
(***************************************************************************)
EXTENDS PushMessageRouter, TLC

CONSTANTS c1, c2, cmpA, cl1, kCtrl, kAsset

MCTopics == {"controllerRemoved", "activeControllerChanged", "assetRemoved"}
MCIds == {c1, c2}

\* Neither PrimeFaces nor the page sets maxRequest: Atmosphere's default.
MCMaxRequest == -1

EventProps(ctrl, asset) == (kCtrl :> ctrl) @@ (kAsset :> asset)

MCMessages ==
  { Undefined,
    [type |-> "GROWL_MESSAGE", topic |-> Undefined, props |-> EventProps(Undefined, Undefined)],
    [type |-> "EVENT", topic |-> "controllerRemoved", props |-> EventProps(c1, Undefined)],
    [type |-> "EVENT", topic |-> "activeControllerChanged", props |-> EventProps(c2, Undefined)],
    [type |-> "EVENT", topic |-> "assetRemoved", props |-> EventProps(Undefined, c1)] }

\* The observation count of c2 on the active-controller topic, and a status
\* of controller c1 filtered on its id and cleaned up when c1 is removed.
MCDescriptors ==
  { [topic |-> "activeControllerChanged", uniqueId |-> c2,
     componentId |-> <<"activeControllerObsCnt_", c2>>, filter |-> <<>>,
     cleanupFilter |-> "activeControllerCleanupFilter",
     cleanupTopic |-> "activeControllerChanged"],
    [topic |-> "controllerRemoved", uniqueId |-> c1, componentId |-> cmpA,
     filter |-> <<kCtrl, "=", c1>>,
     cleanupFilter |-> "controllerRemovedFilter", cleanupTopic |-> "controllerRemoved"] }

\* The status of c1 again, and a component of c2 on the active-controller
\* topic registered with controllerRemoved as its cleanup topic but no
\* cleanup filter (both arguments of registerComponent are optional).
MCDescriptorsThrow ==
  { [topic |-> "controllerRemoved", uniqueId |-> c1, componentId |-> cmpA,
     filter |-> <<kCtrl, "=", c1>>,
     cleanupFilter |-> "controllerRemovedFilter", cleanupTopic |-> "controllerRemoved"],
    [topic |-> "activeControllerChanged", uniqueId |-> c2, componentId |-> cmpA,
     filter |-> <<>>, cleanupFilter |-> Undefined, cleanupTopic |-> "controllerRemoved"] }
=============================================================================
