---------------------------- MODULE MC_Registry ----------------------------
(***************************************************************************)
(* The registry instantiated for TLC: two controllers c1, c2, one status   *)
(* topic with two components of controller c1 side by side (so a splice   *)
(* must not skip the second), the active-controller topic with the         *)
(* observation count of c2 and a page-wide component, and a callback on   *)
(* controllerRemoved that is itself cleaned up by controllerRemoved.       *)
(***************************************************************************)
EXTENDS TopicCallbackRegistry

CONSTANTS tStatus, tRemoved, tActive, tAssetRemoved, c1, c2, cmpA, cmpB, cl1, cl2, kCtrl, kAsset

MCTopics == {tStatus, tRemoved, tActive}
MCControllerTopics == {tRemoved, tActive}
MCIds == {c1, c2}
MCComponentIds == {cmpA, cmpB}
MCClientIds == {cl1, cl2}

\* The registrations the pages make (componentId and uniqueId fixed by the
\* rendered tag, clientId chosen at render time).
MCDescriptors ==
  { [topic |-> tStatus, uniqueId |-> c1, componentId |-> cmpA,
     filter |-> <<kCtrl, "=", c1>>,
     cleanupFilter |-> "controllerRemovedFilter", cleanupTopic |-> tRemoved],
    [topic |-> tStatus, uniqueId |-> c1, componentId |-> cmpB,
     filter |-> Undefined,
     cleanupFilter |-> "controllerRemovedFilter", cleanupTopic |-> tRemoved],
    [topic |-> tActive, uniqueId |-> c2, componentId |-> ObsCnt(c2),
     filter |-> <<>>,
     cleanupFilter |-> "activeControllerCleanupFilter", cleanupTopic |-> tActive],
    [topic |-> tActive, uniqueId |-> Undefined, componentId |-> cmpB,
     filter |-> Undefined,
     cleanupFilter |-> "activeControllerCleanupFilter", cleanupTopic |-> tActive],
    [topic |-> tRemoved, uniqueId |-> c2, componentId |-> cmpA,
     filter |-> <<kCtrl, "=", c2>>,
     cleanupFilter |-> "controllerRemovedFilter", cleanupTopic |-> tRemoved] }

\* Same, plus a tag whose filter has no "=" (spec.md 9 leaves its meaning open).
MCDescriptorsMalformed ==
  MCDescriptors \cup
  { [topic |-> tStatus, uniqueId |-> c2, componentId |-> cmpA,
     filter |-> <<kCtrl>>,
     cleanupFilter |-> Undefined, cleanupTopic |-> Undefined] }

\* An asset's status component, cleaned up when that asset is removed
\* (assetDescriptionCleanupFilter on the assetRemoved topic).
MCTopicsAsset == {tStatus, tAssetRemoved}

MCDescriptorsAsset ==
  { [topic |-> tStatus, uniqueId |-> c1, componentId |-> cmpA,
     filter |-> Undefined,
     cleanupFilter |-> "assetDescriptionCleanupFilter", cleanupTopic |-> tAssetRemoved] }
=============================================================================
