--------------------------- MODULE PushConstants ---------------------------
(***************************************************************************)
(* The push constants of the web GUI: window.thTopic                       *)
(* (commonTopicValues.js) and window.thType (commonMessageTypes.js).       *)
(*                                                                         *)
(* A JS string is a sequence of tokens, as in TopicCallbackRegistry.  A    *)
(* topic's value is the local prefix followed by its path.  The other      *)
(* modules name a topic by its thTopic property.  That is sound only       *)
(* because the values are pairwise distinct, and the ASSUME below          *)
(* checks it.  Every script compares topics with ==, so two properties     *)
(* with the same value would be one topic to the router.                   *)
(***************************************************************************)
EXTENDS Sequences, Functions

globalPrefixLocal == <<"mil/dod/th/ose/gui/webapp/">>

LocalTopic(path) == globalPrefixLocal \o <<path>>

\* window.thTopic, from property name to value.
thTopic ==
  [ bundleInfoReceived |-> LocalTopic("advanced/BundleMgr/BUNDLE_INFO_RECEIVED"),
    bundleInfoRemoved |-> LocalTopic("advanced/BundleMgr/BUNDLE_INFO_REMOVED"),
    bundleStatusUpdated |-> LocalTopic("advanced/BundleMgr/BUNDLE_STATUS_UPDATED"),
    configDisplayModelsUpdated |->
      LocalTopic("advanced/configuration/ControllerConfigurationMgr/CONFIG_DISPLAY_MODELS_UPDATED"),
    configModelUpdated |->
      LocalTopic("advanced/configuration/SystemConfigurationMgr/CONFIG_MODEL_UPDATED"),
    metaModelUpdated |->
      LocalTopic("advanced/configuration/SystemMetaTypeMgr/METATYPE_MODEL_UPDATED"),
    assetCommandSynced |-> LocalTopic("asset/AssetCommandMgr/COMMAND_SYNCED"),
    assetGetCommandResponseReceived |->
      LocalTopic("asset/AssetGetCommandMgr/GET_RESPONSE_RECEIVED"),
    assetAdded |-> LocalTopic("asset/AssetMgr/ASSET_ADDED"),
    assetLocationUpdated |-> LocalTopic("asset/AssetMgr/ASSET_LOCATION_UPDATED"),
    assetObservationUpdated |-> LocalTopic("asset/AssetMgr/ASSET_OBSERVATION_UPDATED"),
    assetRemoved |-> LocalTopic("asset/AssetMgr/ASSET_REMOVED"),
    assetStatusUpdated |-> LocalTopic("asset/AssetMgr/ASSET_STATUS_UPDATED"),
    assetActivationStatusUpdated |-> LocalTopic("asset/AssetMgr/ASSET_ACTIVATION_STATUS_UPDATED"),
    assetUpdated |-> LocalTopic("asset/AssetMgr/ASSET_UPDATED"),
    assetTypesUpdated |-> LocalTopic("asset/AssetTypesMgr/ASSET_TYPES_UPDATED"),
    channelRemoved |-> LocalTopic("channels/ChannelConstants/CHANNEL_REMOVED"),
    channelUpdated |-> LocalTopic("channels/ChannelConstants/CHANNEL_UPDATED"),
    commsLayerUpdated |-> LocalTopic("comms/CommsMgr/COMMS_LAYER_UPDATED"),
    commsTypesUpdated |-> LocalTopic("comms/CommsLayerTypesMgr/COMMS_TYPES_UPDATED"),
    activeControllerChanged |-> LocalTopic("controller/ActiveController/ACTIVE_CONTROLLER_CHANGED"),
    controllerAdded |-> LocalTopic("controller/ControllerConstants/CONTROLLER_ADDED"),
    controllerRemoved |-> LocalTopic("controller/ControllerConstants/CONTROLLER_REMOVED"),
    controllerUpdated |-> LocalTopic("controller/ControllerConstants/CONTROLLER_UPDATED"),
    observationCountUpdated |-> LocalTopic("controller/ObservationCount/COUNT_UPDATED"),
    missionUpdated |-> LocalTopic("mp/CurrentMissionsConstants/MISSION_UPDATED"),
    obsStoreUpdated |-> LocalTopic("observation/ObservationMgr/OBS_STORE_UPDATED") ]

\* The property names of window.thTopic, which the other modules use as topics.
TopicNames == DOMAIN thTopic

ASSUME IsInjective(thTopic)

\* window.thType.growlMessageType and eventMessageType.
growlMessageType == "GROWL_MESSAGE"
eventMessageType == "EVENT"
=============================================================================
