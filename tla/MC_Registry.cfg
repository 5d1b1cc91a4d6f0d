CONSTANTS
  tStatus = tStatus
  tRemoved = tRemoved
  tActive = tActive
  tAssetRemoved = tAssetRemoved
  c1 = c1
  c2 = c2
  cmpA = cmpA
  cmpB = cmpB
  cl1 = cl1
  cl2 = cl2
  kCtrl = kCtrl
  kAsset = kAsset
  Undefined = Undefined
  Topics <- MCTopics
  ControllerTopics <- MCControllerTopics
  Ids <- MCIds
  ComponentIds <- MCComponentIds
  ClientIds <- MCClientIds
  ControllerIdKey = kCtrl
  AssetUuidKey = kAsset
  Descriptors <- MCDescriptors
  MaxCallbacks = 3

SPECIFICATION Spec
INVARIANT TypeOK
INVARIANT UniqueRegistration
PROPERTY RegistryRefinement
