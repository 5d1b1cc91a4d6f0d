CONSTANTS
  c1 = c1
  c2 = c2
  cmpA = cmpA
  cl1 = cl1
  kCtrl = kCtrl
  kAsset = kAsset
  Undefined = Undefined
  Topics <- MCTopics
  Ids <- MCIds
  ComponentIds = {}
  ClientIds = {cl1}
  ControllerIdKey = kCtrl
  AssetUuidKey = kAsset
  Descriptors <- MCDescriptors
  MaxCallbacks = 2
  Messages <- MCMessages
  MaxRequest <- MCMaxRequest
  MaxMessages = 3
  MaxReloads = 1

SPECIFICATION Spec
\* The page really stops: after the last message and reload nothing is left
\* to happen but stuttering.
CHECK_DEADLOCK FALSE
PROPERTY DecrementAfterMessage
