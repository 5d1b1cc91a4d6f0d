CONSTANTS
  c1 = c1
  c2 = c2
  kCtrl = kCtrl
  kAsset = kAsset
  Controllers = {c1, c2}
  ClientIdPrefix <- MCClientIdPrefix
  ControllerIdKey = kCtrl
  AssetUuidKey = kAsset
  Undefined = Undefined
  MaxChanges = 2
  MaxCount = 2

SPECIFICATION Spec
\* Once the server's bounds are spent and everything is routed and
\* rendered, the page really stops.
CHECK_DEADLOCK FALSE
INVARIANT TypeOK
INVARIANT CountShownIsItsControllers
INVARIANT AtRestShowsActiveController
