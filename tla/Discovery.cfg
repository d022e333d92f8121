SPECIFICATION Spec
CONSTANTS
  Notifiers = {n1, n2}
  NoNotifier = NoNotifier
  Names = {lidar1, lidar2}
  MaxChanges = 4
INVARIANTS
  DiscoveryInv
  CallbackMirrorsList
  ListMatchesNetwork
PROPERTIES
  NoCallbackWhenStopped
  StopReturns
