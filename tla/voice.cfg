CONSTANTS
  Peer = {p1, p2}
  MaxGeneration = 3
  MaxConnection = 2
  MaxQueue = 2

SPECIFICATION Spec
INVARIANTS NoForgottenCapture SendersFollow PushToTalkReleased
SYMMETRY Symmetry
