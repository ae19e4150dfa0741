SPECIFICATION Spec
CONSTANTS
  MAX_CAMERAS = 2
  CamConns = 2
  CAMERA_SLOTS = 2
  Rates = {0, 1, 2}
  Quanta = {0, 1}
  MaxAudioFds = 1
  RingSize = 2
  FillMod = 9
  MaxPcm = 3
  Texts = {"a", "b"}
  MaxSent = 2
  InConns = 2
INVARIANTS
  ShownIsCurrent
  StreamsFollowFormat
  RingIsFifo
  RingHeals
  ClipboardFollows
PROPERTIES
  InputFlows
CHECK_DEADLOCK FALSE
