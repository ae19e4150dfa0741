SPECIFICATION CameraSpec
CONSTANTS
  MAX_CAMERAS = 1
  CamConns = 1
  CAMERA_SLOTS = 2
PROPERTIES
  ShmArrives
CHECK_DEADLOCK FALSE
