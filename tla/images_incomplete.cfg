SPECIFICATION Spec
CONSTANTS
  Trackers = {"t1", "t2"}
  ImageHosts = {"h1", "h2"}
  Shots = 2
  ImgFrom = "files"
INVARIANTS
  ImagesComplete
CHECK_DEADLOCK FALSE
