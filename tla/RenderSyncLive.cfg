SPECIFICATION FairSpec
CONSTANTS
  SWAPCHAIN = 1
  FRAME_BUFS = 4
  Regions = {}
  MaxFrames = 2
  MaxGames = 1
  MaxLater = 0
PROPERTIES FramesPresented QuitTerminates
