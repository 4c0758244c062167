SPECIFICATION Spec
CONSTANTS
  SWAPCHAIN = 2
  FRAME_BUFS = 5
  Regions = {vram}
  MaxFrames = 6
  MaxGames = 2
  MaxLater = 1
INVARIANTS SlotExclusive SnapshotFresh BufferExclusive SwapSlack NoLostWakeup
PROPERTIES ImplementsFrameQueue
