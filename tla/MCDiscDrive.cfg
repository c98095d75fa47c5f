SPECIFICATION DriveOrImage
CONSTANTS
  DiscCount = 2
  Kind <- OneProtected
  Data = {0, 1}
  Blank = 0
  MaxTrack = 1
  StepSize = 1
  Length <- Lengths
  Unit = 1
  TrackBytes = 36
  MaxTrackBytes = 38
  SsdSectors = 2
  AdlSectors = 2
  ImageTracks = 2
  DiscTracks = 3
  Block = 4
  Contents <- SomeContents
  Files <- SomeFiles
  Images <- SomeImages
  MaxSteps = 2
INVARIANTS HeadOnTrack WritesReachFile ChangesAreTended ProtectedNeverChanges ImagesHoldTheDisc
PROPERTIES DirtyTrackIsFlushed
