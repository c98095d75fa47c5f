SPECIFICATION CrtcOrPicture
CONSTANTS
  Setups <- MCSetups
  Writes <- MCWrites
  MaxWrites = 1
  Careful = TRUE
  FarTimer = 60
  MaxBehind = 400
  RowLines = 2
  FlashFrames = 3
  FlashOff = 1
  Plans <- MCPlans
  MaxChanges = 2
INVARIANTS JumpsAreExact VsyncOnTime PictureFollowsTheBeam TextIsTheLine
