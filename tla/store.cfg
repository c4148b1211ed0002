CONSTANTS
  nowplaying = nowplaying  g = g  karma = karma  song = song
  Clients = {nowplaying, g, song, karma}
  Script <- MCScript
  Contents <- MCContents  Makes <- MCMakes  NoContent = NoContent
SPECIFICATION FairDataSpec
INVARIANTS NoCircle
PROPERTIES NoWriteAgain NoneBeginsAgain OnlyHangsBlock ImplementsStore
CHECK_DEADLOCK FALSE
