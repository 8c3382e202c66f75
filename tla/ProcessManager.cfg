CONSTANTS
  a = a
  b = b
  Name = {a, b}
  LastPort = 2
  MaxGen <- TwiceForA
  None = None
SPECIFICATION FairSpec
INVARIANT IInv
PROPERTIES StoppedMeansGone CancelledNeverSpawns CallsAreAnswered
