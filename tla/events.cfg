CONSTANTS
  karma = karma  infobot = infobot
  hello = hello  thanks = thanks  B1 = B1
  NoBot = NoBot  Self = B1
  Author <- MCAuthor
  Messages = {hello, thanks}
  Order <- MCOrder
  Attempts <- MCAttempts
SPECIFICATION FairSpec
INVARIANTS AnsweredIsHeard HeardAlike InOrder
PROPERTY OnlyHooksBlock
