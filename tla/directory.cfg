CONSTANTS
  general = general  random = random  music = music  secret = secret
  lobby = lobby  den = den  hall = hall  ann = ann
  Channels = {general, random, music, secret}
  Public = {general, random, music}
  Names = {lobby, den, hall}
  Users = {ann}
  NoName = NoName  NoChannel = NoChannel
  PageSize = 2
SPECIFICATION FairSpec
INVARIANTS KnownOnceUp PostsWhereNamed
PROPERTIES StartLearns
