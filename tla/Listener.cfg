SPECIFICATION FairPgSpec
CONSTANTS
  s1 = s1
  s2 = s2
  global = global
  mine = mine
  Streams = {s1, s2}
  Channels = {global, mine}
  Wants <- MCWants
  Notices = {mine, global}
  ChannelOf <- MCChannelOf
  Nobody = Nobody
  Health = Health
  MaxQueue = 1
  MaxNotes = 2
  MaxDrops = 2
  MaxChecks = 1
  MaxCancels = 1
INVARIANTS PgTypeOK HeardWhileCalm ListeningIsTrue
PROPERTIES LockMovesOn
CHECK_DEADLOCK FALSE
