SPECIFICATION PgSpec
CONSTANTS
  s1 = s1
  s2 = s2
  global = global
  mine = mine
  Streams = {s1, s2}
  Channels = {global, mine}
  Wants <- MCWants
  Notices = {mine, global}
  ChannelOf <- MCChannelOf
  Nobody = Nobody
  Health = Health
  MaxQueue = 1
  MaxNotes = 1
  MaxDrops = 0
  MaxChecks = 1
  MaxCancels = 0
INVARIANTS StreamsHeard
CHECK_DEADLOCK FALSE
