SPECIFICATION WebSpec
CONSTANTS
  Missing = Missing
  Tabs = {t1, t2}
  Nobody = Nobody
  MaxJwts = 2
  SessionEvents = 4
  People = {me, ann}
  Me = me
  Codes = {c1}
  NoCode = NoCode
  Attempts = {a1, a2}
  Values = {v1, v2}
  MaxTokens = 2
  AccountEvents = 3
  MaxRuns = 2
  MaxPolls = 2
  BackupEvents = 3
  Paths <- MCPaths
  Folders <- MCFolders
  TreeEvents = 5
  Viewers = {p1, p2}
  DagEvents = 3
  Slugs = {s1, s2}
  Derived = s1
  Urls = {u1, u2}
  NoUrl = NoUrl
  MaxIds = 3
  CatalogEvents = 2
INVARIANTS WebTypeOK ApprovedMeansIt InvitationKept OwnChangesShown ShownOnce SyncedIsPushed FoldersFill WaitsForSomething CatalogsShown NoUnaskedOverwrite
PROPERTIES KeepsCliPromise TabsRest ToastEnds BackupSettles
CHECK_DEADLOCK FALSE
