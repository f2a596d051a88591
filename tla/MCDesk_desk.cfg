SPECIFICATION MCSpec
CONSTANTS
  ann = ann
  bob = bob
  boom = boom
  eve = eve
  k1 = k1
  k2 = k2
  kim = kim
  lee = lee
  w1 = w1
  w2 = w2
  Workers = {w1, w2}
  Scenes <- Mixes
  MaxRequests = 4
  MaxAborts = 1
  Members = {ann, bob}
  Prints = {boom}
  MaxReports = 4
  MaxGroups = 2
  Bodies <- Sent
  Patches <- Edits
  Raws <- Wanted
  Seed <- Board
  NoRow = NoRow
  Nobody = Nobody
  Staff <- Chiefs
  Models <- Asked
  Releases <- Shipped
  AdminEdits <- Rehired
  ProviderBodies <- Saved
  SettingBodies <- Tuned
  ReleaseBodies <- Builds
  Callers = {ann}
  Addresses = {home}
  home = home
  Rate = 2
  TrialLimit = 1
  Catalogue <- Priced
  Subscribed <- Paying
  PlanBodies <- Repriced
  ProfileBodies <- Tastes
  MaxSamples = 1
  Shown <- Stock
  RowBodies <- Written
  Queries <- Requests
  FeedLimits <- Held
  DefaultRows = 2
  CapRows = 2
  Absent = Absent
  Keys = {k1, k2}
  Unset = Unset
  FirstSettings <- Configured
  EnvKeys <- Deployed
  EnvMethods = {"stripe", "vietqr"}
  Csvs <- Sold
  AppleConfigs <- Bundles
  MaxNotices = 1
  Users = {ann}
  Managers = {eve}
  FirstStandings <- Accounts0
  StandingBodies <- Changes
  Lifetimes = {1, 2}
  FirstLifetime = 2
  RefreshTTL = 3
  ManagerTTL = 1
  Visited = {"auth/me", "admin/users", "feedback", "feedback/vote", "rewrite", "health"}
  MaxTime = 3
  Subscribers = {ann}
  Terms = {2, 7, 8}
  EnvMailKey = TRUE
  ReportKinds = {"delivered", "complained"}
  MaxMails = 2
  MaxHalfday = 10
  Months = 2
  FirstMenu <- Tariff
  FirstGrants <- Cohort
  FirstDate <- January
  LastDate <- February
  MenuBodies <- Tariffs
  MaxGrants = 4
  MaxKeys = 2
  KeysTTL = 1
  MaxHour = 3
SYMMETRY Symmetry
INVARIANTS
  DeskTypeOK
  VoteCountExact
  ClosedStaysClosed
  CrashesCounted
  AdminRemains
  FailoverExhausts
  QuotaBounded
  ListsComplete
  NoticesHonoured
  AccessLapses
  
  SuppressionHolds
  
  RotationHeals
CHECK_DEADLOCK FALSE
