SPECIFICATION ServicesSpec
INVARIANTS ApprovedPlansAreRead
CHECK_DEADLOCK FALSE
CONSTANTS
  Parts = {"plan"}
  Callers = {c1, c2}
  MoodleCourses = {k1, k2}
  SectionNames = {n1}
  Unnamed = unnamed
  MaxSectionIds = 2
  MaxCourseIds = 2
  Editors = {e1, e2}
  Activities = {"quiz", "forum"}
  ByDefault = {"quiz", "forum"}
  Profiles = {"", "p1"}
  TooLong = "long"
  Blank = ""
  Uploaders = {u1, u2}
  Owners = {o1, o2}
  Contents = {x1, x2, x3}
  Sound = {x1, x2}
  MaxDocuments = 3
  MaxOutages = 1
  Requests = {r1}
  Seeds = {s1}
  Emails = {"budi@test", "seed@test"}
  Usernames = {"Seed", "seed"}
  Folded <- MCFolded
  Passwords = {"secret"}
  Roles = {admin, staff}
  admin = admin
  staff = staff
  Policies <- MCPolicies
  SeedEmail = "seed@test"
  SeedUsername = "seed"
  SeedRole = staff
  SeedPassword = "secret"
  NoPassword = "none"
  MaxUsers = 2
  Statuses = {400, 401, 429, 500}
  Limits = {0, 1, 3}
  FixLimits = {0, 2}
  Converters = {w1, w2, w3}
  Scripts = {w3}
  w1 = w1
  w2 = w2
  w3 = w3
  HostOf <- MCHostOf
  SchemaVersions = {"1", "2"}
  NoOne = noone
  MaxConversions = 2
  MinPages = 3
  SourceDocuments <- MCSourceDocuments
  MaxWeek = 2
  Configurations <- MCConfigurations
  Analyses <- MCAnalyses
  Outputs <- MCOutputs
  Nil = nil
