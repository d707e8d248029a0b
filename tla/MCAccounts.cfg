CONSTANTS
  c1 = c1
  c2 = c2
  v1 = v1
  v2 = v2
  v3 = v3
  forked = forked
  NoProcess = NoProcess
  Process = {v1, v2, v3, forked}
  Script = {"a", "b", "c", "d"}
  Version <- VersionOf
  Embedded <- ScriptsOf
  Client = {c1, c2}
  Nobody = Nobody
  Limit = 2
  MaxUsers = 3
  MaxPasswords = 3
  MaxTokens = 1
  Caller = {c1, c2}
  NoCaller = NoCaller
  Person = {"p"}
  RecoveryCode = {"k"}
  MaxFailures = 2
  MaxSessions = 3
  MaxSecrets = 2
SPECIFICATION SideBySide
SYMMETRY Alike
CONSTRAINT NotOvertaken
INVARIANTS RolesWithinLimits TokensRedeemedOnce FactorsUsedOnce SchemasAgree
PROPERTIES PasswordsAdvance
CHECK_DEADLOCK FALSE
