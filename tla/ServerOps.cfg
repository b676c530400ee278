SPECIFICATION Spec
CONSTANTS
  v1 = v1
  v2 = v2
  v3 = v3
  f1 = f1
  f2 = f2
  None = None
  Updates = {update}
  Installs = {install}
  Releases = {release}
  PasswordChanges = {password}
  Fresh = f1
  Commits <- MCCommits
  Configs <- MCConfigs
  Sound <- MCSound
INVARIANTS
  OneVersion
  ServiceStaysHealthy
  NothingIsLost
PROPERTIES
  FailureChangesNothing
