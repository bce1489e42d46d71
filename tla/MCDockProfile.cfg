\* Two profiles of any kind, up to three edits or requests between starts,
\* stops, changes of profile and restarts.
SPECIFICATION Spec
CONSTANTS
  Profiles = {home, road}
  Key = key
  Short = short
  Id = id
  NoText = none
  Absent = absent
  Nothing = nothing
  Texts = {none, key, short, id}
  Unusable = {short, id}
  Latencies = {0, 1, 2}
  Links = {wifi}
  DefaultMax = 2
  LegacyMax = 9
  Rates = {1, 2}
  Requested = {0, 1, 2}
  Found <- MCFound
  MaxEdits = 3
INVARIANTS TypeOK RunsItsProfile LinksAreScoped ControlsAgree NormalizingKeepsSecrets
PROPERTY MigrationKeepsFields
