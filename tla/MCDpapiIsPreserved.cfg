\* Two profiles of any kind and no edit at all.
SPECIFICATION Spec
CONSTANTS
  Profiles = {home, road}
  Key = key
  Short = short
  Id = id
  NoText = none
  Absent = absent
  Nothing = nothing
  Texts = {none, key, short, id}
  Unusable = {short, id}
  Latencies = {0, 1, 2}
  Links = {wifi}
  DefaultMax = 2
  LegacyMax = 9
  Rates = {1, 2}
  Requested = {0, 1, 2}
  Found <- MCFound
  MaxEdits = 0
PROPERTY DpapiIsPreserved
