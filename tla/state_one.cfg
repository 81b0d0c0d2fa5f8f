\* One session at a time, which may die at any step and be followed by another.
SPECIFICATION Spec
CONSTANTS
  Sessions = {s1}
  Phases = {etcd, authentik}
  Keys = {etcd_token, secret_key}
  Values = {v1, v2}
  Unset = unset
  Missing = missing
  Torn = torn
INVARIANT HandedIsDurable
PROPERTY ImplementsRecord
