SPECIFICATION FairSpec
CONSTANTS
  p1 = p1
  p2 = p2
  m1 = m1
  a1 = a1
  v1 = v1
  v2 = v2
  Providers = {p1}
  Models = {m1}
  Aliases = {}
  Values = {v1}
  NoProvider = NoProvider
  Handlers = {h1, h2}
  Kinds = {"stage", "apply", "discard"}
  Yaml <- MCYaml
  MaxRevision = 1
  MaxChanges = 2
  NoHandler = NoHandler
  NoOp = NoOp

PROPERTIES AppliedIsServed AppliedOnce EveryRequestAnswered
