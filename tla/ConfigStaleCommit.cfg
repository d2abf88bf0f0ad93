SPECIFICATION Spec
CONSTANTS
  p1 = p1
  p2 = p2
  m1 = m1
  a1 = a1
  v1 = v1
  v2 = v2
  Providers = {p1}
  Models = {m1}
  Aliases = {a1}
  Values = {v1, v2}
  NoProvider = NoProvider
  Handlers = {h1, h2}
  Kinds = {"patch"}
  Yaml <- MCYaml
  MaxRevision = 3
  MaxChanges = 0
  NoHandler = NoHandler
  NoOp = NoOp

PROPERTY CommitsAreFresh
