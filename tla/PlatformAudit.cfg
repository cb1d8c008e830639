SPECIFICATION Spec
CONSTANTS
  r1 = r1
  r2 = r2
  h1 = h1
  h2 = h2
  h3 = h3
  None = None
  Runs = {r1, r2}
  Handlers = {h1, h2, h3}
  Plugins = {"sdk", "listed", "filed", "unlisted"}
  Allowlist = {"listed", "filed"}
  Runnable = {"listed", "filed", "unlisted"}
  Enabled = TRUE
  MaxEvents = 3
  MaxListed = 4
  Async = {h1}
  Raising = {h2}
  Echoing = {h3}
  Inputs <- MCInputs
  Workflows <- MCWorkflows
  Agents <- MCAgents
  Files <- MCFiles
  Sdk <- MCSdk
  Subscribed <- MCSubscribed
  Hooked <- MCHooked
  Joins <- MCJoins
  Leaves <- MCLeaves
INVARIANTS ExecutionsAreAudited
CHECK_DEADLOCK FALSE
