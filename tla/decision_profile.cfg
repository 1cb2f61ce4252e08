\* One agent, two requests of the dashboard and its thread, two rebuilds.
SPECIFICATION Spec
CONSTANTS
  Decisions = {d1}
  Texts = {"first", "deleted"}
  Clients <- MCClients
  None = None
  NoOp = NoOp
  MaxRevision = 3
  Agents = {a1}
  Requests = {q1, q2}
  Background = background
  Deleted = "deleted"
  Notes = {"note"}
  MaxProfile = 2
PROPERTIES
  ProfileIsSerial
  CleanIsCurrent
SYMMETRY MCSymmetry
