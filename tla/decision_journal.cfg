\* Two agents present one decision, one request of the dashboard revises it;
\* no rebuild is saved and nothing is said of a rule.
SPECIFICATION Spec
CONSTANTS
  Decisions = {d1}
  Texts = {"first", "other"}
  Clients <- MCClients
  None = None
  NoOp = NoOp
  MaxRevision = 4
  Agents = {a1, a2}
  Requests = {q1}
  Background = background
  Deleted = "deleted"
  Notes = {}
  MaxProfile = 0
INVARIANTS
  HistoryComplete
PROPERTIES
  ImplementsJournal
  PendingIsKept
SYMMETRY MCSymmetry
