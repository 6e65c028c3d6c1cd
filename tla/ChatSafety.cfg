\* Two nodes, two calls under way, one message body.
CONSTANTS
  Nodes = {a, b}
  Calls = {c1, c2}
  Messages = {hello}
  None = None
SPECIFICATION Spec
SYMMETRY Sym
INVARIANTS TypeOK AcceptedByConsent SentWasDelivered
PROPERTIES AcceptedNeverRegresses KeepsPromise
