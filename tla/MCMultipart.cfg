SPECIFICATION Spec
CONSTANTS
  LastPart = 3
  Calls = 3
  Aborters = {a1, a2}
INVARIANTS JournalHeld OpenIsJournalled
PROPERTIES ImplementsPut
