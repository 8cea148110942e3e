CONSTANTS
  Traces = {t1, t2}
  Deleters = {d1, d2}
  Refused = {t2}
  NoTrace = NoTrace

SPECIFICATION FairSpec
INVARIANTS HeldIsBacked LedgersAgree
PROPERTIES ForgottenForGood ImplementsInventory PendingIsCommitted
