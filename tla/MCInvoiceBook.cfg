SPECIFICATION Spec
CONSTANTS
  Invoices = {i1}
  analyst = analyst
  admin = admin
  Users = {analyst, admin}
  Can <- MCCan
  Sessions = {s1, s2}
  Notes = {n1}
  Disputes = {d1}
  None = None
CHECK_DEADLOCK FALSE
INVARIANTS TypeOK ApprovedBeforeDelivery DeliveredWasAnnounced NotesOnDelivered
