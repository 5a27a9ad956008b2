SPECIFICATION FairInvoiceSpec
CONSTANTS
  Requests = {r1, r2, r3}
  NoRun = NoRun
  Sessions = {s1, s2}
  NoSession = NoSession
  Invoices = {i1, i2, i3}
CHECK_DEADLOCK FALSE
INVARIANTS BuildTypeOK NumbersGapless InvoicedRunCompleted NumbersLinear OneCurrentRun ChainUnforked
PROPERTIES BuildsEnd ImplementsHistory
