--------------------------- MODULE MCInvoiceBook ----------------------------
EXTENDS InvoiceBook, Permissions, TLC

CONSTANTS analyst, admin

\* The billing analyst cannot approve, issue, correct or resolve.
Roles == analyst :> {"billing_analyst"} @@ admin :> {"msp_admin"}
MCCan(u, p) == Permits(Roles[u], p)
=============================================================================
