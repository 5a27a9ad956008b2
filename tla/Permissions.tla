---------------------------- MODULE Permissions -----------------------------
(***************************************************************************)
(* Roles and permissions (services/authz.py), for the permissions that the  *)
(* modelled routes of invoicing, reconciliation and period closing ask for. *)
(***************************************************************************)

Invoicing == {"pricing.run", "invoice.read", "invoice.write", "invoice.approve",
              "invoice.issue", "invoice.correct", "export.data",
              "dispute.write", "dispute.resolve"}
Closing == {"recon.read", "recon.resolve", "recon.waive", "period.close"}
Permissions == Invoicing \cup Closing

\* ROLE_PERMISSIONS: the administrators differ in the subtree they see.  A role
\* that is not in the catalogue gives nothing.
RolePermissions(role) ==
    CASE role \in {"platform_admin", "distributor_admin", "msp_admin"} -> Permissions
      [] role = "finops_analyst"    -> {"recon.read", "export.data"}
      [] role = "billing_analyst"   -> {"pricing.run", "invoice.read", "invoice.write",
                                        "recon.read", "recon.resolve", "export.data",
                                        "dispute.write"}
      [] role = "customer_admin"    -> {"invoice.read", "export.data", "dispute.write"}
      [] role = "customer_readonly" -> {"invoice.read"}
      [] role = "auditor"           -> {"invoice.read", "recon.read", "export.data"}
      [] OTHER                      -> {}

\* A user may hold several roles.
Expanded(roles) == UNION {RolePermissions(r) : r \in roles}

Permits(roles, permission) == permission \in Expanded(roles)
=============================================================================
