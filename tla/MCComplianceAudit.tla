-------------------------- MODULE MCComplianceAudit --------------------------
(* Two audits of an asset that is patched, and forgets its patches.         *)
EXTENDS ComplianceAudit

Patch(last) ==
  [name |-> "host", ip |-> "ip", os |-> "os", type |-> "server", software_stack |-> "nginx",
   control_coverage |-> "full", auth_method |-> "mfa", last_patch |-> last, eol_status |-> "no",
   edr_status |-> "agent"]
MCPostures == [a \in Assets |-> {Patch("dated"), Patch(Missing)}]
=============================================================================
