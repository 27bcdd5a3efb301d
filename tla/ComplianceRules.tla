---------------------------- MODULE ComplianceRules ----------------------------
(***************************************************************************)
(* The rules by which an audit judges the record of an asset.  A posture is *)
(* what the record says, field by field: a string, empty where nothing was *)
(* observed.  "None", "none" and "Never" are observations.                 *)
(***************************************************************************)
EXTENDS Integers, FiniteSets

Missing == ""
Statuses == {"compliant", "partial", "gap"}

Catalogued == {"1.1", "2.1", "4.1", "6.1", "7.1", "10.1", "CM-8", "AC-2", "SI-2", "SI-4",
               "A.8.1", "A.8.9", "A.12.6"}

\* evidence_fields: the fields of the record a control is judged by.
EvidenceFields(c) ==
  CASE c = "1.1"                -> {"name", "ip", "os"}
    [] c = "CM-8"               -> {"name", "type", "os"}
    [] c = "A.8.1"              -> {"name", "type"}
    [] c = "2.1"                -> {"software_stack"}
    [] c \in {"4.1", "A.8.9"}   -> {"control_coverage"}
    [] c \in {"6.1", "AC-2"}    -> {"auth_method"}
    [] c \in {"7.1", "A.12.6"}  -> {"last_patch"}
    [] c = "SI-2"               -> {"last_patch", "eol_status"}
    [] c \in {"10.1", "SI-4"}   -> {"edr_status"}

\* The controls as the migration seeds them, by what they require.
Seeded ==
  {<<"1.1", {"name", "ip", "os"}>>, <<"2.1", {"software_stack"}>>, <<"4.1", {"control_coverage"}>>,
   <<"6.1", {"auth_method"}>>, <<"7.1", {"last_patch"}>>, <<"10.1", {"edr_status"}>>,
   <<"CM-8", {"name", "type", "os"}>>, <<"AC-2", {"auth_method"}>>,
   <<"SI-2", {"last_patch", "eol_status"}>>, <<"SI-4", {"edr_status"}>>,
   <<"A.8.1", {"name", "type"}>>, <<"A.8.9", {"control_coverage"}>>, <<"A.12.6", {"last_patch"}>>}

Observed(posture, c) == {f \in EvidenceFields(c) : posture[f] # Missing}

MultiFactor == {"mfa", "mfa+pam"}
Patched(posture) == posture.last_patch \notin {Missing, "Never"}

\* check: what the record must say.
Check(posture, c) ==
  CASE c \in {"1.1", "CM-8", "A.8.1", "2.1"} -> Observed(posture, c) = EvidenceFields(c)
    [] c = "4.1"               -> posture.control_coverage \in {"partial", "full"}
    [] c = "A.8.9"             -> posture.control_coverage # "none"
    [] c = "6.1"               -> posture.auth_method \in MultiFactor
    [] c = "AC-2"              -> posture.auth_method \in MultiFactor \union {"certificate"}
    [] c \in {"7.1", "A.12.6"} -> Patched(posture)
    [] c = "SI-2"              -> Patched(posture) /\ posture.eol_status = "no"
    [] c \in {"10.1", "SI-4"}  -> posture.edr_status \notin {Missing, "None", "N/A"}

\* _assess: the status of a control, from the record alone.
Assess(posture, c) ==
  LET present == Cardinality(Observed(posture, c))
      total   == Cardinality(EvidenceFields(c))
  IN CASE Check(posture, c) -> "compliant"
       [] ~Check(posture, c) /\ 0 < present /\ present < total -> "partial"
       [] OTHER -> "gap"
=============================================================================
