--------------------------- MODULE MCAlertDelivery ---------------------------
(* Instances of AlertDelivery: a webhook that answers, or that never does.   *)
EXTENDS AlertDelivery

CONSTANTS a1, a2, h1, w1, q1, slack, syslog, none

\* The severities of the alerts route one to Slack and one to syslog only.
Routes == [a \in Alerts |-> IF a = a1 THEN {slack} ELSE {syslog}]

\* The webhook is not told that the alert of the lower severity is resolved.
Filters == [h \in Hooks |-> {"created"} \X Alerts \union {<<"resolved", a1>>}]
=============================================================================
