------------------------------ MODULE MCScanJobs ------------------------------
(* Instances of ScanJobs: two workers and two networks.                      *)
EXTENDS ScanJobs

CONSTANTS s1, s2, s3, n1, n2, w1, w2, none
=============================================================================
