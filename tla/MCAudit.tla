------------------------------ MODULE MCAudit ------------------------------
(* Instances of AuditPipeline for TLC.  Batches of two and a fallback buffer *)
(* of one make every capacity reachable with two or three events.            *)
EXTENDS AuditPipeline
=============================================================================
