-------------------------- MODULE MCCaptureExecutor --------------------------
(* One STOP, two RETRY and one TRACE_ONLY code stand for the thirteen.     *)
EXTENDS CaptureExecutor

MCOffered == {"auth_failed", "timeout", "rate_limited", "field_unavailable"}
=============================================================================
