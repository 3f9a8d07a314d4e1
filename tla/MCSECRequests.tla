--------------------------- MODULE MCSECRequests ---------------------------
(* Small instances of SECRequests for TLC. *)
EXTENDS SECRequests
=============================================================================
