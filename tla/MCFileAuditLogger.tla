------------------------- MODULE MCFileAuditLogger -------------------------
(* Small instances of FileAuditLogger.                                     *)
EXTENDS FileAuditLogger
=============================================================================
