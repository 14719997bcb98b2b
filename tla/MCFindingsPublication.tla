------------------------ MODULE MCFindingsPublication ------------------------
(* The rules report an absence in empty evidence that the full evidence      *)
(* contradicts, and two findings that only the full evidence gives.          *)
EXTENDS FindingsPublication
MCKeys == {"spf-absent", "spf-present", "mx-present"}
MCOnNone == {"spf-absent"}
MCOnAll == {"spf-present", "mx-present"}
==============================================================================
