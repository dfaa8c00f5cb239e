------------------------------- MODULE MCSessions -------------------------------
(* Three roles: one whose rule is complete, one that leaves both windows to  *)
(* the defaults, one whose ceiling is below its idle window.                 *)
EXTENDS Sessions

CONSTANTS member, guest, auditor

Windows == [r \in {member, guest, auditor} |->
              CASE r = member  -> [idle |-> 1, absolute |-> 3]
                [] r = guest   -> [idle |-> -1, absolute |-> 0]
                [] r = auditor -> [idle |-> 3, absolute |-> 1]]

=============================================================================
