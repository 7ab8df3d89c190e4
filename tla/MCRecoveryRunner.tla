--------------------------- MODULE MCRecoveryRunner ---------------------------
(* A record with two attachments and one with none.                        *)
EXTENDS RecoveryRunner

CONSTANTS r1, r2, a1, a2

MCRecords == {r1, r2}
MCAttachments == {a1, a2}
MCOf == [a \in MCAttachments |-> r1]
=============================================================================
