----------------------------- MODULE MCPayloads -----------------------------
(* Samples around the limits: 200 and 100 bytes, 1 and 3650 days. *)
EXTENDS Payloads

MCLengths == {0, 1, 25, 26, 50, 51, 99, 100, 101, 199, 200, 201}
MCWidths == {1, 2, 4}
MCAges == {0, 1, 30, 3649, 3650, 3651}

=============================================================================
