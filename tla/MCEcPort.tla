-------------------------------- MODULE MCEcPort --------------------------------
(***************************************************************************)
(* An instance of EcPort.tla: three registers, the last one too high for a *)
(* word.                                                                   *)
(***************************************************************************)
EXTENDS EcPort

Reads(w, r) == [op |-> "read", word |-> w, register |-> r, lsb |-> 0, msb |-> 0]
Writes(w, r, b) == [op |-> "write", word |-> w, register |-> r, lsb |-> b, msb |-> 3 - b]

MCContents == {[r \in Registers |-> r + 4]}

MCCalls == {Reads(FALSE, 0), Reads(TRUE, 0),
            Writes(FALSE, 1, 3), Writes(TRUE, 0, 1), Writes(TRUE, 2, 1)}
================================================================================
