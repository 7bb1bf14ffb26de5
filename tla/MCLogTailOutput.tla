-------------------------- MODULE MCLogTailOutput --------------------------
(* Small instances of the output loop for TLC. *)
EXTENDS LogTailOutput

MCStreamOf == [p \in RequestIDs \X SeqNums |->
                  IF p[2] = 2 THEN "stdout" ELSE "stderr"]

L(r, s) == [req |-> r, seq |-> s]

\* Batches that arrive in and out of sequence, for one request and for both.
MCBatches(a, b) == {{L(a, 1)}, {L(a, 3)}, {L(a, 2), L(b, 1)}, {L(a, 2), L(a, 4)}}

MCRequestIDs == {"ra", "rb"}
MCBatchSet == MCBatches("ra", "rb")
=============================================================================
