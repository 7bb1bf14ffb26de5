----------------------------- MODULE MCLogTail -----------------------------
(* Two windows of two batches for `fastly log-tail`, out of sequence. *)
EXTENDS LogTail

L(r, s) == [req |-> r, seq |-> s]

MCStreamOf == [p \in RequestIDs \X SeqNums |->
                  IF p = <<"ra", 2>> THEN "stderr" ELSE "stdout"]

MCPublished ==
    << << {L("ra", 1), L("ra", 3)}, {L("ra", 2)} >>,
       << {L("rb", 1), L("ra", 4)}, {L("rb", 2)} >> >>

MCBatches == {Published[w][i] : w \in 1 .. 2, i \in 1 .. 2}

=============================================================================
