----------------------------- MODULE MCIngestTx -----------------------------
(***************************************************************************)
(* IngestTx with two words and three contents: no chunk, one chunk with w1,*)
(* and two chunks with w1 of which one has w2.                             *)
(***************************************************************************)
EXTENDS IngestTx

CONSTANTS w1, w2

MCContents == {[w \in Words |-> 0],
               [w \in Words |-> IF w = w1 THEN 1 ELSE 0],
               [w \in Words |-> IF w = w1 THEN 2 ELSE 1]}
=============================================================================
