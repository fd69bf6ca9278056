---------------------------- MODULE MCVocabulary ----------------------------
(* Instances of Vocabulary for TLC. *)
EXTENDS Vocabulary, TLC

CONSTANTS t1, t2, t3, p, q

\* two tokenizers of one process and one of another
MCProcessOf == t1 :> p @@ t2 :> p @@ t3 :> q
\* one tokenizer per process, as NewServer creates it
MCTwoProcesses == t1 :> p @@ t3 :> q
===============================================================================
