---------------------------- MODULE AtomicDocument ----------------------------
(***************************************************************************)
(* What a caller of Generate is promised about the document on disk: under *)
(* its final name there is either nothing or the whole document, every     *)
(* file of the project in its place; once there it stays as it is; and     *)
(* success is reported only for a document that is there.                  *)
(*                                                                         *)
(* A document is the sequence of the file indices whose contents it holds. *)
(***************************************************************************)
EXTENDS Naturals

CONSTANT NumFiles

VARIABLES
    document,  \* what stands under the final name, <<>> for nothing
    answer     \* "none" yet, "ok" or "error"

vars == <<document, answer>>

Whole == [i \in 1 .. NumFiles |-> i - 1]

Init == document = <<>> /\ answer = "none"

\* the document appears, all of it at once
Publish ==
    /\ document = <<>> /\ answer = "none"
    /\ document' = Whole
    /\ UNCHANGED answer

\* a published document is reported
Succeed ==
    /\ document = Whole /\ answer = "none"
    /\ answer' = "ok"
    /\ UNCHANGED document

\* the call fails, before or after the document was published
GiveUp ==
    /\ answer = "none"
    /\ answer' = "error"
    /\ UNCHANGED document

Next == Publish \/ Succeed \/ GiveUp

Spec == Init /\ [][Next]_vars
===============================================================================
