----------------------------- MODULE ReplyQueue -----------------------------
(***************************************************************************)
(* What a connection to Redis promises: commands are answered one by one,  *)
(* and the client is given the answers in the order of its commands, none  *)
(* twice and none before it is sent.                                       *)
(***************************************************************************)
EXTENDS Naturals, Sequences

CONSTANT Values

VARIABLES issued, answers, returned

Init == issued = 0 /\ answers = <<>> /\ returned = <<>>

Issue == issued' = issued + 1 /\ UNCHANGED <<answers, returned>>

Answer ==
    /\ Len(answers) < issued
    /\ \E v \in Values : answers' = Append(answers, v)
    /\ UNCHANGED <<issued, returned>>

Return ==
    /\ Len(returned) < Len(answers)
    /\ returned' = Append(returned, answers[Len(returned) + 1])
    /\ UNCHANGED <<issued, answers>>

Spec == Init /\ [][Issue \/ Answer \/ Return]_<<issued, answers, returned>>
=============================================================================
