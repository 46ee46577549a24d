-------------------------------- MODULE PPRF --------------------------------
(***************************************************************************)
(* What a puncturable PRF key promises, whatever its representation: it    *)
(* starts able to compute the value of every tag, and puncturing a tag     *)
(* takes that tag's value, and no other, out of reach until the key is     *)
(* renewed.                                                                *)
(***************************************************************************)
CONSTANT Tags
VARIABLE live    \* the tags whose value can still be computed from the key

Init == live = Tags

Puncture(t) == live' = live \ {t}

\* The key is replaced by a fresh one.
Renew == live' = Tags

Next == Renew \/ \E t \in Tags : Puncture(t)

Spec == Init /\ [][Next]_live
=============================================================================
