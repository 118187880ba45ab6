------------------------------ MODULE Selection ------------------------------
(***************************************************************************)
(* What a sequence has of a set, in the sequence's order: SelectSeq as a   *)
(* recursive function over the prefixes, which can be reasoned about.      *)
(***************************************************************************)
EXTENDS Naturals, Sequences

Kept(s, S) ==
  LET kept[i \in 0 .. Len(s)] == IF i = 0 THEN <<>>
                                 ELSE IF s[i] \in S THEN Append(kept[i - 1], s[i])
                                 ELSE kept[i - 1]
  IN kept[Len(s)]
=============================================================================
