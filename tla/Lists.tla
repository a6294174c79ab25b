-------------------------------- MODULE Lists --------------------------------
(* What the list getters do with the addresses a contract returned.        *)
EXTENDS Naturals, Sequences

(* s without its entries in a set, the others in their order.              *)
Without(s, out) ==
  LET kept[n \in 0 .. Len(s)] ==
        IF n = 0 THEN <<>>
        ELSE IF s[n] \in out THEN kept[n - 1] ELSE Append(kept[n - 1], s[n])
  IN kept[Len(s)]
=============================================================================
