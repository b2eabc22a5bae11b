--------------------------- MODULE AnchorRegister ---------------------------
(***************************************************************************)
(* What anchoring promises: for every signed head and provider type a      *)
(* register that is empty until a verified record is put in it, once.      *)
(***************************************************************************)
CONSTANTS Ids, Records, None

VARIABLE register      \* [Ids -> Records or None]

Init == register = [i \in Ids |-> None]

Anchor(i) ==
  /\ register[i] = None
  /\ \E r \in Records : r.id = i /\ register' = [register EXCEPT ![i] = r]

Next == \E i \in Ids : Anchor(i)

Spec == Init /\ [][Next]_register
=============================================================================
