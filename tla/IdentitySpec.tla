---------------------------- MODULE IdentitySpec ----------------------------
(***************************************************************************)
(* What the rejected-object store promises to whoever holds the identity   *)
(* of a record (load_identified): the identity leads nowhere or to the      *)
(* whole object; it begins to lead there in one step, and once that is      *)
(* settled (synchronize) it does so for ever. Only a loss of power before   *)
(* it is settled may take the object back, or leave a record whose payload  *)
(* is gone; publishing it again may repair that.                           *)
(***************************************************************************)
VARIABLES
  found,      \* what load_identified returns: "nothing", "object", or it throws
  settled,    \* synchronize has covered the object
  lost        \* a loss of power undid something

vars == <<found, settled, lost>>

Init == found = "nothing" /\ settled = FALSE /\ lost = FALSE

Publish == found # "object" /\ found' = "object" /\ UNCHANGED <<settled, lost>>

Settle == found = "object" /\ settled' = TRUE /\ UNCHANGED <<found, lost>>

LosePower ==
  /\ found' \in IF settled THEN {found} ELSE {found, "nothing", "broken"}
  /\ lost' = TRUE
  /\ UNCHANGED settled

Next == Publish \/ Settle \/ LosePower

Spec == Init /\ [][Next]_vars
=============================================================================
