----------------------------- MODULE ObjectStore -----------------------------
(***************************************************************************)
(* The port the application depends on: a map from keys to objects in      *)
(* which a call touches the object of its own key and no other.  While an  *)
(* object is being replaced its contents are not promised.                 *)
(***************************************************************************)
CONSTANTS Keys, Data,
          None,      \* no object
          Torn       \* an object being written, or left half written

VARIABLE contents

Init == contents = [k \in Keys |-> None]

Begin(k) == contents' = [contents EXCEPT ![k] = Torn]

Put(k) == \E d \in Data : contents' = [contents EXCEPT ![k] = d]

Delete(k) == contents' = [contents EXCEPT ![k] = None]

Next == \E k \in Keys : Begin(k) \/ Put(k) \/ Delete(k)

Spec == Init /\ [][Next]_contents
=============================================================================
