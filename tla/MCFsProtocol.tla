----------------------------- MODULE MCFsProtocol -----------------------------
(* Constants for the model-checking runs of FsProtocol. *)
EXTENDS FsProtocol

Nobody  == [n \in Node |-> 0]
OnlyA   == [n \in Node |-> IF n = A THEN 1 ELSE 0]
OnlyB   == [n \in Node |-> IF n = B THEN 1 ELSE 0]
EachOne == [n \in Node |-> 1]
ATwo    == [n \in Node |-> IF n = A THEN 2 ELSE 0]
ATwoB1  == [n \in Node |-> IF n = A THEN 2 ELSE 1]
AThree  == [n \in Node |-> IF n = A THEN 3 ELSE 0]

===============================================================================
