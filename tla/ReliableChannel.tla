--------------------------- MODULE ReliableChannel ---------------------------
(***************************************************************************)
(* What the frameset protocol promises one application about the framesets  *)
(* another one sends it: they come out in the order they went in, none of   *)
(* them twice, and none is missing unless the sender lost it, because its   *)
(* output queue was full or because it gave up on the whole connection.     *)
(***************************************************************************)
EXTENDS Naturals, Sequences

VARIABLES
  sent,   \* how many framesets were sent; they are numbered from 1
  pipe,   \* those that were not read yet: their number, and whether it is lost
  out     \* the numbers of those that were read

vars == <<sent, pipe, out>>

Init == sent = 0 /\ pipe = <<>> /\ out = <<>>

LoseAll(p) == [i \in DOMAIN p |-> [p[i] EXCEPT !.lost = TRUE]]

\* Up to two framesets in one call.  Any of them may be refused, and the call
\* may be the one that gives up on the framesets already in the pipe.
Send ==
  \E k \in 1..2 : \E lost \in [1..k -> BOOLEAN] : \E before \in {pipe, LoseAll(pipe)} :
    /\ sent' = sent + k
    /\ pipe' = before \o [i \in 1..k |-> [val |-> sent + i, lost |-> lost[i]]]
    /\ out'  = out

GiveUp == pipe' = LoseAll(pipe) /\ UNCHANGED <<sent, out>>

\* Only lost framesets are skipped; a lost one may still get through.
Read ==
  \E i \in DOMAIN pipe :
    /\ \A j \in 1..(i - 1) : pipe[j].lost
    /\ out'  = Append(out, pipe[i].val)
    /\ pipe' = SubSeq(pipe, i + 1, Len(pipe))
    /\ sent' = sent

Next == Send \/ GiveUp \/ Read

Spec == Init /\ [][Next]_vars

==============================================================================
