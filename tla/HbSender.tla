------------------------------ MODULE HbSender ------------------------------
(***************************************************************************)
(* The heartbeat senders of a nanoprobe (clientlib/hbsender.c).  The list  *)
(* _hb_senders may hold several senders for one address: hbsender_new does *)
(* not look for an older one.  A sender has one reference and one timer    *)
(* for as long as it is in the list, so that it is its address.            *)
(***************************************************************************)
EXTENDS Sequences, SequencesExt

CONSTANT SendTo     \* addresses heartbeats may be sent to
VARIABLE senders    \* the list _hb_senders, newest first

SenderTypeOK == senders \in Seq(SendTo)
SenderInit == senders = <<>>

\* hbsender_new: also sends a first heartbeat.
StartSend(ss, a) == <<a>> \o ss

\* hbsender_stopsend: the newest sender for the address sends a last heartbeat
\* and is freed; others for the same address go on.
StopSend(ss, a) ==
    IF Contains(ss, a)
    THEN LET first == CHOOSE i \in DOMAIN ss : /\ ss[i] = a
                                               /\ \A j \in 1 .. i - 1 : ss[j] # a
         IN  RemoveAt(ss, first)
    ELSE ss

StopAllSenders == <<>>
=============================================================================
