---------------------------- MODULE FsProtocolFSA ----------------------------
(***************************************************************************)
(* The two matrices of the connection automaton in clientlib/fsprotocol.c:  *)
(* NextState is nextstates[][] and Actions is actions[][], with the same    *)
(* rows and columns.  A_DEBUG only logs and is left out.                    *)
(***************************************************************************)

FsProtoState == {"NONE", "INIT", "UP", "SHUT1", "SHUT2", "SHUT3"}

FsProtoInput == {"GOTSTART", "REQSEND", "GOTCONN_NAK", "REQSHUTDOWN",
                 "RCVSHUTDOWN", "ACKTIMEOUT", "OUTALLDONE", "SHUT_TO"}

FsaAction == {"CLOSE", "OOPS", "SNDSHUT", "ACKME", "TIMER", "NOTIME"}

InShutdown(state) == state \in {"SHUT1", "SHUT2", "SHUT3"}

Row(start, send, nak, reqshut, rcvshut, ackto, alldone, shutto) ==
  [GOTSTART    |-> start,   REQSEND     |-> send,
   GOTCONN_NAK |-> nak,     REQSHUTDOWN |-> reqshut,
   RCVSHUTDOWN |-> rcvshut, ACKTIMEOUT  |-> ackto,
   OUTALLDONE  |-> alldone, SHUT_TO     |-> shutto]

NextState ==
  [NONE  |-> Row("UP",    "INIT",  "NONE", "NONE",  "SHUT2", "NONE", "NONE",  "NONE"),
   INIT  |-> Row("INIT",  "INIT",  "INIT", "SHUT1", "SHUT2", "NONE", "UP",    "INIT"),
   UP    |-> Row("UP",    "UP",    "NONE", "SHUT1", "SHUT2", "UP",   "UP",    "UP"),
   SHUT1 |-> Row("SHUT1", "SHUT1", "NONE", "SHUT1", "SHUT2", "NONE", "SHUT3", "NONE"),
   SHUT2 |-> Row("SHUT2", "SHUT2", "NONE", "SHUT2", "SHUT2", "NONE", "NONE",  "NONE"),
   SHUT3 |-> Row("SHUT3", "SHUT3", "NONE", "SHUT3", "NONE",  "NONE", "SHUT3", "NONE")]

\* Mutants: no timer is started for a shutdown that was asked for here, or
\* for one that the peer asked for; a shutdown that is over is not cleaned up.
ShutNoTimer    == {"SNDSHUT"}
AckShutNoTimer == {"ACKME", "SNDSHUT"}
NoTimeOnly     == {"NOTIME"}

Close       == {"CLOSE"}
Oops        == {"OOPS"}
ShutTimer   == {"SNDSHUT", "TIMER"}
AckShut     == {"ACKME"} \cup ShutTimer
CloseNoTime == {"CLOSE", "NOTIME"}

Actions ==
  [NONE  |-> Row({}, {}, Close, Close,     ShutTimer, Oops,        Oops,        Oops),
   INIT  |-> Row({}, {}, Close, ShutTimer, AckShut,   Close,       {},          Oops),
   UP    |-> Row({}, {}, Close, ShutTimer, AckShut,   {},          {},          Oops),
   SHUT1 |-> Row({}, {}, Oops,  {},        {"ACKME"}, CloseNoTime, {},          Close),
   SHUT2 |-> Row({}, {}, {},    {},        {"ACKME"}, CloseNoTime, CloseNoTime, Close),
   SHUT3 |-> Row({}, {}, Oops,  {},        {"ACKME"} \cup CloseNoTime,
                                                      CloseNoTime, {},          Close)]

==============================================================================
