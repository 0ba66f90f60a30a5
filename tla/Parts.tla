------------------------------- MODULE Parts --------------------------------
(***************************************************************************)
(* The parts of the nanoprobe that have a module of their own and share no *)
(* state here: commands and their children, keys, packets, the socket, the *)
(* discovery by listening, and the pid file.  A behaviour is one of one    *)
(* part, and the others stay as they begin.                                *)
(***************************************************************************)
EXTENDS ResourceCmd, CryptKeys, NetIO, NetSocket, Capture, PidFile

VARIABLE part

PartsInit ==
    /\ part \in {"command", "keys", "packets", "socket", "capture", "pid file"}
    /\ ResourceCmdInit /\ CryptKeysInit /\ NetIOInit /\ NetSocketInit
    /\ CaptureInit /\ PidFileInit
    /\ part # "command" => req = CHOOSE r \in Requests : TRUE
    /\ part # "socket" => socket.family = "v6" /\ ~socket.privileged
    /\ part # "pid file" => pidfile = NoFile

PartsNext ==
    /\ UNCHANGED part
    /\ \/ /\ part = "command" /\ ResourceCmdNext
          /\ UNCHANGED <<cryptKeysVars, netIOVars, netSocketVars, captureVars, pidFileVars>>
       \/ /\ part = "keys" /\ CryptKeysNext
          /\ UNCHANGED <<resourceCmdVars, netIOVars, netSocketVars, captureVars, pidFileVars>>
       \/ /\ part = "packets" /\ NetIONext
          /\ UNCHANGED <<resourceCmdVars, cryptKeysVars, netSocketVars, captureVars, pidFileVars>>
       \/ /\ part = "socket" /\ NetSocketNext
          /\ UNCHANGED <<resourceCmdVars, cryptKeysVars, netIOVars, captureVars, pidFileVars>>
       \/ /\ part = "capture" /\ CaptureNext
          /\ UNCHANGED <<resourceCmdVars, cryptKeysVars, netIOVars, netSocketVars, pidFileVars>>
       \/ /\ part = "pid file" /\ PidFileNext
          /\ UNCHANGED <<resourceCmdVars, cryptKeysVars, netIOVars, netSocketVars, captureVars>>

PartsSpec == PartsInit /\ [][PartsNext]_<<part, resourceCmdVars, cryptKeysVars, netIOVars,
                                          netSocketVars, captureVars, pidFileVars>>

\* The type invariants of the parts
PartsTypeOK ==
    /\ ResourceCmdTypeOK
    /\ CryptKeysTypeOK
    /\ NetIOTypeOK
    /\ NetSocketTypeOK
    /\ CaptureTypeOK
    /\ PidFileTypeOK
===============================================================================
