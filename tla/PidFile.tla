------------------------------- MODULE PidFile -------------------------------
(***************************************************************************)
(* The pid file (misc.c), by which a nanoprobe finds out whether another   *)
(* one runs on the system: daemonize_me looks at it twice before           *)
(* create_pid_file looks again, removes a stale file and writes a new one; *)
(* nanoprobe -k looks for whom to kill; and a nanoprobe removes its file   *)
(* when it ends, but not when it crashes.  Looking and writing are steps   *)
(* of their own, and any number of processes takes them.                   *)
(***************************************************************************)
EXTENDS Naturals, FiniteSets

CONSTANTS
    Pids,           \* process ids
    NoFile, BadPid  \* no pid file, and one with a pid below 2 in it

ASSUME PidAssumption == NoFile \notin Pids /\ BadPid \notin Pids /\ NoFile # BadPid

VARIABLES
    process,    \* what runs under each process id; stat is what it found last
    pidfile,    \* what is in the pid file
    overlapped  \* history: two processes were between looking at the file and acting

pidFileVars == <<process, pidfile, overlapped>>

PidRunningStat == {"PID_NOTRUNNING", "PID_DEAD", "PID_NOTUS", "PID_RUNNING"}

\* "other" is a process of another program; all others are of this one.
Stages == {"none", "other", "forked", "looked twice", "creating", "writing", "running",
           "ending", "kill", "killing"}

NoProcess == [is |-> "none", stat |-> "PID_NOTRUNNING"]

PidFileTypeOK ==
    /\ process \in [Pids -> [is : Stages, stat : PidRunningStat]]
    /\ pidfile \in Pids \cup {NoFile, BadPid}
    /\ overlapped \in BOOLEAN
    /\ \A p \in Pids :
          process[p].is \in {"creating", "writing"} => process[p].stat # "PID_RUNNING"

\* A file may be left from before the system was started.
PidFileInit ==
    /\ process = [p \in Pids |-> NoProcess]
    /\ pidfile \in Pids \cup {NoFile, BadPid}
    /\ overlapped = FALSE

\* are_we_already_running.  It may be its own pid that is in the file.
AlreadyRunning ==
    CASE pidfile \in {NoFile, BadPid} -> "PID_NOTRUNNING"
      [] pidfile \in Pids /\ process[pidfile].is = "none" -> "PID_DEAD"
      [] pidfile \in Pids /\ process[pidfile].is = "other" -> "PID_NOTUS"
      [] OTHER -> "PID_RUNNING"

\* Those that looked and did not act yet
Acting == {p \in Pids : process[p].is \in {"creating", "writing", "killing"}}

Continues(p, stage, stat) ==
    process' = [process EXCEPT ![p] = [is |-> stage, stat |-> stat]]

Exits(p) == process' = [process EXCEPT ![p] = NoProcess]

Looks(p, stage) ==
    /\ Continues(p, stage, AlreadyRunning)
    /\ overlapped' = (overlapped \/ Acting # {})

-----------------------------------------------------------------------------
\* The first look of daemonize_me is that of a process that exits anyway; what goes on
\* under pid p is forked from it.
Start(p) ==
    /\ process[p].is = "none" /\ AlreadyRunning # "PID_RUNNING"
    /\ Continues(p, "forked", "PID_NOTRUNNING")
    /\ UNCHANGED <<pidfile, overlapped>>

LookAgain(p) ==
    /\ process[p].is = "forked"
    /\ IF AlreadyRunning = "PID_RUNNING" THEN Exits(p)
       ELSE Continues(p, "looked twice", "PID_NOTRUNNING")
    /\ UNCHANGED <<pidfile, overlapped>>

\* create_pid_file looks for the third time, ...
CreateLooks(p) ==
    /\ process[p].is = "looked twice"
    /\ IF AlreadyRunning = "PID_RUNNING" THEN Exits(p) /\ UNCHANGED overlapped
       ELSE Looks(p, "creating")
    /\ UNCHANGED pidfile

\* ... unlinks a file that is stale, ...
CreateUnlinks(p) ==
    /\ process[p].is = "creating"
    /\ pidfile' = IF process[p].stat \in {"PID_DEAD", "PID_NOTUS"} THEN NoFile ELSE pidfile
    /\ Continues(p, "writing", process[p].stat)
    /\ UNCHANGED overlapped

\* ... and writes its own, or exits because it cannot.
CreateWrites(p) ==
    /\ process[p].is = "writing"
    /\ \/ pidfile' = p /\ Continues(p, "running", "PID_NOTRUNNING")
       \/ Exits(p) /\ UNCHANGED pidfile
    /\ UNCHANGED overlapped

\* main has left its main loop: remove_pid_file, and the end some time later
RemovePidFile(p) ==
    /\ process[p].is = "running"
    /\ pidfile' = NoFile
    /\ Continues(p, "ending", "PID_NOTRUNNING")
    /\ UNCHANGED overlapped

\* A process ends: one that has come to its end, one that crashes or is killed, and
\* those that were asked to kill or do something else.
Exit(p) ==
    /\ process[p].is # "none"
    /\ Exits(p)
    /\ UNCHANGED <<pidfile, overlapped>>

\* Another program gets a process id.
OtherProgram(p) ==
    /\ process[p].is = "none"
    /\ Continues(p, "other", "PID_NOTRUNNING")
    /\ UNCHANGED <<pidfile, overlapped>>

-----------------------------------------------------------------------------
\* nanoprobe -k, with a process id of its own
Kill(p) ==
    /\ process[p].is = "none"
    /\ Continues(p, "kill", "PID_NOTRUNNING")
    /\ UNCHANGED <<pidfile, overlapped>>

KillLooks(p) ==
    /\ process[p].is = "kill"
    /\ Looks(p, "killing")
    /\ UNCHANGED pidfile

\* Mutant: the file is removed in any case.
KillPidServiceUnlinks(p) ==
    /\ process[p].is = "killing"
    /\ pidfile' = NoFile
    /\ Continues(p, "ending", "PID_NOTRUNNING")
    /\ UNCHANGED overlapped

\* kill_pid_service sends a signal, which lets a nanoprobe end as it may at any time,
\* or removes the file.  The process waits until nothing runs any more.
KillPidService(p) ==
    /\ process[p].is = "killing"
    /\ pidfile' = IF process[p].stat = "PID_RUNNING" THEN pidfile ELSE NoFile
    /\ Continues(p, "ending", "PID_NOTRUNNING")
    /\ UNCHANGED overlapped

PidFileNext ==
    \E p \in Pids :
        \/ Start(p) \/ LookAgain(p) \/ CreateLooks(p) \/ CreateUnlinks(p) \/ CreateWrites(p)
        \/ RemovePidFile(p) \/ Exit(p) \/ OtherProgram(p)
        \/ Kill(p) \/ KillLooks(p) \/ KillPidService(p)

PidFileSpec == PidFileInit /\ [][PidFileNext]_pidFileVars

-----------------------------------------------------------------------------
\* Properties

\* One nanoprobe runs at most, and the pid file names it, whatever crashes, reused
\* process ids and kills there were before; unless two processes were between looking
\* at the file and acting on it at the same time, which nothing keeps them from.
PidFileNamesTheOne ==
    ~overlapped => \A p \in Pids : process[p].is = "running" => pidfile = p
=============================================================================
