---------------------------- MODULE ResourceCmd ------------------------------
(***************************************************************************)
(* One resource command and the child process it runs: resourcecmd.c with  *)
(* its OCF, LSB and Nagios subclasses, childprocess.c, and the pipe that   *)
(* gmainfd.c and logsourcefd.c read.  A request is made into a command,    *)
(* executed as often as its owner likes, and let go of by its owner, maybe *)
(* while its child runs.                                                   *)
(***************************************************************************)
EXTENDS Naturals, Sequences

CONSTANTS
    Requests,   \* requests for a command
    Timeouts,   \* whether children have a time limit: a subset of BOOLEAN
    MaxRuns,    \* bound on executions
    MaxOutput   \* bound on what a child writes

ASSUME ResourceCmdAssumption ==
    /\ Timeouts \subseteq BOOLEAN /\ Timeouts # {}
    /\ MaxRuns \in Nat /\ MaxOutput \in Nat

HowDied == {"EXITED_ZERO", "EXITED_NONZERO", "EXITED_SIGNAL", "EXITED_TIMEOUT", "EXITED_HUNG"}

\* What a constructor looks at in a request: each field is good, missing, or of a bad form.
Request ==
    [class : {"ocf", "lsb", "nagios", "other"}, instance : BOOLEAN,
     operation : {"start", "monitor", "meta-data", "validate-all", "none"},
     type : {"ok", "slash", "none"}, provider : {"ok", "slash", "none"},
     environ : {"ok", "none", "bad"}, argv : {"ok", "none", "bad"},
     path : {"found", "not found", "none"}]

ASSUME RequestsAssumption == Requests \subseteq Request

VARIABLES
    req,        \* the request
    cmd,        \* the ResourceCmd
    child,      \* its ChildProcess
    proc,       \* the process, and its end of the pipe
    replies,    \* calls of the callback
    runs,       \* executions so far
    fate        \* what became of a process that was given up on

resourceCmdVars == <<req, cmd, child, proc, replies, runs, fate>>

NoChild == [refs |-> 0, state |-> 0, timer |-> FALSE, watch |-> FALSE, text |-> 0, atEOF |-> FALSE]
NoProc == [is |-> "none", status |-> "zero", pipe |-> 0, wrote |-> 0, signals |-> <<>>]

ResourceCmdTypeOK ==
    /\ req \in Request
    /\ cmd \in [state : {"none", "refused", "made", "finalized"}, is_running : BOOLEAN,
                refs : 0 .. 2, owned : BOOLEAN]
    /\ child \in [refs : 0 .. 2, state : 0 .. 3, timer : BOOLEAN, watch : BOOLEAN,
                  text : 0 .. MaxOutput, atEOF : BOOLEAN]
    /\ proc \in [is : {"none", "alive", "zombie", "reaped"},
                 status : {"zero", "nonzero", "signal"}, pipe : 0 .. MaxOutput,
                 wrote : 0 .. MaxOutput,
                 signals : {<<>>, <<"SIGTERM">>, <<"SIGTERM", "SIGKILL">>}]
    /\ replies \in Seq([how : HowDied, rc : 0 .. 7, text : 0 .. MaxOutput])
    /\ runs \in 0 .. MaxRuns
    /\ fate \in {"none", "given up", "forgotten", "aborted"}

ResourceCmdInit ==
    /\ req \in Requests
    /\ cmd = [state |-> "none", is_running |-> FALSE, refs |-> 0, owned |-> FALSE]
    /\ child = NoChild /\ proc = NoProc
    /\ replies = <<>> /\ runs = 0 /\ fate = "none"

-----------------------------------------------------------------------------
\* Making a command

OcfAccepts(r) ==
    r.type = "ok" /\ r.provider = "ok" /\ r.environ # "bad" /\ r.path = "found"

LsbAccepts(r) == r.type = "ok" /\ r.path = "found"

\* The path of an agent is a search path here, which must be there.
NagiosAccepts(r) ==
    r.type = "ok" /\ r.environ # "bad" /\ r.argv # "bad" /\ r.path = "found"

\* resourcecmd_new finds the constructor of the class.
Accepts(r) ==
    \/ r.class = "ocf" /\ OcfAccepts(r)
    \/ r.class = "lsb" /\ LsbAccepts(r)
    \/ r.class = "nagios" /\ NagiosAccepts(r)

\* resourcecmd_constructor, which all of them call
Named(r) == r.instance /\ r.operation # "none"

ResourceCmdNew ==
    /\ cmd.state = "none"
    /\ cmd' = IF Accepts(req) /\ Named(req)
              THEN [cmd EXCEPT !.state = "made", !.refs = 1, !.owned = TRUE]
              ELSE [cmd EXCEPT !.state = "refused"]
    /\ UNCHANGED <<req, child, proc, replies, runs, fate>>

-----------------------------------------------------------------------------
\* Executing it

\* _resourceocf_outputs_string
OcfOutputsString(operation) == operation \in {"monitor", "meta-data"}

\* The agents whose output is kept for the reply; that of others is logged.
SavesOutput(r) ==
    \/ r.class = "nagios"
    \/ r.class = "ocf" /\ OcfOutputsString(r.operation)
    \/ r.class = "lsb" /\ r.operation = "monitor"

\* Operations that an LSB init script does not have are answered at once.
AnsweredAtOnce(r) == r.class = "lsb" /\ r.operation \in {"meta-data", "validate-all"}

\* Mutant: the reference for the exit of the process is not taken.
ChildNewOneRef(timeout) ==
    [NoChild EXCEPT !.refs = 1, !.timer = timeout, !.watch = TRUE]

\* childprocess_new
ChildNew(timeout) ==
    [NoChild EXCEPT !.refs = 2, !.timer = timeout, !.watch = TRUE]

\* A process that cannot be spawned leaves no child, and no reply either.
\* The child of the run before is let go of first; one whose process was given
\* up on is freed by that, and still watched.
Launch ==
    /\ fate' = IF fate = "given up" THEN "forgotten" ELSE fate
    /\ \/ \E timeout \in Timeouts :
             /\ child' = ChildNew(timeout)
             /\ proc' = [NoProc EXCEPT !.is = "alive"]
             /\ cmd' = [cmd EXCEPT !.is_running = TRUE, !.refs = @ + 1]
       \/ child' = NoChild /\ proc' = NoProc /\ UNCHANGED cmd
    /\ UNCHANGED replies

AnswerAtOnce ==
    /\ replies' = Append(replies, [how |-> "EXITED_ZERO", rc |-> 0, text |-> 0])
    /\ UNCHANGED <<cmd, child, proc, fate>>

OcfExecute == req.class = "ocf" /\ Launch
LsbExecute == req.class = "lsb" /\ IF AnsweredAtOnce(req) THEN AnswerAtOnce ELSE Launch
NagiosExecute == req.class = "nagios" /\ Launch

\* The execute member of a command, which does nothing while it is running
Execute ==
    /\ cmd.state = "made" /\ cmd.owned /\ runs < MaxRuns
    /\ runs' = runs + 1
    /\ IF cmd.is_running THEN UNCHANGED <<cmd, child, proc, replies, fate>>
       ELSE OcfExecute \/ LsbExecute \/ NagiosExecute
    /\ UNCHANGED req

-----------------------------------------------------------------------------
\* The process, and reading what it writes

Write ==
    /\ proc.is = "alive" /\ proc.wrote < MaxOutput
    /\ proc' = [proc EXCEPT !.wrote = @ + 1, !.pipe = @ + 1]
    /\ UNCHANGED <<req, cmd, child, replies, runs, fate>>

\* A process that gets a signal may die of it or exit on its own account.
Die ==
    /\ proc.is = "alive"
    /\ \E status \in {"zero", "nonzero", "signal"} :
          proc' = [proc EXCEPT !.is = "zombie", !.status = status]
    /\ UNCHANGED <<req, cmd, child, replies, runs, fate>>

\* gmainfd_gsource_readmore; what LogSourceFd reads is logged and not kept.
ReadMore(c) ==
    [c EXCEPT !.text = IF SavesOutput(req) THEN @ + proc.pipe ELSE @,
              !.atEOF = proc.is = "zombie"]

\* gmainfd_gsource_check: there is something to read, or the end of it.
PipeIsReady == child.refs > 0 /\ ~child.atEOF /\ (proc.pipe > 0 \/ proc.is = "zombie")

\* gmainfd_gsource_dispatch
ReadPipe ==
    /\ PipeIsReady
    /\ child' = ReadMore(child)
    /\ proc' = [proc EXCEPT !.pipe = 0]
    /\ UNCHANGED <<req, cmd, replies, runs, fate>>

-----------------------------------------------------------------------------
\* The end of the child

signalmap == <<"SIGTERM", "SIGKILL">>

\* The outcome that _childprocess_childexit finds
HowWeDied ==
    CASE child.state >= Len(signalmap) -> "EXITED_HUNG"
      [] child.state = 1 -> "EXITED_TIMEOUT"
      [] child.state = 0 /\ proc.status = "signal" -> "EXITED_SIGNAL"
      [] child.state = 0 /\ proc.status = "nonzero" -> "EXITED_NONZERO"
      [] OTHER -> "EXITED_ZERO"

\* LSB says "not running" in several ways, which is 7 for the CMA.
status_rc_map == <<7, 7, 7, 1>>

\* What an agent may exit with that failed: 5 is "not installed", and LSB has no more
\* than 4 for a status.
ExitCodes(how) == IF how # "EXITED_NONZERO" THEN {0} ELSE {1, 5}

\* The notify function of an agent calls the callback and lets go of the command.
\* When its owner did so before, the command goes, and its reference to the child.
ChildNotify(how, rc, text) ==
    /\ replies' = Append(replies, [how |-> how, rc |-> rc, text |-> text])
    /\ cmd' = [cmd EXCEPT !.is_running = FALSE, !.refs = @ - 1,
                          !.state = IF cmd.refs = 1 THEN "finalized" ELSE @]

OcfChildNotify(how, text) ==
    req.class = "ocf" /\ \E rc \in ExitCodes(how) : ChildNotify(how, rc, text)

LsbChildNotify(how, text) ==
    /\ req.class = "lsb"
    /\ \E rc \in ExitCodes(how) \cup IF how = "EXITED_NONZERO" THEN 1 .. 4 ELSE {} :
          ChildNotify(how, IF rc \in DOMAIN status_rc_map /\ req.operation = "monitor"
                           THEN status_rc_map[rc] ELSE rc, text)

NagiosChildNotify(how, text) ==
    req.class = "nagios" /\ \E rc \in ExitCodes(how) : ChildNotify(how, rc, text)

\* _childprocess_childexit, after it has read the rest of the output
ChildExit(read, watch) ==
    /\ \/ OcfChildNotify(HowWeDied, read.text)
       \/ LsbChildNotify(HowWeDied, read.text)
       \/ NagiosChildNotify(HowWeDied, read.text)
    /\ child' = [read EXCEPT !.timer = FALSE, !.state = 3, !.watch = watch,
                             !.refs = IF cmd.refs = 1 THEN 0 ELSE @ - 1]
    /\ proc' = [proc EXCEPT !.is = IF watch THEN @ ELSE "reaped", !.pipe = 0]
    /\ UNCHANGED <<req, runs>>

\* Mutant: what is left in the pipe is not read.
ReapReadsNothing ==
    /\ child.watch /\ proc.is = "zombie" /\ child.state < 3
    /\ ChildExit(child, FALSE)
    /\ UNCHANGED fate

Reap ==
    /\ child.watch /\ proc.is = "zombie" /\ child.state < 3
    /\ ChildExit(IF child.atEOF THEN child ELSE ReadMore(child), FALSE)
    /\ UNCHANGED fate

\* _childprocess_timeout: one signal after the other
ChildTimeout ==
    /\ child.timer /\ child.state < Len(signalmap)
    /\ child' = [child EXCEPT !.state = @ + 1]
    /\ proc' = [proc EXCEPT !.signals = Append(@, signalmap[child.state + 1])]
    /\ UNCHANGED <<req, cmd, replies, runs, fate>>

\* _childprocess_timeout gives up on the process.  It does not stop to watch it,
\* not even if the process has just died.
GiveUp ==
    /\ child.timer /\ child.state = Len(signalmap)
    /\ ChildExit(IF child.atEOF THEN child ELSE ReadMore(child), TRUE)
    /\ fate' = "given up"

\* A process that was given up on exits after all: _childprocess_childexit runs
\* for the second time, with a child or a command that is freed, if not before
\* then by what it does itself.  A cast of a freed object stops the nanoprobe.
ExitOfGivenUp ==
    /\ \/ fate = "given up" /\ proc.is = "zombie"
       \/ fate = "forgotten"
    /\ fate' = "aborted"
    /\ UNCHANGED <<req, cmd, child, proc, replies, runs>>

\* The owner of the command lets go of it: _resourceocf_finalize and the others.
Release ==
    /\ cmd.state = "made" /\ cmd.owned
    /\ cmd' = [cmd EXCEPT !.owned = FALSE, !.refs = @ - 1,
                          !.state = IF cmd.refs = 1 THEN "finalized" ELSE @]
    /\ child' = IF cmd.refs = 1 THEN NoChild ELSE child
    /\ UNCHANGED <<req, proc, replies, runs, fate>>

ResourceCmdNext ==
    /\ fate # "aborted"
    /\ \/ ResourceCmdNew \/ Execute \/ Write \/ Die \/ ReadPipe
       \/ Reap \/ ChildTimeout \/ GiveUp \/ ExitOfGivenUp \/ Release

ResourceCmdSpec == ResourceCmdInit /\ [][ResourceCmdNext]_resourceCmdVars

-----------------------------------------------------------------------------
\* Properties

\* A child that is watched for its exit is still there when it exits, although
\* the command that holds it may be let go of in between, unless its process was
\* given up on before; and a command that is still there finds the child of its
\* last run, which it lets go of when it runs again.
ChildOutlivesWatch ==
    /\ child.watch /\ fate \notin {"given up", "aborted"} => child.refs > 0 /\ cmd.state = "made"
    /\ cmd.state = "made" /\ proc.is # "none" => child.refs > 0

\* A reply for an operation that ended by itself has all the child wrote, however
\* reading the pipe and the exit came about.
ReplyHasOutput ==
    proc.is = "reaped" /\ SavesOutput(req) => replies[Len(replies)].text = proc.wrote
=============================================================================
