-------------------------- MODULE ResourceCmd_proofs --------------------------
(***************************************************************************)
(* Proofs about ResourceCmd for any set of requests and any bounds: that   *)
(* it is type correct, that a child that is watched is still there         *)
(* (ChildOutlivesWatch), and that a reply has all of the output            *)
(* (ReplyHasOutput).                                                       *)
(*                                                                         *)
(* The argument: a command has one reference from its owner and one from   *)
(* its running child, and its child has two references as long as it runs, *)
(* one of which is the command's; so whichever of the two lets go of the   *)
(* command last frees the child after its exit, never before.  And what a  *)
(* child wrote is in the pipe or was read, until the end of the pipe was   *)
(* seen, after which there is nothing more to come.                        *)
(***************************************************************************)
EXTENDS ResourceCmd, SequenceTheorems, TLAPS

\* The references to the command, and what it takes to be one.
CommandIsHeld ==
    /\ cmd.refs = (IF cmd.owned THEN 1 ELSE 0) + (IF cmd.is_running THEN 1 ELSE 0)
    /\ cmd.state = "made" <=> cmd.refs > 0
    /\ cmd.state = "made" => Accepts(req)
    /\ proc.is # "none" => cmd.state \in {"made", "finalized"}

\* A child that runs is watched, and by now has had the signals that its state says.
RunningChild ==
    cmd.is_running =>
        /\ child.refs = 2 /\ child.watch /\ child.state < 3
        /\ proc.is \in {"alive", "zombie"}
        /\ child.state = 0 => proc.signals = <<>>
        /\ child.state = 1 => proc.signals = <<"SIGTERM">>
        /\ child.state = 2 => proc.signals = <<"SIGTERM", "SIGKILL">>

\* One that does not run has no timer; it is watched only when it was given up on.
EndedChild ==
    ~cmd.is_running =>
        /\ ~child.timer
        /\ child.watch => child.state = 3 /\ fate \in {"given up", "aborted"}
        /\ proc.is # "none" /\ cmd.state = "made" => child.refs = 1

\* What was written is read, or in the pipe, or was of no use to anybody.
OutputIsKept ==
    /\ child.text + proc.pipe <= proc.wrote
    /\ cmd.is_running /\ SavesOutput(req) => child.text + proc.pipe = proc.wrote
    /\ cmd.is_running /\ child.atEOF => proc.is = "zombie" /\ proc.pipe = 0
    /\ proc.is = "reaped" => proc.pipe = 0 /\ replies # <<>>
    /\ ReplyHasOutput
    /\ AnsweredAtOnce(req) => proc.is = "none"

IInv ==
    /\ ResourceCmdTypeOK
    /\ CommandIsHeld /\ RunningChild /\ EndedChild /\ OutputIsKept

-----------------------------------------------------------------------------
\* Types

Command ==
    [state : {"none", "refused", "made", "finalized"}, is_running : BOOLEAN,
     refs : 0 .. 2, owned : BOOLEAN]

Child ==
    [refs : 0 .. 2, state : 0 .. 3, timer : BOOLEAN, watch : BOOLEAN,
     text : 0 .. MaxOutput, atEOF : BOOLEAN]

Process ==
    [is : {"none", "alive", "zombie", "reaped"}, status : {"zero", "nonzero", "signal"},
     pipe : 0 .. MaxOutput, wrote : 0 .. MaxOutput,
     signals : {<<>>, <<"SIGTERM">>, <<"SIGTERM", "SIGKILL">>}]

Reply == [how : HowDied, rc : 0 .. 7, text : 0 .. MaxOutput]

Typed ==
    /\ req \in Request /\ cmd \in Command /\ child \in Child /\ proc \in Process
    /\ replies \in Seq(Reply) /\ runs \in 0 .. MaxRuns
    /\ fate \in {"none", "given up", "forgotten", "aborted"}

\* The type invariant, with its records named.
LEMMA TypedIsTypeOK == Typed <=> ResourceCmdTypeOK
BY DEF Typed, ResourceCmdTypeOK, Command, Child, Process, Reply

\* No child and no process are a child and a process with nothing to them.
LEMMA NothingYet ==
    /\ NoChild \in Child /\ NoProc \in Process
    /\ NoChild.refs = 0 /\ NoChild.state = 0 /\ ~NoChild.timer /\ ~NoChild.watch
    /\ NoChild.text = 0 /\ ~NoChild.atEOF
    /\ NoProc.is = "none" /\ NoProc.pipe = 0 /\ NoProc.wrote = 0 /\ NoProc.signals = <<>>
<1>1. 0 \in 0 .. MaxOutput
  BY ResourceCmdAssumption
<1> QED
  BY <1>1 DEF NoChild, NoProc, Child, Process

\* The invariant holds of a request that was not yet looked at.
LEMMA InitHolds == ResourceCmdInit => IInv
<1> SUFFICES ASSUME ResourceCmdInit PROVE IInv
  OBVIOUS
<1> USE DEF ResourceCmdInit
<1>1. /\ cmd \in Command /\ cmd.state = "none" /\ ~cmd.is_running /\ cmd.refs = 0 /\ ~cmd.owned
  BY DEF Command
<1>2. Typed
  BY <1>1, NothingYet, RequestsAssumption, ResourceCmdAssumption DEF Typed
<1>3. CommandIsHeld
  BY <1>1, NothingYet DEF CommandIsHeld
<1>4. RunningChild /\ EndedChild
  BY <1>1, NothingYet DEF RunningChild, EndedChild
<1>5. OutputIsKept
  BY <1>1, NothingYet DEF OutputIsKept, ReplyHasOutput
<1> QED
  BY <1>2, <1>3, <1>4, <1>5, TypedIsTypeOK DEF IInv


-----------------------------------------------------------------------------
\* Reading the pipe

\* Reading adds what is in the pipe to the text that is kept, if any is, and sees the
\* end of the pipe only when the process is gone.  Nothing else of the child changes.
LEMMA ReadMoreLeaves ==
    ASSUME Typed, child.text + proc.pipe <= proc.wrote
    PROVE  /\ ReadMore(child) \in Child
           /\ ReadMore(child).refs = child.refs /\ ReadMore(child).state = child.state
           /\ ReadMore(child).timer = child.timer /\ ReadMore(child).watch = child.watch
           /\ ReadMore(child).text <= proc.wrote
           /\ SavesOutput(req) => ReadMore(child).text = child.text + proc.pipe
           /\ ReadMore(child).atEOF <=> proc.is = "zombie"
<1> DEFINE text == IF SavesOutput(req) THEN child.text + proc.pipe ELSE child.text
           end == proc.is = "zombie"
<1>1. /\ child.text \in 0 .. MaxOutput /\ proc.pipe \in 0 .. MaxOutput
      /\ proc.wrote \in 0 .. MaxOutput
  BY DEF Typed, Child, Process
<1>2. text \in 0 .. MaxOutput /\ text <= proc.wrote
  BY <1>1, ResourceCmdAssumption
<1>3. end \in BOOLEAN
  OBVIOUS
<1>4. ReadMore(child) = [child EXCEPT !.text = text, !.atEOF = end]
  BY DEF ReadMore
<1>5. text = child.text + proc.pipe \/ ~SavesOutput(req)
  OBVIOUS
<1>6. end <=> proc.is = "zombie"
  OBVIOUS
<1> HIDE DEF text, end
<1>7. child \in Child
  BY DEF Typed
<1>8. /\ ReadMore(child) \in Child
      /\ ReadMore(child).refs = child.refs /\ ReadMore(child).state = child.state
      /\ ReadMore(child).timer = child.timer /\ ReadMore(child).watch = child.watch
      /\ ReadMore(child).text = text /\ ReadMore(child).atEOF = end
  BY <1>2, <1>3, <1>4, <1>7 DEF Child
<1> QED
  BY <1>2, <1>5, <1>6, <1>8

\* What a child that ends leaves to its reply: the child as it was when the end of the
\* pipe was seen, or with what it had not yet read.
Rest == IF child.atEOF THEN child ELSE ReadMore(child)

\* Then no output that is kept is missing from it.
LEMMA RestIsAll ==
    ASSUME IInv, cmd.is_running
    PROVE  /\ Rest \in Child /\ Rest.refs = 2 /\ Rest.state = child.state
           /\ Rest.text <= proc.wrote
           /\ SavesOutput(req) => Rest.text = proc.wrote
<1>1. Typed
  BY TypedIsTypeOK DEF IInv
<1>2. /\ child \in Child /\ proc \in Process /\ child.refs = 2
      /\ child.text + proc.pipe <= proc.wrote
      /\ SavesOutput(req) => child.text + proc.pipe = proc.wrote
      /\ child.atEOF => proc.pipe = 0
  BY <1>1 DEF IInv, Typed, RunningChild, OutputIsKept
<1>3. child.text \in Nat /\ proc.pipe \in Nat /\ proc.wrote \in Nat
  BY <1>2, ResourceCmdAssumption DEF Child, Process
<1>4. CASE child.atEOF
  <2>1. Rest = child
    BY <1>4 DEF Rest
  <2> QED
    BY <1>2, <1>3, <1>4, <2>1
<1>5. CASE ~child.atEOF
  <2>1. Rest = ReadMore(child)
    BY <1>5 DEF Rest
  <2> QED
    BY <1>1, <1>2, <1>3, <2>1, ReadMoreLeaves
<1> QED
  BY <1>4, <1>5


-----------------------------------------------------------------------------
\* The end of a child

\* However a child died there is an outcome for it.
LEMMA HowWeDiedIsAnOutcome == HowWeDied \in HowDied
BY DEF HowWeDied, HowDied

\* Every agent calls the callback in the same way, with its own reading of the status.
LEMMA EveryAgentReplies ==
    ASSUME NEW how, NEW text,
           \/ OcfChildNotify(how, text)
           \/ LsbChildNotify(how, text)
           \/ NagiosChildNotify(how, text)
    PROVE  \E rc \in 0 .. 7 : ChildNotify(how, rc, text)
<1>1. \A rc \in ExitCodes(how) : rc \in 0 .. 7
  BY DEF ExitCodes
<1>2. \A rc \in DOMAIN status_rc_map : status_rc_map[rc] \in 0 .. 7
  BY DEF status_rc_map
<1>3. CASE OcfChildNotify(how, text)
  BY <1>1, <1>3 DEF OcfChildNotify
<1>4. CASE NagiosChildNotify(how, text)
  BY <1>1, <1>4 DEF NagiosChildNotify
<1>5. CASE LsbChildNotify(how, text)
  <2>1. PICK rc \in ExitCodes(how) \cup IF how = "EXITED_NONZERO" THEN 1 .. 4 ELSE {} :
          ChildNotify(how, IF rc \in DOMAIN status_rc_map /\ req.operation = "monitor"
                           THEN status_rc_map[rc] ELSE rc, text)
    BY <1>5 DEF LsbChildNotify
  <2>2. rc \in 0 .. 7
    BY <1>1
  <2> DEFINE said == IF rc \in DOMAIN status_rc_map /\ req.operation = "monitor"
                     THEN status_rc_map[rc] ELSE rc
  <2>3. said \in 0 .. 7
    BY <1>2, <2>2
  <2>4. ChildNotify(how, said, text)
    BY <2>1
  <2> QED
    BY <2>3, <2>4
<1> QED
  BY <1>3, <1>4, <1>5

\* A child when it has ended, with so many references left to it
Ended(read, watch, left) ==
    [read EXCEPT !.timer = FALSE, !.state = 3, !.watch = watch, !.refs = left]

\* What is left of the child then
LEMMA EndOfAChild ==
    ASSUME NEW read \in Child, NEW watch \in BOOLEAN, NEW left \in 0 .. 2
    PROVE  /\ Ended(read, watch, left) \in Child /\ ~Ended(read, watch, left).timer
           /\ Ended(read, watch, left).state = 3 /\ Ended(read, watch, left).watch = watch
           /\ Ended(read, watch, left).text = read.text
           /\ Ended(read, watch, left).refs = left
<1>1. Ended(read, watch, left) \in Child
  <2>1. 3 \in 0 .. 3 /\ FALSE \in BOOLEAN
    OBVIOUS
  <2> QED
    BY <2>1, Zenon DEF Ended, Child
<1>2. ~Ended(read, watch, left).timer
  BY DEF Ended, Child
<1>3. Ended(read, watch, left).state = 3 /\ Ended(read, watch, left).refs = left
  BY DEF Ended, Child
<1>4. Ended(read, watch, left).watch = watch
  BY DEF Ended, Child
<1>5. Ended(read, watch, left).text = read.text
  BY DEF Ended, Child
<1> QED
  BY <1>1, <1>2, <1>3, <1>4, <1>5

\* A process whose child ends while it is still to be watched was given up on.
FateAfter(watch) == fate' \in {fate, "given up"} /\ (watch => fate' = "given up")

\* What a reply and the end of a run do to the command and its child, with all of the
\* output in hand.
LEMMA ExitKeeps ==
    ASSUME IInv, cmd.is_running, NEW read \in Child, NEW watch \in BOOLEAN,
           read.refs = 2, read.text <= proc.wrote,
           SavesOutput(req) => read.text = proc.wrote,
           ChildExit(read, watch),
           FateAfter(watch)
    PROVE  IInv'
<1>1. Typed
  BY TypedIsTypeOK DEF IInv
<1>2. /\ req \in Request /\ cmd \in Command /\ child \in Child /\ proc \in Process
      /\ replies \in Seq(Reply) /\ runs \in 0 .. MaxRuns
  BY <1>1 DEF Typed
<1>3. PICK rc \in 0 .. 7 : ChildNotify(HowWeDied, rc, read.text)
  BY EveryAgentReplies DEF ChildExit
<1>4. req' = req /\ runs' = runs
  BY DEF ChildExit
<1>5. /\ (cmd.owned /\ cmd.refs = 2) \/ (~cmd.owned /\ cmd.refs = 1)
      /\ cmd.state = "made" /\ Accepts(req) /\ child.refs = 2
      /\ proc.is \in {"alive", "zombie"} /\ ~AnsweredAtOnce(req)
  <2>1. cmd.owned \in BOOLEAN
    BY <1>2 DEF Command
  <2>2. cmd.refs = (IF cmd.owned THEN 1 ELSE 0) + 1
    BY DEF IInv, CommandIsHeld
  <2>3. (cmd.owned /\ cmd.refs = 2) \/ (~cmd.owned /\ cmd.refs = 1)
    BY <2>1, <2>2
  <2>4. cmd.state = "made" /\ Accepts(req)
    BY <2>3 DEF IInv, CommandIsHeld
  <2>5. child.refs = 2 /\ proc.is \in {"alive", "zombie"}
    BY DEF IInv, RunningChild
  <2>6. ~AnsweredAtOnce(req)
    BY <2>5 DEF IInv, OutputIsKept
  <2> QED
    BY <2>3, <2>4, <2>5, <2>6
<1>6. /\ cmd' \in Command /\ ~cmd'.is_running /\ cmd'.owned = cmd.owned
      /\ cmd.owned => cmd'.refs = 1 /\ cmd'.state = "made"
      /\ ~cmd.owned => cmd'.refs = 0 /\ cmd'.state = "finalized"
  <2> DEFINE left == cmd.refs - 1
             state == IF cmd.refs = 1 THEN "finalized" ELSE cmd.state
  <2>1. /\ cmd.owned => left = 1 /\ state = "made"
        /\ ~cmd.owned => left = 0 /\ state = "finalized"
    BY <1>5
  <2>2. left \in 0 .. 2 /\ state \in {"none", "refused", "made", "finalized"}
    BY <1>5
  <2>3. cmd' = [cmd EXCEPT !.is_running = FALSE, !.refs = left, !.state = state]
    BY <1>3 DEF ChildNotify
  <2> HIDE DEF left, state
  <2>4. /\ cmd' \in Command /\ ~cmd'.is_running /\ cmd'.owned = cmd.owned
        /\ cmd'.refs = left /\ cmd'.state = state
    BY <1>2, <2>2, <2>3 DEF Command
  <2> QED
    BY <2>1, <2>4
<1>7. /\ child' \in Child /\ ~child'.timer /\ child'.state = 3 /\ child'.watch = watch
      /\ child'.text = read.text
      /\ cmd.owned => child'.refs = 1
  <2> DEFINE left == IF cmd.refs = 1 THEN 0 ELSE read.refs - 1
  <2>1. left \in 0 .. 2 /\ (cmd.owned => left = 1)
    BY <1>5
  <2>2. child' = Ended(read, watch, left)
    BY DEF ChildExit, Ended
  <2> HIDE DEF left
  <2>3. /\ child' \in Child /\ ~child'.timer /\ child'.state = 3
        /\ child'.watch = watch /\ child'.text = read.text /\ child'.refs = left
    BY <2>1, <2>2, EndOfAChild
  <2> QED
    BY <2>1, <2>3
<1>8. /\ proc' \in Process /\ proc'.pipe = 0 /\ proc'.wrote = proc.wrote
      /\ proc'.is \in {"alive", "zombie", "reaped"}
      /\ watch => proc'.is # "reaped"
  <2> DEFINE is == IF watch THEN proc.is ELSE "reaped"
  <2>1. 0 \in 0 .. MaxOutput
    BY ResourceCmdAssumption
  <2>2. /\ is \in {"none", "alive", "zombie", "reaped"} /\ is \in {"alive", "zombie", "reaped"}
        /\ watch => is # "reaped"
    BY <1>5
  <2>3. proc' = [proc EXCEPT !.is = is, !.pipe = 0]
    BY DEF ChildExit
  <2> HIDE DEF is
  <2>4. /\ proc' \in Process /\ proc'.pipe = 0 /\ proc'.wrote = proc.wrote
        /\ proc'.is = is
    BY <1>2, <2>1, <2>2, <2>3 DEF Process
  <2> QED
    BY <2>2, <2>4
<1>9. /\ replies' \in Seq(Reply) /\ replies' # <<>>
      /\ replies'[Len(replies')].text = read.text
  <2> DEFINE reply == [how |-> HowWeDied, rc |-> rc, text |-> read.text]
  <2>1. reply \in Reply /\ reply.text = read.text
    <3>1. read.text \in 0 .. MaxOutput
      BY DEF Child
    <3> QED
      BY <3>1, HowWeDiedIsAnOutcome DEF Reply
  <2>2. replies' = Append(replies, reply)
    BY <1>3 DEF ChildNotify
  <2> HIDE DEF reply
  <2>3. Append(replies, reply) \in Seq(Reply)
    BY <1>2, <2>1
  <2>4. Len(replies) \in Nat /\ Len(Append(replies, reply)) = Len(replies) + 1
    BY <1>2, <2>1
  <2>5. Append(replies, reply)[Len(replies) + 1] = reply
    BY <1>2, <2>1, <2>4
  <2> QED
    BY <2>1, <2>2, <2>3, <2>4, <2>5
<1>10. Typed'
  <2>1. fate' \in {"none", "given up", "forgotten", "aborted"}
    BY <1>1 DEF Typed, FateAfter
  <2> QED
    BY <1>2, <1>4, <1>6, <1>7, <1>8, <1>9, <2>1 DEF Typed
<1>11. CommandIsHeld'
  BY <1>4, <1>5, <1>6, <1>8 DEF CommandIsHeld, Accepts, OcfAccepts, LsbAccepts, NagiosAccepts
<1>12. RunningChild' /\ EndedChild'
  BY <1>6, <1>7 DEF RunningChild, EndedChild, FateAfter
<1>13. OutputIsKept'
  <2>1. read.text \in Nat /\ proc.wrote \in Nat
    BY <1>2, ResourceCmdAssumption DEF Child, Process
  <2>2. child'.text + proc'.pipe <= proc'.wrote
    BY <1>7, <1>8, <2>1
  <2>3. ReplyHasOutput'
    BY <1>4, <1>8, <1>9 DEF ReplyHasOutput, SavesOutput, OcfOutputsString
  <2>4. AnsweredAtOnce(req') => proc'.is = "none"
    BY <1>4, <1>5
  <2> QED
    BY <1>4, <1>6, <1>8, <1>9, <2>2, <2>3, <2>4 DEF OutputIsKept
<1>14. ResourceCmdTypeOK'
  BY <1>10, TypedIsTypeOK, PTL
<1> QED
  BY <1>11, <1>12, <1>13, <1>14 DEF IInv


-----------------------------------------------------------------------------
\* Every step keeps the invariant

\* The parts of the invariant after a step make it up.
LEMMA PartsMakeInv ==
    ASSUME Typed', CommandIsHeld', RunningChild', EndedChild', OutputIsKept'
    PROVE  IInv'
<1>1. ResourceCmdTypeOK'
  BY TypedIsTypeOK, PTL
<1> QED
  BY <1>1 DEF IInv

\* Before there is a command there is no child, and making one starts none.
LEMMA NewKeeps ==
    ASSUME IInv, ResourceCmdNew
    PROVE  IInv'
<1> USE DEF ResourceCmdNew
<1>1. Typed
  BY TypedIsTypeOK DEF IInv
<1>2. /\ cmd \in Command /\ cmd.owned \in BOOLEAN /\ cmd.is_running \in BOOLEAN
      /\ cmd.refs \in 0 .. 2
  BY <1>1 DEF Typed, Command
<1>3. /\ cmd.refs = 0 /\ ~cmd.owned /\ ~cmd.is_running /\ proc.is = "none"
  BY <1>2 DEF IInv, CommandIsHeld
<1>4. /\ cmd' \in Command /\ ~cmd'.is_running
      /\ \/ cmd'.state = "made" /\ cmd'.refs = 1 /\ cmd'.owned /\ Accepts(req)
         \/ cmd'.state = "refused" /\ cmd'.refs = 0 /\ ~cmd'.owned
  <2>1. CASE Accepts(req) /\ Named(req)
    <3>1. cmd' = [cmd EXCEPT !.state = "made", !.refs = 1, !.owned = TRUE]
      BY <2>1
    <3>2. cmd' \in Command
      <4>1. 1 \in 0 .. 2 /\ TRUE \in BOOLEAN /\ "made" \in {"none", "refused", "made", "finalized"}
        OBVIOUS
      <4> QED
        BY <1>2, <3>1, <4>1, Zenon DEF Command
    <3>3. cmd'.state = "made" /\ cmd'.refs = 1
      <4>1. "state" \in DOMAIN cmd /\ "refs" \in DOMAIN cmd
        BY <1>2 DEF Command
      <4> QED
        BY <3>1, <4>1, Zenon
    <3>4. ~cmd'.is_running
      BY <1>2, <1>3, <3>1 DEF Command
    <3>5. cmd'.owned
      BY <1>2, <3>1 DEF Command
    <3> QED
      BY <2>1, <3>2, <3>3, <3>4, <3>5
  <2>2. CASE ~(Accepts(req) /\ Named(req))
    <3>1. cmd' = [cmd EXCEPT !.state = "refused"]
      BY <2>2
    <3> QED
      BY <1>2, <1>3, <3>1 DEF Command
  <2> QED
    BY <2>1, <2>2
<1>5. Typed'
  BY <1>1, <1>4 DEF Typed
<1>6. CommandIsHeld'
  BY <1>3, <1>4 DEF CommandIsHeld, Accepts, OcfAccepts, LsbAccepts, NagiosAccepts
<1>7. RunningChild' /\ EndedChild'
  BY <1>3, <1>4 DEF IInv, RunningChild, EndedChild
<1>8. OutputIsKept'
  BY <1>3, <1>4 DEF IInv, OutputIsKept, ReplyHasOutput
<1> QED
  BY <1>5, <1>6, <1>7, <1>8, PartsMakeInv

\* A child writes into its pipe.
LEMMA WriteKeeps ==
    ASSUME IInv, Write
    PROVE  IInv'
<1> USE DEF Write
<1>1. Typed
  BY TypedIsTypeOK DEF IInv
<1>2. /\ proc \in Process /\ proc.is = "alive"
      /\ proc.wrote \in 0 .. MaxOutput /\ proc.pipe \in 0 .. MaxOutput
      /\ child.text \in 0 .. MaxOutput
  BY <1>1 DEF Typed, Process, Child
<1>3. /\ child.text + proc.pipe <= proc.wrote
      /\ cmd.is_running /\ SavesOutput(req) => child.text + proc.pipe = proc.wrote
      /\ cmd.is_running => ~child.atEOF
  BY <1>2 DEF IInv, OutputIsKept
<1>4. proc.wrote + 1 \in 0 .. MaxOutput /\ proc.pipe + 1 \in 0 .. MaxOutput
  BY <1>2, <1>3, ResourceCmdAssumption
<1>5. proc' = [proc EXCEPT !.wrote = proc.wrote + 1, !.pipe = proc.pipe + 1]
  OBVIOUS
<1>6. /\ proc' \in Process /\ proc'.is = "alive" /\ proc'.signals = proc.signals
      /\ proc'.wrote = proc.wrote + 1 /\ proc'.pipe = proc.pipe + 1
  BY <1>2, <1>4, <1>5 DEF Process
<1>7. Typed'
  BY <1>1, <1>6 DEF Typed
<1>8. CommandIsHeld' /\ RunningChild' /\ EndedChild'
  BY <1>2, <1>6 DEF IInv, CommandIsHeld, RunningChild, EndedChild
<1>9. OutputIsKept'
  <2>1. /\ child'.text + proc'.pipe <= proc'.wrote
        /\ cmd'.is_running /\ SavesOutput(req') => child'.text + proc'.pipe = proc'.wrote
    BY <1>2, <1>3, <1>6, ResourceCmdAssumption DEF SavesOutput, OcfOutputsString
  <2>2. AnsweredAtOnce(req') => proc'.is = "none"
    BY <1>2 DEF IInv, OutputIsKept
  <2> QED
    BY <1>3, <1>6, <2>1, <2>2 DEF OutputIsKept, ReplyHasOutput
<1> QED
  BY <1>7, <1>8, <1>9, PartsMakeInv

\* A process ends.
LEMMA DieKeeps ==
    ASSUME IInv, Die
    PROVE  IInv'
<1> USE DEF Die
<1>1. Typed
  BY TypedIsTypeOK DEF IInv
<1>2. proc \in Process /\ proc.is = "alive"
  BY <1>1 DEF Typed
<1>3. PICK status \in {"zero", "nonzero", "signal"} :
        proc' = [proc EXCEPT !.is = "zombie", !.status = status]
  OBVIOUS
<1>4. /\ proc' \in Process /\ proc'.is = "zombie" /\ proc'.signals = proc.signals
      /\ proc'.wrote = proc.wrote /\ proc'.pipe = proc.pipe
  BY <1>2, <1>3 DEF Process
<1>5. Typed'
  BY <1>1, <1>4 DEF Typed
<1>6. CommandIsHeld' /\ RunningChild' /\ EndedChild'
  BY <1>2, <1>4 DEF IInv, CommandIsHeld, RunningChild, EndedChild
<1>7. OutputIsKept'
  <2>1. AnsweredAtOnce(req') => proc'.is = "none"
    BY <1>2 DEF IInv, OutputIsKept
  <2>2. SavesOutput(req') <=> SavesOutput(req)
    BY DEF SavesOutput, OcfOutputsString
  <2> QED
    BY <1>2, <1>4, <2>1, <2>2 DEF IInv, OutputIsKept, ReplyHasOutput
<1> QED
  BY <1>5, <1>6, <1>7, PartsMakeInv


\* The main loop reads the pipe: what was in it is text now, or of no use.
LEMMA ReadPipeKeeps ==
    ASSUME IInv, ReadPipe
    PROVE  IInv'
<1>1. Typed
  BY TypedIsTypeOK DEF IInv
<1>2. /\ proc \in Process /\ child \in Child /\ child.text + proc.pipe <= proc.wrote
      /\ proc.wrote \in Nat /\ proc.pipe \in Nat /\ child.text \in Nat
  <2>1. proc \in Process /\ child \in Child
    BY <1>1 DEF Typed
  <2> QED
    BY <2>1, ResourceCmdAssumption DEF Process, Child, IInv, OutputIsKept
<1>3. /\ child.refs > 0 /\ child' = ReadMore(child)
      /\ proc' = [proc EXCEPT !.pipe = 0]
      /\ UNCHANGED <<req, cmd, replies, runs, fate>>
  BY DEF ReadPipe, PipeIsReady
<1>4. /\ proc' \in Process /\ proc'.is = proc.is /\ proc'.pipe = 0
      /\ proc'.wrote = proc.wrote /\ proc'.signals = proc.signals
  BY <1>2, <1>3, ResourceCmdAssumption DEF Process
<1>5. /\ child' \in Child
      /\ child'.refs = child.refs /\ child'.state = child.state
      /\ child'.timer = child.timer /\ child'.watch = child.watch
      /\ child'.text <= proc.wrote
      /\ SavesOutput(req) => child'.text = child.text + proc.pipe
      /\ child'.atEOF <=> proc.is = "zombie"
  BY <1>1, <1>2, <1>3, ReadMoreLeaves
<1>6. Typed'
  BY <1>1, <1>3, <1>4, <1>5 DEF Typed
<1>7. CommandIsHeld'
  BY <1>3, <1>4 DEF IInv, CommandIsHeld
<1>8. RunningChild' /\ EndedChild'
  BY <1>3, <1>4, <1>5 DEF IInv, RunningChild, EndedChild
<1>9. OutputIsKept'
  <2>1. child'.text \in Nat
    BY <1>5, ResourceCmdAssumption DEF Child
  <2>2. SavesOutput(req') <=> SavesOutput(req)
    BY <1>3 DEF SavesOutput, OcfOutputsString
  <2>3. /\ child'.text + proc'.pipe <= proc'.wrote
        /\ cmd'.is_running /\ SavesOutput(req') => child'.text + proc'.pipe = proc'.wrote
    BY <1>2, <1>3, <1>4, <1>5, <2>1, <2>2 DEF IInv, OutputIsKept
  <2>4. AnsweredAtOnce(req') => proc'.is = "none"
    BY <1>3, <1>4 DEF IInv, OutputIsKept
  <2>5. ReplyHasOutput'
    BY <1>3, <1>4, <2>2 DEF IInv, OutputIsKept, ReplyHasOutput
  <2>6. proc'.is = "reaped" => proc'.pipe = 0 /\ replies' # <<>>
    BY <1>3, <1>4 DEF IInv, OutputIsKept
  <2>7. cmd'.is_running /\ child'.atEOF => proc'.is = "zombie" /\ proc'.pipe = 0
    BY <1>4, <1>5
  <2> QED
    BY <2>3, <2>4, <2>5, <2>6, <2>7 DEF OutputIsKept
<1> QED
  BY <1>6, <1>7, <1>8, <1>9, PartsMakeInv

\* A child that is watched and has not ended belongs to a run.
LEMMA Watched ==
    ASSUME IInv, child.watch, child.state < 3
    PROVE  cmd.is_running
<1>1. child.state # 3
  OBVIOUS
<1>2. ~cmd.is_running => child.state = 3
  BY DEF IInv, EndedChild
<1> QED
  BY <1>1, <1>2

\* The exit of a process that was not given up on.
LEMMA ReapKeeps ==
    ASSUME IInv, Reap
    PROVE  IInv'
<1>1. cmd.is_running
  BY Watched DEF Reap
<1>2. ChildExit(Rest, FALSE)
  BY DEF Reap, Rest
<1>3. FateAfter(FALSE)
  BY DEF Reap, FateAfter
<1> QED
  BY <1>1, <1>2, <1>3, RestIsAll, ExitKeeps

\* The time limit of a child that did not heed its signals.
LEMMA GiveUpKeeps ==
    ASSUME IInv, GiveUp
    PROVE  IInv'
<1>1. cmd.is_running
  <2>1. cmd.is_running \in BOOLEAN
    BY DEF IInv, ResourceCmdTypeOK
  <2> QED
    BY <2>1 DEF IInv, EndedChild, GiveUp
<1>2. ChildExit(Rest, TRUE)
  BY DEF GiveUp, Rest
<1>3. FateAfter(TRUE)
  BY DEF GiveUp, FateAfter
<1> QED
  BY <1>1, <1>2, <1>3, RestIsAll, ExitKeeps

\* One thing after another are two.
LEMMA TwoInARow ==
    ASSUME NEW S, NEW a \in S, NEW b \in S
    PROVE  Append(<<a>>, b) = <<a, b>>
<1> DEFINE s == Append(<<a>>, b)
           t == <<a, b>>
<1>1. <<a>> \in Seq(S) /\ Len(<<a>>) = 1 /\ <<a>>[1] = a
  OBVIOUS
<1>2. s \in Seq(S) /\ Len(s) = 2
  BY <1>1
<1>3. s[1] = a /\ s[2] = b
  BY <1>1
<1>4. t \in Seq(S) /\ Len(t) = 2 /\ t[1] = a /\ t[2] = b
  OBVIOUS
<1> HIDE DEF s, t
<1>5. \A i \in 1 .. Len(s) : s[i] = t[i]
  BY <1>2, <1>3, <1>4
<1>6. s = t
  BY <1>2, <1>4, <1>5, SeqEqual
<1> QED
  BY <1>6 DEF s, t

\* A time limit with a signal left to send.
LEMMA TimeoutKeeps ==
    ASSUME IInv, ChildTimeout
    PROVE  IInv'
<1>1. Typed
  BY TypedIsTypeOK DEF IInv
<1>2. proc \in Process /\ child \in Child /\ child.timer /\ child.state \in 0 .. 3
  BY <1>1 DEF Typed, Child, ChildTimeout
<1>3. cmd.is_running
  <2>1. cmd.is_running \in BOOLEAN
    BY DEF IInv, ResourceCmdTypeOK
  <2> QED
    BY <1>2, <2>1 DEF IInv, EndedChild
<1>4. /\ child.refs = 2 /\ child.watch
      /\ (child.state = 0 /\ proc.signals = <<>>)
         \/ (child.state = 1 /\ proc.signals = <<"SIGTERM">>)
  <2>1. child.state = 0 \/ child.state = 1
    BY <1>2 DEF ChildTimeout, signalmap
  <2> QED
    BY <1>3, <2>1 DEF IInv, RunningChild
<1>5. /\ child.state + 1 \in 0 .. 3
      /\ child' = [child EXCEPT !.state = child.state + 1]
      /\ UNCHANGED <<req, cmd, replies, runs, fate>>
  BY <1>4 DEF ChildTimeout
<1>6. /\ child' \in Child /\ child'.refs = 2 /\ child'.watch
      /\ child'.state = child.state + 1 /\ child'.text = child.text
      /\ child'.atEOF = child.atEOF
  BY <1>2, <1>4, <1>5 DEF Child
<1> DEFINE sent == Append(proc.signals, signalmap[child.state + 1])
<1>8. \/ child'.state = 1 /\ sent = <<"SIGTERM">>
      \/ child'.state = 2 /\ sent = <<"SIGTERM", "SIGKILL">>
  <2>1. CASE child.state = 0 /\ proc.signals = <<>>
    <3>1. child'.state = 1 /\ signalmap[child.state + 1] = "SIGTERM"
      BY <1>6, <2>1 DEF signalmap
    <3>2. Append(<<>>, "SIGTERM") = <<"SIGTERM">>
      OBVIOUS
    <3> QED
      BY <2>1, <3>1, <3>2
  <2>2. CASE child.state = 1 /\ proc.signals = <<"SIGTERM">>
    <3>1. child'.state = 2 /\ signalmap[child.state + 1] = "SIGKILL"
      BY <1>6, <2>2 DEF signalmap
    <3>2. Append(<<"SIGTERM">>, "SIGKILL") = <<"SIGTERM", "SIGKILL">>
      <4>1. "SIGTERM" \in {"SIGTERM", "SIGKILL"} /\ "SIGKILL" \in {"SIGTERM", "SIGKILL"}
        OBVIOUS
      <4> QED
        BY <4>1, TwoInARow, Zenon
    <3> QED
      BY <2>2, <3>1, <3>2
  <2> QED
    BY <1>4, <2>1, <2>2
<1>9. proc' = [proc EXCEPT !.signals = sent]
  BY DEF ChildTimeout
<1> HIDE DEF sent
<1>10. /\ proc' \in Process /\ proc'.is = proc.is /\ proc'.pipe = proc.pipe
       /\ proc'.wrote = proc.wrote /\ proc'.signals = sent
  BY <1>2, <1>8, <1>9 DEF Process
<1>11. Typed'
  BY <1>1, <1>5, <1>6, <1>10 DEF Typed
<1>12. CommandIsHeld'
  BY <1>5, <1>10 DEF IInv, CommandIsHeld
<1>13. RunningChild' /\ EndedChild'
  <2>1. cmd'.is_running /\ proc.is \in {"alive", "zombie"}
    BY <1>3, <1>5 DEF IInv, RunningChild
  <2> QED
    BY <1>6, <1>8, <1>10, <2>1 DEF RunningChild, EndedChild
<1>14. OutputIsKept'
  <2>1. /\ SavesOutput(req') <=> SavesOutput(req)
        /\ AnsweredAtOnce(req') <=> AnsweredAtOnce(req)
    BY <1>5 DEF SavesOutput, OcfOutputsString, AnsweredAtOnce
  <2> QED
    BY <1>5, <1>6, <1>10, <2>1 DEF IInv, OutputIsKept, ReplyHasOutput
<1> QED
  BY <1>11, <1>12, <1>13, <1>14, PartsMakeInv


\* The late exit of a process that was given up on stops the nanoprobe.
LEMMA ExitOfGivenUpKeeps ==
    ASSUME IInv, ExitOfGivenUp
    PROVE  IInv'
<1> USE DEF ExitOfGivenUp
<1>1. Typed
  BY TypedIsTypeOK DEF IInv
<1>2. Typed'
  BY <1>1 DEF Typed
<1>3. CommandIsHeld' /\ RunningChild'
  BY DEF IInv, CommandIsHeld, RunningChild
<1>4. EndedChild'
  BY DEF IInv, EndedChild
<1>5. OutputIsKept'
  <2>1. /\ SavesOutput(req') <=> SavesOutput(req)
        /\ AnsweredAtOnce(req') <=> AnsweredAtOnce(req)
    BY DEF SavesOutput, OcfOutputsString, AnsweredAtOnce
  <2> QED
    BY <2>1 DEF IInv, OutputIsKept, ReplyHasOutput
<1> QED
  BY <1>2, <1>3, <1>4, <1>5, PartsMakeInv

\* The owner lets go of the command, which goes with its child unless the child runs.
LEMMA ReleaseKeeps ==
    ASSUME IInv, Release
    PROVE  IInv'
<1>1. Typed
  BY TypedIsTypeOK DEF IInv
<1>2. /\ cmd.state = "made" /\ cmd.owned
      /\ UNCHANGED <<req, proc, replies, runs, fate>>
  BY DEF Release
<1>3. /\ cmd \in Command /\ cmd.is_running \in BOOLEAN /\ proc \in Process
      /\ child.text \in Nat /\ proc.pipe \in Nat /\ proc.wrote \in Nat
  <2>1. cmd \in Command /\ proc \in Process /\ child \in Child
    BY <1>1 DEF Typed
  <2>2. cmd.is_running \in BOOLEAN
    BY <2>1 DEF Command
  <2> QED
    BY <2>1, <2>2, ResourceCmdAssumption DEF Child, Process
<1>4. /\ cmd.is_running => cmd.refs = 2
      /\ ~cmd.is_running => cmd.refs = 1
  <2>1. cmd.refs = 1 + (IF cmd.is_running THEN 1 ELSE 0)
    BY <1>2 DEF IInv, CommandIsHeld
  <2> QED
    BY <1>3, <2>1
<1> DEFINE left == cmd.refs - 1
           state == IF cmd.refs = 1 THEN "finalized" ELSE cmd.state
<1>5. /\ cmd.is_running => left = 1 /\ state = "made"
      /\ ~cmd.is_running => left = 0 /\ state = "finalized"
  BY <1>2, <1>4
<1>6. left \in 0 .. 2 /\ state \in {"none", "refused", "made", "finalized"} /\ FALSE \in BOOLEAN
  BY <1>5
<1>7. cmd' = [cmd EXCEPT !.owned = FALSE, !.refs = left, !.state = state]
  BY DEF Release
<1> HIDE DEF left, state
<1>8. /\ cmd' \in Command /\ ~cmd'.owned /\ cmd'.is_running = cmd.is_running
      /\ cmd'.refs = left /\ cmd'.state = state
  <2>1. cmd' \in Command
    BY <1>3, <1>6, <1>7, Zenon DEF Command
  <2>2. ~cmd'.owned
    BY <1>3, <1>7 DEF Command
  <2>3. cmd'.is_running = cmd.is_running
    BY <1>3, <1>7 DEF Command
  <2>4. cmd'.refs = left /\ cmd'.state = state
    BY <1>3, <1>7 DEF Command
  <2> QED
    BY <2>1, <2>2, <2>3, <2>4
<1>9. child' = IF cmd.is_running THEN child ELSE NoChild
  BY <1>4 DEF Release
<1>10. Typed'
  BY <1>1, <1>2, <1>8, <1>9, NothingYet DEF Typed
<1>11. CommandIsHeld'
  <2>1. /\ cmd'.refs = (IF cmd'.owned THEN 1 ELSE 0) + (IF cmd'.is_running THEN 1 ELSE 0)
        /\ cmd'.state = "made" <=> cmd'.refs > 0
        /\ cmd'.state \in {"made", "finalized"}
    BY <1>3, <1>5, <1>8
  <2>2. Accepts(req')
    BY <1>2 DEF IInv, CommandIsHeld, Accepts, OcfAccepts, LsbAccepts, NagiosAccepts
  <2> QED
    BY <2>1, <2>2 DEF CommandIsHeld
<1>12. RunningChild' /\ EndedChild'
  <2>1. CASE cmd.is_running
    BY <1>2, <1>8, <1>9, <2>1 DEF IInv, RunningChild, EndedChild
  <2>2. CASE ~cmd.is_running
    BY <1>5, <1>8, <1>9, <2>2, NothingYet DEF RunningChild, EndedChild
  <2> QED
    BY <2>1, <2>2
<1>13. OutputIsKept'
  <2>1. /\ SavesOutput(req') <=> SavesOutput(req)
        /\ AnsweredAtOnce(req') <=> AnsweredAtOnce(req)
    BY <1>2 DEF SavesOutput, OcfOutputsString, AnsweredAtOnce
  <2>2. CASE cmd.is_running
    BY <1>2, <1>8, <1>9, <2>1, <2>2 DEF IInv, OutputIsKept, ReplyHasOutput
  <2>3. CASE ~cmd.is_running
    <3>1. child'.text + proc'.pipe <= proc'.wrote
      BY <1>2, <1>3, <1>9, <2>3, NothingYet DEF IInv, OutputIsKept
    <3> QED
      BY <1>2, <1>8, <2>1, <2>3, <3>1 DEF IInv, OutputIsKept, ReplyHasOutput
  <2> QED
    BY <2>2, <2>3
<1> QED
  BY <1>10, <1>11, <1>12, <1>13, PartsMakeInv


\* A child that is made anew, and a process that is spawned
Spawned == [NoProc EXCEPT !.is = "alive"]

\* The references and the state of a new child
LEMMA NewChild ==
    ASSUME NEW timeout \in Timeouts
    PROVE  /\ ChildNew(timeout) \in Child /\ ChildNew(timeout).refs = 2
           /\ ChildNew(timeout).state = 0 /\ ChildNew(timeout).watch
           /\ ChildNew(timeout).text = 0 /\ ~ChildNew(timeout).atEOF
<1>1. timeout \in BOOLEAN /\ 2 \in 0 .. 2 /\ TRUE \in BOOLEAN
  BY ResourceCmdAssumption
<1>2. NoChild \in Child
  BY NothingYet
<1>3. ChildNew(timeout) \in Child
  BY <1>1, <1>2, Zenon DEF Child, ChildNew
<1>4. /\ ChildNew(timeout).refs = 2 /\ ChildNew(timeout).state = NoChild.state
      /\ ChildNew(timeout).text = NoChild.text
  BY <1>2 DEF ChildNew, Child
<1>5. ChildNew(timeout).watch
  BY <1>2 DEF ChildNew, Child
<1>6. ChildNew(timeout).atEOF = NoChild.atEOF
  BY <1>2 DEF ChildNew, Child
<1> QED
  BY <1>3, <1>4, <1>5, <1>6, NothingYet

\* What a process is when it is spawned
LEMMA NewProcess ==
    /\ Spawned \in Process /\ Spawned.is = "alive" /\ Spawned.pipe = 0
    /\ Spawned.wrote = 0 /\ Spawned.signals = <<>>
<1>1. 0 \in 0 .. MaxOutput
  BY ResourceCmdAssumption
<1>2. Spawned = [is |-> "alive", status |-> "zero", pipe |-> 0, wrote |-> 0, signals |-> <<>>]
  BY DEF Spawned, NoProc
<1> QED
  BY <1>1, <1>2 DEF Process

\* Starting a run when none is on: the child of the run before is let go of, and there
\* is a new one or none.
LEMMA LaunchKeeps ==
    ASSUME IInv, cmd.state = "made", cmd.owned, ~cmd.is_running, ~AnsweredAtOnce(req),
           Launch, req' = req, runs' \in 0 .. MaxRuns
    PROVE  IInv'
<1>1. Typed
  BY TypedIsTypeOK DEF IInv
<1>2. cmd \in Command /\ cmd.refs = 1
  <2>1. cmd.refs = (IF cmd.owned THEN 1 ELSE 0) + (IF cmd.is_running THEN 1 ELSE 0)
    BY DEF IInv, CommandIsHeld
  <2>2. cmd.refs = 1
    BY <2>1
  <2> QED
    BY <1>1, <2>2 DEF Typed
<1>3. /\ SavesOutput(req') <=> SavesOutput(req)
      /\ AnsweredAtOnce(req') <=> AnsweredAtOnce(req)
      /\ Accepts(req') <=> Accepts(req)
  BY DEF SavesOutput, OcfOutputsString, AnsweredAtOnce, Accepts, OcfAccepts, LsbAccepts,
         NagiosAccepts
<1>4. Accepts(req')
  BY <1>3 DEF IInv, CommandIsHeld
<1>5. replies' = replies /\ fate' \in {"none", "given up", "forgotten", "aborted"}
  BY <1>1 DEF Typed, Launch
<1>6. CASE \E timeout \in Timeouts :
             /\ child' = ChildNew(timeout)
             /\ proc' = [NoProc EXCEPT !.is = "alive"]
             /\ cmd' = [cmd EXCEPT !.is_running = TRUE, !.refs = @ + 1]
  <2>1. /\ child' \in Child /\ child'.refs = 2 /\ child'.state = 0 /\ child'.watch
        /\ child'.text = 0 /\ ~child'.atEOF
    BY <1>6, NewChild
  <2>2. /\ proc' \in Process /\ proc'.is = "alive" /\ proc'.pipe = 0 /\ proc'.wrote = 0
        /\ proc'.signals = <<>>
    <3>1. proc' = Spawned
      BY <1>6 DEF Spawned
    <3> QED
      BY <3>1, NewProcess
  <2>3. /\ cmd' \in Command /\ cmd'.is_running /\ cmd'.refs = 2 /\ cmd'.owned
        /\ cmd'.state = "made"
    <3>1. cmd' = [cmd EXCEPT !.is_running = TRUE, !.refs = 2]
      BY <1>2, <1>6
    <3>2. 2 \in 0 .. 2 /\ TRUE \in BOOLEAN
      OBVIOUS
    <3>3. cmd' \in Command
      BY <1>2, <3>1, <3>2, Zenon DEF Command
    <3>4. cmd'.refs = 2 /\ cmd'.state = "made"
      BY <1>2, <3>1 DEF Command
    <3>5. cmd'.is_running
      BY <1>2, <3>1 DEF Command
    <3>6. cmd'.owned
      BY <1>2, <3>1 DEF Command
    <3> QED
      BY <3>3, <3>4, <3>5, <3>6
  <2>4. Typed'
    BY <1>1, <1>5, <2>1, <2>2, <2>3 DEF Typed
  <2>5. CommandIsHeld'
    BY <1>4, <2>3 DEF CommandIsHeld
  <2>6. RunningChild' /\ EndedChild'
    BY <2>1, <2>2, <2>3 DEF RunningChild, EndedChild
  <2>7. OutputIsKept'
    BY <1>3, <2>1, <2>2 DEF OutputIsKept, ReplyHasOutput
  <2> QED
    BY <2>4, <2>5, <2>6, <2>7, PartsMakeInv
<1>7. CASE child' = NoChild /\ proc' = NoProc /\ UNCHANGED cmd
  <2>1. Typed'
    BY <1>1, <1>5, <1>7, NothingYet DEF Typed
  <2>2. CommandIsHeld'
    BY <1>4, <1>7, NothingYet DEF IInv, CommandIsHeld
  <2>3. RunningChild' /\ EndedChild'
    BY <1>7, NothingYet DEF RunningChild, EndedChild
  <2>4. OutputIsKept'
    BY <1>3, <1>7, NothingYet DEF OutputIsKept, ReplyHasOutput
  <2> QED
    BY <2>1, <2>2, <2>3, <2>4, PartsMakeInv
<1> QED
  BY <1>6, <1>7 DEF Launch

\* An answer that needs no child.
LEMMA AnswerAtOnceKeeps ==
    ASSUME IInv, AnsweredAtOnce(req), AnswerAtOnce, req' = req, runs' \in 0 .. MaxRuns
    PROVE  IInv'
<1> USE DEF AnswerAtOnce
<1>1. Typed
  BY TypedIsTypeOK DEF IInv
<1>2. proc.is = "none"
  BY DEF IInv, OutputIsKept
<1> DEFINE reply == [how |-> "EXITED_ZERO", rc |-> 0, text |-> 0]
<1>3. reply \in Reply
  BY ResourceCmdAssumption DEF Reply, HowDied
<1>4. replies' \in Seq(Reply)
  <2>1. replies \in Seq(Reply) /\ replies' = Append(replies, reply)
    BY <1>1 DEF Typed
  <2> HIDE DEF reply
  <2> QED
    BY <1>3, <2>1
<1>5. UNCHANGED <<cmd, child, proc, fate>>
  OBVIOUS
<1>6. Typed'
  BY <1>1, <1>4, <1>5 DEF Typed
<1>7. CommandIsHeld'
  BY <1>5 DEF IInv, CommandIsHeld, Accepts, OcfAccepts, LsbAccepts, NagiosAccepts
<1>8. RunningChild' /\ EndedChild'
  BY <1>5 DEF IInv, RunningChild, EndedChild
<1>9. OutputIsKept'
  <2>1. SavesOutput(req') <=> SavesOutput(req)
    BY DEF SavesOutput, OcfOutputsString
  <2> QED
    BY <1>2, <1>5, <2>1 DEF IInv, OutputIsKept, ReplyHasOutput
<1> QED
  BY <1>6, <1>7, <1>8, <1>9, PartsMakeInv

\* A step that changes nothing but the count of the executions
LEMMA CountKeeps ==
    ASSUME IInv, UNCHANGED <<req, cmd, child, proc, replies, fate>>, runs' \in 0 .. MaxRuns
    PROVE  IInv'
<1>1. Typed
  BY TypedIsTypeOK DEF IInv
<1>2. Typed'
  BY <1>1 DEF Typed
<1>3. CommandIsHeld'
  BY DEF IInv, CommandIsHeld, Accepts, OcfAccepts, LsbAccepts, NagiosAccepts
<1>4. RunningChild' /\ EndedChild'
  BY DEF IInv, RunningChild, EndedChild
<1>5. OutputIsKept'
  <2>1. /\ SavesOutput(req') <=> SavesOutput(req)
        /\ AnsweredAtOnce(req') <=> AnsweredAtOnce(req)
    BY DEF SavesOutput, OcfOutputsString, AnsweredAtOnce
  <2> QED
    BY <2>1 DEF IInv, OutputIsKept, ReplyHasOutput
<1> QED
  BY <1>2, <1>3, <1>4, <1>5, PartsMakeInv

\* The owner executes its command, which does nothing while it runs.
LEMMA ExecuteKeeps ==
    ASSUME IInv, Execute
    PROVE  IInv'
<1>1. cmd.state = "made" /\ cmd.owned /\ req' = req
  BY DEF Execute
<1>2. runs' \in 0 .. MaxRuns
  <2>1. runs \in 0 .. MaxRuns
    BY DEF IInv, ResourceCmdTypeOK
  <2> QED
    BY <2>1, ResourceCmdAssumption DEF Execute
<1>3. CASE cmd.is_running
  <2>1. UNCHANGED <<req, cmd, child, proc, replies, fate>>
    BY <1>3 DEF Execute
  <2> QED
    BY <1>2, <2>1, CountKeeps
<1>4. CASE ~cmd.is_running
  <2>1. OcfExecute \/ LsbExecute \/ NagiosExecute
    BY <1>4 DEF Execute
  <2>2. CASE AnsweredAtOnce(req)
    <3>1. AnswerAtOnce
      BY <2>1, <2>2 DEF OcfExecute, LsbExecute, NagiosExecute, AnsweredAtOnce
    <3> QED
      BY <1>1, <1>2, <2>2, <3>1, AnswerAtOnceKeeps
  <2>3. CASE ~AnsweredAtOnce(req)
    <3>1. Launch
      BY <2>1, <2>3 DEF OcfExecute, LsbExecute, NagiosExecute
    <3> QED
      BY <1>1, <1>2, <1>4, <2>3, <3>1, LaunchKeeps
  <2> QED
    BY <2>2, <2>3
<1> QED
  BY <1>3, <1>4

-----------------------------------------------------------------------------
\* The theorems

\* Every step of the code keeps the invariant.
LEMMA StepKeeps == IInv /\ [ResourceCmdNext]_resourceCmdVars => IInv'
<1> SUFFICES ASSUME IInv, [ResourceCmdNext]_resourceCmdVars PROVE IInv'
  OBVIOUS
<1>1. CASE UNCHANGED resourceCmdVars
  <2>1. runs' \in 0 .. MaxRuns
    BY <1>1 DEF resourceCmdVars, IInv, ResourceCmdTypeOK
  <2> QED
    BY <1>1, <2>1, CountKeeps DEF resourceCmdVars
<1>2. CASE ResourceCmdNew
  BY <1>2, NewKeeps
<1>3. CASE Execute
  BY <1>3, ExecuteKeeps
<1>4. CASE Write
  BY <1>4, WriteKeeps
<1>5. CASE Die
  BY <1>5, DieKeeps
<1>6. CASE ReadPipe
  BY <1>6, ReadPipeKeeps
<1>7. CASE Reap
  BY <1>7, ReapKeeps
<1>8. CASE ChildTimeout
  BY <1>8, TimeoutKeeps
<1>9. CASE GiveUp
  BY <1>9, GiveUpKeeps
<1>10. CASE ExitOfGivenUp
  BY <1>10, ExitOfGivenUpKeeps
<1>11. CASE Release
  BY <1>11, ReleaseKeeps
<1> QED
  BY <1>1, <1>2, <1>3, <1>4, <1>5, <1>6, <1>7, <1>8, <1>9, <1>10, <1>11
     DEF ResourceCmdNext

\* So it holds always.
LEMMA AlwaysIInv == ResourceCmdSpec => []IInv
BY InitHolds, StepKeeps, PTL DEF ResourceCmdSpec

\* The state of a command, its child and its process has its type, whatever the
\* requests, the executions and the output.
THEOREM CommandTypeCorrect == ResourceCmdSpec => []ResourceCmdTypeOK
<1>1. IInv => ResourceCmdTypeOK
  BY DEF IInv
<1> QED
  BY <1>1, AlwaysIInv, PTL

\* A child that is watched for its exit is there when it exits, and so is its command,
\* unless its process was given up on; and a command that is there has the child of its
\* last run.
THEOREM ChildIsThere == ResourceCmdSpec => []ChildOutlivesWatch
<1>1. IInv => ChildOutlivesWatch
  <2> SUFFICES ASSUME IInv PROVE ChildOutlivesWatch
    OBVIOUS
  <2>1. CASE cmd.is_running
    <3>1. cmd.owned \in BOOLEAN
      BY DEF IInv, ResourceCmdTypeOK
    <3>2. cmd.refs > 0
      BY <2>1, <3>1 DEF IInv, CommandIsHeld
    <3>3. cmd.state = "made"
      BY <3>2 DEF IInv, CommandIsHeld
    <3>4. child.refs > 0
      BY <2>1 DEF IInv, RunningChild
    <3> QED
      BY <3>3, <3>4 DEF ChildOutlivesWatch
  <2>2. CASE ~cmd.is_running
    <3>1. child.watch => fate \in {"given up", "aborted"}
      BY <2>2 DEF IInv, EndedChild
    <3>2. proc.is # "none" /\ cmd.state = "made" => child.refs = 1
      BY <2>2 DEF IInv, EndedChild
    <3>3. proc.is # "none" /\ cmd.state = "made" => child.refs > 0
      BY <3>2
    <3>4. ~(child.watch /\ fate \notin {"given up", "aborted"})
      BY <3>1
    <3> QED
      BY <3>3, <3>4, Zenon DEF ChildOutlivesWatch
  <2> QED
    BY <2>1, <2>2
<1> QED
  BY <1>1, AlwaysIInv, PTL

\* The reply about a process that ended has all the process wrote, when the agent is one
\* that keeps the output.
THEOREM ReplyIsComplete == ResourceCmdSpec => []ReplyHasOutput
<1>1. IInv => ReplyHasOutput
  BY DEF IInv, OutputIsKept
<1> QED
  BY <1>1, AlwaysIInv, PTL
===============================================================================
