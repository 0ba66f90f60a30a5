---------------------------- MODULE ResourceQueue -----------------------------
(***************************************************************************)
(* The queue of resource operations of a nanoprobe: resourcequeue.c, the    *)
(* commands it runs (resourcecmd.c, resourceocf.c and resourcenagios.c) and *)
(* the part of nanoprobe.c that uses it.  All of it runs from one main      *)
(* loop, so a request, the timer and the exit of a child are one action     *)
(* each; what interleaves is their order, and time.                         *)
(*                                                                         *)
(* q is the ResourceQueue with everything it points to.  Its elements       *)
(* (RscQElem) and commands (ResourceCmd) live in memory that is freed and   *)
(* allocated again; a pointer is the address of one.  Operators take a      *)
(* queue and return it as the C function leaves it.                         *)
(***************************************************************************)
EXTENDS Naturals, FiniteSets, SequencesExt

CONSTANTS
  Resource,     \* names of resources
  ReqId,        \* request ids the CMA uses
  Slot,         \* addresses of queue elements
  Address,      \* addresses of commands
  NULL,
  MaxRequests,  \* bound on requests that are queued
  MaxFailures   \* bound on processes that cannot be spawned

\* Memory is finite.
ASSUME AddressAssumption == IsFiniteSet(Address)
ASSUME ReqIdAssumption   == ReqId \subseteq Nat \ {0}
ASSUME LimitAssumption   == MaxRequests \in Nat /\ MaxFailures \in Nat

VARIABLES
  q,
  stopped,      \* nano_shutting_down; RscQ has been released
  aborted,      \* a cast of a freed object has stopped the process
  requests      \* how many requests have been queued

vars == <<q, stopped, aborted, requests>>

Elem == [cmd          : Address,
         requestid    : ReqId,
         repeats      : BOOLEAN,    \* repeatinterval > 0
         cancelonfail : BOOLEAN]

Command == [resource     : Resource,
            user_data    : Slot,    \* the element endnotify is called for
            due          : BOOLEAN, \* now >= starttime
            is_running   : BOOLEAN, \* a child process is executing it
            last_success : BOOLEAN,
            told         : {"nothing", "success", "failure"}]
                                    \* history: the last call of its callback

ASSUME NullAssumption == NULL \notin Elem \cup Command

ResourceQueueType ==
  [queue   : [Resource -> Seq(Slot)],           \* resources; <<>> is no entry
   elem    : [Slot -> Elem \cup {NULL}],
   cmd     : [Address -> Command \cup {NULL}],
   timer   : BOOLEAN,                           \* timerid >= 0
   activechildcnt : Nat,
   refs    : Nat,
   freed   : BOOLEAN,                           \* finalized
   failed  : 0..MaxFailures]                    \* history: failed spawns

Live(p)     == {s \in Slot : p.elem[s] # NULL}
Running(p)  == {c \in Address : p.cmd[c] # NULL /\ p.cmd[c].is_running}
InQueue(p, r) == Range(p.queue[r])

-----------------------------------------------------------------------------
(* Elements and commands. *)

\* _resource_queue_qelem_finalize: UNREF(self->cmd) frees the command unless a
\* child still refers to it.
FreeElem(p, s) ==
  [p EXCEPT !.cmd[p.elem[s].cmd] = IF @.is_running THEN @ ELSE NULL,
            !.elem[s] = NULL]

\* The same for all elements of some resources, which leave the hash table.
FreeQueues(p, S) ==
  LET gone == UNION {InQueue(p, r) : r \in S}
      unused == {p.elem[s].cmd : s \in gone} \ Running(p)
  IN  [p EXCEPT !.queue = [r \in Resource |-> IF r \in S THEN <<>> ELSE @[r]],
                !.elem  = [s \in Slot |-> IF s \in gone THEN NULL ELSE @[s]],
                !.cmd   = [c \in Address |-> IF c \in unused THEN NULL ELSE @[c]]]

\* _resource_queue_finalize.  It is called for the last reference, and every child
\* counted in activechildcnt holds one, so it never has to wait for children, and
\* endnotify never finds the queue shutting down.
Finalize(p) == [FreeQueues(p, Resource) EXCEPT !.timer = FALSE, !.freed = TRUE]

Unref(p) ==
  IF p.refs = 1 THEN Finalize([p EXCEPT !.refs = 0])
                ELSE [p EXCEPT !.refs = @ - 1]

-----------------------------------------------------------------------------
(* Running the queues. *)

\* Mutant: the running commands are not looked at.
NeverRunning(p, r) == FALSE

AnyRunning(p, r) == \E s \in InQueue(p, r) : p.cmd[p.elem[s].cmd].is_running

DueAt(p, r) == {i \in DOMAIN p.queue[r] : p.cmd[p.elem[p.queue[r][i]].cmd].due}

\* The resources for which _resource_queue_runqueue starts a command.
Ready(p) == {r \in Resource : ~AnyRunning(p, r) /\ DueAt(p, r) # {}}

FirstDue(p, r) == p.elem[p.queue[r][Min(DueAt(p, r))]].cmd

\* Mutants: the command is not counted; a failed spawn gives its reference back.
ExecuteUncounted(p, started, spawned) ==
  [p EXCEPT !.cmd = [c \in Address |->
                       IF \E r \in spawned : c = FirstDue(p, r)
                       THEN [@[c] EXCEPT !.is_running = TRUE] ELSE @[c]],
            !.refs = @ + Cardinality(started)]
ExecuteRefsSpawned(p, started, spawned) ==
  [ExecuteUncounted(p, spawned, spawned)
     EXCEPT !.activechildcnt = @ + Cardinality(started),
            !.failed         = @ + Cardinality(started \ spawned)]

\* execute of the command a resource is ready for.  The count and the reference
\* are taken before the process is spawned, which may fail.
Execute(p, started, spawned) ==
  [p EXCEPT !.cmd = [c \in Address |->
                       IF \E r \in spawned : c = FirstDue(p, r)
                       THEN [@[c] EXCEPT !.is_running = TRUE] ELSE @[c]],
            !.activechildcnt = @ + Cardinality(started),
            !.refs           = @ + Cardinality(started),
            !.failed         = @ + Cardinality(started \ spawned),
            !.timer          = @ /\ \E r \in Resource : p.queue[r] # <<>>]

\* What _resource_queue_runqueue may leave: any of its spawns may fail.
RunQueue(p) ==
  LET ready == Ready(p)
  IN  {Execute(p, ready, S) :
         S \in {T \in SUBSET ready : p.failed + Cardinality(ready \ T) <= MaxFailures}}

-----------------------------------------------------------------------------
(* Requests. *)

\* g_queue_find_custom calls its function until that returns 0, and
\* _queue_compare_requestid returns 0 for ids that differ.
FoundDuplicate(p, r, id) == \E s \in InQueue(p, r) : p.elem[s].requestid # id

\* Mutant: a timer that has run out of elements is not set again.
CmdAppendNoTimer(p, r, e, s, delayed) ==
  [p EXCEPT !.elem[s]    = e,
            !.cmd[e.cmd] = [resource |-> r, user_data |-> s, due |-> ~delayed,
                            is_running |-> FALSE, last_success |-> FALSE,
                            told |-> "nothing"],
            !.queue[r]   = Append(@, s)]

\* _resource_queue_qelem_new and the end of _resource_queue_cmd_append
CmdAppend(p, r, e, s, delayed) ==
  [p EXCEPT !.elem[s]    = e,
            !.cmd[e.cmd] = [resource |-> r, user_data |-> s, due |-> ~delayed,
                            is_running |-> FALSE, last_success |-> FALSE,
                            told |-> "nothing"],
            !.queue[r]   = Append(@, s),
            !.timer      = TRUE]

WithId(p, r, id) == {i \in DOMAIN p.queue[r] : p.elem[p.queue[r][i]].requestid = id}

\* Mutant: the element is freed and stays in its queue.
CancelInPlace(p, r, id) == FreeElem(p, p.queue[r][Min(WithId(p, r, id))])

\* _resource_queue_cancel of a request that is found: _resource_queue_cmd_remove
CancelFound(p, r, id) ==
  LET s == p.queue[r][Min(WithId(p, r, id))]
  IN  FreeElem([p EXCEPT !.queue[r] = RemoveFirst(@, s)], s)

-----------------------------------------------------------------------------
(* The end of a command. *)

\* Nothing ever sets cancelme.
ShouldRepeat(e, ok) == e.repeats /\ (e.cancelonfail => ok)

\* Mutant: a repeating request is only answered when it ends.
TellsAtEnd(e, cmd, ok) == ~ShouldRepeat(e, ok)

\* The callback is told when the request ends, or when its status flips.
Tells(e, cmd, ok) == ~ShouldRepeat(e, ok) \/ (ok # cmd.last_success)

\* _resource_queue_endnotify for element s, up to its call of runqueue
EndOf(p, s, ok) ==
  LET e    == p.elem[s]
      cmd  == p.cmd[e.cmd]
      rest == RemoveFirst(p.queue[cmd.resource], s)
  IN  [p EXCEPT !.queue[cmd.resource] = IF ShouldRepeat(e, ok) THEN Append(rest, s) ELSE rest,
                !.activechildcnt = @ - 1,
                !.cmd[e.cmd] =
                   [cmd EXCEPT !.last_success = ok,
                               !.due  = @ /\ ~ShouldRepeat(e, ok),
                               !.told = IF ~Tells(e, cmd, ok) THEN @
                                        ELSE IF ok THEN "success" ELSE "failure"]]

\* The last lines of _resourceocf_child_notify: UNREF2(self)
ChildGone(p, c) ==
  [p EXCEPT !.cmd[c] = IF \E s \in Live(p) : p.elem[s].cmd = c
                       THEN [@ EXCEPT !.is_running = FALSE] ELSE NULL]

\* ... and from there on: UNREF(parent), and the end of _resourceocf_child_notify
\* for command c, which is marked as running until endnotify has returned.
EndNotify(p, c, s, ok) ==
  LET repeat == ShouldRepeat(p.elem[s], ok)
  IN  {ChildGone(Unref(IF repeat THEN ran ELSE FreeElem(ran, s)), c) :
         ran \in RunQueue(EndOf(p, s, ok))}

-----------------------------------------------------------------------------
(* The actions. *)

Init ==
  /\ q = [queue |-> [r \in Resource |-> <<>>],
          elem  |-> [s \in Slot |-> NULL],
          cmd   |-> [c \in Address |-> NULL],
          timer |-> TRUE, activechildcnt |-> 0, refs |-> 1,
          freed |-> FALSE, failed |-> 0]
  /\ stopped = FALSE
  /\ aborted = FALSE
  /\ requests = 0

\* nanoobey_dorscoperation: _resource_queue_Qcmd of a well-formed request.  A new object may be put
\* where one was freed.  A request that is refused leaves nothing behind.
Qcmd(r, id, repeats, cancelonfail, delayed) ==
  /\ ~aborted /\ ~stopped
  /\ requests < MaxRequests
  /\ ~FoundDuplicate(q, r, id)
  /\ \E s \in Slot \ Live(q) :
       \E c \in {a \in Address : q.cmd[a] = NULL} :
         q' = CmdAppend(q, r, [cmd |-> c, requestid |-> id, repeats |-> repeats,
                               cancelonfail |-> cancelonfail], s, delayed)
  /\ requests' = requests + 1
  /\ UNCHANGED <<stopped, aborted>>

\* nanoobey_cancelrscoperation: _resource_queue_cancel.  A request without a
\* resource name cancels the first one found with its id.
Cancel(r, id) ==
  /\ ~aborted /\ ~stopped
  /\ WithId(q, r, id) # {}
  /\ q' = CancelFound(q, r, id)
  /\ UNCHANGED <<stopped, aborted, requests>>

\* nano_initiate_shutdown: cancelall and UNREF(RscQ).  Removing the last
\* element of a resource removes its entry from the hash table under the
\* iterator, after which the iterator may or may not reach the other entries.
InitiateShutdown ==
  LET busy == {r \in Resource : q.queue[r] # <<>>}
  IN  /\ ~aborted /\ ~stopped
      /\ \E reached \in SUBSET busy :
           /\ busy # {} => reached # {}
           /\ q' = Unref(FreeQueues(q, reached))
      /\ stopped' = TRUE
      /\ UNCHANGED <<aborted, requests>>

\* The timer of resourcequeue_new, once a second.
RunTimer ==
  /\ ~aborted /\ q.timer
  /\ q' \in RunQueue(q)
  /\ UNCHANGED <<stopped, aborted, requests>>

\* Time passes: the start time of a command has come.
BecomeDue(c) ==
  /\ ~aborted
  /\ q.cmd[c] # NULL /\ ~q.cmd[c].due
  /\ q' = [q EXCEPT !.cmd[c].due = TRUE]
  /\ UNCHANGED <<stopped, aborted, requests>>

\* The process of command c exits, "ok" says whether with EXITED_ZERO.
\* No command has a timeout: nothing sets timeout_secs.
ChildExit(c, ok) ==
  LET s == q.cmd[c].user_data
  IN  /\ ~aborted /\ c \in Running(q)
      /\ s \in Live(q)
      /\ q' \in EndNotify(q, c, s, ok)
      /\ UNCHANGED <<stopped, aborted, requests>>

\* CASTTOCLASS(RscQElem, user_data) of an element that has been freed
ChildExitAborts(c) ==
  /\ ~aborted /\ c \in Running(q)
  /\ q.cmd[c].user_data \notin Live(q)
  /\ aborted' = TRUE
  /\ UNCHANGED <<q, stopped, requests>>

Next ==
  \/ \E r \in Resource, id \in ReqId, repeats, cancelonfail, delayed \in BOOLEAN :
        Qcmd(r, id, repeats, cancelonfail, delayed)
  \/ \E r \in Resource, id \in ReqId : Cancel(r, id)
  \/ InitiateShutdown
  \/ RunTimer
  \/ \E c \in Address : BecomeDue(c)
  \/ \E c \in Address, ok \in BOOLEAN : ChildExit(c, ok)
  \/ \E c \in Address : ChildExitAborts(c)

Spec == Init /\ [][Next]_vars

\* The main loop runs the timer, time passes, and every process ends.
FairSpec ==
  /\ Spec
  /\ WF_vars(RunTimer)
  /\ \A c \in Address :
       /\ WF_vars(BecomeDue(c))
       /\ WF_vars((\E ok \in BOOLEAN : ChildExit(c, ok)) \/ ChildExitAborts(c))

-----------------------------------------------------------------------------
(* Properties. *)

\* Every variable has its type.
TypeOK ==
  /\ q \in ResourceQueueType
  /\ stopped \in BOOLEAN /\ aborted \in BOOLEAN
  /\ requests \in 0..MaxRequests

\* The queues hold the elements in use, each once and each under the resource
\* of its command, and every one has its command: no element leaks, and
\* runqueue and cancel only follow pointers to what is there.
QueuesHoldTheElements ==
  /\ \A s \in Live(q) :
       /\ q.cmd[q.elem[s].cmd] # NULL
       /\ s \in InQueue(q, q.cmd[q.elem[s].cmd].resource)
  /\ \A r \in Resource : \A i, j \in DOMAIN q.queue[r] :
       /\ q.queue[r][i] \in Live(q)
       /\ q.cmd[q.elem[q.queue[r][i]].cmd].resource = r
       /\ q.queue[r][i] = q.queue[r][j] => i = j

\* Every running command holds one reference to the queue object, its user
\* until the shutdown another: the object outlives the callbacks of its children,
\* and is finalized with its timer stopped.
QueueOutlivesChildren ==
  /\ q.activechildcnt = Cardinality(Running(q)) + q.failed
  /\ q.refs = q.activechildcnt + (IF stopped THEN 0 ELSE 1)
  /\ q.freed <=> q.refs = 0

\* Of the commands that are still in a queue at most one per resource runs.
OneQueuedRuns ==
  \A r \in Resource : \A s, t \in InQueue(q, r) :
    (/\ q.cmd[q.elem[s].cmd].is_running
     /\ q.cmd[q.elem[t].cmd].is_running) => s = t

\* A requester that was told something knows the present status of its
\* operation; one that was told nothing has an operation that never succeeded.
RequesterKnows ==
  \A s \in Live(q) : LET cmd == q.cmd[q.elem[s].cmd]
                     IN  cmd.last_success <=> cmd.told = "success"

\* Every queued command is run, or leaves the queue, however often another one
\* of its resource repeats.
Waiting(s, c) == q.elem[s] # NULL /\ q.elem[s].cmd = c /\ ~q.cmd[c].is_running
EveryCommandRuns ==
  \A s \in Slot, c \in Address : Waiting(s, c) ~> (aborted \/ ~Waiting(s, c))

\* resourcequeue.h: "We never execute a resource action until the previous
\* resource action on the the same resource name completes or times out."
OneActionAtATime ==
  \A c, d \in Running(q) : q.cmd[c].resource = q.cmd[d].resource => c = d

===============================================================================
