------------------------------ MODULE Discovery ------------------------------
(***************************************************************************)
(* Discovery by agents (clientlib/discovery.c and jsondiscovery.c).  A     *)
(* JsonDiscovery runs an agent as a child process, when it is registered   *)
(* and then at its interval, and sends the output to the CMA unless it was *)
(* sent before.  The state of all of it is one record d:                   *)
(*   obj[o]   the object at address o; refs = 0 is a free address          *)
(*   table    _discovery_timers: the object registered for an instance     *)
(*   value    the string of that name in the configuration                 *)
(* Each C function is an operator from such a record to the one it leaves. *)
(***************************************************************************)
EXTENDS Naturals, FiniteSets

CONSTANTS
    Instances,  \* instance names of discoveries
    Outputs,    \* outputs of a discovery agent that are legal JSON
    Objects     \* addresses of Discovery objects

CONSTANTS NoObject, NoOutput

ASSUME DiscoveryAssumption ==
    /\ NoObject \notin Objects
    /\ NoOutput \notin Outputs

VARIABLES
    d,          \* the discovery objects, their table and their cached output
    told        \* history: the last output the CMA was sent for an instance

Free == [name |-> NoObject, refs |-> 0, repeats |-> FALSE, timer |-> FALSE,
         child |-> FALSE, sentyet |-> FALSE]

JsonObject ==
    [name : Instances, refs : 1 .. 3, repeats : BOOLEAN, timer : BOOLEAN,
     child : BOOLEAN, sentyet : BOOLEAN]

DiscoveryTypeOK ==
    /\ d.obj \in [Objects -> JsonObject \cup {Free}]
    /\ d.table \in [Instances -> Objects \cup {NoObject}]
    /\ d.value \in [Instances -> Outputs \cup {NoOutput}]
    /\ told \in [Instances -> Outputs \cup {NoOutput}]

DiscoveryInit ==
    /\ d = [obj |-> [o \in Objects |-> Free],
            table |-> [i \in Instances |-> NoObject],
            value |-> [i \in Instances |-> NoOutput]]
    /\ told = [i \in Instances |-> NoOutput]

InUse(s) == {o \in Objects : s.obj[o].refs > 0}
Running(s) == {o \in Objects : s.obj[o].child}
Ticking(s) == {o \in Objects : s.obj[o].timer}

\* Mutant: skips nothing, a second child replaces the first.
DiscoverAlways(s, o, spawned) ==
    IF ~spawned THEN s ELSE [s EXCEPT !.obj[o].child = TRUE, !.obj[o].refs = @ + 1]

\* _jsondiscovery_discover: the object keeps itself while its child runs.  One
\* whose child still runs skips a turn.  A spawn that fails ends the timer when
\* it was the timer that called.
Discover(s, o, spawned) ==
    IF s.obj[o].child \/ ~spawned THEN s
    ELSE [s EXCEPT !.obj[o].child = TRUE, !.obj[o].refs = @ + 1]

Rediscover(s, o, spawned) ==
    LET run == Discover(s, o, spawned)
    IN  [run EXCEPT !.obj[o].timer = s.obj[o].child \/ spawned]

\* Mutant: a finalized object leaves its timer running and its entry in place.
FinalizeForgetsTimer(s, o) == [s EXCEPT !.obj[o].refs = 0]

\* _discovery_ghash_destructor: the table drops its reference to an object that it no
\* longer holds.  When that is the last one there is nothing to take out of the table.
TableDrops(s, p) ==
    IF s.obj[p].refs = 1 THEN [s EXCEPT !.obj[p] = Free]
    ELSE [s EXCEPT !.obj[p].refs = @ - 1]

\* _discovery_finalize takes whatever is registered under the instance name out
\* of the table, be it this object or one that displaced it.
Finalize(s, o) ==
    LET i == s.obj[o].name
        p == s.table[i]
        gone == [s EXCEPT !.obj[o] = Free, !.table[i] = NoObject]
    IN  IF p \in {o, NoObject} THEN gone ELSE TableDrops(gone, p)

Unref(s, o) ==
    IF s.obj[o].refs = 1 THEN Finalize(s, o)
    ELSE [s EXCEPT !.obj[o].refs = @ - 1]

\* discovery_register: discover, start the timer, and enter the object in the
\* table.  g_hash_table_replace drops the old entry after the new one is there.
Register(s, o, spawned) ==
    LET run == Discover(s, o, spawned)
        old == run.table[run.obj[o].name]
        new == [run EXCEPT !.obj[o].timer = @ \/ run.obj[o].repeats,
                           !.obj[o].refs = @ + 1,
                           !.table[run.obj[o].name] = o]
    IN  IF old = NoObject THEN new ELSE Unref(new, old)

\* discovery_new
DiscoveryNew(i, repeats) == [Free EXCEPT !.name = i, !.refs = 1, !.repeats = repeats]

\* jsondiscovery_new makes and registers the object.
JsonDiscoveryNew(s, o, i, repeats, spawned) ==
    Register([s EXCEPT !.obj[o] = DiscoveryNew(i, repeats)], o, spawned)

\* nano_schedule_discovery, for an agent that exists, drops its own reference.
Schedule(s, o, i, repeats, spawned) ==
    Unref(JsonDiscoveryNew(s, o, i, repeats, spawned), o)

\* discovery_unregister_all: each object loses the reference of the table, which
\* is no longer there to be looked at.
UnregisterAll(s) ==
    LET In(o) == o \in {s.table[i] : i \in Instances}
    IN  [s EXCEPT
           !.table = [i \in Instances |-> NoObject],
           !.obj = [o \in Objects |->
                      IF ~In(o) THEN s.obj[o]
                      ELSE IF s.obj[o].refs = 1 THEN Free
                      ELSE [s.obj[o] EXCEPT !.refs = @ - 1]]]

\* _discovery_sendjson: what was sent before is not sent again.  Without the
\* address of the CMA the output is only kept.
IsNews(s, o, out) == ~(s.obj[o].sentyet /\ s.value[s.obj[o].name] = out)

\* Mutant: the output counts as sent although there was nobody to send it to.
SendJsonMarksEarly(s, o, out, cmaKnown) ==
    IF ~IsNews(s, o, out) THEN s
    ELSE [s EXCEPT !.value[s.obj[o].name] = out, !.obj[o].sentyet = TRUE]

SendJson(s, o, out, cmaKnown) ==
    IF ~IsNews(s, o, out) THEN s
    ELSE [s EXCEPT !.value[s.obj[o].name] = out, !.obj[o].sentyet = @ \/ cmaKnown]

\* _jsondiscovery_childwatch, for an agent that gave output or one that failed.
ChildWatch(s, o, out, cmaKnown) ==
    LET sent == IF out = NoOutput THEN s ELSE SendJson(s, o, out, cmaKnown)
    IN  Unref([sent EXCEPT !.obj[o].child = FALSE], o)
=============================================================================
