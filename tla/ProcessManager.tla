---------------------------- MODULE ProcessManager ----------------------------
(***************************************************************************)
(* ProcessManager (src/adapters/node/process-manager.ts): starting,        *)
(* stopping and restarting the processes of the spaces.  Calls for one     *)
(* space run one after another on its tail, calls for different spaces     *)
(* interleave at every await, and a stop cancels the starts before it by   *)
(* moving the space's generation on and aborting the current start.        *)
(*                                                                         *)
(* The event loop delivers one event at a time: a call, an answer of the   *)
(* operating system, a timer, the exit of a child.  The promise reactions  *)
(* it triggers all run before the next event, so an action that delivers   *)
(* an event is guarded by Settled: no reaction is outstanding.             *)
(*                                                                         *)
(* Logs, launch URLs, session cookies and error texts are left out, and    *)
(* the two kills and waits of terminate are one bounded wait.              *)
(***************************************************************************)
EXTENDS Naturals, Sequences, FiniteSets

CONSTANTS
  Name,      \* spaces
  LastPort,  \* the port range is 1..LastPort
  MaxGen,    \* bound: how often the starts of each space are cancelled
  None       \* no operation, instance, space or generation

ASSUME PortAssumption == LastPort \in Nat \ {0} /\ MaxGen \in [Name -> Nat]

Port == 1..LastPort
NoPort == 0

VARIABLES
  procs,        \* the live child processes of the operating system
  instances,    \* the instance the manager keeps for each space
  generations,
  inFlightStarts, \* the generation of the start that later calls share
  tails,        \* spaces that ever had a call
  queue,        \* the calls waiting on the tail of each space
  op,           \* the call being executed
  stage,        \* the await it is in
  port,         \* the port it is trying, and then the one it reserved
  aborted,      \* why its abort controller was fired
  reservedPorts,
  errors,       \* spaces with a recorded error
  homePreparation, \* the space whose start began the shared preparation
  preparing,    \* the preparations being executed
  awaits,       \* the preparation each start waits for
  sweep         \* the stopAll under way: its open stops, and whether one failed

vars == <<procs, instances, generations, inFlightStarts, tails, queue, op, stage, port,
          aborted, reservedPorts, errors, homePreparation, preparing, awaits, sweep>>
calls == <<generations, tails, queue>>
home == <<homePreparation, preparing, awaits>>

Op == [kind : {"start", "stop", "restart"}, gen : Nat, all : BOOLEAN]
Child == [name : Name, port : Port, serving : BOOLEAN]
Instance == [port : Port, gen : Nat, status : {"starting", "running"}, pid : BOOLEAN]

ASSUME NoneAssumption == None \notin Name \cup Op \cup Instance \cup Nat

\* The stages of startOnce in which its abort controller exists.
Abortable == {"preparing", "checking", "probing", "reserved", "endpoint", "api", "catch", "abandon"}
Terminating == {"replace", "stopping", "abandon"}
Stage == {"idle", "entry"} \cup Abortable \cup Terminating

NoSweep == [open |-> {}, failed |-> FALSE]

Init ==
  /\ procs = {}
  /\ instances = [n \in Name |-> None]
  /\ generations = [n \in Name |-> 0]
  /\ inFlightStarts = [n \in Name |-> None]
  /\ tails = {}
  /\ queue = [n \in Name |-> <<>>]
  /\ op = [n \in Name |-> None]
  /\ stage = [n \in Name |-> "idle"]
  /\ port = [n \in Name |-> NoPort]
  /\ aborted = [n \in Name |-> "no"]
  /\ reservedPorts = {} /\ errors = {}
  /\ homePreparation = None /\ preparing = {}
  /\ awaits = [n \in Name |-> None]
  /\ sweep = NoSweep

-----------------------------------------------------------------------------
Current(n) == instances[n] # None /\ instances[n].gen = op[n].gen
Stale(n) == generations[n] # op[n].gen

\* (mutant) terminate does not wait after its kill.
Gone_AtKill(n) == TRUE

\* What terminate waits for: no child is left, or the spawn gave none.
Gone(n) == instances[n] # None => ~instances[n].pid

Reaction(n) ==
  \/ op[n] = None /\ queue[n] # <<>>
  \/ stage[n] \in {"entry", "catch"}
  \/ stage[n] \in Terminating /\ Gone(n)

Settled == \A n \in Name : ~Reaction(n)

Goto(n, s) == stage' = [stage EXCEPT ![n] = s]

\* ensureGen, after the await that leads to stage s.
Ensured(n) == ~Stale(n) /\ aborted[n] = "no"
Continue(n, s) == Goto(n, IF Ensured(n) THEN s ELSE "catch")

\* forgetInstance of the instance the space has, if it has one.
Forget(n) ==
  IF instances[n] = None THEN UNCHANGED <<instances, reservedPorts>> ELSE
    /\ instances' = [instances EXCEPT ![n] = None]
    /\ reservedPorts' = reservedPorts \ {instances[n].port}

\* What start's clear leaves: its own promise is no longer shared.
InFlightAfter(n) ==
  IF op[n].kind = "start" /\ inFlightStarts[n] = op[n].gen
  THEN [inFlightStarts EXCEPT ![n] = None] ELSE inFlightStarts

\* The promise of the current call settles: its abort controller is dropped
\* and the last stop of a stopAll ends it.
Finish(n, ok) ==
  LET open == sweep.open \ (IF op[n].all THEN {n} ELSE {})
      failed == sweep.failed \/ (op[n].all /\ ~ok) IN
  /\ op' = [op EXCEPT ![n] = None]
  /\ Goto(n, "idle")
  /\ port' = [port EXCEPT ![n] = NoPort]
  /\ aborted' = [aborted EXCEPT ![n] = "no"]
  /\ inFlightStarts' = InFlightAfter(n)
  /\ sweep' = IF open = {} THEN NoSweep ELSE [open |-> open, failed |-> failed]
  /\ homePreparation' = IF op[n].all /\ open = {} /\ ~failed THEN None ELSE homePreparation

-----------------------------------------------------------------------------
(* The calls. *)

Enqueue(ns, kind, gens, all) ==
  /\ queue' = [n \in Name |->
       IF n \in ns THEN Append(queue[n], [kind |-> kind, gen |-> gens[n], all |-> all])
       ELSE queue[n]]
  /\ tails' = tails \cup ns

\* invalidate of every space in ns.  Only waitForDshEndpoint listens to the
\* abort; the other awaits find out when they are over.
Invalidate(ns) ==
  LET hit == {n \in ns : stage[n] \in Abortable /\ aborted[n] = "no"} IN
  /\ \A n \in ns : generations[n] < MaxGen[n]
  /\ generations' = [n \in Name |-> generations[n] + IF n \in ns THEN 1 ELSE 0]
  /\ aborted' = [n \in Name |-> IF n \in hit THEN "cancelled" ELSE aborted[n]]
  /\ stage' = [n \in Name |-> IF n \in hit /\ stage[n] = "endpoint" THEN "catch" ELSE stage[n]]

Start(n) ==
  /\ Settled
  /\ inFlightStarts[n] # generations[n]    \* else the call shares the promise
  /\ Enqueue({n}, "start", generations, FALSE)
  /\ inFlightStarts' = [inFlightStarts EXCEPT ![n] = generations[n]]
  /\ UNCHANGED <<procs, instances, generations, op, stage, port, aborted, reservedPorts,
                 errors, home, sweep>>

Stop(n) ==
  /\ Settled
  /\ Invalidate({n})
  /\ Enqueue({n}, "stop", generations', FALSE)
  /\ UNCHANGED <<procs, instances, inFlightStarts, op, port, reservedPorts, errors, home,
                 sweep>>

Restart(n) ==
  /\ Settled
  /\ Invalidate({n})
  /\ Enqueue({n}, "restart", generations', FALSE)
  /\ UNCHANGED <<procs, instances, inFlightStarts, op, port, reservedPorts, errors, home,
                 sweep>>

\* One stopAll at a time (bound): its callers run it in a plan of its own.
StopAll ==
  /\ Settled
  /\ sweep.open = {} /\ tails # {}
  /\ Invalidate(tails)
  /\ Enqueue(tails, "stop", generations', TRUE)
  /\ sweep' = [open |-> tails, failed |-> FALSE]
  /\ UNCHANGED <<procs, instances, inFlightStarts, op, port, reservedPorts, errors, home>>

\* (mutant) the next call runs only if the one before it succeeded.
Begin_AfterSuccess(n) ==
  /\ op[n] = None /\ queue[n] # <<>>
  /\ n \notin errors
  /\ op' = [op EXCEPT ![n] = Head(queue[n])]
  /\ queue' = [queue EXCEPT ![n] = Tail(@)]
  /\ Goto(n, IF Head(queue[n]).kind = "start" THEN "entry" ELSE "stopping")
  /\ UNCHANGED <<procs, instances, generations, inFlightStarts, tails, port, aborted,
                 reservedPorts, errors, home, sweep>>

\* The tail runs the next call, however the one before it ended.
Begin(n) ==
  /\ op[n] = None /\ queue[n] # <<>>
  /\ op' = [op EXCEPT ![n] = Head(queue[n])]
  /\ queue' = [queue EXCEPT ![n] = Tail(@)]
  /\ Goto(n, IF Head(queue[n]).kind = "start" THEN "entry" ELSE "stopping")
  /\ UNCHANGED <<procs, instances, generations, inFlightStarts, tails, port, aborted,
                 reservedPorts, errors, home, sweep>>

-----------------------------------------------------------------------------
(* stopOnce, and terminate in all its uses. *)

\* The child is gone: a stop is answered, a restart goes on to its start.
Stopped(n) ==
  /\ stage[n] = "stopping" /\ Gone(n)
  /\ Forget(n)
  /\ errors' = errors \ {n}
  /\ IF op[n].kind = "stop" THEN Finish(n, TRUE)
     ELSE Goto(n, "entry")
          /\ UNCHANGED <<op, port, aborted, inFlightStarts, homePreparation, sweep>>
  /\ UNCHANGED <<procs, calls, preparing, awaits>>

\* (mutant) a child that survives the forced kill is forgotten.
TerminateFails_Forgets(n) ==
  /\ Settled
  /\ stage[n] \in Terminating
  /\ Forget(n)
  /\ errors' = errors \cup {n}
  /\ Finish(n, FALSE)
  /\ UNCHANGED <<procs, calls, preparing, awaits>>

\* The child outlives both waits: the call fails and the instance is kept.
TerminateFails(n) ==
  /\ Settled
  /\ stage[n] \in Terminating
  /\ errors' = errors \cup {n}
  /\ Finish(n, FALSE)
  /\ UNCHANGED <<procs, instances, calls, reservedPorts, preparing, awaits>>

-----------------------------------------------------------------------------
(* startOnce, from one await to the next. *)

StaleStart(n) ==
  /\ stage[n] = "entry" /\ Stale(n)
  /\ Finish(n, FALSE)
  /\ UNCHANGED <<procs, instances, calls, reservedPorts, errors, preparing, awaits>>

\* An instance of this generation answers the call, whatever became of it.
AlreadyStarted(n) ==
  /\ stage[n] = "entry" /\ ~Stale(n) /\ Current(n)
  /\ Finish(n, TRUE)
  /\ UNCHANGED <<procs, instances, calls, reservedPorts, errors, preparing, awaits>>

Replace(n) ==
  /\ stage[n] = "entry" /\ ~Stale(n)
  /\ instances[n] # None /\ ~Current(n)
  /\ Goto(n, "replace")
  /\ UNCHANGED <<procs, instances, calls, inFlightStarts, op, port, aborted, reservedPorts,
                 errors, home, sweep>>

\* A new abort controller; then the preparation all spaces share, begun by
\* the first start that finds none.
Prepare(n) ==
  /\ instances[n] = None
  /\ stage[n] = "replace" \/ (stage[n] = "entry" /\ ~Stale(n))
  /\ aborted' = [aborted EXCEPT ![n] = "no"]
  /\ errors' = errors \ {n}
  /\ IF Stale(n) THEN Goto(n, "catch") /\ UNCHANGED home
     ELSE LET first == homePreparation = None
              of == IF first THEN n ELSE homePreparation IN
          /\ homePreparation' = of
          /\ preparing' = preparing \cup (IF first THEN {n} ELSE {})
          /\ IF of \in preparing'
             THEN Goto(n, "preparing") /\ awaits' = [awaits EXCEPT ![n] = of]
             ELSE Goto(n, "checking") /\ UNCHANGED awaits
  /\ UNCHANGED <<procs, instances, calls, inFlightStarts, op, port, reservedPorts, sweep>>

\* prepareHome ends; a failure forgets whichever preparation is recorded.
Prepared(r, ok) ==
  LET waiting == {n \in Name : awaits[n] = r} IN
  /\ Settled
  /\ r \in preparing
  /\ preparing' = preparing \ {r}
  /\ homePreparation' = IF ok THEN homePreparation ELSE None
  /\ awaits' = [n \in Name |-> IF n \in waiting THEN None ELSE awaits[n]]
  /\ stage' = [n \in Name |-> IF n \notin waiting THEN stage[n]
                              ELSE IF ok /\ Ensured(n) THEN "checking" ELSE "catch"]
  /\ UNCHANGED <<procs, instances, calls, inFlightStarts, op, port, aborted, reservedPorts,
                 errors, sweep>>

\* patchWriter.verify and ensureCli, both code of other components.
Checked(n) ==
  /\ Settled
  /\ stage[n] = "checking"
  /\ \/ Continue(n, "probing")
        /\ port' = [port EXCEPT ![n] = IF Ensured(n) THEN 1 ELSE NoPort]
     \/ Goto(n, "catch") /\ UNCHANGED port
  /\ UNCHANGED <<procs, instances, calls, inFlightStarts, op, aborted, reservedPorts, errors,
                 home, sweep>>

\* tryReserve: the reservation is made in the turn in which the listener is
\* bound; the space goes on once the listener is closed again.
TakePort(n) ==
  /\ Settled
  /\ stage[n] = "probing"
  /\ port[n] \notin reservedPorts
  /\ \A c \in procs : c.serving => c.port # port[n]
  /\ reservedPorts' = reservedPorts \cup {port[n]}
  /\ Goto(n, "reserved")
  /\ UNCHANGED <<procs, instances, calls, inFlightStarts, op, port, aborted, errors, home,
                 sweep>>

\* The port is reserved, or something listens on it: the next one is tried.
SkipPort(n) ==
  /\ Settled
  /\ stage[n] = "probing"
  /\ IF port[n] < LastPort THEN port' = [port EXCEPT ![n] = @ + 1] /\ UNCHANGED stage
     ELSE port' = [port EXCEPT ![n] = NoPort] /\ Goto(n, "catch")
  /\ UNCHANGED <<procs, instances, calls, inFlightStarts, op, aborted, reservedPorts, errors,
                 home, sweep>>

NewInstance(n, pid) ==
  [port |-> port[n], gen |-> op[n].gen, status |-> "starting", pid |-> pid]

\* (mutant) no ensureGen between the reservation and the spawn.
Spawn_Anyway(n) ==
  /\ Settled
  /\ stage[n] = "reserved"
  /\ procs' = procs \cup {[name |-> n, port |-> port[n], serving |-> FALSE]}
  /\ instances' = [instances EXCEPT ![n] = NewInstance(n, TRUE)]
  /\ Goto(n, "endpoint")
  /\ UNCHANGED <<calls, inFlightStarts, op, port, aborted, reservedPorts, errors, home, sweep>>

\* The child is spawned and recorded in one turn; spawn may also throw, or
\* give a child without a pid whose error event fires before anything else.
Spawn(n) ==
  /\ Settled
  /\ stage[n] = "reserved"
  /\ \/ /\ Ensured(n)
        /\ procs' = procs \cup {[name |-> n, port |-> port[n], serving |-> FALSE]}
        /\ instances' = [instances EXCEPT ![n] = NewInstance(n, TRUE)]
        /\ Goto(n, "endpoint") /\ UNCHANGED aborted
     \/ /\ Ensured(n)
        /\ instances' = [instances EXCEPT ![n] = NewInstance(n, FALSE)]
        /\ aborted' = [aborted EXCEPT ![n] = "died"]
        /\ Goto(n, "catch") /\ UNCHANGED procs
     \/ Goto(n, "catch") /\ UNCHANGED <<procs, instances, aborted>>
  /\ UNCHANGED <<calls, inFlightStarts, op, port, reservedPorts, errors, home, sweep>>

\* The child announces that it serves the reserved port.
Announce(n) ==
  LET child == [name |-> n, port |-> port[n], serving |-> FALSE] IN
  /\ Settled
  /\ stage[n] = "endpoint"
  /\ child \in procs
  /\ \A c \in procs : c.serving => c.port # port[n]
  /\ procs' = (procs \ {child}) \cup {[child EXCEPT !.serving = TRUE]}
  /\ Goto(n, "api")
  /\ UNCHANGED <<instances, calls, inFlightStarts, op, port, aborted, reservedPorts, errors,
                 home, sweep>>

\* The endpoint is wrong or late, the API does not answer in time, or an
\* abort is noticed when the current probe of the port is over.
NotReady(n) ==
  /\ Settled
  /\ stage[n] \in {"endpoint", "api"}
  /\ Goto(n, "catch")
  /\ UNCHANGED <<procs, instances, calls, inFlightStarts, op, port, aborted, reservedPorts,
                 errors, home, sweep>>

\* The API answered: the instance runs, unless it was cancelled or lost.
Ready(n) ==
  /\ Settled
  /\ stage[n] = "api" /\ Ensured(n) /\ instances[n] # None
  /\ instances' = [instances EXCEPT ![n].status = "running"]
  /\ Finish(n, TRUE)
  /\ UNCHANGED <<procs, calls, reservedPorts, errors, preparing, awaits>>

\* The end of the catch block: a start that was cancelled, at any time until
\* now, records no error.
Reject(n) ==
  /\ Finish(n, FALSE)
  /\ errors' = IF Stale(n) THEN errors ELSE errors \cup {n}

\* abandonStart with the start's own instance: its child is terminated.
Abandon(n) ==
  /\ stage[n] = "catch" /\ Current(n)
  /\ Goto(n, "abandon")
  /\ UNCHANGED <<procs, instances, calls, inFlightStarts, op, port, aborted, reservedPorts,
                 errors, home, sweep>>

Abandoned(n) ==
  /\ stage[n] = "abandon" /\ Gone(n)
  /\ Forget(n)
  /\ Reject(n)
  /\ UNCHANGED <<procs, calls, preparing, awaits>>

\* abandonStart without an instance: the reservation is dropped unless an
\* instance has the port.
AbandonReservation(n) ==
  /\ stage[n] = "catch" /\ ~Current(n)
  /\ reservedPorts' =
       IF instances[n] = None
          /\ \A m \in Name : instances[m] # None => instances[m].port # port[n]
       THEN reservedPorts \ {port[n]} ELSE reservedPorts
  /\ Reject(n)
  /\ UNCHANGED <<procs, instances, calls, preparing, awaits>>

-----------------------------------------------------------------------------
(* The children. *)

\* watchChild.  waitForDshEndpoint also listens to the exit; the start that
\* is past it learns of the abort later.
ChildExits(c) ==
  LET n == c.name
      own == instances[n] # None /\ instances[n].port = c.port
      starting == own /\ instances[n].status = "starting" IN
  /\ Settled
  /\ c \in procs
  /\ procs' = procs \ {c}
  /\ IF own THEN Forget(n) ELSE UNCHANGED <<instances, reservedPorts>>
  /\ stage' = IF own /\ stage[n] = "endpoint" THEN [stage EXCEPT ![n] = "catch"] ELSE stage
  /\ aborted' = IF starting /\ stage[n] \in Abortable /\ aborted[n] = "no"
                THEN [aborted EXCEPT ![n] = "died"] ELSE aborted
  /\ errors' = IF own /\ ~starting /\ stage[n] # "stopping" THEN errors \cup {n} ELSE errors
  /\ UNCHANGED <<calls, inFlightStarts, op, port, home, sweep>>

\* An error event of a child that has a pid aborts its start.
ChildError(n) ==
  /\ Settled
  /\ stage[n] \in {"endpoint", "api"} /\ aborted[n] = "no"
  /\ aborted' = [aborted EXCEPT ![n] = "died"]
  /\ stage' = IF stage[n] = "endpoint" THEN [stage EXCEPT ![n] = "catch"] ELSE stage
  /\ UNCHANGED <<procs, instances, calls, inFlightStarts, op, port, reservedPorts, errors,
                 home, sweep>>

-----------------------------------------------------------------------------
React(n) ==
  \/ Begin(n) \/ Stopped(n)
  \/ StaleStart(n) \/ AlreadyStarted(n) \/ Replace(n) \/ Prepare(n)
  \/ Abandon(n) \/ Abandoned(n) \/ AbandonReservation(n)

\* What the current call waits for happens, or its time limit passes.
Await(n) ==
  \/ TerminateFails(n)
  \/ \E ok \in BOOLEAN : awaits[n] # None /\ Prepared(awaits[n], ok)
  \/ Checked(n) \/ TakePort(n) \/ SkipPort(n) \/ Spawn(n)
  \/ Announce(n) \/ NotReady(n) \/ Ready(n)

Next ==
  \/ \E n \in Name : \/ Start(n) \/ Stop(n) \/ Restart(n)
                     \/ React(n) \/ Await(n) \/ ChildError(n)
  \/ StopAll
  \/ \E c \in procs : ChildExits(c)

Spec == Init /\ [][Next]_vars

\* Reactions run at once.  Everything awaited is bounded by a timer of the
\* code (prepareHome, dump-config, listen, readyTimeoutMs, the two kills), and
\* an event that stays due is delivered however many calls come in between.
FairSpec ==
  /\ Spec
  /\ \A n \in Name : WF_vars(React(n)) /\ SF_vars(Await(n))

-----------------------------------------------------------------------------
TypeOK ==
  /\ procs \subseteq Child
  /\ instances \in [Name -> Instance \cup {None}]
  /\ generations \in [Name -> Nat] /\ \A n \in Name : generations[n] <= MaxGen[n]
  /\ inFlightStarts \in [Name -> Nat \cup {None}]
  /\ tails \subseteq Name
  /\ queue \in [Name -> Seq(Op)]
  /\ op \in [Name -> Op \cup {None}]
  /\ stage \in [Name -> Stage]
  /\ port \in [Name -> Port \cup {NoPort}]
  /\ aborted \in [Name -> {"no", "cancelled", "died"}]
  /\ reservedPorts \subseteq Port
  /\ errors \subseteq Name
  /\ homePreparation \in Name \cup {None} /\ preparing \subseteq Name
  /\ awaits \in [Name -> Name \cup {None}]
  /\ sweep \in [open : SUBSET Name, failed : BOOLEAN]

\* A stop is answered with success only when no process of the space is
\* left: not the instance's, and none that a start before it still spawns.
StoppedMeansGone ==
  [][\A n \in Name : Stopped(n) /\ op'[n] = None => \A c \in procs' : c.name # n]_vars

\* A start that was cancelled while it waited for anything does not spawn a
\* process afterwards: a stop is not undone by a start that was called before.
CancelledNeverSpawns ==
  [][\A n \in Name : (\E c \in procs' : c.name = n) /\ (\A c \in procs : c.name # n)
       => op[n].gen = generations[n]]_vars

\* Once every space is at rest the only reserved ports are those of the
\* instances left: no outcome of a start leaks a port of the range.
NoPortLeak ==
  (\A n \in Name : stage[n] = "idle" /\ queue[n] = <<>>)
    => reservedPorts \subseteq {instances[n].port : n \in {m \in Name : instances[m] # None}}

Pending(n) == {queue[n][i] : i \in DOMAIN queue[n]} \cup ({op[n]} \ {None})

\* The promise that start calls share belongs to a start of the current or
\* an older generation that is still queued or running, so a caller never
\* joins an attempt that is already over.
SharedStartIsPending ==
  \A n \in Name : inFlightStarts[n] # None =>
    \E o \in Pending(n) : o.kind = "start" /\ o.gen = inFlightStarts[n]

\* The state invariant: the tables of the manager agree with the calls.
\* Every live child is the child of the instance its space has, so a space
\* has at most one: no failed or cancelled start, failed kill or restart
\* loses sight of a process it spawned.
NoOrphan ==
  \A c \in procs : LET i == instances[c.name] IN i # None /\ i.port = c.port /\ i.pid

Inv == TypeOK /\ SharedStartIsPending /\ NoPortLeak /\ NoOrphan

\* A space is at rest exactly when it executes no call.
StageHasACall == \A n \in Name : stage[n] = "idle" <=> op[n] = None

\* A start that has not spawned yet works for a space without an instance:
\* what it records when it spawns hides no older child.
NothingYet ==
  \A n \in Name : stage[n] \in {"preparing", "checking", "probing", "reserved"}
                    => instances[n] = None

\* A start that waits for the shared preparation waits for one that still
\* runs, so its end reaches every start that waits for it.
WaitsForALiveOne ==
  \A n \in Name : /\ stage[n] = "preparing" <=> awaits[n] # None
                  /\ awaits[n] # None => awaits[n] \in preparing

\* The port of a start is one of the range from its first probe to its spawn.
ProbesAPort == \A n \in Name : stage[n] \in {"probing", "reserved"} => port[n] # NoPort

\* The operating system runs at most one child of a space.
OneChild == \A c, d \in procs : c.name = d.name => c = d

\* Every reserved port is the port of an instance, or the one of a start
\* that has not spawned and whose end will drop the reservation.
PortsAreHeld ==
  \A p \in reservedPorts : \E n \in Name :
    \/ instances[n] # None /\ instances[n].port = p
    \/ instances[n] = None /\ stage[n] \in {"reserved", "catch"} /\ port[n] = p

\* The inductive invariant: the tables agree with the calls, and the parts
\* that make that agreement survive every step.
IInv ==
  /\ Inv /\ StageHasACall /\ NothingYet /\ WaitsForALiveOne /\ ProbesAPort
  /\ OneChild /\ PortsAreHeld

\* Whatever fails, every call is answered in the end and the calls queued
\* behind a failed one run: the tail of a space always empties again (calls
\* leave it only when they are answered), it never gets stuck.
CallsAreAnswered == \A n \in Name : []<>(Pending(n) = {})

\* Starts in flight at the same time hold different ports
\* (tasks/acceptance.md: no port collision; tests/process-manager.test.ts:
\* "different spaces start in parallel with distinct reserved ports").
DistinctPorts ==
  \A m, n \in Name : m # n =>
    ~(stage[m] \in {"reserved", "endpoint"} /\ stage[n] \in {"reserved", "endpoint"}
      /\ port[m] = port[n])
=============================================================================
