-------------------------- MODULE ProcessManagerProofs --------------------------
(***************************************************************************)
(* Proofs about ProcessManager for every set of spaces and every port      *)
(* range.  They rest on the inductive invariant IInv: which stages have no *)
(* instance yet, that a space has one child, and what holds each reserved  *)
(* port.                                                                   *)
(***************************************************************************)
EXTENDS ProcessManager, TLAPS

Unspawned == {"preparing", "checking", "probing", "reserved"}
Holding == {"reserved", "catch"}

\* The parts of the invariant about children, instances and ports.
Tables == StageHasACall /\ NothingYet /\ OneChild /\ NoOrphan /\ PortsAreHeld

-----------------------------------------------------------------------------
(* What the helpers do.                                                      *)

\* Every call is under way or at rest, never half of both.
LEMMA CallUnderWay ==
  ASSUME IInv, NEW n \in Name, stage[n] # "idle"
  PROVE  op[n] \in Op /\ op[n] # None
  BY DEF IInv, Inv, StageHasACall, TypeOK

LEMMA QueueFacts ==
  ASSUME NEW S, NEW s \in Seq(S), NEW e \in S
  PROVE  /\ Append(s, e) \in Seq(S)
         /\ \A i \in DOMAIN s : i \in DOMAIN Append(s, e) /\ Append(s, e)[i] = s[i]
         /\ \E i \in DOMAIN Append(s, e) : Append(s, e)[i] = e
<1>1. Len(Append(s, e)) = Len(s) + 1 /\ Len(s) \in Nat  OBVIOUS
<1>2. Append(s, e)[Len(s) + 1] = e  OBVIOUS
<1>3. Append(s, e) \in Seq(S)  OBVIOUS
<1>4. Len(s) + 1 \in DOMAIN Append(s, e)  BY <1>1, <1>3
<1>5. ASSUME NEW i \in DOMAIN s PROVE i \in DOMAIN Append(s, e) /\ Append(s, e)[i] = s[i]
  <2>1. i \in 1..Len(s)  OBVIOUS
  <2>2. i \in DOMAIN Append(s, e)  BY <2>1, <1>1, <1>3
  <2>3. Append(s, e)[i] = s[i]  BY <2>1
  <2> QED BY <2>2, <2>3
<1> QED BY <1>2, <1>3, <1>4, <1>5

LEMMA TailFacts ==
  ASSUME NEW S, NEW s \in Seq(S), s # <<>>
  PROVE  /\ Head(s) \in S /\ Tail(s) \in Seq(S)
         /\ \A i \in DOMAIN s : s[i] = Head(s) \/ \E j \in DOMAIN Tail(s) : Tail(s)[j] = s[i]
<1>1. Head(s) \in S /\ Tail(s) \in Seq(S) /\ Head(s) = s[1]  OBVIOUS
<1>2. ASSUME NEW i \in DOMAIN s, i # 1 PROVE \E j \in DOMAIN Tail(s) : Tail(s)[j] = s[i]
  <2>1. i \in 1..Len(s) /\ Len(s) \in Nat  OBVIOUS
  <2>2. i - 1 \in 1..(Len(s) - 1) /\ Len(Tail(s)) = Len(s) - 1  BY <2>1, <1>2
  <2>3. i - 1 \in DOMAIN Tail(s)  BY <2>2, <1>1
  <2>4. Tail(s)[i - 1] = s[(i - 1) + 1]  BY <2>2
  <2>5. (i - 1) + 1 = i  BY <2>1
  <2> QED BY <2>3, <2>4, <2>5
<1> QED BY <1>1, <1>2

LEMMA FinishFacts ==
  ASSUME IInv, NEW n \in Name, NEW ok \in BOOLEAN, stage[n] # "idle", Finish(n, ok)
  PROVE  /\ op' = [op EXCEPT ![n] = None]
         /\ stage' = [stage EXCEPT ![n] = "idle"]
         /\ port' = [port EXCEPT ![n] = NoPort]
         /\ aborted' = [aborted EXCEPT ![n] = "no"]
         /\ \A m \in Name : m # n => inFlightStarts'[m] = inFlightStarts[m]
         /\ inFlightStarts'[n] # None =>
              /\ inFlightStarts'[n] = inFlightStarts[n]
              /\ ~(op[n].kind = "start" /\ op[n].gen = inFlightStarts[n])
         /\ inFlightStarts' \in [Name -> Nat \cup {None}]
         /\ sweep' \in [open : SUBSET Name, failed : BOOLEAN]
         /\ homePreparation' \in Name \cup {None}
<1> USE DEF IInv, Inv, TypeOK
<1>1. op[n] \in Op  BY CallUnderWay
<1>2. inFlightStarts' = InFlightAfter(n)  BY DEF Finish
<1>3. /\ \A m \in Name : m # n => inFlightStarts'[m] = inFlightStarts[m]
      /\ inFlightStarts'[n] # None =>
              /\ inFlightStarts'[n] = inFlightStarts[n]
              /\ ~(op[n].kind = "start" /\ op[n].gen = inFlightStarts[n])
      /\ inFlightStarts' \in [Name -> Nat \cup {None}]
  BY <1>1, <1>2 DEF InFlightAfter, Op
<1>4. sweep' \in [open : SUBSET Name, failed : BOOLEAN]
  <2>1. op[n].all \in BOOLEAN  BY <1>1 DEF Op
  <2>2. sweep.open \in SUBSET Name /\ sweep.failed \in BOOLEAN  OBVIOUS
  <2> DEFINE open == sweep.open \ (IF op[n].all THEN {n} ELSE {})
  <2> DEFINE failed == sweep.failed \/ (op[n].all /\ ~ok)
  <2>3. open \in SUBSET Name  BY <2>2
  <2>4. failed \in BOOLEAN  OBVIOUS
  <2>5. sweep' = IF open = {} THEN NoSweep ELSE [open |-> open, failed |-> failed]
    BY DEF Finish
  <2> HIDE DEF open, failed
  <2> QED BY <2>3, <2>4, <2>5 DEF NoSweep
<1>5. homePreparation' \in Name \cup {None}  BY DEF Finish
<1> QED BY <1>3, <1>4, <1>5 DEF Finish, Goto

\* Forgetting an instance: its space has none, and its port is free.
LEMMA ForgetFacts ==
  ASSUME IInv, NEW n \in Name, Forget(n)
  PROVE  /\ instances' = [instances EXCEPT ![n] = None]
         /\ reservedPorts' \subseteq reservedPorts
         /\ instances[n] # None => instances[n].port \notin reservedPorts'
  BY DEF Forget, IInv, Inv, TypeOK

-----------------------------------------------------------------------------
(* Types.                                                                    *)

LEMMA EnqueueTypes ==
  ASSUME TypeOK, NEW ns \in SUBSET Name, NEW kind \in {"start", "stop", "restart"},
         NEW gens \in [Name -> Nat], NEW all \in BOOLEAN, Enqueue(ns, kind, gens, all)
  PROVE  queue' \in [Name -> Seq(Op)] /\ tails' \subseteq Name
<1>1. \A n \in Name : [kind |-> kind, gen |-> gens[n], all |-> all] \in Op  BY DEF Op
<1>2. \A n \in Name : queue'[n] \in Seq(Op)
  <2> TAKE n \in Name
  <2> DEFINE o == [kind |-> kind, gen |-> gens[n], all |-> all]
  <2>1. o \in Op  BY <1>1
  <2>2. queue[n] \in Seq(Op)  BY DEF TypeOK
  <2>3. queue'[n] = IF n \in ns THEN Append(queue[n], o) ELSE queue[n]  BY DEF Enqueue
  <2> HIDE DEF o
  <2> QED BY <2>1, <2>2, <2>3, QueueFacts
<1> QED BY <1>2 DEF Enqueue, TypeOK

LEMMA InvalidateTypes ==
  ASSUME TypeOK, NEW ns \in SUBSET Name, Invalidate(ns)
  PROVE  /\ generations' \in [Name -> Nat]
         /\ \A n \in Name : generations'[n] <= MaxGen[n]
         /\ aborted' \in [Name -> {"no", "cancelled", "died"}]
         /\ stage' \in [Name -> Stage]
         /\ \A n \in Name : \/ stage'[n] = stage[n]
                            \/ stage[n] = "endpoint" /\ stage'[n] = "catch"
<1> USE DEF TypeOK
<1>1. \A n \in Name : generations'[n] = generations[n] + IF n \in ns THEN 1 ELSE 0
  BY DEF Invalidate
<1>2. \A n \in Name : generations[n] \in Nat /\ MaxGen[n] \in Nat /\ (n \in ns => generations[n] < MaxGen[n])
  BY PortAssumption DEF Invalidate
<1>3. ASSUME NEW n \in Name PROVE generations'[n] \in Nat /\ generations'[n] <= MaxGen[n]
  <2>1. generations[n] \in Nat /\ MaxGen[n] \in Nat /\ generations[n] <= MaxGen[n]
    BY <1>2
  <2>2. CASE n \in ns
    <3>1. generations'[n] = generations[n] + 1 /\ generations[n] < MaxGen[n]
      BY <1>1, <1>2, <2>2
    <3> QED BY <2>1, <3>1
  <2>3. CASE n \notin ns
    <3>1. generations'[n] = generations[n] + 0  BY <1>1, <2>3
    <3> QED BY <2>1, <3>1
  <2> QED BY <2>2, <2>3
<1>4. generations' \in [Name -> Nat]  BY <1>3 DEF Invalidate
<1>5. aborted' \in [Name -> {"no", "cancelled", "died"}]  BY DEF Invalidate
<1>6. \A n \in Name : \/ stage'[n] = stage[n]
                      \/ stage[n] = "endpoint" /\ stage'[n] = "catch"
  BY DEF Invalidate
<1>7. stage' \in [Name -> Stage]  BY DEF Invalidate, Stage, Abortable
<1> QED BY <1>3, <1>4, <1>5, <1>6, <1>7

LEMMA CallTypes ==
  ASSUME TypeOK, \/ \E n \in Name : Start(n) \/ Stop(n) \/ Restart(n)
                 \/ StopAll
  PROVE  TypeOK'
<1>1. ASSUME NEW n \in Name, Start(n) PROVE TypeOK'
  <2>1. queue' \in [Name -> Seq(Op)] /\ tails' \subseteq Name
    <3>1. generations \in [Name -> Nat] /\ {n} \in SUBSET Name  BY DEF TypeOK
    <3>2. Enqueue({n}, "start", generations, FALSE)  BY <1>1 DEF Start
    <3> QED BY <3>1, <3>2, EnqueueTypes
  <2>2. inFlightStarts' \in [Name -> Nat \cup {None}]  BY <1>1 DEF Start, TypeOK
  <2> QED BY <1>1, <2>1, <2>2 DEF Start, TypeOK, home
<1>2. ASSUME NEW n \in Name, Stop(n) \/ Restart(n) PROVE TypeOK'
  <2>1. Invalidate({n}) /\ {n} \in SUBSET Name  BY <1>2 DEF Stop, Restart
  <2>2. /\ generations' \in [Name -> Nat]
        /\ \A m \in Name : generations'[m] <= MaxGen[m]
        /\ aborted' \in [Name -> {"no", "cancelled", "died"}]
        /\ stage' \in [Name -> Stage]
    BY <2>1, InvalidateTypes
  <2>3. \E kind \in {"start", "stop", "restart"} : Enqueue({n}, kind, generations', FALSE)
    BY <1>2 DEF Stop, Restart
  <2>4. queue' \in [Name -> Seq(Op)] /\ tails' \subseteq Name
    BY <2>1, <2>2, <2>3, EnqueueTypes
  <2>5. UNCHANGED <<procs, instances, inFlightStarts, op, port, reservedPorts, errors,
                    homePreparation, preparing, awaits, sweep>>
    BY <1>2 DEF Stop, Restart, home
  <2> QED BY <2>2, <2>4, <2>5 DEF TypeOK
<1>3. ASSUME StopAll PROVE TypeOK'
  <2>1. Invalidate(tails) /\ tails \in SUBSET Name  BY <1>3 DEF StopAll, TypeOK
  <2>2. /\ generations' \in [Name -> Nat]
        /\ \A m \in Name : generations'[m] <= MaxGen[m]
        /\ aborted' \in [Name -> {"no", "cancelled", "died"}]
        /\ stage' \in [Name -> Stage]
    BY <2>1, InvalidateTypes
  <2>3. Enqueue(tails, "stop", generations', TRUE)  BY <1>3 DEF StopAll
  <2>4. queue' \in [Name -> Seq(Op)] /\ tails' \subseteq Name
    BY <2>1, <2>2, <2>3, EnqueueTypes
  <2>5. sweep' \in [open : SUBSET Name, failed : BOOLEAN]  BY <1>3, <2>1 DEF StopAll
  <2>6. UNCHANGED <<procs, instances, inFlightStarts, op, port, reservedPorts, errors,
                    homePreparation, preparing, awaits>>
    BY <1>3 DEF StopAll, home
  <2> QED BY <2>2, <2>4, <2>5, <2>6 DEF TypeOK
<1> QED BY <1>1, <1>2, <1>3

LEMMA BeginTypes ==
  ASSUME TypeOK, NEW n \in Name, Begin(n)
  PROVE  TypeOK'
<1>1. Head(queue[n]) \in Op /\ Tail(queue[n]) \in Seq(Op)  BY TailFacts DEF Begin, TypeOK
<1>2. queue' \in [Name -> Seq(Op)] /\ op' \in [Name -> Op \cup {None}]
  BY <1>1 DEF Begin, TypeOK
<1>3. stage' \in [Name -> Stage]
  BY DEF Begin, Goto, TypeOK, Stage, Terminating
<1> QED BY <1>2, <1>3 DEF Begin, TypeOK, home

\* The actions that end a call.
LEMMA FinishTypes ==
  ASSUME IInv, NEW n \in Name,
         \/ StaleStart(n) \/ AlreadyStarted(n) \/ TerminateFails(n) \/ Ready(n)
         \/ Stopped(n) \/ Abandoned(n) \/ AbandonReservation(n)
  PROVE  TypeOK'
<1> USE DEF IInv, Inv
<1>1. stage[n] # "idle"
  BY DEF StaleStart, AlreadyStarted, TerminateFails, Ready, Stopped, Abandoned,
         AbandonReservation, Terminating
<1>2. CASE \E ok \in BOOLEAN : Finish(n, ok)
  <2>1. /\ op' \in [Name -> Op \cup {None}]
        /\ stage' \in [Name -> Stage]
        /\ port' \in [Name -> Port \cup {NoPort}]
        /\ aborted' \in [Name -> {"no", "cancelled", "died"}]
        /\ inFlightStarts' \in [Name -> Nat \cup {None}]
        /\ sweep' \in [open : SUBSET Name, failed : BOOLEAN]
        /\ homePreparation' \in Name \cup {None}
    <3> PICK ok \in BOOLEAN : Finish(n, ok)  BY <1>2
    <3>1. /\ op' = [op EXCEPT ![n] = None]
          /\ stage' = [stage EXCEPT ![n] = "idle"]
          /\ port' = [port EXCEPT ![n] = NoPort]
          /\ aborted' = [aborted EXCEPT ![n] = "no"]
      BY <1>1, FinishFacts
    <3>2. /\ inFlightStarts' \in [Name -> Nat \cup {None}]
          /\ sweep' \in [open : SUBSET Name, failed : BOOLEAN]
          /\ homePreparation' \in Name \cup {None}
      BY <1>1, FinishFacts
    <3>3. op' \in [Name -> Op \cup {None}] /\ port' \in [Name -> Port \cup {NoPort}]
      BY <3>1 DEF TypeOK
    <3>4. stage' \in [Name -> Stage]  BY <3>1 DEF TypeOK, Stage
    <3>5. aborted' \in [Name -> {"no", "cancelled", "died"}]  BY <3>1 DEF TypeOK
    <3> QED BY <3>2, <3>3, <3>4, <3>5
  <2>2. UNCHANGED <<procs, generations, tails, queue, preparing, awaits>>
    BY DEF StaleStart, AlreadyStarted, TerminateFails, Ready, Stopped, Abandoned,
           AbandonReservation, calls
  <2>3. errors' \subseteq Name
    BY DEF StaleStart, AlreadyStarted, TerminateFails, Ready, Stopped, Abandoned,
           AbandonReservation, Reject, TypeOK
  <2>4. reservedPorts' \subseteq Port
    BY ForgetFacts DEF StaleStart, AlreadyStarted, TerminateFails, Ready, Stopped, Abandoned,
           AbandonReservation, TypeOK
  <2>5. instances' \in [Name -> Instance \cup {None}]
    <3>1. CASE Stopped(n) \/ Abandoned(n)
      BY <3>1, ForgetFacts DEF Stopped, Abandoned, TypeOK
    <3>2. CASE Ready(n)
      <4>1. instances[n] \in Instance  BY <3>2 DEF Ready, TypeOK
      <4>2. [instances[n] EXCEPT !.status = "running"] \in Instance  BY <4>1 DEF Instance
      <4>3. instances' = [instances EXCEPT ![n] = [instances[n] EXCEPT !.status = "running"]]
        BY <3>2 DEF Ready
      <4> QED BY <4>2, <4>3 DEF TypeOK
    <3>3. CASE UNCHANGED instances  BY <3>3 DEF TypeOK
    <3> QED BY <3>1, <3>2, <3>3 DEF StaleStart, AlreadyStarted, TerminateFails,
              AbandonReservation
  <2> QED BY <2>1, <2>2, <2>3, <2>4, <2>5 DEF TypeOK
<1>3. CASE Stopped(n) /\ op[n].kind # "stop"
  <2>1. stage' \in [Name -> Stage]  BY <1>3 DEF Stopped, Goto, TypeOK, Stage
  <2>2. instances' \in [Name -> Instance \cup {None}] /\ reservedPorts' \subseteq Port
    BY <1>3, ForgetFacts DEF Stopped, TypeOK
  <2> QED BY <1>3, <2>1, <2>2 DEF Stopped, TypeOK, calls
<1> QED BY <1>2, <1>3 DEF StaleStart, AlreadyStarted, TerminateFails, Ready, Stopped, Abandoned,
           AbandonReservation, Reject

\* The steps of a start, and the children.
LEMMA StartTypes ==
  ASSUME IInv, NEW n \in Name,
         \/ Replace(n) \/ Prepare(n) \/ Checked(n) \/ TakePort(n) \/ SkipPort(n) \/ Spawn(n)
         \/ Announce(n) \/ NotReady(n) \/ Abandon(n) \/ ChildError(n)
  PROVE  TypeOK'
<1> USE DEF IInv, Inv
<1>1. CASE Replace(n) \/ NotReady(n) \/ Abandon(n) \/ ChildError(n)
  <2>1. stage' \in [Name -> Stage]
    BY <1>1, ZenonT(60) DEF Replace, NotReady, Abandon, ChildError, Goto, TypeOK, Stage, Abortable,
                Terminating
  <2>2. aborted' \in [Name -> {"no", "cancelled", "died"}]
    BY <1>1 DEF Replace, NotReady, Abandon, ChildError, TypeOK
  <2> QED BY <1>1, <2>1, <2>2 DEF Replace, NotReady, Abandon, ChildError, TypeOK, calls, home
<1>2. CASE Prepare(n)
  <2>1. stage' \in [Name -> Stage]
    <3>1. \E s \in {"catch", "preparing", "checking"} : Goto(n, s)  BY <1>2 DEF Prepare
    <3> QED BY <3>1 DEF Goto, TypeOK, Stage, Abortable
  <2>2. aborted' \in [Name -> {"no", "cancelled", "died"}] /\ errors' \subseteq Name
    BY <1>2 DEF Prepare, TypeOK
  <2>3. /\ homePreparation' \in Name \cup {None} /\ preparing' \subseteq Name
        /\ awaits' \in [Name -> Name \cup {None}]
    BY <1>2 DEF Prepare, TypeOK, home
  <2> QED BY <1>2, <2>1, <2>2, <2>3 DEF Prepare, TypeOK, calls
<1>3. CASE Checked(n) \/ SkipPort(n)
  <2>1. stage' \in [Name -> Stage]
    <3>1. (\E s \in {"probing", "catch"} : Goto(n, s)) \/ stage' = stage
      BY <1>3 DEF Checked, SkipPort, Continue
    <3> QED BY <3>1 DEF Goto, TypeOK, Stage, Abortable
  <2>2. port' \in [Name -> Port \cup {NoPort}]
    <3>1. 1 \in Port  BY PortAssumption DEF Port
    <3>2. port[n] < LastPort => port[n] + 1 \in Port
      <4>1. port[n] \in (1..LastPort) \cup {0}  BY DEF TypeOK, Port, NoPort
      <4>2. LastPort \in Nat /\ port[n] \in Nat  BY <4>1, PortAssumption
      <4> QED BY <4>2 DEF Port
    <3>3. \E q \in Port \cup {NoPort} : port' = [port EXCEPT ![n] = q]
      <4>1. CASE Checked(n)
        <5>1. \/ port' = [port EXCEPT ![n] = 1] \/ port' = [port EXCEPT ![n] = NoPort]
              \/ port' = port
          BY <1>3, <4>1 DEF Checked
        <5>2. port = [port EXCEPT ![n] = port[n]] /\ port[n] \in Port \cup {NoPort}
          BY DEF TypeOK
        <5> QED BY <3>1, <5>1, <5>2
      <4>2. CASE SkipPort(n)
        <5>1. \/ port' = [port EXCEPT ![n] = port[n] + 1] /\ port[n] < LastPort
              \/ port' = [port EXCEPT ![n] = NoPort]
          BY <1>3, <4>2 DEF SkipPort
        <5> QED BY <3>2, <4>2, <5>1
      <4> QED BY <1>3, <4>1, <4>2
    <3> QED BY <3>3 DEF TypeOK
  <2> QED BY <1>3, <2>1, <2>2 DEF Checked, SkipPort, TypeOK, calls, home
<1>4. CASE TakePort(n)
  <2>1. stage' \in [Name -> Stage]
    BY <1>4 DEF TakePort, Goto, TypeOK, Stage, Abortable
  <2>2. reservedPorts' \subseteq Port
    BY <1>4 DEF TakePort, TypeOK, ProbesAPort
  <2> QED BY <1>4, <2>1, <2>2 DEF TakePort, TypeOK, calls, home
<1>5. CASE Spawn(n)
  <2>1. stage' \in [Name -> Stage]
    BY <1>5 DEF Spawn, Goto, TypeOK, Stage, Abortable
  <2>2. port[n] \in Port /\ op[n] \in Op
    BY <1>5, CallUnderWay DEF Spawn, TypeOK, ProbesAPort
  <2>3. \A pid \in BOOLEAN : NewInstance(n, pid) \in Instance
    BY <2>2 DEF NewInstance, Instance, Op
  <2>4. instances' \in [Name -> Instance \cup {None}]
    <3>1. (\E pid \in BOOLEAN : instances' = [instances EXCEPT ![n] = NewInstance(n, pid)])
          \/ instances' = instances
      BY <1>5 DEF Spawn
    <3>2. instances \in [Name -> Instance \cup {None}]  BY DEF TypeOK
    <3>3. ASSUME NEW i \in Instance PROVE [instances EXCEPT ![n] = i] \in [Name -> Instance \cup {None}]
      BY <3>2
    <3> QED BY <2>3, <3>1, <3>2, <3>3
  <2>5. procs' \subseteq Child
    <3>1. procs' = procs \/ procs' = procs \cup {[name |-> n, port |-> port[n], serving |-> FALSE]}
      BY <1>5 DEF Spawn
    <3>2. [name |-> n, port |-> port[n], serving |-> FALSE] \in Child  BY <2>2 DEF Child
    <3> QED BY <3>1, <3>2 DEF TypeOK
  <2>6. aborted' \in [Name -> {"no", "cancelled", "died"}]  BY <1>5 DEF Spawn, TypeOK
  <2> QED BY <1>5, <2>1, <2>4, <2>5, <2>6 DEF Spawn, TypeOK, calls, home
<1>6. CASE Announce(n)
  <2>1. stage' \in [Name -> Stage]
    BY <1>6 DEF Announce, Goto, TypeOK, Stage, Abortable
  <2>2. procs' \subseteq Child  BY <1>6 DEF Announce, TypeOK, Child
  <2> QED BY <1>6, <2>1, <2>2 DEF Announce, TypeOK, calls, home
<1> QED BY <1>1, <1>2, <1>3, <1>4, <1>5, <1>6

LEMMA OtherTypes ==
  ASSUME IInv, \/ \E r \in Name, ok \in BOOLEAN : Prepared(r, ok)
               \/ \E c \in procs : ChildExits(c)
  PROVE  TypeOK'
<1> USE DEF IInv, Inv
<1>1. ASSUME NEW r \in Name, NEW ok \in BOOLEAN, Prepared(r, ok) PROVE TypeOK'
  <2>1. stage' \in [Name -> Stage]  BY <1>1 DEF Prepared, TypeOK, Stage, Abortable
  <2>2. /\ homePreparation' \in Name \cup {None} /\ preparing' \subseteq Name
        /\ awaits' \in [Name -> Name \cup {None}]
    BY <1>1 DEF Prepared, TypeOK
  <2> QED BY <1>1, <2>1, <2>2 DEF Prepared, TypeOK, calls
<1>2. ASSUME NEW c \in procs, ChildExits(c) PROVE TypeOK'
  <2>1. c.name \in Name  BY DEF TypeOK, Child
  <2>2. stage' \in [Name -> Stage]  BY <1>2, <2>1 DEF ChildExits, TypeOK, Stage, Abortable
  <2>3. aborted' \in [Name -> {"no", "cancelled", "died"}] /\ errors' \subseteq Name
    BY <1>2, <2>1 DEF ChildExits, TypeOK
  <2>4. instances' \in [Name -> Instance \cup {None}] /\ reservedPorts' \subseteq Port
    BY <1>2, <2>1, ForgetFacts, ZenonT(60) DEF ChildExits, TypeOK
  <2> QED BY <1>2, <2>2, <2>3, <2>4 DEF ChildExits, TypeOK, calls, home
<1> QED BY <1>1, <1>2
-----------------------------------------------------------------------------
(* Children, instances, ports and preparations.                              *)

\* The steps of one start that spawn nothing, end nothing and touch no table.
LEMMA Moves ==
  ASSUME IInv, NEW n \in Name,
         UNCHANGED <<procs, instances, op, reservedPorts>>,
         \A m \in Name \ {n} : stage'[m] = stage[m] /\ port'[m] = port[m],
         stage[n] # "idle", stage'[n] # "idle",
         stage'[n] \in Unspawned => instances[n] = None,
         instances[n] # None \/ stage[n] \notin Holding,
         stage'[n] \in {"probing", "reserved"} => port'[n] # NoPort
  PROVE  Tables' /\ ProbesAPort'
<1>1. StageHasACall'  BY DEF IInv, StageHasACall
<1>2. NothingYet'  BY DEF IInv, NothingYet, Unspawned
<1>3. OneChild' /\ NoOrphan'  BY DEF IInv, Inv, OneChild, NoOrphan
<1>4. PortsAreHeld'  BY DEF IInv, PortsAreHeld, Holding
<1>5. ProbesAPort'  BY DEF IInv, ProbesAPort
<1> QED BY <1>1, <1>2, <1>3, <1>4, <1>5 DEF Tables

LEMMA Waiting ==
  ASSUME IInv, NEW n \in Name
  PROVE  /\ awaits[n] # None => stage[n] = "preparing"
         /\ stage[n] = "preparing" => awaits[n] # None
         /\ awaits[n] # None => awaits[n] \in preparing
<1>1. WaitsForALiveOne  BY DEF IInv
<1> QED BY <1>1 DEF WaitsForALiveOne

\* The steps that leave the shared preparation alone.
LEMMA SamePreparation ==
  ASSUME IInv, UNCHANGED <<preparing, awaits>>,
         \A m \in Name : stage'[m] = "preparing" <=> stage[m] = "preparing"
  PROVE  WaitsForALiveOne'
  BY DEF IInv, WaitsForALiveOne

LEMMA CallTables ==
  ASSUME IInv, \/ \E n \in Name : Start(n) \/ Stop(n) \/ Restart(n)
               \/ StopAll
  PROVE  Tables' /\ ProbesAPort' /\ WaitsForALiveOne'
<1>1. UNCHANGED <<procs, instances, op, reservedPorts, port, preparing, awaits>>
  BY DEF Start, Stop, Restart, StopAll, home
<1>2. \A m \in Name : \/ stage'[m] = stage[m]
                      \/ stage[m] = "endpoint" /\ stage'[m] = "catch"
  <2>1. ASSUME NEW n \in Name, Stop(n) \/ Restart(n)
        PROVE  \E ns \in SUBSET Name : Invalidate(ns)
    BY <2>1 DEF Stop, Restart
  <2>2. ASSUME StopAll PROVE \E ns \in SUBSET Name : Invalidate(ns)
    BY <2>2 DEF StopAll, IInv, Inv, TypeOK
  <2>3. ASSUME NEW n \in Name, Start(n) PROVE stage' = stage
    BY <2>3 DEF Start
  <2> QED BY <2>1, <2>2, <2>3, InvalidateTypes DEF IInv, Inv
<1>3. StageHasACall'  BY <1>1, <1>2 DEF IInv, StageHasACall
<1>4. NothingYet'  BY <1>1, <1>2 DEF IInv, NothingYet
<1>5. OneChild' /\ NoOrphan'  BY <1>1 DEF IInv, Inv, OneChild, NoOrphan
<1>6. PortsAreHeld'  BY <1>1, <1>2 DEF IInv, PortsAreHeld
<1>7. ProbesAPort'  BY <1>1, <1>2 DEF IInv, ProbesAPort
<1>8. WaitsForALiveOne'  BY <1>1, <1>2, SamePreparation
<1> QED BY <1>3, <1>4, <1>5, <1>6, <1>7, <1>8 DEF Tables

LEMMA MoveTables ==
  ASSUME IInv, NEW n \in Name,
         \/ Replace(n) \/ Prepare(n) \/ Checked(n) \/ SkipPort(n)
         \/ NotReady(n) \/ Abandon(n) \/ ChildError(n)
  PROVE  Tables' /\ ProbesAPort' /\ WaitsForALiveOne'
<1> USE DEF IInv, Inv
<1>1. CASE Replace(n) \/ NotReady(n) \/ Abandon(n) \/ ChildError(n)
  <2>1. UNCHANGED <<procs, instances, op, reservedPorts, port, preparing, awaits>>
    BY <1>1 DEF Replace, NotReady, Abandon, ChildError, home
  <2>2. /\ stage[n] \in {"entry", "endpoint", "api"} \/ (stage[n] = "catch" /\ instances[n] # None)
        /\ stage'[n] \in {"replace", "abandon", "catch", "api"}
        /\ \A m \in Name \ {n} : stage'[m] = stage[m]
    <3>1. CASE Replace(n)  BY <3>1 DEF Replace, Goto, TypeOK
    <3>2. CASE NotReady(n)  BY <3>2 DEF NotReady, Goto, TypeOK
    <3>3. CASE Abandon(n)  BY <3>3 DEF Abandon, Goto, Current, TypeOK
    <3>4. CASE ChildError(n)  BY <3>4 DEF ChildError, TypeOK
    <3> QED BY <1>1, <3>1, <3>2, <3>3, <3>4
  <2>3. Tables' /\ ProbesAPort'  BY <2>1, <2>2, Moves DEF Unspawned, Holding
  <2>4. WaitsForALiveOne'  BY <2>1, <2>2, SamePreparation
  <2> QED BY <2>3, <2>4
<1>2. CASE Prepare(n)
  <2>1. UNCHANGED <<procs, instances, op, reservedPorts, port>>  BY <1>2 DEF Prepare
  <2>2. /\ stage[n] \in {"entry", "replace"} /\ instances[n] = None
        /\ stage'[n] \in {"catch", "preparing", "checking"}
        /\ \A m \in Name \ {n} : stage'[m] = stage[m]
    <3>1. \E s \in {"catch", "preparing", "checking"} : stage' = [stage EXCEPT ![n] = s]
      BY <1>2 DEF Prepare, Goto
    <3> QED BY <1>2, <3>1 DEF Prepare, TypeOK
  <2>3. Tables' /\ ProbesAPort'  BY <2>1, <2>2, Moves DEF Holding
  <2>4. /\ preparing \subseteq preparing'
        /\ \A m \in Name \ {n} : awaits'[m] = awaits[m]
        /\ \/ stage'[n] # "preparing" /\ awaits'[n] = awaits[n]
           \/ stage'[n] = "preparing" /\ awaits'[n] \in preparing'
    BY <1>2 DEF Prepare, Goto, TypeOK, home
  <2>5. awaits[n] = None
    <3>1. stage[n] # "preparing"  BY <2>2
    <3> QED BY <3>1, Waiting
  <2>6. preparing' \subseteq Name  BY <1>2, StartTypes DEF TypeOK
  <2>7. WaitsForALiveOne'
    BY <2>2, <2>4, <2>5, <2>6, NoneAssumption DEF WaitsForALiveOne
  <2> QED BY <2>3, <2>7
<1>3. CASE Checked(n)
  <2>1. \/ stage' = [stage EXCEPT ![n] = "probing"] /\ port' = [port EXCEPT ![n] = 1]
        \/ stage' = [stage EXCEPT ![n] = "catch"]
           /\ (port' = [port EXCEPT ![n] = NoPort] \/ port' = port)
    BY <1>3 DEF Checked, Continue, Goto
  <2>2. instances[n] = None /\ stage[n] = "checking"  BY <1>3 DEF Checked, NothingYet
  <2>3. \A m \in Name \ {n} : stage'[m] = stage[m] /\ port'[m] = port[m]
    BY <2>1 DEF TypeOK
  <2>4. stage'[n] \in {"probing", "catch"} /\ (stage'[n] = "probing" => port'[n] # NoPort)
    BY <2>1 DEF TypeOK, NoPort
  <2>5. UNCHANGED <<procs, instances, op, reservedPorts, preparing, awaits>>
    BY <1>3 DEF Checked, home
  <2>6. Tables' /\ ProbesAPort'  BY <2>2, <2>3, <2>4, <2>5, Moves DEF Holding
  <2>7. WaitsForALiveOne'  BY <2>2, <2>3, <2>4, <2>5, SamePreparation
  <2> QED BY <2>6, <2>7
<1>4. CASE SkipPort(n)
  <2>1. \/ port' = [port EXCEPT ![n] = port[n] + 1] /\ stage' = stage
        \/ port' = [port EXCEPT ![n] = NoPort] /\ stage' = [stage EXCEPT ![n] = "catch"]
    BY <1>4 DEF SkipPort, Goto
  <2>2. instances[n] = None /\ stage[n] = "probing"  BY <1>4 DEF SkipPort, NothingYet
  <2>3. port[n] \in Nat  BY PortAssumption DEF TypeOK, Port, NoPort
  <2>4. \A m \in Name \ {n} : stage'[m] = stage[m] /\ port'[m] = port[m]
    BY <2>1 DEF TypeOK
  <2>5. (stage'[n] = "probing" /\ port'[n] # NoPort) \/ stage'[n] = "catch"
    BY <2>1, <2>2, <2>3 DEF TypeOK, NoPort
  <2>6. UNCHANGED <<procs, instances, op, reservedPorts, preparing, awaits>>
    BY <1>4 DEF SkipPort, home
  <2>7. Tables' /\ ProbesAPort'  BY <2>2, <2>4, <2>5, <2>6, Moves DEF Holding
  <2>8. WaitsForALiveOne'  BY <2>2, <2>4, <2>5, <2>6, SamePreparation
  <2> QED BY <2>7, <2>8
<1> QED BY <1>1, <1>2, <1>3, <1>4

LEMMA PreparedTables ==
  ASSUME IInv, NEW r \in Name, NEW ok \in BOOLEAN, Prepared(r, ok)
  PROVE  Tables' /\ ProbesAPort' /\ WaitsForALiveOne'
<1> USE DEF IInv, Inv
<1>1. UNCHANGED <<procs, instances, op, reservedPorts, port>>  BY DEF Prepared
<1>2. \A m \in Name : \/ awaits[m] # r /\ stage'[m] = stage[m] /\ awaits'[m] = awaits[m]
                      \/ awaits[m] = r /\ stage'[m] \in {"checking", "catch"} /\ awaits'[m] = None
  BY DEF Prepared
<1>3. \A m \in Name : awaits[m] = r => stage[m] = "preparing" /\ instances[m] = None
  <2> TAKE m \in Name
  <2> HAVE awaits[m] = r
  <2>1. stage[m] = "preparing"
    <3>1. awaits[m] # None  BY NoneAssumption
    <3> QED BY <3>1, Waiting
  <2>2. NothingYet  OBVIOUS
  <2> QED BY <2>1, <2>2 DEF NothingYet
<1>4. StageHasACall'  BY <1>1, <1>2, <1>3 DEF StageHasACall
<1>5. NothingYet'  BY <1>1, <1>2, <1>3 DEF NothingYet
<1>6. OneChild' /\ NoOrphan'  BY <1>1 DEF OneChild, NoOrphan
<1>7. PortsAreHeld'  BY <1>1, <1>2, <1>3 DEF PortsAreHeld
<1>8. ProbesAPort'  BY <1>1, <1>2 DEF ProbesAPort
<1>9. WaitsForALiveOne'
  <2>1. preparing' = preparing \ {r}  BY DEF Prepared
  <2> QED BY <1>2, <2>1 DEF WaitsForALiveOne
<1> QED BY <1>4, <1>5, <1>6, <1>7, <1>8, <1>9 DEF Tables

\* The tail begins the next call of a space at rest.
LEMMA BeginTables ==
  ASSUME IInv, NEW n \in Name, Begin(n)
  PROVE  Tables' /\ ProbesAPort' /\ WaitsForALiveOne'
<1> USE DEF IInv, Inv
<1>1. UNCHANGED <<procs, instances, reservedPorts, port, preparing, awaits>>  BY DEF Begin, home
<1>2. Head(queue[n]) \in Op  BY TailFacts DEF Begin, TypeOK
<1>3. /\ stage[n] = "idle" /\ stage'[n] \in {"entry", "stopping"}
      /\ op'[n] = Head(queue[n])
      /\ \A m \in Name \ {n} : stage'[m] = stage[m] /\ op'[m] = op[m]
  BY DEF Begin, Goto, TypeOK, StageHasACall
<1>4. StageHasACall'  BY <1>2, <1>3, NoneAssumption DEF StageHasACall
<1>5. NothingYet'  BY <1>1, <1>3 DEF NothingYet
<1>6. OneChild' /\ NoOrphan'  BY <1>1 DEF OneChild, NoOrphan
<1>7. PortsAreHeld'  BY <1>1, <1>3 DEF PortsAreHeld
<1>8. ProbesAPort'  BY <1>1, <1>3 DEF ProbesAPort
<1>9. WaitsForALiveOne'  BY <1>1, <1>3, SamePreparation
<1> QED BY <1>4, <1>5, <1>6, <1>7, <1>8, <1>9 DEF Tables

\* The actions that end a call.  The only one that may hold a reservation
\* without an instance is the start that gave up, and it drops it.
LEMMA FinishTables ==
  ASSUME IInv, NEW n \in Name,
         \/ StaleStart(n) \/ AlreadyStarted(n) \/ TerminateFails(n) \/ Ready(n)
         \/ Stopped(n) \/ Abandoned(n) \/ AbandonReservation(n)
  PROVE  Tables' /\ ProbesAPort' /\ WaitsForALiveOne'
<1> USE DEF IInv, Inv
<1>1. stage[n] \in Terminating \cup {"entry", "api", "catch"}
  BY DEF StaleStart, AlreadyStarted, TerminateFails, Ready, Stopped, Abandoned,
         AbandonReservation, Terminating
<1>2. UNCHANGED <<procs, preparing, awaits>>
  BY DEF StaleStart, AlreadyStarted, TerminateFails, Ready, Stopped, Abandoned,
         AbandonReservation
<1>3. /\ \A m \in Name \ {n} : stage'[m] = stage[m] /\ port'[m] = port[m] /\ op'[m] = op[m]
      /\ \/ stage'[n] = "idle" /\ op'[n] = None /\ port'[n] = NoPort
         \/ stage'[n] = "entry" /\ op'[n] = op[n] /\ Stopped(n)
  <2>1. CASE \E ok \in BOOLEAN : Finish(n, ok)
    BY <1>1, <2>1, FinishFacts DEF TypeOK, Terminating
  <2>2. CASE Stopped(n) /\ Goto(n, "entry") /\ UNCHANGED <<op, port>>
    BY <2>2 DEF Goto, TypeOK
  <2> QED BY <2>1, <2>2 DEF StaleStart, AlreadyStarted, TerminateFails, Ready, Stopped, Abandoned,
         AbandonReservation, Reject
<1>4. \A m \in Name \ {n} : instances'[m] = instances[m]
  <2>1. CASE Stopped(n) \/ Abandoned(n)
    <3>1. instances' = [instances EXCEPT ![n] = None]
      BY <2>1, ForgetFacts DEF Stopped, Abandoned
    <3> QED BY <3>1 DEF TypeOK
  <2>2. CASE Ready(n)  BY <2>2 DEF Ready, TypeOK
  <2>3. CASE instances' = instances  BY <2>3
  <2> QED BY <2>1, <2>2, <2>3 DEF StaleStart, AlreadyStarted, TerminateFails, AbandonReservation
<1>5. \/ /\ instances'[n] = None /\ (instances[n] # None => instances[n].port \notin reservedPorts')
         /\ \A c \in procs : c.name # n
      \/ /\ (instances'[n] = None <=> instances[n] = None)
         /\ instances[n] # None => /\ instances'[n].port = instances[n].port
                                   /\ instances'[n].pid = instances[n].pid
  <2>1. CASE Stopped(n) \/ Abandoned(n)
    <3>1. instances' = [instances EXCEPT ![n] = None]
          /\ (instances[n] # None => instances[n].port \notin reservedPorts')
      BY <2>1, ForgetFacts DEF Stopped, Abandoned
    <3>2. \A c \in procs : c.name # n
      BY <2>1 DEF Stopped, Abandoned, Gone, NoOrphan
    <3> QED BY <3>1, <3>2 DEF TypeOK
  <2>2. CASE Ready(n)
    <3>1. instances[n] \in Instance /\ instances[n] # None  BY <2>2 DEF Ready, TypeOK
    <3>2. instances'[n] = [instances[n] EXCEPT !.status = "running"]
      BY <2>2 DEF Ready, TypeOK
    <3>3. instances'[n] \in Instance /\ instances'[n].port = instances[n].port
          /\ instances'[n].pid = instances[n].pid
      BY <3>1, <3>2 DEF Instance
    <3> QED BY <3>1, <3>3, NoneAssumption
  <2>3. CASE instances' = instances  BY <2>3
  <2> QED BY <2>1, <2>2, <2>3 DEF StaleStart, AlreadyStarted, TerminateFails, AbandonReservation
<1>6. StageHasACall'  BY <1>1, <1>3 DEF StageHasACall, Terminating
<1>7. NothingYet'  BY <1>1, <1>3, <1>4 DEF NothingYet, Terminating
<1>8. OneChild' /\ NoOrphan'
  <2>1. OneChild'  BY <1>2 DEF OneChild
  <2>2. \A c \in procs : c.name \in Name  BY DEF TypeOK, Child
  <2>3. NoOrphan'  BY <1>2, <1>4, <1>5, <2>2 DEF NoOrphan
  <2> QED BY <2>1, <2>3
<1>9. PortsAreHeld'
  <2>1. reservedPorts' \subseteq reservedPorts
    BY ForgetFacts DEF StaleStart, AlreadyStarted, TerminateFails, Ready, Stopped, Abandoned,
         AbandonReservation
  <2>2. CASE AbandonReservation(n)
    <3>1. /\ instances' = instances
          /\ \A p \in reservedPorts' : instances[n] = None /\ p = port[n]
               => \E m \in Name : instances[m] # None /\ instances[m].port = p
      BY <2>2 DEF AbandonReservation
    <3> QED BY <1>3, <2>1, <2>2, <3>1 DEF PortsAreHeld, AbandonReservation
  <2>3. CASE ~AbandonReservation(n)
    <3>1. stage[n] \notin Holding
      BY <2>3 DEF StaleStart, AlreadyStarted, TerminateFails, Ready, Stopped, Abandoned,
             Terminating, Holding
    <3>2. \A p \in reservedPorts' : p \in reservedPorts
            /\ (instances[n] # None /\ instances[n].port = p => instances'[n] # None /\ instances'[n].port = p)
      BY <1>5, <2>1
    <3> QED BY <1>3, <1>4, <3>1, <3>2 DEF PortsAreHeld, Holding
  <2> QED BY <2>2, <2>3
<1>10. ProbesAPort'  BY <1>3 DEF ProbesAPort
<1>11. WaitsForALiveOne'  BY <1>1, <1>2, <1>3, SamePreparation DEF Terminating
<1> QED BY <1>6, <1>7, <1>8, <1>9, <1>10, <1>11 DEF Tables

\* A port is reserved in the same turn in which the space holds it.
LEMMA TakePortTables ==
  ASSUME IInv, NEW n \in Name, TakePort(n)
  PROVE  Tables' /\ ProbesAPort' /\ WaitsForALiveOne'
<1> USE DEF IInv, Inv
<1>1. UNCHANGED <<procs, instances, op, port, preparing, awaits>>  BY DEF TakePort, home
<1>2. /\ stage[n] = "probing" /\ stage'[n] = "reserved"
      /\ \A m \in Name \ {n} : stage'[m] = stage[m]
      /\ reservedPorts' = reservedPorts \cup {port[n]}
  BY DEF TakePort, Goto, TypeOK
<1>3. instances[n] = None /\ port[n] # NoPort  BY <1>2 DEF NothingYet, ProbesAPort
<1>4. StageHasACall'  BY <1>1, <1>2 DEF StageHasACall
<1>5. NothingYet'  BY <1>1, <1>2, <1>3 DEF NothingYet
<1>6. OneChild' /\ NoOrphan'  BY <1>1 DEF OneChild, NoOrphan
<1>7. PortsAreHeld'
  <2>1. \E m \in Name : instances'[m] = None /\ stage'[m] \in {"reserved", "catch"} /\ port'[m] = port[n]
    BY <1>1, <1>2, <1>3
  <2>2. ASSUME NEW p \in reservedPorts
        PROVE  \E m \in Name :
                 \/ instances'[m] # None /\ instances'[m].port = p
                 \/ instances'[m] = None /\ stage'[m] \in {"reserved", "catch"} /\ port'[m] = p
    BY <1>1, <1>2 DEF PortsAreHeld
  <2> QED BY <1>2, <2>1, <2>2 DEF PortsAreHeld
<1>8. ProbesAPort'  BY <1>1, <1>2, <1>3 DEF ProbesAPort
<1>9. WaitsForALiveOne'  BY <1>1, <1>2, SamePreparation
<1> QED BY <1>4, <1>5, <1>6, <1>7, <1>8, <1>9 DEF Tables

\* The child is recorded in the turn that spawns it, for a space that had
\* neither an instance nor a child.
LEMMA SpawnTables ==
  ASSUME IInv, NEW n \in Name, Spawn(n)
  PROVE  Tables' /\ ProbesAPort' /\ WaitsForALiveOne'
<1> USE DEF IInv, Inv
<1> DEFINE child == [name |-> n, port |-> port[n], serving |-> FALSE]
<1>1. UNCHANGED <<op, port, reservedPorts, preparing, awaits>>  BY DEF Spawn, home
<1>2. /\ stage[n] = "reserved" /\ stage'[n] \in {"endpoint", "catch"}
      /\ \A m \in Name \ {n} : stage'[m] = stage[m]
  BY DEF Spawn, Goto, TypeOK
<1>3. instances[n] = None /\ port[n] # NoPort  BY <1>2 DEF NothingYet, ProbesAPort
<1>4. \A c \in procs : c.name \in Name /\ c.name # n
  BY <1>3 DEF NoOrphan, TypeOK, Child
<1>5. /\ \A m \in Name \ {n} : instances'[m] = instances[m]
      /\ \/ /\ procs' = procs \cup {child} /\ instances'[n] = NewInstance(n, TRUE)
         \/ /\ procs' = procs /\ instances'[n] = NewInstance(n, FALSE)
         \/ /\ procs' = procs /\ instances'[n] = None /\ stage'[n] = "catch"
  BY <1>3 DEF Spawn, Goto, TypeOK
<1>6. \A pid \in BOOLEAN : /\ NewInstance(n, pid).port = port[n] /\ NewInstance(n, pid).pid = pid
                           /\ NewInstance(n, pid) # None
  <2>1. port[n] \in Port /\ op[n] \in Op
    BY <1>2, <1>3, CallUnderWay DEF TypeOK
  <2>2. \A pid \in BOOLEAN : NewInstance(n, pid) \in Instance
    BY <2>1 DEF NewInstance, Instance, Op
  <2>3. \A pid \in BOOLEAN : NewInstance(n, pid) # None  BY <2>2, NoneAssumption
  <2> QED BY <2>3 DEF NewInstance
<1>7. StageHasACall'  BY <1>1, <1>2 DEF StageHasACall
<1>8. NothingYet'  BY <1>2, <1>5 DEF NothingYet
<1>9. child.name = n /\ child.port = port[n]  OBVIOUS
<1>10. OneChild' /\ NoOrphan'
  <2> HIDE DEF child
  <2>1. OneChild'  BY <1>4, <1>5, <1>9 DEF OneChild
  <2>2. ASSUME NEW c \in procs'
        PROVE  instances'[c.name] # None /\ instances'[c.name].port = c.port /\ instances'[c.name].pid
    <3>1. CASE c \in procs
      <4>1. instances'[c.name] = instances[c.name]  BY <1>4, <1>5, <3>1
      <4> QED BY <3>1, <4>1 DEF NoOrphan
    <3>2. CASE c \notin procs
      <4>1. c = child /\ instances'[n] = NewInstance(n, TRUE)  BY <1>5, <2>2, <3>2
      <4>2. NewInstance(n, TRUE).pid = TRUE  BY <1>6
      <4>3. instances'[n] # None /\ instances'[n].port = port[n]  BY <1>6, <4>1
      <4> QED BY <1>9, <4>1, <4>2, <4>3
    <3> QED BY <3>1, <3>2
  <2>3. NoOrphan'  BY <2>2 DEF NoOrphan
  <2> QED BY <2>1, <2>3
<1>11. PortsAreHeld'
  <2>1. \/ instances'[n] # None /\ instances'[n].port = port[n]
        \/ instances'[n] = None /\ stage'[n] = "catch"
    BY <1>5, <1>6
  <2> QED BY <1>1, <1>2, <1>3, <1>5, <2>1 DEF PortsAreHeld
<1>12. ProbesAPort'  BY <1>1, <1>2 DEF ProbesAPort
<1>13. WaitsForALiveOne'  BY <1>1, <1>2, SamePreparation
<1> QED BY <1>7, <1>8, <1>10, <1>11, <1>12, <1>13 DEF Tables

LEMMA AnnounceTables ==
  ASSUME IInv, NEW n \in Name, Announce(n)
  PROVE  Tables' /\ ProbesAPort' /\ WaitsForALiveOne'
<1> USE DEF IInv, Inv
<1> DEFINE child == [name |-> n, port |-> port[n], serving |-> FALSE]
<1> DEFINE served == [child EXCEPT !.serving = TRUE]
<1>1. UNCHANGED <<instances, op, port, reservedPorts, preparing, awaits>>  BY DEF Announce, home
<1>2. /\ stage[n] = "endpoint" /\ stage'[n] = "api"
      /\ \A m \in Name \ {n} : stage'[m] = stage[m]
  BY DEF Announce, Goto, TypeOK
<1>3. child \in procs /\ procs' = (procs \ {child}) \cup {served}  BY DEF Announce
<1>4. served.name = child.name /\ served.port = child.port  OBVIOUS
<1>5. StageHasACall'  BY <1>1, <1>2 DEF StageHasACall
<1>6. NothingYet'  BY <1>1, <1>2 DEF NothingYet
<1>7. OneChild' /\ NoOrphan'
  <2> HIDE DEF child, served
  <2>1. OneChild'  BY <1>3, <1>4 DEF OneChild
  <2>2. NoOrphan'  BY <1>1, <1>3, <1>4 DEF NoOrphan
  <2> QED BY <2>1, <2>2
<1>8. PortsAreHeld'  BY <1>1, <1>2 DEF PortsAreHeld
<1>9. ProbesAPort'  BY <1>1, <1>2 DEF ProbesAPort
<1>10. WaitsForALiveOne'  BY <1>1, <1>2, SamePreparation
<1> QED BY <1>5, <1>6, <1>7, <1>8, <1>9, <1>10 DEF Tables

\* The exit of a child: it is the only one of its space, and the instance it
\* ends with is its own.
LEMMA ExitTables ==
  ASSUME IInv, NEW c \in procs, ChildExits(c)
  PROVE  Tables' /\ ProbesAPort' /\ WaitsForALiveOne'
<1> USE DEF IInv, Inv
<1> DEFINE n == c.name
<1>1. n \in Name  BY DEF TypeOK, Child
<1>2. instances[n] # None /\ instances[n].port = c.port  BY DEF NoOrphan
<1>3. UNCHANGED <<op, port, preparing, awaits>> /\ procs' = procs \ {c}  BY DEF ChildExits, home
<1>4. /\ \A m \in Name \ {n} : stage'[m] = stage[m]
      /\ stage'[n] = stage[n] \/ (stage[n] = "endpoint" /\ stage'[n] = "catch")
  BY <1>1 DEF ChildExits, TypeOK
<1>5. /\ instances'[n] = None /\ \A m \in Name \ {n} : instances'[m] = instances[m]
      /\ reservedPorts' \subseteq reservedPorts /\ instances[n].port \notin reservedPorts'
  <2>1. Forget(n)  BY <1>2 DEF ChildExits
  <2>2. /\ instances' = [instances EXCEPT ![n] = None] /\ reservedPorts' \subseteq reservedPorts
        /\ instances[n].port \notin reservedPorts'
    BY <1>1, <1>2, <2>1, ForgetFacts
  <2> QED BY <1>1, <2>2 DEF TypeOK
<1> HIDE DEF n
<1>6. StageHasACall'  BY <1>3, <1>4 DEF StageHasACall
<1>7. NothingYet'  BY <1>1, <1>4, <1>5 DEF NothingYet
<1>8. OneChild'  BY <1>3 DEF OneChild
<1>9. NoOrphan'
  <2>1. \A d \in procs' : d \in procs /\ d.name \in Name /\ d.name # n
    BY <1>3 DEF OneChild, TypeOK, Child, n
  <2> QED BY <1>5, <2>1 DEF NoOrphan
<1>10. PortsAreHeld'  BY <1>1, <1>2, <1>3, <1>4, <1>5 DEF PortsAreHeld
<1>11. ProbesAPort'  BY <1>1, <1>3, <1>4 DEF ProbesAPort
<1>12. WaitsForALiveOne'  BY <1>1, <1>3, <1>4, SamePreparation
<1> QED BY <1>6, <1>7, <1>8, <1>9, <1>10, <1>11, <1>12 DEF Tables

-----------------------------------------------------------------------------
(* The promise that the start calls of a space share.                        *)

\* A call that stays queued or running stays pending.
LEMMA PendingGrows ==
  ASSUME NEW n \in Name,
         \A i \in DOMAIN queue[n] : \E j \in DOMAIN queue'[n] : queue'[n][j] = queue[n][i],
         op'[n] = op[n]
  PROVE  Pending(n) \subseteq Pending(n)'
  BY DEF Pending

LEMMA EnqueueGrows ==
  ASSUME IInv, NEW ns \in SUBSET Name, NEW kind \in {"start", "stop", "restart"},
         NEW gens \in [Name -> Nat], NEW all \in BOOLEAN, Enqueue(ns, kind, gens, all),
         UNCHANGED op
  PROVE  /\ \A n \in Name : Pending(n) \subseteq Pending(n)'
         /\ \A n \in ns : [kind |-> kind, gen |-> gens[n], all |-> all] \in Pending(n)'
<1>1. \A n \in Name : [kind |-> kind, gen |-> gens[n], all |-> all] \in Op  BY DEF Op
<1>2. ASSUME NEW n \in Name
      PROVE  /\ \A i \in DOMAIN queue[n] : \E j \in DOMAIN queue'[n] : queue'[n][j] = queue[n][i]
             /\ n \in ns => \E j \in DOMAIN queue'[n] :
                  queue'[n][j] = [kind |-> kind, gen |-> gens[n], all |-> all]
  <2> DEFINE o == [kind |-> kind, gen |-> gens[n], all |-> all]
  <2>1. o \in Op  BY <1>1
  <2>2. queue[n] \in Seq(Op)  BY DEF IInv, Inv, TypeOK
  <2>3. queue'[n] = IF n \in ns THEN Append(queue[n], o) ELSE queue[n]  BY DEF Enqueue
  <2> HIDE DEF o
  <2>4. CASE n \in ns  BY <2>1, <2>2, <2>3, <2>4, QueueFacts DEF o
  <2>5. CASE n \notin ns  BY <2>3, <2>5
  <2> QED BY <2>4, <2>5
<1>3. \A n \in Name : Pending(n) \subseteq Pending(n)'  BY <1>2, PendingGrows
<1>4. \A n \in ns : [kind |-> kind, gen |-> gens[n], all |-> all] \in Pending(n)'
  BY <1>2 DEF Pending
<1> QED BY <1>3, <1>4

LEMMA CallShared ==
  ASSUME IInv, \/ \E n \in Name : Start(n) \/ Stop(n) \/ Restart(n)
               \/ StopAll
  PROVE  SharedStartIsPending'
<1>1. ASSUME UNCHANGED inFlightStarts, \A n \in Name : Pending(n) \subseteq Pending(n)'
      PROVE  SharedStartIsPending'
  BY <1>1 DEF IInv, Inv, SharedStartIsPending
<1>2. ASSUME NEW n \in Name, Start(n) PROVE SharedStartIsPending'
  <2>1. Enqueue({n}, "start", generations, FALSE) /\ UNCHANGED op  BY <1>2 DEF Start
  <2>2. generations \in [Name -> Nat] /\ {n} \in SUBSET Name  BY DEF IInv, Inv, TypeOK
  <2>3. /\ \A m \in Name : Pending(m) \subseteq Pending(m)'
        /\ [kind |-> "start", gen |-> generations[n], all |-> FALSE] \in Pending(n)'
    BY <2>1, <2>2, EnqueueGrows
  <2>4. inFlightStarts'[n] = generations[n]
        /\ \A m \in Name \ {n} : inFlightStarts'[m] = inFlightStarts[m]
    BY <1>2 DEF Start, IInv, Inv, TypeOK
  <2> QED BY <2>3, <2>4 DEF SharedStartIsPending, IInv, Inv
<1>3. ASSUME NEW n \in Name, Stop(n) \/ Restart(n) PROVE SharedStartIsPending'
  <2>1. Invalidate({n}) /\ {n} \in SUBSET Name /\ UNCHANGED <<op, inFlightStarts>>
    BY <1>3 DEF Stop, Restart
  <2>2. generations' \in [Name -> Nat]  BY <2>1, InvalidateTypes DEF IInv, Inv
  <2>3. \E kind \in {"start", "stop", "restart"} : Enqueue({n}, kind, generations', FALSE)
    BY <1>3 DEF Stop, Restart
  <2>4. \A m \in Name : Pending(m) \subseteq Pending(m)'
    BY <2>1, <2>2, <2>3, EnqueueGrows
  <2> QED BY <1>1, <2>1, <2>4
<1>4. ASSUME StopAll PROVE SharedStartIsPending'
  <2>1. Invalidate(tails) /\ tails \in SUBSET Name /\ UNCHANGED <<op, inFlightStarts>>
    BY <1>4 DEF StopAll, IInv, Inv, TypeOK
  <2>2. generations' \in [Name -> Nat]  BY <2>1, InvalidateTypes DEF IInv, Inv
  <2>3. Enqueue(tails, "stop", generations', TRUE)  BY <1>4 DEF StopAll
  <2>4. \A m \in Name : Pending(m) \subseteq Pending(m)'
    BY <2>1, <2>2, <2>3, EnqueueGrows
  <2> QED BY <1>1, <2>1, <2>4
<1> QED BY <1>2, <1>3, <1>4

LEMMA BeginShared ==
  ASSUME IInv, NEW n \in Name, Begin(n)
  PROVE  SharedStartIsPending'
<1>1. op[n] = None /\ queue[n] # <<>> /\ queue[n] \in Seq(Op)  BY DEF Begin, IInv, Inv, TypeOK
<1>2. /\ op'[n] = Head(queue[n]) /\ queue'[n] = Tail(queue[n])
      /\ \A m \in Name \ {n} : op'[m] = op[m] /\ queue'[m] = queue[m]
      /\ UNCHANGED inFlightStarts
  BY DEF Begin, IInv, Inv, TypeOK
<1>3. /\ Head(queue[n]) # None
      /\ \A i \in DOMAIN queue[n] : \/ queue[n][i] = Head(queue[n])
                                    \/ \E j \in DOMAIN Tail(queue[n]) : Tail(queue[n])[j] = queue[n][i]
  BY <1>1, TailFacts, NoneAssumption
<1>4. Pending(n) \subseteq Pending(n)'  BY <1>1, <1>2, <1>3 DEF Pending
<1>5. \A m \in Name \ {n} : Pending(m)' = Pending(m)  BY <1>2 DEF Pending
<1> QED BY <1>2, <1>4, <1>5 DEF SharedStartIsPending, IInv, Inv

\* The start that ends takes the shared promise with it, if it is its own.
LEMMA FinishShared ==
  ASSUME IInv, NEW n \in Name, NEW ok \in BOOLEAN, stage[n] # "idle", Finish(n, ok),
         UNCHANGED queue
  PROVE  SharedStartIsPending'
<1>1. /\ op' = [op EXCEPT ![n] = None]
      /\ \A m \in Name : m # n => inFlightStarts'[m] = inFlightStarts[m]
      /\ inFlightStarts'[n] # None =>
              /\ inFlightStarts'[n] = inFlightStarts[n]
              /\ ~(op[n].kind = "start" /\ op[n].gen = inFlightStarts[n])
  BY FinishFacts
<1>2. \A m \in Name \ {n} : Pending(m)' = Pending(m)
  BY <1>1 DEF Pending, IInv, Inv, TypeOK
<1>3. Pending(n) \ {op[n]} \subseteq Pending(n)'
  BY DEF Pending
<1>4. inFlightStarts'[n] # None =>
        \E o \in Pending(n)' : o.kind = "start" /\ o.gen = inFlightStarts'[n]
  <2> HAVE inFlightStarts'[n] # None
  <2>1. PICK o \in Pending(n) : o.kind = "start" /\ o.gen = inFlightStarts[n]
    BY <1>1 DEF IInv, Inv, SharedStartIsPending
  <2>2. o # op[n]  BY <1>1, <2>1
  <2> QED BY <1>1, <1>3, <2>1, <2>2
<1> QED BY <1>1, <1>2, <1>4 DEF SharedStartIsPending, IInv, Inv

LEMMA RestShared ==
  ASSUME IInv, UNCHANGED <<queue, op, inFlightStarts>>
  PROVE  SharedStartIsPending'
<1>1. \A m \in Name : Pending(m)' = Pending(m)  BY DEF Pending
<1> QED BY <1>1 DEF SharedStartIsPending, IInv, Inv

-----------------------------------------------------------------------------
(* The theorems.                                                             *)

LEMMA NoPortLeaks ==
  ASSUME PortsAreHeld
  PROVE  NoPortLeak
<1> SUFFICES ASSUME \A n \in Name : stage[n] = "idle" /\ queue[n] = <<>>, NEW p \in reservedPorts
             PROVE  \E n \in Name : instances[n] # None /\ instances[n].port = p
  BY DEF NoPortLeak
<1> QED BY DEF PortsAreHeld

\* Every step of the manager, its callers and its children keeps the
\* invariant.
LEMMA Steps ==
  ASSUME IInv, Next
  PROVE  TypeOK' /\ Tables' /\ ProbesAPort' /\ WaitsForALiveOne' /\ SharedStartIsPending'
<1>1. ASSUME \/ \E n \in Name : Start(n) \/ Stop(n) \/ Restart(n)
             \/ StopAll
      PROVE  TypeOK' /\ Tables' /\ ProbesAPort' /\ WaitsForALiveOne' /\ SharedStartIsPending'
  BY <1>1, CallTypes, CallTables, CallShared DEF IInv, Inv
<1>2. ASSUME NEW n \in Name, Begin(n)
      PROVE  TypeOK' /\ Tables' /\ ProbesAPort' /\ WaitsForALiveOne' /\ SharedStartIsPending'
  BY <1>2, BeginTypes, BeginTables, BeginShared DEF IInv, Inv
<1>3. ASSUME NEW n \in Name,
             \/ StaleStart(n) \/ AlreadyStarted(n) \/ TerminateFails(n) \/ Ready(n)
             \/ Stopped(n) \/ Abandoned(n) \/ AbandonReservation(n)
      PROVE  TypeOK' /\ Tables' /\ ProbesAPort' /\ WaitsForALiveOne' /\ SharedStartIsPending'
  <2>1. /\ stage[n] # "idle" /\ UNCHANGED queue
        /\ \/ \E ok \in BOOLEAN : Finish(n, ok)
           \/ UNCHANGED <<op, inFlightStarts>>
    BY <1>3 DEF StaleStart, AlreadyStarted, TerminateFails, Ready, Stopped, Abandoned,
         AbandonReservation, Reject, Terminating, calls
  <2>2. SharedStartIsPending'  BY <2>1, FinishShared, RestShared
  <2> QED BY <1>3, <2>2, FinishTypes, FinishTables
<1>4. ASSUME NEW n \in Name,
             \/ Replace(n) \/ Prepare(n) \/ Checked(n) \/ SkipPort(n)
             \/ NotReady(n) \/ Abandon(n) \/ ChildError(n)
      PROVE  TypeOK' /\ Tables' /\ ProbesAPort' /\ WaitsForALiveOne' /\ SharedStartIsPending'
  <2>1. UNCHANGED <<queue, op, inFlightStarts>>
    BY <1>4 DEF Replace, Prepare, Checked, SkipPort, NotReady, Abandon, ChildError, calls
  <2> QED BY <1>4, <2>1, StartTypes, MoveTables, RestShared
<1>5. ASSUME NEW n \in Name, TakePort(n) \/ Spawn(n) \/ Announce(n)
      PROVE  TypeOK' /\ Tables' /\ ProbesAPort' /\ WaitsForALiveOne' /\ SharedStartIsPending'
  <2>1. UNCHANGED <<queue, op, inFlightStarts>>
    BY <1>5 DEF TakePort, Spawn, Announce, calls
  <2> QED BY <1>5, <2>1, StartTypes, TakePortTables, SpawnTables, AnnounceTables, RestShared
<1>6. ASSUME NEW r \in Name, NEW ok \in BOOLEAN, Prepared(r, ok)
      PROVE  TypeOK' /\ Tables' /\ ProbesAPort' /\ WaitsForALiveOne' /\ SharedStartIsPending'
  <2>1. UNCHANGED <<queue, op, inFlightStarts>>  BY <1>6 DEF Prepared, calls
  <2> QED BY <1>6, <2>1, OtherTypes, PreparedTables, RestShared
<1>7. ASSUME NEW c \in procs, ChildExits(c)
      PROVE  TypeOK' /\ Tables' /\ ProbesAPort' /\ WaitsForALiveOne' /\ SharedStartIsPending'
  <2>1. UNCHANGED <<queue, op, inFlightStarts>>  BY <1>7 DEF ChildExits, calls
  <2> QED BY <1>7, <2>1, OtherTypes, ExitTables, RestShared
<1>8. \A n \in Name : awaits[n] # None => awaits[n] \in Name  BY DEF IInv, Inv, TypeOK
<1> QED BY <1>1, <1>2, <1>3, <1>4, <1>5, <1>6, <1>7, <1>8 DEF Next, React, Await

\* The invariant of the manager in every reachable state: types, that a shared
\* start is pending, that no port leaks and no child is orphaned, and what
\* these rest on (ProcessManager.start, stop, startOnce, terminate, watchChild).
THEOREM Invariance == Spec => []IInv
<1>1. Init => IInv
  <2> SUFFICES ASSUME Init PROVE IInv
    OBVIOUS
  <2>1. <<>> \in Seq(Op)  OBVIOUS
  <2>2. TypeOK
    BY <2>1, PortAssumption DEF Init, TypeOK, Stage, Abortable, Terminating, NoSweep, Port, NoPort
  <2>3. SharedStartIsPending  BY DEF Init, SharedStartIsPending
  <2>4. PortsAreHeld  BY DEF Init, PortsAreHeld
  <2>5. NoPortLeak  BY <2>4, NoPortLeaks
  <2>6. NoOrphan /\ OneChild  BY DEF Init, NoOrphan, OneChild
  <2>7. StageHasACall /\ NothingYet /\ WaitsForALiveOne /\ ProbesAPort
    BY DEF Init, StageHasACall, NothingYet, WaitsForALiveOne, ProbesAPort
  <2> QED BY <2>2, <2>3, <2>4, <2>5, <2>6, <2>7 DEF IInv, Inv
<1>2. IInv /\ [Next]_vars => IInv'
  <2> SUFFICES ASSUME IInv, [Next]_vars PROVE IInv'
    OBVIOUS
  <2>1. CASE Next
    <3>1. TypeOK' /\ Tables' /\ ProbesAPort' /\ WaitsForALiveOne' /\ SharedStartIsPending'
      BY <2>1, Steps
    <3>2. PortsAreHeld' => NoPortLeak'
      <4> SUFFICES ASSUME PortsAreHeld',
                          \A n \in Name : stage'[n] = "idle" /\ queue'[n] = <<>>,
                          NEW p \in reservedPorts'
                   PROVE  \E n \in Name : instances'[n] # None /\ instances'[n].port = p
        BY DEF NoPortLeak
      <4> QED BY DEF PortsAreHeld
    <3> QED BY <3>1, <3>2 DEF IInv, Inv, Tables
  <2>2. CASE UNCHANGED vars
    <3>1. UNCHANGED <<procs, instances, generations, inFlightStarts, tails, queue, op, stage, port,
                      aborted, reservedPorts, errors, homePreparation, preparing, awaits, sweep>>
      BY <2>2 DEF vars
    <3>2. TypeOK'  BY <3>1 DEF IInv, Inv, TypeOK
    <3>3. SharedStartIsPending'  BY <3>1, RestShared
    <3>4. NoPortLeak' /\ NoOrphan' /\ OneChild' /\ PortsAreHeld'
      BY <3>1 DEF IInv, Inv, NoPortLeak, NoOrphan, OneChild, PortsAreHeld
    <3>5. StageHasACall' /\ NothingYet' /\ WaitsForALiveOne' /\ ProbesAPort'
      BY <3>1 DEF IInv, StageHasACall, NothingYet, WaitsForALiveOne, ProbesAPort
    <3> QED BY <3>2, <3>3, <3>4, <3>5 DEF IInv, Inv
  <2> QED BY <2>1, <2>2
<1> QED BY <1>1, <1>2, PTL DEF Spec

\* The state invariant of the manager: no orphaned child, no leaked port, no
\* caller that joins a start that is over.
THEOREM Safety == Spec => []Inv
<1>1. IInv => Inv  BY DEF IInv
<1> QED BY <1>1, Invariance, PTL

\* A stop that is answered with success leaves no process of the space
\* (stopOnce and terminate), whatever starts, exits and failures came before.
THEOREM StopsAreReal == Spec => StoppedMeansGone
<1> DEFINE A == \A n \in Name : Stopped(n) /\ op'[n] = None => \A c \in procs' : c.name # n
<1>1. IInv /\ [Next]_vars => [A]_vars
  <2> SUFFICES ASSUME IInv, NEW n \in Name, Stopped(n) PROVE \A c \in procs' : c.name # n
    OBVIOUS
  <2>1. procs' = procs /\ Gone(n)  BY DEF Stopped
  <2> QED BY <2>1 DEF Gone, IInv, Inv, NoOrphan
<1> QED BY <1>1, Invariance, PTL DEF Spec, StoppedMeansGone

\* A start that was cancelled spawns nothing any more (ensureGen before the
\* spawn of startOnce): only a start of the space's generation does.
THEOREM CancelsAreReal == Spec => CancelledNeverSpawns
<1> DEFINE A == \A n \in Name : (\E c \in procs' : c.name = n) /\ (\A c \in procs : c.name # n)
                  => op[n].gen = generations[n]
<1>1. IInv /\ [Next]_vars => [A]_vars
  <2> SUFFICES ASSUME IInv, Next,
                      NEW n \in Name, NEW c \in procs', c.name = n, \A d \in procs : d.name # n
               PROVE  op[n].gen = generations[n]
    OBVIOUS
  <2>1. CASE \E m \in Name : Spawn(m)
    <3> PICK m \in Name : Spawn(m)  BY <2>1
    <3>1. \/ procs' = procs
          \/ Ensured(m) /\ procs' = procs \cup {[name |-> m, port |-> port[m], serving |-> FALSE]}
      BY DEF Spawn
    <3>2. m = n /\ Ensured(m)  BY <3>1
    <3> QED BY <3>2 DEF Ensured, Stale
  <2>2. CASE \E m \in Name : Announce(m)
    <3> PICK m \in Name : Announce(m)  BY <2>2
    <3> DEFINE child == [name |-> m, port |-> port[m], serving |-> FALSE]
    <3>1. child \in procs /\ procs' = (procs \ {child}) \cup {[child EXCEPT !.serving = TRUE]}
      BY DEF Announce
    <3>2. c \in procs \/ c.name = child.name  BY <3>1
    <3> QED BY <3>1, <3>2
  <2>3. CASE procs' \subseteq procs
    BY <2>3
  <2>4. \/ \E m \in Name : Spawn(m) \/ Announce(m)
        \/ procs' \subseteq procs
    BY ZenonT(60) DEF Next, React, Await, Start, Stop, Restart, StopAll, Begin, Stopped, StaleStart,
           AlreadyStarted, Replace, Prepare, Abandon, Abandoned, AbandonReservation,
           TerminateFails, Prepared, Checked, TakePort, SkipPort, NotReady, Ready, ChildError,
           ChildExits
  <2> QED BY <2>1, <2>2, <2>3, <2>4
<1> QED BY <1>1, Invariance, PTL DEF Spec, CancelledNeverSpawns
=============================================================================
