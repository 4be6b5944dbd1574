------------------------ MODULE WorkerProcessProofs ------------------------
(***************************************************************************)
(* The safety properties of WorkerProcess, proved for any number of        *)
(* workers, connection attempts, outages and incidents.                    *)
(***************************************************************************)
EXTENDS WorkerProcess, TLAPS

Inv == TypeOK /\ StoppedIsDeaf

\* The steps a worker takes in its own process.
OwnStep(w) ==
    \/ Start(w)
    \/ w \in PythonWorkers /\ (PythonStep(w) \/ PyDeliver(w))
    \/ w \in GoWorkers /\ (GoStep(w) \/ GoDeliver(w) \/ GoReturn(w))

\* The two halves of TypeOK: Booleans, and everything else.
Flags ==
    /\ up \in BOOLEAN
    /\ open \in [Workers -> BOOLEAN]
    /\ registered \in [Workers -> BOOLEAN]
    /\ flag \in [Workers -> BOOLEAN]
    /\ stopped \in [Workers -> BOOLEAN]

Counts ==
    /\ at \in [Workers -> Places]
    /\ attempts \in [Workers -> 0..Attempts]
    /\ outages \in 0..MaxOutages
    /\ incidents \in 0..MaxIncidents

\* The bounds are natural numbers, and there is at least one attempt.
LEMMA Bounds ==
    /\ Attempts \in Nat /\ Attempts > 0
    /\ MaxOutages \in Nat /\ MaxIncidents \in Nat
BY ProcessAssumption

\* A step of its own keeps the types.
LEMMA OwnStepType ==
    ASSUME Flags, Counts, NEW w \in Workers, OwnStep(w), Quiet
    PROVE  Flags' /\ Counts'
<1>1. Flags'
  <2> USE DEF Flags, Quiet, broker
  <2>1. CASE Start(w)
    BY <2>1 DEF Start
  <2>2. CASE PyBoot(w) \/ PyAgain(w) \/ GoDial(w)
    BY <2>2 DEF PyBoot, PyAgain, GoDial, Connect, ConnectFails, Exit
  <2>3. CASE PySetup(w) \/ PyLoop(w) \/ PyDeliver(w) \/ PyHandled(w)
             \/ PyReturn(w) \/ PyLost(w) \/ PyClose(w)
    BY <2>3
       DEF PySetup, PyLoop, PyDeliver, PyHandled, PyReturn, PyLost, PyClose,
           Exit
  <2>4. CASE GoConsume(w) \/ GoDeliver(w) \/ GoHandled(w) \/ GoReturn(w)
    BY <2>4 DEF GoConsume, GoDeliver, GoHandled, GoReturn, Exit
  <2>5. QED
    BY <2>1, <2>2, <2>3, <2>4 DEF OwnStep, PythonStep, GoStep
<1>2. Counts'
  <2> USE Bounds DEF Counts, Places, Quiet, broker
  <2>1. CASE Start(w)
    BY <2>1 DEF Start, Goto
  <2>2. CASE PyBoot(w) \/ PyAgain(w) \/ GoDial(w)
    BY <2>2 DEF PyBoot, PyAgain, GoDial, Connect, ConnectFails, Exit, Goto
  <2>3. CASE PySetup(w) \/ PyLoop(w) \/ PyDeliver(w) \/ PyHandled(w)
             \/ PyReturn(w) \/ PyLost(w) \/ PyClose(w)
    BY <2>3
       DEF PySetup, PyLoop, PyDeliver, PyHandled, PyReturn, PyLost, PyClose,
           Exit, Goto
  <2>4. CASE GoConsume(w) \/ GoDeliver(w) \/ GoHandled(w) \/ GoReturn(w)
    BY <2>4 DEF GoConsume, GoDeliver, GoHandled, GoReturn, Exit, Goto
  <2>5. QED
    BY <2>1, <2>2, <2>3, <2>4 DEF OwnStep, PythonStep, GoStep
<1>3. QED
  BY <1>1, <1>2

\* So do the broker, the kernel and Docker.
LEMMA OutsideType ==
    ASSUME Flags, Counts,
           Outage \/ Restore \/ \E w \in Workers : Drop(w) \/ Kill(w) \/ Signal(w)
    PROVE  Flags' /\ Counts'
<1>1. Flags'
  <2> USE DEF Flags, Incident, broker
  <2>1. CASE Outage \/ Restore
    BY <2>1 DEF Outage, Restore
  <2>2. ASSUME NEW w \in Workers, Drop(w) \/ Kill(w)
        PROVE  Flags'
    BY <2>2 DEF Drop, Kill, Exit
  <2>3. ASSUME NEW w \in Workers, Signal(w)
        PROVE  Flags'
    BY <2>3 DEF Signal, Notices
  <2>4. QED
    BY <2>1, <2>2, <2>3
<1>2. Counts'
  <2> USE Bounds DEF Counts, Places, Incident
  <2>1. CASE Outage \/ Restore
    BY <2>1 DEF Outage, Restore
  <2>2. ASSUME NEW w \in Workers, Drop(w) \/ Kill(w) \/ Signal(w)
        PROVE  Counts'
    BY <2>2 DEF Drop, Kill, Signal, Exit, Goto, broker
  <2>3. QED
    BY <2>1, <2>2
<1>3. QED
  BY <1>1, <1>2

\* A step of a worker's own moves no other worker.
LEMMA OthersRest ==
    ASSUME TypeOK, NEW w \in Workers, OwnStep(w), NEW v \in Workers \ {w}
    PROVE  /\ at'[v] = at[v] /\ open'[v] = open[v]
           /\ registered'[v] = registered[v] /\ flag'[v] = flag[v]
<1> USE DEF TypeOK
<1>1. CASE Start(w)
  BY <1>1 DEF Start, Goto
<1>2. CASE PyBoot(w) \/ PyAgain(w) \/ GoDial(w)
  BY <1>2 DEF PyBoot, PyAgain, GoDial, Connect, ConnectFails, Exit, Goto
<1>3. CASE PySetup(w) \/ PyLoop(w) \/ PyDeliver(w) \/ PyHandled(w)
           \/ PyReturn(w) \/ PyLost(w) \/ PyClose(w)
  BY <1>3
     DEF PySetup, PyLoop, PyDeliver, PyHandled, PyReturn, PyLost, PyClose, Exit,
         Goto
<1>4. CASE GoConsume(w) \/ GoDeliver(w) \/ GoHandled(w) \/ GoReturn(w)
  BY <1>4 DEF GoConsume, GoDeliver, GoHandled, GoReturn, Exit, Goto
<1>5. QED
  BY <1>1, <1>2, <1>3, <1>4 DEF OwnStep, PythonStep, GoStep

\* What a stopped worker does with its channel: it never opens one while it
\* consumes, and it never comes to consume.
LEMMA OwnStepDeaf ==
    ASSUME TypeOK, StoppedIsDeaf, NEW w \in PythonWorkers, OwnStep(w)
    PROVE  flag'[w] /\ at'[w] \in {"consuming", "busy"} =>
               ~open'[w] \/ ~registered'[w]
<1> USE DEF TypeOK, StoppedIsDeaf, Workers
<1>1. CASE Start(w)
  BY <1>1 DEF Start, Goto
<1>2. CASE PyBoot(w) \/ PyAgain(w)
  BY <1>2 DEF PyBoot, PyAgain, Connect, ConnectFails, Exit, Goto
<1>3. CASE PySetup(w) \/ PyLoop(w) \/ PyReturn(w) \/ PyLost(w) \/ PyClose(w)
  BY <1>3 DEF PySetup, PyLoop, PyReturn, PyLost, PyClose, Exit, Goto
<1>4. CASE PyDeliver(w) \/ PyHandled(w)
  BY <1>4 DEF PyDeliver, PyHandled, Exit, Goto
<1>5. QED
  BY <1>1, <1>2, <1>3, <1>4, ProcessAssumption DEF OwnStep, PythonStep

\* A signal cancels the consumer of an open channel; outages, lost channels and
\* the end of a process open none.
LEMMA OutsideDeaf ==
    ASSUME TypeOK, StoppedIsDeaf,
           Outage \/ Restore \/ \E w \in Workers : Drop(w) \/ Kill(w) \/ Signal(w)
    PROVE  StoppedIsDeaf'
<1> USE DEF TypeOK, StoppedIsDeaf, Workers
<1>1. CASE Outage \/ Restore
  BY <1>1 DEF Outage, Restore
<1>2. ASSUME NEW w \in Workers, Drop(w) \/ Kill(w)
      PROVE  StoppedIsDeaf'
  BY <1>2 DEF Drop, Kill, Exit, Goto
<1>3. ASSUME NEW w \in Workers, Signal(w)
      PROVE  StoppedIsDeaf'
  BY <1>3 DEF Signal, Notices
<1>4. QED
  BY <1>1, <1>2, <1>3

\* Every step keeps the invariant.
LEMMA InvNext ==
    ASSUME Inv, [Next]_vars
    PROVE  Inv'
<1> USE DEF Inv
<1>1. ASSUME NEW w \in Workers, OwnStep(w), Quiet
      PROVE  Inv'
  <2>1. TypeOK'
    BY <1>1, OwnStepType DEF TypeOK, Flags, Counts
  <2>2. ASSUME NEW v \in PythonWorkers
        PROVE  flag'[v] /\ at'[v] \in {"consuming", "busy"} =>
                   ~open'[v] \/ ~registered'[v]
    <3>1. CASE v = w
      BY <1>1, <3>1, OwnStepDeaf
    <3>2. CASE v # w
      BY <1>1, <3>2, OthersRest DEF StoppedIsDeaf, Workers
    <3>3. QED
      BY <3>1, <3>2
  <2>3. QED
    BY <2>1, <2>2 DEF StoppedIsDeaf
<1>2. CASE Outage \/ Restore \/ \E w \in Workers : Drop(w) \/ Kill(w) \/ Signal(w)
  BY <1>2, OutsideType, OutsideDeaf DEF TypeOK, Flags, Counts
<1>3. CASE UNCHANGED vars
  BY <1>3 DEF vars, TypeOK, StoppedIsDeaf
<1>4. QED
  BY <1>1, <1>2, <1>3 DEF Next, ProcessStep, DeliverStep, ReturnStep, OwnStep

\* No process runs at the beginning.
LEMMA InvInit ==
    ASSUME Init
    PROVE  Inv
<1>1. Flags
  BY DEF Init, Flags
<1>2. Counts
  BY Bounds DEF Init, Counts, Places
<1>3. StoppedIsDeaf
  BY DEF Init, StoppedIsDeaf, Workers
<1>4. QED
  BY <1>1, <1>2, <1>3 DEF Inv, TypeOK, Flags, Counts

\* All variables keep their types; attempts never fall below zero.
THEOREM ProcessTypes == Spec => []TypeOK
<1>1. Inv => TypeOK
  BY DEF Inv
<1>2. QED
  BY <1>1, InvInit, InvNext, PTL DEF Spec

\* A Python worker that noticed SIGTERM has no open channel with a consumer on
\* it, wherever in its loop the signal met it.
THEOREM StoppedWorkersAreDeaf == Spec => []StoppedIsDeaf
<1>1. Inv => StoppedIsDeaf
  BY DEF Inv
<1>2. QED
  BY <1>1, InvInit, InvNext, PTL DEF Spec

\* So it takes no further delivery.
THEOREM NothingAfterStop == Spec => NoDeliveryAfterStop
<1>1. ASSUME Inv, [Next]_vars, NEW w \in PythonWorkers, flag[w],
             at[w] # "busy", at'[w] = "busy"
      PROVE  FALSE
  <2> USE DEF Inv
  <2>1. w \in Workers /\ w \notin GoWorkers
    BY ProcessAssumption DEF Workers
  <2>2. at \in [Workers -> Places]
    BY <1>1 DEF TypeOK
  <2>3. ASSUME Outage \/ Restore \/ UNCHANGED vars
               \/ \E v \in Workers : Drop(v) \/ Kill(v) \/ Signal(v)
        PROVE  FALSE
    BY <1>1, <2>1, <2>2, <2>3
       DEF Outage, Restore, Drop, Kill, Signal, Exit, Goto, vars
  <2>4. OwnStep(w)
    <3>1. PICK v \in Workers : OwnStep(v)
      BY <1>1, <2>3 DEF Next, ProcessStep, DeliverStep, ReturnStep, OwnStep
    <3>2. v = w
      BY <1>1, <2>1, <3>1, OthersRest
    <3>3. QED
      BY <3>1, <3>2
  <2>5. at[w] = "consuming" /\ open[w] /\ registered[w]
    BY <1>1, <2>1, <2>2, <2>4
       DEF OwnStep, Start, PythonStep, PyBoot, PySetup, PyLoop, PyDeliver,
           PyHandled, PyReturn, PyLost, PyAgain, PyClose, Connect, ConnectFails,
           Exit, Goto
  <2>6. QED
    BY <1>1, <2>5 DEF StoppedIsDeaf
<1>2. Inv /\ [Next]_vars =>
          [\A w \in PythonWorkers :
              flag[w] /\ at[w] # "busy" => at'[w] # "busy"]_vars
  BY <1>1
<1>3. QED
  BY <1>2, InvInit, InvNext, PTL DEF Spec, NoDeliveryAfterStop

=============================================================================
