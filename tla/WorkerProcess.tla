--------------------------- MODULE WorkerProcess ---------------------------
(***************************************************************************)
(* The life of a worker process around the handling of a delivery: run_    *)
(* consumer() of the two consumer.py, main() and Run() of the Go chunker,  *)
(* Docker's restart policy, and a broker that is away at times.            *)
(***************************************************************************)
EXTENDS Naturals

CONSTANTS
    PythonWorkers,  \* the ocr and the embedder worker
    GoWorkers,      \* the chunker
    Attempts,       \* attempts of one connect (20 in Python, 30 in Go)
    MaxOutages,     \* bound: how often the broker goes away
    MaxIncidents    \* bound: channels dropped, processes killed, signals sent

Workers == PythonWorkers \cup GoWorkers

ASSUME ProcessAssumption ==
    /\ Attempts \in Nat \ {0}
    /\ MaxOutages \in Nat
    /\ MaxIncidents \in Nat
    /\ PythonWorkers \cap GoWorkers = {}

VARIABLES
    up,         \* whether the broker answers
    at,         \* where each process is
    attempts,   \* attempts left of the connect it is in
    open,       \* whether its channel is open
    registered, \* whether its channel has a consumer
    flag,       \* the process knows that it has to shut down
    stopped,    \* docker stop: the container is not started again
    outages,    \* outages still to come
    incidents   \* incidents still to come

broker == <<up, outages>>
vars == <<up, at, attempts, open, registered, flag, stopped, outages, incidents>>

\* boot: before the signal handlers are there.  setup: connected, no consumer.
\* loop: at the test of the shutdown flag.  consuming: in start_consuming, or
\* in the select of Run.  busy: in the handler.  again: in the except clause.
Places == {"down", "boot", "setup", "loop", "consuming", "busy", "again",
           "closing"}

TypeOK ==
    /\ up \in BOOLEAN
    /\ at \in [Workers -> Places]
    /\ attempts \in [Workers -> 0..Attempts]
    /\ open \in [Workers -> BOOLEAN]
    /\ registered \in [Workers -> BOOLEAN]
    /\ flag \in [Workers -> BOOLEAN]
    /\ stopped \in [Workers -> BOOLEAN]
    /\ outages \in 0..MaxOutages
    /\ incidents \in 0..MaxIncidents

Init ==
    /\ up \in BOOLEAN
    /\ at = [w \in Workers |-> "down"]
    /\ attempts = [w \in Workers |-> 0]
    /\ open = [w \in Workers |-> FALSE]
    /\ registered = [w \in Workers |-> FALSE]
    /\ flag = [w \in Workers |-> FALSE]
    /\ stopped = [w \in Workers |-> FALSE]
    /\ outages = MaxOutages
    /\ incidents = MaxIncidents

Goto(w, place) == at' = [at EXCEPT ![w] = place]

\* The process ends, and its connection with it.
Exit(w) ==
    /\ Goto(w, "down")
    /\ open' = [open EXCEPT ![w] = FALSE]
    /\ registered' = [registered EXCEPT ![w] = FALSE]
    /\ flag' = [flag EXCEPT ![w] = FALSE]
    /\ attempts' = [attempts EXCEPT ![w] = 0]

\* restart: unless-stopped, whatever the exit code was.
Start(w) ==
    /\ at[w] = "down"
    /\ ~stopped[w]
    /\ Goto(w, "boot")
    /\ attempts' = [attempts EXCEPT ![w] = Attempts]
    /\ UNCHANGED <<open, registered, flag>>

\* One attempt to connect and to open a channel.
Connect(w, next) ==
    /\ up
    /\ Goto(w, next)
    /\ open' = [open EXCEPT ![w] = TRUE]
    /\ UNCHANGED <<attempts, flag>>

\* Mutant of ConnectFails: tries again without counting down to an end.
ConnectFailsUnchecked(w) ==
    /\ ~up
    /\ attempts' = [attempts EXCEPT ![w] = @ - 1]
    /\ UNCHANGED <<at, open, registered, flag>>

\* An attempt that fails; the last one raises, and nothing catches that.
ConnectFails(w) ==
    /\ ~up
    /\ \/ /\ attempts[w] > 1
          /\ attempts' = [attempts EXCEPT ![w] = @ - 1]
          /\ UNCHANGED <<at, open, registered, flag>>
       \/ attempts[w] <= 1 /\ Exit(w)

-----------------------------------------------------------------------------
(* run_consumer() of the Python workers.                                   *)

PyBoot(w) ==
    /\ at[w] = "boot"
    /\ \/ Connect(w, "setup") /\ UNCHANGED registered
       \/ ConnectFails(w)

\* basic_consume, after the signal handlers are installed.
PySetup(w) ==
    /\ at[w] = "setup"
    /\ \/ /\ open[w]
          /\ Goto(w, "loop")
          /\ registered' = [registered EXCEPT ![w] = TRUE]
          /\ UNCHANGED <<open, attempts, flag>>
       \/ ~open[w] /\ Exit(w)

\* Mutant of PyLoop: the loop does not look at the flag.
PyLoopForever(w) ==
    /\ at[w] = "loop"
    /\ Goto(w, "consuming")
    /\ UNCHANGED <<open, registered, attempts, flag>>

PyLoop(w) ==
    /\ at[w] = "loop"
    /\ Goto(w, IF flag[w] THEN "closing" ELSE "consuming")
    /\ UNCHANGED <<open, registered, attempts, flag>>

\* start_consuming calls on_message while the channel has a consumer.
PyDeliver(w) ==
    /\ at[w] = "consuming"
    /\ open[w] /\ registered[w]
    /\ Goto(w, "busy")
    /\ UNCHANGED <<open, registered, attempts, flag>>

\* on_message returns.  On a closed channel the acknowledgement raises and is
\* swallowed with the nack, but a publication in an except clause is not.
PyHandled(w) ==
    /\ at[w] = "busy"
    /\ \/ /\ Goto(w, "consuming")
          /\ UNCHANGED <<open, registered, attempts, flag>>
       \/ ~open[w] /\ Exit(w)

\* start_consuming returns when stop() has cancelled the consumer.
PyReturn(w) ==
    /\ at[w] = "consuming"
    /\ ~registered[w]
    /\ Goto(w, "closing")
    /\ UNCHANGED <<open, registered, attempts, flag>>

\* Mutant of PyLost: the except clause leaves the channel as it is.
PyLostIgnored(w) ==
    /\ at[w] = "consuming"
    /\ ~open[w]
    /\ Goto(w, "loop")
    /\ UNCHANGED <<open, registered, attempts, flag>>

\* start_consuming raises: an AMQPConnectionError leads to the except clause,
\* any other exception out of the process.
PyLost(w) ==
    /\ at[w] = "consuming"
    /\ ~open[w]
    /\ \/ /\ Goto(w, "again")
          /\ attempts' = [attempts EXCEPT ![w] = Attempts]
          /\ registered' = [registered EXCEPT ![w] = FALSE]
          /\ UNCHANGED <<open, flag>>
       \/ Exit(w)

\* Mutant of PyAgain: the attempts are not limited.
PyAgainForever(w) ==
    /\ at[w] = "again"
    /\ Connect(w, "loop")
    /\ registered' = [registered EXCEPT ![w] = TRUE]

\* The except clause: connect, and consume again on the new channel.
PyAgain(w) ==
    /\ at[w] = "again"
    /\ \/ /\ Connect(w, "loop")
          /\ registered' = [registered EXCEPT ![w] = TRUE]
       \/ ConnectFails(w)

PyClose(w) == at[w] = "closing" /\ Exit(w)

PythonStep(w) ==
    \/ PyBoot(w) \/ PySetup(w) \/ PyLoop(w)
    \/ PyHandled(w) \/ PyReturn(w) \/ PyLost(w)
    \/ PyAgain(w) \/ PyClose(w)

-----------------------------------------------------------------------------
(* main() and Run() of the chunker: every error ends the process.          *)

\* Dial gives up when the context is cancelled, but only after a failure.
GoDial(w) ==
    /\ at[w] = "boot"
    /\ \/ Connect(w, "setup") /\ UNCHANGED registered
       \/ ConnectFails(w)
       \/ ~up /\ flag[w] /\ Exit(w)

GoConsume(w) ==
    /\ at[w] = "setup"
    /\ \/ /\ open[w]
          /\ Goto(w, "consuming")
          /\ registered' = [registered EXCEPT ![w] = TRUE]
          /\ UNCHANGED <<open, attempts, flag>>
       \/ ~open[w] /\ Exit(w)

\* The select of Run chooses among what is ready, a cancelled context or not.
GoDeliver(w) ==
    /\ at[w] = "consuming"
    /\ open[w]
    /\ Goto(w, "busy")
    /\ UNCHANGED <<open, registered, attempts, flag>>

\* handle returns; errors of its publications and acknowledgements are logged.
GoHandled(w) ==
    /\ at[w] = "busy"
    /\ Goto(w, "consuming")
    /\ UNCHANGED <<open, registered, attempts, flag>>

\* The context is cancelled, or the channel of deliveries was closed.
GoReturn(w) ==
    /\ at[w] = "consuming"
    /\ flag[w] \/ ~open[w]
    /\ Exit(w)

GoStep(w) == GoDial(w) \/ GoConsume(w) \/ GoHandled(w)

-----------------------------------------------------------------------------
(* The broker, the kernel and Docker.                                      *)

Outage ==
    /\ up
    /\ outages > 0
    /\ outages' = outages - 1
    /\ up' = FALSE
    /\ open' = [w \in Workers |-> FALSE]
    /\ UNCHANGED <<at, attempts, registered, flag, stopped, incidents>>

Restore ==
    /\ ~up
    /\ up' = TRUE
    /\ UNCHANGED <<at, attempts, open, registered, flag, stopped,
                   outages, incidents>>

Incident ==
    /\ incidents > 0
    /\ incidents' = incidents - 1
    /\ UNCHANGED broker

\* Missed heartbeats: OCR and embedding block the connection they need.
Drop(w) ==
    /\ Incident
    /\ open[w]
    /\ open' = [open EXCEPT ![w] = FALSE]
    /\ UNCHANGED <<at, attempts, registered, flag, stopped>>

Kill(w) ==
    /\ Incident
    /\ at[w] # "down"
    /\ Exit(w)
    /\ UNCHANGED stopped

(***************************************************************************)
(* SIGTERM, by docker stop or by hand.  Python as process 1 of its         *)
(* container ignores it until its handler is installed.  stop() cancels    *)
(* the consumer; on a closed channel that raises and is swallowed.         *)
(***************************************************************************)
Notices(w) == w \in PythonWorkers => at[w] # "boot"

Signal(w) ==
    /\ Incident
    /\ at[w] # "down"
    /\ stopped' \in {stopped, [stopped EXCEPT ![w] = TRUE]}
    /\ flag' = [flag EXCEPT ![w] = Notices(w) \/ @]
    /\ registered' = IF w \in PythonWorkers /\ Notices(w) /\ open[w]
                     THEN [registered EXCEPT ![w] = FALSE]
                     ELSE registered
    /\ UNCHANGED <<at, attempts, open>>

-----------------------------------------------------------------------------

Quiet == UNCHANGED <<broker, stopped, incidents>>

ProcessStep(w) ==
    /\ \/ Start(w)
       \/ w \in PythonWorkers /\ PythonStep(w)
       \/ w \in GoWorkers /\ GoStep(w)
    /\ Quiet

DeliverStep(w) ==
    /\ \/ w \in PythonWorkers /\ PyDeliver(w)
       \/ w \in GoWorkers /\ GoDeliver(w)
    /\ Quiet

ReturnStep(w) == w \in GoWorkers /\ GoReturn(w) /\ Quiet

Next ==
    \/ Outage \/ Restore
    \/ \E w \in Workers :
          \/ ProcessStep(w) \/ DeliverStep(w) \/ ReturnStep(w)
          \/ Drop(w) \/ Kill(w) \/ Signal(w)

(***************************************************************************)
(* Processes run and Docker restarts them.  Go's select picks at random    *)
(* among the cases that are ready, so a case that is ready again and again *)
(* is picked in the end: strong fairness.  Nothing is assumed of the       *)
(* broker, and no message has to arrive.                                   *)
(***************************************************************************)
Spec ==
    /\ Init /\ [][Next]_vars
    /\ \A w \in Workers : WF_vars(ProcessStep(w)) /\ SF_vars(ReturnStep(w))

-----------------------------------------------------------------------------

\* A worker that is not stopped comes back: once the broker stays up, it is
\* again and again at its queue with an open channel, whatever was dropped,
\* killed or signalled before.  (the reconnect loop, the attempts of _connect
\* and Dial, and the restart policy; Pipeline assumes it as WF of Reconnect.)
ComesBack ==
    <>[]up => \A w \in Workers :
                  []<>(\/ stopped[w]
                       \/ at[w] \in {"consuming", "busy"} /\ open[w])

\* A process that noticed SIGTERM ends, even if the broker never comes back.
\* (stop() may raise, and be swallowed, while run_consumer is reconnecting.)
NoticedStopEnds == \A w \in Workers : flag[w] ~> at[w] = "down"

\* A Python worker that noticed SIGTERM takes no further delivery, wherever in
\* its loop the signal met it.  (stop() cancels the consumer of the channel,
\* but the except clause registers a new one on the next.)
NoDeliveryAfterStop ==
    [][\A w \in PythonWorkers :
          flag[w] /\ at[w] # "busy" => at'[w] # "busy"]_vars

\* A Python worker that noticed SIGTERM and is still consuming cannot be given
\* anything.  (a signal that comes while the channel is closed leaves the
\* consumer registered, and no step opens that channel again.)
StoppedIsDeaf ==
    \A w \in PythonWorkers :
        flag[w] /\ at[w] \in {"consuming", "busy"} =>
            ~open[w] \/ ~registered[w]

=============================================================================
