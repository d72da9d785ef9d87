------------------------------- MODULE Runners -------------------------------
(***************************************************************************)
(* The life of the test program: main (src/main.c) initialises the         *)
(* interfaces the command line asks for, each of which gets a thread, its  *)
(* "runner", then joins the runners and exits.                             *)
(*                                                                         *)
(* main and the runners interleave; one initialisation, one join and one   *)
(* iteration of a runner's loop are a step each.  Operators marked         *)
(* "Faulty" are variants of the definition after them, used to show that   *)
(* the properties can fail.                                                *)
(***************************************************************************)
EXTENDS Integers, Sequences, RunnerDevices

CONSTANT Loops   \* settings->nb_loops

ASSUME LoopsAssumption == Loops \in Nat

InitOrder == <<"rack", "audio", "gpio", "uart", "stm32">>

\* Faulty: the UART runner is joined too.
JoinOrderWithUart == <<"audio", "gpio", "rack", "stm32", "uart">>

JoinOrder == <<"audio", "gpio", "rack", "stm32">>
Joined    == {JoinOrder[i] : i \in 1..Len(JoinOrder)}

VARIABLES
  wanted,   \* the runners the command line asks for
  pc,       \* of main: "init", "join", "exited", "crashed"
  next,     \* index in InitOrder or JoinOrder
  ret,      \* what main returns: "ok" (EXIT_SUCCESS) or "failed"
  handle,   \* test_runner[r]: "zero", "valid", or "stale" (no thread behind it)
  device,   \* "closed", "half" (open, but not set up) or "ready"
  thread,   \* "none", "running", "ended" or "killed"
  left      \* iterations left to the runner

vars == <<wanted, pc, next, ret, handle, device, thread, left>>

Init ==
  /\ wanted \in SUBSET Runner
  /\ pc = "init"
  /\ next = 1
  /\ ret = "ok"
  /\ handle = [r \in Runner |-> "zero"]
  /\ device = [r \in Runner |-> "closed"]
  /\ thread = [r \in Runner |-> "none"]
  /\ left = [r \in Runner |-> Loops]

\* The end of the process takes the threads that still run with it.
Killed == [r \in Runner |-> IF thread[r] = "running" THEN "killed" ELSE thread[r]]

-------------------------------------------------------------------------------
(* Initialisation.                                                         *)

\* pthread_create; when it fails (for stm32: no right to SCHED_FIFO) POSIX
\* leaves the contents of the handle undefined.
Create(r) ==
  \/ /\ handle' = [handle EXCEPT ![r] = "valid"]
     /\ thread' = [thread EXCEPT ![r] = "running"]
     /\ ret' = "ok"
  \/ /\ \E h \in {"zero", "stale"} : handle' = [handle EXCEPT ![r] = h]
     /\ ret' = "failed"
     /\ UNCHANGED thread

Open(r) ==
  \E o \in Opened(r) :
    /\ device' = [device EXCEPT ![r] = o[1]]
    /\ IF o[2] = "ok" THEN Create(r)
                      ELSE ret' = "failed" /\ UNCHANGED <<handle, thread>>

\* Faulty: a failed initialisation does not stop the next ones.
WantedAnyway(r) == r \in wanted

\* "EXIT_SUCCESS == ret" guards every initialisation but changes nothing else.
Due(r) == r \in wanted /\ ret = "ok"

InitRunner ==
  /\ pc = "init"
  /\ LET r == InitOrder[next]
     IN  IF Due(r) THEN Open(r) ELSE UNCHANGED <<handle, device, thread, ret>>
  /\ IF next < Len(InitOrder) THEN next' = next + 1 /\ UNCHANGED pc
                              ELSE next' = 1 /\ pc' = "join"
  /\ UNCHANGED <<wanted, left>>

\* alsa_device_open asserts that the PCM opens and links.
AssertFails ==
  /\ pc = "init"
  /\ InitOrder[next] = "audio"
  /\ Due("audio")
  /\ pc' = "crashed"
  /\ thread' = Killed
  /\ UNCHANGED <<wanted, next, ret, handle, device, left>>

-------------------------------------------------------------------------------
(* Joins and exit.                                                         *)

\* Faulty: main does not wait for the thread.
MayPassAlways(r) == TRUE

\* pthread_join returns when the thread has ended; main skips a zero handle.
MayPass(r) == handle[r] = "valid" => thread[r] = "ended"

Join ==
  /\ pc = "join"
  /\ next <= Len(JoinOrder)
  /\ MayPass(JoinOrder[next])
  /\ next' = next + 1
  /\ UNCHANGED <<wanted, pc, ret, handle, device, thread, left>>

\* Joining a stale handle is undefined: it returns an error, or crashes.
JoinCrashes ==
  /\ pc = "join"
  /\ next <= Len(JoinOrder)
  /\ handle[JoinOrder[next]] = "stale"
  /\ pc' = "crashed"
  /\ thread' = Killed
  /\ UNCHANGED <<wanted, next, ret, handle, device, left>>

Exit ==
  /\ pc = "join"
  /\ next > Len(JoinOrder)
  /\ pc' = "exited"
  /\ thread' = Killed
  /\ UNCHANGED <<wanted, next, ret, handle, device, left>>

-------------------------------------------------------------------------------
(* The runners.                                                            *)

\* Faulty: the GPIO runner does not look at its descriptor.
RefusesNothing(r) == FALSE

\* elite_gpiod_runner tests its descriptor before the loop.
Refuses(r) == r = "gpio" /\ device[r] = "closed"

\* Faulty: the countdown is not tested.
IterateEndlessly(r) ==
  /\ thread[r] = "running"
  /\ r # "uart"
  /\ ~Refuses(r)
  /\ left' = [left EXCEPT ![r] = @ - 1]
  /\ UNCHANGED <<wanted, pc, next, ret, handle, device, thread>>

\* One iteration of the loop.  Those of the audio and GPIO runners wait for
\* their device without a time limit; that of the UART runner, which serves its
\* device until the process ends, is not seen here.
Iterate(r) ==
  /\ thread[r] = "running"
  /\ r # "uart"
  /\ ~Refuses(r)
  /\ left[r] > 0
  /\ left' = [left EXCEPT ![r] = @ - 1]
  /\ UNCHANGED <<wanted, pc, next, ret, handle, device, thread>>

\* A runner ends after its last iteration; audio and stm32 also when a transfer
\* failed.  rack_release and spi_close close the device.
Ends(r) ==
  /\ thread[r] = "running"
  /\ \/ r # "uart" /\ left[r] = 0
     \/ Refuses(r)
     \/ r \in {"audio", "stm32"} /\ left[r] < Loops
  /\ thread' = [thread EXCEPT ![r] = "ended"]
  /\ device' = IF r \in {"rack", "stm32"} THEN [device EXCEPT ![r] = "closed"] ELSE device
  /\ UNCHANGED <<wanted, pc, next, ret, handle, left>>

Run(r) == Iterate(r) \/ Ends(r)

Next ==
  \/ InitRunner \/ AssertFails
  \/ Join \/ JoinCrashes \/ Exit
  \/ \E r \in Runner : Run(r)

Spec == Init /\ [][Next]_vars

\* All threads are scheduled, the sound card delivers and takes audio, and a
\* slave-ready line that is set up keeps being asserted.
Served(r) == (r = "gpio" => device[r] # "half") /\ Run(r)

FairSpec ==
  /\ Spec
  /\ WF_vars(InitRunner \/ AssertFails)
  /\ WF_vars(Join \/ JoinCrashes \/ Exit)
  /\ \A r \in Runner : WF_vars(Served(r))

-------------------------------------------------------------------------------
(* Properties.                                                             *)

\* The values a variable takes; the countdowns of the loops stop at 0 (rack-runner.c
\* 27, alsa-audio-runner-poll.c 59, stm32-runner.c 61, elite-gpiod-runner.c 31).
TypeOK ==
  /\ wanted \in SUBSET Runner
  /\ pc \in {"init", "join", "exited", "crashed"}
  /\ next \in 1..(Len(InitOrder) + 1)
  /\ ret \in {"ok", "failed"}
  /\ handle \in [Runner -> {"zero", "valid", "stale"}]
  /\ device \in [Runner -> {"closed", "half", "ready"}]
  /\ thread \in [Runner -> {"none", "running", "ended", "killed"}]
  /\ left \in [Runner -> 0..Loops]

\* When main returns, every runner it joins has gone through its loop to the
\* end: none of them is cut off by the exit of the process (main.c 124-142).
ExitAfterRunners == pc = "exited" => \A r \in Joined : thread[r] \in {"none", "ended"}

\* main returns 0 exactly when every runner that was asked for has been started
\* (main.c 97-120, 156).
ExitCodeTellsStart ==
  pc = "exited" => (ret = "ok" <=> \A r \in wanted : thread[r] # "none")

\* main ends, unless the GPIO runner waits on a line whose edge was never set up.
MainEnds ==
  [](thread["gpio"] = "running" => device["gpio"] # "half")
    => <>(pc \in {"exited", "crashed"})

\* What is required of a runner.
Contract(r) == INSTANCE RunnerContract
  WITH self <- r, device <- device[r], thread <- thread[r], left <- left[r]

\* Each runner keeps its contract while main, the others and the end of the
\* process go on around it (main.c 83-156): its device is opened once, its
\* thread started on nothing but a success, and its loop bounded.
Contracts ==
  /\ \A r \in Runner : Contract(r)!Init
  /\ [][\A r \in Runner : [Contract(r)!Next]_(Contract(r)!vars)]_vars
=============================================================================
