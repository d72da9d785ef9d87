--------------------------- MODULE EliteTdmaProofs ---------------------------
(***************************************************************************)
(* The safety properties of EliteTdma for any number of loops and of       *)
(* attempts, by an inductive invariant: what main has set up by the time   *)
(* it comes to a step, and that the runners start only after it.           *)
(***************************************************************************)
EXTENDS EliteTdma, TLAPS

\* What the steps of the set-up find, and that no runner exists before it.
SetUpOfGpio ==
  /\ pc = "export" => line = "zero" /\ attempts > 0
  /\ pc = "open_direction" => attempts > 0
  /\ pc = "write_direction" => gpio.exported
  /\ pc = "open_value" => gpio.exported /\ gpio.direction
  /\ pc \in {"export", "open_direction", "write_direction", "open_value",
             "open_edge", "write_edge", "gpio_returns"} => wait = "none"

SetUpOfSpi ==
  /\ pc \in Setup => stm = "none"
  /\ pc \in Setup \ {"ioctl", "create"} => done = 0
  /\ pc = "ioctl" => spi = "spidev" /\ done < Ioctls
  /\ pc = "create" => spi = "spidev" /\ done = Ioctls

\* A value that is open is that of an input.
LineIsInput == line = "value" => gpio.exported /\ gpio.direction

\* Frames are transferred on a descriptor that is open and was given its mode,
\* bits and speed, in whatever way spi_init failed, with errno or with -1
\* (esg-spidev.c:129-219, stm32-runner.c:166-172), and until it is closed.
TransfersConfigured == stm = "test" => spi = "spidev" /\ done = Ioctls

IInv ==
  /\ TypeOK
  /\ SetUpOfGpio /\ SetUpOfSpi
  /\ LineIsInput
  /\ WaitsOnLine
  /\ TransfersConfigured

-------------------------------------------------------------------------------

LEMMA Initially == Init => IInv
<1> SUFFICES ASSUME Init PROVE IInv
  OBVIOUS
<1>1. TypeOK
  <2>1. gpio \in [exported : BOOLEAN, direction : BOOLEAN, edge : BOOLEAN]
    BY DEF Init
  <2>2. testOnly \in BOOLEAN /\ pending \in BOOLEAN
    BY DEF Init
  <2>3. pc \in Setup \cup {"testing", "joining"} /\ attempts \in 0..Attempts
    BY AttemptsAssumption DEF Init, Setup, SetupGpio
  <2>4. /\ waits \in 0..Loops /\ turns \in 0..Loops /\ done \in 0..Ioctls
    BY LoopsAssumption DEF Init, Ioctls
  <2>5. /\ line \in {"zero", "bad", "value"} /\ spi \in {"zero", "bad", "spidev"}
        /\ wait \in {"none", "start", "test", "select", "get", "ended"}
        /\ stm \in {"none", "test", "close", "ended"}
    BY DEF Init
  <2> QED
    BY <2>1, <2>2, <2>3, <2>4, <2>5 DEF TypeOK
<1>2. SetUpOfGpio
  BY AttemptsAssumption DEF Init, SetUpOfGpio
<1>3. SetUpOfSpi
  BY DEF Init, SetUpOfSpi, Setup, SetupGpio
<1>4. LineIsInput
  BY DEF Init, LineIsInput
<1>5. WaitsOnLine /\ TransfersConfigured
  BY DEF Init, WaitsOnLine, TransfersConfigured
<1> QED
  BY <1>1, <1>2, <1>3, <1>4, <1>5 DEF IInv

\* The steps of main that set up the GPIO.
LEMMA GpioSteps ==
  ASSUME IInv,
         \/ Export \/ OpenDirection \/ WriteDirection \/ OpenValue
         \/ OpenEdge \/ WriteEdge \/ GpioReturns
  PROVE  IInv'
<1> USE LoopsAssumption, AttemptsAssumption
    DEF IInv, TypeOK, SetUpOfGpio, SetUpOfSpi, LineIsInput,
        WaitsOnLine, TransfersConfigured, Setup, SetupGpio, Ioctls,
        Go, Failed, sysfs, waiter, link, sender
<1>1. CASE Export
  BY <1>1 DEF Export
<1>2. CASE OpenDirection
  BY <1>2 DEF OpenDirection, Retry
<1>3. CASE WriteDirection
  BY <1>3 DEF WriteDirection
<1>4. CASE OpenValue
  <2>1. CASE line' = "value"
    <3>1. pending' \in BOOLEAN
      BY <1>4, <2>1 DEF OpenValue
    <3>2. pc = "open_value" /\ pc' \in {"open_edge", "gpio_returns"}
      BY <1>4 DEF OpenValue
    <3>3. UNCHANGED <<testOnly, attempts, gpio, wait, waits, spi, done, stm, turns>>
      BY <1>4 DEF OpenValue
    <3> QED
      BY <2>1, <3>1, <3>2, <3>3
  <2>2. CASE Failed /\ line' = "bad" /\ UNCHANGED pending
    BY <1>4, <2>2 DEF OpenValue
  <2> QED
    BY <1>4, <2>1, <2>2 DEF OpenValue
<1>5. CASE OpenEdge
  BY <1>5 DEF OpenEdge
<1>6. CASE WriteEdge
  BY <1>6 DEF WriteEdge
<1>7. CASE GpioReturns
  BY <1>7 DEF GpioReturns
<1> QED
  BY <1>1, <1>2, <1>3, <1>4, <1>5, <1>6, <1>7

\* The steps of main that set up the SPI and its runner.
LEMMA SpiSteps ==
  ASSUME IInv, OpenSpi \/ Ioctl \/ CreateStm
  PROVE  IInv'
<1> USE LoopsAssumption, AttemptsAssumption
    DEF IInv, TypeOK, SetUpOfGpio, SetUpOfSpi, LineIsInput,
        WaitsOnLine, TransfersConfigured, Setup, SetupGpio, Ioctls,
        sysfs, waiter, link, sender
<1>1. CASE OpenSpi
  BY <1>1 DEF OpenSpi
<1>2. CASE Ioctl
  BY <1>2 DEF Ioctl, AfterIoctl
<1>3. CASE CreateStm
  BY <1>3 DEF CreateStm
<1> QED
  BY <1>1, <1>2, <1>3

\* The runner, or main, that waits for the line, and the line.
LEMMA WaiterSteps ==
  ASSUME IInv, Waiter \/ Fall
  PROVE  IInv'
<1> USE LoopsAssumption, AttemptsAssumption
    DEF IInv, TypeOK, SetUpOfGpio, SetUpOfSpi, LineIsInput,
        WaitsOnLine, TransfersConfigured, Setup, SetupGpio, Ioctls,
        sysfs, waiter, link, sender
<1>1. CASE StartWait
  BY <1>1 DEF StartWait, Start
<1>2. CASE TestWait
  BY <1>2 DEF TestWait
<1>3. CASE Select
  BY <1>3 DEF Select, Woken, WaitOver
<1>6. CASE SelectFails
  BY <1>6 DEF SelectFails, WaitOver
<1>4. CASE GetValue
  <2>1. pending' \in BOOLEAN
    BY <1>4 DEF GetValue, Get
  <2>2. wait = "get" /\ wait' \in {"select", "test"}
    BY <1>4 DEF GetValue
  <2>3. UNCHANGED <<testOnly, pc, attempts, gpio, line, waits, spi, done, stm, turns>>
    BY <1>4 DEF GetValue
  <2>4. TypeOK'
    BY <2>1, <2>2, <2>3
  <2>5. SetUpOfGpio' /\ SetUpOfSpi'
    BY <2>2, <2>3
  <2>6. LineIsInput' /\ WaitsOnLine' /\ TransfersConfigured'
    BY <2>2, <2>3
  <2> QED
    BY <2>1, <2>4, <2>5, <2>6
<1>5. CASE Fall
  BY <1>5 DEF Fall
<1> QED
  BY <1>1, <1>2, <1>3, <1>4, <1>5, <1>6 DEF Waiter, Served

\* The runner of the STM32.
LEMMA SenderSteps ==
  ASSUME IInv, Sender
  PROVE  IInv'
<1> USE LoopsAssumption, AttemptsAssumption
    DEF IInv, TypeOK, SetUpOfGpio, SetUpOfSpi, LineIsInput,
        WaitsOnLine, TransfersConfigured, Setup, SetupGpio, Ioctls,
        sysfs, waiter, link, sender
<1>1. CASE Turn
  BY <1>1 DEF Turn
<1>2. CASE LoopEnds
  BY <1>2 DEF LoopEnds
<1>3. CASE Close
  BY <1>3 DEF Close
<1> QED
  BY <1>1, <1>2, <1>3 DEF Sender

LEMMA Stuttering ==
  ASSUME IInv, UNCHANGED vars
  PROVE  IInv'
  BY DEF IInv, TypeOK, SetUpOfGpio, SetUpOfSpi, LineIsInput,
         WaitsOnLine, TransfersConfigured, Setup, SetupGpio, Ioctls,
         vars, sysfs, waiter, link, sender

\* The invariant that the results below rest on.
THEOREM Inductive == Spec => []IInv
<1>1. IInv /\ [Next]_vars => IInv'
  BY GpioSteps, SpiSteps, WaiterSteps, SenderSteps, Stuttering
     DEF Next, Main
<1> QED
  BY Initially, <1>1, PTL DEF Spec

-------------------------------------------------------------------------------

\* Every countdown of the set-up and of the loops stops where it should
\* (elite-slave-ready-gpio.c:38-52), for any number of loops and attempts.
THEOREM Typing == Spec => []TypeOK
  BY Inductive, PTL DEF IInv

\* The GPIO runner never waits on anything but an input that was set up as one,
\* although the result of the set-up is lost (elite-slave-ready-gpio.c:160-188).
THEOREM WaitsOnALine == Spec => []WaitsOnLine
  BY Inductive, PTL DEF IInv

\* The STM32 runner transfers on a descriptor that went through all of spi_init
\* (esg-spidev.c:129-219).
THEOREM TransfersAreConfigured == Spec => []TransfersConfigured
  BY Inductive, PTL DEF IInv

-------------------------------------------------------------------------------
(* The contracts of the two runners (RunnerContract).                      *)

\* A test of the GPIO alone has no runner, and a runner that closes its device
\* has taken its last turn, or one that failed.
Sides ==
  /\ testOnly => wait \in {"none", "select", "get"}
  /\ stm = "close" => turns = 0 \/ turns < Loops

LEMMA SidesKept == IInv /\ Sides /\ [Next]_vars => Sides'
<1> SUFFICES ASSUME IInv, Sides, [Next]_vars PROVE Sides'
  OBVIOUS
<1> USE LoopsAssumption DEF Sides, waiter, sender
<1>1. CASE Main
  <2>1. UNCHANGED <<testOnly, turns>> /\ (stm' = stm \/ stm' \in {"none", "test"})
    BY <1>1 DEF Main, Export, OpenDirection, Retry, WriteDirection, OpenValue,
                OpenEdge, WriteEdge, GpioReturns, OpenSpi, Ioctl, CreateStm,
                Go, Failed
  <2>2. testOnly => wait' \in {wait, "select"}
    BY <1>1 DEF Main, Export, OpenDirection, Retry, WriteDirection, OpenValue,
                OpenEdge, WriteEdge, GpioReturns, OpenSpi, Ioctl, CreateStm,
                Go, Failed
  <2> QED
    BY <2>1, <2>2
<1>2. CASE Waiter
  BY <1>2 DEF Waiter, Served, StartWait, Start, TestWait, Select, SelectFails,
         WaitOver, GetValue
<1>3. CASE Sender
  BY <1>3 DEF Sender, Turn, LoopEnds, Close, IInv, TypeOK
<1>4. CASE Fall
  BY <1>4 DEF Fall
<1>5. CASE UNCHANGED vars
  BY <1>5 DEF vars
<1> QED
  BY <1>1, <1>2, <1>3, <1>4, <1>5 DEF Next

\* What leaves the GPIO and its runner alone.
LEMMA GpioStill ==
  ASSUME UNCHANGED <<testOnly, gpio, line, wait, waits>>,
         pc \in SetupGpio <=> pc' \in SetupGpio
  PROVE  UNCHANGED GpioContract!vars
  BY DEF GpioContract!vars, GpioDevice, GpioThread

\* The end of the set-up is the opening, with any outcome.
LEMMA GpioOpens ==
  ASSUME IInv, GpioReturns
  PROVE  GpioContract!Open
<1>1. GpioDevice = "closed" /\ GpioThread = "none"
  BY DEF IInv, SetUpOfGpio, GpioReturns, GpioDevice, GpioThread, SetupGpio
<1>2. /\ GpioDevice' \in {"closed", "half", "ready"}
      /\ GpioThread' \in {"none", "running"}
      /\ waits' = waits
  BY DEF IInv, SetUpOfGpio, GpioReturns, GpioDevice, GpioThread, waiter
<1>3. <<GpioDevice', "ok">> \in GpioContract!Opened("gpio")
  BY <1>2 DEF GpioContract!Opened
<1> QED
  BY <1>1, <1>2, <1>3 DEF GpioContract!Open

LEMMA GpioMain ==
  ASSUME IInv, Main
  PROVE  [GpioContract!Next]_(GpioContract!vars)
<1>1. CASE GpioReturns
  BY <1>1, GpioOpens DEF GpioContract!Next
<1>2. CASE \/ Export \/ OpenDirection \/ WriteDirection \/ OpenEdge \/ WriteEdge
           \/ OpenValue
  <2>1. /\ pc \in SetupGpio /\ pc' \in SetupGpio
        /\ UNCHANGED <<testOnly, wait, waits>>
    BY <1>2 DEF Export, OpenDirection, Retry, WriteDirection, OpenEdge, WriteEdge,
                OpenValue, Go, Failed, SetupGpio, waiter
  <2> QED
    BY <2>1 DEF GpioContract!vars, GpioDevice, GpioThread
<1>3. CASE OpenSpi \/ Ioctl \/ CreateStm
  <2>1. /\ pc \notin SetupGpio /\ pc' \notin SetupGpio
        /\ UNCHANGED <<testOnly, gpio, line, wait, waits>>
    BY <1>3 DEF OpenSpi, Ioctl, AfterIoctl, CreateStm, SetupGpio, sysfs, waiter
  <2> QED
    BY <2>1, GpioStill
<1> QED
  BY <1>1, <1>2, <1>3 DEF Main

LEMMA GpioWaits ==
  ASSUME IInv, Sides, Waiter
  PROVE  [GpioContract!Next]_(GpioContract!vars)
<1>1. UNCHANGED <<testOnly, pc, gpio, line>> /\ pc \notin SetupGpio
  BY DEF Waiter, Served, StartWait, Start, TestWait, Select, SelectFails,
         WaitOver, GetValue, sysfs,
         IInv, SetUpOfGpio, SetupGpio
<1>2. UNCHANGED GpioDevice
  BY <1>1 DEF GpioDevice
<1>3. CASE StartWait \/ TestWait
  <2>1. ~testOnly /\ GpioThread = "running"
    BY <1>3 DEF Sides, StartWait, Start, TestWait, GpioThread
  <2>2. CASE StartWait /\ line = "value"
    BY <1>1, <1>2, <2>1, <2>2
       DEF StartWait, Start, GpioThread, GpioContract!vars
  <2>3. CASE StartWait /\ line # "value"
    <3>1. GpioThread' = "ended" /\ waits' = waits /\ GpioDevice = "closed"
      BY <1>1, <2>1, <2>3 DEF StartWait, Start, GpioThread, GpioDevice
    <3> QED
      BY <1>2, <2>1, <3>1 DEF GpioContract!End, GpioContract!Next
  <2>4. CASE TestWait /\ waits > 0
    <3>1. GpioThread' = "running" /\ waits' = waits - 1
      BY <1>1, <2>1, <2>4 DEF TestWait, GpioThread
    <3>2. GpioDevice # "closed"
      BY <1>1, <2>1, <2>4 DEF TestWait, GpioDevice, IInv, WaitsOnLine
    <3> QED
      BY <1>2, <2>1, <2>4, <3>1, <3>2 DEF GpioContract!Turn, GpioContract!Next
  <2>5. CASE TestWait /\ ~(waits > 0)
    <3>1. GpioThread' = "ended" /\ waits' = waits /\ waits = 0
      BY <1>1, <2>1, <2>5, LoopsAssumption DEF TestWait, GpioThread, IInv, TypeOK
    <3> QED
      BY <1>2, <2>1, <3>1 DEF GpioContract!End, GpioContract!Next
  <2> QED
    BY <1>3, <2>2, <2>3, <2>4, <2>5
<1>4. CASE Select \/ SelectFails \/ GetValue
  <2>1. wait \in {"select", "get"} /\ wait' \in {"select", "get", "test"}
        /\ waits' = waits
    BY <1>4 DEF Select, SelectFails, WaitOver, GetValue
  <2> QED
    BY <1>1, <1>2, <2>1 DEF GpioThread, GpioContract!vars
<1> QED
  BY <1>3, <1>4 DEF Waiter, Served

\* What leaves the SPI and its runner alone.
LEMMA StmStill ==
  ASSUME UNCHANGED <<spi, done, stm, turns>>, pc \in Setup <=> pc' \in Setup
  PROVE  UNCHANGED StmContract!vars
  BY DEF StmContract!vars, StmDevice, StmThread

LEMMA StmOutcomes ==
  StmContract!Opened("stm32")
    = {<<"ready", "ok">>, <<"half", "failed">>, <<"closed", "failed">>}
  BY DEF StmContract!Opened

\* The set-up ends: the runner is there only on a device that is ready.
LEMMA StmOpens ==
  ASSUME IInv, pc \in Setup, pc' \notin Setup, turns' = turns,
         stm' = "none" \/ (stm' = "test" /\ StmDevice' = "ready")
  PROVE  StmContract!Open
<1>1. StmDevice = "closed" /\ StmThread = "none"
  BY DEF IInv, SetUpOfSpi, StmDevice, StmThread, Over
<1>2. /\ StmDevice' \in {"closed", "half", "ready"}
      /\ StmThread' = IF stm' = "none" THEN "none" ELSE "running"
  BY DEF StmDevice, StmThread, Over
<1>3. CASE StmDevice' = "ready"
  <2>1. <<"ready", "ok">> \in StmContract!Opened("stm32")
    BY StmOutcomes
  <2> QED
    BY <1>1, <1>2, <1>3, <2>1 DEF StmContract!Open
<1>4. CASE StmDevice' # "ready"
  <2>1. <<StmDevice', "failed">> \in StmContract!Opened("stm32")
    BY <1>2, <1>4, StmOutcomes
  <2>2. StmThread' = "none"
    BY <1>2, <1>4
  <2> QED
    BY <1>1, <2>1, <2>2 DEF StmContract!Open
<1> QED
  BY <1>3, <1>4

LEMMA StmMain ==
  ASSUME IInv, Main
  PROVE  [StmContract!Next]_(StmContract!vars)
<1>1. pc \in Setup /\ turns' = turns
  BY DEF Main, Export, OpenDirection, Retry, WriteDirection, OpenEdge, WriteEdge,
         OpenValue, GpioReturns, OpenSpi, Ioctl, CreateStm, Go, Failed,
         Setup, SetupGpio, sender
<1>2. stm = "none" /\ (stm' = "none" \/ (CreateStm /\ stm' = "test"))
  BY <1>1 DEF IInv, SetUpOfSpi,
         Main, Export, OpenDirection, Retry, WriteDirection, OpenEdge, WriteEdge,
         OpenValue, GpioReturns, OpenSpi, Ioctl, CreateStm, Go, Failed, sender
<1>3. CASE pc' \in Setup
  <2>1. stm' = "none"
    BY <1>2, <1>3 DEF CreateStm, Setup, SetupGpio
  <2> QED
    BY <1>1, <1>2, <1>3, <2>1 DEF StmContract!vars, StmDevice, StmThread
<1>4. CASE pc' \notin Setup
  <2>1. ASSUME CreateStm PROVE StmDevice' = "ready"
    BY <1>4, <2>1 DEF CreateStm, IInv, SetUpOfSpi, StmDevice, link
  <2> QED
    BY <1>1, <1>2, <1>4, <2>1, StmOpens DEF StmContract!Next
<1> QED
  BY <1>3, <1>4

LEMMA StmSends ==
  ASSUME IInv, Sides, Sender
  PROVE  [StmContract!Next]_(StmContract!vars)
<1>1. pc \notin Setup /\ pc' = pc
  BY DEF Sender, Turn, LoopEnds, Close, IInv, SetUpOfSpi
<1>2. turns \in Nat /\ StmThread = "running"
  BY LoopsAssumption DEF Sender, Turn, LoopEnds, Close, IInv, TypeOK, StmThread, Over
<1>3. CASE Turn
  <2>1. StmDevice = "ready" /\ UNCHANGED StmDevice
    BY <1>1, <1>3 DEF Turn, IInv, TransfersConfigured, StmDevice, link
  <2>2. StmThread' = "running"
    BY <1>3 DEF Turn, StmThread, Over
  <2> QED
    BY <1>2, <1>3, <2>1, <2>2 DEF Turn, StmContract!Turn, StmContract!Next
<1>4. CASE LoopEnds
  <2>1. UNCHANGED <<StmDevice, turns>> /\ StmThread' = "running"
    BY <1>1, <1>4 DEF LoopEnds, StmDevice, StmThread, Over, link
  <2> QED
    BY <1>2, <2>1 DEF StmContract!vars
<1>5. CASE Close
  <2>1. /\ StmDevice' = "closed" /\ StmThread' = "ended" /\ turns' = turns
        /\ turns = 0 \/ turns < Loops
    BY <1>5 DEF Close, StmDevice, StmThread, Over, Sides
  <2> QED
    BY <1>2, <2>1 DEF StmContract!End, StmContract!Next
<1> QED
  BY <1>3, <1>4, <1>5 DEF Sender

\* Both runners are those main counts on, for any number of loops and attempts
\* (main.c 97-142, elite-slave-ready-gpio.c:160-188, stm32-runner.c 155-190).
THEOREM RunnersKeepContracts == Spec => Contracts
<1>1. Init => Sides /\ GpioContract!Init /\ StmContract!Init
  BY DEF Init, Sides, GpioContract!Init, StmContract!Init, GpioDevice, GpioThread,
         StmDevice, StmThread, Setup, SetupGpio, Over
<1>2. IInv /\ Sides /\ [Next]_vars => [GpioContract!Next]_(GpioContract!vars)
  <2>1. Sender \/ Fall \/ UNCHANGED vars => UNCHANGED GpioContract!vars
    BY GpioStill DEF Sender, Turn, LoopEnds, Close, Fall, vars, sysfs, waiter
  <2> QED
    BY <2>1, GpioMain, GpioWaits DEF Next
<1>3. IInv /\ Sides /\ [Next]_vars => [StmContract!Next]_(StmContract!vars)
  <2>1. Waiter \/ Fall \/ UNCHANGED vars => UNCHANGED StmContract!vars
    BY StmStill DEF Waiter, Served, StartWait, Start, TestWait, Select, SelectFails,
         WaitOver, GetValue, Fall,
                    vars, link, sender
  <2> QED
    BY <2>1, StmMain, StmSends DEF Next
<1> QED
  BY Inductive, SidesKept, <1>1, <1>2, <1>3, PTL
     DEF Spec, Contracts, GpioContract!Spec, StmContract!Spec

-------------------------------------------------------------------------------
(* Main and the runners run out of system calls.                           *)

MainPlace == [export |-> 10, open_direction |-> 9, write_direction |-> 8,
              open_value |-> 7, open_edge |-> 6, write_edge |-> 5,
              gpio_returns |-> 4, open_spi |-> 3, ioctl |-> 2, create |-> 1,
              joining |-> 0, testing |-> 0]
WaitPlace == [none |-> 4, select |-> 3, start |-> 2, get |-> 2, test |-> 1, ended |-> 0]
SendPlace == [none |-> 3, test |-> 2, close |-> 1, ended |-> 0]

\* The calls each can still make.
MainLeft == attempts + (Ioctls - done) + MainPlace[pc]
WaitLeft == 3 * waits + WaitPlace[wait]
SendLeft == turns + SendPlace[stm]

\* Each makes fewer with every call, the GPIO runner that is no test too.
CallsRunOut ==
  [][/\ Main   => MainLeft' \in 0..MainLeft - 1
     /\ Waiter => testOnly \/ WaitLeft' \in 0..WaitLeft - 1
     /\ Sender => SendLeft' \in 0..SendLeft - 1]_vars

\* Whatever fails, main comes to its joins after a bounded number of attempts
\* and calls (elite-slave-ready-gpio.c:38-52, esg-spidev.c:129-219), and each
\* runner to its end: only a select without an edge could keep it from that.
THEOREM SetUpAndRunnersRunOut == Spec => CallsRunOut
<1>1. IInv /\ IInv' /\ Main => MainLeft' \in 0..MainLeft - 1
  <2> SUFFICES ASSUME IInv, IInv', Main PROVE MainLeft' \in 0..MainLeft - 1
    OBVIOUS
  <2>1. /\ attempts \in Nat /\ attempts' \in Nat
        /\ done \in 0..6 /\ done' \in 0..6
    BY AttemptsAssumption DEF IInv, TypeOK, Ioctls
  <2>2. MainPlace[pc] \in 0..10 /\ MainPlace[pc'] \in 0..10
    BY DEF IInv, TypeOK, MainPlace, Setup, SetupGpio
  <2>3. \/ attempts' = attempts /\ done' = done /\ MainPlace[pc'] < MainPlace[pc]
        \/ /\ attempts' = attempts - 1 /\ done' = done
           /\ MainPlace[pc'] <= MainPlace[pc]
        \/ /\ attempts' = attempts /\ done' = done + 1
           /\ MainPlace[pc'] <= MainPlace[pc]
    BY <2>1 DEF Main, Export, OpenDirection, Retry, WriteDirection, OpenValue,
           OpenEdge, WriteEdge, GpioReturns, OpenSpi, Ioctl, AfterIoctl,
           CreateStm, Go, Failed, MainPlace, link
  <2> QED
    BY <2>1, <2>2, <2>3 DEF MainLeft, Ioctls
<1>2. IInv /\ IInv' /\ Waiter => testOnly \/ WaitLeft' \in 0..WaitLeft - 1
  <2> SUFFICES ASSUME IInv, IInv', Waiter, ~testOnly
               PROVE  WaitLeft' \in 0..WaitLeft - 1
    OBVIOUS
  <2>1. waits \in Nat /\ waits' \in Nat
    BY LoopsAssumption DEF IInv, TypeOK
  <2>2. WaitPlace[wait] \in 0..4 /\ WaitPlace[wait'] \in 0..4
    BY DEF IInv, TypeOK, WaitPlace
  <2>3. \/ waits' = waits /\ WaitPlace[wait'] < WaitPlace[wait]
        \/ waits' = waits - 1 /\ WaitPlace[wait] = 1 /\ WaitPlace[wait'] = 3
    BY <2>1 DEF Waiter, Served, StartWait, Start, TestWait, Select, SelectFails,
         WaitOver, GetValue, WaitPlace
  <2> QED
    BY <2>1, <2>2, <2>3 DEF WaitLeft
<1>3. IInv /\ IInv' /\ Sender => SendLeft' \in 0..SendLeft - 1
  <2> SUFFICES ASSUME IInv, IInv', Sender PROVE SendLeft' \in 0..SendLeft - 1
    OBVIOUS
  <2>1. turns \in Nat /\ turns' \in Nat
    BY LoopsAssumption DEF IInv, TypeOK
  <2>2. SendPlace[stm] \in 0..3 /\ SendPlace[stm'] \in 0..3
    BY DEF IInv, TypeOK, SendPlace
  <2>3. \/ turns' = turns /\ SendPlace[stm'] < SendPlace[stm]
        \/ turns' = turns - 1 /\ SendPlace[stm'] <= SendPlace[stm]
    BY <2>1 DEF Sender, Turn, LoopEnds, Close, SendPlace
  <2> QED
    BY <2>1, <2>2, <2>3 DEF SendLeft
<1> QED
  BY Inductive, <1>1, <1>2, <1>3, PTL DEF Spec, CallsRunOut

=============================================================================
