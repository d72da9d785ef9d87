----------------------------- MODULE EliteTdma -----------------------------
(***************************************************************************)
(* The two runners that talk to the STM32: the one that waits for its      *)
(* slave-ready GPIO (src/gpiod) and the one that transfers frames over SPI *)
(* (src/stm32, src/spidev), and main, which sets them up one after the     *)
(* other (src/main.c).  A step is one system call on sysfs or spidev.      *)
(*                                                                         *)
(* sysfs is external: the first select on a value that was just opened may *)
(* return at once, later ones return when the line fell since the last     *)
(* read, if an edge is set.  Operators marked "Faulty" are variants of the *)
(* definition after them, used to show that the properties can fail.       *)
(***************************************************************************)
EXTENDS Integers

CONSTANTS
  Loops,     \* nb_loops
  Attempts   \* attempts to open the direction, 100 in the code

ASSUME LoopsAssumption    == Loops \in Nat
ASSUME AttemptsAssumption == Attempts \in Nat \ {0}

Ioctls == 6   \* of spi_init

VARIABLES
  testOnly,   \* --gpio-test-only
  pc,         \* where main is
  attempts,   \* `timeout` of elite_gpio_open
  gpio,       \* what sysfs knows of the line: exported, direction, edge
  line,       \* slave_ready_gpio.fd: "zero", "bad" (-1) or "value"
  pending,    \* select on the value would return
  wait,       \* where the GPIO runner is, or main when testing only the GPIO
  waits,      \* its nb_loops
  spi,        \* spi_dev.fd: "zero", "bad" or "spidev"
  done,       \* the ioctls of spi_init that succeeded
  stm,        \* where the STM32 runner is
  turns       \* its nb_loops

sysfs  == <<gpio, line>>
waiter == <<wait, waits>>
link   == <<spi, done>>
sender == <<stm, turns>>
vars   == <<testOnly, pc, attempts, sysfs, pending, waiter, link, sender>>

Init ==
  /\ testOnly \in BOOLEAN
  /\ pc = "export"
  /\ attempts = Attempts
  /\ gpio = [exported |-> FALSE, direction |-> FALSE, edge |-> FALSE]
  /\ line = "zero"
  /\ pending = FALSE
  /\ wait = "none" /\ waits = Loops
  /\ spi = "zero" /\ done = 0
  /\ stm = "none" /\ turns = Loops

Go(next) == pc' = next /\ UNCHANGED <<testOnly, waiter, link, sender>>

-------------------------------------------------------------------------------
(* elite_slave_ready_gpio_init, called by main.                            *)

\* A result that is negative only leads to a log.
Failed == Go("gpio_returns")

\* elite_gpio_open.  A write that fails is not noticed: -1 is not less than an
\* unsigned length.  It fails for a GPIO that is exported already.
Export ==
  /\ pc = "export"
  /\ \/ Failed /\ UNCHANGED gpio
     \/ /\ Go("open_direction")
        /\ \E e \in BOOLEAN : gpio' = [gpio EXCEPT !.exported = e]
  /\ UNCHANGED <<attempts, line, pending>>

\* Faulty: one attempt too many, the countdown being tested too late.
RetryLate ==
  /\ attempts' = attempts - 1
  /\ IF attempts = 0 THEN Failed ELSE Go("open_direction")

\* 10 ms, and another attempt, or the end of them.
Retry ==
  /\ attempts' = attempts - 1
  /\ IF attempts = 1 THEN Failed ELSE Go("open_direction")

OpenDirection ==
  /\ pc = "open_direction"
  /\ \/ gpio.exported /\ Go("write_direction") /\ UNCHANGED attempts
     \/ Retry
  /\ UNCHANGED <<sysfs, pending>>

WriteDirection ==
  /\ pc = "write_direction"
  /\ \/ Go("open_value") /\ gpio' = [gpio EXCEPT !.direction = TRUE]
     \/ Failed /\ UNCHANGED gpio
  /\ UNCHANGED <<attempts, line, pending>>

OpenValue ==
  /\ pc = "open_value"
  /\ \/ /\ Go("open_edge")
        /\ line' = "value" /\ pending' \in BOOLEAN
     \/ Failed /\ line' = "bad" /\ UNCHANGED pending
  /\ UNCHANGED <<attempts, gpio>>

\* elite_gpio_configure_event.  Here too a write that fails is not noticed.
OpenEdge ==
  /\ pc = "open_edge"
  /\ Go("write_edge") \/ Failed
  /\ UNCHANGED <<attempts, sysfs, pending>>

WriteEdge ==
  /\ pc = "write_edge"
  /\ Go("gpio_returns")
  /\ \E e \in BOOLEAN : gpio' = [gpio EXCEPT !.edge = e]
  /\ UNCHANGED <<attempts, line, pending>>

\* There is no return statement: elite_gpiod_init takes any result for that of
\* the set-up, creates its runner if it is 0, and main goes on if that is 0.
GpioReturns ==
  /\ pc = "gpio_returns"
  /\ IF testOnly THEN pc' = "testing" /\ wait' = "select"
     ELSE \/ pc' = "open_spi" /\ wait' = "start"
          \/ pc' = "joining" /\ UNCHANGED wait
  /\ UNCHANGED <<testOnly, attempts, sysfs, pending, waits, link, sender>>

-------------------------------------------------------------------------------
(* spi_init and stm32_runner_init, called by main.                         *)

\* errno is positive, and other than EXIT_SUCCESS all the same.
OpenSpi ==
  /\ pc = "open_spi"
  /\ \/ spi' = "spidev" /\ pc' = "ioctl"
     \/ spi' = "bad" /\ pc' = "joining"
  /\ UNCHANGED <<testOnly, attempts, sysfs, pending, waiter, done, sender>>

\* Faulty: a failed ioctl is logged and no more.
AfterIoctlAlways(ok) == IF done' = Ioctls \/ ~ok THEN "create" ELSE "ioctl"

\* The mode, the bits per word and the speed, each written and read back.
AfterIoctl(ok) ==
  IF ~ok THEN "joining" ELSE IF done' = Ioctls THEN "create" ELSE "ioctl"

Ioctl ==
  /\ pc = "ioctl"
  /\ \E ok \in BOOLEAN :
       /\ done' = IF ok THEN done + 1 ELSE done
       /\ pc' = AfterIoctl(ok)
  /\ UNCHANGED <<testOnly, attempts, sysfs, pending, waiter, spi, sender>>

CreateStm ==
  /\ pc = "create" /\ pc' = "joining"
  /\ stm' \in {"none", "test"}
  /\ UNCHANGED <<testOnly, attempts, sysfs, pending, waiter, link, turns>>

-------------------------------------------------------------------------------
(* The GPIO runner, and the endless wait of main without one.              *)

\* Faulty: the runner starts whatever became of its descriptor.
StartAnyway == wait = "start" /\ wait' = "test"

Start == wait = "start" /\ wait' = IF line = "value" THEN "test" ELSE "ended"

StartWait ==
  /\ Start
  /\ UNCHANGED <<testOnly, pc, attempts, sysfs, pending, waits, link, sender>>

TestWait ==
  /\ wait = "test"
  /\ IF waits > 0 THEN wait' = "select" /\ waits' = waits - 1
     ELSE wait' = "ended" /\ UNCHANGED waits
  /\ UNCHANGED <<testOnly, pc, attempts, sysfs, pending, link, sender>>

\* Faulty: the first argument of select is the descriptor, not one more.
WokenNever == FALSE

\* What select waits for: an exceptional condition, and no time limit.
Woken == line = "value" /\ pending

WaitOver ==
  /\ wait = "select" /\ wait' = "get"
  /\ UNCHANGED <<testOnly, pc, attempts, sysfs, pending, waits, link, sender>>

\* A descriptor that is not open makes select fail, which is only logged ...
Select == (Woken \/ line # "value") /\ WaitOver

\* ... as it is when it fails on one that is.
SelectFails == line = "value" /\ WaitOver

\* elite_gpio_get: the value is read and the event is over; a read that fails
\* is only logged, and leaves the event to the next wait.
Get ==
  \/ line = "value" /\ pending' = FALSE
  \/ UNCHANGED pending

GetValue ==
  /\ wait = "get"
  /\ Get
  /\ wait' = IF testOnly THEN "select" ELSE "test"
  /\ UNCHANGED <<testOnly, pc, attempts, sysfs, waits, link, sender>>

\* The STM32 asserts slave-ready, at any moment.
Fall ==
  /\ line = "value"
  /\ pending' = (pending \/ gpio.edge)
  /\ UNCHANGED <<testOnly, pc, attempts, sysfs, waiter, link, sender>>

-------------------------------------------------------------------------------
(* The STM32 runner.                                                       *)

\* A turn: select, for 100 us at most, and a transfer unless it failed, slave
\* ready or not.  A transfer that fails ends the loop.
Turn ==
  /\ stm = "test" /\ turns > 0
  /\ turns' = turns - 1
  /\ stm' \in {"test", "close"}
  /\ UNCHANGED <<testOnly, pc, attempts, sysfs, pending, waiter, link>>

LoopEnds ==
  /\ stm = "test" /\ turns = 0
  /\ stm' = "close"
  /\ UNCHANGED <<testOnly, pc, attempts, sysfs, pending, waiter, link, turns>>

\* spi_close.
Close ==
  /\ stm = "close" /\ stm' = "ended"
  /\ spi' = "zero"
  /\ UNCHANGED <<testOnly, pc, attempts, sysfs, pending, waiter, done, turns>>

-------------------------------------------------------------------------------

Main ==
  \/ Export \/ OpenDirection \/ WriteDirection \/ OpenValue
  \/ OpenEdge \/ WriteEdge \/ GpioReturns
  \/ OpenSpi \/ Ioctl \/ CreateStm

Served == StartWait \/ TestWait \/ Select \/ GetValue
Waiter == Served \/ SelectFails

Sender == Turn \/ LoopEnds \/ Close

Next == Main \/ Waiter \/ Sender \/ Fall

Spec == Init /\ [][Next]_vars

\* Every thread is scheduled, and the STM32 asserts its line again and again; a
\* select need not fail.
FairSpec ==
  /\ Spec
  /\ WF_vars(Main) /\ WF_vars(Served) /\ WF_vars(Sender) /\ WF_vars(Fall)

-------------------------------------------------------------------------------
(* Properties.                                                             *)

SetupGpio == {"export", "open_direction", "write_direction", "open_value",
              "open_edge", "write_edge", "gpio_returns"}
Setup == SetupGpio \cup {"open_spi", "ioctl", "create"}
Over  == {"none", "ended"}

\* The countdowns of the attempts, the ioctls and the loops stop where they
\* should (elite-slave-ready-gpio.c:38-52), and the rest is well formed.
TypeOK ==
  /\ testOnly \in BOOLEAN
  /\ pc \in Setup \cup {"testing", "joining"}
  /\ attempts \in 0..Attempts
  /\ gpio \in [exported : BOOLEAN, direction : BOOLEAN, edge : BOOLEAN]
  /\ line \in {"zero", "bad", "value"}
  /\ pending \in BOOLEAN
  /\ wait \in {"none", "start", "test", "select", "get", "ended"}
  /\ waits \in 0..Loops
  /\ spi \in {"zero", "bad", "spidev"} /\ done \in 0..Ioctls
  /\ stm \in {"none", "test", "close", "ended"}
  /\ turns \in 0..Loops

\* The set-up of the GPIO may fail at any step and be taken for a success, as it
\* returns nothing (elite-slave-ready-gpio.c:160-188): the runner still waits
\* only for an input that is set up as one (elite-gpiod-runner.c:19).
WaitsOnLine ==
  wait \in {"test", "select", "get"} /\ ~testOnly
    => line = "value" /\ gpio.exported /\ gpio.direction

\* Each runner ends, so that main can join it (main.c:129-142): that of the
\* STM32 whatever the GPIO does, that of the GPIO when its edge was set up.
RunnersEnd ==
  /\ pc = "joining" ~> stm \in Over
  /\ pc = "gpio_returns" /\ gpio.edge /\ ~testOnly
       ~> pc = "joining" /\ wait \in Over /\ stm \in Over

\* What main sees of the runners: their devices and their threads.
GpioDevice == IF pc \in SetupGpio \/ line # "value" THEN "closed"
              ELSE IF \A f \in DOMAIN gpio : gpio[f] THEN "ready" ELSE "half"

GpioThread == IF testOnly \/ wait = "none" THEN "none"
              ELSE IF wait = "ended" THEN "ended" ELSE "running"

StmDevice == IF pc \in Setup \/ spi # "spidev" THEN "closed"
             ELSE IF done = Ioctls THEN "ready" ELSE "half"

StmThread == IF stm \in Over THEN stm ELSE "running"

GpioContract == INSTANCE RunnerContract WITH
  self <- "gpio", device <- GpioDevice, thread <- GpioThread, left <- waits

StmContract == INSTANCE RunnerContract WITH
  self <- "stm32", device <- StmDevice, thread <- StmThread, left <- turns

\* The two runners, as their system calls make them, are those that main counts
\* on (main.c 97-142): what is lost of the results of the set-up starts none of
\* them on a device that it should not have.
Contracts == GpioContract!Spec /\ StmContract!Spec
=============================================================================
