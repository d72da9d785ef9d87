# TLA+ model of the ESG BSP test program

The program under `src/` exercises the interfaces of an audio product: the
AuviTran rack over SPI, the sound card, the slave-ready GPIO, the STM32 over
SPI and the ELITE UART. This directory holds a model of it in TLA+, checked
with TLC, and proofs about the model checked with TLAPS.

## 1. The system

| Component | State it keeps | Operations | Talks to |
|---|---|---|---|
| Mailbox access, `auvitran/avxSpi.c` | device descriptor, `burst_support`; in the bridge of the rack: page selection, 32-byte buffer, ECS, CMD, ANS | `avx_init`, byte and burst transfers, bit toggles, the six mailbox calls, flash unlock | the rack, by SPI transfers |
| Rack, `auvitran/rackAuvitran.c` | table of slots: product and page addresses | `rack_initialize`, gains, pads, vu-meters, versions, matrix, sampling rate | mailbox calls |
| Main, `main.c` | settings, `test_runner[]`, exit code | parse, initialise, join, exit | creates and joins the runners |
| Rack runner, `auvitran/rack-runner.c` | loop counter | init, loop, release | rack |
| Audio runner, `audio/alsa-audio-runner-poll.c`, `audio/alsa-device.c` | two linked PCM handles, loop counter, pauses | open, start, read, write, pause, recover | ALSA |
| Slave-ready GPIO, `gpiod/*` | descriptor | export, direction, edge, wait | sysfs, `select` |
| STM32 runner, `stm32/stm32-runner.c`, `spidev/esg-spidev.c` | SPI device, loop counter | init, transfer, close | spidev |
| UART runner, `uart/elite-uart-runner.c` | frame being parsed, `max_size`, field | read a character, log a frame | tty |
| Command line, `options/*` (generated); `multi_core_tools/*` (types); `audio/alsa-poll-example.c` (third party) | - | - | not modelled |

What is hard in each, and what makes it correct:

- **Mailbox.** A call is up to nine transfers, and the rack executes the
  command in between, asynchronously. Transfers fail, answers come late, are
  invalid, or come from no rack at all. A failed transfer returns a *positive*
  errno, which most callers take for success (`0 <= ret`). The loop that waits
  for completion has no limit, and a call that gives up leaves its command in
  the bridge. Correct means: a call is one atomic operation on the register it
  names; a return of 0 means it took effect; no call tampers with a command
  that is pending; every call returns.
- **Rack initialisation.** Some 160 mailbox calls fill a table through which
  registers are then written. Any of them may fail; the result is kept in an
  unsigned variable, so no failure is seen as one; a read whose last transfer
  fails returns 0 with a byte that was never sent; `find_slot` starts from an
  uninitialised index. Correct means: the table is complete for every slot whose
  own calls succeeded, and what is written through it suits the card it reaches.
- **Rack controls.** A gain is converted to a byte and back with offsets and
  limits of each card; four pads share a register that is read and written
  back by two calls, either of which may fail, the read also without saying so.
  Correct means: what is set is what is read back, and one control does not
  disturb another.
- **Matrix.** The place of an output is computed from slot and channel;
  clearing walks over all slots, skips the empty ones and the pages that fail.
  Correct means: each output has the mapping that was last given to it, and 0
  is returned only if all was cleared.
- **Flash.** Unlocking is a key, a command, a wait without limit and a look at
  the result. Correct means: the call judges its own command, and returns.
- **Main and runners.** Initialisations fail part way, while runners already
  started go on; handles of threads that were never created; runners that wait
  without a time limit. Correct means: exit after the runners, with a code
  that tells, and exit at all.
- **Audio.** Two linked PCM handles, xruns and suspends on either at any
  moment, short counts, a recovery that is given the wrong handle, results that
  overwrite each other, pauses. Correct means: a captured period is played
  before the next is read, xruns are survived, the loop ends.
- **GPIO and STM32.** A dozen system calls set the devices up, some of whose
  failures are not noticed, and one function has no return statement. Correct
  means: no runner works on a device that is not set up, and both runners end.
- **UART parser.** Frames are told apart by counting: one character too many
  or too few and all later frames are out of step. The line feed of a RAW
  frame comes when the frame is over. Correct means: what is logged is what
  was sent.

## 2. Modules

| Module | Models | Grain, role |
|---|---|---|
| `RemoteRegisters` | what register calls promise | abstract specification: a call is one atomic operation on a register |
| `AvxMailbox` | `avxSpi.c` 30-186, 308-809 and the bridge | one SPI transfer, interleaved with the rack; implements `RemoteRegisters` |
| `RackInit` | `rackAuvitran.c`: `rack_initialize` and all it calls | one mailbox call |
| `CardControls` | what setting and reading gains and pads promises | abstract specification: a control is a value, set or read in one step |
| `RackControls` | `rackAuvitran.c`: gains, pads, vu-meters, versions, sampling rate | one mailbox call; implements `CardControls` |
| `MatrixAndFlash` | `rackAuvitran.c`: matrix; `avxSpi.c`: flash unlock | one mailbox call |
| `RunnerDevices` | what opening a device may leave (`Opened`): the `*_init` functions | used by the four modules below |
| `RunnerContract` | what main relies on of one runner | abstract specification: opened once, created if that is "ok", at most `nb_loops` turns, one end and for a reason |
| `AudioRunner` | `alsa-audio-runner-poll.c`, `alsa-device.c` | one ALSA call or `select` of the loop, interleaved with the card; implements `RunnerContract` |
| `EliteTdma` | `gpiod/*`, `stm32-runner.c`, `esg-spidev.c`, `--gpio-test-only` | one system call; main, two runners and the STM32 interleaved; each runner implements `RunnerContract` |
| `Runners` | `main.c` and the life of the five runners | one initialisation, join or iteration, all threads interleaved; each of the five implements `RunnerContract` |
| `UartParser` | `elite_uart_dsp_runner` | one character |
| `AvxMailboxProofs`, `RackInitProofs`, `RackControlsProofs`, `MatrixAndFlashProofs`, `AudioRunnerProofs`, `EliteTdmaProofs`, `RunnersProofs`, `UartParserProofs` | - | inductive invariant and theorems of the module they are named after, refinements included |
| `MCRackControls`, `MCUartParser` | - | gains and payloads for TLC |

The modules compose in layers. `RemoteRegisters` is the joint between `avxSpi.c`
and `rackAuvitran.c`: a mailbox call is a single step in `RackInit`,
`RackControls` and `MatrixAndFlash` because `AvxMailboxProofs` proves that,
over a reliable link, a call *is* one atomic operation. Calls that fail return
an error code in these three, and a write that fails may have taken effect. What
a failed transfer makes of a read of a byte, a return of 0 with a byte that the
rack never sent (`avxSpi.c` 565, 573, 587), is in `RackInit` and `RackControls`;
writes of a byte do not return 0 without effect, which `faults` checks. Left out
of all three are calls that give up polling, and of `MatrixAndFlash` block
writes and reads that return 0 after a failed transfer. `Runners` composes the
five runners with main and keeps of each only whether its device is open;
`AudioRunner` and `EliteTdma` open up three of them. `RunnerContract` is the
joint between the two: `Runners` keeps it for all five, whatever main does in
between, and the detailed modules keep the same contract call by call, so that
what `Runners` assumes of a runner is what `AudioRunner` and `EliteTdma` show.

### How state and actions correspond to the code

`AvxMailbox`. `pc` is the place in the call: `page` and `buf` are the two
bursts that fill page 2 (`avx_write_mailbox`), `ecs` and `cmd` the writes of
those registers, `poll1` to `poll3` the transfers of one `avx_read_byte` of
CMD_1 in `avx_wait_mailbox_completion`, `ans` the burst that reads ANS, `st1`
to `st3` the read of the status of a block read and `data` the burst that
fetches the block. `op` holds the arguments, `ret` and `out` what the last call
returned. `pageSel`, `buf`, `ecs`, `cmd` and `answer` are the registers of the
bridge, `cells` those of the cards. `cable` tells a rack that was never touched
from one that is out or back in. `Execute` is the rack's own step. Bytes are
sets of bits; a page of a card is one register. The rack is not part of `src/`:
it is modelled from the way `avxSpi.c` uses it.

`RackInit`. `product` and `page` are `slots[]`, `pc`/`slot`/`type` the place
in the loops, `ret` the unsigned `ret`, of which only "zero or not" can be
told. `gain` remembers which conversion wrote a gain, `used` the page address
of the last access through the table, `unfilled` the reads that returned 0 with a
byte that was never sent, `failed` the slots one of whose calls failed or was
such a read. What such a read leaves is any product, or a page address that is
"wrong". The uninitialised index of `find_slot` is a choice among all slots with
the product, and none, made anew at each call: `SetGain` has one for the limits
and the conversion, and another, `Lookup`, for the place of the write.

`RackControls`. `product` is the table of a rack that was discovered; `reg` the
registers with gains and pads, `clock` the sampling rate. `job` and `bits` are
the locals of `rack_set_pad_level` between its read and its write; `filled` says
whether the last gain or pads that were read came from the card, or are one of
`Leftovers`, whatever byte was there. Gains are in
quarters of a dB, so that the truncation of the float conversion shows. One
control is `watched`: `asked` is what it was last set to by a call that returned
0, or unknown (after a failed write, or when a pad of the same card was set from
a read that brought nothing), `reply` what it was last read as.

`MatrixAndFlash`. `matrix` is the set of entries that are not clean; `job` and
`page` are the locals of `rack_matrix_set` and `rack_matrix_clear`; `mapped` is
what calls that returned 0 have made of the output that is `watched`. `flash`
holds the key, the command in FCR, whether FCAR names UNLOCK, and the lock.

`AudioRunner`. `state` is the PCM state of each handle, `avail` and `fill` the
periods in their buffers; `fresh` says that `buf` holds a period not yet
written; `ready` is what select returned; `failed` the sign of `ret`; `events`
what has happened that may lose a period: a call that failed, one that came back
short, a suspend that was resumed. `Tick` is
the clock of the card, `Suspend` that of the system; both come at any moment.
`MaxLag` bounds how late the runner gets on a handle that does not stop for it.

`EliteTdma`. `pc` is where main is in the two set-ups, `wait` and `stm` where the
runners are. `gpio` is what sysfs knows of the line, `pending` that select would
return, `done` counts the ioctls that succeeded. A select may fail, and so may
the read after it, which then leaves `pending` to the next wait.

`Runners`. `handle` is `test_runner[]`, `thread` the state of the thread,
`device` that of what the initialisation opened, `left` the countdown of the
loop. What an initialisation may leave (`Opened`) follows its code: the rack's
loses its errors, those of the ioctls on an open descriptor included; the
GPIO's has no return statement, so any code goes with
any state of the descriptor; the audio's returns a device whose set-up failed,
or asserts.

`UartParser`. One variable per local of `elite_uart_dsp_runner`; `sof`, `dst`,
`src`, `rawSz` and `payload` are those of the frame being read. Characters are
members of a small set in which those the parser tells apart are distinct.
Frames come one after another, without end: `sent` is the last, `line` what its
sender wrote, `at` how much of that has been read, `got` what has been decoded
since. The next frame is sent when the parser waits for it, which is no
restriction: the parser cannot tell when a character came. `failed` counts the
reads that failed since the parser began a frame (also the only bound on them),
`lost` those of them in the payload of the RAW frame that was sent. `astray` is
set when what these leave may run beyond `sof`: no line feed ends the payload,
or more of it is left than a header has characters. The parser does run beyond
`sof` then, which the C program leaves undefined: the model has these steps,
and stops after the store that overruns (`Defined`).

## 3. Runs

| Run | Question | Bounds |
|---|---|---|
| `nominal` | are all six mailbox calls atomic over a link that answers late? (`Atomic`) | 2 slots, 1 with a card, bytes of 1 bit: 2 pages, 2 values |
| `faults` | with every fault of link and cable: who is the first to abandon a command (`CommandsWaitedFor`), is the byte write honest (`ByteWriteLands`), does every call return (`CallReturns`), is `IInv` an invariant? | 1 slot, 3 kinds of calls, all four faults at any step |
| `rack_init` | is the table right, and what is written through it? does the number of calls left always go down (`CallsRunOut`)? | 2 card slots, 2 virtual slots, 3 products, all 7 pages; at most 1 read that returns 0 with nothing |
| `rack_controls` | is what is set read back, and nothing else changed? are controls independent values (`ControlsAreCells`, the refinement of `CardControls`)? | 2 slots, every choice of cards; channels 1, 4 and 5; gains of 12 dB and a quarter more; pad levels 1 and 3; an unfilled read leaves the byte 213, whose pads are not those a card starts with |
| `matrix_flash` | does the matrix hold what was asked, is the flash judged on the right command, does every call return? | 2 slots, empty or not; outputs 1 and 64 |
| `audio` | are periods kept in order until a call fails or comes back short, xruns survived, does the loop end, does the runner keep its contract? | 7 loops, 1 pause, at most 2 periods late, beyond which the lag is not counted |
| `elite_tdma` | does the GPIO runner wait on an input only, do both runners keep their contracts, and end? | 3 loops, 3 attempts |
| `lifecycle` | does main exit, after its runners, with an honest code? do all runners keep their contracts? | all 32 choices of runners, 2 loops |
| `uart_frames` | are frames decoded as sent? | any number of frames, one after another, each of every choice of 2 names, 4 texts and 5 blocks of bytes, with and without a line feed; names of 3 letters, sizes of 1 to 3 digits, 8 failing reads a frame, one more than a header has characters |
| `doc_*` | see section 6 | as small as shows it |

Why the bounds are enough. The mailbox handles one call at a time, and a call
depends on an earlier one only through the bridge: two slots and two pages
suffice to send a command to a wrong register, an empty slot to have it
refused, one bit to tell old data from new. `faults` has one kind of each shape
of call. Every call is checked from every reachable state of the bridge, for
traces of any length. `RackInit` runs over all racks of its size; two card
slots are the least with two cards that may be confused. The gains of
`rack_controls` are the upper limit of the AX4I and AX4O, and one beyond it
that is within that of the AX4M and off the resolution of the registers;
channels 1 and 4 are the first and the last of a card, 5 is none. Outputs 1 and
64 are the first and last of a card: the neighbours of the next slot's. In
`audio` the pause comes in the fifth last loop, so that seven loops have some
before and after it, and two periods late are enough to overrun a buffer of
two. Two or three loops distinguish the first, a middle and the last iteration.
The frames of `uart_frames` follow one another in every order, and `MaxPayload`
is chosen so that the longest frames, of both kinds, and the failures use it up
exactly. The proofs lift all of these bounds but those of the liveness
properties.

Every property of a passing run is also shown to fail: the operators marked
"Faulty" are plausible mistakes, each put in the place of the definition that
follows it (see `PROJECT.json`, "mutants").

Deadlock is checked except where the system really stops: the process exits
(`lifecycle`), runners have ended (`audio`, `elite_tdma`), initialisation ends
(`rack_init`, `doc_no_data`), a store has run beyond its buffer
(`uart_frames`).

## 4. Fairness

- `faults`: weak fairness of the step of the call in progress (its thread is
  scheduled) and of `Execute` (the rack serves its mailbox); strong fairness of
  a fetch that comes back, with a value or without (`FetchGetsThrough`,
  `RefetchGetsThrough`): the SPI controller does not fail every transfer for
  ever, without which the loop at `avxSpi.c` 796, which has no limit, never
  ends. Nothing is assumed of late answers or of the cable, but calls are only
  promised to return once the cable is left alone, in or out.
- `matrix_flash`: weak fairness of each step of a call, of a poll of the flash
  that sees the command completed, and of the flash. The wait has no limit
  ("TODO: Timeout", `avxSpi.c` 994): it ends because the flash does.
- `audio`: weak fairness of the runner where it does not wait (`Blocked`), and of
  the clock of the card. Nothing is assumed of suspends, failures and short
  counts; none of them is what ends a wait.
- `elite_tdma`: weak fairness of main and of each runner, but not of a select
  that fails, and of `Fall`: the STM32 asserts its line again and again.
  `RunnersEnd` promises the end of the GPIO runner only where the edge was set
  up.
- `lifecycle`: weak fairness of main and of each runner. For the audio runner
  this assumes that the sound card delivers, which `audio` looks into; for the
  GPIO runner, that a line that has been set up keeps being asserted. Without
  an edge (`device` = "half") nothing is assumed, and `MainEnds` promises
  nothing. The UART runner gets none and needs none: nobody waits for it.

## 5. Proofs

All are for every value of the constants. None rests on assumptions other than
the named ASSUMEs of the modules, which say what a constant is. Each module has
an `IInv`, which the properties need because none is inductive by itself.

- **Mailbox** (`AvxMailboxProofs`). `IInv` says, besides types, what the bridge
  holds at each place of a call: ECS names the register of the call from the
  ECS write on (`Addressed`), the block is in the buffer until the rack takes
  it (`Buffered`), the command is the call's own and gone before the answer is
  read (`Commanded`), an answer means that the call took effect (`Answered`).
  That a returned 0 means success depends on what ECS held several transfers
  earlier. The clauses hold of calls that can see their failures (`Trusted`):
  all of them if transfers do not fail, single-byte writes even if they do.
  From it: `Typing`, `GivingUpAlone` (whatever fails, the first to leave a
  command behind is a call that gives up polling; of the calls made over that
  command, which do rewrite ECS and CMD, it says nothing), `OneCommandAtATime`
  (if no call gives up, a command is always that of the call in progress),
  `ByteWriteIsSound` (on a rack that was never unplugged, after any failures),
  `SuccessIsSound` (all calls, over a reliable link). `NothingElseIsRepeated`:
  see "running out" below.
- **Mailbox calls are atomic** (`Refinement` in `AvxMailboxProofs`). The
  mapping reads "applied" off the bridge: the command is gone and an answer
  stands. `Execute` is the step that maps to `Apply`; a return maps to
  `Succeed` or `Fail`; every other step stutters.
- **Rack initialisation** (`RackInitProofs`). `IInv` says where discovery stands
  (`Position`), that slots ahead have nothing in the table (`Ahead`), that, of the
  slots whose own calls succeeded, those behind are complete and the current one
  is as far as its pages (`Behind`), and that a product that is not that of the
  card comes from an unfilled read of it (`TableRight`). From it, for any number
  of slots and of unfilled reads: `Typing`, `DiscoveryIsComplete`, and
  `GainsFitTheirCards`, in which whatever the second lookup finds has the product
  the first one chose the conversion for. `DefaultsGoTogether` needs one more,
  what each stage knows of the gains written so far (`GainsSoFar`).
  `InitialisationEnds`: each step takes at least one off the calls left, of
  which there are at most nine for each slot and four more.
- **Rack controls** (`RackControlsProofs`). First the arithmetic: a byte is its
  four pads (`WithPadSetsOne`), a gain survives its conversion
  (`GainRoundTrip`). `IInv` says that what `rack_set_pad_level` has read is
  still in the register when it writes, if it did read it (`BitsCurrent`), and that
  the register
  holds what the watched control was set to (`GainHeld`, `PadHeld`). From it:
  `Typing`, `GainsReadBack`, `PadsReadBack`, `PadsAreIndependent`, for any
  number of slots, any gains and any levels.
- **Controls are values of their own** (`Refinement` in `RackControlsProofs`):
  `RackControls` implements `CardControls`. The mapping decodes the registers: a
  gain from its code, with the offset of the card (`GainKept`: setting a gain
  in the code sets it in the map, to half a dB), a pad from its two bits of the
  byte. The write of `rack_set_pad_level` is the step that maps to `SetPad`; that
  its read is still good then (`BitsCurrent`) is why the other three pads stand
  still. If the read brought nothing, the write maps to `SetPadBlindly` instead,
  which gives up the other pads of that card, and no more.
- **Matrix and flash** (`MatrixAndFlashProofs`). `EntriesApart`: two outputs
  never share an entry. `IInv` has the entry of the watched output
  (`MappingHeld`), how far clearing has come while nothing failed (`Clearing`),
  and that a result that is looked at is that of the last command
  (`Unlocking`). From it: `Typing`, `MatrixIsAMap`, `VerdictIsOnUnlock`.
- **Audio** (`AudioRunnerProofs`). `IInv` follows the set-up of the handles
  (`Opened`), has linked handles in one state (`Linked`), prepared again at once
  when they were drained, unless that fails (`Drained`), and counts the periods in
  flight, in the buffers and in `buf`: never more than those of the pre-roll, until
  a call fails, comes back short or is resumed (`Balance`). From it, for any
  number of loops, pauses and late ticks: `Typing`, `WorksOnConfiguredHandles`,
  `NoPeriodIsLost`, `RunnerSurvivesXruns`.
- **GPIO and STM32** (`EliteTdmaProofs`). `IInv` says what each step of the
  set-ups may rely on (`SetUpOfGpio`, `SetUpOfSpi`, `LineIsInput`,
  `TransfersConfigured`). From it: `Typing`, `WaitsOnALine`,
  `TransfersAreConfigured`. `RunnersKeepContracts`: below.
- **Runners** (`RunnersProofs`). `IInv` ties handles to threads
  (`HandlesMatch`), the code main holds to the runners it has come to
  (`RetTells`), and the joins made to the threads ended (`JoinInOrder`). From
  it, for any number of loops: `Typing`, `RunnersEndFirst`, `ExitCodeIsHonest`.
  `RunnersHaveDevices`, that a runner which does not look at its device works on
  an open one, follows from the contracts.
- **Runners keep the contract** (`RunnersKeepContracts` in `RunnersProofs` and
  `EliteTdmaProofs`, `RunnerKeepsContract` in `AudioRunnerProofs`). Seen through
  its device, its thread and its loop, each step of the program is a step of
  `RunnerContract` for that runner or leaves it alone; `EachKeepsItsContract`
  says so runner by runner. In `Runners` this needs that nobody
  opens the device of a runner main has not come to (`ClosedAhead`), and that a
  runner which does not look at its device has one that only it closes
  (`OpenWhileRunning`); in `EliteTdma`, what `IInv` says of the set-ups; in
  `AudioRunner`, that the loop counter goes down once for each iteration,
  whatever was recovered in it.
- **UART parser** (`UartParserProofs`). `IInv` says that all has its type, and
  that a parser which has not gone astray is in step with the line (`InStep`):
  between two frames, with all that was sent decoded (`Between`); in a
  frame, with exactly the fields of what it has read, and a budget that ends
  with the frame (`InFrame`); or in what failed reads have left of a RAW payload
  (`Leftover`), of which `sof` has room for as many characters as were lost. It
  needs the encoding place by place: which character stands where, and that the
  digits of a size make the size (`FirstDigits`). No induction over the frames is
  needed, since the invariant speaks of the last one only. From it, for names
  and buffers of any length, any payloads, any number of frames and of failed
  reads: `Typing`, and, unless the parser went astray, `BuffersSufficeInStep`
  and `FramesAreIntact`.
- **Running out.** Liveness itself is out of the prover's reach, but the part of
  it that is about steps is not: a natural number that each step brings down.
  `InitialisationEnds` (calls of `rack_initialize`), `NothingElseIsRepeated` (a
  mailbox call repeats nothing but its polls), `NothingElseIsWaitedFor` (calls
  on matrix and flash, but for reads of FCR while a command is pending),
  `RunnerRunsOut` (at most eight steps for each loop and nine more),
  `SetUpAndRunnersRunOut` (GPIO and STM32, but for a select without an edge) and
  `ProgramRunsOut` (main and all runners, however they interleave). What they
  leave to TLC is that a step which can be taken is, and that the steps excepted
  come to an end: the fairness of section 4.

Only model-checked: the liveness properties (`CallReturns`, `CallsReturn`,
`RunnerEnds`, `RunnersEnd`, `MainEnds`), which need fairness and ENABLED. Every
other property of a passing run is a theorem.

## 6. Where code and comments disagree

| Run | The code | The text |
|---|---|---|
| `doc_block_write` | a block write returns 0 after a failed transfer, nothing written (`avxSpi.c` 504; the same at 565 and 714) | "return 0 in case of success, or negative errno error code" (`avxSpi.c` 478) |
| `doc_no_data` | -ENODATA is kept in `uint8_t` (`rackAuvitran.c` 87): when a page address of the core cannot be read, `check_clock_capabilities` reads the clocks at that page | "return page address or error code if <0" (51) |
| `doc_matrix` | a mapping that is enabled gets bit 0 of its input slot set, not the enable bit (`rackAuvitran.c` 360) | "slot_in: Slot index for the input" (341), `enable_flag = MATRIX_SLOT_ENABLE` (374) |

Seen on the way, without a run:

- mailbox: `avx_test_and_reset` sets the bits of its mask, the command being
  always TEST_AND_SET (`avxSpi.c` 234; nothing calls it); a read whose last
  transfer finds the rack gone returns 0 and all ones (`avxSpi.c` 387); a flash
  that is still locked after its key is logged, and 0 returned (972).
- rack: `rack_initialize` accepts a rack without 48 kHz or x2, `ret` being
  unsigned (`rackAuvitran.c` 435, 469); default gains may silently not be set,
  the index of `find_slot` being uninitialised (126, 317); `rack_get_vumeter`
  goes on after bad arguments with locals that were never set (1001).
- main: it does not join the UART runner (`main.c` 145 says so; `README.md` 11
  says it joins all); it joins any non-zero handle, also one left by a
  `pthread_create` that failed (124-142).
- audio: resuming from a pause replays the last captured period, the one still
  in the buffer, and ignores the errors of the pre-roll; the error of a failed
  software set-up of the capture is overwritten when the playback is opened
  (`alsa-device.c` 240); a write that a suspend stopped is recovered, not made
  again; the rest of a period whose write came back short is never written
  (369-372).
- GPIO: `elite_slave_ready_gpio_init` has no return statement; after a failed read
  of the value (`elite-slave-ready-gpio.c` 118) the next wait returns at once, for
  the same edge.
- UART: a failed read in the payload of a RAW frame that no line feed ends
  leaves a rest which, with the header after it, is longer than `sof`, and
  nothing checks that (`elite-uart-runner.c` 131, 170); a byte 0x0A or 0x0D
  ends a RAW frame (`elite-uart-runner.c` 105, 118); a colon ends an ASCII
  payload and the rest is dropped (114), as is every space.

## 7. Not modelled

- `options/*` is generated, `multi_core_tools/*` declares types,
  `audio/alsa-poll-example.c` is a third-party program that is not part of this
  one. None keeps state of it.
- `avxSpi.c`: `avx_test_and_toggle` on the bridge's own registers, which
  nothing calls (its mailbox counterpart is modelled); the product and
  page-address helpers are one read of a fixed register and have no step of
  their own outside `RackInit`.
- `alsa-device.c`: the readi/writei, recover and close functions, which nothing
  calls, and the poll variant, which is not compiled; the samples themselves.
- `gpiod`, `stm32`: `elite_gpio_close`, which has no caller, real-time
  scheduling, the contents of the frames exchanged with the STM32.
- A UART sender that sends anything but well-formed frames, whose names are not
  those of the program, or whose payloads have one of the characters listed in
  section 6.
- What the parser does after a store beyond the end of `sof`: the model stops
  there (section 2).
- In the modules above the mailbox, what a call that gives up polling does to the
  next ones, which `AvxMailbox` has; in `MatrixAndFlash` also block writes and
  reads that return 0 after a failed transfer.
- In `RackControls`, a table that discovery has left incomplete or wrong: what
  callers get then is what they asked of a card that is not there.

## 8. Plan

1. `MatrixAndFlash` over block writes and reads that return 0 without effect, as
   `RackInit` and `RackControls` are over unfilled reads of a byte.
2. `RackInit` and `RackControls` over calls that give up polling: a command that
   is carried out after its call has returned.
3. `MatrixAndFlash` as the implementation of an abstract matrix, in which a
   mapping is set or all are cleared in one step, as `CardControls` is for gains
   and pads.
