------------------------------ MODULE AvxMailbox ------------------------------
(***************************************************************************)
(* The mailbox protocol of src/auvitran/avxSpi.c.  The host reaches the    *)
(* registers of the cards in a rack through a bridge: over SPI it writes   *)
(* where (ECS) and what (CMD) into the bridge, polls CMD_1 until the rack  *)
(* has executed the command and cleared it, then reads the answer (ANS) or *)
(* the data buffer (page 2 of the bridge).                                 *)
(*                                                                         *)
(* A host action is one SPI transfer together with the local code that     *)
(* follows it, up to the next transfer or the return of the call; pc names *)
(* the next transfer.  The rack acts between any two transfers.            *)
(***************************************************************************)
EXTENDS Integers

CONSTANTS
  Slots,      \* slot numbers a call may name
  Populated,  \* the slots that hold a card
  Bits,       \* bits of a byte
  Kinds,      \* the calls that are made
  Faults      \* what the link may do wrong

AllKinds  == {"wbyte", "wblock", "rbyte", "rblock", "tas", "tar"}

\* "spi": the SPI_IOC_MESSAGE ioctl fails and nothing reaches the bridge;
\* "busy": the bridge answers a read with a null status ("data not valid");
\* "invalid": it does so again on the second read of the same datum;
\* "unplug": the rack is disconnected and connected again.
AllFaults == {"spi", "busy", "invalid", "unplug"}

ASSUME SlotsAssumption  == Populated \subseteq Slots
ASSUME KindsAssumption  == Kinds \subseteq AllKinds
ASSUME FaultsAssumption == Faults \subseteq AllFaults

EIO    == 5
ENODEV == 19
EINVAL == 22
ENOSYS == 38

\* What a failed call returns: avx_write_burst and avx_read_burst return errno
\* itself after a failed transfer, everything else a negative code.
Errors == {EIO, -EIO, -ENODEV, -EINVAL, -ENOSYS}

\* A byte is the set of its bits that are 1.  Data, masks and page numbers are
\* bytes; the offset in a page is abstracted, a page of a card is one register.
Byte    == SUBSET Bits
Page0   == {}
AllOnes == Bits          \* what a read returns when no rack drives the line

Writes  == {"wbyte", "wblock"}
Reads   == {"rbyte", "rblock"}
Toggles == {"tas", "tar"}
Blocks  == {"wblock", "rblock"}

\* The calls: data is the value to write, or the mask of a test-and-set/reset.
Ops == {o \in [kind : Kinds, slot : Slots, page : Byte, data : Byte] :
          o.kind \in Reads => o.data = {}}

\* The calls that reach the bridge: page 0 is refused to all but reads.
Accepted(o) == o.kind \in Reads \/ o.page # Page0

VARIABLES
  pc,         \* the transfer the host does next, "idle" between calls
  op,         \* the call in progress, or the last one
  ret, out,   \* code and datum the last call returned (0, {} while one runs)
  burst,      \* dev->burst_support
  cable,      \* of the rack: never touched, out, or back in
  pageSel,    \* REG_PAGE of the bridge selects page 2
  buf,        \* page 2 of the bridge, the data buffer
  ecs,        \* REG_MBX_ECS_0/1 and REG_MBX_MOV
  cmd,        \* REG_MBX_CMD_0 (arg) and REG_MBX_CMD_1 (code)
  answer,     \* REG_MBX_ANS_0 (data) and REG_MBX_ANS_1 (ok)
  cells       \* the registers of the cards

host   == <<pc, op, ret, out>>
bridge == <<pageSel, buf, ecs, cmd, answer>>
vars   == <<pc, op, ret, out, burst, cable, pageSel, buf, ecs, cmd, answer, cells>>

Polling == {"poll1", "poll2", "poll3"}
Labels  == {"idle", "page", "buf", "ecs", "cmd", "ans", "st1", "st2", "st3", "data"}
             \cup Polling
Codes   == {"none", "write", "read", "tas", "tar"}
Present == Populated \X Byte

Pending == cmd.code # "none"

conn == cable # "out"   \* the rack is connected

-------------------------------------------------------------------------------
(* How a step of a call ends.  Operators marked "Faulty" are variants of   *)
(* the definition after them, used to show that the properties can fail.   *)

\* Faulty: every caller takes a positive errno for success.
ContinuesOnErrno(r) == r >= 0

\* The code that follows a failed step treats a positive errno as success
\* ("0 <= ret", "0 > ret") except in avx_write_mailbox_byte ("ret != 0").
Continues(r) == IF op.kind = "wbyte" THEN r = 0 ELSE r >= 0

Goto(next) == pc' = next /\ UNCHANGED <<op, ret, out>>

Return(r) == pc' = "idle" /\ ret' = r /\ UNCHANGED <<op, out>>

ReturnData(d) == pc' = "idle" /\ ret' = 0 /\ out' = d /\ UNCHANGED op

\* Faulty: the sign of an error code is lost.
AbortUnsigned(r) == Return(IF r < 0 THEN -r ELSE r)

\* avx_write_mailbox tests the status byte of `answer` before it returns, also
\* when an earlier step failed and `answer` was never read.
Abort(r) == \E code \in (IF op.kind = "wblock" THEN {r, -EIO} ELSE {r}) : Return(code)

After(r, next) == IF Continues(r) THEN Goto(next) ELSE Abort(r)

-------------------------------------------------------------------------------
(* The contents of the transfers.                                          *)

\* Faulty: the single-byte read leaves WP0 of the last call standing.
EcsKeepingWP0(o, old) ==
  [slot |-> o.slot, wp0 |-> TRUE, page |-> IF o.kind = "rbyte" THEN old ELSE o.page,
   mov |-> o.kind \in Blocks]

\* ECS as the call writes it; the single-byte read writes ECS_0 only and
\* leaves the page of ECS_1 as it was.
EcsOf(o, old) ==
  IF o.kind = "rbyte"
    THEN [slot |-> o.slot, wp0 |-> FALSE, page |-> old, mov |-> FALSE]
    ELSE [slot |-> o.slot, wp0 |-> TRUE, page |-> o.page, mov |-> o.kind \in Blocks]

CodeOf(o) == CASE o.kind \in Writes -> "write"
               [] o.kind \in Reads  -> "read"
               [] OTHER             -> o.kind

\* CMD_0 holds the datum or the mask, the page of a single-byte read, or 0.
ArgOf(o) == CASE o.kind = "rbyte"    -> o.page
              [] o.kind \in Blocks   -> {}
              [] OTHER               -> o.data

CmdOf(o) == [arg |-> ArgOf(o), code |-> CodeOf(o)]

-------------------------------------------------------------------------------
(* Calls.                                                                  *)

NoOp == [kind |-> "none", slot |-> 0, page |-> Page0, data |-> {}]

Init ==
  /\ pc = "idle"
  /\ op = NoOp
  /\ ret = -EINVAL
  /\ out = {}
  /\ burst \in BOOLEAN
  /\ cable = "steady"
  /\ pageSel \in BOOLEAN
  /\ buf \in Byte
  /\ ecs \in [slot : Slots, wp0 : BOOLEAN, page : Byte, mov : BOOLEAN]
  /\ cmd = [arg |-> Page0, code |-> "none"]
  /\ answer \in [data : Byte, ok : BOOLEAN]
  /\ cells \in [Present -> Byte]

FirstStep(o) == IF o.kind = "wblock" THEN "page" ELSE "ecs"

Call(o) ==
  /\ pc = "idle"
  /\ Accepted(o)
  /\ pc' = FirstStep(o)
  /\ op' = o
  /\ ret' = 0
  /\ out' = {}
  /\ UNCHANGED <<burst, cable, bridge, cells>>

\* A write or toggle of page 0, or a block longer than a page: refused without
\* a transfer.  avx_write_mailbox tests `answer` even then.
Reject(o) ==
  /\ pc = "idle"
  /\ \/ o.kind \in Writes  /\ ret' \in {-ENOSYS, -EIO}
     \/ o.kind \in Toggles /\ o.page = Page0 /\ ret' = -ENOSYS
     \/ o.kind = "rblock"  /\ ret' = -EINVAL
  /\ o.kind = "wbyte" => o.page = Page0
  /\ op' = o
  /\ out' = {}
  /\ UNCHANGED <<pc, burst, cable, bridge, cells>>

-------------------------------------------------------------------------------
(* Write transfers.                                                        *)

\* avx_write_byte and the transfer of avx_write_burst: a failed transfer
\* returns the positive errno, and nothing tells that no rack is there.
WriteTransfer(effect, next) ==
  /\ \/ /\ "spi" \in Faults
        /\ After(EIO, next)
        /\ UNCHANGED bridge
     \/ /\ Goto(next)
        /\ IF conn THEN effect ELSE UNCHANGED bridge
  /\ UNCHANGED <<burst, cable, cells>>

\* avx_write_burst fails at once on a rack without burst support.
WriteBurst(effect, next) ==
  \/ burst /\ WriteTransfer(effect, next)
  \/ ~burst /\ After(-ENOSYS, next) /\ UNCHANGED <<burst, cable, bridge, cells>>

SelectPage ==
  /\ pc = "page"
  /\ WriteBurst(pageSel' = TRUE /\ UNCHANGED <<buf, ecs, cmd, answer>>, "buf")

\* The data goes to whatever page REG_PAGE selects.
FillBuffer ==
  /\ pc = "buf"
  /\ WriteTransfer(/\ buf' = IF pageSel THEN op.data ELSE buf
                   /\ UNCHANGED <<pageSel, ecs, cmd, answer>>, "ecs")

WriteEcs ==
  /\ pc = "ecs"
  /\ LET effect == /\ ecs' = EcsOf(op, ecs.page)
                   /\ UNCHANGED <<pageSel, buf, cmd, answer>>
     IN  IF op.kind = "rbyte" THEN WriteTransfer(effect, "cmd")
                              ELSE WriteBurst(effect, "cmd")

WriteCmd ==
  /\ pc = "cmd"
  /\ WriteBurst(cmd' = CmdOf(op) /\ UNCHANGED <<pageSel, buf, ecs, answer>>, "poll1")

-------------------------------------------------------------------------------
(* Reads.  A host step that reads leaves the rack side alone.              *)

ReadStep == UNCHANGED <<burst, cable, bridge, cells>>

\* Faulty: CMD_1 counts as 0 when it could not be read.
PollSendHopeful ==
  /\ pc = "poll1"
  /\ \/ "spi" \in Faults /\ Goto(IF op.kind = "rblock" THEN "st1" ELSE "ans")
     \/ Goto("poll2")
  /\ ReadStep

\* avx_wait_mailbox_completion reads CMD_1 until it is 0.  avx_read_byte sends
\* the command, fetches the answer, and fetches it again if it was not valid.
\* A failed transfer is a positive errno: CMD_1 keeps its last value, not 0.
PollSend ==
  /\ pc = "poll1"
  /\ \/ "spi" \in Faults /\ Goto("poll1")
     \/ Goto("poll2")
  /\ ReadStep

AfterPoll ==
  IF Pending THEN Goto("poll1")
             ELSE Goto(IF op.kind = "rblock" THEN "st1" ELSE "ans")

\* Faulty: a missing rack is not told from a busy one.
PollFetchEndless ==
  /\ pc = "poll2"
  /\ \/ "spi" \in Faults /\ Goto("poll1")
     \/ ~conn /\ Goto("poll1")
     \/ conn /\ "busy" \in Faults /\ Goto("poll3")
     \/ conn /\ AfterPoll
  /\ ReadStep

PollFetch ==
  /\ pc = "poll2"
  /\ \/ "spi" \in Faults /\ Goto("poll1")
     \/ ~conn /\ Abort(-ENODEV)
     \/ conn /\ "busy" \in Faults /\ Goto("poll3")
     \/ conn /\ AfterPoll
  /\ ReadStep

\* The all-ones test is made after the first fetch only.
PollRefetch ==
  /\ pc = "poll3"
  /\ \/ "spi" \in Faults /\ Goto("poll1")
     \/ ~conn /\ Goto("poll1")
     \/ conn /\ "invalid" \in Faults /\ Abort(-EINVAL)
     \/ conn /\ AfterPoll
  /\ ReadStep

\* What the caller makes of the two bytes of ANS.
Judge(a) ==
  IF ~a.ok \/ (op.kind = "wbyte" /\ a.data # op.data) THEN Return(-EIO)
  ELSE IF op.kind \in Writes THEN Return(0)
  ELSE ReturnData(a.data)

\* After a failed transfer the callers other than avx_write_mailbox_byte go on
\* with an `answer` that was never written.
UnreadAnswer ==
  CASE op.kind = "wbyte"  -> Return(EIO)
    [] op.kind = "wblock" -> Abort(EIO)
    [] OTHER              -> Return(-EIO) \/ \E d \in Byte : ReturnData(d)

\* avx_read_burst of ANS: one look at the status byte, no all-ones test.
ReadAnswer ==
  /\ pc = "ans"
  /\ \/ "spi" \in Faults /\ UnreadAnswer
     \/ ~conn /\ Judge([data |-> AllOnes, ok |-> TRUE])
     \/ conn /\ "busy" \in Faults /\ Abort(-EINVAL)
     \/ conn /\ Judge(answer)
  /\ ReadStep

\* avx_read_mailbox reads ANS_1 with avx_read_byte; after a failed transfer it
\* tests a status byte that was never written.
UnreadStatus == Goto("data") \/ Return(-EIO)

AfterStatus == IF answer.ok THEN Goto("data") ELSE Return(-EIO)

StatusSend ==
  /\ pc = "st1"
  /\ \/ "spi" \in Faults /\ UnreadStatus
     \/ Goto("st2")
  /\ ReadStep

StatusFetch ==
  /\ pc = "st2"
  /\ \/ "spi" \in Faults /\ UnreadStatus
     \/ ~conn /\ Return(-ENODEV)
     \/ conn /\ "busy" \in Faults /\ Goto("st3")
     \/ conn /\ AfterStatus
  /\ ReadStep

StatusRefetch ==
  /\ pc = "st3"
  /\ \/ "spi" \in Faults /\ UnreadStatus
     \/ ~conn /\ Goto("data")
     \/ conn /\ "invalid" \in Faults /\ Return(-EINVAL)
     \/ conn /\ AfterStatus
  /\ ReadStep

\* avx_read_burst of page 2 into the caller's buffer.
ReadBuffer ==
  /\ pc = "data"
  /\ \/ "spi" \in Faults /\ Return(EIO)
     \/ ~conn /\ ReturnData(AllOnes)
     \/ conn /\ "busy" \in Faults /\ Return(-EINVAL)
     \/ conn /\ ReturnData(buf)
  /\ ReadStep

-------------------------------------------------------------------------------
(* The rack: not part of src/, modelled from what avxSpi.c relies on.      *)

\* Without WP0 the page is in CMD_0.
TargetPage == IF ecs.wp0 THEN ecs.page ELSE cmd.arg

\* The new contents of a cell under the command and ECS in the bridge.
Executed(old) ==
  CASE cmd.code = "write" -> IF ecs.mov THEN buf ELSE cmd.arg
    [] cmd.code = "tas"   -> old \cup cmd.arg
    [] cmd.code = "tar"   -> old \ cmd.arg
    [] OTHER              -> old

\* The rack confirms a single-byte write by the datum written; otherwise it
\* answers the old contents, in ANS or, for a block read, in page 2.
Perform(cell) ==
  LET old == cells[cell]
      new == Executed(old)
  IN  /\ cells' = [cells EXCEPT ![cell] = new]
      /\ buf' = IF cmd.code = "read" /\ ecs.mov THEN old ELSE buf
      /\ answer' = [data |-> IF cmd.code = "write" THEN new ELSE old, ok |-> TRUE]

\* A command to a slot without card is answered by a null status.
Refuse ==
  /\ answer' = [data |-> answer.data, ok |-> FALSE]
  /\ UNCHANGED <<buf, cells>>

Execute ==
  /\ Pending
  /\ cmd' = [arg |-> cmd.arg, code |-> "none"]
  /\ IF ecs.slot \in Populated
       THEN Perform(<<ecs.slot, TargetPage>>)
       ELSE Refuse
  /\ UNCHANGED <<host, burst, cable, pageSel, ecs>>

Replug ==
  /\ "unplug" \in Faults
  /\ cable' = IF conn THEN "out" ELSE "back"
  /\ UNCHANGED <<host, burst, bridge, cells>>

-------------------------------------------------------------------------------
HostStep ==
  \/ SelectPage \/ FillBuffer \/ WriteEcs \/ WriteCmd
  \/ PollSend \/ PollFetch \/ PollRefetch
  \/ ReadAnswer
  \/ StatusSend \/ StatusFetch \/ StatusRefetch \/ ReadBuffer

Next ==
  \/ \E o \in Ops : Call(o) \/ Reject(o)
  \/ HostStep
  \/ Execute
  \/ Replug

Spec == Init /\ [][Next]_vars

\* A fetch of the completion loop that comes back with a value, or with none
\* because the rack has gone or does not know.
FetchGetsThrough == PollFetch /\ pc' # "poll1"

RefetchGetsThrough == PollRefetch /\ pc' # "poll1"

\* The runner thread is scheduled, the rack serves its mailbox, and the SPI
\* controller does not fail for ever: a fetch that is tried without end gets
\* through.
FairSpec ==
  /\ Spec
  /\ WF_vars(HostStep) /\ WF_vars(Execute)
  /\ SF_vars(FetchGetsThrough) /\ SF_vars(RefetchGetsThrough)

-------------------------------------------------------------------------------
(* Properties.                                                             *)

\* The values a variable takes; a call returns 0 or one of the listed codes.
TypeOK ==
  /\ pc \in Labels
  /\ op \in Ops \cup {NoOp}
  /\ ret \in Errors \cup {0}
  /\ out \in Byte
  /\ burst \in BOOLEAN
  /\ cable \in {"steady", "out", "back"}
  /\ pageSel \in BOOLEAN
  /\ buf \in Byte
  /\ ecs \in [slot : Slots, wp0 : BOOLEAN, page : Byte, mov : BOOLEAN]
  /\ cmd \in [arg : Byte, code : Codes]
  /\ answer \in [data : Byte, ok : BOOLEAN]
  /\ cells \in [Present -> Byte]

\* A command that stands in the bridge is that of a call waiting for it.
Handshake == Pending => pc \in Polling /\ cmd = CmdOf(op)

\* While every command that stands is waited for, no step, whatever transfers
\* fail, leaves one behind, except for that of a call which gives up polling
\* (791-809).  Once a command has been abandoned this says nothing until it is
\* gone: the next call does then write ECS and CMD under it, and what is left
\* of the promise of a write is ByteWriteLands.
CommandsWaitedFor ==
  [][Handshake => Handshake' \/ (pc \in Polling /\ pc' = "idle")]_vars

Target(o) == <<o.slot, o.page>>

Succeeded(kinds) == pc = "idle" /\ ret = 0 /\ op.kind \in kinds

\* avx_write_mailbox_byte returns 0 only if the addressed register holds the
\* datum (455-463): whatever transfers failed and whatever calls gave up
\* before, as long as the rack was never unplugged.
ByteWriteLands ==
  cable = "steady" /\ Succeeded({"wbyte"}) =>
    Target(op) \in Present /\ cells[Target(op)] = op.data

\* The same of a write of a block through page 2 of the bridge (480-542).
BlockWriteLands ==
  Succeeded({"wblock"}) => Target(op) \in Present /\ cells[Target(op)] = op.data

\* A read that returns 0 hands back what the addressed register holds, not an
\* older answer nor another register's (554-681).
ReadsReturnCell ==
  Succeeded(Reads) => Target(op) \in Present /\ out = cells[Target(op)]

\* A test-and-set/reset that returns 0 has set/cleared the bits of the mask in
\* the addressed register and hands back what they were before (695-751).
TogglesLand ==
  Succeeded(Toggles) =>
    /\ Target(op) \in Present
    /\ cells[Target(op)] = IF op.kind = "tas" THEN out \cup op.data ELSE out \ op.data

\* Every call returns once the cable is left alone, connected or not, although
\* the loop of avx_wait_mailbox_completion (796-806) has no bound of its own and
\* goes round again after every transfer that fails.
CallReturns ==
  (<>[]conn \/ <>[]~conn) => (pc # "idle" ~> pc = "idle")

-------------------------------------------------------------------------------
(* Refinement of RemoteRegisters.                                          *)

Waiting == Polling \cup {"ans", "st1", "st2", "st3", "data"}

\* The rack has executed the command of the call in progress.
Applied == pc \in Waiting /\ ~Pending /\ answer.ok

Phase == IF pc = "idle" THEN "idle" ELSE IF Applied THEN "applied" ELSE "active"

Seen == IF ~Applied \/ op.kind \in Writes THEN {}
        ELSE IF op.kind = "rblock" THEN buf ELSE answer.data

Registers == INSTANCE RemoteRegisters WITH
  Data     <- Byte,
  Requests <- Ops,
  req      <- op,
  phase    <- Phase,
  seen     <- Seen

\* The mailbox calls are atomic operations on the registers of the cards: each
\* takes effect at most once, on the register it names, before it returns.
Atomic == Registers!Spec
=============================================================================
