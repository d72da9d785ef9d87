---------------------------- MODULE RackControls ----------------------------
(***************************************************************************)
(* The controls of the cards of a rack (src/auvitran/rackAuvitran.c):      *)
(* gains, pads, vu-meters, firmware versions and the sampling rate, called *)
(* in any order once discovery has filled the table of slots.              *)
(*                                                                         *)
(* A step is one mailbox call together with the local code around it.  The *)
(* call is one atomic operation on the register it names (RemoteRegisters) *)
(* or fails; a write that fails may have taken effect all the same, and a  *)
(* read one of whose SPI transfers failed may return 0 with any byte (a    *)
(* positive errno passes `0 > ret`, avxSpi.c 565, 573, 587).  Left out is  *)
(* what a call that gives up polling (avxSpi.c 801) does to those after it.*)
(*                                                                         *)
(* Operators marked "Faulty" are variants of the definition after them,    *)
(* used to show that the properties can fail.                              *)
(***************************************************************************)
EXTENDS Integers, FiniteSets

CONSTANTS
  LastSlot,   \* the last slot for cards
  Channels,   \* the channels callers ask for, valid or not
  Gains,      \* the gains they ask for, in quarters of a dB
  Levels,     \* the pad levels they ask for
  Rates,      \* the sampling rates they ask for
  Leftovers   \* the bytes a read may return 0 with although it brought none

ASSUME SlotAssumption    == LastSlot \in Nat \ {0}
ASSUME ChannelAssumption == Channels \subseteq Int
ASSUME GainAssumption    == Gains \subseteq Int
ASSUME LevelAssumption   == Levels \subseteq 0..3
ASSUME RateAssumption    == Rates \subseteq {"44.1k", "48k", "88.2k", "96k"}
ASSUME LeftoverAssumption == Leftovers \subseteq 0..255

CardSlots  == 1..LastSlot
Channel    == 1..4
Directions == {"IN", "OUT", "INVALID"}
Cards      == {"AX4I", "AX4M", "AX4O"}
Empty      == "none"
Byte       == 0..255
Registers  == 8..17    \* of the page CSPR of a card: gains, parameters, pads

VARIABLES
  product,  \* slots[].product_id, complete: the cards that are there
  reg,      \* the registers of the cards, by slot
  clock,    \* REG_CLKPR_SRCFG of the core
  pc,       \* the mailbox call to make next, "idle" between calls
  job,      \* the slot, direction, channel and level of a call of two steps
  bits,     \* the local `pad_bitfield`
  filled,   \* the last gain or pads that were read are what the card sent
  watched,  \* the control a caller keeps an eye on
  asked,    \* what it was last set to by a call that returned 0, unless a call
            \* that failed, or wrote back what it never read, came after
  reply     \* what the last call read back from it, if it did

vars == <<product, reg, clock, pc, job, bits, filled, watched, asked, reply>>

NoJob   == [slot |-> 0, dir |-> "INVALID", channel |-> 0, level |-> 0]
Unknown == 999

\* What a caller sets and reads back: a gain or a pad by direction and channel.
Controls == {"gain", "pad"} \X {"IN", "OUT"} \X (Channel \cap Channels)

Init ==
  /\ product \in [CardSlots -> Cards \cup {Empty}]
  /\ reg = [s \in CardSlots |-> [r \in Registers |-> IF r < 16 THEN 0 ELSE 85]]
  /\ clock = 0
  /\ pc = "idle"
  /\ job = NoJob
  /\ bits = 0
  /\ filled = TRUE
  /\ watched \in Controls
  /\ asked = Unknown
  /\ reply = Unknown

-------------------------------------------------------------------------------
(* Which card and which register.                                          *)

GainCards(dir) == IF dir = "IN" THEN {"AX4I", "AX4M"}
                  ELSE IF dir = "OUT" THEN {"AX4O"} ELSE {}

PadCards(dir) == GainCards(dir) \ {"AX4M"}

\* Any card of the kind asked for may be found, and any may be missed: the loop
\* of find_slot starts from an index that is never initialised.  A line input
\* is looked for before a microphone, and found or missed like the others.
Slots(kinds) == {s \in CardSlots : product[s] \in kinds}

GainRegister(p, channel) == (IF p = "AX4O" THEN 12 ELSE 8) + channel - 1

PadRegister(p) == IF p = "AX4I" THEN 16 ELSE 17

-------------------------------------------------------------------------------
(* Conversions.  Gains are in quarters of a dB.                            *)

Lowest(p)  == IF p = "AX4M" THEN -96 ELSE -460
Highest(p) == IF p = "AX4M" THEN 220 ELSE 48
Bias(p)    == IF p = "AX4M" THEN 98 ELSE 462
Mute       == 0

\* DB_FLOAT_TO_INT_*: (115.5 + gain) * 2, or 24.5 for microphones, as uint8_t.
Encode(p, gain) == ((Bias(p) + gain) \div 2) % 256

\* Faulty: microphones are decoded as lines are.
DecodeAsLine(p, code) == IF code = Mute THEN -460 ELSE 2 * code - 462

\* DB_INT_TO_FLOAT_*, and -115 dB for a card that is muted.
Decode(p, code) == IF code = Mute THEN -460 ELSE 2 * code - Bias(p)

\* The weight of the two bits of a channel in a pad register.
Weight(channel) == CASE channel = 1 -> 1
                     [] channel = 2 -> 4
                     [] channel = 3 -> 16
                     [] OTHER       -> 64

Pad(byte, channel) == (byte \div Weight(channel)) % 4

\* Faulty: the old level is not cleared (for 1 and 3, the larger one stays).
WithPadAdded(byte, channel, level) ==
  IF Pad(byte, channel) > level THEN byte
  ELSE byte + (level - Pad(byte, channel)) * Weight(channel)

WithPad(byte, channel, level) ==
  byte + (level - Pad(byte, channel)) * Weight(channel)

-------------------------------------------------------------------------------
(* Calls that fail before or at a read leave everything as it is.          *)

Return(answer) ==
  /\ pc' = "idle" /\ job' = NoJob /\ bits' = 0
  /\ reply' = answer
  /\ UNCHANGED <<product, watched>>

Answer(control, out, full) ==
  /\ Return(IF control = watched THEN out ELSE Unknown)
  /\ filled' = full
  /\ UNCHANGED <<reg, clock, asked>>

Fail == Return(Unknown) /\ filled' = TRUE /\ UNCHANGED <<reg, clock, asked>>

\* What avx_read_mailbox may leave with its caller when it returns 0: the byte of
\* the register, or whatever was there.
Brought(byte) ==
  {[byte |-> byte, full |-> TRUE]} \cup [byte : Leftovers, full : {FALSE}]

\* The controls that share the register with a pad that is written back unread.
Spoilt ==
  IF pc = "pad" /\ ~filled THEN {"pad"} \X {job.dir} \X Channel ELSE {}

\* Faulty: a write that fails is not told from one that succeeds.
WriteUnchecked(s, r, byte, control, value) ==
  /\ reg' \in {reg, [reg EXCEPT ![s][r] = byte]}
  /\ asked' = IF control = watched THEN value
              ELSE IF watched \in Spoilt THEN Unknown ELSE asked
  /\ Return(Unknown)
  /\ filled' = TRUE
  /\ UNCHANGED clock

\* avx_write_mailbox at the end of a call: 0, or a failure that says nothing
\* about the register.
Write(s, r, byte, control, value) ==
  /\ \/ /\ reg' = [reg EXCEPT ![s][r] = byte]
        /\ asked' = IF control = watched THEN value
                    ELSE IF watched \in Spoilt THEN Unknown ELSE asked
     \/ /\ reg' \in {reg, [reg EXCEPT ![s][r] = byte]}
        /\ asked' = IF watched \in {control} \cup Spoilt THEN Unknown ELSE asked
  /\ Return(Unknown)
  /\ filled' = TRUE
  /\ UNCHANGED clock

SetGain(dir, channel, gain) ==
  /\ pc = "idle"
  /\ \/ Fail
     \/ /\ channel \in Channel
        /\ \E s \in Slots(GainCards(dir)) :
             LET p == product[s]
             IN  /\ gain \in Lowest(p)..Highest(p)
                 /\ Write(s, GainRegister(p, channel), Encode(p, gain),
                          <<"gain", dir, channel>>, gain)

GetGain(dir, channel) ==
  /\ pc = "idle"
  /\ \/ Fail
     \/ /\ channel \in Channel
        /\ \E s \in Slots(GainCards(dir)) :
             \E read \in Brought(reg[s][GainRegister(product[s], channel)]) :
               Answer(<<"gain", dir, channel>>,
                      Decode(product[s], read.byte), read.full)

\* Faulty: the levels are written back although they could not be read.
SetPadUnread(dir, channel, level) ==
  /\ pc = "idle"
  /\ channel \in Channel
  /\ \E s \in Slots(PadCards(dir)) :
       /\ job' = [slot |-> s, dir |-> dir, channel |-> channel, level |-> level]
       /\ bits' \in {0, reg[s][PadRegister(product[s])]}
  /\ pc' = "pad" /\ reply' = Unknown /\ filled' = TRUE
  /\ UNCHANGED <<product, reg, clock, watched, asked>>

\* Faulty: a microphone card is taken for one with pads.
SetPadOnMicrophone(dir, channel, level) ==
  /\ pc = "idle"
  /\ channel \in Channel
  /\ \E s \in Slots(GainCards(dir)) :
       /\ job' = [slot |-> s, dir |-> dir, channel |-> channel, level |-> level]
       /\ bits' = reg[s][PadRegister(product[s])]
  /\ pc' = "pad" /\ reply' = Unknown /\ filled' = TRUE
  /\ UNCHANGED <<product, reg, clock, watched, asked>>

\* rack_set_pad_level reads the levels of all channels of the card ...
SetPad(dir, channel, level) ==
  /\ pc = "idle"
  /\ \/ Fail
     \/ /\ channel \in Channel
        /\ \E s \in Slots(PadCards(dir)) :
             /\ job' = [slot |-> s, dir |-> dir,
                        channel |-> channel, level |-> level]
             /\ \E read \in Brought(reg[s][PadRegister(product[s])]) :
                  bits' = read.byte /\ filled' = read.full
        /\ pc' = "pad" /\ reply' = Unknown
        /\ UNCHANGED <<product, reg, clock, watched, asked>>

\* ... and writes them back with the one changed.
WritePad ==
  /\ pc = "pad"
  /\ Write(job.slot, PadRegister(product[job.slot]),
           WithPad(bits, job.channel, job.level),
           <<"pad", job.dir, job.channel>>, job.level)

GetPad(dir, channel) ==
  /\ pc = "idle"
  /\ \/ Fail
     \/ /\ channel \in Channel
        /\ \E s \in Slots(PadCards(dir)) :
             \E read \in Brought(reg[s][PadRegister(product[s])]) :
               Answer(<<"pad", dir, channel>>, Pad(read.byte, channel), read.full)

\* Neither bad arguments nor a missing input card end rack_get_vumeter: it goes on
\* with a slot, a type of page and a register that were never set, and may return
\* 0.  Only a missing output card does.
GetVuMeter(dir, channel) ==
  /\ pc = "idle"
  /\ \/ Fail
     \/ /\ channel \in Channel /\ dir = "OUT" => Slots(GainCards(dir)) # {}
        /\ Answer(<<"vu", dir, channel>>, 0, TRUE)

\* The slot is not checked; the version is that of the slot's page 1.
GetVersion ==
  /\ pc = "idle"
  /\ \/ Fail
     \/ /\ pc' = "version"
        /\ UNCHANGED <<product, reg, clock, job, bits, filled, watched, asked, reply>>

GetExtension ==
  /\ pc = "version"
  /\ \/ Fail
     \/ Answer(<<"version", "INVALID", 0>>, 0, TRUE)

RateCode(rate) == CASE rate = "48k"   -> 0
                    [] rate = "44.1k" -> 1
                    [] rate = "96k"   -> 2
                    [] OTHER          -> 3

SetSamplingRate(rate) ==
  /\ pc = "idle"
  /\ clock' \in {clock, RateCode(rate)}
  /\ Return(Unknown)
  /\ filled' = TRUE
  /\ UNCHANGED <<reg, asked>>

-------------------------------------------------------------------------------
Next ==
  \/ \E dir \in Directions, channel \in Channels :
       \/ \E gain \in Gains : SetGain(dir, channel, gain)
       \/ GetGain(dir, channel)
       \/ \E level \in Levels : SetPad(dir, channel, level)
       \/ GetPad(dir, channel)
       \/ GetVuMeter(dir, channel)
  \/ WritePad
  \/ GetVersion \/ GetExtension
  \/ \E rate \in Rates : SetSamplingRate(rate)

Spec == Init /\ [][Next]_vars

-------------------------------------------------------------------------------
(* Properties.                                                             *)

\* The values a variable takes; an encoded gain (575-612) fits a register, and
\* so do the pad levels with one of them replaced (825-826).
TypeOK ==
  /\ product \in [CardSlots -> Cards \cup {Empty}]
  /\ reg \in [CardSlots -> [Registers -> Byte]]
  /\ clock \in 0..3
  /\ pc \in {"idle", "pad", "version"}
  /\ job \in [slot : CardSlots, dir : {"IN", "OUT"},
             channel : Channel, level : 0..3] \cup {NoJob}
  /\ pc = "pad" => job # NoJob /\ product[job.slot] \in PadCards(job.dir)
  /\ bits \in Byte
  /\ filled \in BOOLEAN
  /\ watched \in Controls
  /\ asked \in Int
  /\ reply \in Int

\* The control that is watched is of one card only, and was read.
Single(kinds) == Cardinality(Slots(kinds)) = 1

Watching(control, cards) ==
  /\ watched[1] = control
  /\ Single(cards)
  /\ asked # Unknown /\ reply # Unknown /\ filled

\* A gain that is read back is the one that was set, to the resolution of the
\* register (half a dB, of which gains are cut), and never that of a muted card
\* (506-736): whatever other controls were set in between, pads that were written
\* back unread included, and although the card is looked up each time from an
\* arbitrary slot.  A read that brings nothing and returns 0 is no read back.
GainReadsBack ==
  Watching("gain", GainCards(watched[2])) => reply \in {asked - 1, asked}

\* The pad level that is read back is the one that was set (746-924), unless
\* another pad of the card was set in between from a read that brought nothing.
PadReadsBack ==
  Watching("pad", PadCards(watched[2])) => reply = asked

PadOf(r, s, channel) == Pad(r[s][PadRegister(product[s])], channel)

\* The pads of a card share a register that is read and written back (812-832):
\* whichever of the two calls fails with an error code, at most the pad that is
\* being set changes.  If the read brings nothing and returns 0 (avxSpi.c 587),
\* the other pads of that card may change with it, but those of no other card;
\* and no gain that is set, nor any read, ever changes a pad.
PadsIndependent ==
  [][\A s \in CardSlots, channel \in Channel :
       product[s] \in {"AX4I", "AX4O"}
         /\ PadOf(reg', s, channel) # PadOf(reg, s, channel)
         => pc = "pad" /\ job.slot = s /\ (filled => job.channel = channel)]_vars

\* The gains and pads of the cards, as the registers hold them.
GainsHeld ==
  [s \in Slots(Cards) |->
     [c \in Channel |-> Decode(product[s], reg[s][GainRegister(product[s], c)])]]

PadsHeld ==
  [s \in Slots({"AX4I", "AX4O"}) |-> [c \in Channel |-> PadOf(reg, s, c)]]

Cells == INSTANCE CardControls
  WITH card <- product, gain <- GainsHeld, pad <- PadsHeld

\* The controls of rackAuvitran.c (506-1062) are independent values that are set
\* and read in one step: neither the register that four pads share, nor the calls
\* that read it and write it back, nor the codes of the gains show, except that
\* the pads of a card change together when one is set just after a read that
\* brought nothing and returned 0.
ControlsAreCells == Cells!Spec
=============================================================================
