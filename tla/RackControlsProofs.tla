------------------------- MODULE RackControlsProofs -------------------------
(***************************************************************************)
(* The safety properties of RackControls for any number of slots and any   *)
(* gains, levels and channels, by an inductive invariant: the bytes a call *)
(* carries from its read to its write, if the read brought any, are still  *)
(* those of the card, and the register of the control that is watched      *)
(* holds what it was last set to.                                          *)
(***************************************************************************)
EXTENDS RackControls, FiniteSetTheorems, TLAPS

\* Nothing comes between a read that brought the pads and their write.
BitsCurrent ==
  pc = "pad" /\ filled => bits = reg[job.slot][PadRegister(product[job.slot])]

GainHeld ==
  watched[1] = "gain" /\ asked # Unknown /\ Single(GainCards(watched[2])) =>
    \A s \in Slots(GainCards(watched[2])) :
      /\ asked \in Lowest(product[s])..Highest(product[s])
      /\ reg[s][GainRegister(product[s], watched[3])]
           = Encode(product[s], asked)

PadHeld ==
  watched[1] = "pad" /\ asked # Unknown /\ Single(PadCards(watched[2])) =>
    \A s \in Slots(PadCards(watched[2])) : PadOf(reg, s, watched[3]) = asked

IInv ==
  /\ TypeOK
  /\ BitsCurrent
  /\ GainHeld /\ GainReadsBack
  /\ PadHeld /\ PadReadsBack

-------------------------------------------------------------------------------
(* The conversions.                                                        *)

\* A byte of pads is its four levels.
LEMMA Digits ==
  ASSUME NEW byte \in Byte
  PROVE  \E a, b, c, d \in 0..3 : byte = a + 4 * b + 16 * c + 64 * d
<1> DEFINE a == byte % 4
           b == (byte \div 4) % 4
           c == (byte \div 16) % 4
           d == byte \div 64
<1>1. /\ a \in 0..3 /\ b \in 0..3 /\ c \in 0..3 /\ d \in 0..3
  BY DEF Byte
<1>2. byte = a + 4 * b + 16 * c + 64 * d
  BY DEF Byte
<1> QED
  BY <1>1, <1>2

LEMMA PadOfDigits ==
  ASSUME NEW a \in 0..3, NEW b \in 0..3, NEW c \in 0..3, NEW d \in 0..3
  PROVE  LET byte == a + 4 * b + 16 * c + 64 * d
         IN  /\ Pad(byte, 1) = a /\ Pad(byte, 2) = b
             /\ Pad(byte, 3) = c /\ Pad(byte, 4) = d
<1> DEFINE byte == a + 4 * b + 16 * c + 64 * d
<1>1. Pad(byte, 1) = a
  BY DEF Pad, Weight
<1>2. Pad(byte, 2) = b
  BY DEF Pad, Weight
<1>3. Pad(byte, 3) = c
  BY DEF Pad, Weight
<1>4. Pad(byte, 4) = d
  BY DEF Pad, Weight
<1> QED
  BY <1>1, <1>2, <1>3, <1>4

LEMMA WeightOf ==
  Weight(1) = 1 /\ Weight(2) = 4 /\ Weight(3) = 16 /\ Weight(4) = 64
  BY DEF Weight

\* Writing the level of a channel into a byte of pads sets that level and
\* leaves the three others alone (rackAuvitran.c:820-826).
THEOREM WithPadSetsOne ==
  ASSUME NEW byte \in Byte, NEW channel \in Channel, NEW level \in 0..3
  PROVE  LET new == WithPad(byte, channel, level)
         IN  /\ new \in Byte
             /\ Pad(new, channel) = level
             /\ \A other \in Channel \ {channel} :
                  Pad(new, other) = Pad(byte, other)
<1> DEFINE new == WithPad(byte, channel, level)
<1>1. PICK a, b, c, d \in 0..3 : byte = a + 4 * b + 16 * c + 64 * d
  BY Digits
<1>2. /\ Pad(byte, 1) = a /\ Pad(byte, 2) = b
      /\ Pad(byte, 3) = c /\ Pad(byte, 4) = d
  BY <1>1, PadOfDigits
<1>3. CASE channel = 1
  <2>1. new = level + 4 * b + 16 * c + 64 * d
    BY <1>1, <1>2, <1>3, WeightOf DEF WithPad
  <2>2. /\ Pad(new, 1) = level /\ Pad(new, 2) = b
        /\ Pad(new, 3) = c /\ Pad(new, 4) = d
    BY <2>1, PadOfDigits
  <2> QED
    BY <1>2, <1>3, <2>1, <2>2 DEF Channel, Byte
<1>4. CASE channel = 2
  <2>1. new = a + 4 * level + 16 * c + 64 * d
    BY <1>1, <1>2, <1>4, WeightOf DEF WithPad
  <2>2. /\ Pad(new, 1) = a /\ Pad(new, 2) = level
        /\ Pad(new, 3) = c /\ Pad(new, 4) = d
    BY <2>1, PadOfDigits
  <2> QED
    BY <1>2, <1>4, <2>1, <2>2 DEF Channel, Byte
<1>5. CASE channel = 3
  <2>1. new = a + 4 * b + 16 * level + 64 * d
    BY <1>1, <1>2, <1>5, WeightOf DEF WithPad
  <2>2. /\ Pad(new, 1) = a /\ Pad(new, 2) = b
        /\ Pad(new, 3) = level /\ Pad(new, 4) = d
    BY <2>1, PadOfDigits
  <2> QED
    BY <1>2, <1>5, <2>1, <2>2 DEF Channel, Byte
<1>6. CASE channel = 4
  <2>1. new = a + 4 * b + 16 * c + 64 * level
    BY <1>1, <1>2, <1>6, WeightOf DEF WithPad
  <2>2. /\ Pad(new, 1) = a /\ Pad(new, 2) = b
        /\ Pad(new, 3) = c /\ Pad(new, 4) = level
    BY <2>1, PadOfDigits
  <2> QED
    BY <1>2, <1>6, <2>1, <2>2 DEF Channel, Byte
<1> QED
  BY <1>3, <1>4, <1>5, <1>6 DEF Channel

LEMMA PadRange ==
  ASSUME NEW byte \in Byte, NEW channel \in Channel
  PROVE  Pad(byte, channel) \in 0..3
<1>1. PICK a, b, c, d \in 0..3 : byte = a + 4 * b + 16 * c + 64 * d
  BY Digits
<1> QED
  BY <1>1, PadOfDigits DEF Channel

\* A gain within the limits of its card fits the register, is not the code of
\* a muted card, and is read back to half a dB (rackAuvitran.c:575-612,
\* 701-733).
THEOREM GainRoundTrip ==
  ASSUME NEW p \in Cards, NEW gain \in Lowest(p)..Highest(p)
  PROVE  /\ Encode(p, gain) \in 1..255
         /\ Decode(p, Encode(p, gain)) \in {gain - 1, gain}
<1>1. CASE p = "AX4M"
  BY <1>1 DEF Lowest, Highest, Bias, Encode, Decode, Mute
<1>2. CASE p # "AX4M"
  BY <1>2 DEF Lowest, Highest, Bias, Encode, Decode, Mute
<1> QED
  BY <1>1, <1>2

-------------------------------------------------------------------------------
(* Types.                                                                  *)

LEMMA RegisterTypes ==
  ASSUME NEW p \in Cards, NEW channel \in Channel
  PROVE  /\ GainRegister(p, channel) \in 8..15
         /\ PadRegister(p) \in 16..17
         /\ GainRegister(p, channel) \in Registers
         /\ PadRegister(p) \in Registers
         /\ GainRegister(p, channel) # PadRegister(p)
         /\ \A other \in Channel :
              GainRegister(p, other) = GainRegister(p, channel)
                => other = channel
  BY DEF GainRegister, PadRegister, Registers, Channel

LEMMA CardTypes ==
  ASSUME NEW dir
  PROVE  /\ GainCards(dir) \subseteq Cards
         /\ PadCards(dir) \subseteq GainCards(dir)
         /\ "AX4M" \notin PadCards(dir)
         /\ \A s \in Slots(GainCards(dir)) : s \in CardSlots /\ product[s] \in Cards
         /\ \A s \in Slots(PadCards(dir)) : s \in CardSlots /\ product[s] \in Cards
  BY DEF GainCards, PadCards, Cards, Slots

\* What a read leaves is a byte, that of the register if it was filled.
LEMMA BroughtTypes ==
  ASSUME NEW byte \in Byte, NEW read \in Brought(byte)
  PROVE  /\ read.byte \in Byte /\ read.full \in BOOLEAN
         /\ read.full => read.byte = byte
<1>1. CASE read = [byte |-> byte, full |-> TRUE]
  BY <1>1
<1>2. CASE read \in [byte : Leftovers, full : {FALSE}]
  BY <1>2, LeftoverAssumption DEF Byte
<1> QED
  BY <1>1, <1>2 DEF Brought

\* A write of a byte to a register of a card that is there.
LEMMA WriteTypes ==
  ASSUME TypeOK, NEW s \in CardSlots, NEW r \in Registers, NEW byte \in Byte,
         NEW control, NEW value \in Int, Write(s, r, byte, control, value)
  PROVE  TypeOK'
<1>1. reg' \in [CardSlots -> [Registers -> Byte]]
  BY DEF TypeOK, Write
<1>2. asked' \in Int
  BY DEF TypeOK, Write, Unknown
<1>3. /\ pc' = "idle" /\ job' = NoJob /\ bits' = 0 /\ reply' = 999
      /\ filled' = TRUE /\ UNCHANGED <<product, watched, clock>>
  BY DEF Write, Return, Unknown
<1> QED
  BY <1>1, <1>2, <1>3 DEF TypeOK, Byte, Controls

LEMMA ReturnTypes ==
  ASSUME TypeOK, NEW answer \in Int, Return(answer), UNCHANGED <<reg, asked>>,
         clock' \in 0..3, filled' \in BOOLEAN
  PROVE  TypeOK'
  BY DEF TypeOK, Return, Byte, Controls

LEMMA InitTypes == Init => TypeOK
<1> SUFFICES ASSUME Init PROVE TypeOK
  OBVIOUS
<1>1. reg \in [CardSlots -> [Registers -> Byte]]
  BY DEF Init, Byte
<1>2. /\ clock \in 0..3 /\ pc \in {"idle", "pad", "version"}
      /\ job = NoJob /\ pc # "pad"
      /\ bits \in Byte /\ filled \in BOOLEAN /\ asked \in Int /\ reply \in Int
  BY DEF Init, Byte, Unknown
<1> QED
  BY <1>1, <1>2 DEF Init, TypeOK

\* The calls, each with its arguments.
LEMMA CallTypes ==
  ASSUME TypeOK, NEW dir \in Directions, NEW channel \in Channels
  PROVE  /\ \A gain \in Gains : SetGain(dir, channel, gain) => TypeOK'
         /\ GetGain(dir, channel) => TypeOK'
         /\ \A level \in Levels : SetPad(dir, channel, level) => TypeOK'
         /\ GetPad(dir, channel) => TypeOK'
         /\ GetVuMeter(dir, channel) => TypeOK'
<1>1. Fail => TypeOK'
  BY ReturnTypes DEF Fail, TypeOK, Unknown
<1>2. ASSUME NEW control, NEW out \in Int, NEW full \in BOOLEAN,
             Answer(control, out, full)
      PROVE  TypeOK'
  BY <1>2, ReturnTypes DEF Answer, TypeOK, Unknown
<1>3. ASSUME NEW gain \in Gains, SetGain(dir, channel, gain), ~Fail
      PROVE  TypeOK'
  <2>1. PICK s \in Slots(GainCards(dir)) :
          /\ channel \in Channel
          /\ gain \in Lowest(product[s])..Highest(product[s])
          /\ Write(s, GainRegister(product[s], channel),
                   Encode(product[s], gain), <<"gain", dir, channel>>, gain)
    BY <1>3 DEF SetGain
  <2>2. product[s] \in Cards /\ s \in CardSlots
    BY CardTypes
  <2>3. Encode(product[s], gain) \in Byte
    BY <2>1, <2>2, GainRoundTrip DEF Byte
  <2>4. GainRegister(product[s], channel) \in Registers
    BY <2>1, <2>2, RegisterTypes
  <2> QED
    BY <2>1, <2>2, <2>3, <2>4, GainAssumption, WriteTypes
<1>4. ASSUME GetGain(dir, channel), ~Fail
      PROVE  TypeOK'
  <2>1. PICK s \in Slots(GainCards(dir)) :
          /\ channel \in Channel
          /\ \E read \in Brought(reg[s][GainRegister(product[s], channel)]) :
               Answer(<<"gain", dir, channel>>,
                      Decode(product[s], read.byte), read.full)
    BY <1>4 DEF GetGain
  <2>2. product[s] \in Cards /\ s \in CardSlots
    BY CardTypes
  <2>3. reg[s][GainRegister(product[s], channel)] \in Byte
    BY <2>1, <2>2, RegisterTypes DEF TypeOK
  <2>4. PICK read \in Brought(reg[s][GainRegister(product[s], channel)]) :
          Answer(<<"gain", dir, channel>>,
                 Decode(product[s], read.byte), read.full)
    BY <2>1
  <2>5. read.byte \in Byte /\ read.full \in BOOLEAN
    BY <2>3, BroughtTypes
  <2>6. Decode(product[s], read.byte) \in Int
    BY <2>5 DEF Decode, Bias, Byte
  <2> QED
    BY <1>2, <2>4, <2>5, <2>6
<1>5. ASSUME NEW level \in Levels, SetPad(dir, channel, level), ~Fail
      PROVE  TypeOK'
  <2>1. PICK s \in Slots(PadCards(dir)) :
          /\ job' = [slot |-> s, dir |-> dir,
                     channel |-> channel, level |-> level]
          /\ \E read \in Brought(reg[s][PadRegister(product[s])]) :
               bits' = read.byte /\ filled' = read.full
    BY <1>5 DEF SetPad
  <2>2. /\ channel \in Channel /\ pc' = "pad" /\ reply' = 999
        /\ UNCHANGED <<product, reg, clock, watched, asked>>
    BY <1>5 DEF SetPad, Unknown
  <2>3. product[s] \in Cards /\ s \in CardSlots
    BY CardTypes
  <2>4. dir \in {"IN", "OUT"} /\ product[s] \in PadCards(dir)
    BY DEF Slots, PadCards, GainCards
  <2>5. bits' \in Byte /\ filled' \in BOOLEAN
    <3>1. reg[s][PadRegister(product[s])] \in Byte
      BY <2>2, <2>3, RegisterTypes DEF TypeOK
    <3> QED
      BY <2>1, <3>1, BroughtTypes
  <2>6. /\ job' \in [slot : CardSlots, dir : {"IN", "OUT"},
                     channel : Channel, level : 0..3]
        /\ job'.slot = s /\ job'.dir = dir /\ job' # NoJob
    BY <2>1, <2>2, <2>3, <2>4, LevelAssumption DEF NoJob
  <2> QED
    BY <2>2, <2>4, <2>5, <2>6 DEF TypeOK, Controls
<1>6. ASSUME GetPad(dir, channel), ~Fail
      PROVE  TypeOK'
  <2>1. PICK s \in Slots(PadCards(dir)) :
          /\ channel \in Channel
          /\ \E read \in Brought(reg[s][PadRegister(product[s])]) :
               Answer(<<"pad", dir, channel>>, Pad(read.byte, channel), read.full)
    BY <1>6 DEF GetPad
  <2>2. product[s] \in Cards /\ s \in CardSlots
    BY CardTypes
  <2>3. reg[s][PadRegister(product[s])] \in Byte
    BY <2>1, <2>2, RegisterTypes DEF TypeOK
  <2>4. PICK read \in Brought(reg[s][PadRegister(product[s])]) :
          Answer(<<"pad", dir, channel>>, Pad(read.byte, channel), read.full)
    BY <2>1
  <2>5. read.byte \in Byte /\ read.full \in BOOLEAN
    BY <2>3, BroughtTypes
  <2>6. Pad(read.byte, channel) \in Int
    BY <2>1, <2>5, PadRange
  <2> QED
    BY <1>2, <2>4, <2>5, <2>6
<1>7. ASSUME GetVuMeter(dir, channel), ~Fail
      PROVE  TypeOK'
  <2>1. Answer(<<"vu", dir, channel>>, 0, TRUE)
    BY <1>7 DEF GetVuMeter
  <2>2. filled' \in BOOLEAN
    BY <2>1 DEF Answer
  <2> QED
    BY <2>1, <2>2, ReturnTypes DEF Answer, TypeOK, Unknown
<1> QED
  BY <1>1, <1>3, <1>4, <1>5, <1>6, <1>7

\* The job of a pad that is being written.
LEMMA PadJob ==
  ASSUME TypeOK, pc = "pad"
  PROVE  /\ job.slot \in CardSlots /\ job.dir \in {"IN", "OUT"}
         /\ job.channel \in Channel /\ job.level \in 0..3
         /\ product[job.slot] \in PadCards(job.dir)
         /\ product[job.slot] \in Cards
  BY CardTypes DEF TypeOK

LEMMA WritePadTypes == TypeOK /\ WritePad => TypeOK'
<1> SUFFICES ASSUME TypeOK, WritePad PROVE TypeOK'
  OBVIOUS
<1>1. /\ job.slot \in CardSlots /\ product[job.slot] \in Cards
      /\ job.channel \in Channel /\ job.level \in 0..3
  BY PadJob DEF WritePad
<1>2. WithPad(bits, job.channel, job.level) \in Byte
  BY <1>1, WithPadSetsOne DEF TypeOK
<1>3. PadRegister(product[job.slot]) \in Registers
  BY <1>1, RegisterTypes DEF Channel
<1> QED
  BY <1>1, <1>2, <1>3, WriteTypes DEF WritePad

LEMMA OtherTypes ==
  ASSUME TypeOK,
         GetVersion \/ GetExtension \/ \E rate \in Rates : SetSamplingRate(rate)
  PROVE  TypeOK'
<1>1. Fail => TypeOK'
  BY ReturnTypes DEF Fail, TypeOK, Unknown
<1>2. CASE GetVersion
  BY <1>1, <1>2 DEF GetVersion, TypeOK, Controls
<1>3. CASE GetExtension
  <2>1. CASE Answer(<<"version", "INVALID", 0>>, 0, TRUE)
    <3>1. filled' \in BOOLEAN
      BY <2>1 DEF Answer
    <3> QED
      BY <2>1, <3>1, ReturnTypes DEF Answer, TypeOK, Unknown
  <2> QED
    BY <1>1, <1>3, <2>1 DEF GetExtension
<1>4. ASSUME NEW rate \in Rates, SetSamplingRate(rate) PROVE TypeOK'
  <2>1. clock' \in 0..3
    BY <1>4 DEF SetSamplingRate, RateCode, TypeOK
  <2> QED
    BY <1>4, <2>1, ReturnTypes DEF SetSamplingRate, Unknown
<1> QED
  BY <1>2, <1>3, <1>4

LEMMA TypesKept == TypeOK /\ [Next]_vars => TypeOK'
<1>1. TypeOK /\ UNCHANGED vars => TypeOK'
  BY DEF TypeOK, vars, Controls
<1> QED
  BY <1>1, CallTypes, WritePadTypes, OtherTypes DEF Next

-------------------------------------------------------------------------------
(* What the registers hold.                                                *)

LEMMA SingleSlot ==
  ASSUME NEW kinds, Single(kinds), NEW s \in Slots(kinds), NEW t \in Slots(kinds)
  PROVE  s = t
<1>1. IsFiniteSet(Slots(kinds))
  <2>1. IsFiniteSet(CardSlots)
    BY SlotAssumption, FS_Interval DEF CardSlots
  <2> QED
    BY <2>1, FS_Subset DEF Slots
<1> QED
  BY <1>1, FS_Singleton DEF Single

\* The watched control is named by its three parts.
LEMMA WatchedParts ==
  ASSUME TypeOK, NEW control, NEW dir, NEW channel
  PROVE  /\ watched[1] \in {"gain", "pad"}
         /\ watched[2] \in {"IN", "OUT"}
         /\ watched[3] \in Channel
         /\ <<control, dir, channel>> = watched
              <=> control = watched[1] /\ dir = watched[2] /\ channel = watched[3]
  BY DEF TypeOK, Controls

\* The cards of the two directions are different.
LEMMA DirectionsApart ==
  ASSUME NEW d \in {"IN", "OUT"}, NEW e \in {"IN", "OUT"},
         NEW s \in Slots(GainCards(d)), s \in Slots(GainCards(e))
  PROVE  d = e
  BY DEF Slots, GainCards

\* A step that changes no register and not what is known of the control.
LEMMA QuietKeeps ==
  ASSUME IInv, TypeOK', UNCHANGED <<product, reg, watched, asked>>, BitsCurrent',
         GainReadsBack' /\ PadReadsBack'
  PROVE  IInv'
  BY DEF IInv, GainHeld, PadHeld, PadOf, Single, Slots

\* ... and reads back nothing.
LEMMA SilentKeeps ==
  ASSUME IInv, TypeOK', UNCHANGED <<product, reg, watched, asked>>, BitsCurrent',
         reply' = Unknown \/ UNCHANGED <<reply, filled>>
  PROVE  IInv'
<1>1. GainReadsBack' /\ PadReadsBack'
  BY DEF IInv, GainReadsBack, PadReadsBack, Watching, Single, Slots
<1> QED
  BY <1>1, QuietKeeps

LEMMA FailKeeps ==
  ASSUME IInv, TypeOK', Fail
  PROVE  IInv'
  BY SilentKeeps DEF Fail, Return, BitsCurrent

\* A write to a register that is not that of the watched control.
LEMMA WriteElsewhere ==
  ASSUME IInv, TypeOK', NEW s \in CardSlots, NEW r \in Registers, NEW byte,
         NEW control, NEW value, Write(s, r, byte, control, value),
         control # watched, watched \notin Spoilt,
         watched[1] = "gain" /\ s \in Slots(GainCards(watched[2]))
           => r # GainRegister(product[s], watched[3]),
         watched[1] = "pad" /\ s \in Slots(PadCards(watched[2]))
                /\ r = PadRegister(product[s])
           => Pad(byte, watched[3]) = PadOf(reg, s, watched[3])
  PROVE  IInv'
<1>1. /\ pc' = "idle" /\ reply' = Unknown
      /\ UNCHANGED <<product, watched, asked>>
      /\ reg' \in {reg, [reg EXCEPT ![s][r] = byte]}
  BY DEF Write, Return
<1>2. CASE UNCHANGED reg
  BY <1>1, <1>2, SilentKeeps DEF BitsCurrent
<1>3. CASE reg' = [reg EXCEPT ![s][r] = byte]
  <2>1. \A t \in CardSlots, q \in Registers :
          reg'[t][q] = IF t = s /\ q = r THEN byte ELSE reg[t][q]
    BY <1>3 DEF IInv, TypeOK
  <2>2. GainHeld'
    <3> SUFFICES ASSUME watched[1] = "gain", asked # Unknown,
                        Single(GainCards(watched[2])),
                        NEW t \in Slots(GainCards(watched[2]))
                 PROVE  /\ asked \in Lowest(product[t])..Highest(product[t])
                        /\ reg'[t][GainRegister(product[t], watched[3])]
                             = Encode(product[t], asked)
      BY <1>1 DEF GainHeld, Single, Slots
    <3>1. t \in CardSlots /\ product[t] \in Cards /\ watched[3] \in Channel
      BY CardTypes, WatchedParts DEF IInv
    <3>2. GainRegister(product[t], watched[3]) \in Registers
      BY <3>1, RegisterTypes
    <3> QED
      BY <2>1, <3>1, <3>2 DEF IInv, GainHeld
  <2>3. PadHeld'
    <3> SUFFICES ASSUME watched[1] = "pad", asked # Unknown,
                        Single(PadCards(watched[2])),
                        NEW t \in Slots(PadCards(watched[2]))
                 PROVE  PadOf(reg, t, watched[3])' = asked
      BY <1>1 DEF PadHeld, Single, Slots, PadOf
    <3>1. t \in CardSlots /\ product[t] \in Cards /\ watched[3] \in Channel
      BY CardTypes, WatchedParts DEF IInv
    <3>2. PadRegister(product[t]) \in Registers
      BY <3>1, RegisterTypes
    <3>3. PadOf(reg, t, watched[3]) = asked
      BY DEF IInv, PadHeld
    <3> QED
      BY <1>1, <2>1, <3>1, <3>2, <3>3 DEF PadOf
  <2>4. GainReadsBack' /\ PadReadsBack' /\ BitsCurrent'
    BY <1>1 DEF GainReadsBack, PadReadsBack, Watching, BitsCurrent
  <2> QED
    BY <2>2, <2>3, <2>4 DEF IInv
<1> QED
  BY <1>1, <1>2, <1>3

LEMMA SetGainKeeps ==
  ASSUME IInv, TypeOK', NEW dir \in Directions, NEW channel \in Channels,
         NEW gain \in Gains, SetGain(dir, channel, gain)
  PROVE  IInv'
<1>1. CASE Fail
  BY <1>1, FailKeeps
<1>2. CASE ~Fail
  <2>1. PICK s \in Slots(GainCards(dir)) :
          /\ channel \in Channel
          /\ gain \in Lowest(product[s])..Highest(product[s])
          /\ Write(s, GainRegister(product[s], channel),
                   Encode(product[s], gain), <<"gain", dir, channel>>, gain)
    BY <1>2 DEF SetGain
  <2>2. /\ s \in CardSlots /\ product[s] \in Cards /\ dir \in {"IN", "OUT"}
    BY CardTypes DEF Slots, GainCards
  <2>3. /\ GainRegister(product[s], channel) \in Registers
        /\ GainRegister(product[s], channel) # PadRegister(product[s])
    BY <2>1, <2>2, RegisterTypes
  <2> Spoilt = {}
    BY DEF SetGain, Spoilt
  <2>4. CASE <<"gain", dir, channel>> # watched
    <3>1. ASSUME watched[1] = "gain", s \in Slots(GainCards(watched[2]))
          PROVE  GainRegister(product[s], channel)
                   # GainRegister(product[s], watched[3])
      <4>1. dir = watched[2]
        BY <2>2, <3>1, DirectionsApart, WatchedParts DEF IInv
      <4>2. channel # watched[3] /\ watched[3] \in Channel
        BY <2>4, <3>1, <4>1, WatchedParts DEF IInv
      <4> QED
        BY <2>1, <2>2, <4>2, RegisterTypes
    <3> QED
      BY <2>1, <2>2, <2>3, <2>4, <3>1, WriteElsewhere
  <2>5. CASE <<"gain", dir, channel>> = watched
    <3>1. watched[1] = "gain" /\ watched[2] = dir /\ watched[3] = channel
      BY <2>5
    <3>2. /\ pc' = "idle" /\ reply' = Unknown
          /\ UNCHANGED <<product, watched>>
          /\ \/ asked' = Unknown
             \/ /\ asked' = gain
                /\ reg' = [reg EXCEPT ![s][GainRegister(product[s], channel)]
                                       = Encode(product[s], gain)]
      BY <2>1, <2>5 DEF Write, Return
    <3>3. GainHeld'
      <4> SUFFICES ASSUME asked' = gain,
                          reg' = [reg EXCEPT
                                    ![s][GainRegister(product[s], channel)]
                                      = Encode(product[s], gain)],
                          Single(GainCards(dir)),
                          NEW t \in Slots(GainCards(dir))
                   PROVE  /\ gain \in Lowest(product[t])..Highest(product[t])
                          /\ reg'[t][GainRegister(product[t], channel)]
                               = Encode(product[t], gain)
        BY <3>1, <3>2 DEF GainHeld, Single, Slots
      <4>1. t = s
        BY SingleSlot
      <4> QED
        BY <2>1, <2>2, <2>3, <4>1 DEF IInv, TypeOK
    <3>4. /\ PadHeld' /\ GainReadsBack' /\ PadReadsBack' /\ BitsCurrent'
      BY <3>1, <3>2 DEF PadHeld, GainReadsBack, PadReadsBack, Watching,
                        BitsCurrent
    <3> QED
      BY <3>3, <3>4 DEF IInv
  <2> QED
    BY <2>4, <2>5
<1> QED
  BY <1>1, <1>2

LEMMA WritePadKeeps ==
  ASSUME IInv, TypeOK', WritePad
  PROVE  IInv'
<1> DEFINE s == job.slot
           r == PadRegister(product[s])
           new == WithPad(bits, job.channel, job.level)
<1>1. /\ s \in CardSlots /\ product[s] \in Cards
      /\ job.dir \in {"IN", "OUT"}
      /\ job.channel \in Channel /\ job.level \in 0..3
      /\ s \in Slots(PadCards(job.dir))
      /\ s \in Slots(GainCards(job.dir))
  BY PadJob, CardTypes DEF IInv, WritePad, Slots
<1>2. r \in Registers
      /\ \A channel \in Channel : GainRegister(product[s], channel) # r
  BY <1>1, RegisterTypes
<1>3. /\ filled => bits = reg[s][r]
      /\ bits \in Byte
      /\ Write(s, r, new, <<"pad", job.dir, job.channel>>, job.level)
  BY DEF IInv, TypeOK, BitsCurrent, WritePad
<1>4. /\ Pad(new, job.channel) = job.level
      /\ \A other \in Channel \ {job.channel} : Pad(new, other) = Pad(bits, other)
  BY <1>1, <1>3, WithPadSetsOne
<1>5. CASE <<"pad", job.dir, job.channel>> # watched /\ watched \notin Spoilt
  <2>1. watched[3] \in Channel
    BY WatchedParts DEF IInv
  <2>2. ASSUME watched[1] = "pad", s \in Slots(PadCards(watched[2]))
        PROVE  Pad(new, watched[3]) = PadOf(reg, s, watched[3])
    <3>1. job.dir = watched[2]
      <4>1. s \in Slots(GainCards(watched[2])) /\ watched[2] \in {"IN", "OUT"}
        BY <2>2, CardTypes, WatchedParts DEF IInv, Slots
      <4> QED
        BY <1>1, <4>1, DirectionsApart
    <3>2. job.channel # watched[3]
      BY <1>5, <2>2, <3>1, WatchedParts DEF IInv
    <3>3. filled
      <4>1. watched = <<"pad", job.dir, watched[3]>>
        BY <2>2, <3>1, WatchedParts DEF IInv
      <4> QED
        BY <1>5, <2>1, <4>1 DEF Spoilt, WritePad
    <3> QED
      BY <1>3, <1>4, <2>1, <3>2, <3>3 DEF PadOf
  <2> HIDE DEF s, r, new
  <2> QED
    BY <1>1, <1>2, <1>3, <1>5, <2>1, <2>2, WriteElsewhere
<1>6. CASE <<"pad", job.dir, job.channel>> = watched
  <2>1. /\ watched[1] = "pad" /\ watched[2] = job.dir
        /\ watched[3] = job.channel
    BY <1>6
  <2>2. /\ pc' = "idle" /\ reply' = Unknown
        /\ UNCHANGED <<product, watched>>
        /\ \/ asked' = Unknown
           \/ asked' = job.level /\ reg' = [reg EXCEPT ![s][r] = new]
    BY <1>3, <1>6 DEF Write, Return
  <2>3. PadHeld'
    <3> SUFFICES ASSUME asked' = job.level, reg' = [reg EXCEPT ![s][r] = new],
                        Single(PadCards(job.dir)),
                        NEW t \in Slots(PadCards(job.dir))
                 PROVE  Pad(reg'[t][PadRegister(product[t])], job.channel)
                          = job.level
      BY <2>1, <2>2 DEF PadHeld, PadOf, Single, Slots
    <3>1. t = s
      BY <1>1, SingleSlot
    <3>2. reg'[s][r] = new
      BY <1>1, <1>2 DEF IInv, TypeOK
    <3> QED
      BY <1>4, <3>1, <3>2
  <2>4. GainHeld' /\ GainReadsBack' /\ PadReadsBack' /\ BitsCurrent'
    BY <2>1, <2>2 DEF GainHeld, GainReadsBack, PadReadsBack, Watching,
                      BitsCurrent
  <2> QED
    BY <2>3, <2>4 DEF IInv
<1>7. CASE <<"pad", job.dir, job.channel>> # watched /\ watched \in Spoilt
  <2>1. asked' = Unknown /\ pc' = "idle"
    BY <1>3, <1>7 DEF Write, Return
  <2> QED
    BY <2>1 DEF IInv, BitsCurrent, GainHeld, PadHeld, GainReadsBack,
                PadReadsBack, Watching
<1> QED
  BY <1>5, <1>6, <1>7

\* The calls that read.
LEMMA AnswerKeeps ==
  ASSUME IInv, TypeOK', NEW control, NEW out, NEW full,
         Answer(control, out, full),
         control = watched /\ watched[1] = "gain" /\ asked # Unknown /\ full
                /\ Single(GainCards(watched[2])) => out \in {asked - 1, asked},
         control = watched /\ watched[1] = "pad" /\ asked # Unknown /\ full
                /\ Single(PadCards(watched[2])) => out = asked
  PROVE  IInv'
<1>1. /\ UNCHANGED <<product, reg, watched, asked>> /\ pc' = "idle"
      /\ reply' = IF control = watched THEN out ELSE Unknown
      /\ filled' = full
  BY DEF Answer, Return
<1>2. BitsCurrent'
  BY <1>1 DEF BitsCurrent
<1>3. CASE control # watched
  BY <1>1, <1>2, <1>3, SilentKeeps
<1>4. CASE control = watched
  <2>1. GainReadsBack' /\ PadReadsBack'
    BY <1>1, <1>4 DEF GainReadsBack, PadReadsBack, Watching, Single, Slots
  <2> QED
    BY <1>1, <1>2, <2>1, QuietKeeps
<1> QED
  BY <1>3, <1>4

LEMMA GetGainKeeps ==
  ASSUME IInv, TypeOK', NEW dir \in Directions, NEW channel \in Channels,
         GetGain(dir, channel)
  PROVE  IInv'
<1>1. CASE Fail
  BY <1>1, FailKeeps
<1>2. CASE ~Fail
  <2>1. PICK s \in Slots(GainCards(dir)) :
          /\ channel \in Channel
          /\ \E read \in Brought(reg[s][GainRegister(product[s], channel)]) :
               Answer(<<"gain", dir, channel>>,
                      Decode(product[s], read.byte), read.full)
    BY <1>2 DEF GetGain
  <2>2. product[s] \in Cards /\ s \in CardSlots
    BY CardTypes
  <2>3. reg[s][GainRegister(product[s], channel)] \in Byte
    BY <2>1, <2>2, RegisterTypes DEF IInv, TypeOK
  <2>4. PICK read \in Brought(reg[s][GainRegister(product[s], channel)]) :
          Answer(<<"gain", dir, channel>>,
                 Decode(product[s], read.byte), read.full)
    BY <2>1
  <2> DEFINE out == Decode(product[s], read.byte)
  <2>5. ASSUME <<"gain", dir, channel>> = watched, asked # Unknown, read.full,
               Single(GainCards(watched[2]))
        PROVE  out \in {asked - 1, asked}
    <3>1. /\ asked \in Lowest(product[s])..Highest(product[s])
          /\ reg[s][GainRegister(product[s], channel)]
               = Encode(product[s], asked)
      BY <2>5 DEF IInv, GainHeld
    <3>2. read.byte = Encode(product[s], asked)
      BY <2>3, <2>5, <3>1, BroughtTypes
    <3> QED
      BY <2>2, <3>1, <3>2, GainRoundTrip
  <2>6. <<"gain", dir, channel>> = watched => watched[1] = "gain"
    OBVIOUS
  <2> HIDE DEF out
  <2> QED
    BY <2>4, <2>5, <2>6, AnswerKeeps DEF out
<1> QED
  BY <1>1, <1>2

LEMMA GetPadKeeps ==
  ASSUME IInv, TypeOK', NEW dir \in Directions, NEW channel \in Channels,
         GetPad(dir, channel)
  PROVE  IInv'
<1>1. CASE Fail
  BY <1>1, FailKeeps
<1>2. CASE ~Fail
  <2>1. PICK s \in Slots(PadCards(dir)) :
          /\ channel \in Channel
          /\ \E read \in Brought(reg[s][PadRegister(product[s])]) :
               Answer(<<"pad", dir, channel>>, Pad(read.byte, channel), read.full)
    BY <1>2 DEF GetPad
  <2>2. product[s] \in Cards /\ s \in CardSlots
    BY CardTypes
  <2>3. reg[s][PadRegister(product[s])] \in Byte
    BY <2>1, <2>2, RegisterTypes DEF IInv, TypeOK
  <2>4. PICK read \in Brought(reg[s][PadRegister(product[s])]) :
          Answer(<<"pad", dir, channel>>, Pad(read.byte, channel), read.full)
    BY <2>1
  <2>5. ASSUME <<"pad", dir, channel>> = watched, asked # Unknown, read.full,
               Single(PadCards(watched[2]))
        PROVE  Pad(read.byte, channel) = asked
    BY <2>3, <2>5, BroughtTypes DEF IInv, PadHeld, PadOf
  <2>6. <<"pad", dir, channel>> = watched => watched[1] = "pad"
    OBVIOUS
  <2> QED
    BY <2>4, <2>5, <2>6, AnswerKeeps
<1> QED
  BY <1>1, <1>2

\* What touches no control.
LEMMA OthersKeep ==
  ASSUME IInv, TypeOK',
         \/ \E dir \in Directions, channel \in Channels :
              \/ GetVuMeter(dir, channel)
              \/ \E level \in Levels : SetPad(dir, channel, level)
         \/ GetVersion \/ GetExtension
         \/ \E rate \in Rates : SetSamplingRate(rate)
         \/ UNCHANGED vars
  PROVE  IInv'
<1>1. CASE Fail
  BY <1>1, FailKeeps
<1>2. ASSUME NEW dir, NEW channel, Answer(<<"vu", dir, channel>>, 0, TRUE)
      PROVE  IInv'
  BY <1>2, WatchedParts, AnswerKeeps DEF IInv
<1>3. ASSUME NEW dir \in Directions, NEW channel \in Channels,
             NEW level \in Levels, SetPad(dir, channel, level), ~Fail
      PROVE  IInv'
  <2>1. UNCHANGED <<product, reg, watched, asked>> /\ reply' = Unknown
    BY <1>3 DEF SetPad
  <2>2. PICK s \in Slots(PadCards(dir)) :
          /\ channel \in Channel /\ job'.slot = s
          /\ \E read \in Brought(reg[s][PadRegister(product[s])]) :
               bits' = read.byte /\ filled' = read.full
    BY <1>3 DEF SetPad
  <2>3. reg[s][PadRegister(product[s])] \in Byte
    BY <2>2, CardTypes, RegisterTypes DEF IInv, TypeOK
  <2>4. BitsCurrent'
    BY <2>1, <2>2, <2>3, BroughtTypes DEF BitsCurrent
  <2> QED
    BY <2>1, <2>4, SilentKeeps
<1>4. CASE GetVersion /\ ~Fail
  <2>1. /\ pc' = "version"
        /\ UNCHANGED <<product, reg, watched, asked, reply, filled>>
    BY <1>4 DEF GetVersion
  <2> QED
    BY <2>1, SilentKeeps DEF BitsCurrent
<1>5. CASE Answer(<<"version", "INVALID", 0>>, 0, TRUE)
  BY <1>5, WatchedParts, AnswerKeeps DEF IInv
<1>6. ASSUME NEW rate \in Rates, SetSamplingRate(rate) PROVE IInv'
  BY <1>6, SilentKeeps DEF SetSamplingRate, Return, BitsCurrent
<1>7. CASE UNCHANGED vars
  BY <1>7, SilentKeeps DEF vars, IInv, BitsCurrent
<1> QED
  BY <1>1, <1>2, <1>3, <1>4, <1>5, <1>6, <1>7 DEF GetVuMeter, GetExtension

-------------------------------------------------------------------------------

\* The invariant that the results below rest on.
THEOREM Inductive == Spec => []IInv
<1>1. Init => IInv
  <2> SUFFICES ASSUME Init PROVE IInv
    OBVIOUS
  <2>1. TypeOK
    BY InitTypes
  <2>2. /\ BitsCurrent /\ GainHeld /\ PadHeld
        /\ GainReadsBack /\ PadReadsBack
    BY DEF Init, BitsCurrent, GainHeld, PadHeld, GainReadsBack, PadReadsBack,
           Watching
  <2> QED
    BY <2>1, <2>2 DEF IInv
<1>2. IInv /\ [Next]_vars => IInv'
  <2> SUFFICES ASSUME IInv, [Next]_vars PROVE IInv'
    OBVIOUS
  <2>1. TypeOK'
    BY TypesKept DEF IInv
  <2> QED
    BY <2>1, SetGainKeeps, GetGainKeeps, WritePadKeeps, GetPadKeeps, OthersKeep
       DEF Next
<1> QED
  BY <1>1, <1>2, PTL DEF Spec

\* Every gain and every set of pad levels that is written fits its register
\* (rackAuvitran.c:575-612, 825-826).
THEOREM Typing == Spec => []TypeOK
  BY Inductive, PTL DEF IInv

\* On a rack with one card for it, a gain is read back as it was set, whatever
\* calls come in between (rackAuvitran.c:506-736), for any number of slots.
THEOREM GainsReadBack == Spec => []GainReadsBack
  BY Inductive, PTL DEF IInv

\* On a rack with one card for it, a pad level is read back as it was set
\* (rackAuvitran.c:746-924).
THEOREM PadsReadBack == Spec => []PadReadsBack
  BY Inductive, PTL DEF IInv

\* Of the four pads in a register, setting one changes no other, also when the
\* read or the write fails with an error code; a read that brings nothing and
\* returns 0 (avxSpi.c:586-601) may change the others with it, but those of that
\* card only; and no gain changes a pad (rackAuvitran.c:812-832).
THEOREM PadsAreIndependent == Spec => PadsIndependent
<1> DEFINE Alone ==
      \A s \in CardSlots, channel \in Channel :
        product[s] \in {"AX4I", "AX4O"}
          /\ PadOf(reg', s, channel) # PadOf(reg, s, channel)
          => pc = "pad" /\ job.slot = s /\ (filled => job.channel = channel)
<1>1. IInv /\ [Next]_vars => [Alone]_vars
  <2> SUFFICES ASSUME IInv, Next PROVE Alone
    OBVIOUS
  <2>1. CASE UNCHANGED reg
    BY <2>1 DEF PadOf
  <2>2. ASSUME NEW dir \in Directions, NEW channel \in Channels,
               NEW gain \in Gains, SetGain(dir, channel, gain), reg' # reg
        PROVE  Alone
    <3>1. PICK s \in Slots(GainCards(dir)) :
            /\ channel \in Channel
            /\ Write(s, GainRegister(product[s], channel),
                     Encode(product[s], gain), <<"gain", dir, channel>>, gain)
      BY <2>2 DEF SetGain, Fail
    <3>2. /\ s \in CardSlots /\ product[s] \in Cards
          /\ reg' = [reg EXCEPT ![s][GainRegister(product[s], channel)]
                               = Encode(product[s], gain)]
      BY <2>2, <3>1, CardTypes DEF Write
    <3>3. /\ GainRegister(product[s], channel) \in Registers
          /\ PadRegister(product[s]) # GainRegister(product[s], channel)
      BY <3>1, <3>2, RegisterTypes
    <3>4. ASSUME NEW t \in CardSlots, product[t] \in {"AX4I", "AX4O"}
          PROVE  reg'[t][PadRegister(product[t])] = reg[t][PadRegister(product[t])]
      <4>1. PadRegister(product[t]) \in Registers
        BY DEF PadRegister, Registers
      <4> QED
        BY <3>2, <3>3, <4>1 DEF IInv, TypeOK
    <3> QED
      BY <3>4 DEF PadOf
  <2>3. CASE WritePad /\ reg' # reg
    <3> DEFINE s == job.slot
               r == PadRegister(product[s])
               new == WithPad(bits, job.channel, job.level)
    <3>1. /\ pc = "pad" /\ s \in CardSlots /\ product[s] \in Cards
          /\ job.channel \in Channel /\ job.level \in 0..3
          /\ filled => bits = reg[s][r]
          /\ bits \in Byte
      BY <2>3, PadJob DEF IInv, WritePad, BitsCurrent, TypeOK
    <3>2. r \in Registers /\ reg' = [reg EXCEPT ![s][r] = new]
      BY <2>3, <3>1, RegisterTypes DEF WritePad, Write, Channel
    <3>3. \A other \in Channel \ {job.channel} : Pad(new, other) = Pad(bits, other)
      BY <3>1, WithPadSetsOne
    <3>4. ASSUME NEW t \in CardSlots, NEW channel \in Channel,
                 product[t] \in {"AX4I", "AX4O"},
                 ~(s = t /\ (filled => job.channel = channel))
          PROVE  PadOf(reg', t, channel) = PadOf(reg, t, channel)
      <4>1. PadRegister(product[t]) \in Registers
        BY DEF PadRegister, Registers
      <4>2. CASE t # s
        BY <3>2, <4>1, <4>2 DEF IInv, TypeOK, PadOf
      <4>3. CASE t = s /\ filled /\ channel # job.channel
        BY <3>1, <3>2, <3>3, <4>1, <4>3 DEF IInv, TypeOK, PadOf
      <4> QED
        BY <3>4, <4>2, <4>3
    <3> QED
      BY <3>1, <3>4
  <2>4. reg' # reg => \/ WritePad
                      \/ \E dir \in Directions, channel \in Channels :
                           \E gain \in Gains : SetGain(dir, channel, gain)
    BY DEF Next, GetGain, SetPad, GetPad, GetVuMeter, GetVersion, GetExtension,
           SetSamplingRate, Fail, Answer
  <2> QED
    BY <2>1, <2>2, <2>3, <2>4
<1> QED
  BY Inductive, <1>1, PTL DEF Spec, PadsIndependent

-------------------------------------------------------------------------------
(* The controls of the cards, as independent values (CardControls).        *)

\* A gain is kept to half a dB, the even number of quarters at or below it.
THEOREM GainKept ==
  ASSUME NEW p \in Cards, NEW gain \in Lowest(p)..Highest(p)
  PROVE  Decode(p, Encode(p, gain)) = gain - (gain % 2)
<1>1. CASE p = "AX4M"
  BY <1>1 DEF Lowest, Highest, Bias, Encode, Decode, Mute
<1>2. CASE p # "AX4M"
  BY <1>2 DEF Lowest, Highest, Bias, Encode, Decode, Mute
<1> QED
  BY <1>1, <1>2

\* The two modules name the same cards.
LEMMA SameCards ==
  /\ Cells!With(Cells!Cards) = Slots(Cards)
  /\ Cells!With(Cells!Padded) = Slots({"AX4I", "AX4O"})
  /\ Cells!Channel = Channel
  /\ Cells!Unknown = Unknown
  BY DEF Cells!With, Cells!Cards, Cells!Inputs, Cells!Padded, Cells!Channel,
         Cells!Unknown, Slots, Cards, CardSlots, Channel, Unknown

LEMMA SameDirection ==
  ASSUME NEW dir, NEW s \in Slots(GainCards(dir))
  PROVE  /\ s \in Slots(Cards)
         /\ Cells!Direction(s) = dir
         /\ Cells!Range(s) = Lowest(product[s])..Highest(product[s])
<1>1. /\ s \in CardSlots /\ product[s] \in Cards
      /\ product[s] \in GainCards(dir)
  BY CardTypes DEF Slots
<1>2. Cells!Direction(s) = dir
  BY <1>1 DEF GainCards, Cells!Direction, Cells!Inputs
<1>3. Cells!Range(s) = Lowest(product[s])..Highest(product[s])
  BY <1>1 DEF Cells!Range, Lowest, Highest, Cards
<1> QED
  BY <1>1, <1>2, <1>3 DEF Slots

LEMMA SamePads ==
  ASSUME NEW dir, NEW s \in Slots(PadCards(dir))
  PROVE  /\ s \in Slots({"AX4I", "AX4O"})
         /\ s \in Slots(GainCards(dir))
  BY CardTypes DEF Slots, PadCards, GainCards

\* A write of an encoded gain changes that gain only ...
LEMMA GainWritten ==
  ASSUME TypeOK, NEW s \in Slots(Cards), NEW c \in Channel,
         NEW gain \in Lowest(product[s])..Highest(product[s]),
         UNCHANGED product,
         reg' = [reg EXCEPT ![s][GainRegister(product[s], c)]
                              = Encode(product[s], gain)]
  PROVE  /\ GainsHeld' = [GainsHeld EXCEPT ![s][c] = gain - (gain % 2)]
         /\ PadsHeld' = PadsHeld
<1> DEFINE r == GainRegister(product[s], c)
           code == Encode(product[s], gain)
           v == gain - (gain % 2)
<1>1. /\ s \in CardSlots /\ product[s] \in Cards /\ r \in Registers
      /\ \A t \in Slots(Cards) : t \in CardSlots /\ product[t] \in Cards
  BY RegisterTypes DEF Slots
<1>2. \A t \in CardSlots, q \in Registers :
        reg'[t][q] = IF t = s /\ q = r THEN code ELSE reg[t][q]
  BY DEF TypeOK
<1>3. ASSUME NEW t \in Slots(Cards), NEW d \in Channel
      PROVE  Decode(product[t], reg'[t][GainRegister(product[t], d)])
               = IF t = s /\ d = c THEN v
                 ELSE Decode(product[t], reg[t][GainRegister(product[t], d)])
  <2>1. GainRegister(product[t], d) \in Registers
    BY <1>1, RegisterTypes
  <2>2. CASE t = s /\ d = c
    BY <1>1, <1>2, <2>2, GainKept
  <2>3. CASE ~(t = s /\ d = c)
    <3>1. ~(t = s /\ GainRegister(product[t], d) = r)
      BY <1>1, <2>3, RegisterTypes
    <3>2. reg'[t][GainRegister(product[t], d)]
            = reg[t][GainRegister(product[t], d)]
      BY <1>1, <1>2, <2>1, <3>1
    <3> QED
      BY <2>3, <3>2
  <2> QED
    BY <2>2, <2>3
<1>4. GainsHeld' = [t \in Slots(Cards) |-> [d \in Channel |->
                      IF t = s /\ d = c THEN v
                      ELSE Decode(product[t], reg[t][GainRegister(product[t], d)])]]
  <2>1. GainsHeld' = [t \in Slots(Cards) |-> [d \in Channel |->
                        Decode(product[t], reg'[t][GainRegister(product[t], d)])]]
    BY DEF GainsHeld, Slots
  <2> HIDE DEF v
  <2> QED
    BY <1>3, <2>1
<1>5. [GainsHeld EXCEPT ![s][c] = v]
        = [t \in Slots(Cards) |-> [d \in Channel |->
             IF t = s /\ d = c THEN v
             ELSE Decode(product[t], reg[t][GainRegister(product[t], d)])]]
  <2> HIDE DEF v
  <2> QED
    BY DEF GainsHeld
<1>6. PadsHeld' = PadsHeld
  <2>1. ASSUME NEW t \in Slots({"AX4I", "AX4O"}), NEW d \in Channel
        PROVE  Pad(reg'[t][PadRegister(product[t])], d)
                 = Pad(reg[t][PadRegister(product[t])], d)
    <3>1. t \in CardSlots /\ product[t] \in Cards
      BY DEF Slots, Cards
    <3>2. PadRegister(product[t]) \in Registers
          /\ ~(t = s /\ PadRegister(product[t]) = r)
      BY <1>1, <3>1, RegisterTypes
    <3> QED
      BY <1>2, <3>1, <3>2
  <2> QED
    BY <2>1 DEF PadsHeld, PadOf, Slots
<1> QED
  BY <1>4, <1>5, <1>6

LEMMA HeldTypes ==
  ASSUME TypeOK
  PROVE  PadsHeld \in [Slots({"AX4I", "AX4O"}) -> [Channel -> 0..3]]
<1>1. ASSUME NEW s \in Slots({"AX4I", "AX4O"}), NEW d \in Channel
      PROVE  PadOf(reg, s, d) \in 0..3
  <2>1. /\ s \in CardSlots /\ PadRegister(product[s]) \in Registers
    BY DEF Slots, PadRegister, Registers
  <2>2. reg[s][PadRegister(product[s])] \in Byte
    BY <2>1 DEF TypeOK
  <2> QED
    BY <2>2, PadRange DEF PadOf
<1> QED
  BY <1>1 DEF PadsHeld

\* ... one of a byte of pads, the pads of that card ...
LEMMA PadsWritten ==
  ASSUME TypeOK, NEW s \in Slots({"AX4I", "AX4O"}), NEW byte \in Byte,
         UNCHANGED product,
         reg' = [reg EXCEPT ![s][PadRegister(product[s])] = byte]
  PROVE  /\ PadsHeld' = [PadsHeld EXCEPT ![s] = [d \in Channel |-> Pad(byte, d)]]
         /\ GainsHeld' = GainsHeld
<1> DEFINE r == PadRegister(product[s])
<1>1. /\ s \in CardSlots /\ product[s] \in Cards /\ r \in Registers
      /\ \A t \in Slots({"AX4I", "AX4O"}) : t \in CardSlots /\ product[t] \in Cards
  BY RegisterTypes DEF Slots, Cards, Channel
<1>2. \A t \in CardSlots, q \in Registers :
        reg'[t][q] = IF t = s /\ q = r THEN byte ELSE reg[t][q]
  BY DEF TypeOK
<1>3. ASSUME NEW t \in Slots({"AX4I", "AX4O"}), NEW d \in Channel
      PROVE  Pad(reg'[t][PadRegister(product[t])], d)
               = IF t = s THEN Pad(byte, d)
                 ELSE Pad(reg[t][PadRegister(product[t])], d)
  <2>1. t \in CardSlots /\ PadRegister(product[t]) \in Registers
    BY <1>1, RegisterTypes
  <2> QED
    BY <1>2, <2>1
<1>4. PadsHeld' = [t \in Slots({"AX4I", "AX4O"}) |-> [d \in Channel |->
                     IF t = s THEN Pad(byte, d)
                     ELSE Pad(reg[t][PadRegister(product[t])], d)]]
  <2>1. PadsHeld' = [t \in Slots({"AX4I", "AX4O"}) |-> [d \in Channel |->
                       Pad(reg'[t][PadRegister(product[t])], d)]]
    BY DEF PadsHeld, PadOf, Slots
  <2> QED
    BY <1>3, <2>1
<1>5. [PadsHeld EXCEPT ![s] = [d \in Channel |-> Pad(byte, d)]]
        = [t \in Slots({"AX4I", "AX4O"}) |-> [d \in Channel |->
             IF t = s THEN Pad(byte, d)
             ELSE Pad(reg[t][PadRegister(product[t])], d)]]
  BY DEF PadsHeld, PadOf
<1>6. GainsHeld' = GainsHeld
  <2>1. ASSUME NEW t \in Slots(Cards), NEW d \in Channel
        PROVE  Decode(product[t], reg'[t][GainRegister(product[t], d)])
                 = Decode(product[t], reg[t][GainRegister(product[t], d)])
    <3>1. t \in CardSlots /\ product[t] \in Cards
      BY DEF Slots
    <3>2. GainRegister(product[t], d) \in Registers
          /\ ~(t = s /\ GainRegister(product[t], d) = r)
      BY <1>1, <3>1, RegisterTypes
    <3> QED
      BY <1>2, <3>1, <3>2
  <2> QED
    BY <2>1 DEF GainsHeld, Slots
<1> QED
  BY <1>4, <1>5, <1>6

\* ... and of these, if the byte was read and the level of a channel replaced,
\* that pad only.
LEMMA PadWritten ==
  ASSUME TypeOK, NEW s \in Slots({"AX4I", "AX4O"}), NEW c \in Channel,
         NEW level \in 0..3,
         UNCHANGED product,
         reg' = [reg EXCEPT ![s][PadRegister(product[s])]
                   = WithPad(reg[s][PadRegister(product[s])], c, level)]
  PROVE  /\ PadsHeld' = [PadsHeld EXCEPT ![s][c] = level]
         /\ GainsHeld' = GainsHeld
<1> DEFINE old == reg[s][PadRegister(product[s])]
           byte == WithPad(old, c, level)
<1>1. old \in Byte
  BY RegisterTypes DEF TypeOK, Slots, Cards, Channel
<1> HIDE DEF old
<1>2. /\ byte \in Byte /\ Pad(byte, c) = level
      /\ \A d \in Channel \ {c} : Pad(byte, d) = Pad(old, d)
  BY <1>1, WithPadSetsOne
<1> HIDE DEF byte
<1>3. /\ PadsHeld' = [PadsHeld EXCEPT ![s] = [d \in Channel |-> Pad(byte, d)]]
      /\ GainsHeld' = GainsHeld
  BY <1>2, PadsWritten DEF byte, old
<1>4. PadsHeld[s] = [d \in Channel |-> Pad(old, d)]
  BY DEF PadsHeld, PadOf, old
<1>5. [d \in Channel |-> Pad(byte, d)] = [PadsHeld[s] EXCEPT ![c] = level]
  BY <1>2, <1>4
<1> QED
  BY <1>3, <1>5

\* Whatever the byte was, the pad that is set has its level and the other cards
\* keep theirs.
LEMMA PadWrittenBlindly ==
  ASSUME TypeOK, NEW s \in Slots({"AX4I", "AX4O"}), NEW c \in Channel,
         NEW level \in 0..3, NEW left \in Byte,
         UNCHANGED product,
         reg' = [reg EXCEPT ![s][PadRegister(product[s])] = WithPad(left, c, level)]
  PROVE  /\ PadsHeld' \in [Slots({"AX4I", "AX4O"}) -> [Channel -> 0..3]]
         /\ PadsHeld'[s][c] = level
         /\ \A t \in Slots({"AX4I", "AX4O"}) \ {s} : PadsHeld'[t] = PadsHeld[t]
         /\ GainsHeld' = GainsHeld
<1> DEFINE byte == WithPad(left, c, level)
<1>1. byte \in Byte /\ Pad(byte, c) = level
  BY WithPadSetsOne
<1> HIDE DEF byte
<1>2. /\ PadsHeld' = [PadsHeld EXCEPT ![s] = [d \in Channel |-> Pad(byte, d)]]
      /\ GainsHeld' = GainsHeld
  BY <1>1, PadsWritten DEF byte
<1>3. [d \in Channel |-> Pad(byte, d)] \in [Channel -> 0..3]
  BY <1>1, PadRange
<1>4. PadsHeld \in [Slots({"AX4I", "AX4O"}) -> [Channel -> 0..3]]
  BY HeldTypes
<1> QED
  BY <1>1, <1>2, <1>3, <1>4

LEMMA HeldUnchanged ==
  ASSUME UNCHANGED <<product, reg>>
  PROVE  UNCHANGED <<GainsHeld, PadsHeld>>
  BY DEF GainsHeld, PadsHeld, PadOf, Slots

LEMMA CellsInit == Init => Cells!Init
<1> SUFFICES ASSUME Init PROVE Cells!Init
  OBVIOUS
<1>1. GainsHeld = [s \in Slots(Cards) |-> [c \in Channel |-> -460]]
  <2>1. ASSUME NEW s \in Slots(Cards), NEW c \in Channel
        PROVE  Decode(product[s], reg[s][GainRegister(product[s], c)]) = -460
    <3>1. GainRegister(product[s], c) \in 8..15 /\ s \in CardSlots
      BY RegisterTypes DEF Slots
    <3>2. reg[s][GainRegister(product[s], c)] = 0
      BY <3>1 DEF Init, Registers
    <3> QED
      BY <3>2 DEF Decode, Mute
  <2> QED
    BY <2>1 DEF GainsHeld
<1>2. PadsHeld = [s \in Slots({"AX4I", "AX4O"}) |-> [c \in Channel |-> 1]]
  <2>1. ASSUME NEW s \in Slots({"AX4I", "AX4O"}), NEW c \in Channel
        PROVE  PadOf(reg, s, c) = 1
    <3>1. PadRegister(product[s]) \in 16..17 /\ s \in CardSlots
      BY DEF Slots, PadRegister
    <3>2. reg[s][PadRegister(product[s])] = 1 + 4 * 1 + 16 * 1 + 64 * 1
      BY <3>1 DEF Init, Registers
    <3>3. /\ Pad(reg[s][PadRegister(product[s])], 1) = 1
          /\ Pad(reg[s][PadRegister(product[s])], 2) = 1
          /\ Pad(reg[s][PadRegister(product[s])], 3) = 1
          /\ Pad(reg[s][PadRegister(product[s])], 4) = 1
      BY <3>2, PadOfDigits
    <3> QED
      BY <3>3 DEF PadOf, Channel
  <2> QED
    BY <2>1 DEF PadsHeld
<1> QED
  BY <1>1, <1>2, SameCards
     DEF Init, Cells!Init, Cells!Cards, Cells!Inputs, Cells!Channel, Cells!Unknown,
         Cards, CardSlots, Empty, Controls, Channel, Unknown

\* The calls, each as a step of the values or as none.
LEMMA CellsSetGain ==
  ASSUME TypeOK, NEW dir \in Directions, NEW channel \in Channels,
         NEW gain \in Gains, SetGain(dir, channel, gain), ~Fail
  PROVE  Cells!Next
<1>1. PICK s \in Slots(GainCards(dir)) :
        /\ channel \in Channel
        /\ gain \in Lowest(product[s])..Highest(product[s])
        /\ Write(s, GainRegister(product[s], channel),
                 Encode(product[s], gain), <<"gain", dir, channel>>, gain)
  BY DEF SetGain
<1> DEFINE new == [GainsHeld EXCEPT ![s][channel] = gain - (gain % 2)]
           written == [reg EXCEPT ![s][GainRegister(product[s], channel)]
                                    = Encode(product[s], gain)]
<1>2. /\ s \in Slots(Cards) /\ Cells!Direction(s) = dir
      /\ Cells!Range(s) = Lowest(product[s])..Highest(product[s])
  BY SameDirection
<1>3. /\ reply' = Unknown /\ filled' = TRUE
      /\ UNCHANGED <<product, watched>>
  BY <1>1 DEF Write, Return
<1>4. reg' = written => GainsHeld' = new /\ PadsHeld' = PadsHeld
  BY <1>1, <1>2, <1>3, GainWritten
<1>5. reg' = reg => GainsHeld' = GainsHeld /\ PadsHeld' = PadsHeld
  BY <1>3, HeldUnchanged
<1>6. \/ /\ reg' = written
         /\ asked' = IF <<"gain", dir, channel>> = watched THEN gain ELSE asked
      \/ /\ reg' \in {reg, written}
         /\ asked' = IF <<"gain", dir, channel>> = watched THEN Unknown ELSE asked
  <2>1. Spoilt = {}
    BY DEF SetGain, Spoilt
  <2> QED
    BY <1>1, <2>1 DEF Write
<1>7. Cells!SetGain(s, channel, gain)
  <2> HIDE DEF new, written
  <2> QED
    BY <1>1, <1>2, <1>3, <1>4, <1>5, <1>6, SameCards
       DEF Cells!SetGain, Cells!Learn, new
<1> QED
  BY <1>1, <1>2, <1>7, SameCards DEF Cells!Next

LEMMA CellsWritePad ==
  ASSUME TypeOK, BitsCurrent, WritePad, job.level \in Levels
  PROVE  Cells!Next
<1> DEFINE s == job.slot
           r == PadRegister(product[s])
           new == [PadsHeld EXCEPT ![s][job.channel] = job.level]
           byte == WithPad(bits, job.channel, job.level)
           written == [reg EXCEPT ![s][r] = byte]
           control == <<"pad", job.dir, job.channel>>
<1>1. /\ s \in CardSlots /\ job.dir \in {"IN", "OUT"}
      /\ job.channel \in Channel /\ job.level \in 0..3
      /\ s \in Slots(PadCards(job.dir)) /\ bits \in Byte
  BY PadJob DEF WritePad, Slots, TypeOK
<1>2. /\ s \in Slots({"AX4I", "AX4O"}) /\ Cells!Direction(s) = job.dir
  BY <1>1, SamePads, SameDirection
<1>3. Write(s, r, byte, control, job.level)
  BY DEF WritePad
<1>4. /\ reply' = Unknown /\ filled' = TRUE
      /\ UNCHANGED <<product, watched>>
  BY <1>3 DEF Write, Return
<1>5. reg' = reg => GainsHeld' = GainsHeld /\ PadsHeld' = PadsHeld
  BY <1>4, HeldUnchanged
<1>6. CASE filled
  <2>1. bits = reg[s][r]
    BY <1>6 DEF BitsCurrent, WritePad
  <2>2. reg' = written => PadsHeld' = new /\ GainsHeld' = GainsHeld
    BY <1>1, <1>2, <1>4, <2>1, PadWritten
  <2>3. Spoilt = {}
    BY <1>6 DEF Spoilt
  <2>4. \/ /\ reg' = written
           /\ asked' = IF control = watched THEN job.level ELSE asked
        \/ /\ reg' \in {reg, written}
           /\ asked' = IF control = watched THEN Unknown ELSE asked
    BY <1>3, <2>3 DEF Write
  <2>5. Cells!SetPad(s, job.channel, job.level)
    <3> HIDE DEF new, written, s
    <3> QED
      BY <1>2, <1>4, <1>5, <2>2, <2>4, SameCards
         DEF Cells!SetPad, Cells!Learn, new, control
  <2> QED
    BY <1>1, <1>2, <2>5, SameCards DEF Cells!Next
<1>7. CASE ~filled
  <2> DEFINE ofCard == {"pad"} \X {job.dir} \X Channel
             Held == [Slots({"AX4I", "AX4O"}) -> [Channel -> 0..3]]
  <2>1. reg' = written =>
          /\ PadsHeld' \in Held
          /\ PadsHeld'[s][job.channel] = job.level
          /\ \A t \in Slots({"AX4I", "AX4O"}) \ {s} : PadsHeld'[t] = PadsHeld[t]
          /\ GainsHeld' = GainsHeld
    <3> SUFFICES ASSUME reg' = written
                 PROVE  /\ PadsHeld' \in Held
                        /\ PadsHeld'[s][job.channel] = job.level
                        /\ \A t \in Slots({"AX4I", "AX4O"}) \ {s} :
                             PadsHeld'[t] = PadsHeld[t]
                        /\ GainsHeld' = GainsHeld
      OBVIOUS
    <3>1. reg' = [reg EXCEPT ![s][PadRegister(product[s])]
                               = WithPad(bits, job.channel, job.level)]
      OBVIOUS
    <3>2. UNCHANGED product
      BY <1>4
    <3> QED
      BY ONLY TypeOK, <1>1, <1>2, <3>1, <3>2, PadWrittenBlindly
  <2>2. Spoilt = ofCard /\ control \in ofCard
    BY <1>1, <1>7 DEF Spoilt, WritePad
  <2> HIDE DEF written, s, Held
  <2>3. \/ /\ reg' = written
           /\ asked' = IF watched = control THEN job.level
                       ELSE IF watched \in ofCard THEN Unknown ELSE asked
        \/ /\ reg' \in {reg, written}
           /\ asked' = IF watched \in ofCard THEN Unknown ELSE asked
    <3> HIDE DEF ofCard, control
    <3> QED
      BY <1>3, <2>2 DEF Write, written
  <2>4. PadsHeld \in Held
    BY HeldTypes DEF Held
  <2>5. /\ PadsHeld' \in Held /\ GainsHeld' = GainsHeld
        /\ \A t \in Slots({"AX4I", "AX4O"}) \ {s} : PadsHeld'[t] = PadsHeld[t]
    BY <1>5, <2>1, <2>3, <2>4
  <2>6. Cells!SetPadBlindly(s, job.channel, job.level)
    BY <1>2, <1>4, <1>5, <1>7, <2>1, <2>3, <2>5, SameCards
       DEF Cells!SetPadBlindly, Held
  <2> QED
    BY <1>1, <1>2, <2>6, SameCards DEF Cells!Next, s
<1> QED
  BY <1>6, <1>7

\* A read of the control that is watched, or of another, that brought it or not.
LEMMA CellsAnswer ==
  ASSUME NEW control, NEW out \in Int, NEW full \in BOOLEAN,
         Answer(control, out, full),
         full /\ control = watched => out \in Cells!Watched
  PROVE  Cells!Next
<1>1. /\ reply' = IF control = watched THEN out ELSE Unknown
      /\ filled' = full
      /\ UNCHANGED <<product, watched, reg, asked>>
  BY DEF Answer, Return
<1>2. UNCHANGED <<GainsHeld, PadsHeld>>
  BY <1>1, HeldUnchanged
<1>3. CASE full /\ control = watched
  BY <1>1, <1>2, <1>3 DEF Cells!Read, Cells!Next
<1>4. CASE full /\ control # watched
  BY <1>1, <1>2, <1>4, SameCards DEF Cells!Other, Cells!Next
<1>5. CASE ~full
  <2>1. reply' \in Int
    BY <1>1 DEF Unknown
  <2> QED
    BY <1>1, <1>2, <1>5, <2>1 DEF Cells!Unfilled, Cells!Next
<1> QED
  BY <1>3, <1>4, <1>5

LEMMA CellsFail ==
  ASSUME Return(Unknown), filled' = TRUE, UNCHANGED <<reg, asked>>
  PROVE  Cells!Next
<1>1. /\ reply' = Unknown /\ filled' = TRUE
      /\ UNCHANGED <<product, watched, asked>>
      /\ UNCHANGED <<GainsHeld, PadsHeld>>
  BY HeldUnchanged DEF Return
<1> QED
  BY <1>1, SameCards DEF Cells!Other, Cells!Next

LEMMA CellsSilent ==
  ASSUME NEW control, NEW out, Answer(control, out, TRUE), control # watched
  PROVE  Cells!Next
  BY CellsFail DEF Answer

LEMMA CellsGetGain ==
  ASSUME TypeOK, NEW dir \in Directions, NEW channel \in Channels,
         GetGain(dir, channel), ~Fail
  PROVE  Cells!Next
<1>1. PICK s \in Slots(GainCards(dir)) :
        /\ channel \in Channel
        /\ \E read \in Brought(reg[s][GainRegister(product[s], channel)]) :
             Answer(<<"gain", dir, channel>>,
                    Decode(product[s], read.byte), read.full)
  BY DEF GetGain
<1>2. s \in Slots(Cards) /\ Cells!Direction(s) = dir
  BY SameDirection
<1> DEFINE code == reg[s][GainRegister(product[s], channel)]
<1>3. code \in Byte /\ Decode(product[s], code) = GainsHeld[s][channel]
  BY <1>1, <1>2, RegisterTypes DEF GainsHeld, TypeOK, Slots
<1>4. PICK read \in Brought(code) :
        Answer(<<"gain", dir, channel>>, Decode(product[s], read.byte), read.full)
  BY <1>1
<1> HIDE DEF code
<1>5. /\ read.byte \in Byte /\ read.full \in BOOLEAN
      /\ read.full => read.byte = code
  BY <1>3, BroughtTypes
<1> DEFINE out == Decode(product[s], read.byte)
<1>6. out \in Int
  BY <1>5 DEF Decode, Bias, Byte
<1>7. ASSUME read.full, <<"gain", dir, channel>> = watched
      PROVE  out \in Cells!Watched
  <2>1. watched[1] = "gain" /\ watched[2] = dir /\ watched[3] = channel
    BY <1>7
  <2>2. out = GainsHeld[s][channel]
    BY <1>3, <1>5, <1>7
  <2> HIDE DEF out
  <2> QED
    BY <1>2, <2>1, <2>2, SameCards DEF Cells!Watched
<1> HIDE DEF out
<1> QED
  BY <1>4, <1>5, <1>6, <1>7, CellsAnswer DEF out

LEMMA CellsGetPad ==
  ASSUME TypeOK, NEW dir \in Directions, NEW channel \in Channels,
         GetPad(dir, channel), ~Fail
  PROVE  Cells!Next
<1>1. PICK s \in Slots(PadCards(dir)) :
        /\ channel \in Channel
        /\ \E read \in Brought(reg[s][PadRegister(product[s])]) :
             Answer(<<"pad", dir, channel>>, Pad(read.byte, channel), read.full)
  BY DEF GetPad
<1>2. s \in Slots({"AX4I", "AX4O"}) /\ Cells!Direction(s) = dir
  BY SamePads, SameDirection
<1> DEFINE byte == reg[s][PadRegister(product[s])]
<1>3. byte \in Byte /\ Pad(byte, channel) = PadsHeld[s][channel]
  <2>1. s \in CardSlots /\ PadRegister(product[s]) \in Registers
    BY <1>2 DEF Slots, PadRegister, Registers
  <2> QED
    BY <1>1, <1>2, <2>1 DEF PadsHeld, PadOf, TypeOK
<1>4. PICK read \in Brought(byte) :
        Answer(<<"pad", dir, channel>>, Pad(read.byte, channel), read.full)
  BY <1>1
<1> HIDE DEF byte
<1>5. /\ read.byte \in Byte /\ read.full \in BOOLEAN
      /\ read.full => read.byte = byte
  BY <1>3, BroughtTypes
<1> DEFINE out == Pad(read.byte, channel)
<1>6. out \in Int
  BY <1>1, <1>5, PadRange
<1>7. ASSUME read.full, <<"pad", dir, channel>> = watched
      PROVE  out \in Cells!Watched
  <2>1. watched[1] = "pad" /\ watched[2] = dir /\ watched[3] = channel
    BY <1>7
  <2>2. out = PadsHeld[s][channel]
    BY <1>3, <1>5, <1>7
  <2> HIDE DEF out
  <2> QED
    BY <1>2, <2>1, <2>2, SameCards DEF Cells!Watched
<1> HIDE DEF out
<1> QED
  BY <1>4, <1>5, <1>6, <1>7, CellsAnswer DEF out

\* What sets and reads no control, and the first step of setting a pad.
LEMMA CellsOthers ==
  ASSUME TypeOK,
         \/ Fail
         \/ \E dir \in Directions, channel \in Channels :
              \/ GetVuMeter(dir, channel)
              \/ \E level \in Levels : SetPad(dir, channel, level)
         \/ GetVersion \/ GetExtension
         \/ \E rate \in Rates : SetSamplingRate(rate)
         \/ UNCHANGED vars
  PROVE  [Cells!Next]_(Cells!vars)
<1>1. CASE Fail
  BY <1>1, CellsFail DEF Fail
<1>2. ASSUME NEW dir, NEW channel, Answer(<<"vu", dir, channel>>, 0, TRUE)
      PROVE  Cells!Next
  <2>1. <<"vu", dir, channel>> # watched
    BY WatchedParts
  <2> QED
    BY <1>2, <2>1, CellsSilent
<1>3. CASE Answer(<<"version", "INVALID", 0>>, 0, TRUE)
  <2>1. <<"version", "INVALID", 0>> # watched
    BY WatchedParts
  <2> QED
    BY <1>3, <2>1, CellsSilent
<1>4. ASSUME NEW rate \in Rates, SetSamplingRate(rate) PROVE Cells!Next
  BY <1>4, CellsFail DEF SetSamplingRate
<1>5. ASSUME UNCHANGED <<product, reg, filled, watched, asked, reply>>
      PROVE  UNCHANGED Cells!vars
  BY <1>5, HeldUnchanged DEF Cells!vars
<1>6. ASSUME NEW dir \in Directions, NEW channel \in Channels,
             NEW level \in Levels, SetPad(dir, channel, level), ~Fail
      PROVE  Cells!Next
  <2>1. /\ reply' = Unknown
        /\ UNCHANGED <<product, reg, watched, asked>>
    BY <1>6 DEF SetPad
  <2>2. filled' \in BOOLEAN
    <3>1. PICK s \in Slots(PadCards(dir)) :
            \E read \in Brought(reg[s][PadRegister(product[s])]) :
              filled' = read.full
      BY <1>6 DEF SetPad
    <3>2. reg[s][PadRegister(product[s])] \in Byte
      BY RegisterTypes DEF TypeOK, Slots, PadCards, GainCards, PadRegister,
                           Registers
    <3> QED
      BY <3>1, <3>2, BroughtTypes
  <2>3. UNCHANGED <<GainsHeld, PadsHeld>>
    BY <2>1, HeldUnchanged
  <2>4. CASE filled' = TRUE
    BY <2>1, <2>3, <2>4, SameCards DEF Cells!Other, Cells!Next
  <2>5. CASE filled' = FALSE
    BY <2>1, <2>3, <2>5 DEF Cells!Unfilled, Cells!Next, Unknown
  <2> QED
    BY <2>2, <2>4, <2>5
<1>7. CASE GetVersion /\ ~Fail
  BY <1>5, <1>7 DEF GetVersion
<1>8. CASE UNCHANGED vars
  BY <1>5, <1>8 DEF vars
<1> QED
  BY <1>1, <1>2, <1>3, <1>4, <1>6, <1>7, <1>8 DEF GetVuMeter, GetExtension

\* The level that is written is one that was asked for.
LevelAsked == pc = "pad" => job.level \in Levels

LEMMA LevelKept == LevelAsked /\ [Next]_vars => LevelAsked'
<1> SUFFICES ASSUME LevelAsked, [Next]_vars PROVE LevelAsked'
  OBVIOUS
<1>1. ASSUME NEW dir \in Directions, NEW channel \in Channels,
             NEW level \in Levels, SetPad(dir, channel, level)
      PROVE  LevelAsked'
  BY <1>1 DEF SetPad, Fail, Return, LevelAsked
<1>2. CASE \E dir \in Directions, channel \in Channels :
             \/ \E gain \in Gains : SetGain(dir, channel, gain)
             \/ GetGain(dir, channel)
             \/ GetPad(dir, channel)
             \/ GetVuMeter(dir, channel)
  BY <1>2 DEF SetGain, GetGain, GetPad, GetVuMeter, Answer, Write, Fail, Return,
              LevelAsked
<1>3. CASE WritePad \/ GetVersion \/ GetExtension
             \/ \E rate \in Rates : SetSamplingRate(rate)
  BY <1>3 DEF WritePad, GetVersion, GetExtension, SetSamplingRate, Answer, Write,
              Fail, Return, LevelAsked
<1>4. CASE UNCHANGED vars
  BY <1>4 DEF vars, LevelAsked
<1> QED
  BY <1>1, <1>2, <1>3, <1>4 DEF Next

\* The controls of any rack act as gains and pads that are set and read in one
\* step (rackAuvitran.c:506-1062): every step of the calls is a step of those
\* values, or none, whichever mailbox call fails with an error code and whichever
\* read returns 0 without its byte (avxSpi.c:586-601); after the latter a pad that
\* is set takes the others of its card along, and nothing else.
THEOREM Refinement == Spec => ControlsAreCells
<1>1. Init => LevelAsked
  BY DEF Init, LevelAsked
<1>2. IInv /\ LevelAsked /\ [Next]_vars => [Cells!Next]_(Cells!vars)
  <2> SUFFICES ASSUME IInv, LevelAsked, [Next]_vars
               PROVE  [Cells!Next]_(Cells!vars)
    OBVIOUS
  <2>1. TypeOK /\ BitsCurrent
    BY DEF IInv
  <2>2. WritePad => Cells!Next
    BY <2>1, CellsWritePad DEF LevelAsked, WritePad
  <2> QED
    BY <2>1, <2>2, CellsSetGain, CellsGetGain, CellsGetPad, CellsOthers DEF Next
<1> QED
  BY Inductive, CellsInit, LevelKept, <1>1, <1>2, PTL
     DEF Spec, ControlsAreCells, Cells!Spec

=============================================================================
