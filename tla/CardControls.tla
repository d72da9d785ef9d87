---------------------------- MODULE CardControls ----------------------------
(***************************************************************************)
(* What the controls of the cards promise to their callers (the comments   *)
(* of src/auvitran/rackAuvitran.c 500-930): each gain and each pad is a    *)
(* value of its own, set and read in one step, whatever registers, codes   *)
(* and mailbox calls that takes.  The one exception is a read that brings  *)
(* nothing and returns 0: a pad that is set from it takes the other pads   *)
(* of its card along.  RackControls implements this.                       *)
(***************************************************************************)
EXTENDS Integers

CONSTANTS
  LastSlot,   \* the last slot for cards
  Channels,   \* the channels callers ask for
  Gains,      \* the gains they ask for, in quarters of a dB
  Levels      \* the pad levels they ask for

Channel == 1..4
Inputs  == {"AX4I", "AX4M"}
Cards   == Inputs \cup {"AX4O"}
Padded  == {"AX4I", "AX4O"}
Unknown == 999

VARIABLES
  card,     \* the card in each slot, or "none"
  gain,     \* its gains, by channel
  pad,      \* its pads
  filled,   \* the last control that was read is what the card sent
  watched,  \* the control a caller keeps an eye on
  asked,    \* what it was last set to by a call that returned 0, if known
  reply     \* what the last call read back from it, if it did

vars == <<card, gain, pad, filled, watched, asked, reply>>

With(kinds) == {s \in 1..LastSlot : card[s] \in kinds}

Direction(s) == IF card[s] \in Inputs THEN "IN" ELSE "OUT"

Range(s) == IF card[s] = "AX4M" THEN -96..220 ELSE -460..48

Init ==
  /\ card \in [1..LastSlot -> Cards \cup {"none"}]
  /\ gain = [s \in With(Cards) |-> [c \in Channel |-> -460]]
  /\ pad = [s \in With(Padded) |-> [c \in Channel |-> 1]]
  /\ filled = TRUE
  /\ watched \in {"gain", "pad"} \X {"IN", "OUT"} \X (Channel \cap Channels)
  /\ asked = Unknown
  /\ reply = Unknown

\* What a caller knows of a control after a call on it.
Learn(control, value) ==
  /\ asked' = IF control = watched THEN value ELSE asked
  /\ reply' = Unknown
  /\ filled' = TRUE

\* The gain is kept to half a dB.  A call that fails may have set it or not.
SetGain(s, c, g) ==
  LET new     == [gain EXCEPT ![s][c] = g - (g % 2)]
      control == <<"gain", Direction(s), c>>
  IN  /\ g \in Range(s)
      /\ \/ gain' = new /\ Learn(control, g)
         \/ gain' \in {gain, new} /\ Learn(control, Unknown)
      /\ UNCHANGED <<card, pad, watched>>

SetPad(s, c, level) ==
  LET new     == [pad EXCEPT ![s][c] = level]
      control == <<"pad", Direction(s), c>>
  IN  /\ \/ pad' = new /\ Learn(control, level)
         \/ pad' \in {pad, new} /\ Learn(control, Unknown)
      /\ UNCHANGED <<card, gain, watched>>

\* A pad is set just after a read that brought nothing: it has its level, but
\* nothing is known of the other pads of the card any more.
SetPadBlindly(s, c, level) ==
  LET ofCard == {"pad"} \X {Direction(s)} \X Channel
  IN  /\ ~filled
      /\ pad' \in [With(Padded) -> [Channel -> 0..3]]
      /\ \A t \in With(Padded) \ {s} : pad'[t] = pad[t]
      /\ \/ /\ pad'[s][c] = level
            /\ asked' = IF watched = <<"pad", Direction(s), c>> THEN level
                        ELSE IF watched \in ofCard THEN Unknown ELSE asked
         \/ /\ pad'[s][c] = level \/ pad' = pad
            /\ asked' = IF watched \in ofCard THEN Unknown ELSE asked
      /\ reply' = Unknown
      /\ filled' = TRUE
      /\ UNCHANGED <<card, gain, watched>>

\* The control that is watched is read, on any card that has it.
Watched ==
  {gain[s][watched[3]] : s \in {s \in With(Cards) :
                                  watched[1] = "gain" /\ watched[2] = Direction(s)}}
  \cup
  {pad[s][watched[3]] : s \in {s \in With(Padded) :
                                  watched[1] = "pad" /\ watched[2] = Direction(s)}}

Read ==
  /\ reply' \in Watched
  /\ filled' = TRUE
  /\ UNCHANGED <<card, gain, pad, watched, asked>>

\* A read that brings nothing and does not say so.
Unfilled ==
  /\ reply' \in Int
  /\ filled' = FALSE
  /\ UNCHANGED <<card, gain, pad, watched, asked>>

\* Calls that fail before they write, and those on anything else.
Other ==
  /\ reply' = Unknown
  /\ filled' = TRUE
  /\ UNCHANGED <<card, gain, pad, watched, asked>>

Next ==
  \/ Other
  \/ Read
  \/ Unfilled
  \/ \E s \in With(Padded), c \in Channel, level \in Levels :
       SetPad(s, c, level) \/ SetPadBlindly(s, c, level)
  \/ \E s \in With(Cards), c \in Channel, g \in Gains : SetGain(s, c, g)

Spec == Init /\ [][Next]_vars
=============================================================================
