----------------------------- MODULE UartParser -----------------------------
(***************************************************************************)
(* elite_uart_dsp_runner (src/uart/elite-uart-runner.c): frames of the     *)
(* ELITE UART protocol are recognised character by character.  An ASCII    *)
(* frame is DST<SRC::payload and a line feed; a RAW frame DST<SRC:n: and n *)
(* bytes, which a sender may also end with a line feed.                    *)
(*                                                                         *)
(* The senders are well-formed: names of EcuLen letters, sizes that match, *)
(* payloads that fit the buffer.  Operators marked "Faulty" are variants   *)
(* of the definition after them, used to show that the properties can fail.*)
(***************************************************************************)
EXTENDS Integers, Sequences

CONSTANTS
  EcuLen,      \* ELITE_UART_ECU_STRING_SZ
  MaxPayload,  \* ELITE_UART_FRAME_PAYLOAD_STR_SZ_BYTES
  Ecus,        \* first letters of the names
  Ascii,       \* payloads of ASCII frames
  Raw,         \* payloads of RAW frames
  MaxFailures  \* reads that fail while one frame is read

SofLen == 2 * EcuLen + 1    \* ELITE_UART_FRAME_SOF_STR_SZ_BYTES: DST<SRC

\* The characters that are told apart.  "x" stands for the others that isalnum
\* or ispunct accepts, "NUL" for the others that neither does.
Numerals == <<"0", "1", "2", "3", "4", "5", "6", "7", "8", "9">>
Digits   == {Numerals[n] : n \in 1..10}
Value(d) == CHOOSE n \in 0..9 : Numerals[n + 1] = d
Initials == {"D", "T", "B", "C"}
Controls == {"LF", "CR", "NUL"}
Chars    == Digits \cup Initials \cup Controls \cup {"x", "<", ":"}

Frames == [dst : Ecus, src : Ecus, kind : {"ASCII"}, payload : Ascii]
            \cup [dst : Ecus, src : Ecus, kind : {"RAW"}, payload : Raw]

\* No payload has a separator in it, nor a character that ends the frame.
ASSUME EcuAssumption     == EcuLen \in Nat \ {0} /\ Ecus \subseteq Initials
ASSUME PayloadAssumption ==
  /\ Ascii \subseteq Seq(Chars \ (Controls \cup {":"}))
  /\ Raw \subseteq Seq(Chars \ {"LF", "CR", ":"})
  /\ \A p \in Raw : 0 < Len(p) /\ Len(p) < 1000

-------------------------------------------------------------------------------
(* The sender: not part of src/, from the examples of README.md.           *)

Name(ecu) == [i \in 1..EcuLen |-> IF i = 1 THEN ecu ELSE "x"]

\* Digit j of a number of k digits.
DigitOf(n, k, j) ==
  CASE k - j = 0 -> n % 10
    [] k - j = 1 -> (n \div 10) % 10
    [] OTHER     -> n \div 100

\* The number of bytes, in decimal, of a RAW frame.
SizeLen(f) == IF f.kind = "ASCII" THEN 0
              ELSE IF Len(f.payload) < 10 THEN 1
              ELSE IF Len(f.payload) < 100 THEN 2 ELSE 3

Size(f) ==
  [j \in 1..SizeLen(f) |-> Numerals[DigitOf(Len(f.payload), SizeLen(f), j) + 1]]

Header(f) ==
  Name(f.dst) \o <<"<">> \o Name(f.src) \o <<":">> \o Size(f) \o <<":">>

\* Whether a RAW frame, which says how long it is, also ends with a line feed is
\* up to the sender.
Ends(f) == IF f.kind = "RAW" THEN {<<>>, <<"LF">>} ELSE {<<"LF">>}

Encoding(f, end) == Header(f) \o f.payload \o end

\* A frame, and the reads that fail on the way, fit the budget of characters.
ASSUME BoundsAssumption ==
  /\ MaxPayload \in Nat
  /\ MaxFailures \in Nat
  /\ \A f \in Frames : Len(Header(f)) + Len(f.payload) + MaxFailures <= MaxPayload

-------------------------------------------------------------------------------
VARIABLES
  sent,      \* the frame that was sent last, if any, as a sequence
  line,      \* what its sender has written
  at,        \* how many characters of it have been read
  failed,    \* how many reads have failed since the parser began a frame
  lost,      \* how many did in the RAW payload of the frame sent
  astray,    \* whether they left what may spoil the frames after it, see FailRead
  c,         \* the last character read, "none" at the start of a frame
  max,       \* max_size, the characters that may still be read
  field,     \* pctl_field: 0 SOF, 1 RAW_SZ, 2 PAYLOAD, then none
  sof, dst, src, rawSz, payload,   \* the frame being read
  got        \* the frames decoded since the last one was sent, in order

frame  == <<sof, dst, src, rawSz, payload>>
parser == <<failed, c, max, field, frame>>
vars   == <<sent, line, at, lost, astray, parser, got>>

Init ==
  /\ sent = <<>> /\ line = <<>> /\ at = 0
  /\ failed = 0 /\ lost = 0 /\ astray = FALSE
  /\ c = "none" /\ field = 0 /\ max = MaxPayload
  /\ sof = <<>> /\ dst = "none" /\ src = "none"
  /\ rawSz = 0 /\ payload = <<>>
  /\ got = <<>>

\* elite_uart_ecu_string_to_id, by the first letter.
Id(name) == IF name # <<>> /\ name[1] \in Initials THEN name[1] ELSE "invalid"

\* Faulty: only the end of a line ends a frame.
MoreToLineEnd == c \notin {"LF", "CR"}

\* The condition of the loop over the characters of a frame.
More == c \notin {"LF", "CR"} /\ max > 0

\* sof and the zero after it fit.  Where they do not, the store behind them (131,
\* 177) is undefined: the parser stops here, its later states are not modelled.
Defined == Len(sof) <= SofLen

-------------------------------------------------------------------------------
(* A frame is sent.  The parser waits in read, and cannot tell when the    *)
(* characters came: sending the next frame earlier would change nothing.   *)

Send(f, end) ==
  /\ Defined
  /\ More /\ at = Len(line)
  /\ sent' = <<f>> /\ line' = Encoding(f, end) /\ at' = 0
  /\ lost' = 0 /\ got' = <<>>
  /\ UNCHANGED <<astray, parser>>

-------------------------------------------------------------------------------
(* One character.                                                          *)

ReadSof(ch) ==
  /\ dst' = IF ch = "<" THEN Id(sof) ELSE dst
  /\ sof' = Append(sof, ch)
  /\ src' = IF Len(sof') = SofLen THEN Id(SubSeq(sof', EcuLen + 2, SofLen)) ELSE src
  /\ UNCHANGED <<rawSz, payload>>

ReadSize(ch) ==
  /\ rawSz' = IF ch \in Digits THEN rawSz * 10 + Value(ch) ELSE rawSz
  /\ UNCHANGED <<sof, dst, src, payload>>

ReadPayload(ch) ==
  /\ payload' = Append(payload, ch)
  /\ UNCHANGED <<sof, dst, src, rawSz>>

\* Characters beyond the payload field, and separators, are dropped; so are
\* control characters unless the frame is known to be RAW.
Dropped(ch) ==
  \/ ch = ":"
  \/ ch \in Controls /\ rawSz = 0
  \/ field > 2

Decode(ch) ==
  \/ Dropped(ch) /\ UNCHANGED frame
  \/ ~Dropped(ch) /\ field = 0 /\ ReadSof(ch)
  \/ ~Dropped(ch) /\ field = 1 /\ ReadSize(ch)
  \/ ~Dropped(ch) /\ field = 2 /\ ReadPayload(ch)

FirstOfRaw(ch) == ~Dropped(ch) /\ field = 2 /\ rawSz > 0 /\ payload = <<>>

\* Faulty: the first byte of a RAW payload is not counted.
MaxAfterLate(ch) == IF FirstOfRaw(ch) THEN rawSz ELSE max - 1

\* Faulty: the first byte of a RAW payload is counted twice.
MaxAfterEarly(ch) == IF FirstOfRaw(ch) /\ rawSz > 1 THEN rawSz - 2 ELSE max - 1

\* The first byte of a RAW payload fixes how many are still to come.
MaxAfter(ch) == IF FirstOfRaw(ch) THEN rawSz - 1 ELSE max - 1

ReadChar ==
  /\ Defined /\ More
  /\ at < Len(line)
  /\ LET ch == line[at + 1]
     IN  /\ c' = ch
         /\ max' = MaxAfter(ch)
         /\ field' = IF ch = ":" THEN field + 1 ELSE field
         /\ Decode(ch)
  /\ at' = at + 1
  /\ UNCHANGED <<sent, line, failed, lost, astray, got>>

InRawPayload == rawSz > 0 /\ payload # <<>>

\* A failed read counts for a character and leaves the last one in place.  What
\* it leaves of a RAW payload is taken for a frame of its own if a line feed ends
\* it, and otherwise for the start of the next: then, or when it is longer than a
\* header, it may run beyond the end of sof.
FailRead ==
  /\ Defined /\ More
  /\ failed < MaxFailures
  /\ failed' = failed + 1
  /\ max' = max - 1
  /\ lost' = IF InRawPayload THEN lost + 1 ELSE lost
  /\ astray' = IF InRawPayload /\ (line[Len(line)] # "LF" \/ lost >= SofLen)
                THEN TRUE ELSE astray
  /\ UNCHANGED <<sent, line, at, c, field, frame, got>>

-------------------------------------------------------------------------------
(* The end of a frame.                                                     *)

\* rawSz bytes are logged, those that were not read as the zeros of `frame`.
Logged ==
  IF rawSz > 0
    THEN [i \in 1..rawSz |-> IF i <= Len(payload) THEN payload[i] ELSE "NUL"]
    ELSE payload

Restart ==
  /\ failed' = 0
  /\ c' = "none" /\ field' = 0 /\ max' = MaxPayload
  /\ sof' = <<>> /\ dst' = "none" /\ src' = "none"
  /\ rawSz' = 0 /\ payload' = <<>>

\* What carries neither addresses nor payload, as an empty line, is no frame.
EndFrame ==
  /\ Defined /\ ~More
  /\ got' = IF Len(sof) + Len(payload) = 0 THEN got
            ELSE Append(got, [dst |-> dst, src |-> src,
                          kind |-> IF rawSz > 0 THEN "RAW" ELSE "ASCII",
                          payload |-> Logged])
  /\ Restart
  /\ UNCHANGED <<sent, line, at, lost, astray>>

Next ==
  \/ \E f \in Frames : \E end \in Ends(f) : Send(f, end)
  \/ ReadChar
  \/ FailRead
  \/ EndFrame

Spec == Init /\ [][Next]_vars

-------------------------------------------------------------------------------
(* Properties.                                                             *)

Addresses == Initials \cup {"none", "invalid"}

\* The values a variable takes; max_size does not pass 0 (105), nor, unless the
\* parser went astray, what the payload holds.
TypeOK ==
  /\ sent = <<>> \/ \E f \in Frames : sent = <<f>>
  /\ line \in Seq(Chars)
  /\ at \in 0..Len(line)
  /\ failed \in 0..MaxFailures
  /\ c \in Chars \cup {"none"}
  /\ lost \in Nat /\ max \in Nat /\ field \in Nat
  /\ astray \in BOOLEAN
  /\ ~astray => lost <= MaxFailures /\ max <= MaxPayload /\ field <= 2
  /\ sof \in Seq(Chars)
  /\ dst \in Addresses /\ src \in Addresses
  /\ rawSz \in Nat
  /\ payload \in Seq(Chars)
  /\ got \in Seq([dst : Addresses, src : Addresses,
                  kind : {"ASCII", "RAW"},
                  payload : Seq(Chars)])

\* What is stored, and the zero after it, fits sof and payload (131, 155, 176,
\* 177), neither of which is checked: for frames of every kind and length, reads
\* that fail in a header, in a text or before a frame, and up to SofLen that fail
\* in a RAW payload that a line feed ends, the rest of which is taken for a
\* header.  Not otherwise: the rest of a RAW payload without a line feed runs
\* into the next header, for both of which sof is too short.
BuffersSuffice == ~astray => Len(sof) <= SofLen /\ Len(payload) <= MaxPayload

\* Of each frame that is sent, that frame and nothing else is decoded, with its
\* addresses, kind and payload, before the parser waits for the next (105-207):
\* it keeps its place from one frame to the next, although the line feed after a
\* RAW frame comes when that frame is over.  Reads that fail do no harm, except in
\* the payload of a RAW frame, whose budget has no slack; if a line feed ends it,
\* and what is left of it is no longer than a header, the frames after that one
\* are intact again.
FramesIntact ==
  ~astray /\ lost = 0 =>
    /\ got \in {<<>>, sent}
    /\ at = Len(line) /\ More => got = sent
=============================================================================
