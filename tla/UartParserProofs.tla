-------------------------- MODULE UartParserProofs --------------------------
(***************************************************************************)
(* The properties of UartParser for names and buffers of any length, any   *)
(* payloads and any number of frames, by an inductive invariant that says  *)
(* what the parser holds at each place of the line it reads, unless reads  *)
(* that failed in a RAW payload have led it astray.                        *)
(***************************************************************************)
EXTENDS UartParser, SequenceTheorems, TLAPS

\* The places of a frame: the end of its header and that of its payload.
HeaderLen(f) == SofLen + 2 + SizeLen(f)
FrameLen(f)  == HeaderLen(f) + Len(f.payload)

\* The number that the first j of the k digits of n make.
FirstDigits(n, k, j) ==
  IF k - j = 0 THEN n
  ELSE IF k - j = 1 THEN n \div 10
  ELSE IF k - j = 2 THEN n \div 100 ELSE 0

Least(a, b) == IF a < b THEN a ELSE b

\* The line is the frame that was sent last.
Written ==
  IF sent = <<>> THEN line = <<>> 
  ELSE \E end \in Ends(sent[1]) : line = Encoding(sent[1], end)

\* Nothing of a frame has been read.
Fresh ==
  /\ field = 0 /\ sof = <<>> /\ dst = "none" /\ src = "none"
  /\ rawSz = 0 /\ payload = <<>>

\* Between two frames: what was sent is decoded, but for a line feed.
Between ==
  /\ Fresh
  /\ sent # <<>> => at >= FrameLen(sent[1])
  /\ lost = 0 => got = sent
  /\ c \in {"none", "LF"}
  /\ IF c = "LF" THEN at = Len(line) ELSE max = MaxPayload - failed

\* Addresses and header as far as they have been read.
HeaderSoFar(f) ==
  /\ Len(sof) = Least(at, SofLen)
  /\ \A i \in 1..Len(sof) : sof[i] = line[i]
  /\ dst = IF at > EcuLen THEN f.dst ELSE "none"
  /\ src = IF at >= SofLen THEN f.src ELSE "none"
  /\ field = IF at <= SofLen THEN 0 ELSE IF at < HeaderLen(f) THEN 1 ELSE 2
  /\ rawSz = IF at <= SofLen + 1 \/ f.kind = "ASCII" THEN 0
             ELSE IF at < HeaderLen(f)
                  THEN FirstDigits(Len(f.payload), SizeLen(f), at - SofLen - 1)
                  ELSE Len(f.payload)

PayloadSoFar(f) ==
  /\ Len(payload) = IF at <= HeaderLen(f) THEN 0
                    ELSE Least(at - HeaderLen(f), Len(f.payload))
  /\ \A i \in 1..Len(payload) : payload[i] = f.payload[i]

\* What may still be read: of a RAW payload exactly the rest, less the reads that
\* have failed in it.
BudgetSoFar(f) ==
  IF f.kind = "RAW" /\ at > HeaderLen(f)
    THEN /\ max = FrameLen(f) - at - lost
         /\ lost <= failed
         /\ lost > 0 => Len(line) = FrameLen(f) + 1 /\ lost <= SofLen
    ELSE max = MaxPayload - failed - at /\ lost = 0

\* The frame that was sent is being read.
InFrame ==
  /\ sent # <<>> /\ got = <<>>
  /\ c = IF at = 0 THEN "none" ELSE line[at]
  /\ HeaderSoFar(sent[1])
  /\ PayloadSoFar(sent[1])
  /\ BudgetSoFar(sent[1])

\* What failed reads have left of a RAW payload is taken for a header.
Leftover ==
  /\ sent # <<>>
  /\ sent[1].kind = "RAW" /\ Len(line) = FrameLen(sent[1]) + 1
  /\ field = 0 /\ rawSz = 0 /\ payload = <<>>
  /\ at > HeaderLen(sent[1])
  /\ lost > 0 /\ lost <= SofLen
  /\ Len(sof) + FrameLen(sent[1]) - Least(at, FrameLen(sent[1])) <= lost
  /\ c # "CR"
  /\ c = "LF" <=> at = Len(line)

\* The types of all variables, and what bounds them in step.
Record == [dst : Addresses, src : Addresses, kind : {"ASCII", "RAW"}, payload : Seq(Chars)]

Typed ==
  /\ sent = <<>> \/ \E f \in Frames : sent = <<f>>
  /\ line \in Seq(Chars)
  /\ at \in 0..Len(line)
  /\ failed \in 0..MaxFailures
  /\ c \in Chars \cup {"none"}
  /\ lost \in Nat /\ max \in Nat /\ field \in Nat
  /\ sof \in Seq(Chars)
  /\ dst \in Addresses /\ src \in Addresses
  /\ rawSz \in Nat
  /\ payload \in Seq(Chars)
  /\ got \in Seq(Record)

InRange == Typed /\ lost \in 0..MaxFailures /\ max \in 0..MaxPayload /\ field \in 0..2

\* The parser is in step with the line, or in the rest of one frame.
InStep == InRange /\ Written /\ (Between \/ InFrame \/ Leftover)

IInv == Typed /\ astray \in BOOLEAN /\ (~astray => InStep)

-------------------------------------------------------------------------------
(* The line: which character stands where.                                 *)

LEMMA Concat ==
  ASSUME NEW s \in Seq(Chars), NEW t \in Seq(Chars)
  PROVE  /\ s \o t \in Seq(Chars)
         /\ Len(s \o t) = Len(s) + Len(t)
         /\ \A i \in 1..Len(s) : (s \o t)[i] = s[i]
         /\ \A i \in 1..Len(t) : (s \o t)[Len(s) + i] = t[i]
  BY ConcatProperties, LenProperties

LEMMA Mark ==
  ASSUME NEW ch \in Chars
  PROVE  <<ch>> \in Seq(Chars) /\ Len(<<ch>>) = 1 /\ <<ch>>[1] = ch
  OBVIOUS

LEMMA Bounds == EcuLen \in Nat \ {0} /\ SofLen \in Nat /\ SofLen = 2 * EcuLen + 1
  BY EcuAssumption DEF SofLen

LEMMA Names ==
  ASSUME NEW ecu \in Ecus
  PROVE  /\ Name(ecu) \in Seq(Chars) /\ Len(Name(ecu)) = EcuLen
         /\ Name(ecu)[1] = ecu /\ ecu \in Initials
         /\ \A i \in 1..EcuLen : Name(ecu)[i] \in Initials \cup {"x"}
  <1>1. ecu \in Initials /\ EcuLen \in Nat \ {0}
    BY EcuAssumption
  <1>2. \A i \in 1..EcuLen : (IF i = 1 THEN ecu ELSE "x") \in Chars
    BY <1>1 DEF Chars
  <1> QED BY <1>1, <1>2 DEF Name

LEMMA Payloads ==
  ASSUME NEW f \in Frames
  PROVE  /\ f.dst \in Ecus /\ f.src \in Ecus /\ f.kind \in {"ASCII", "RAW"}
         /\ f.payload \in Seq(Chars) /\ Len(f.payload) \in Nat
         /\ f.kind = "RAW" => 0 < Len(f.payload) /\ Len(f.payload) < 1000
         /\ \A i \in 1..Len(f.payload) :
              /\ f.payload[i] \in Chars \ {"LF", "CR", ":"}
              /\ f.payload[i] \in Controls => f.kind = "RAW"
  <1>1. CASE f.kind = "ASCII"
    <2>1. f.payload \in Seq(Chars \ (Controls \cup {":"}))
      BY <1>1, PayloadAssumption DEF Frames
    <2>2. \A i \in 1..Len(f.payload) : f.payload[i] \in Chars \ (Controls \cup {":"})
      BY <2>1, ElementOfSeq
    <2>3. f.payload \in Seq(Chars) /\ Len(f.payload) \in Nat
      BY <2>1, SeqMonotonic, LenProperties
    <2> QED BY <1>1, <2>2, <2>3 DEF Frames, Controls
  <1>2. CASE f.kind = "RAW"
    <2>1. f.payload \in Seq(Chars \ {"LF", "CR", ":"}) /\ 0 < Len(f.payload) /\ Len(f.payload) < 1000
      BY <1>2, PayloadAssumption DEF Frames
    <2>2. \A i \in 1..Len(f.payload) : f.payload[i] \in Chars \ {"LF", "CR", ":"}
      BY <2>1, ElementOfSeq
    <2>3. f.payload \in Seq(Chars)
      BY <2>1, SeqMonotonic
    <2>4. f.kind \in {"ASCII", "RAW"} /\ f.dst \in Ecus /\ f.src \in Ecus
      BY DEF Frames
    <2>5. Len(f.payload) \in Nat
      BY <2>1
    <2> QED BY <1>2, <2>1, <2>2, <2>3, <2>4, <2>5
  <1> QED BY <1>1, <1>2 DEF Frames

LEMMA NumeralOf ==
  ASSUME NEW d \in 0..9
  PROVE  Numerals[d + 1] \in Digits /\ Value(Numerals[d + 1]) = d
  <1>1. \A n \in 0..9 : Numerals[n + 1] = Numerals[d + 1] => n = d
    BY DEF Numerals
  <1>2. \E n \in 0..9 : Numerals[n + 1] = Numerals[d + 1]
    OBVIOUS
  <1>3. Value(Numerals[d + 1]) \in 0..9
        /\ Numerals[Value(Numerals[d + 1]) + 1] = Numerals[d + 1]
    BY <1>2 DEF Value
  <1> QED BY <1>1, <1>3 DEF Digits

LEMMA DigitsOfNumber ==
  ASSUME NEW n \in Nat, NEW k \in Nat,
         \/ k = 1 /\ n < 10
         \/ k = 2 /\ n < 100
         \/ k = 3 /\ n < 1000
  PROVE  /\ \A j \in 1..k :
              /\ DigitOf(n, k, j) \in 0..9
              /\ FirstDigits(n, k, j) = FirstDigits(n, k, j - 1) * 10 + DigitOf(n, k, j)
         /\ FirstDigits(n, k, k) = n /\ FirstDigits(n, k, 0) = 0
  <1>1. ASSUME NEW j \in 1..k
        PROVE  /\ DigitOf(n, k, j) \in 0..9
               /\ FirstDigits(n, k, j) = FirstDigits(n, k, j - 1) * 10 + DigitOf(n, k, j)
    <2>1. CASE k - j = 0
      <3>1. DigitOf(n, k, j) = n % 10 /\ FirstDigits(n, k, j) = n
        BY <2>1 DEF DigitOf, FirstDigits
      <3>2. FirstDigits(n, k, j - 1) = n \div 10
        BY <2>1 DEF FirstDigits
      <3> QED BY <3>1, <3>2
    <2>2. CASE k - j = 1
      <3>1. DigitOf(n, k, j) = (n \div 10) % 10 /\ FirstDigits(n, k, j) = n \div 10
        BY <2>2 DEF DigitOf, FirstDigits
      <3>2. FirstDigits(n, k, j - 1) = n \div 100
        BY <2>2 DEF FirstDigits
      <3> QED BY <3>1, <3>2
    <2>3. CASE k - j = 2
      <3>1. k = 3 /\ n < 1000 /\ j = 1
        BY <2>3
      <3>2. DigitOf(n, k, j) = n \div 100 /\ FirstDigits(n, k, j) = n \div 100
        BY <2>3 DEF DigitOf, FirstDigits
      <3>3. FirstDigits(n, k, j - 1) = 0
        BY <2>3 DEF FirstDigits
      <3> QED BY <3>1, <3>2, <3>3
    <2> QED BY <2>1, <2>2, <2>3
  <1>2. FirstDigits(n, k, k) = n /\ FirstDigits(n, k, 0) = 0
    BY DEF FirstDigits
  <1> QED BY <1>1, <1>2

\* The size of a RAW payload, read digit by digit, is its length.
LEMMA Sizes ==
  ASSUME NEW f \in Frames
  PROVE  /\ SizeLen(f) \in Nat /\ (SizeLen(f) = 0 <=>  f.kind = "ASCII")
         /\ Size(f) \in Seq(Chars) /\ Len(Size(f)) = SizeLen(f)
         /\ \A j \in 1..SizeLen(f) :
              /\ Size(f)[j] \in Digits
              /\ FirstDigits(Len(f.payload), SizeLen(f), j)
                   = FirstDigits(Len(f.payload), SizeLen(f), j - 1) * 10 + Value(Size(f)[j])
         /\ FirstDigits(Len(f.payload), SizeLen(f), SizeLen(f)) = Len(f.payload)
         /\ f.kind = "RAW" => FirstDigits(Len(f.payload), SizeLen(f), 0) = 0
  <1> DEFINE n == Len(f.payload)
             k == SizeLen(f)
             d(j) == DigitOf(n, k, j)
  <1>1. f.kind \in {"ASCII", "RAW"} /\ n \in Nat /\ (f.kind = "RAW" => 0 < n /\ n < 1000)
    BY Payloads
  <1>2. CASE f.kind = "ASCII"
    <2>1. k = 0
      BY <1>2 DEF SizeLen
    <2>2. Size(f) = <<>>
      BY <2>1 DEF Size
    <2> QED BY <1>2, <2>1, <2>2 DEF FirstDigits
  <1>3. CASE f.kind = "RAW"
    <2>1. /\ k \in Nat
          /\ \/ k = 1 /\ n < 10
             \/ k = 2 /\ n < 100
             \/ k = 3 /\ n < 1000
      BY <1>1, <1>3 DEF SizeLen
    <2>2. \A j \in 1..k : d(j) \in 0..9
      BY <1>1, <2>1, DigitsOfNumber
    <2>3. \A j \in 1..k : FirstDigits(n, k, j) = FirstDigits(n, k, j - 1) * 10 + d(j)
      BY <1>1, <2>1, DigitsOfNumber
    <2>4. FirstDigits(n, k, k) = n /\ FirstDigits(n, k, 0) = 0
      BY <1>1, <2>1, DigitsOfNumber
    <2>5. \A j \in 1..k : Numerals[d(j) + 1] \in Digits /\ Value(Numerals[d(j) + 1]) = d(j)
      BY <2>2, NumeralOf
    <2>6. /\ Size(f) \in Seq(Chars) /\ Len(Size(f)) = k
          /\ \A j \in 1..k : Size(f)[j] = Numerals[d(j) + 1]
      <3> HIDE DEF d, k
      <3>1. Size(f) = [j \in 1..k |-> Numerals[d(j) + 1]]
        BY DEF Size, d, k
      <3>2. \A j \in 1..k : Numerals[d(j) + 1] \in Chars
        BY <2>5 DEF Chars
      <3> QED BY <2>1, <3>1, <3>2
    <2> QED BY <1>3, <2>1, <2>3, <2>4, <2>5, <2>6
  <1> QED BY <1>1, <1>2, <1>3

LEMMA Lengths ==
  ASSUME NEW f \in Frames
  PROVE  /\ HeaderLen(f) \in Nat /\ HeaderLen(f) >= SofLen + 2
         /\ FrameLen(f) \in Nat /\ FrameLen(f) = HeaderLen(f) + Len(f.payload)
         /\ HeaderLen(f) = SofLen + 2 + SizeLen(f)
  BY Bounds, Sizes, Payloads DEF HeaderLen, FrameLen

LEMMA HeaderAt ==
  ASSUME NEW f \in Frames
  PROVE  /\ Header(f) \in Seq(Chars) /\ Len(Header(f)) = HeaderLen(f)
         /\ \A i \in 1..EcuLen : Header(f)[i] = Name(f.dst)[i]
         /\ Header(f)[EcuLen + 1] = "<"
         /\ \A i \in 1..EcuLen : Header(f)[EcuLen + 1 + i] = Name(f.src)[i]
         /\ Header(f)[SofLen + 1] = ":"
         /\ \A i \in 1..SizeLen(f) : Header(f)[SofLen + 1 + i] = Size(f)[i]
         /\ Header(f)[HeaderLen(f)] = ":"
  <1> DEFINE D == Name(f.dst)
             S == Name(f.src)
             Z == Size(f)
             s1 == D \o <<"<">>
             s2 == s1 \o S
             s3 == s2 \o <<":">>
             s4 == s3 \o Z
             s5 == s4 \o <<":">>
  <1>1. D \in Seq(Chars) /\ Len(D) = EcuLen /\ S \in Seq(Chars) /\ Len(S) = EcuLen
    BY Names, Payloads
  <1>2. Z \in Seq(Chars) /\ Len(Z) = SizeLen(f) /\ SizeLen(f) \in Nat
    BY Sizes
  <1>3. /\ <<"<">> \in Seq(Chars) /\ Len(<<"<">>) = 1 /\ <<"<">>[1] = "<"
        /\ <<":">> \in Seq(Chars) /\ Len(<<":">>) = 1 /\ <<":">>[1] = ":"
    BY Mark DEF Chars
  <1>4. Header(f) = s5
    BY DEF Header
  <1> HIDE DEF D, S, Z
  <1>5. /\ s1 \in Seq(Chars) /\ Len(s1) = EcuLen + 1
        /\ \A i \in 1..EcuLen : s1[i] = D[i]
        /\ s1[EcuLen + 1] = "<"
    BY <1>1, <1>3, Bounds, Concat
  <1> HIDE DEF s1
  <1>6. /\ s2 \in Seq(Chars) /\ Len(s2) = SofLen
        /\ \A i \in 1..EcuLen + 1 : s2[i] = s1[i]
        /\ \A i \in 1..EcuLen : s2[EcuLen + 1 + i] = S[i]
    <2>1. Len(s1 \o S) = Len(s1) + Len(S) /\ s1 \o S \in Seq(Chars)
      BY <1>1, <1>5, Concat
    <2>2. \A i \in 1..Len(s1) : (s1 \o S)[i] = s1[i]
      BY <1>1, <1>5, Concat
    <2>3. \A i \in 1..Len(S) : (s1 \o S)[Len(s1) + i] = S[i]
      BY <1>1, <1>5, Concat
    <2> QED BY <1>1, <1>5, <2>1, <2>2, <2>3, Bounds
  <1> HIDE DEF s2
  <1>7. /\ s3 \in Seq(Chars) /\ Len(s3) = SofLen + 1
        /\ \A i \in 1..SofLen : s3[i] = s2[i]
        /\ s3[SofLen + 1] = ":"
    <2>1. /\ Len(s2 \o <<":">>) = Len(s2) + Len(<<":">>)
          /\ s2 \o <<":">> \in Seq(Chars)
      BY <1>3, <1>6, Concat
    <2>2. \A i \in 1..Len(s2) : (s2 \o <<":">>)[i] = s2[i]
      BY <1>3, <1>6, Concat
    <2>3. \A i \in 1..Len(<<":">>) : (s2 \o <<":">>)[Len(s2) + i] = <<":">>[i]
      BY <1>3, <1>6, Concat
    <2> QED BY <1>3, <1>6, <2>1, <2>2, <2>3, Bounds
  <1> HIDE DEF s3
  <1>8. /\ s4 \in Seq(Chars) /\ Len(s4) = SofLen + 1 + SizeLen(f)
        /\ \A i \in 1..SofLen + 1 : s4[i] = s3[i]
        /\ \A i \in 1..SizeLen(f) : s4[SofLen + 1 + i] = Z[i]
    <2>1. Len(s3 \o Z) = Len(s3) + Len(Z) /\ s3 \o Z \in Seq(Chars)
      BY <1>2, <1>7, Concat
    <2>2. \A i \in 1..Len(s3) : (s3 \o Z)[i] = s3[i]
      BY <1>2, <1>7, Concat
    <2>3. \A i \in 1..Len(Z) : (s3 \o Z)[Len(s3) + i] = Z[i]
      BY <1>2, <1>7, Concat
    <2> QED BY <1>2, <1>7, <2>1, <2>2, <2>3, Bounds
  <1> HIDE DEF s4
  <1>9. /\ s5 \in Seq(Chars) /\ Len(s5) = SofLen + 2 + SizeLen(f)
        /\ \A i \in 1..SofLen + 1 + SizeLen(f) : s5[i] = s4[i]
        /\ s5[SofLen + 2 + SizeLen(f)] = ":"
    <2>1. /\ Len(s4 \o <<":">>) = Len(s4) + Len(<<":">>)
          /\ s5 \in Seq(Chars)
      BY <1>3, <1>8, Concat
    <2>2. \A i \in 1..Len(s4) : (s4 \o <<":">>)[i] = s4[i]
      BY <1>3, <1>8, Concat
    <2>3. \A i \in 1..Len(<<":">>) : (s4 \o <<":">>)[Len(s4) + i] = <<":">>[i]
      BY <1>3, <1>8, Concat
    <2>4. Len(s4) = SofLen + 1 + SizeLen(f) /\ Len(s5) = Len(s4) + 1
      BY <1>3, <1>8, <2>1
    <2>5. s5[Len(s4) + 1] = ":"
      BY <1>3, <2>3
    <2>6. \A i \in 1..SofLen + 1 + SizeLen(f) : s5[i] = s4[i]
      BY <2>2, <2>4
    <2>7. Len(s4) + 1 = SofLen + 2 + SizeLen(f)
      BY <1>2, <2>4, Bounds
    <2>8. s5[SofLen + 2 + SizeLen(f)] = ":"
      BY <2>5, <2>7
    <2> HIDE DEF s5
    <2> QED BY <2>1, <2>4, <2>6, <2>7, <2>8
  <1> HIDE DEF s5
  <1>10. Len(s5) = HeaderLen(f) /\ s5[HeaderLen(f)] = ":"
    BY <1>9 DEF HeaderLen
  <1>11. \A i \in 1..EcuLen : s5[i] = D[i] /\ s5[EcuLen + 1 + i] = S[i]
    BY <1>2, <1>5, <1>6, <1>7, <1>8, <1>9, Bounds
  <1>12. s5[EcuLen + 1] = "<" /\ s5[SofLen + 1] = ":"
    BY <1>2, <1>5, <1>6, <1>7, <1>8, <1>9, Bounds
  <1>13. \A i \in 1..SizeLen(f) : s5[SofLen + 1 + i] = Z[i]
    BY <1>2, <1>8, <1>9, Bounds
  <1> QED BY <1>4, <1>9, <1>10, <1>11, <1>12, <1>13 DEF D, S, Z

LEMMA EncodingAt ==
  ASSUME NEW f \in Frames, NEW end \in Ends(f)
  PROVE  LET E == Encoding(f, end)
         IN  /\ E \in Seq(Chars)
             /\ (Len(end) = 0 \/ Len(end) = 1) /\ Len(E) = FrameLen(f) + Len(end)
             /\ f.kind = "ASCII" => Len(end) = 1
             /\ \A i \in 1..HeaderLen(f) : E[i] = Header(f)[i]
             /\ \A i \in 1..Len(f.payload) : E[HeaderLen(f) + i] = f.payload[i]
             /\ Len(end) = 1 => E[FrameLen(f) + 1] = "LF"
  <1> DEFINE body == Header(f) \o f.payload
             E == body \o end
  <1>1. Encoding(f, end) = E
    BY DEF Encoding
  <1>2. /\ end \in Seq(Chars) /\ (Len(end) = 0 \/ Len(end) = 1)
        /\ f.kind = "ASCII" => Len(end) = 1
        /\ Len(end) = 1 => end[1] = "LF"
    <2>1. <<"LF">> \in Seq(Chars) /\ Len(<<"LF">>) = 1 /\ <<"LF">>[1] = "LF"
      BY Mark DEF Chars, Controls
    <2>2. CASE f.kind = "RAW" /\ end = <<>>
      BY <2>2
    <2>3. CASE end = <<"LF">>
      BY <2>1, <2>3
    <2>4. f.kind = "RAW" => end = <<>> \/ end = <<"LF">>
      BY Zenon DEF Ends
    <2>5. f.kind # "RAW" => end = <<"LF">>
      BY Zenon DEF Ends
    <2> QED BY <2>2, <2>3, <2>4, <2>5
  <1>3. /\ body \in Seq(Chars) /\ Len(body) = FrameLen(f)
        /\ \A i \in 1..HeaderLen(f) : body[i] = Header(f)[i]
        /\ \A i \in 1..Len(f.payload) : body[HeaderLen(f) + i] = f.payload[i]
    <2> DEFINE h == Header(f)
               p == f.payload
    <2>1. h \in Seq(Chars) /\ Len(h) = HeaderLen(f) /\ p \in Seq(Chars)
      BY HeaderAt, Payloads
    <2> HIDE DEF h, p
    <2>2. Len(h \o p) = Len(h) + Len(p) /\ h \o p \in Seq(Chars)
      BY <2>1, Concat
    <2>3. \A i \in 1..Len(h) : (h \o p)[i] = h[i]
      BY <2>1, Concat
    <2>4. \A i \in 1..Len(p) : (h \o p)[Len(h) + i] = p[i]
      BY <2>1, Concat
    <2> QED BY <2>1, <2>2, <2>3, <2>4, Lengths DEF h, p
  <1> HIDE DEF body
  <1>4. Len(E) = Len(body) + Len(end) /\ E \in Seq(Chars)
    BY <1>2, <1>3, Concat
  <1>5. \A i \in 1..Len(body) : E[i] = body[i]
    BY <1>2, <1>3, Concat
  <1>6. \A i \in 1..Len(end) : E[Len(body) + i] = end[i]
    BY <1>2, <1>3, Concat
  <1> HIDE DEF E
  <1>7. Len(E) = FrameLen(f) + Len(end)
    BY <1>3, <1>4
  <1>8. \A i \in 1..HeaderLen(f) : E[i] = Header(f)[i]
    BY <1>3, <1>5, Lengths, Payloads
  <1>9. \A i \in 1..Len(f.payload) : E[HeaderLen(f) + i] = f.payload[i]
    BY <1>3, <1>5, Lengths, Payloads
  <1>10. Len(end) = 1 => E[FrameLen(f) + 1] = "LF"
    BY <1>2, <1>3, <1>6
  <1> QED BY <1>1, <1>2, <1>4, <1>7, <1>8, <1>9, <1>10

LEMMA LineOf ==
  ASSUME NEW f \in Frames, sent = <<f>>, Written
  PROVE  /\ Len(line) = FrameLen(f) \/ Len(line) = FrameLen(f) + 1
         /\ f.kind = "ASCII" => Len(line) = FrameLen(f) + 1
         /\ line[1] = f.dst /\ line[EcuLen + 1] = "<" /\ line[EcuLen + 2] = f.src
         /\ \A i \in 1..SofLen : i # EcuLen + 1 => line[i] \in Initials \cup {"x"}
         /\ line[SofLen + 1] = ":"
         /\ \A i \in 1..SizeLen(f) : line[SofLen + 1 + i] = Size(f)[i]
         /\ line[HeaderLen(f)] = ":"
         /\ \A i \in 1..Len(f.payload) : line[HeaderLen(f) + i] = f.payload[i]
         /\ Len(line) = FrameLen(f) + 1 <=> line[Len(line)] = "LF"
         /\ FrameLen(f) + MaxFailures <= MaxPayload
  <1>2. sent[1] = f /\ sent # <<>>
    OBVIOUS
  <1>3. PICK end \in Ends(f) : line = Encoding(f, end)
    BY <1>2 DEF Written
  <1>4. /\ (Len(end) = 0 \/ Len(end) = 1) /\ Len(line) = FrameLen(f) + Len(end)
        /\ f.kind = "ASCII" => Len(end) = 1
        /\ \A i \in 1..HeaderLen(f) : line[i] = Header(f)[i]
        /\ \A i \in 1..Len(f.payload) : line[HeaderLen(f) + i] = f.payload[i]
        /\ Len(end) = 1 => line[FrameLen(f) + 1] = "LF"
    BY <1>3, EncodingAt
  <1>5. /\ HeaderLen(f) \in Nat /\ FrameLen(f) \in Nat /\ SizeLen(f) \in Nat
        /\ HeaderLen(f) = SofLen + 2 + SizeLen(f)
        /\ FrameLen(f) = HeaderLen(f) + Len(f.payload) /\ Len(f.payload) \in Nat
    BY Lengths, Sizes, Payloads
  <1>h. /\ \A i \in 1..EcuLen : Header(f)[i] = Name(f.dst)[i]
        /\ Header(f)[EcuLen + 1] = "<"
        /\ \A i \in 1..EcuLen : Header(f)[EcuLen + 1 + i] = Name(f.src)[i]
        /\ Header(f)[SofLen + 1] = ":"
        /\ \A i \in 1..SizeLen(f) : Header(f)[SofLen + 1 + i] = Size(f)[i]
        /\ Header(f)[HeaderLen(f)] = ":"
    BY HeaderAt
  <1>b. /\ EcuLen + 1 \in 1..HeaderLen(f) /\ SofLen + 1 \in 1..HeaderLen(f)
        /\ HeaderLen(f) \in 1..HeaderLen(f)
        /\ \A i \in 1..EcuLen : i \in 1..HeaderLen(f) /\ EcuLen + 1 + i \in 1..HeaderLen(f)
        /\ \A i \in 1..SizeLen(f) : SofLen + 1 + i \in 1..HeaderLen(f)
    BY <1>5, Bounds
  <1>6. \A i \in 1..EcuLen : line[i] = Name(f.dst)[i] /\ line[EcuLen + 1 + i] = Name(f.src)[i]
    BY <1>4, <1>h, <1>b
  <1>7. line[EcuLen + 1] = "<" /\ line[SofLen + 1] = ":" /\ line[HeaderLen(f)] = ":"
    BY <1>4, <1>h, <1>b
  <1>8. \A i \in 1..SizeLen(f) : line[SofLen + 1 + i] = Size(f)[i]
    BY <1>4, <1>h, <1>b
  <1>9. line[1] = f.dst /\ line[EcuLen + 2] = f.src
    BY <1>6, Names, Payloads, Bounds
  <1>10. ASSUME NEW i \in 1..SofLen, i # EcuLen + 1
         PROVE  line[i] \in Initials \cup {"x"}
    <2>1. CASE i <= EcuLen
      BY <1>6, <2>1, Names, Payloads, Bounds
    <2>2. CASE i > EcuLen
      <3>1. PICK j \in 1..EcuLen : i = EcuLen + 1 + j
        <4>1. i - EcuLen - 1 \in 1..EcuLen /\ i = EcuLen + 1 + (i - EcuLen - 1)
          BY <1>10, <2>2, Bounds
        <4> QED BY <4>1
      <3> QED BY <1>6, <3>1, Names, Payloads
    <2> QED BY <2>1, <2>2, Bounds
  <1>11. Len(line) = FrameLen(f) + 1 <=> line[Len(line)] = "LF"
    <2>1. CASE Len(end) = 1
      BY <1>4, <2>1
    <2>2. CASE Len(end) = 0
      <3>1. f.kind = "RAW" /\ Len(f.payload) \in 1..Len(f.payload)
        BY <1>4, <1>5, <2>2, Payloads
      <3>2. line[Len(line)] = f.payload[Len(f.payload)]
        BY <1>4, <1>5, <2>2, <3>1
      <3>3. f.payload[Len(f.payload)] # "LF"
        BY <3>1, Payloads
      <3>4. Len(line) # FrameLen(f) + 1
        BY <1>4, <1>5, <2>2
      <3> QED BY <3>2, <3>3, <3>4
    <2>3. Len(end) = 0 \/ Len(end) = 1
      BY <1>4
    <2> QED BY <2>1, <2>2, <2>3
  <1>12. FrameLen(f) + MaxFailures <= MaxPayload
    BY <1>5, HeaderAt, BoundsAssumption
  <1>13. Len(line) = FrameLen(f) \/ Len(line) = FrameLen(f) + 1
    <2>1. CASE Len(end) = 0
      BY <1>4, <1>5, <2>1
    <2>2. CASE Len(end) = 1
      BY <1>4, <1>5, <2>2
    <2> QED BY <1>4, <2>1, <2>2
  <1>14. f.kind = "ASCII" => Len(line) = FrameLen(f) + 1
    BY <1>4
  <1> QED BY <1>4, <1>7, <1>8, <1>9, <1>10, <1>11, <1>12, <1>13, <1>14

\* The places of a frame, as numbers.
LEMMA Places ==
  ASSUME NEW f \in Frames
  PROVE  /\ EcuLen \in Nat /\ EcuLen > 0 /\ SofLen = 2 * EcuLen + 1 /\ SofLen \in Nat
         /\ SizeLen(f) \in Nat /\ (SizeLen(f) = 0 <=> f.kind = "ASCII")
         /\ HeaderLen(f) = SofLen + 2 + SizeLen(f) /\ HeaderLen(f) \in Nat
         /\ Len(f.payload) \in Nat /\ FrameLen(f) = HeaderLen(f) + Len(f.payload)
         /\ FrameLen(f) \in Nat
         /\ f.kind \in {"ASCII", "RAW"} /\ (f.kind = "RAW" => Len(f.payload) > 0)
         /\ f.dst \in Initials /\ f.src \in Initials
  BY Bounds, Sizes, Lengths, Payloads, Names

LEMMA CharAt ==
  ASSUME NEW f \in Frames, sent = <<f>>, Written, NEW i \in Nat, i > 0, i <= Len(line)
  PROVE  /\ i <= SofLen => /\ line[i] = "<" <=> i = EcuLen + 1
                           /\ line[i] # ":" /\ line[i] \notin Controls
         /\ i = SofLen + 1 => line[i] = ":"
         /\ i > SofLen + 1 /\ i < HeaderLen(f) =>
              /\ i - SofLen - 1 \in 1..SizeLen(f)
              /\ line[i] = Size(f)[i - SofLen - 1]
         /\ i = HeaderLen(f) => line[i] = ":"
         /\ i > HeaderLen(f) /\ i <= FrameLen(f) =>
              /\ line[i] = f.payload[i - HeaderLen(f)]
              /\ line[i] \notin {"LF", "CR", ":"}
              /\ f.kind = "ASCII" => line[i] \notin Controls
         /\ i > FrameLen(f) => i = FrameLen(f) + 1 /\ i = Len(line) /\ line[i] = "LF"
  <1> DEFINE ch == line[i]
  <1>0. /\ EcuLen \in Nat /\ EcuLen > 0 /\ SofLen = 2 * EcuLen + 1 /\ SofLen \in Nat
        /\ SizeLen(f) \in Nat
        /\ HeaderLen(f) = SofLen + 2 + SizeLen(f) /\ HeaderLen(f) \in Nat
        /\ Len(f.payload) \in Nat /\ FrameLen(f) = HeaderLen(f) + Len(f.payload)
        /\ FrameLen(f) \in Nat
    BY Places
  <1>1. ASSUME i <= SofLen
        PROVE  /\ ch = "<" <=> i = EcuLen + 1
               /\ ch # ":" /\ ch \notin Controls
    <2>1. CASE i = EcuLen + 1
      <3>1. ch = "<"
        BY <2>1, LineOf
      <3> QED BY <2>1, <3>1 DEF Controls
    <2>2. CASE i # EcuLen + 1
      <3>1. i \in 1..SofLen
        BY <1>0, <1>1
      <3>2. ch \in Initials \cup {"x"}
        BY <2>2, <3>1, LineOf
      <3> QED BY <2>2, <3>2 DEF Initials, Controls
    <2> QED BY <2>1, <2>2
  <1>2. i = SofLen + 1 => ch = ":"
    BY LineOf
  <1>3. ASSUME i > SofLen + 1, i < HeaderLen(f)
        PROVE  i - SofLen - 1 \in 1..SizeLen(f) /\ ch = Size(f)[i - SofLen - 1]
    <2>1. PICK j \in 1..SizeLen(f) : i = SofLen + 1 + j /\ j = i - SofLen - 1
      <3>1. i - SofLen - 1 \in 1..SizeLen(f) /\ i = SofLen + 1 + (i - SofLen - 1)
        BY <1>0, <1>3
      <3> QED BY <3>1
    <2>2. line[SofLen + 1 + j] = Size(f)[j]
      BY LineOf
    <2> QED BY <2>1, <2>2
  <1>4. i = HeaderLen(f) => ch = ":"
    BY LineOf
  <1>5. ASSUME i > HeaderLen(f), i <= FrameLen(f)
        PROVE  /\ ch = f.payload[i - HeaderLen(f)]
               /\ ch \notin {"LF", "CR", ":"}
               /\ f.kind = "ASCII" => ch \notin Controls
    <2>1. PICK j \in 1..Len(f.payload) : i = HeaderLen(f) + j /\ j = i - HeaderLen(f)
      <3>1. i - HeaderLen(f) \in 1..Len(f.payload) /\ i = HeaderLen(f) + (i - HeaderLen(f))
        BY <1>0, <1>5
      <3> QED BY <3>1
    <2>2. line[HeaderLen(f) + j] = f.payload[j]
      BY LineOf
    <2>3. /\ f.payload[j] \notin {"LF", "CR", ":"}
          /\ f.kind = "ASCII" => f.payload[j] \notin Controls
      BY Payloads
    <2> QED BY <2>1, <2>2, <2>3
  <1>6. ASSUME i > FrameLen(f)
        PROVE  i = FrameLen(f) + 1 /\ i = Len(line) /\ ch = "LF"
    <2>1. Len(line) = FrameLen(f) \/ Len(line) = FrameLen(f) + 1
      BY LineOf
    <2>2. i = FrameLen(f) + 1 /\ i = Len(line)
      BY <1>0, <1>6, <2>1
    <2>3. line[Len(line)] = "LF"
      BY <2>2, LineOf
    <2> QED BY <2>2, <2>3
  <1> QED BY <1>1, <1>2, <1>3, <1>4, <1>5, <1>6

-------------------------------------------------------------------------------
(* A character of the frame that was sent.                                 *)

LEMMA CharRead ==
  ASSUME InRange, ReadChar
  PROVE  /\ at \in Nat /\ at + 1 <= Len(line) /\ Len(line) \in Nat /\ at' = at + 1
         /\ line[at + 1] \in Chars /\ c' = line[at + 1]
         /\ max \in Nat /\ max > 0 /\ max <= MaxPayload /\ MaxPayload \in Nat
         /\ max' = MaxAfter(line[at + 1])
         /\ field' = IF line[at + 1] = ":" THEN field + 1 ELSE field
         /\ Decode(line[at + 1])
         /\ sent' = sent /\ line' = line /\ failed' = failed /\ lost' = lost /\ got' = got
         /\ failed \in Nat /\ lost \in Nat
  <1>1. at \in Nat /\ at < Len(line) /\ Len(line) \in Nat /\ line \in Seq(Chars)
    BY LenProperties DEF ReadChar, InRange, Typed
  <1>2. at + 1 \in 1..Len(line)
    BY <1>1
  <1>3. line[at + 1] \in Chars
    BY <1>1, <1>2, ElementOfSeq
  <1>4. max \in Nat /\ max > 0 /\ max <= MaxPayload /\ MaxPayload \in Nat
    BY BoundsAssumption DEF ReadChar, More, InRange, Typed
  <1>5. failed \in Nat /\ lost \in Nat
    BY DEF InRange, Typed
  <1>6. at + 1 <= Len(line)
    BY <1>1
  <1> QED BY <1>1, <1>3, <1>4, <1>5, <1>6 DEF ReadChar

LEMMA CharTyped ==
  ASSUME InRange, Written, ReadChar,
         max' \in 0..MaxPayload, field' \in 0..2,
         sof' \in Seq(Chars), dst' \in Addresses, src' \in Addresses,
         rawSz' \in Nat, payload' \in Seq(Chars)
  PROVE  InRange' /\ Written'
  <1>1. at' \in 0..Len(line')
    BY CharRead
  <1>2. c' \in Chars \cup {"none"}
    BY CharRead
  <1>3. sent' = sent /\ line' = line /\ failed' = failed /\ lost' = lost /\ got' = got
    BY CharRead
  <1>4. Written'
    BY <1>3 DEF Written
  <1>5. InRange'
    BY <1>1, <1>2, <1>3 DEF InRange, Typed
  <1> QED BY <1>4, <1>5

LEMMA InFrameOf ==
  ASSUME NEW f \in Frames, sent = <<f>>, InFrame
  PROVE  /\ HeaderSoFar(f) /\ PayloadSoFar(f) /\ BudgetSoFar(f)
         /\ got = <<>> /\ (c = IF at = 0 THEN "none" ELSE line[at])
  <1>1. sent[1] = f
    OBVIOUS
  <1> QED BY <1>1 DEF InFrame

LEMMA InFrameNext ==
  ASSUME NEW f \in Frames, sent = <<f>>, InRange, InFrame, ReadChar,
         HeaderSoFar(f)', PayloadSoFar(f)', BudgetSoFar(f)'
  PROVE  InFrame'
  <1>0. sent' = <<f>> /\ got' = <<>>
    BY CharRead, InFrameOf
  <1>1. sent'[1] = f /\ sent' # <<>> /\ got' = <<>>
    BY <1>0
  <1>2. c' = IF at' = 0 THEN "none" ELSE line'[at']
    BY CharRead
  <1> QED BY <1>1, <1>2 DEF InFrame

\* The addresses.
LEMMA ReadAddresses ==
  ASSUME NEW f \in Frames, sent = <<f>>, InRange, Written, InFrame, ReadChar,
         at < SofLen
  PROVE  InRange' /\ Written' /\ InFrame'
  <1> DEFINE ch == line[at + 1]
  <1>p. /\ EcuLen \in Nat /\ EcuLen > 0 /\ SofLen = 2 * EcuLen + 1
        /\ SizeLen(f) \in Nat /\ HeaderLen(f) = SofLen + 2 + SizeLen(f)
        /\ Len(f.payload) \in Nat /\ FrameLen(f) = HeaderLen(f) + Len(f.payload)
        /\ f.dst \in Initials /\ f.src \in Initials
    BY Places
  <1>r. /\ at \in Nat /\ at + 1 <= Len(line) /\ at' = at + 1 /\ ch \in Chars
        /\ max \in Nat /\ max > 0 /\ max <= MaxPayload /\ MaxPayload \in Nat
        /\ failed \in Nat /\ failed' = failed /\ lost' = lost /\ line' = line
    BY CharRead
  <1>1. /\ field = 0 /\ rawSz = 0 /\ payload = <<>>
        /\ Len(sof) = at /\ sof \in Seq(Chars)
        /\ \A i \in 1..at : sof[i] = line[i]
        /\ dst = (IF at > EcuLen THEN f.dst ELSE "none") /\ src = "none"
        /\ max = MaxPayload - failed - at /\ lost = 0
    <2>1. /\ Len(sof) = at /\ field = 0 /\ rawSz = 0 /\ \A i \in 1..Len(sof) : sof[i] = line[i]
          /\ dst = (IF at > EcuLen THEN f.dst ELSE "none") /\ src = "none"
      BY <1>p, <1>r, InFrameOf DEF HeaderSoFar, Least
    <2>2. Len(payload) = 0
      BY <1>p, <1>r, InFrameOf DEF PayloadSoFar
    <2>3. max = MaxPayload - failed - at /\ lost = 0
      BY <1>p, <1>r, InFrameOf DEF BudgetSoFar
    <2> QED BY <2>1, <2>2, <2>3 DEF InRange, Typed
  <1>2. (ch = "<" <=> at + 1 = EcuLen + 1) /\ ch # ":" /\ ch \notin Controls
    BY <1>p, <1>r, CharAt
  <1> HIDE DEF ch
  <1>4. ReadSof(ch) /\ max' = max - 1 /\ field' = 0
    <2>1. ~Dropped(ch) /\ ~FirstOfRaw(ch)
      BY <1>1, <1>2 DEF Dropped, FirstOfRaw
    <2>2. max' = MaxAfter(ch) /\ Decode(ch) /\ (field' = IF ch = ":" THEN field + 1 ELSE field)
      BY CharRead DEF ch
    <2> QED BY <1>1, <1>2, <2>1, <2>2 DEF Decode, MaxAfter
  <1>5. /\ sof' = Append(sof, ch) /\ sof' \in Seq(Chars) /\ Len(sof') = at + 1
        /\ \A i \in 1..at + 1 : sof'[i] = line[i]
    <2>1. sof' = Append(sof, ch)
      BY <1>4 DEF ReadSof
    <2>2. /\ sof' \in Seq(Chars) /\ Len(sof') = at + 1
          /\ \A i \in 1..at : sof'[i] = sof[i]
          /\ sof'[at + 1] = ch
      BY <1>1, <1>r, <2>1, AppendProperties
    <2>3. \A i \in 1..at + 1 : i \in 1..at \/ i = at + 1
      BY <1>r
    <2> QED BY <1>1, <2>1, <2>2, <2>3 DEF ch
  <1>6. dst' = IF at + 1 > EcuLen THEN f.dst ELSE "none"
    <2>1. CASE at = EcuLen
      <3>1. sof # <<>> /\ 1 \in 1..at
        BY <1>1, <1>p, <2>1
      <3>2. sof[1] = f.dst
        BY <1>1, <3>1, LineOf
      <3>3. Id(sof) = f.dst
        BY <1>p, <3>1, <3>2 DEF Id
      <3> QED BY <1>2, <1>4, <1>p, <2>1, <3>3 DEF ReadSof
    <2>2. CASE at # EcuLen
      BY <1>1, <1>2, <1>4, <1>p, <1>r, <2>2 DEF ReadSof
    <2> QED BY <2>1, <2>2
  <1>7. src' = IF at + 1 >= SofLen THEN f.src ELSE "none"
    <2>1. CASE at + 1 = SofLen
      <3> DEFINE name == SubSeq(sof', EcuLen + 2, SofLen)
      <3>0. /\ EcuLen + 2 \in Nat /\ SofLen \in Nat /\ EcuLen + 2 <= SofLen + 1
            /\ SofLen - (EcuLen + 2) + 1 = EcuLen
            /\ EcuLen + 2 \in 1..at + 1 /\ EcuLen + 2 > 0
        BY <1>p, <1>r, <2>1
      <3>2. Len(name) = EcuLen /\ name[1] = sof'[EcuLen + 2]
        <4>1. sof' \in Seq(Chars)
          BY <1>5
        <4>2. \A i \in EcuLen + 2 .. SofLen : sof'[i] \in Chars
          <5>1. \A i \in EcuLen + 2 .. SofLen : i \in 1..Len(sof')
            BY <1>5, <1>p, <2>1
          <5> QED BY <4>1, <5>1, ElementOfSeq
        <4>3. Len(name) = SofLen - (EcuLen + 2) + 1
          BY <4>2, <3>0, SubSeqProperties
        <4>4. \A i \in 1 .. SofLen - (EcuLen + 2) + 1 : name[i] = sof'[EcuLen + 2 + i - 1]
          BY <4>2, <3>0, SubSeqProperties
        <4>5. 1 \in 1 .. SofLen - (EcuLen + 2) + 1 /\ EcuLen + 2 + 1 - 1 = EcuLen + 2
          BY <3>0, <1>p
        <4> HIDE DEF name
        <4> QED BY <4>3, <4>4, <4>5, <3>0
      <3> HIDE DEF name
      <3>3. sof'[EcuLen + 2] = f.src
        BY <1>5, <3>0, LineOf
      <3>4. name # <<>>
        BY <3>2, <1>p
      <3>5. Id(name) = f.src
        BY <3>2, <3>3, <3>4, <1>p DEF Id
      <3>6. src' = Id(name)
        BY <1>4, <1>5, <2>1 DEF ReadSof, name
      <3> QED BY <2>1, <3>5, <3>6, <1>p
    <2>2. CASE at + 1 # SofLen
      BY <1>1, <1>4, <1>5, <1>p, <1>r, <2>2 DEF ReadSof
    <2> QED BY <2>1, <2>2
  <1>8. rawSz' = 0 /\ payload' = <<>>
    BY <1>1, <1>4 DEF ReadSof
  <1>9. dst' \in Addresses /\ src' \in Addresses
    BY <1>6, <1>7, <1>p DEF Addresses
  <1>m. max' \in 0..MaxPayload
    BY <1>4, <1>r
  <1>10. InRange' /\ Written'
    BY <1>m, <1>4, <1>5, <1>8, <1>9, CharTyped
  <1>11. HeaderSoFar(f)'
    BY <1>4, <1>5, <1>6, <1>7, <1>8, <1>p, <1>r DEF HeaderSoFar, Least
  <1>12. PayloadSoFar(f)'
    BY <1>8, <1>p, <1>r DEF PayloadSoFar
  <1>13. BudgetSoFar(f)'
    BY <1>1, <1>4, <1>p, <1>r DEF BudgetSoFar
  <1> QED BY <1>10, <1>11, <1>12, <1>13, InFrameNext

\* The separators, and the line feed of an ASCII frame.
LEMMA ReadSeparator ==
  ASSUME NEW f \in Frames, sent = <<f>>, InRange, Written, InFrame, ReadChar,
         \/ at = SofLen
         \/ at + 1 = HeaderLen(f)
         \/ at = FrameLen(f) /\ f.kind = "ASCII"
  PROVE  InRange' /\ Written' /\ InFrame'
  <1> DEFINE ch == line[at + 1]
  <1>p. /\ EcuLen \in Nat /\ EcuLen > 0 /\ SofLen = 2 * EcuLen + 1
        /\ SizeLen(f) \in Nat /\ HeaderLen(f) = SofLen + 2 + SizeLen(f)
        /\ Len(f.payload) \in Nat /\ FrameLen(f) = HeaderLen(f) + Len(f.payload)
        /\ f.kind \in {"ASCII", "RAW"} /\ (SizeLen(f) = 0 <=> f.kind = "ASCII")
    BY Places
  <1>r. /\ at \in Nat /\ at + 1 <= Len(line) /\ at' = at + 1 /\ ch \in Chars
        /\ max \in Nat /\ max > 0 /\ max <= MaxPayload /\ MaxPayload \in Nat
        /\ failed \in Nat /\ failed' = failed /\ lost' = lost /\ line' = line
    BY CharRead
  <1>1. HeaderSoFar(f) /\ PayloadSoFar(f) /\ BudgetSoFar(f)
    BY InFrameOf
  <1>2. IF at = FrameLen(f) THEN ch = "LF" ELSE ch = ":"
    <2>1. CASE at = FrameLen(f)
      BY <1>p, <1>r, <2>1, CharAt
    <2>2. CASE at # FrameLen(f)
      <3>1. at + 1 = SofLen + 1 \/ at + 1 = HeaderLen(f)
        BY <2>2, <1>p, <1>r
      <3> QED BY <2>2, <3>1, <1>r, CharAt
    <2> QED BY <2>1, <2>2
  <1> HIDE DEF ch
  <1>3. at = FrameLen(f) => rawSz = 0 /\ field = 2
    BY <1>1, <1>p, <1>r DEF HeaderSoFar
  <1>4. UNCHANGED frame /\ max' = max - 1
        /\ (field' = IF at = FrameLen(f) THEN field ELSE field + 1)
    <2>1. Dropped(ch) /\ ~FirstOfRaw(ch)
      BY <1>2, <1>3 DEF Dropped, FirstOfRaw, Controls
    <2>2. max' = MaxAfter(ch) /\ Decode(ch) /\ (field' = IF ch = ":" THEN field + 1 ELSE field)
      BY CharRead DEF ch
    <2> QED BY <1>2, <2>1, <2>2 DEF Decode, MaxAfter
  <1>5. /\ sof' = sof /\ dst' = dst /\ src' = src /\ rawSz' = rawSz /\ payload' = payload
    BY <1>4 DEF frame
  <1>6. Len(sof) = SofLen
    BY <1>1, <1>p, <1>r DEF HeaderSoFar, Least
  <1>7. rawSz = IF at <= SofLen \/ f.kind = "ASCII" THEN 0 ELSE Len(f.payload)
    <2>1. at = SofLen + 1 + SizeLen(f) => at - SofLen - 1 = SizeLen(f)
      BY <1>p, <1>r
    <2>2. FirstDigits(Len(f.payload), SizeLen(f), SizeLen(f)) = Len(f.payload)
      BY Sizes
    <2>3. CASE at = SofLen
      BY <1>1, <1>p, <1>r, <2>3 DEF HeaderSoFar
    <2>4. CASE at + 1 = HeaderLen(f)
      <3>1. f.kind = "RAW" => at > SofLen + 1 /\ at < HeaderLen(f) /\ at - SofLen - 1 = SizeLen(f)
        BY <1>p, <1>r, <2>4
      <3>2. f.kind = "RAW" => rawSz = FirstDigits(Len(f.payload), SizeLen(f), SizeLen(f))
        BY <1>1, <1>p, <1>r, <2>4, <3>1 DEF HeaderSoFar
      <3>3. f.kind = "ASCII" => rawSz = 0
        BY <1>1 DEF HeaderSoFar
      <3> QED BY <1>p, <1>r, <2>2, <2>4, <3>2, <3>3
    <2>5. CASE at = FrameLen(f) /\ f.kind = "ASCII"
      BY <1>3, <2>5
    <2> QED BY <2>3, <2>4, <2>5
  <1>8. field' = IF at = SofLen THEN 1 ELSE 2
    BY <1>1, <1>4, <1>p, <1>r DEF HeaderSoFar
  <1>9. max = MaxPayload - failed - at /\ lost = 0
    <2>1. ~(f.kind = "RAW" /\ at > HeaderLen(f))
      BY <1>p, <1>r
    <2> QED BY <1>1, <2>1 DEF BudgetSoFar
  <1>10. InRange' /\ Written'
    <2>1. max' \in 0..MaxPayload /\ field' \in 0..2
      BY <1>4, <1>8, <1>r
    <2>2. /\ sof' \in Seq(Chars) /\ dst' \in Addresses /\ src' \in Addresses
          /\ rawSz' \in Nat /\ payload' \in Seq(Chars)
      BY <1>5 DEF InRange, Typed
    <2> QED BY <2>1, <2>2, CharTyped
  <1>11. HeaderSoFar(f)'
    <2>1. Len(sof') = Least(at', SofLen) /\ \A i \in 1..Len(sof') : sof'[i] = line'[i]
      BY <1>1, <1>5, <1>6, <1>p, <1>r DEF HeaderSoFar, Least
    <2>2. /\ dst' = IF at' > EcuLen THEN f.dst ELSE "none"
          /\ src' = IF at' >= SofLen THEN f.src ELSE "none"
      BY <1>1, <1>5, <1>p, <1>r DEF HeaderSoFar
    <2>3. field' = IF at' <= SofLen THEN 0 ELSE IF at' < HeaderLen(f) THEN 1 ELSE 2
      BY <1>8, <1>p, <1>r
    <2>4. rawSz' = IF at' <= SofLen + 1 \/ f.kind = "ASCII" THEN 0
                   ELSE IF at' < HeaderLen(f)
                   THEN FirstDigits(Len(f.payload), SizeLen(f), at' - SofLen - 1)
                   ELSE Len(f.payload)
      BY <1>5, <1>7, <1>p, <1>r
    <2> QED BY <2>1, <2>2, <2>3, <2>4 DEF HeaderSoFar
  <1>12. PayloadSoFar(f)'
    <2>1. \A i \in 1..Len(payload') : payload'[i] = f.payload[i]
      BY <1>1, <1>5 DEF PayloadSoFar
    <2>2. Len(payload') = IF at <= HeaderLen(f) THEN 0
                          ELSE Least(at - HeaderLen(f), Len(f.payload))
      BY <1>1, <1>5 DEF PayloadSoFar
    <2>3. at <= HeaderLen(f) => at = SofLen \/ at + 1 = HeaderLen(f) \/ Len(f.payload) = 0
      BY <1>p, <1>r
    <2>4. at' - HeaderLen(f) >= at - HeaderLen(f) /\ (at > HeaderLen(f) => at = FrameLen(f))
      BY <1>p, <1>r
    <2>5. Len(payload') = IF at' <= HeaderLen(f) THEN 0
                          ELSE Least(at' - HeaderLen(f), Len(f.payload))
      BY <2>2, <2>3, <2>4, <1>p, <1>r DEF Least
    <2> QED BY <2>1, <2>5 DEF PayloadSoFar
  <1>13. BudgetSoFar(f)'
    <2>1. ~(f.kind = "RAW" /\ at' > HeaderLen(f))
      BY <1>p, <1>r
    <2> QED BY <1>4, <1>9, <1>r, <2>1 DEF BudgetSoFar
  <1> QED BY <1>10, <1>11, <1>12, <1>13, InFrameNext

\* The size of a RAW payload.
LEMMA ReadSizes ==
  ASSUME NEW f \in Frames, sent = <<f>>, InRange, Written, InFrame, ReadChar,
         at > SofLen, at + 1 < HeaderLen(f)
  PROVE  InRange' /\ Written' /\ InFrame'
  <1> DEFINE ch == line[at + 1]
             F(j) == FirstDigits(Len(f.payload), SizeLen(f), j)
  <1>p. /\ EcuLen \in Nat /\ EcuLen > 0 /\ SofLen = 2 * EcuLen + 1
        /\ SizeLen(f) \in Nat /\ HeaderLen(f) = SofLen + 2 + SizeLen(f)
        /\ Len(f.payload) \in Nat /\ FrameLen(f) = HeaderLen(f) + Len(f.payload)
        /\ f.kind \in {"ASCII", "RAW"} /\ (SizeLen(f) = 0 <=> f.kind = "ASCII")
    BY Places
  <1>r. /\ at \in Nat /\ at + 1 <= Len(line) /\ at' = at + 1 /\ ch \in Chars
        /\ max \in Nat /\ max > 0 /\ max <= MaxPayload /\ MaxPayload \in Nat
        /\ failed \in Nat /\ failed' = failed /\ lost' = lost /\ line' = line
    BY CharRead
  <1>1. HeaderSoFar(f) /\ PayloadSoFar(f) /\ BudgetSoFar(f)
    BY InFrameOf
  <1>2. f.kind = "RAW"
    BY <1>p, <1>r
  <1>3. at - SofLen \in 1..SizeLen(f) /\ ch = Size(f)[at - SofLen]
    <2>1. at + 1 - SofLen - 1 \in 1..SizeLen(f) /\ ch = Size(f)[at + 1 - SofLen - 1]
      BY <1>p, <1>r, CharAt
    <2>2. at + 1 - SofLen - 1 = at - SofLen
      BY <1>p, <1>r
    <2> QED BY <2>1, <2>2
  <1>4. ch \in Digits /\ F(at - SofLen) = F(at - SofLen - 1) * 10 + Value(ch)
    BY <1>3, Sizes
  <1> HIDE DEF F, ch
  <1>5. Value(ch) \in Nat
    <2>1. PICK n \in 1..10 : ch = Numerals[n]
      BY <1>4 DEF Digits
    <2>2. n - 1 \in 0..9 /\ ch = Numerals[(n - 1) + 1]
      BY <2>1
    <2>3. Value(ch) = n - 1
      BY <2>2, NumeralOf
    <2> QED BY <2>2, <2>3
  <1>6. ch # ":" /\ ch \notin Controls
    BY <1>4 DEF Digits, Numerals, Controls
  <1>7. field = 1 /\ payload = <<>> /\ Len(sof) = SofLen
    <2>1. field = 1 /\ Len(sof) = SofLen
      BY <1>1, <1>p, <1>r DEF HeaderSoFar, Least
    <2>2. Len(payload) = 0
      BY <1>1, <1>p, <1>r DEF PayloadSoFar
    <2> QED BY <2>1, <2>2 DEF InRange, Typed
  <1>8. rawSz = F(at - SofLen - 1) /\ rawSz \in Nat
    <2>1. CASE at = SofLen + 1
      <3>1. at - SofLen - 1 = 0 /\ F(0) = 0
        BY <1>2, <1>p, <1>r, <2>1, Sizes DEF F
      <3>2. rawSz = 0
        BY <1>1, <1>p, <1>r, <2>1 DEF HeaderSoFar
      <3> QED BY <3>1, <3>2
    <2>2. CASE at # SofLen + 1
      BY <1>1, <1>2, <1>p, <1>r, <2>2 DEF HeaderSoFar, F, InRange, Typed
    <2> QED BY <2>1, <2>2
  <1>9. ReadSize(ch) /\ max' = max - 1 /\ field' = 1
    <2>1. ~Dropped(ch) /\ ~FirstOfRaw(ch)
      BY <1>6, <1>7 DEF Dropped, FirstOfRaw
    <2>2. max' = MaxAfter(ch) /\ Decode(ch) /\ (field' = IF ch = ":" THEN field + 1 ELSE field)
      BY CharRead DEF ch
    <2> QED BY <1>6, <1>7, <2>1, <2>2 DEF Decode, MaxAfter
  <1>10. /\ sof' = sof /\ dst' = dst /\ src' = src /\ payload' = payload
         /\ rawSz' = F(at - SofLen) /\ rawSz' \in Nat
    BY <1>4, <1>5, <1>8, <1>9 DEF ReadSize
  <1>11. max = MaxPayload - failed - at /\ lost = 0
    BY <1>1, <1>p, <1>r DEF BudgetSoFar
  <1>12. InRange' /\ Written'
    <2>1. max' \in 0..MaxPayload /\ field' \in 0..2
      BY <1>9, <1>r
    <2>2. /\ sof' \in Seq(Chars) /\ dst' \in Addresses /\ src' \in Addresses
          /\ payload' \in Seq(Chars)
      BY <1>10 DEF InRange, Typed
    <2> QED BY <1>10, <2>1, <2>2, CharTyped
  <1>13. HeaderSoFar(f)'
    <2>1. Len(sof') = Least(at', SofLen) /\ \A i \in 1..Len(sof') : sof'[i] = line'[i]
      BY <1>1, <1>7, <1>10, <1>p, <1>r DEF HeaderSoFar, Least
    <2>2. /\ dst' = IF at' > EcuLen THEN f.dst ELSE "none"
          /\ src' = IF at' >= SofLen THEN f.src ELSE "none"
      BY <1>1, <1>10, <1>p, <1>r DEF HeaderSoFar
    <2>3. field' = IF at' <= SofLen THEN 0 ELSE IF at' < HeaderLen(f) THEN 1 ELSE 2
      BY <1>9, <1>p, <1>r
    <2>4. rawSz' = IF at' <= SofLen + 1 \/ f.kind = "ASCII" THEN 0
                   ELSE IF at' < HeaderLen(f)
                   THEN FirstDigits(Len(f.payload), SizeLen(f), at' - SofLen - 1)
                   ELSE Len(f.payload)
      <3>1. at' > SofLen + 1 /\ at' < HeaderLen(f) /\ at' - SofLen - 1 = at - SofLen
        BY <1>p, <1>r
      <3> QED BY <1>2, <1>10, <1>p, <1>r, <3>1 DEF F
    <2> QED BY <2>1, <2>2, <2>3, <2>4 DEF HeaderSoFar
  <1>14. PayloadSoFar(f)'
    BY <1>7, <1>10, <1>p, <1>r DEF PayloadSoFar
  <1>15. BudgetSoFar(f)'
    BY <1>9, <1>11, <1>p, <1>r DEF BudgetSoFar
  <1> QED BY <1>12, <1>13, <1>14, <1>15, InFrameNext

\* The payload: the first byte of a RAW one fixes the budget.
LEMMA ReadPayloads ==
  ASSUME NEW f \in Frames, sent = <<f>>, InRange, Written, InFrame, ReadChar,
         at >= HeaderLen(f), at < FrameLen(f)
  PROVE  InRange' /\ Written' /\ InFrame'
  <1> DEFINE ch == line[at + 1]
  <1>p. /\ EcuLen \in Nat /\ EcuLen > 0 /\ SofLen = 2 * EcuLen + 1
        /\ SizeLen(f) \in Nat /\ HeaderLen(f) = SofLen + 2 + SizeLen(f)
        /\ Len(f.payload) \in Nat /\ FrameLen(f) = HeaderLen(f) + Len(f.payload)
        /\ f.kind \in {"ASCII", "RAW"} /\ (f.kind = "RAW" => Len(f.payload) > 0)
    BY Places
  <1>r. /\ at \in Nat /\ at + 1 <= Len(line) /\ at' = at + 1 /\ ch \in Chars
        /\ max \in Nat /\ max > 0 /\ max <= MaxPayload /\ MaxPayload \in Nat
        /\ failed \in Nat /\ failed' = failed /\ lost' = lost /\ line' = line /\ lost \in Nat
    BY CharRead
  <1>1. HeaderSoFar(f) /\ PayloadSoFar(f) /\ BudgetSoFar(f)
    BY InFrameOf
  <1>i. at + 1 > HeaderLen(f) /\ at + 1 <= FrameLen(f)
    BY <1>p, <1>r
  <1> DEFINE k == at + 1
  <1> HIDE DEF k
  <1>j. k \in Nat /\ k > 0 /\ k <= Len(line) /\ k > HeaderLen(f) /\ k <= FrameLen(f) /\ k = at + 1
    BY <1>i, <1>r DEF k
  <1>k. line[k] = ch
    BY <1>j
  <1>l. line[k] \notin {"LF", "CR", ":"}
    BY <1>j, CharAt
  <1>m. f.kind = "ASCII" => line[k] \notin Controls
    BY <1>j, CharAt
  <1>n. line[k] = f.payload[k - HeaderLen(f)]
    BY <1>j, CharAt
  <1> HIDE DEF ch
  <1>o. ch = f.payload[k - HeaderLen(f)]
    BY <1>k, <1>n
  <1>2. ch # ":" /\ (f.kind = "ASCII" => ch \notin Controls)
    BY <1>k, <1>l, <1>m
  <1>3. /\ field = 2 /\ Len(sof) = SofLen
        /\ rawSz = IF f.kind = "ASCII" THEN 0 ELSE Len(f.payload)
        /\ payload \in Seq(Chars) /\ Len(payload) = at - HeaderLen(f)
        /\ (payload = <<>> <=> at = HeaderLen(f))
    <2>1. field = 2 /\ Len(sof) = SofLen /\ rawSz = IF f.kind = "ASCII" THEN 0 ELSE Len(f.payload)
      BY <1>1, <1>p, <1>r DEF HeaderSoFar, Least
    <2>2. Len(payload) = at - HeaderLen(f)
      BY <1>1, <1>p, <1>r DEF PayloadSoFar, Least
    <2>3. payload \in Seq(Chars)
      BY DEF InRange, Typed
    <2>4. payload = <<>> <=> Len(payload) = 0
      BY <2>3
    <2> QED BY <2>1, <2>2, <2>3, <2>4, <1>p, <1>r
  <1>4. /\ ReadPayload(ch) /\ field' = 2
        /\ max' = IF f.kind = "RAW" /\ at = HeaderLen(f) THEN Len(f.payload) - 1 ELSE max - 1
    <2>1. ~Dropped(ch) /\ (FirstOfRaw(ch) <=> f.kind = "RAW" /\ at = HeaderLen(f))
      BY <1>2, <1>3, <1>p DEF Dropped, FirstOfRaw
    <2>2. max' = MaxAfter(ch) /\ Decode(ch) /\ (field' = IF ch = ":" THEN field + 1 ELSE field)
      BY CharRead DEF ch
    <2> QED BY <1>2, <1>3, <1>p, <2>1, <2>2 DEF Decode, MaxAfter
  <1>5. /\ sof' = sof /\ dst' = dst /\ src' = src /\ rawSz' = rawSz
        /\ payload' = Append(payload, ch)
    BY <1>4 DEF ReadPayload
  <1>a. /\ payload' \in Seq(Chars) /\ Len(payload') = Len(payload) + 1
        /\ \A i \in 1..Len(payload) : payload'[i] = payload[i]
        /\ payload'[Len(payload) + 1] = ch
    BY <1>3, <1>5, <1>r, AppendProperties
  <1>b. Len(payload') = at' - HeaderLen(f) /\ Len(payload) \in Nat
        /\ Len(payload) + 1 = at + 1 - HeaderLen(f)
    BY <1>3, <1>a, <1>p, <1>r
  <1>6. \A i \in 1..Len(payload') : payload'[i] = f.payload[i]
    <2>3. \A i \in 1..Len(payload) : payload[i] = f.payload[i]
      BY <1>1 DEF PayloadSoFar
    <2>4. payload'[Len(payload) + 1] = f.payload[Len(payload) + 1]
      <3>1. Len(payload) + 1 = k - HeaderLen(f)
        BY <1>b, <1>j, <1>p, <1>r
      <3> QED BY <1>o, <1>a, <3>1
    <2>5. \A i \in 1..Len(payload') : i \in 1..Len(payload) \/ i = Len(payload) + 1
      BY <1>a, <1>b
    <2> QED BY <1>a, <2>3, <2>4, <2>5
  <1>7. FrameLen(f) <= MaxPayload
    BY <1>p, <1>r, LineOf, BoundsAssumption DEF InRange, Typed
  <1>8. InRange' /\ Written'
    <2>1. max' \in 0..MaxPayload /\ field' \in 0..2
      BY <1>4, <1>7, <1>p, <1>r
    <2>2. /\ sof' \in Seq(Chars) /\ dst' \in Addresses /\ src' \in Addresses /\ rawSz' \in Nat
      BY <1>5 DEF InRange, Typed
    <2> QED BY <1>a, <2>1, <2>2, CharTyped
  <1>9. HeaderSoFar(f)'
    <2>1. Len(sof') = Least(at', SofLen) /\ \A i \in 1..Len(sof') : sof'[i] = line'[i]
      BY <1>1, <1>3, <1>5, <1>p, <1>r DEF HeaderSoFar, Least
    <2>2. /\ dst' = IF at' > EcuLen THEN f.dst ELSE "none"
          /\ src' = IF at' >= SofLen THEN f.src ELSE "none"
      BY <1>1, <1>5, <1>p, <1>r DEF HeaderSoFar
    <2>3. /\ ~(at' <= SofLen) /\ ~(at' < HeaderLen(f)) /\ ~(at' <= SofLen + 1)
      BY <1>p, <1>r
    <2>4. rawSz' = IF f.kind = "ASCII" THEN 0 ELSE Len(f.payload)
      BY <1>3, <1>5
    <2> HIDE DEF ch
    <2> QED BY <1>4, <2>1, <2>2, <2>3, <2>4 DEF HeaderSoFar
  <1>10. PayloadSoFar(f)'
    <2>1. ~(at' <= HeaderLen(f)) /\ at' = at + 1
      BY <1>p, <1>r
    <2>2. Len(payload') = at' - HeaderLen(f)
      BY <1>b
    <2>3. at' - HeaderLen(f) <= Len(f.payload)
      BY <1>p, <1>r
    <2>4. Least(at' - HeaderLen(f), Len(f.payload)) = at' - HeaderLen(f)
      BY <2>3, <1>p, <1>r DEF Least
    <2>5. \A i \in 1..Len(payload') : payload'[i] = f.payload[i]
      BY <1>6
    <2>6. Len(payload') = IF at' <= HeaderLen(f) THEN 0
                          ELSE Least(at' - HeaderLen(f), Len(f.payload))
      BY <2>1, <2>2, <2>4
    <2> QED BY <2>5, <2>6, <1>p, <1>r DEF PayloadSoFar
  <1>11. BudgetSoFar(f)'
    <2>1. at' > HeaderLen(f) /\ at' = at + 1
      BY <1>p, <1>r
    <2>2. CASE f.kind = "RAW" /\ at = HeaderLen(f)
      <3>1. max' = Len(f.payload) - 1 /\ lost = 0
        BY <1>1, <1>4, <1>p, <1>r, <2>2 DEF BudgetSoFar
      <3>2. max' = FrameLen(f) - at' - lost' /\ lost' <= failed' /\ ~(lost' > 0)
        BY <1>p, <1>r, <2>2, <3>1
      <3> QED BY <2>1, <2>2, <3>2 DEF BudgetSoFar
    <2>3. CASE f.kind = "RAW" /\ at # HeaderLen(f)
      <3>1. at > HeaderLen(f)
        BY <1>p, <1>r, <2>3
      <3>2. /\ max = FrameLen(f) - at - lost /\ lost <= failed
            /\ lost > 0 => Len(line) = FrameLen(f) + 1 /\ lost <= SofLen
        BY <1>1, <2>3, <3>1 DEF BudgetSoFar
      <3>3. max' = FrameLen(f) - at' - lost'
        <4>1. max' = max - 1
          BY <1>4, <2>3
        <4>2. FrameLen(f) \in Nat
          BY Places
        <4> QED BY <1>r, <3>2, <4>1, <4>2
      <3>4. /\ lost' <= failed'
            /\ lost' > 0 => Len(line') = FrameLen(f) + 1 /\ lost' <= SofLen
        BY <1>r, <3>2
      <3> QED BY <2>1, <2>3, <3>3, <3>4 DEF BudgetSoFar
    <2>4. CASE f.kind # "RAW"
      <3>1. max = MaxPayload - failed - at /\ lost = 0
        BY <1>1, <2>4 DEF BudgetSoFar
      <3>2. max' = MaxPayload - failed' - at' /\ lost' = 0
        BY <1>4, <1>r, <2>4, <3>1
      <3> QED BY <2>4, <3>2 DEF BudgetSoFar
    <2> QED BY <2>2, <2>3, <2>4
  <1> QED BY <1>8, <1>9, <1>10, <1>11, InFrameNext

LEMMA ReadInFrame ==
  ASSUME NEW f \in Frames, sent = <<f>>, InRange, Written, InFrame, ReadChar
  PROVE  InRange' /\ Written' /\ InFrame'
  <1>p. /\ EcuLen \in Nat /\ EcuLen > 0 /\ SofLen = 2 * EcuLen + 1
        /\ SizeLen(f) \in Nat /\ HeaderLen(f) = SofLen + 2 + SizeLen(f)
        /\ Len(f.payload) \in Nat /\ FrameLen(f) = HeaderLen(f) + Len(f.payload)
        /\ f.kind \in {"ASCII", "RAW"} /\ (f.kind = "RAW" => Len(f.payload) > 0)
    BY Places
  <1>r. /\ at \in Nat /\ at + 1 <= Len(line) /\ max > 0 /\ max \in Nat /\ lost \in Nat
    BY CharRead
  <1>l. Len(line) = FrameLen(f) \/ Len(line) = FrameLen(f) + 1
    BY LineOf
  <1>1. CASE at < SofLen
    BY <1>1, ReadAddresses
  <1>2. CASE at = SofLen \/ at + 1 = HeaderLen(f)
    BY <1>2, ReadSeparator
  <1>3. CASE at > SofLen /\ at + 1 < HeaderLen(f)
    BY <1>3, ReadSizes
  <1>4. CASE at >= HeaderLen(f) /\ at < FrameLen(f)
    BY <1>4, ReadPayloads
  <1>5. CASE at >= FrameLen(f)
    <2>1. at = FrameLen(f)
      BY <1>5, <1>p, <1>r, <1>l
    <2>2. BudgetSoFar(f)
      BY InFrameOf
    <2>3. ASSUME f.kind = "RAW" PROVE FALSE
      <3>1. at > HeaderLen(f)
        BY <1>p, <2>1, <2>3
      <3>2. max = FrameLen(f) - at - lost
        BY <2>2, <2>3, <3>1 DEF BudgetSoFar
      <3> QED BY <1>p, <1>r, <2>1, <3>2
    <2>4. f.kind = "ASCII"
      BY <1>p, <2>3
    <2> QED BY <2>1, <2>4, ReadSeparator
  <1> QED BY <1>1, <1>2, <1>3, <1>4, <1>5, <1>p, <1>r

-------------------------------------------------------------------------------
(* A character after the frame: its line feed, or the rest of a payload.   *)

LEMMA ReadBetween ==
  ASSUME NEW f \in Frames, sent = <<f>>, InRange, Written, Between, ReadChar
  PROVE  InRange' /\ Written' /\ Between'
  <1> DEFINE ch == line[at + 1]
  <1>p. FrameLen(f) \in Nat
    BY Places
  <1>r. /\ at \in Nat /\ at + 1 <= Len(line) /\ at' = at + 1
        /\ max \in Nat /\ max > 0 /\ max <= MaxPayload /\ MaxPayload \in Nat
        /\ sent' = sent /\ line' = line /\ lost' = lost /\ got' = got /\ c' = ch
    BY CharRead
  <1>1. sent[1] = f /\ sent # <<>>
    OBVIOUS
  <1>2. /\ field = 0 /\ sof = <<>> /\ dst = "none" /\ src = "none"
        /\ rawSz = 0 /\ payload = <<>> /\ at >= FrameLen(f) /\ (lost = 0 => got = sent)
    BY <1>1 DEF Between, Fresh
  <1>3. at + 1 > FrameLen(f) /\ at + 1 \in Nat /\ at + 1 > 0
    BY <1>2, <1>p, <1>r
  <1>4. ch = "LF" /\ at + 1 = Len(line)
    BY <1>3, <1>r, CharAt
  <1> HIDE DEF ch
  <1>5. UNCHANGED frame /\ max' = max - 1 /\ field' = 0
    <2>1. Dropped(ch) /\ ~FirstOfRaw(ch)
      BY <1>2, <1>4 DEF Dropped, FirstOfRaw, Controls
    <2>2. max' = MaxAfter(ch) /\ Decode(ch) /\ (field' = IF ch = ":" THEN field + 1 ELSE field)
      BY CharRead DEF ch
    <2> QED BY <1>2, <1>4, <2>1, <2>2 DEF Decode, MaxAfter
  <1>6. Fresh'
    BY <1>2, <1>5 DEF Fresh, frame
  <1>7. InRange' /\ Written'
    <2>1. max' \in 0..MaxPayload /\ field' \in 0..2
      BY <1>5, <1>r
    <2>2. /\ sof' \in Seq(Chars) /\ dst' \in Addresses /\ src' \in Addresses
          /\ rawSz' \in Nat /\ payload' \in Seq(Chars)
      BY <1>5 DEF InRange, Typed, frame
    <2> QED BY <2>1, <2>2, CharTyped
  <1>8. /\ sent'[1] = f /\ at' >= FrameLen(f) /\ (lost' = 0 => got' = sent')
        /\ c' = "LF" /\ at' = Len(line')
    BY <1>1, <1>2, <1>4, <1>p, <1>r
  <1> QED BY <1>6, <1>7, <1>8 DEF Between

LEMMA IdTyped ==
  ASSUME NEW name PROVE Id(name) \in Addresses
  BY DEF Id, Addresses

LEMMA ReadLeftover ==
  ASSUME NEW f \in Frames, sent = <<f>>, InRange, Written, Leftover, ReadChar
  PROVE  InRange' /\ Written' /\ Leftover'
  <1> DEFINE ch == line[at + 1]
  <1>p. FrameLen(f) \in Nat /\ HeaderLen(f) \in Nat
    BY Places
  <1>r. /\ at \in Nat /\ at + 1 <= Len(line) /\ at' = at + 1 /\ ch \in Chars
        /\ max \in Nat /\ max > 0 /\ max <= MaxPayload /\ MaxPayload \in Nat /\ lost \in Nat
        /\ sent' = sent /\ line' = line /\ lost' = lost /\ got' = got /\ c' = ch
    BY CharRead
  <1>1. sent[1] = f /\ sent # <<>>
    OBVIOUS
  <1>2. /\ f.kind = "RAW" /\ Len(line) = FrameLen(f) + 1
        /\ field = 0 /\ rawSz = 0 /\ payload = <<>>
        /\ at > HeaderLen(f) /\ lost > 0 /\ lost <= SofLen
        /\ Len(sof) + FrameLen(f) - Least(at, FrameLen(f)) <= lost
    BY <1>1 DEF Leftover
  <1>3. at + 1 \in Nat /\ at + 1 > 0 /\ at + 1 > HeaderLen(f)
    BY <1>2, <1>p, <1>r
  <1>4. CASE at < FrameLen(f)
    <2>1. at + 1 <= FrameLen(f)
      BY <1>4, <1>p, <1>r
    <2>2. ch \notin {"LF", "CR", ":"}
      BY <1>3, <1>r, <2>1, CharAt
    <2> HIDE DEF ch
    <2>3. /\ max' = max - 1 /\ field' = 0 /\ rawSz' = 0 /\ payload' = <<>>
          /\ \/ sof' = sof /\ dst' = dst /\ src' = src
             \/ ReadSof(ch)
      <3>1. ~FirstOfRaw(ch)
        BY <1>2 DEF FirstOfRaw
      <3>2. max' = MaxAfter(ch) /\ Decode(ch) /\ (field' = IF ch = ":" THEN field + 1 ELSE field)
        BY CharRead DEF ch
      <3>3. field' = 0 /\ max' = max - 1
        BY <1>2, <2>2, <3>1, <3>2 DEF MaxAfter
      <3>4. UNCHANGED frame \/ ReadSof(ch)
        BY <1>2, <3>2 DEF Decode
      <3>5. CASE UNCHANGED frame
        BY <1>2, <3>3, <3>5 DEF frame
      <3>6. CASE ReadSof(ch)
        BY <1>2, <3>3, <3>6 DEF ReadSof
      <3> QED BY <3>4, <3>5, <3>6
    <2>4. sof \in Seq(Chars) /\ dst \in Addresses /\ src \in Addresses
      BY DEF InRange, Typed
    <2>5. /\ sof' \in Seq(Chars) /\ dst' \in Addresses /\ src' \in Addresses
          /\ Len(sof') <= Len(sof) + 1 /\ Len(sof') \in Nat /\ Len(sof) \in Nat
      <3>1. CASE sof' = sof /\ dst' = dst /\ src' = src
        <4>1. Len(sof) \in Nat
          BY <2>4
        <4> QED BY <2>4, <3>1, <4>1
      <3>2. CASE ReadSof(ch)
        <4>1. sof' = Append(sof, ch) /\ dst' \in Addresses /\ src' \in Addresses
          BY <2>4, <3>2, IdTyped DEF ReadSof
        <4>2. sof' \in Seq(Chars) /\ Len(sof') = Len(sof) + 1 /\ Len(sof) \in Nat
          BY <1>r, <2>4, <4>1, AppendProperties
        <4> QED BY <4>1, <4>2
      <3> QED BY <2>3, <3>1, <3>2
    <2>6. InRange' /\ Written'
      <3>1. /\ max' \in 0..MaxPayload /\ field' \in 0..2
            /\ rawSz' \in Nat /\ payload' \in Seq(Chars)
        BY <1>r, <2>3
      <3> QED BY <2>5, <3>1, CharTyped
    <2>7. Len(sof') + FrameLen(f) - Least(at', FrameLen(f)) <= lost'
      BY <1>2, <1>4, <1>p, <1>r, <2>5 DEF Least
    <2>8. sent'[1] = f /\ sent' # <<>> /\ at' > HeaderLen(f) /\ lost' > 0
          /\ lost' <= SofLen /\ Len(line') = FrameLen(f) + 1
      BY <1>1, <1>2, <1>p, <1>r
    <2>9. c' # "CR" /\ c' # "LF" /\ at' # Len(line')
      BY <1>2, <1>4, <1>p, <1>r, <2>2
    <2> QED BY <1>2, <2>3, <2>6, <2>7, <2>8, <2>9 DEF Leftover
  <1>5. CASE at >= FrameLen(f)
    <2>1. ch = "LF" /\ at + 1 = Len(line)
      <3>1. at + 1 > FrameLen(f)
        BY <1>5, <1>p, <1>r
      <3> QED BY <1>3, <1>r, <3>1, CharAt
    <2> HIDE DEF ch
    <2>2. UNCHANGED frame /\ max' = max - 1 /\ field' = 0
      <3>1. Dropped(ch) /\ ~FirstOfRaw(ch)
        BY <1>2, <2>1 DEF Dropped, FirstOfRaw, Controls
      <3>2. max' = MaxAfter(ch) /\ Decode(ch) /\ (field' = IF ch = ":" THEN field + 1 ELSE field)
        BY CharRead DEF ch
      <3> QED BY <1>2, <2>1, <3>1, <3>2 DEF Decode, MaxAfter
    <2>3. sof' = sof /\ rawSz' = 0 /\ payload' = <<>> /\ dst' = dst /\ src' = src
      BY <1>2, <2>2 DEF frame
    <2>4. InRange' /\ Written'
      <3>1. max' \in 0..MaxPayload /\ field' \in 0..2
        BY <1>r, <2>2
      <3>2. /\ sof' \in Seq(Chars) /\ dst' \in Addresses /\ src' \in Addresses
            /\ rawSz' \in Nat /\ payload' \in Seq(Chars)
        BY <2>3 DEF InRange, Typed
      <3> QED BY <3>1, <3>2, CharTyped
    <2>5. Least(at', FrameLen(f)) = Least(at, FrameLen(f))
      BY <1>5, <1>p, <1>r DEF Least
    <2>6. Len(sof') + FrameLen(f) - Least(at', FrameLen(f)) <= lost'
      BY <1>2, <1>r, <2>3, <2>5
    <2>7. sent'[1] = f /\ sent' # <<>> /\ at' > HeaderLen(f) /\ lost' > 0
          /\ lost' <= SofLen /\ Len(line') = FrameLen(f) + 1
      BY <1>1, <1>2, <1>p, <1>r
    <2>8. c' = "LF" /\ at' = Len(line')
      BY <1>r, <2>1
    <2> QED BY <1>2, <2>2, <2>3, <2>4, <2>6, <2>7, <2>8 DEF Leftover
  <1> QED BY <1>4, <1>5, <1>p, <1>r

LEMMA CharStep ==
  ASSUME InStep, ReadChar PROVE InStep'
  <1>1. InRange /\ Written /\ (Between \/ InFrame \/ Leftover)
    BY DEF InStep
  <1>2. CASE sent = <<>>
    <2>1. line = <<>>
      BY <1>1, <1>2 DEF Written
    <2>2. Len(line) = 0
      BY <2>1
    <2>3. at \in Nat /\ at + 1 <= Len(line)
      BY <1>1, CharRead
    <2> QED BY <2>2, <2>3
  <1>3. CASE sent # <<>>
    <2>1. PICK f \in Frames : sent = <<f>>
      BY <1>1, <1>3 DEF InRange, Typed
    <2>2. CASE Between
      BY <1>1, <2>1, <2>2, ReadBetween DEF InStep
    <2>3. CASE InFrame
      BY <1>1, <2>1, <2>3, ReadInFrame DEF InStep
    <2>4. CASE Leftover
      BY <1>1, <2>1, <2>4, ReadLeftover DEF InStep
    <2> QED BY <1>1, <2>2, <2>3, <2>4
  <1> QED BY <1>2, <1>3

-------------------------------------------------------------------------------
(* A read that fails.                                                      *)

LEMMA FailStep ==
  ASSUME InStep, FailRead, ~astray' PROVE InStep'
  <1>1. InRange /\ Written /\ (Between \/ InFrame \/ Leftover)
    BY DEF InStep
  <1>2. /\ c \notin {"LF", "CR"} /\ max > 0 /\ failed < MaxFailures
        /\ failed' = failed + 1 /\ max' = max - 1
        /\ lost' = IF InRawPayload THEN lost + 1 ELSE lost
        /\ InRawPayload => line[Len(line)] = "LF" /\ ~(lost >= SofLen)
    BY DEF FailRead, More
  <1>3. /\ sent' = sent /\ line' = line /\ at' = at /\ c' = c /\ field' = field /\ got' = got
        /\ sof' = sof /\ dst' = dst /\ src' = src /\ rawSz' = rawSz /\ payload' = payload
    BY DEF FailRead, frame
  <1>4. /\ MaxFailures \in Nat /\ MaxPayload \in Nat /\ max \in 0..MaxPayload /\ max \in Nat
        /\ failed \in Nat /\ lost \in Nat /\ lost <= MaxFailures /\ at \in Nat
    BY <1>1, Bounds, BoundsAssumption DEF InRange, Typed
  <1>5. Written'
    BY <1>1, <1>3 DEF Written
  <1>6. ASSUME lost' \in 0..MaxFailures PROVE InRange'
    <2>1. failed' \in 0..MaxFailures /\ max' \in 0..MaxPayload
      BY <1>2, <1>4
    <2> QED BY <1>1, <1>3, <1>6, <2>1 DEF InRange, Typed
  <1>7. ~InRawPayload => lost' \in 0..MaxFailures /\ lost' = lost
    BY <1>2, <1>4
  <1>8. CASE Between
    <2>1. rawSz = 0 /\ c = "none" /\ max = MaxPayload - failed
      BY <1>2, <1>8 DEF Between, Fresh
    <2>2. ~InRawPayload
      BY <2>1 DEF InRawPayload
    <2>3. Fresh'
      BY <1>3, <1>8 DEF Between, Fresh
    <2>4. max' = MaxPayload - failed' /\ lost' = lost
      BY <1>2, <1>4, <1>7, <2>1, <2>2
    <2>5. Between'
      BY <1>3, <1>8, <2>1, <2>3, <2>4 DEF Between
    <2> QED BY <1>5, <1>6, <1>7, <2>2, <2>5 DEF InStep
  <1>9. CASE InFrame
    <2>1. PICK f \in Frames : sent = <<f>>
      BY <1>1, <1>9 DEF InRange, Typed, InFrame
    <2>2. HeaderSoFar(f) /\ PayloadSoFar(f) /\ BudgetSoFar(f) /\ got = <<>>
          /\ (c = IF at = 0 THEN "none" ELSE line[at])
      BY <1>9, <2>1, InFrameOf
    <2>p. /\ EcuLen \in Nat /\ EcuLen > 0 /\ SofLen = 2 * EcuLen + 1
          /\ SizeLen(f) \in Nat /\ HeaderLen(f) = SofLen + 2 + SizeLen(f)
          /\ Len(f.payload) \in Nat /\ FrameLen(f) = HeaderLen(f) + Len(f.payload)
          /\ f.kind \in {"ASCII", "RAW"} /\ (f.kind = "RAW" => Len(f.payload) > 0)
      BY Places
    <2>3. HeaderSoFar(f)' /\ PayloadSoFar(f)'
      BY <1>3, <2>2 DEF HeaderSoFar, PayloadSoFar
    <2>4. InRawPayload <=> f.kind = "RAW" /\ at > HeaderLen(f)
      <3>1. payload \in Seq(Chars)
        BY <1>1 DEF InRange, Typed
      <3>2. payload # <<>> <=> Len(payload) # 0
        BY <3>1
      <3>3. payload # <<>> => at > HeaderLen(f)
        BY <2>2, <2>p, <3>2, <1>4 DEF PayloadSoFar
      <3>4. rawSz > 0 /\ payload # <<>> => f.kind = "RAW"
        BY <2>2, <2>p DEF HeaderSoFar
      <3>5. ASSUME f.kind = "RAW", at > HeaderLen(f) PROVE rawSz > 0 /\ payload # <<>>
        <4>1. rawSz = Len(f.payload)
          BY <2>2, <2>p, <1>4, <3>5 DEF HeaderSoFar
        <4>2. Len(payload) = Least(at - HeaderLen(f), Len(f.payload))
          BY <2>2, <2>p, <1>4, <3>5 DEF PayloadSoFar
        <4>3. Len(payload) > 0
          BY <4>2, <2>p, <1>4, <3>5 DEF Least
        <4> QED BY <2>p, <3>2, <3>5, <4>1, <4>3
      <3> QED BY <3>3, <3>4, <3>5 DEF InRawPayload
    <2>5. BudgetSoFar(f)' /\ lost' \in 0..MaxFailures
      <3>1. CASE InRawPayload
        <4>1. f.kind = "RAW" /\ at > HeaderLen(f)
          BY <2>4, <3>1
        <4>2. max = FrameLen(f) - at - lost /\ lost <= failed
          BY <2>2, <4>1 DEF BudgetSoFar
        <4>3. Len(line) = FrameLen(f) + 1
          BY <1>1, <1>2, <2>1, <3>1, LineOf
        <4>4. /\ lost' = lost + 1 /\ lost' <= failed' /\ lost' \in 0..MaxFailures
              /\ lost' <= SofLen
          BY <1>2, <1>4, <3>1, <4>2, Bounds
        <4>5. max' = FrameLen(f) - at' - lost'
          <5>1. FrameLen(f) \in Nat
            BY Places
          <5> QED BY <1>2, <1>3, <1>4, <4>2, <4>4, <5>1
        <4>6. Len(line') = FrameLen(f) + 1 /\ at' > HeaderLen(f)
          BY <1>3, <4>1, <4>3
        <4> QED BY <4>1, <4>4, <4>5, <4>6 DEF BudgetSoFar
      <3>2. CASE ~InRawPayload
        <4>1. ~(f.kind = "RAW" /\ at > HeaderLen(f))
          BY <2>4, <3>2
        <4>2. max = MaxPayload - failed - at /\ lost = 0
          BY <2>2, <4>1 DEF BudgetSoFar
        <4>3. max' = MaxPayload - failed' - at' /\ lost' = 0
          BY <1>2, <1>3, <1>4, <1>7, <3>2, <4>2
        <4>4. ~(f.kind = "RAW" /\ at' > HeaderLen(f))
          BY <1>3, <4>1
        <4> QED BY <1>7, <3>2, <4>3, <4>4 DEF BudgetSoFar
      <3> QED BY <3>1, <3>2
    <2>6. sent'[1] = f /\ sent' # <<>> /\ got' = <<>>
          /\ (c' = IF at' = 0 THEN "none" ELSE line'[at'])
      BY <1>3, <2>1, <2>2
    <2>7. InFrame'
      BY <2>3, <2>5, <2>6 DEF InFrame
    <2> QED BY <1>5, <1>6, <2>5, <2>7 DEF InStep
  <1>10. CASE Leftover
    <2>1. ~InRawPayload
      BY <1>10 DEF Leftover, InRawPayload
    <2>2. lost' = lost
      BY <1>7, <2>1
    <2>3. Leftover'
      BY <1>3, <1>10, <2>2 DEF Leftover
    <2> QED BY <1>5, <1>6, <1>7, <2>1, <2>3 DEF InStep
  <1> QED BY <1>1, <1>8, <1>9, <1>10

-------------------------------------------------------------------------------
(* The next frame: only between two frames does the parser wait for more.  *)

LEMMA NothingOpen ==
  ASSUME InStep, at = Len(line), More
  PROVE  Between
  <1>1. InRange /\ Written /\ (Between \/ InFrame \/ Leftover)
    BY DEF InStep
  <1>2. c \notin {"LF", "CR"} /\ max > 0
    BY DEF More
  <1>3. ~Leftover
    BY <1>2 DEF Leftover
  <1>4. ASSUME InFrame PROVE FALSE
    <2>1. PICK f \in Frames : sent = <<f>>
      BY <1>1, <1>4 DEF InRange, Typed, InFrame
    <2>2. BudgetSoFar(f) /\ (c = IF at = 0 THEN "none" ELSE line[at])
      BY <1>4, <2>1, InFrameOf
    <2>p. /\ HeaderLen(f) \in Nat /\ HeaderLen(f) > 0
          /\ Len(f.payload) \in Nat /\ FrameLen(f) = HeaderLen(f) + Len(f.payload)
          /\ f.kind \in {"ASCII", "RAW"} /\ (f.kind = "RAW" => Len(f.payload) > 0)
      BY Places
    <2>3. Len(line) = FrameLen(f) \/ Len(line) = FrameLen(f) + 1
      BY <1>1, <2>1, LineOf
    <2>4. CASE Len(line) = FrameLen(f) + 1
      <3>1. line[Len(line)] = "LF"
        BY <1>1, <2>1, <2>4, LineOf
      <3>2. at # 0
        BY <2>p, <2>4
      <3> QED BY <1>2, <2>2, <3>1, <3>2
    <2>5. CASE Len(line) = FrameLen(f)
      <3>1. f.kind = "RAW"
        <4>1. Len(line) # FrameLen(f) + 1
          BY <2>p, <2>5
        <4>2. f.kind # "ASCII"
          BY <1>1, <2>1, <4>1, LineOf
        <4> QED BY <2>p, <4>2
      <3>2. at > HeaderLen(f) /\ at = FrameLen(f) /\ at \in Nat
        BY <2>p, <2>5, <3>1
      <3>3. max = FrameLen(f) - at - lost
        BY <2>2, <3>1, <3>2 DEF BudgetSoFar
      <3>4. lost \in Nat
        BY <1>1 DEF InRange, Typed
      <3> QED BY <1>2, <3>2, <3>3, <3>4
    <2> QED BY <2>3, <2>4, <2>5
  <1> QED BY <1>1, <1>3, <1>4

LEMMA SendStep ==
  ASSUME InStep, NEW f \in Frames, NEW end \in Ends(f), Send(f, end)
  PROVE  InStep'
  <1>1. InRange /\ Between
    BY NothingOpen DEF InStep, Send
  <1>2. /\ sent' = <<f>> /\ line' = Encoding(f, end) /\ at' = 0 /\ lost' = 0 /\ got' = <<>>
        /\ failed' = failed /\ c' = c /\ max' = max /\ field' = field
        /\ sof' = sof /\ dst' = dst /\ src' = src /\ rawSz' = rawSz /\ payload' = payload
    BY DEF Send, parser, frame
  <1>3. c = "none" /\ max = MaxPayload - failed
    BY <1>1 DEF Between, Send, More
  <1>4. field = 0 /\ sof = <<>> /\ dst = "none" /\ src = "none" /\ rawSz = 0 /\ payload = <<>>
    BY <1>1 DEF Between, Fresh
  <1>p. /\ EcuLen \in Nat /\ EcuLen > 0 /\ SofLen = 2 * EcuLen + 1
        /\ HeaderLen(f) \in Nat /\ HeaderLen(f) > 0
    BY Places
  <1>5. sent'[1] = f /\ sent' # <<>>
    BY <1>2
  <1>6. Len(line') \in Nat /\ line' \in Seq(Chars)
    <2>1. Encoding(f, end) \in Seq(Chars)
      BY EncodingAt
    <2> QED BY <1>2, <2>1
  <1>7. InRange'
    <2>1. \E g \in Frames : sent' = <<g>>
      BY <1>2
    <2>2. at' \in 0..Len(line')
      BY <1>2, <1>6
    <2>3. MaxFailures \in Nat
      BY Bounds, BoundsAssumption
    <2>4. lost' \in 0..MaxFailures
      BY <1>2, <2>3
    <2>5. got' \in Seq([dst : Addresses, src : Addresses, kind : {"ASCII", "RAW"},
                         payload : Seq(Chars)])
      BY <1>2
    <2> QED BY <1>1, <1>2, <1>6, <2>1, <2>2, <2>4, <2>5 DEF InRange, Typed
  <1>8. Written'
    BY <1>2, <1>5 DEF Written
  <1>9. HeaderSoFar(f)'
    <2>1. Len(sof') = 0 /\ Least(at', SofLen) = 0 /\ sof' = <<>>
      BY <1>2, <1>4, <1>p DEF Least
    <2>2. ~(at' > EcuLen) /\ ~(at' >= SofLen) /\ at' <= SofLen /\ at' <= SofLen + 1
      BY <1>2, <1>p
    <2> QED BY <1>2, <1>4, <2>1, <2>2 DEF HeaderSoFar
  <1>10. PayloadSoFar(f)'
    <2>1. Len(payload') = 0 /\ at' <= HeaderLen(f)
      BY <1>2, <1>4, <1>p
    <2> QED BY <2>1 DEF PayloadSoFar
  <1>11. BudgetSoFar(f)'
    <2>1. ~(at' > HeaderLen(f))
      BY <1>2, <1>p
    <2>2. MaxPayload \in Nat /\ failed \in Nat
      BY <1>1, BoundsAssumption DEF InRange, Typed
    <2>3. max' = MaxPayload - failed' - at' /\ lost' = 0
      BY <1>2, <1>3, <2>2
    <2> QED BY <2>1, <2>3 DEF BudgetSoFar
  <1>12. InFrame'
    BY <1>2, <1>3, <1>5, <1>9, <1>10, <1>11 DEF InFrame
  <1> QED BY <1>7, <1>8, <1>12 DEF InStep

-------------------------------------------------------------------------------
(* The end of a frame.                                                     *)

Decoded == [dst |-> dst, src |-> src, kind |-> IF rawSz > 0 THEN "RAW" ELSE "ASCII",
            payload |-> Logged]

LEMMA LoggedTyped ==
  ASSUME Typed PROVE Decoded \in Record
  <1>1. payload \in Seq(Chars) /\ rawSz \in Nat /\ dst \in Addresses /\ src \in Addresses
    BY DEF Typed
  <1>2. Logged \in Seq(Chars)
    <2>1. CASE rawSz > 0
      <3>1. ASSUME NEW i \in 1..rawSz
            PROVE  (IF i <= Len(payload) THEN payload[i] ELSE "NUL") \in Chars
        <4>1. CASE i <= Len(payload)
          <5>1. i \in 1..Len(payload)
            BY <1>1, <4>1
          <5> QED BY <1>1, <4>1, <5>1, ElementOfSeq
        <4>2. CASE ~(i <= Len(payload))
          BY <4>2 DEF Chars, Controls
        <4> QED BY <4>1, <4>2
      <3>2. [i \in 1..rawSz |-> IF i <= Len(payload) THEN payload[i] ELSE "NUL"] \in Seq(Chars)
        BY <1>1, <3>1
      <3> QED BY <2>1, <3>2 DEF Logged
    <2>2. CASE ~(rawSz > 0)
      BY <1>1, <2>2 DEF Logged
    <2> QED BY <2>1, <2>2
  <1>3. (IF rawSz > 0 THEN "RAW" ELSE "ASCII") \in {"ASCII", "RAW"}
    OBVIOUS
  <1> QED BY <1>1, <1>2, <1>3 DEF Decoded, Record

LEMMA Ended ==
  ASSUME InRange, Written, EndFrame
  PROVE  /\ c' = "none" /\ max' = MaxPayload /\ failed' = 0 /\ Fresh'
         /\ sent' = sent /\ line' = line /\ at' = at /\ lost' = lost
         /\ (got' = IF Len(sof) + Len(payload) = 0 THEN got ELSE Append(got, Decoded))
         /\ InRange' /\ Written'
  <1>1. /\ c' = "none" /\ max' = MaxPayload /\ failed' = 0
        /\ field' = 0 /\ sof' = <<>> /\ dst' = "none" /\ src' = "none"
        /\ rawSz' = 0 /\ payload' = <<>>
        /\ sent' = sent /\ line' = line /\ at' = at /\ lost' = lost
    BY DEF EndFrame, Restart
  <1>2. got' = IF Len(sof) + Len(payload) = 0 THEN got ELSE Append(got, Decoded)
    BY DEF EndFrame, Decoded
  <1>3. Decoded \in Record
    BY LoggedTyped DEF InRange
  <1>4. got \in Seq(Record)
    BY DEF InRange, Typed, Record
  <1> HIDE DEF Record, Decoded
  <1>5. got' \in Seq(Record)
    BY <1>2, <1>3, <1>4, AppendProperties
  <1>6. MaxPayload \in Nat /\ MaxFailures \in Nat
    BY Bounds, BoundsAssumption
  <1>7. InRange'
    <2>1. max' \in 0..MaxPayload /\ failed' \in 0..MaxFailures
      BY <1>1, <1>6
    <2>2. /\ sof' \in Seq(Chars) /\ payload' \in Seq(Chars)
          /\ dst' \in Addresses /\ src' \in Addresses
      BY <1>1 DEF Addresses
    <2> QED BY <1>1, <1>5, <2>1, <2>2 DEF InRange, Typed, Record
  <1>8. Written'
    BY <1>1 DEF Written
  <1>9. Fresh'
    BY <1>1 DEF Fresh
  <1> QED BY <1>1, <1>2, <1>7, <1>8, <1>9

\* The whole frame has been read: it is what is decoded.
LEMMA DecodedFrame ==
  ASSUME NEW f \in Frames, sent = <<f>>, InRange, InFrame, at >= FrameLen(f)
  PROVE  Decoded = f
  <1>p. /\ EcuLen \in Nat /\ EcuLen > 0 /\ SofLen = 2 * EcuLen + 1
        /\ SizeLen(f) \in Nat /\ HeaderLen(f) = SofLen + 2 + SizeLen(f)
        /\ Len(f.payload) \in Nat /\ FrameLen(f) = HeaderLen(f) + Len(f.payload)
        /\ f.kind \in {"ASCII", "RAW"} /\ (f.kind = "RAW" => Len(f.payload) > 0)
    BY Places
  <1>1. HeaderSoFar(f) /\ PayloadSoFar(f) /\ at \in Nat
    BY InFrameOf DEF InRange, Typed
  <1>2. /\ dst = f.dst /\ src = f.src
        /\ rawSz = IF f.kind = "ASCII" THEN 0 ELSE Len(f.payload)
    BY <1>1, <1>p DEF HeaderSoFar
  <1>3. Len(payload) = Len(f.payload)
    BY <1>1, <1>p DEF PayloadSoFar, Least
  <1>4. payload \in Seq(Chars) /\ f.payload \in Seq(Chars)
    BY Payloads DEF InRange, Typed
  <1>5. payload = f.payload
    <2>1. \A i \in 1..Len(payload) : payload[i] = f.payload[i]
      BY <1>1 DEF PayloadSoFar
    <2> QED BY <1>3, <1>4, <2>1, SeqEqual
  <1>6. Logged = f.payload
    <2>1. CASE f.kind = "RAW"
      <3>1. rawSz > 0 /\ rawSz = Len(f.payload)
        BY <1>2, <1>p, <2>1
      <3>2. \A i \in 1..rawSz : i <= Len(payload)
        BY <1>3, <1>p, <3>1
      <3>3. Logged = [i \in 1..rawSz |-> payload[i]]
        BY <3>1, <3>2 DEF Logged
      <3>4. f.payload = [i \in 1..Len(f.payload) |-> f.payload[i]]
        BY <1>4
      <3> QED BY <1>5, <3>1, <3>3, <3>4
    <2>2. CASE f.kind = "ASCII"
      BY <1>2, <1>5, <2>2 DEF Logged
    <2> QED BY <1>p, <2>1, <2>2
  <1>7. (IF rawSz > 0 THEN "RAW" ELSE "ASCII") = f.kind
    BY <1>2, <1>p
  <1>8. f = [dst |-> f.dst, src |-> f.src, kind |-> f.kind, payload |-> f.payload]
    BY DEF Frames
  <1> QED BY <1>2, <1>6, <1>7, <1>8 DEF Decoded

\* A line end ends a frame only after its payload, and so does an empty budget
\* unless reads have failed in a RAW payload.
LEMMA FrameEnds ==
  ASSUME NEW f \in Frames, sent = <<f>>, InRange, Written, InFrame, EndFrame
  PROVE  \/ at >= FrameLen(f) /\ lost = 0
         \/ /\ f.kind = "RAW" /\ at > HeaderLen(f) /\ lost > 0
            /\ at = FrameLen(f) - lost /\ Len(line) = FrameLen(f) + 1
            /\ lost <= SofLen
  <1>p. /\ EcuLen \in Nat /\ EcuLen > 0 /\ SofLen = 2 * EcuLen + 1
        /\ SizeLen(f) \in Nat /\ HeaderLen(f) = SofLen + 2 + SizeLen(f)
        /\ Len(f.payload) \in Nat /\ FrameLen(f) = HeaderLen(f) + Len(f.payload)
        /\ FrameLen(f) \in Nat
        /\ f.kind \in {"ASCII", "RAW"} /\ (f.kind = "RAW" => Len(f.payload) > 0)
    BY Places
  <1>1. BudgetSoFar(f) /\ (c = IF at = 0 THEN "none" ELSE line[at])
    BY InFrameOf
  <1>2. /\ at \in Nat /\ at <= Len(line) /\ max \in Nat /\ failed \in Nat /\ lost \in Nat
        /\ failed <= MaxFailures /\ MaxPayload \in Nat /\ MaxFailures \in Nat
    BY BoundsAssumption, Bounds DEF InRange, Typed
  <1>3. FrameLen(f) + MaxFailures <= MaxPayload
    BY LineOf
  <1>4. c \in {"LF", "CR"} => at > FrameLen(f)
    <2>1. ASSUME c \in {"LF", "CR"}, at <= FrameLen(f) PROVE FALSE
      <3>1. at # 0 /\ c = line[at] /\ at > 0
        BY <1>1, <1>2, <2>1
      <3>2. CASE at <= SofLen
        BY <1>2, <2>1, <3>1, <3>2, CharAt DEF Controls
      <3>3. CASE at = SofLen + 1 \/ at = HeaderLen(f)
        <4>1. line[at] = ":"
          BY <1>2, <3>1, <3>3, CharAt
        <4> QED BY <2>1, <3>1, <4>1
      <3>4. CASE at > SofLen + 1 /\ at < HeaderLen(f)
        <4>1. at - SofLen - 1 \in 1..SizeLen(f) /\ line[at] = Size(f)[at - SofLen - 1]
          BY <1>2, <3>1, <3>4, CharAt
        <4>2. line[at] \in Digits
          BY <4>1, Sizes
        <4> QED BY <2>1, <3>1, <4>2 DEF Digits, Numerals
      <3>5. CASE at > HeaderLen(f)
        <4>1. line[at] \notin {"LF", "CR", ":"}
          BY <1>2, <2>1, <3>1, <3>5, CharAt
        <4> QED BY <2>1, <3>1, <4>1
      <3> QED BY <1>2, <1>p, <3>2, <3>3, <3>4, <3>5
    <2> QED BY <1>2, <1>p, <2>1
  <1>5. c \notin {"LF", "CR"} => max = 0
    <2>1. c \in {"LF", "CR"} \/ ~(max > 0)
      BY DEF EndFrame, More
    <2> QED BY <1>2, <2>1
  <1>6. CASE f.kind = "RAW" /\ at > HeaderLen(f)
    <2>1. /\ max = FrameLen(f) - at - lost
          /\ lost > 0 => Len(line) = FrameLen(f) + 1 /\ lost <= SofLen
      BY <1>1, <1>6 DEF BudgetSoFar
    <2>2. ~(at > FrameLen(f))
      BY <1>2, <1>p, <2>1
    <2>3. max = 0
      BY <1>4, <1>5, <2>2
    <2>4. at = FrameLen(f) - lost
      BY <1>2, <1>p, <2>1, <2>3
    <2>5. CASE lost = 0
      BY <1>2, <1>p, <2>4, <2>5
    <2>6. CASE lost > 0
      BY <1>6, <2>1, <2>4, <2>6
    <2> QED BY <1>2, <2>5, <2>6
  <1>7. CASE ~(f.kind = "RAW" /\ at > HeaderLen(f))
    <2>1. max = MaxPayload - failed - at /\ lost = 0
      BY <1>1, <1>7 DEF BudgetSoFar
    <2>2. max = 0 => at >= FrameLen(f)
      BY <1>2, <1>3, <1>p, <2>1
    <2>3. at >= FrameLen(f)
      BY <1>2, <1>4, <1>5, <1>p, <2>2
    <2> QED BY <2>1, <2>3
  <1> QED BY <1>6, <1>7

LEMMA EndStep ==
  ASSUME InStep, EndFrame PROVE InStep'
  <1>1. InRange /\ Written /\ (Between \/ InFrame \/ Leftover)
    BY DEF InStep
  <1>2. /\ c' = "none" /\ max' = MaxPayload /\ failed' = 0 /\ Fresh'
        /\ sent' = sent /\ line' = line /\ at' = at /\ lost' = lost
        /\ (got' = IF Len(sof) + Len(payload) = 0 THEN got ELSE Append(got, Decoded))
        /\ InRange' /\ Written'
    BY <1>1, Ended
  <1>3. MaxPayload \in Nat /\ lost \in Nat /\ at \in Nat /\ max \in Nat /\ at <= Len(line)
        /\ Len(sof) \in Nat /\ Len(payload) \in Nat
    BY <1>1, BoundsAssumption DEF InRange, Typed
  <1>4. max' = MaxPayload - failed' /\ c' # "LF"
    BY <1>2, <1>3
  <1> HIDE DEF Decoded
  <1>5. CASE Between
    <2>1. Len(sof) = 0 /\ Len(payload) = 0
      BY <1>5 DEF Between, Fresh
    <2>2. got' = got
      BY <1>2, <2>1
    <2>3. Between'
      BY <1>2, <1>4, <1>5, <2>2 DEF Between
    <2> QED BY <1>2, <2>3 DEF InStep
  <1>6. CASE InFrame
    <2>1. PICK f \in Frames : sent = <<f>>
      BY <1>1, <1>6 DEF InRange, Typed, InFrame
    <2>p. /\ EcuLen \in Nat /\ EcuLen > 0 /\ SofLen = 2 * EcuLen + 1 /\ SofLen \in Nat
          /\ HeaderLen(f) \in Nat /\ FrameLen(f) \in Nat /\ HeaderLen(f) >= SofLen
          /\ FrameLen(f) >= HeaderLen(f)
      BY Places
    <2>2. sent[1] = f /\ sent # <<>>
      BY <2>1
    <2>3. CASE at >= FrameLen(f) /\ lost = 0
      <3>1. Decoded = f
        BY <1>1, <1>6, <2>1, <2>3, DecodedFrame
      <3>2. Len(sof) = SofLen
        BY <1>3, <1>6, <2>1, <2>3, <2>p, InFrameOf DEF HeaderSoFar, Least
      <3>3. got = <<>>
        BY <1>6 DEF InFrame
      <3>4. Len(sof) + Len(payload) # 0
        BY <1>3, <2>p, <3>2
      <3>5. got' = <<f>>
        BY <1>2, <3>1, <3>3, <3>4
      <3>6. got' = sent'
        BY <1>2, <2>1, <3>5
      <3>7. Between'
        BY <1>2, <1>4, <2>2, <2>3, <3>6 DEF Between
      <3> QED BY <1>2, <3>7 DEF InStep
    <2>4. CASE /\ f.kind = "RAW" /\ at > HeaderLen(f) /\ lost > 0
               /\ at = FrameLen(f) - lost /\ Len(line) = FrameLen(f) + 1
               /\ lost <= SofLen
      <3>1. sof' = <<>> /\ field' = 0 /\ rawSz' = 0 /\ payload' = <<>>
        BY <1>2 DEF Fresh
      <3>2. Len(sof') + FrameLen(f) - Least(at', FrameLen(f)) <= lost'
        <4>1. Len(sof') = 0 /\ Least(at', FrameLen(f)) = at
          BY <1>2, <1>3, <2>4, <2>p, <3>1 DEF Least
        <4> QED BY <1>2, <1>3, <2>4, <2>p, <4>1
      <3>3. c' # "CR" /\ c' # "LF" /\ at' # Len(line')
        BY <1>2, <1>3, <2>4, <2>p
      <3>4. /\ sent'[1] = f /\ sent' # <<>> /\ at' > HeaderLen(f) /\ lost' > 0
            /\ lost' <= SofLen /\ Len(line') = FrameLen(f) + 1
        BY <1>2, <2>2, <2>4
      <3>5. Leftover'
        BY <2>4, <3>1, <3>2, <3>3, <3>4 DEF Leftover
      <3> QED BY <1>2, <3>5 DEF InStep
    <2> QED BY <1>1, <1>6, <2>1, <2>3, <2>4, FrameEnds
  <1>7. CASE Leftover
    <2>1. PICK f \in Frames : sent = <<f>>
      BY <1>1, <1>7 DEF InRange, Typed, Leftover
    <2>p. HeaderLen(f) \in Nat /\ FrameLen(f) \in Nat
      BY Places
    <2>2. sent[1] = f /\ sent # <<>>
      BY <2>1
    <2>3. /\ f.kind = "RAW" /\ Len(line) = FrameLen(f) + 1
          /\ at > HeaderLen(f) /\ lost > 0 /\ lost <= SofLen
          /\ Len(sof) + FrameLen(f) - Least(at, FrameLen(f)) <= lost
      BY <1>7, <2>2 DEF Leftover
    <2>4. CASE at = Len(line)
      <3>1. sent'[1] = f /\ at' >= FrameLen(f) /\ lost' # 0
        BY <1>2, <1>3, <2>2, <2>3, <2>4, <2>p
      <3>2. Between'
        BY <1>2, <1>4, <3>1 DEF Between
      <3> QED BY <1>2, <3>2 DEF InStep
    <2>5. CASE at # Len(line)
      <3>1. sof' = <<>> /\ field' = 0 /\ rawSz' = 0 /\ payload' = <<>>
        BY <1>2 DEF Fresh
      <3>2. Len(sof') + FrameLen(f) - Least(at', FrameLen(f)) <= lost'
        <4>1. Len(sof') = 0 /\ Least(at', FrameLen(f)) = Least(at, FrameLen(f))
          BY <1>2, <3>1
        <4>2. Least(at, FrameLen(f)) \in Nat
          BY <1>3, <2>p DEF Least
        <4> QED BY <1>2, <1>3, <2>3, <2>p, <4>1, <4>2
      <3>3. c' # "CR" /\ c' # "LF" /\ at' # Len(line')
        BY <1>2, <2>5
      <3>4. /\ sent'[1] = f /\ sent' # <<>> /\ at' > HeaderLen(f) /\ lost' > 0
            /\ lost' <= SofLen /\ Len(line') = FrameLen(f) + 1
        BY <1>2, <2>2, <2>3
      <3>5. Leftover'
        BY <2>3, <3>1, <3>2, <3>3, <3>4 DEF Leftover
      <3> QED BY <1>2, <3>5 DEF InStep
    <2> QED BY <2>4, <2>5
  <1> QED BY <1>1, <1>5, <1>6, <1>7

-------------------------------------------------------------------------------
(* The beginning.                                                          *)

\* In range, in step and not astray: the type invariant.
LEMMA InvTypes == IInv => TypeOK
  BY Bounds, BoundsAssumption DEF IInv, InStep, InRange, Typed, TypeOK, Record

LEMMA Start == Init => IInv
  <1> SUFFICES ASSUME Init PROVE IInv
    OBVIOUS
  <1>1. /\ sent = <<>> /\ line = <<>> /\ at = 0 /\ failed = 0 /\ lost = 0
        /\ astray = FALSE
        /\ c = "none" /\ field = 0 /\ max = MaxPayload
        /\ sof = <<>> /\ dst = "none" /\ src = "none" /\ rawSz = 0 /\ payload = <<>>
        /\ got = <<>>
    BY DEF Init
  <1>2. MaxPayload \in Nat /\ MaxFailures \in Nat
    BY Bounds, BoundsAssumption
  <1>3. Typed
    <2>1. line \in Seq(Chars) /\ Len(line) = 0 /\ sof \in Seq(Chars) /\ payload \in Seq(Chars)
      BY <1>1
    <2>2. got \in Seq(Record)
      BY <1>1
    <2>3. at \in 0..Len(line) /\ max \in Nat /\ failed \in 0..MaxFailures /\ lost \in Nat
          /\ field \in Nat /\ rawSz \in Nat
      BY <1>1, <1>2, <2>1
    <2>4. dst \in Addresses /\ src \in Addresses
      BY <1>1 DEF Addresses
    <2> QED BY <1>1, <2>1, <2>2, <2>3, <2>4 DEF Typed
  <1>4. InRange
    <2>1. lost \in 0..MaxFailures /\ max \in 0..MaxPayload /\ field \in 0..2
      BY <1>1, <1>2
    <2> QED BY <1>3, <2>1 DEF InRange
  <1>5. Written
    BY <1>1 DEF Written
  <1>6. Between
    BY <1>1, <1>2 DEF Between, Fresh
  <1> QED BY <1>1, <1>3, <1>4, <1>5, <1>6 DEF IInv, InStep

-------------------------------------------------------------------------------
(* The types, also of a parser that went astray.                           *)

LEMMA ValueTyped ==
  ASSUME NEW ch \in Digits PROVE Value(ch) \in Nat
  <1>1. PICK n \in 1..10 : Numerals[n] = ch
    BY DEF Digits
  <1>2. n - 1 \in 0..9 /\ Numerals[(n - 1) + 1] = ch
    BY <1>1
  <1>3. Value(ch) = n - 1
    BY <1>2, NumeralOf
  <1> QED BY <1>2, <1>3

LEMMA SendTyped ==
  ASSUME Typed, NEW f \in Frames, NEW end \in Ends(f), Send(f, end)
  PROVE  Typed' /\ astray' = astray
  <1>1. /\ sent' = <<f>> /\ line' = Encoding(f, end) /\ at' = 0 /\ lost' = 0 /\ got' = <<>>
        /\ failed' = failed /\ c' = c /\ max' = max /\ field' = field
        /\ sof' = sof /\ dst' = dst /\ src' = src /\ rawSz' = rawSz /\ payload' = payload
        /\ astray' = astray
    BY DEF Send, parser, frame
  <1>2. line' \in Seq(Chars) /\ Len(line') \in Nat
    <2>1. Encoding(f, end) \in Seq(Chars)
      BY EncodingAt
    <2> QED BY <1>1, <2>1
  <1>3. at' \in 0..Len(line') /\ lost' \in Nat /\ got' \in Seq(Record)
    BY <1>1, <1>2
  <1>4. \E g \in Frames : sent' = <<g>>
    BY <1>1
  <1> HIDE DEF Record
  <1> QED BY <1>1, <1>2, <1>3, <1>4 DEF Typed

LEMMA CharsTyped ==
  ASSUME Typed, ReadChar
  PROVE  Typed' /\ astray' = astray
  <1> DEFINE ch == line[at + 1]
  <1>1. /\ at < Len(line) /\ max > 0 /\ c' = ch /\ max' = MaxAfter(ch)
        /\ field' = IF ch = ":" THEN field + 1 ELSE field
        /\ Decode(ch) /\ at' = at + 1
        /\ sent' = sent /\ line' = line /\ failed' = failed /\ lost' = lost
        /\ astray' = astray /\ got' = got
    BY DEF ReadChar, More
  <1>2. line \in Seq(Chars) /\ at \in 0..Len(line) /\ Len(line) \in Nat
    BY LenProperties DEF Typed
  <1>3. at + 1 \in 1..Len(line) /\ at' \in 0..Len(line)
    BY <1>1, <1>2
  <1>4. ch \in Chars
    BY <1>2, <1>3, ElementOfSeq
  <1> HIDE DEF ch
  <1>5. max' \in Nat /\ field' \in Nat
    BY <1>1 DEF Typed, MaxAfter, FirstOfRaw
  <1>6. /\ sof' \in Seq(Chars) /\ dst' \in Addresses /\ src' \in Addresses
        /\ rawSz' \in Nat /\ payload' \in Seq(Chars)
    <2>1. /\ sof \in Seq(Chars) /\ dst \in Addresses /\ src \in Addresses
          /\ rawSz \in Nat /\ payload \in Seq(Chars)
      BY DEF Typed
    <2>2. CASE UNCHANGED frame
      BY <2>1, <2>2 DEF frame
    <2>3. CASE ReadSof(ch)
      <3>1. sof' \in Seq(Chars)
        BY <1>4, <2>1, <2>3, AppendProperties DEF ReadSof
      <3>2. dst' \in Addresses /\ src' \in Addresses
        BY <2>1, <2>3, IdTyped DEF ReadSof
      <3> QED BY <2>1, <2>3, <3>1, <3>2 DEF ReadSof
    <2>4. CASE ReadSize(ch)
      <3>1. CASE ch \in Digits
        BY <2>1, <2>4, <3>1, ValueTyped DEF ReadSize
      <3>2. CASE ch \notin Digits
        BY <2>1, <2>4, <3>2 DEF ReadSize
      <3> QED BY <3>1, <3>2
    <2>5. CASE ReadPayload(ch)
      <3>1. payload' \in Seq(Chars)
        BY <1>4, <2>1, <2>5, AppendProperties DEF ReadPayload
      <3> QED BY <2>1, <2>5, <3>1 DEF ReadPayload
    <2> QED BY <1>1, <2>2, <2>3, <2>4, <2>5 DEF Decode
  <1> QED BY <1>1, <1>2, <1>3, <1>4, <1>5, <1>6 DEF Typed

LEMMA FailTyped ==
  ASSUME Typed, astray \in BOOLEAN, FailRead
  PROVE  Typed' /\ astray' \in BOOLEAN
  <1>1. /\ max > 0 /\ failed < MaxFailures /\ failed' = failed + 1 /\ max' = max - 1
        /\ lost' \in {lost, lost + 1} /\ astray' \in {astray, TRUE}
        /\ sent' = sent /\ line' = line /\ at' = at /\ c' = c /\ field' = field /\ got' = got
        /\ sof' = sof /\ dst' = dst /\ src' = src /\ rawSz' = rawSz /\ payload' = payload
    BY DEF FailRead, More, frame
  <1>2. failed' \in 0..MaxFailures /\ max' \in Nat /\ lost' \in Nat
    BY <1>1, BoundsAssumption DEF Typed
  <1> QED BY <1>1, <1>2 DEF Typed

LEMMA EndTyped ==
  ASSUME Typed, EndFrame
  PROVE  Typed' /\ astray' = astray
  <1>1. /\ c' = "none" /\ max' = MaxPayload /\ failed' = 0
        /\ field' = 0 /\ sof' = <<>> /\ dst' = "none" /\ src' = "none"
        /\ rawSz' = 0 /\ payload' = <<>>
        /\ sent' = sent /\ line' = line /\ at' = at /\ lost' = lost /\ astray' = astray
    BY DEF EndFrame, Restart
  <1>2. got' = IF Len(sof) + Len(payload) = 0 THEN got ELSE Append(got, Decoded)
    BY DEF EndFrame, Decoded
  <1>3. Decoded \in Record
    BY LoggedTyped
  <1>4. got \in Seq(Record)
    BY DEF Typed
  <1> HIDE DEF Record, Decoded
  <1>5. got' \in Seq(Record)
    BY <1>2, <1>3, <1>4, AppendProperties
  <1>6. max' \in Nat /\ failed' \in 0..MaxFailures /\ field' \in Nat /\ rawSz' \in Nat
    BY <1>1, BoundsAssumption
  <1>7. /\ sof' \in Seq(Chars) /\ payload' \in Seq(Chars)
        /\ dst' \in Addresses /\ src' \in Addresses
    BY <1>1 DEF Addresses
  <1> QED BY <1>1, <1>5, <1>6, <1>7 DEF Typed

-------------------------------------------------------------------------------
(* The theorems.                                                           *)

LEMMA Step == IInv /\ [Next]_vars => IInv'
  <1> SUFFICES ASSUME IInv, [Next]_vars PROVE IInv'
    OBVIOUS
  <1>t. Typed /\ astray \in BOOLEAN /\ (~astray => InStep)
    BY DEF IInv
  <1>1. ASSUME NEW f \in Frames, NEW end \in Ends(f), Send(f, end) PROVE IInv'
    BY <1>t, <1>1, SendTyped, SendStep DEF IInv
  <1>2. CASE ReadChar
    BY <1>t, <1>2, CharsTyped, CharStep DEF IInv
  <1>3. CASE FailRead
    <2>1. Typed' /\ astray' \in BOOLEAN
      BY <1>t, <1>3, FailTyped
    <2>2. ~astray' => ~astray
      BY <1>t, <1>3 DEF FailRead
    <2> QED BY <1>t, <1>3, <2>1, <2>2, FailStep DEF IInv
  <1>4. CASE EndFrame
    BY <1>t, <1>4, EndTyped, EndStep DEF IInv
  <1>5. CASE UNCHANGED vars
    <2>1. /\ sent' = sent /\ line' = line /\ at' = at /\ lost' = lost /\ got' = got
          /\ failed' = failed /\ c' = c /\ max' = max /\ field' = field
          /\ sof' = sof /\ dst' = dst /\ src' = src /\ rawSz' = rawSz /\ payload' = payload
          /\ astray' = astray
      BY <1>5 DEF vars, parser, frame
    <2>2. Typed' <=> Typed
      BY <2>1 DEF Typed
    <2>3. InRange' <=> InRange
      BY <2>1, <2>2 DEF InRange
    <2>4. Written' <=> Written
      BY <2>1 DEF Written
    <2>5. Between' <=> Between
      BY <2>1 DEF Between, Fresh
    <2>6. InFrame' <=> InFrame
      BY <2>1 DEF InFrame, HeaderSoFar, PayloadSoFar, BudgetSoFar
    <2>7. Leftover' <=> Leftover
      BY <2>1 DEF Leftover
    <2> QED BY <1>t, <2>1, <2>2, <2>3, <2>4, <2>5, <2>6, <2>7 DEF IInv, InStep
  <1> QED BY <1>1, <1>2, <1>3, <1>4, <1>5 DEF Next

\* At every place of the line the parser holds what it has read of the frame, and
\* no more budget than that frame needs (elite_uart_dsp_runner, 105-207), until
\* what failed reads have left of a RAW payload leads it astray.
THEOREM Inductive == Spec => []IInv
  BY Start, Step, PTL DEF Spec

\* The parser's variables stay in range: max_size does not pass 0 (105).
THEOREM Typing == Spec => []TypeOK
  BY InvTypes, Inductive, PTL

\* What is stored fits sof and payload, neither of which is checked (131, 155),
\* as long as no read fails in the payload of a RAW frame without a line feed, and
\* no more of them in one with it than a header has characters.
THEOREM BuffersSufficeInStep == Spec => []BuffersSuffice
  <1>1. ASSUME IInv PROVE BuffersSuffice
    <2> SUFFICES ASSUME ~astray PROVE BuffersSuffice
      BY DEF BuffersSuffice
    <2>1. InRange /\ Written /\ (Between \/ InFrame \/ Leftover)
      BY <1>1 DEF IInv, InStep
    <2>2. SofLen \in Nat /\ MaxPayload \in Nat /\ MaxFailures \in Nat
      BY Bounds, BoundsAssumption
    <2>3. at \in Nat /\ lost \in Nat
      BY <2>1, <2>2 DEF InRange, Typed
    <2>4. CASE Between
      BY <2>2, <2>4 DEF Between, Fresh, BuffersSuffice
    <2>5. CASE InFrame
      <3>1. PICK f \in Frames : sent = <<f>>
        BY <2>1, <2>5 DEF InRange, Typed, InFrame
      <3>2. HeaderSoFar(f) /\ PayloadSoFar(f)
        BY <2>5, <3>1, InFrameOf
      <3>p. /\ HeaderLen(f) \in Nat /\ Len(f.payload) \in Nat
            /\ FrameLen(f) = HeaderLen(f) + Len(f.payload)
        BY Places
      <3>3. Len(sof) <= SofLen
        BY <2>2, <2>3, <3>2 DEF HeaderSoFar, Least
      <3>4. Len(payload) <= Len(f.payload)
        BY <2>3, <3>2, <3>p DEF PayloadSoFar, Least
      <3>5. FrameLen(f) + MaxFailures <= MaxPayload
        BY <2>1, <3>1, LineOf
      <3>6. Len(payload) \in Nat
        BY <2>1 DEF InRange, Typed
      <3>7. Len(payload) <= MaxPayload
        BY <2>2, <3>4, <3>5, <3>6, <3>p
      <3> QED BY <3>3, <3>7 DEF BuffersSuffice
    <2>6. CASE Leftover
      <3>1. PICK f \in Frames : sent = <<f>>
        BY <2>1, <2>6 DEF InRange, Typed, Leftover
      <3>2. Len(sof) + FrameLen(f) - Least(at, FrameLen(f)) <= lost /\ payload = <<>>
            /\ lost <= SofLen
        BY <2>6, <3>1 DEF Leftover
      <3>3. FrameLen(f) \in Nat
        BY Places
      <3>4. Len(sof) \in Nat
        BY <2>1 DEF InRange, Typed
      <3>5. Len(sof) <= SofLen
        BY <2>2, <2>3, <3>2, <3>3, <3>4 DEF Least
      <3>6. Len(payload) = 0
        BY <3>2
      <3> QED BY <2>2, <3>5, <3>6 DEF BuffersSuffice
    <2> QED BY <2>1, <2>4, <2>5, <2>6
  <1> QED BY <1>1, Inductive, PTL

\* Of each frame that is sent, that frame and nothing else is decoded, although
\* reads fail, unless they do in the payload of a RAW frame (105-207); if a line
\* feed ends that one, the frames after it are intact again.
THEOREM FramesAreIntact == Spec => []FramesIntact
  <1>1. ASSUME IInv PROVE FramesIntact
    <2> SUFFICES ASSUME ~astray PROVE FramesIntact
      BY DEF FramesIntact
    <2>1. InStep /\ (Between \/ InFrame \/ Leftover)
      BY <1>1 DEF IInv, InStep
    <2>2. ASSUME lost = 0 PROVE got \in {<<>>, sent}
      <3>1. ~Leftover
        BY <2>2 DEF Leftover
      <3>2. CASE Between
        BY <2>2, <3>2 DEF Between
      <3>3. CASE InFrame
        BY <3>3 DEF InFrame
      <3> QED BY <2>1, <3>1, <3>2, <3>3
    <2>3. ASSUME lost = 0, at = Len(line), More PROVE got = sent
      <3>1. Between
        BY <2>1, <2>3, NothingOpen
      <3> QED BY <2>3, <3>1 DEF Between
    <2> QED BY <2>2, <2>3 DEF FramesIntact
  <1> QED BY <1>1, Inductive, PTL
=============================================================================
