------------------------------ MODULE RackInit ------------------------------
(***************************************************************************)
(* rack_initialize (src/auvitran/rackAuvitran.c): which card sits in which *)
(* slot and where its pages are is read over the mailbox into a table; the *)
(* default gains of a microphone card are then written through that table. *)
(*                                                                         *)
(* A step is one mailbox call.  It is one atomic operation on the register *)
(* it names (RemoteRegisters), or it fails with an error code, or, being a *)
(* read of a byte one of whose SPI transfers failed, it returns 0 and any  *)
(* byte at all (avxSpi.c 565, 573, 587: a positive errno passes `0 > ret`).*)
(* A write of a byte is honest in that it checks `ret != 0`, but one that  *)
(* fails may have taken effect.  Left out is what a call that gives up     *)
(* polling (avxSpi.c 801) does to those after it: see AvxMailbox.          *)
(*                                                                         *)
(* Operators marked "Faulty" are variants of the definition after them,    *)
(* used to show that the properties can fail.                              *)
(***************************************************************************)
EXTENDS Integers, Sequences, FiniteSets

CONSTANTS
  LastSlot,      \* the last slot for cards
  MaxUnfilled    \* bound: reads that return 0 with a byte that was never sent

ASSUME SlotAssumption == LastSlot \in 1..7
ASSUME UnfilledAssumption == MaxUnfilled \in Nat

FirstSlot  == 1
MatrixSlot == 14
CoreSlot   == 15
CardSlots  == FirstSlot..LastSlot
Slots      == CardSlots \cup {MatrixSlot, CoreSlot}

PageTypes == <<"IPR", "OPR", "CLKPR", "CSPR", "MXPR", "FPPR", "CNAPR">>
PageType  == {PageTypes[i] : i \in 1..Len(PageTypes)}

\* The products the code tells apart: line inputs, microphones, any other card,
\* and the rack itself in its two virtual slots.  No product is 0.
Cards    == {"AX4I", "AX4M", "other"}
Products == Cards \cup {"core"}
Empty    == "none"

VARIABLES
  card,     \* what sits in the slots
  open,     \* avx_init opened the SPI device and found burst support
  product,  \* slots[].product_id
  page,     \* slots[].pages_addresses: "zero", "nodata" (-ENODATA), "known", or
            \* "wrong": what an unfilled read left, right by chance only
  pc, slot, type,
  ret,      \* the local `ret` of rack_initialize: "ok" or "failed"
  gain,     \* gain registers: the conversion of what was written, if anything
  used,     \* the page address of the access just made through the table, or "none"
  unfilled, \* <<slot, register>> of the reads that returned 0 unfilled
  failed    \* slots where a call of the discovery failed that should not have

rack  == <<card, open>>
table == <<product, page>>
vars  == <<card, open, product, page, pc, slot, type, ret, gain, used, unfilled, failed>>

\* Gains in dB, as initialize_default_parameters sets them.
DefaultGain(channel) == IF channel = 1 THEN -12 ELSE 35

Init ==
  /\ card \in {c \in [Slots -> Products \cup {Empty}] :
                 \A s \in Slots : c[s] = "core" <=> s \notin CardSlots}
  /\ open \in BOOLEAN
  /\ product = [s \in Slots |-> Empty]
  /\ page = [s \in Slots |-> [t \in PageType |-> "zero"]]
  /\ pc = "pir"
  /\ slot = MatrixSlot
  /\ type = 1
  /\ ret = "ok"
  /\ gain = [s \in Slots |-> [c \in {1, 4} |-> "unset"]]
  /\ used = "none"
  /\ unfilled = {}
  /\ failed = IF open THEN {} ELSE Slots

-------------------------------------------------------------------------------
(* Discovery.                                                              *)

\* Faulty: the loop over the slots stops one short.
AfterSlotShort ==
  /\ slot' = CASE slot = MatrixSlot -> CoreSlot
               [] slot = CoreSlot   -> FirstSlot
               [] OTHER             -> slot + 1
  /\ pc' = CASE slot = CoreSlot     -> "clock"
             [] slot + 1 = LastSlot -> "find"
             [] OTHER               -> "pir"

\* Faulty: the loop over the slots goes one too far.
AfterSlotLong ==
  /\ slot' = CASE slot = MatrixSlot -> CoreSlot
               [] slot = CoreSlot   -> FirstSlot
               [] OTHER             -> slot + 1
  /\ pc' = CASE slot = CoreSlot     -> "clock"
             [] slot = LastSlot + 1 -> "find"
             [] OTHER               -> "pir"

\* `ret` is unsigned, so "0 <= ret" always holds: rack_initialize goes on with
\* the next slot, or the next stage, whatever the last one returned.
AfterSlot ==
  /\ slot' = CASE slot = MatrixSlot -> CoreSlot
               [] slot = CoreSlot   -> FirstSlot
               [] OTHER             -> slot + 1
  /\ pc' = CASE slot = CoreSlot -> "clock"
             [] slot = LastSlot -> "find"
             [] OTHER           -> "pir"

\* Faulty: a slot whose discovery failed is tried again.
EndSlotRetrying(code) ==
  /\ ret' = code
  /\ type' = 1
  /\ IF code = "failed" THEN pc' = "pir" /\ UNCHANGED slot ELSE AfterSlot

EndSlot(code) == ret' = code /\ type' = 1 /\ AfterSlot

Fails == failed' = failed \cup {slot}

\* A read of the byte r of the slot in hand returns 0 although it brought nothing.
Unfilled(r) ==
  /\ open
  /\ Cardinality(unfilled) < MaxUnfilled
  /\ unfilled' = unfilled \cup {<<slot, r>>}
  /\ Fails

AddSlot(s, p) ==
  /\ product' = [product EXCEPT ![s] = p]
  /\ page' = [page EXCEPT ![s] = [t \in PageType |-> "nodata"]]

ToPages == pc' = "page" /\ type' = 1 /\ UNCHANGED <<slot, ret>>

\* avx_get_slot_PIR.  -EIO is the answer of an empty slot, and taken for it.
ReadPIR ==
  /\ pc = "pir"
  /\ \/ /\ open /\ card[slot] # Empty
        /\ AddSlot(slot, card[slot])
        /\ ToPages
        /\ UNCHANGED <<unfilled, failed>>
     \/ /\ \E p \in Products \cup {Empty} : AddSlot(slot, p)
        /\ ToPages
        /\ Unfilled("PIR")
     \/ /\ open
        /\ EndSlot("ok")
        /\ failed' = failed \cup {s \in {slot} : card[s] # Empty}
        /\ UNCHANGED <<table, unfilled>>
     \/ /\ EndSlot("failed")
        /\ Fails
        /\ UNCHANGED <<table, unfilled>>
  /\ used' = "none"
  /\ UNCHANGED <<rack, gain>>

\* set_slot_page_address, then the next type of page.
SetPage(address) ==
  /\ page' = [page EXCEPT ![slot][PageTypes[type]] = address]
  /\ IF type < Len(PageTypes) THEN type' = type + 1 /\ UNCHANGED pc
                              ELSE pc' = "crc" /\ UNCHANGED type
  /\ UNCHANGED <<slot, ret>>

\* avx_get_slot_page_address, for each type of page; an error ends the slot.
ReadPage ==
  /\ pc = "page"
  /\ \/ card[slot] # Empty /\ SetPage("known") /\ UNCHANGED <<unfilled, failed>>
     \/ SetPage("wrong") /\ Unfilled(PageTypes[type])
     \/ EndSlot("failed") /\ Fails /\ UNCHANGED <<page, unfilled>>
  /\ used' = "none"
  /\ UNCHANGED <<rack, product, gain>>

\* The first bytes of page 1, read for a CRC that nothing uses yet.
ReadFirstPage ==
  /\ pc = "crc"
  /\ \E code \in {"ok", "failed"} : EndSlot(code)
  /\ used' = "none"
  /\ UNCHANGED <<rack, table, gain, unfilled, failed>>

\* check_clock_capabilities.  The address of the page is used even when it was
\* never read, or wrong.  Whatever comes back, of the rack's clocks or not, decides
\* `ret` and nothing else.  Without a device the call ends before the access.
CheckClock ==
  /\ pc = "clock"
  /\ IF open THEN used' = page[CoreSlot]["CLKPR"] /\ ret' \in {"ok", "failed"}
             ELSE used' = "none" /\ ret' = "failed"
  /\ pc' = "pir"
  /\ UNCHANGED <<rack, table, slot, type, gain, unfilled, failed>>

-------------------------------------------------------------------------------
(* Default parameters.                                                     *)

\* The loop of find_slot starts from an index that is never initialised: it
\* returns the first slot with the product from there on, or none.
Findable(p) == {s \in Slots : product[s] = p}

Finish(code) == pc' = "done" /\ ret' = code

FindMicrophones ==
  /\ pc = "find"
  /\ \/ Findable("AX4M") # {} /\ pc' = "gain1" /\ UNCHANGED ret
     \/ Finish("ok")
  /\ used' = "none"
  /\ UNCHANGED <<rack, table, slot, type, gain, unfilled, failed>>

InRange(p, dB) == IF p = "AX4M" THEN dB \in -24..55 ELSE dB \in -115..12

\* The byte that is written is p's conversion of the gain; at a wrong address it
\* reaches the gain by chance only.
Landed(s, p, channel) ==
  /\ card[s] # Empty
  /\ \/ used' \in {"known", "wrong"} /\ gain' = [gain EXCEPT ![s][channel] = p]
     \/ used' # "known" /\ UNCHANGED gain

\* The write goes wherever the table has the page.  One that fails may have
\* landed, or not.
Write(s, p, channel, next) ==
  /\ used' = page[s]["CSPR"]
  /\ \/ Landed(s, p, channel) /\ next
     \/ (Landed(s, p, channel) \/ UNCHANGED gain) /\ Finish("failed")

\* Faulty: a gain that is out of range is left alone.
RefuseSilently(next) == next /\ used' = "none" /\ UNCHANGED gain

Refuse(next) == Finish("failed") /\ used' = "none" /\ UNCHANGED gain

\* Faulty: the card is looked up again among all that have inputs.
LookupAnew(p) == Findable("AX4I") \cup Findable("AX4M")

\* Where rack_set_gain writes: find_slot is called again for the product chosen.
Lookup(p) == Findable(p)

\* rack_set_gain(IN, ...): a line input is looked for before a microphone, to
\* choose limits and conversion; it is looked up again for the write.  Either
\* may be missed each time.
SetGain(channel, next) ==
  \/ Refuse(next)
  \/ \E p \in {"AX4I", "AX4M"} :
       /\ Findable(p) # {}
       /\ InRange(p, DefaultGain(channel))
       /\ \E s \in Lookup(p) : Write(s, p, channel, next)

SetGain1 ==
  /\ pc = "gain1"
  /\ SetGain(1, pc' = "gain4" /\ UNCHANGED ret)
  /\ UNCHANGED <<rack, table, slot, type, unfilled, failed>>

SetGain4 ==
  /\ pc = "gain4"
  /\ SetGain(4, Finish("ok"))
  /\ UNCHANGED <<rack, table, slot, type, unfilled, failed>>

-------------------------------------------------------------------------------
Next ==
  \/ ReadPIR \/ ReadPage \/ ReadFirstPage
  \/ CheckClock
  \/ FindMicrophones \/ SetGain1 \/ SetGain4

Spec == Init /\ [][Next]_vars

-------------------------------------------------------------------------------
(* Properties.                                                             *)

\* The values a variable takes; discovery (431-482) stays on the slots there are.
TypeOK ==
  /\ card \in [Slots -> Products \cup {Empty}]
  /\ open \in BOOLEAN
  /\ product \in [Slots -> Products \cup {Empty}]
  /\ page \in [Slots -> [PageType -> {"zero", "nodata", "known", "wrong"}]]
  /\ pc \in {"pir", "page", "crc", "clock", "find", "gain1", "gain4", "done"}
  /\ slot \in IF pc \in {"pir", "page", "crc"} THEN Slots ELSE 1..LastSlot + 1
  /\ type \in 1..Len(PageTypes)
  /\ ret \in {"ok", "failed"}
  /\ gain \in [Slots -> [{1, 4} -> {"unset"} \cup Cards]]
  /\ used \in {"none", "zero", "nodata", "known", "wrong"}
  /\ unfilled \subseteq Slots \X (PageType \cup {"PIR"})
  /\ failed \subseteq Slots

\* A slot whose own calls succeed is complete in the table at the end, its card
\* with the addresses of all its pages, or empty if it is: whatever the calls
\* for other slots did, failed ones and unfilled ones included, and although
\* every failure is overwritten by the code of the slot after it (431-496).
DiscoveryComplete ==
  pc = "done" =>
    \A s \in Slots \ failed :
      /\ product[s] = card[s]
      /\ card[s] # Empty => \A t \in PageType : page[s][t] = "known"

\* The product of a slot is what its card said, not what an unfilled read left.
ReadRight(s) == <<s, "PIR">> \notin unfilled

\* A gain is written with the conversion of the card that receives it (506-629),
\* although the card is looked up anew between the choice and the write, with
\* other results, and other slots may have been given the wrong product.
EncodedForItsCard ==
  \A s \in Slots, c \in {1, 4} :
    ReadRight(s) /\ gain[s][c] # "unset" => gain[s][c] = card[s]

Written(channel) == \E s \in Slots : gain[s][channel] # "unset"

\* rack_initialize does not return 0 with one of the two default gains applied
\* and the other not (311-337), unless calls of the discovery failed.
DefaultsAllOrNone ==
  pc = "done" /\ ret = "ok" /\ failed = {} => (Written(1) <=> Written(4))

\* The calls of one slot: the PIR, its pages, and the first of them; and those
\* that are still to come for the slot in hand.
CallsOfSlot == Len(PageTypes) + 2
CallsHere   == CASE pc = "pir"  -> CallsOfSlot
                 [] pc = "page" -> CallsOfSlot - type
                 [] pc = "crc"  -> 1

\* All that are still to come, the last being the clocks, the lookup of the
\* microphones and their two gains.
CallsLeft ==
  CASE pc = "clock" -> CallsOfSlot * LastSlot + 4
    [] pc = "find"  -> 3
    [] pc = "gain1" -> 2
    [] pc = "gain4" -> 1
    [] pc = "done"  -> 0
    [] OTHER ->
         CallsHere + CASE slot = MatrixSlot -> CallsOfSlot * (LastSlot + 1) + 4
                       [] slot = CoreSlot   -> CallsOfSlot * LastSlot + 4
                       [] OTHER             -> CallsOfSlot * (LastSlot - slot) + 3

\* Whatever fails, and with a `ret` that no failure stops (435-482), every call
\* brings rack_initialize nearer to its end: no slot is discovered twice, and it
\* returns after at most nine calls for each slot and four more.
CallsRunOut == [][CallsLeft' \in 0..CallsLeft - 1]_vars

\* "Initialize all page addresses to -ENODATA" (86), "page address or error code
\* if <0" (51): the mark of an address that was never read is never used as one.
NoDataIsNoAddress == used # "nodata"
=============================================================================
