--------------------------- MODULE RackInitProofs ---------------------------
(***************************************************************************)
(* What RackInit guarantees for a rack with any number of slots, whatever  *)
(* mailbox calls fail, and whatever their reads return 0 with.             *)
(***************************************************************************)
EXTENDS RackInit, TLAPS

Discovering == pc \in {"pir", "page", "crc"}

\* The place of a slot in the order of discovery.
Order(s) == IF s = MatrixSlot THEN -1 ELSE IF s = CoreSlot THEN 0 ELSE s

\* `slot` runs through the slots in order, the clocks being checked before the
\* first card.
Position ==
  /\ pc = "clock" => slot = FirstSlot
  /\ ~Discovering /\ pc # "clock" => slot = LastSlot + 1

\* The slots that are still to be read have nothing in the table.
Ahead ==
  \A s \in Slots :
    Order(s) > Order(slot) \/ (s = slot /\ pc \in {"pir", "clock"}) => product[s] = Empty

Complete(s) ==
  /\ product[s] = card[s]
  /\ card[s] # Empty => \A t \in PageType : page[s][t] = "known"

\* Unless calls for them failed, the slots that have been read are complete, and
\* the one being read is as complete as the pages that have been asked for.
Behind ==
  /\ \A s \in Slots \ failed : Order(s) < Order(slot) => Complete(s)
  /\ slot \in Slots \ failed =>
       /\ pc \in {"page", "crc"} => product[slot] = card[slot]
       /\ pc = "page" => \A i \in 1..(type - 1) : page[slot][PageTypes[i]] = "known"
       /\ pc = "crc"  => Complete(slot)

\* The table names a card that is not there only where the read was unfilled.
TableRight ==
  \A s \in Slots : ReadRight(s) /\ product[s] # Empty => product[s] = card[s]

IInv == TypeOK /\ TableRight /\ EncodedForItsCard /\ Position /\ Ahead /\ Behind

-------------------------------------------------------------------------------
(* The order of discovery.                                                 *)

\* The slots and their places in the order are integers.
LEMMA SlotsAreNumbers ==
  /\ LastSlot \in 1..7
  /\ Slots = 1..LastSlot \cup {14, 15}
  /\ \A s \in Slots \cup 1..(LastSlot + 1) : s \in Int /\ Order(s) \in Int
BY SlotAssumption DEF Slots, CardSlots, FirstSlot, MatrixSlot, CoreSlot, Order

\* The slot that follows is the next one in the order.
LEMMA NextSlot ==
  ASSUME slot \in Slots, AfterSlot
  PROVE  /\ pc' = "clock" => slot' = FirstSlot
         /\ pc' = "find" => slot' = LastSlot + 1
         /\ pc' \in {"clock", "find", "pir"}
         /\ pc' # "find" => slot' \in Slots
         /\ pc' # "pir" => slot' \in 1..(LastSlot + 1)
         /\ \A s \in Slots : Order(s) < Order(slot') => Order(s) < Order(slot) \/ s = slot
         /\ \A s \in Slots : Order(s) > Order(slot') \/ s = slot' => Order(s) > Order(slot)
BY SlotAssumption
DEF AfterSlot, Slots, CardSlots, FirstSlot, MatrixSlot, CoreSlot, Order

\* Leaving a slot keeps the table in order, if it is complete or a call failed.
LEMMA LeaveSlot ==
  ASSUME IInv, Discovering, NEW code \in {"ok", "failed"}, EndSlot(code),
         UNCHANGED <<card, open, product, page>>, failed \subseteq failed',
         slot \in failed' \/ Complete(slot)
  PROVE  Position' /\ Ahead' /\ Behind' /\ pc' \in {"pir", "clock", "find"}
<1>1. slot \in Slots
  BY DEF IInv, TypeOK, Discovering
<1>2. AfterSlot
  BY DEF EndSlot
<1>3. /\ pc' = "clock" => slot' = FirstSlot
      /\ pc' = "find" => slot' = LastSlot + 1
      /\ pc' \in {"clock", "find", "pir"}
  BY <1>1, <1>2, NextSlot
<1>4. \A s \in Slots : Order(s) < Order(slot') => Order(s) < Order(slot) \/ s = slot
  BY <1>1, <1>2, NextSlot
<1>5. \A s \in Slots : Order(s) > Order(slot') \/ s = slot' => Order(s) > Order(slot)
  BY <1>1, <1>2, NextSlot
<1>6. Position'
  BY <1>3 DEF Position, Discovering
<1>7. Ahead'
  BY <1>3, <1>5 DEF Ahead, IInv, Order
<1>8. Behind'
  <2> SUFFICES ASSUME NEW s \in Slots, s \notin failed', Order(s) < Order(slot')
               PROVE  Complete(s)'
    BY <1>3 DEF Behind, Order
  <2>1. Complete(s)
    BY <1>4 DEF IInv, Behind
  <2> QED
    BY <2>1 DEF Complete
<1> QED
  BY <1>3, <1>6, <1>7, <1>8

-------------------------------------------------------------------------------
(* The invariant holds.                                                    *)

LEMMA Starts == Init => IInv
<1> SUFFICES ASSUME Init PROVE IInv
  OBVIOUS
<1> USE SlotsAreNumbers DEF Init
<1>1. TypeOK
  BY DEF TypeOK, MatrixSlot, PageTypes
<1>2. TableRight /\ EncodedForItsCard /\ Position /\ Ahead
  BY DEF TableRight, EncodedForItsCard, Position, Ahead, Discovering
<1>3. Behind
  BY DEF Behind, Order, MatrixSlot, CoreSlot
<1> QED
  BY <1>1, <1>2, <1>3 DEF IInv

\* What was read right stays so, and the gains with it.
LEMMA GainsStay ==
  ASSUME IInv, UNCHANGED <<card, gain>>, unfilled \subseteq unfilled'
  PROVE  EncodedForItsCard'
BY DEF IInv, EncodedForItsCard, ReadRight

\* So does the table, if it is left alone.
LEMMA TableStays ==
  ASSUME IInv, UNCHANGED <<card, product>>, unfilled \subseteq unfilled'
  PROVE  TableRight'
BY DEF IInv, TableRight, ReadRight

LEMMA KeptByReadPIR == IInv /\ ReadPIR => IInv'
<1> SUFFICES ASSUME IInv, ReadPIR PROVE IInv'
  OBVIOUS
<1>0. pc = "pir" /\ Discovering /\ slot \in Slots /\ UNCHANGED <<card, open, gain>> /\ used' = "none"
  BY DEF ReadPIR, rack, IInv, TypeOK, Discovering
<1>1. ASSUME NEW p \in Products \cup {Empty}, AddSlot(slot, p), ToPages,
             \/ p = card[slot] /\ UNCHANGED <<unfilled, failed>>
             \/ unfilled' = unfilled \cup {<<slot, "PIR">>} /\ Fails
      PROVE  IInv'
  <2>0. pc' = "page" /\ type' = 1 /\ UNCHANGED <<slot, ret>>
    BY <1>1 DEF ToPages
  <2>1. TypeOK'
    BY <1>0, <1>1, <2>0 DEF IInv, TypeOK, AddSlot, Fails, Discovering, PageTypes
  <2>2. TableRight'
    <3> SUFFICES ASSUME NEW s \in Slots, ReadRight(s)', product'[s] # Empty
                 PROVE  product'[s] = card[s]
      BY <1>0 DEF TableRight
    <3>1. product' = [product EXCEPT ![slot] = p] /\ product \in [Slots -> Products \cup {Empty}]
      BY <1>1 DEF AddSlot, IInv, TypeOK
    <3>2. CASE s = slot
      BY <1>0, <1>1, <3>1, <3>2 DEF ReadRight
    <3>3. CASE s # slot
      BY <1>0, <1>1, <3>1, <3>3 DEF ReadRight, IInv, TableRight
    <3> QED
      BY <3>2, <3>3
  <2>3. EncodedForItsCard' /\ Position'
    BY <1>0, <1>1, <2>0, GainsStay DEF IInv, Position, Discovering
  <2>4. Ahead'
    BY <1>0, <1>1, <2>0, SlotsAreNumbers DEF IInv, TypeOK, Ahead, AddSlot
  <2>5. Behind'
    <3>1. \A s \in Slots : Order(s) < Order(slot) =>
            product'[s] = product[s] /\ page'[s] = page[s]
      BY <1>0, <1>1, SlotsAreNumbers DEF IInv, TypeOK, AddSlot
    <3>2. \A s \in Slots \ failed : Order(s) < Order(slot) => Complete(s)
      BY DEF IInv, Behind
    <3>3. \A s \in Slots \ failed' : Order(s) < Order(slot') => Complete(s)'
      BY <1>0, <1>1, <2>0, <3>1, <3>2 DEF Complete, Fails
    <3>4. slot \notin failed' => product'[slot] = card[slot]
      BY <1>0, <1>1 DEF IInv, TypeOK, AddSlot, Fails
    <3> QED
      BY <1>0, <2>0, <3>3, <3>4 DEF Behind
  <2> QED
    BY <2>1, <2>2, <2>3, <2>4, <2>5 DEF IInv
<1>2. ASSUME NEW code \in {"ok", "failed"}, EndSlot(code),
             UNCHANGED <<table, unfilled>>,
             \/ Fails
             \/ failed' = failed \cup {s \in {slot} : card[s] # Empty}
      PROVE  IInv'
  <2>1. product[slot] = Empty
    BY <1>0 DEF IInv, Ahead
  <2>2. slot \in failed' \/ Complete(slot)
    BY <1>2, <2>1 DEF Complete, Fails
  <2>3. Position' /\ Ahead' /\ Behind' /\ pc' \in {"pir", "clock", "find"}
    BY <1>0, <1>2, <2>2, LeaveSlot DEF table, Fails
  <2>4. TypeOK'
    BY <1>0, <1>2, NextSlot DEF IInv, TypeOK, EndSlot, Discovering, table, Fails, PageTypes
  <2>5. TableRight' /\ EncodedForItsCard'
    BY <1>0, <1>2, TableStays, GainsStay DEF table
  <2> QED
    BY <2>3, <2>4, <2>5 DEF IInv
<1>3. card[slot] \in Products \cup {Empty}
  BY <1>0 DEF IInv, TypeOK
<1> QED
  BY <1>0, <1>1, <1>2, <1>3 DEF ReadPIR, Unfilled

LEMMA KeptByReadPage == IInv /\ ReadPage => IInv'
<1> SUFFICES ASSUME IInv, ReadPage PROVE IInv'
  OBVIOUS
<1>0. /\ pc = "page" /\ Discovering /\ slot \in Slots
      /\ UNCHANGED <<card, open, product, gain>> /\ used' = "none"
  BY DEF ReadPage, rack, IInv, TypeOK, Discovering
<1>1. type \in 1..7 /\ Len(PageTypes) = 7 /\ PageTypes[type] \in PageType
  BY DEF IInv, TypeOK, PageTypes, PageType
<1>2. ASSUME unfilled \subseteq unfilled' PROVE TableRight' /\ EncodedForItsCard'
  BY <1>0, <1>2, TableStays, GainsStay
<1>3. ASSUME NEW address \in {"known", "wrong"}, SetPage(address),
             \/ address = "known" /\ UNCHANGED <<unfilled, failed>>
             \/ unfilled' = unfilled \cup {<<slot, PageTypes[type]>>} /\ Fails
      PROVE  IInv'
  <2>0. /\ page' = [page EXCEPT ![slot][PageTypes[type]] = address]
        /\ \/ type < 7 /\ type' = type + 1 /\ pc' = "page"
           \/ type = 7 /\ type' = type /\ pc' = "crc"
        /\ UNCHANGED <<slot, ret>>
    BY <1>0, <1>1, <1>3 DEF SetPage
  <2>1. TypeOK'
    BY <1>0, <1>1, <1>3, <2>0 DEF IInv, TypeOK, Discovering, Fails
  <2>2. Position' /\ Ahead'
    BY <1>0, <2>0, SlotsAreNumbers DEF IInv, Position, Ahead, Discovering
  <2>3. Behind'
    <3>1. \A s \in Slots : s # slot => page'[s] = page[s]
      BY <1>0, <2>0 DEF IInv, TypeOK
    <3>2. \A s \in Slots \ failed' : Order(s) < Order(slot) => Complete(s)'
      BY <1>0, <1>3, <3>1, SlotsAreNumbers DEF IInv, Behind, Complete, Fails
    <3> SUFFICES ASSUME slot \notin failed'
                 PROVE  /\ product[slot] = card[slot]
                        /\ pc' = "page" => \A i \in 1..(type' - 1) : page'[slot][PageTypes[i]] = "known"
                        /\ pc' = "crc" => \A t \in PageType : page'[slot][t] = "known"
      BY <1>0, <2>0, <3>2 DEF Behind, Complete
    <3>3. address = "known" /\ slot \notin failed
      BY <1>3 DEF Fails
    <3>4. product[slot] = card[slot] /\ \A i \in 1..(type - 1) : page[slot][PageTypes[i]] = "known"
      BY <1>0, <3>3 DEF IInv, Behind
    <3>5. \A i \in 1..type : PageTypes[i] \in PageType
      BY <1>1 DEF PageType
    <3>6. \A i \in 1..type : page'[slot][PageTypes[i]] = "known"
      BY <1>0, <1>1, <2>0, <3>3, <3>4, <3>5 DEF IInv, TypeOK
    <3> QED
      BY <1>0, <1>1, <2>0, <3>4, <3>6 DEF PageType
  <2>4. TableRight' /\ EncodedForItsCard'
    BY <1>2, <1>3
  <2> QED
    BY <2>1, <2>2, <2>3, <2>4 DEF IInv
<1>4. CASE EndSlot("failed") /\ Fails /\ UNCHANGED <<page, unfilled>>
  <2>1. Position' /\ Ahead' /\ Behind' /\ pc' \in {"pir", "clock", "find"}
    BY <1>0, <1>4, LeaveSlot DEF Fails
  <2>2. TypeOK'
    BY <1>0, <1>4, NextSlot DEF IInv, TypeOK, EndSlot, Discovering, Fails, PageTypes
  <2> QED
    BY <1>2, <1>4, <2>1, <2>2 DEF IInv
<1> QED
  BY <1>3, <1>4 DEF ReadPage, Unfilled

LEMMA KeptByReadFirstPage == IInv /\ ReadFirstPage => IInv'
<1> SUFFICES ASSUME IInv, ReadFirstPage PROVE IInv'
  OBVIOUS
<1>0. /\ pc = "crc" /\ Discovering /\ slot \in Slots
      /\ UNCHANGED <<card, open, product, page, gain, unfilled, failed>> /\ used' = "none"
  BY DEF ReadFirstPage, rack, table, IInv, TypeOK, Discovering
<1>1. PICK code \in {"ok", "failed"} : EndSlot(code)
  BY DEF ReadFirstPage
<1>2. slot \in failed \/ Complete(slot)
  BY <1>0 DEF IInv, Behind
<1>3. Position' /\ Ahead' /\ Behind' /\ pc' \in {"pir", "clock", "find"}
  BY <1>0, <1>1, <1>2, LeaveSlot
<1>4. TypeOK'
  BY <1>0, <1>1, NextSlot DEF IInv, TypeOK, EndSlot, Discovering, PageTypes
<1>5. TableRight' /\ EncodedForItsCard'
  BY <1>0, TableStays, GainsStay
<1> QED
  BY <1>3, <1>4, <1>5 DEF IInv

LEMMA KeptByCheckClock == IInv /\ CheckClock => IInv'
<1> SUFFICES ASSUME IInv, CheckClock PROVE IInv'
  OBVIOUS
<1>0. /\ pc = "clock" /\ pc' = "pir" /\ slot = FirstSlot
      /\ UNCHANGED <<card, open, product, page, slot, type, gain, unfilled, failed>>
      /\ ret' \in {"ok", "failed"} /\ used' \in {"none", page[CoreSlot]["CLKPR"]}
  BY DEF CheckClock, rack, table, IInv, TypeOK, Position
<1>1. TypeOK'
  <2>1. used' \in {"none", "zero", "nodata", "known", "wrong"}
    <3>1. CoreSlot \in Slots /\ "CLKPR" \in PageType
      BY DEF Slots, PageType, PageTypes
    <3> QED
      BY <1>0, <3>1 DEF IInv, TypeOK
  <2> QED
    BY <1>0, <2>1, SlotsAreNumbers DEF IInv, TypeOK, FirstSlot
<1>2. TableRight' /\ EncodedForItsCard' /\ Position'
  BY <1>0, TableStays, GainsStay DEF Position, Discovering
<1>3. Ahead' /\ Behind'
  BY <1>0 DEF IInv, Ahead, Behind, Complete, Order
<1> QED
  BY <1>1, <1>2, <1>3 DEF IInv

\* Once the slots are read, the table does not change any more.
LEMMA TableKept ==
  ASSUME IInv, pc \in {"find", "gain1", "gain4"}, pc' \in {"gain1", "gain4", "done"},
         UNCHANGED <<card, product, page, slot, unfilled, failed>>
  PROVE  TableRight' /\ Position' /\ Ahead' /\ Behind'
<1>1. TableRight' /\ Position' /\ Ahead'
  BY TableStays, SlotsAreNumbers DEF IInv, Position, Ahead, Discovering, Order
<1>2. Behind'
  BY DEF IInv, Behind, Complete, Order
<1> QED
  BY <1>1, <1>2

LEMMA KeptByFindMicrophones == IInv /\ FindMicrophones => IInv'
<1> SUFFICES ASSUME IInv, FindMicrophones PROVE IInv'
  OBVIOUS
<1>0. /\ pc = "find" /\ pc' \in {"gain1", "done"}
      /\ UNCHANGED <<card, open, product, page, slot, type, gain, unfilled, failed>>
      /\ ret' \in {"ok", "failed"} /\ used' = "none"
  BY DEF FindMicrophones, Finish, rack, table, IInv, TypeOK
<1>1. TypeOK' /\ EncodedForItsCard'
  BY <1>0, GainsStay DEF IInv, TypeOK
<1> QED
  BY <1>0, <1>1, TableKept DEF IInv

\* The two lookups of rack_set_gain agree on the product: a gain is set to the
\* conversion of the card that is in the slot, unless its PIR was misread.
LEMMA GainSet ==
  ASSUME IInv, NEW channel \in {1, 4}, NEW ACTION next, SetGain(channel, next),
         UNCHANGED <<card, product, page, unfilled>>
  PROVE  /\ gain' \in [Slots -> [{1, 4} -> {"unset"} \cup Cards]]
         /\ EncodedForItsCard'
         /\ used' \in {"none", "zero", "nodata", "known", "wrong"}
         /\ next \/ (pc' = "done" /\ ret' = "failed")
<1>1. CASE Refuse(next)
  BY <1>1, GainsStay DEF Refuse, Finish, IInv, TypeOK
<1>2. ASSUME NEW p \in {"AX4I", "AX4M"}, NEW s \in Lookup(p), Write(s, p, channel, next)
      PROVE  /\ gain' \in [Slots -> [{1, 4} -> {"unset"} \cup Cards]]
             /\ EncodedForItsCard'
             /\ used' \in {"none", "zero", "nodata", "known", "wrong"}
             /\ next \/ (pc' = "done" /\ ret' = "failed")
  <2>1. s \in Slots /\ product[s] = p
    BY <1>2 DEF Lookup, Findable
  <2>2. ReadRight(s) => p = card[s]
    BY <1>2, <2>1 DEF IInv, TableRight, Empty
  <2>3. gain' = gain \/ gain' = [gain EXCEPT ![s][channel] = p]
    BY <1>2 DEF Write, Landed
  <2>4. gain \in [Slots -> [{1, 4} -> {"unset"} \cup Cards]]
    BY DEF IInv, TypeOK
  <2>5. gain' \in [Slots -> [{1, 4} -> {"unset"} \cup Cards]]
    BY <1>2, <2>1, <2>3, <2>4 DEF Cards
  <2>6. EncodedForItsCard'
    BY <1>2, <2>1, <2>2, <2>3, <2>4 DEF IInv, EncodedForItsCard, ReadRight
  <2>7. used' \in {"zero", "nodata", "known", "wrong"}
    <3>1. "CSPR" \in PageType
      BY DEF PageType, PageTypes
    <3> QED
      BY <1>2, <2>1, <3>1 DEF Write, IInv, TypeOK
  <2> QED
    BY <1>2, <2>5, <2>6, <2>7 DEF Write, Finish
<1> QED
  BY <1>1, <1>2 DEF SetGain

LEMMA KeptBySetGain1 == IInv /\ SetGain1 => IInv'
<1> SUFFICES ASSUME IInv, SetGain1 PROVE IInv'
  OBVIOUS
<1>0. /\ pc = "gain1" /\ SetGain(1, pc' = "gain4" /\ UNCHANGED ret)
      /\ UNCHANGED <<card, open, product, page, slot, type, unfilled, failed>>
  BY DEF SetGain1, rack, table
<1>1. /\ gain' \in [Slots -> [{1, 4} -> {"unset"} \cup Cards]]
      /\ EncodedForItsCard'
      /\ used' \in {"none", "zero", "nodata", "known", "wrong"}
      /\ (pc' = "gain4" /\ UNCHANGED ret) \/ (pc' = "done" /\ ret' = "failed")
  BY <1>0, GainSet
<1>2. TypeOK'
  BY <1>0, <1>1 DEF IInv, TypeOK
<1> QED
  BY <1>0, <1>1, <1>2, TableKept DEF IInv

LEMMA KeptBySetGain4 == IInv /\ SetGain4 => IInv'
<1> SUFFICES ASSUME IInv, SetGain4 PROVE IInv'
  OBVIOUS
<1>0. /\ pc = "gain4" /\ SetGain(4, Finish("ok"))
      /\ UNCHANGED <<card, open, product, page, slot, type, unfilled, failed>>
  BY DEF SetGain4, rack, table
<1>1. /\ gain' \in [Slots -> [{1, 4} -> {"unset"} \cup Cards]]
      /\ EncodedForItsCard'
      /\ used' \in {"none", "zero", "nodata", "known", "wrong"}
      /\ Finish("ok") \/ (pc' = "done" /\ ret' = "failed")
  BY <1>0, GainSet
<1>2. TypeOK'
  BY <1>0, <1>1 DEF IInv, TypeOK, Finish
<1> QED
  BY <1>0, <1>1, <1>2, TableKept DEF IInv, Finish

\* Whatever mailbox calls fail, the invariant holds throughout
\* rack_initialize.
THEOREM Inductive == Spec => []IInv
<1>1. IInv /\ [Next]_vars => IInv'
  <2> SUFFICES ASSUME IInv, [Next]_vars PROVE IInv'
    OBVIOUS
  <2>1. CASE UNCHANGED vars
    BY <2>1 DEF vars, IInv, TypeOK, TableRight, EncodedForItsCard, ReadRight, Position,
                Ahead, Behind, Complete, Discovering, Order
  <2>2. CASE Next
    BY <2>2, KeptByReadPIR, KeptByReadPage, KeptByReadFirstPage, KeptByCheckClock,
       KeptByFindMicrophones, KeptBySetGain1, KeptBySetGain4 DEF Next
  <2> QED
    BY <2>1, <2>2
<1> QED
  BY <1>1, Starts, PTL DEF Spec

\* Every variable keeps its type: discovery never leaves the slots there are.
THEOREM Typing == Spec => []TypeOK
BY Inductive, PTL DEF IInv

\* A default gain is written with the conversion of the card that receives it,
\* whatever the two lookups of that card find, unless the product of that very
\* slot is what an unfilled read left.
THEOREM GainsFitTheirCards == Spec => []EncodedForItsCard
BY Inductive, PTL DEF IInv

\* rack_initialize ends with the card and all its pages in the table for each slot
\* none of whose own reads failed, whatever those of other slots did: with any
\* number of slots, none is skipped and none overwritten.
THEOREM DiscoveryIsComplete == Spec => []DiscoveryComplete
<1>1. IInv => DiscoveryComplete
  <2> SUFFICES ASSUME IInv, pc = "done" PROVE \A s \in Slots \ failed : Complete(s)
    BY DEF DiscoveryComplete, Complete
  <2>1. slot = LastSlot + 1
    BY DEF IInv, Position, Discovering
  <2>2. \A s \in Slots : Order(s) < Order(slot)
    BY <2>1, SlotsAreNumbers DEF Order, MatrixSlot, CoreSlot
  <2> QED
    BY <2>2 DEF IInv, Behind
<1> QED
  BY <1>1, Inductive, PTL

-------------------------------------------------------------------------------
(* The default gains.                                                      *)

\* Which gains are set at each place of initialize_default_parameters.
GainsSoFar ==
  /\ pc \notin {"gain4", "done"} => ~Written(1) /\ ~Written(4)
  /\ pc = "gain4" => ~Written(4) /\ (failed = {} => Written(1))
  /\ DefaultsAllOrNone

\* Once discovery is over without a failure, the table has every address.
LEMMA AddressesKnown ==
  ASSUME IInv, pc \in {"gain1", "gain4"}, failed = {},
         NEW p \in {"AX4I", "AX4M"}, NEW s \in Lookup(p)
  PROVE  page[s]["CSPR"] = "known"
<1>1. s \in Slots /\ product[s] = p
  BY DEF Lookup, Findable
<1>2. Order(s) < Order(slot)
  <2>1. slot = LastSlot + 1
    BY DEF IInv, Position, Discovering
  <2> QED
    BY <1>1, <2>1, SlotsAreNumbers DEF Order, MatrixSlot, CoreSlot
<1>3. Complete(s)
  BY <1>1, <1>2 DEF IInv, Behind
<1>4. "CSPR" \in PageType
  BY DEF PageType, PageTypes
<1> QED
  BY <1>1, <1>3, <1>4 DEF Complete, Empty

\* A default gain is written, or initialisation ends with a failure.
LEMMA GainWritten ==
  ASSUME IInv, pc \in {"gain1", "gain4"},
         NEW channel \in {1, 4}, NEW other \in {1, 4} \ {channel},
         NEW ACTION next, SetGain(channel, next)
  PROVE  \/ pc' = "done" /\ ret' = "failed"
         \/ /\ next
            /\ failed = {} => Written(channel)'
            /\ Written(other)' <=> Written(other)
<1>1. CASE Refuse(next)
  BY <1>1 DEF Refuse, Finish
<1>2. ASSUME NEW p \in {"AX4I", "AX4M"}, NEW s \in Lookup(p), Write(s, p, channel, next)
      PROVE  \/ pc' = "done" /\ ret' = "failed"
             \/ /\ next
                /\ failed = {} => Written(channel)'
                /\ Written(other)' <=> Written(other)
  <2>1. s \in Slots /\ p # "unset"
    BY <1>2 DEF Lookup, Findable
  <2>2. CASE Finish("failed")
    BY <2>2 DEF Finish
  <2>3. CASE Landed(s, p, channel) /\ next
    <3>1. gain \in [Slots -> [{1, 4} -> {"unset"} \cup Cards]]
      BY DEF IInv, TypeOK
    <3>2. failed = {} => used' = "known"
      BY <1>2, AddressesKnown DEF Write
    <3>3. failed = {} => gain'[s][channel] = p
      BY <2>1, <2>3, <3>1, <3>2 DEF Landed
    <3>4. \A t \in Slots : gain'[t][other] = gain[t][other]
      BY <2>1, <2>3, <3>1 DEF Landed
    <3> QED
      BY <2>1, <2>3, <3>3, <3>4 DEF Written
  <2> QED
    BY <1>2, <2>2, <2>3 DEF Write
<1> QED
  BY <1>1, <1>2 DEF SetGain

LEMMA Channels == 4 \in {1, 4} \ {1} /\ 1 \in {1, 4} \ {4}
  OBVIOUS

LEMMA GainsKept == IInv /\ GainsSoFar /\ [Next]_vars => GainsSoFar'
<1> SUFFICES ASSUME IInv, GainsSoFar, [Next]_vars PROVE GainsSoFar'
  OBVIOUS
<1>1. CASE UNCHANGED vars
  BY <1>1 DEF vars, GainsSoFar, Written, DefaultsAllOrNone
<1>2. CASE ReadPIR \/ ReadPage \/ ReadFirstPage
  <2>1. UNCHANGED gain /\ pc \notin {"gain4", "done"}
    BY <1>2 DEF ReadPIR, ReadPage, ReadFirstPage
  <2>2. pc' \notin {"gain4", "done"}
    BY <1>2 DEF ReadPIR, ToPages, ReadPage, SetPage, ReadFirstPage, EndSlot, AfterSlot
  <2> QED
    BY <2>1, <2>2 DEF GainsSoFar, Written, DefaultsAllOrNone
<1>3. CASE CheckClock \/ FindMicrophones
  <2>1. UNCHANGED gain /\ pc \notin {"gain4", "done"} /\ pc' # "gain4"
    BY <1>3 DEF CheckClock, FindMicrophones, Finish
  <2> QED
    BY <2>1 DEF GainsSoFar, Written, DefaultsAllOrNone
<1>4. CASE SetGain1
  <2>1. pc = "gain1" /\ SetGain(1, pc' = "gain4" /\ UNCHANGED ret) /\ UNCHANGED failed
    BY <1>4 DEF SetGain1
  <2>2. \/ pc' = "done" /\ ret' = "failed"
        \/ /\ pc' = "gain4"
           /\ failed = {} => Written(1)'
           /\ Written(4)' <=> Written(4)
    BY <2>1, GainWritten, Channels
  <2> QED
    BY <2>1, <2>2 DEF GainsSoFar, DefaultsAllOrNone
<1>5. CASE SetGain4
  <2>1. pc = "gain4" /\ SetGain(4, Finish("ok")) /\ UNCHANGED failed
    BY <1>5 DEF SetGain4
  <2>2. \/ pc' = "done" /\ ret' = "failed"
        \/ /\ pc' = "done"
           /\ failed = {} => Written(4)'
           /\ Written(1)' <=> Written(1)
    BY <2>1, GainWritten, Channels DEF Finish
  <2> QED
    BY <2>1, <2>2 DEF GainsSoFar, DefaultsAllOrNone
<1> QED
  BY <1>1, <1>2, <1>3, <1>4, <1>5 DEF Next

\* If no read of the discovery failed, rack_initialize does not return 0 with one
\* of the two default gains set and the other not, with any number of slots.
THEOREM DefaultsGoTogether == Spec => []DefaultsAllOrNone
<1>1. Init => GainsSoFar
  BY DEF Init, GainsSoFar, Written, DefaultsAllOrNone
<1>2. GainsSoFar => DefaultsAllOrNone
  BY DEF GainsSoFar
<1> QED
  BY Inductive, GainsKept, <1>1, <1>2, PTL DEF Spec

-------------------------------------------------------------------------------
(* The calls run out.                                                      *)

LEMMA NineCalls == CallsOfSlot = 9 /\ Len(PageTypes) = 7
  BY DEF CallsOfSlot, PageTypes

\* What is left while a slot is discovered ...
LEMMA LeftInSlot ==
  ASSUME IInv, Discovering
  PROVE  /\ slot \in Slots /\ CallsHere \in 1..9
         /\ CallsLeft = CallsHere + CASE slot = MatrixSlot -> 9 * (LastSlot + 1) + 4
                                      [] slot = CoreSlot   -> 9 * LastSlot + 4
                                      [] OTHER             -> 9 * (LastSlot - slot) + 3
<1>1. slot \in Slots /\ type \in 1..7
  BY NineCalls DEF IInv, TypeOK, Discovering
<1>2. CallsHere \in 1..9
  BY <1>1, NineCalls DEF CallsHere, Discovering
<1> QED
  BY <1>1, <1>2, NineCalls DEF CallsLeft, Discovering

\* ... is less when it is left, for the next slot, the clocks or the gains.
LEMMA LeavingSlotCounts ==
  ASSUME IInv, Discovering, AfterSlot
  PROVE  CallsLeft' \in 0..CallsLeft - 1
<1> USE SlotsAreNumbers DEF MatrixSlot, CoreSlot, FirstSlot
<1>1. CASE slot = MatrixSlot
  <2>1. pc' = "pir" /\ slot' = CoreSlot
    BY <1>1 DEF AfterSlot
  <2>2. CallsLeft' = 9 + (9 * LastSlot + 4)
    BY <2>1, NineCalls DEF CallsLeft, CallsHere
  <2> QED
    BY <1>1, <2>2, LeftInSlot
<1>2. CASE slot = CoreSlot
  <2>1. pc' = "clock"
    BY <1>2 DEF AfterSlot
  <2>2. CallsLeft' = 9 * LastSlot + 4
    BY <2>1, NineCalls DEF CallsLeft
  <2> QED
    BY <1>2, <2>2, LeftInSlot
<1>3. CASE slot = LastSlot
  <2>1. pc' = "find"
    BY <1>3 DEF AfterSlot
  <2>2. CallsLeft' = 3
    BY <2>1 DEF CallsLeft
  <2> QED
    BY <1>3, <2>2, LeftInSlot
<1>4. CASE slot \in 1..(LastSlot - 1)
  <2>1. pc' = "pir" /\ slot' = slot + 1
    BY <1>4 DEF AfterSlot
  <2>2. CallsLeft' = 9 + (9 * (LastSlot - (slot + 1)) + 3)
    BY <1>4, <2>1, NineCalls DEF CallsLeft, CallsHere
  <2> QED
    BY <1>4, <2>2, LeftInSlot
<1> QED
  BY <1>1, <1>2, <1>3, <1>4, LeftInSlot

\* A step within a slot is one call of those of the slot.
LEMMA WithinSlotCounts ==
  ASSUME IInv, Discovering, UNCHANGED slot,
         pc' \in {"pir", "page", "crc"},
         CallsHere' \in 1..CallsHere - 1
  PROVE  CallsLeft' \in 0..CallsLeft - 1
<1> USE SlotsAreNumbers DEF MatrixSlot, CoreSlot
<1>1. CallsLeft' = CallsHere' + CASE slot = MatrixSlot -> 9 * (LastSlot + 1) + 4
                                  [] slot = CoreSlot   -> 9 * LastSlot + 4
                                  [] OTHER             -> 9 * (LastSlot - slot) + 3
  BY NineCalls DEF CallsLeft
<1>2. CASE slot \in {MatrixSlot, CoreSlot}
  BY <1>1, <1>2, LeftInSlot
<1>3. CASE slot \in 1..LastSlot
  BY <1>1, <1>3, LeftInSlot
<1> QED
  BY <1>2, <1>3, LeftInSlot

LEMMA DiscoveryCounts ==
  ASSUME IInv, ReadPIR \/ ReadPage \/ ReadFirstPage
  PROVE  CallsLeft' \in 0..CallsLeft - 1
<1>1. Discovering
  BY DEF ReadPIR, ReadPage, ReadFirstPage, Discovering
<1>2. CASE \E code : EndSlot(code)
  BY <1>1, <1>2, LeavingSlotCounts DEF EndSlot
<1>3. CASE ReadPIR /\ pc' = "page" /\ type' = 1 /\ UNCHANGED slot
  <2>1. CallsHere = 9 /\ CallsHere' = 8
    BY <1>3, NineCalls DEF CallsHere, ReadPIR
  <2> QED
    BY <1>1, <1>3, <2>1, WithinSlotCounts
<1>4. CASE /\ ReadPage /\ UNCHANGED slot
           /\ \/ type < 7 /\ type' = type + 1 /\ pc' = "page"
              \/ type = 7 /\ pc' = "crc"
  <2>1. type \in 1..7 /\ CallsHere = 9 - type
    BY <1>4, NineCalls DEF IInv, TypeOK, CallsHere, ReadPage
  <2>2. CallsHere' = IF pc' = "page" THEN 9 - type' ELSE 1
    BY <1>4, NineCalls DEF CallsHere
  <2> QED
    BY <1>1, <1>4, <2>1, <2>2, WithinSlotCounts
<1>5. CASE ReadPage
  <2>1. type \in 1..7
    BY NineCalls DEF IInv, TypeOK
  <2>2. \/ EndSlot("failed")
        \/ /\ UNCHANGED slot
           /\ \/ type < 7 /\ type' = type + 1 /\ pc' = "page"
              \/ ~(type < 7) /\ pc' = "crc"
    BY <1>5, NineCalls DEF ReadPage, SetPage
  <2> QED
    BY <1>2, <1>4, <1>5, <2>1, <2>2
<1> QED
  BY <1>2, <1>3, <1>5 DEF ReadPIR, ToPages, ReadFirstPage

\* The clocks, after the two virtual slots.
LEMMA ClockCounts ==
  ASSUME IInv, CheckClock
  PROVE  CallsLeft' \in 0..CallsLeft - 1
<1> USE SlotsAreNumbers DEF MatrixSlot, CoreSlot, FirstSlot
<1>1. pc = "clock" /\ pc' = "pir" /\ slot = FirstSlot /\ slot' = slot
  BY DEF CheckClock, IInv, Position
<1>2. CallsLeft = 9 * LastSlot + 4
  BY <1>1, NineCalls DEF CallsLeft
<1>3. CallsLeft' = 9 + (9 * (LastSlot - 1) + 3)
  BY <1>1, NineCalls DEF CallsLeft, CallsHere
<1> QED
  BY <1>2, <1>3

LEMMA GainsCount ==
  ASSUME FindMicrophones \/ SetGain1 \/ SetGain4
  PROVE  CallsLeft' \in 0..CallsLeft - 1
<1>1. CASE FindMicrophones
  <2>1. pc = "find" /\ pc' \in {"gain1", "done"}
    BY <1>1 DEF FindMicrophones, Finish
  <2> QED
    BY <2>1 DEF CallsLeft
<1>2. CASE SetGain1
  <2>1. pc = "gain1" /\ pc' \in {"gain4", "done"}
    BY <1>2 DEF SetGain1, SetGain, Refuse, Write, Finish
  <2> QED
    BY <2>1 DEF CallsLeft
<1>3. CASE SetGain4
  <2>1. pc = "gain4" /\ pc' = "done"
    BY <1>3 DEF SetGain4, SetGain, Refuse, Write, Finish
  <2> QED
    BY <2>1 DEF CallsLeft
<1> QED
  BY <1>1, <1>2, <1>3

\* Whatever calls fail, with any number of slots, rack_initialize is over after
\* nine calls for each slot and four more at most (435-496).
THEOREM InitialisationEnds == Spec => CallsRunOut
<1>1. IInv /\ [Next]_vars => [CallsLeft' \in 0..CallsLeft - 1]_vars
  BY DiscoveryCounts, ClockCounts, GainsCount DEF Next
<1> QED
  BY Inductive, <1>1, PTL DEF Spec, CallsRunOut

=============================================================================
