------------------------ MODULE MatrixAndFlashProofs ------------------------
(***************************************************************************)
(* The safety properties of MatrixAndFlash for any number of slots, cards  *)
(* and channels, by an inductive invariant: how far clearing has come, and *)
(* whose command it is that the flash has carried out.                     *)
(***************************************************************************)
EXTENDS MatrixAndFlash, TLAPS

\* What is about to be written has its place.
JobThere == pc = "entry" => job.slot \in CardSlots

\* Outside of a clearing, the matrix holds what is known of the output.
MappingHeld ==
  mapped # Unknown => Mapping(watched[1], watched[2]) = mapped

\* Clearing is within a slot only if there is a card in it, and if all went
\* well it leaves nothing behind.
Clearing ==
  pc = "clear" =>
    /\ mapped = Unknown
    /\ page % 4 # 0 => Present(page \div 4)
    /\ ret = "ok" =>
         \A e \in matrix : Present(e.page \div 4) => e.page >= page

\* When no command is running, the last one was carried out with this key.
Unlocking ==
  /\ pc \in {"wait", "result", "status"} /\ ~flash.fcr
       => (flash.fcar /\ flash.key => ~flash.locked)
  /\ pc \in {"result", "status"} => ~flash.fcr
  /\ pc = "status" => flash.fcar

IInv ==
  /\ TypeOK
  /\ JobThere
  /\ MappingHeld /\ Clearing
  /\ Unlocking

-------------------------------------------------------------------------------
(* Where an output has its entry.                                          *)

LEMMA Places ==
  ASSUME NEW slot \in CardSlots, NEW channel \in 1..64
  PROVE  /\ PageOf(slot, channel) \in 4 * slot..4 * slot + 3
         /\ PageOf(slot, channel) \div 4 = slot
         /\ PageOf(slot, channel) \in 4..4 * LastSlot + 3
         /\ EntryOf(channel) \in 0..15
<1>1. (channel - 1) \div 16 \in 0..3
  OBVIOUS
<1>2. slot \in Nat /\ slot >= 1 /\ slot <= LastSlot
  BY SlotAssumption DEF CardSlots
<1>3. PageOf(slot, channel) \in 4 * slot..4 * slot + 3
  BY <1>1, <1>2 DEF PageOf
<1>4. PageOf(slot, channel) \div 4 = slot
  BY <1>2, <1>3
<1>5. EntryOf(channel) \in 0..15
  BY DEF EntryOf
<1> QED
  BY <1>2, <1>3, <1>4, <1>5, SlotAssumption

\* No two outputs of a rack share an entry of the matrix, so that a mapping
\* replaces that of its own output only (rackAuvitran.c:410-415).
THEOREM EntriesApart ==
  ASSUME NEW s \in CardSlots, NEW t \in CardSlots,
         NEW c \in 1..64, NEW d \in 1..64,
         PageOf(s, c) = PageOf(t, d), EntryOf(c) = EntryOf(d)
  PROVE  s = t /\ c = d
<1>1. s = t
  BY Places
<1>2. (c - 1) \div 16 = (d - 1) \div 16 /\ (c - 1) % 16 = (d - 1) % 16
  <2>1. s \in Nat /\ t \in Nat /\ (c - 1) \div 16 \in Int /\ (d - 1) \div 16 \in Int
    BY SlotAssumption DEF CardSlots
  <2> QED
    BY <1>1, <2>1 DEF PageOf, EntryOf
<1>3. c = d
  BY <1>2
<1> QED
  BY <1>1, <1>3

\* A mapping that is written is there, and the others are as before.
LEMMA AfterWith ==
  ASSUME NEW s \in CardSlots, NEW t \in CardSlots,
         NEW c \in 1..64, NEW d \in 1..64, NEW bytes,
         matrix' = With(PageOf(s, c), EntryOf(c), bytes)
  PROVE  Mapping(t, d)' = IF t = s /\ d = c THEN bytes ELSE Mapping(t, d)
<1> DEFINE here(m) == {e \in m : e.page = PageOf(t, d) /\ e.entry = EntryOf(d)}
           new     == [page |-> PageOf(s, c), entry |-> EntryOf(c), bytes |-> bytes]
<1>1. CASE t = s /\ d = c
  <2>1. here(matrix') = {new}
    BY <1>1 DEF With
  <2>2. (CHOOSE e \in {new} : TRUE) = new
    OBVIOUS
  <2> QED
    BY <1>1, <2>1, <2>2 DEF Mapping
<1>2. CASE ~(t = s /\ d = c)
  <2>1. ~(PageOf(t, d) = PageOf(s, c) /\ EntryOf(d) = EntryOf(c))
    BY <1>2, EntriesApart
  <2>2. here(matrix') = here(matrix)
    BY <2>1 DEF With
  <2> DEFINE Found(entries) ==
               IF entries = {} THEN Clean ELSE (CHOOSE e \in entries : TRUE).bytes
  <2>3. Mapping(t, d) = Found(here(matrix)) /\ Mapping(t, d)' = Found(here(matrix'))
    BY DEF Mapping
  <2> HIDE DEF Found, here
  <2> QED
    BY <1>2, <2>2, <2>3
<1> QED
  BY <1>1, <1>2

-------------------------------------------------------------------------------
(* The calls, each with what it leaves alone.                              *)

LEMMA InitInv == Init => IInv
<1> SUFFICES ASSUME Init PROVE IInv
  OBVIOUS
<1>1. flash \in [locked : BOOLEAN, key : BOOLEAN, fcr : BOOLEAN, fcar : BOOLEAN]
  BY DEF Init
<1>2. /\ page \in Pages /\ matrix = {} /\ mapped = Unknown
      /\ pc = "idle" /\ ret = "ok" /\ job = NoJob
  BY SlotAssumption DEF Init, Pages
<1>3. TypeOK
  BY <1>1, <1>2 DEF Init, TypeOK
<1> QED
  BY <1>2, <1>3 DEF IInv, JobThere, MappingHeld, Clearing, Unlocking

\* The part of the state that the matrix and its calls make up, and the flash.
MatrixOK ==
  /\ matrix \subseteq [page : Nat, entry : 0..15, bytes : Bytes]
  /\ page \in Pages
  /\ mapped \in Bytes \cup {Unknown}
  /\ MappingHeld /\ Clearing

FlashOK ==
  /\ flash \in [locked : BOOLEAN, key : BOOLEAN, fcr : BOOLEAN, fcar : BOOLEAN]
  /\ Unlocking

CallOK ==
  /\ product \in [CardSlots -> Cards \cup {Empty}]
  /\ allowed \in BOOLEAN
  /\ watched \in Outputs
  /\ pc \in {"idle", "entry", "clear", "command", "wait", "result", "status"}
  /\ job \in [slot : CardSlots, channel : ChannelsOut, from : CardSlots,
              bytes : Bytes] \cup {NoJob}
  /\ ret \in {"ok", "failed"}
  /\ JobThere

LEMMA Parts == IInv <=> MatrixOK /\ FlashOK /\ CallOK
  BY DEF IInv, TypeOK, MatrixOK, FlashOK, CallOK

\* A return that leaves the matrix and the flash alone.
LEMMA ReturnKeeps ==
  ASSUME IInv, NEW code \in {"ok", "failed"}, Return(code),
         UNCHANGED <<table, matrix, flash, mapped>>
  PROVE  IInv'
<1>1. FlashOK'
  BY DEF IInv, TypeOK, Return, FlashOK, Unlocking
<1>2. CallOK'
  BY DEF IInv, TypeOK, Return, CallOK, JobThere, table
<1>3. MatrixOK'
  BY SlotAssumption
     DEF IInv, TypeOK, Return, MatrixOK, MappingHeld, Mapping, Clearing, Pages,
         table
<1> QED
  BY <1>1, <1>2, <1>3, Parts, PTL

LEMMA MatrixSetKeeps ==
  ASSUME IInv, NEW in \in Cards, NEW out \in Cards,
         NEW channelIn \in ChannelsIn, NEW channelOut \in ChannelsOut,
         NEW enable \in BOOLEAN, MatrixSet(in, channelIn, out, channelOut, enable)
  PROVE  IInv'
<1>1. CASE Return("failed")
  BY <1>1, ReturnKeeps DEF MatrixSet
<1>2. CASE ~Return("failed")
  <2>1. PICK slotIn \in Find(in), slotOut \in Find(out) :
          job' = [slot |-> slotOut, channel |-> channelOut, from |-> slotIn,
                  bytes |-> <<channelIn - 1, SlotByte(slotIn, enable)>>]
    BY <1>2 DEF MatrixSet
  <2>2. pc' = "entry" /\ UNCHANGED <<page, ret, table, matrix, flash, mapped>>
    BY <1>2 DEF MatrixSet
  <2>3. slotIn \in CardSlots /\ slotOut \in CardSlots
    BY DEF Find
  <2>4. slotIn \in 1..7
    BY <2>3, SlotAssumption DEF CardSlots
  <2>5. SlotByte(slotIn, enable) \in 0..7
    BY <2>4 DEF SlotByte
  <2>6. channelIn - 1 \in 0..63
    BY InAssumption
  <2>7. CallOK'
    BY <2>1, <2>2, <2>3, <2>5, <2>6
       DEF IInv, TypeOK, CallOK, JobThere, Bytes, table
  <2>8. MatrixOK'
    BY <2>2 DEF IInv, TypeOK, MatrixOK, MappingHeld, Mapping, Clearing, table
  <2>9. FlashOK'
    BY <2>2 DEF IInv, TypeOK, FlashOK, Unlocking
  <2> QED
    BY <2>7, <2>8, <2>9, Parts, PTL
<1> QED
  BY <1>1, <1>2

LEMMA WriteEntryKeeps ==
  ASSUME IInv, WriteEntry
  PROVE  IInv'
<1> DEFINE new == With(PageOf(job.slot, job.channel), EntryOf(job.channel),
                       job.bytes)
<1>1. /\ pc = "entry" /\ pc' = "idle" /\ job' = NoJob /\ page' = 0
      /\ ret' \in {"ok", "failed"}
      /\ UNCHANGED <<table, flash>>
  BY DEF WriteEntry, Return
<1>2. /\ job.slot \in CardSlots /\ job.channel \in ChannelsOut
      /\ job.bytes \in Bytes
  <2>1. job # NoJob
    BY <1>1, SlotAssumption DEF IInv, JobThere, NoJob, CardSlots
  <2> QED
    BY <2>1 DEF IInv, TypeOK
<1>3. job.channel \in 1..64 /\ watched[1] \in CardSlots /\ watched[2] \in 1..64
      /\ watched = <<watched[1], watched[2]>>
  <2>1. PICK s \in CardSlots, c \in ChannelsOut : watched = <<s, c>>
    BY DEF IInv, TypeOK, Outputs
  <2> QED
    BY <1>2, <2>1, OutAssumption
<1>4. new \subseteq [page : Nat, entry : 0..15, bytes : Bytes]
  <2>1. PageOf(job.slot, job.channel) \in Nat /\ EntryOf(job.channel) \in 0..15
    BY <1>2, <1>3, Places, SlotAssumption
  <2> QED
    BY <1>2, <2>1 DEF IInv, TypeOK, With
<1>5. \/ matrix' = new /\ mapped' = IF watched = <<job.slot, job.channel>>
                                      THEN job.bytes ELSE mapped
      \/ /\ matrix' \in {matrix, new}
         /\ mapped' = IF watched = <<job.slot, job.channel>>
                         THEN Unknown ELSE mapped
  BY DEF WriteEntry
<1>6. MappingHeld'
  <2>1. UNCHANGED watched
    BY <1>1 DEF table
  <2>2. CASE matrix' = new
    <3>1. Mapping(watched[1], watched[2])'
            = IF watched[1] = job.slot /\ watched[2] = job.channel
                THEN job.bytes ELSE Mapping(watched[1], watched[2])
      BY <1>2, <1>3, <2>1, <2>2, AfterWith
    <3> QED
      BY <1>3, <1>5, <2>1, <3>1 DEF IInv, MappingHeld
  <2>3. CASE matrix' = matrix /\ matrix' # new
    BY <1>5, <2>1, <2>3 DEF IInv, MappingHeld, Mapping
  <2> QED
    BY <1>5, <2>2, <2>3
<1>7. MatrixOK'
  BY <1>1, <1>2, <1>4, <1>5, <1>6, SlotAssumption
     DEF IInv, TypeOK, MatrixOK, Clearing, Pages
<1>8. CallOK'
  BY <1>1 DEF IInv, TypeOK, CallOK, JobThere, table
<1>9. FlashOK'
  BY <1>1 DEF IInv, TypeOK, FlashOK, Unlocking
<1> QED
  BY <1>7, <1>8, <1>9, Parts, PTL

\* rack_matrix_clear.
LEMMA MatrixClearKeeps ==
  ASSUME IInv, MatrixClear
  PROVE  IInv'
<1>1. CASE Return("failed") /\ UNCHANGED mapped
  BY <1>1, ReturnKeeps DEF MatrixClear
<1>2. CASE /\ pc' = "clear" /\ page' = 0 /\ ret' = "ok"
           /\ mapped' = Unknown
           /\ UNCHANGED job
  <2>1. UNCHANGED <<table, matrix, flash>>
    BY DEF MatrixClear
  <2>2. \A e \in matrix : e.page >= 0
    BY DEF IInv, TypeOK
  <2>3. MatrixOK'
    BY <1>2, <2>1, <2>2, SlotAssumption
       DEF IInv, TypeOK, MatrixOK, MappingHeld, Clearing, Pages
  <2>4. CallOK'
    BY <1>2, <2>1 DEF IInv, TypeOK, CallOK, JobThere, table
  <2>5. FlashOK'
    BY <1>2, <2>1 DEF IInv, TypeOK, FlashOK, Unlocking
  <2> QED
    BY <2>3, <2>4, <2>5, Parts, PTL
<1> QED
  BY <1>1, <1>2 DEF MatrixClear

LEMMA WatchedTypes ==
  ASSUME IInv
  PROVE  watched[1] \in CardSlots /\ watched[2] \in 1..64
<1>1. PICK s \in CardSlots, c \in ChannelsOut : watched = <<s, c>>
  BY DEF IInv, TypeOK, Outputs
<1> QED
  BY <1>1, OutAssumption

\* The end of the loop over the slots, with every page behind it.
LEMMA EndKeeps ==
  ASSUME IInv, NEW code \in {"ok", "failed"}, EndOfSlots(code),
         UNCHANGED <<table, flash>>,
         matrix' \subseteq matrix,
         code = "ok" =>
           \A e \in matrix' : Present(e.page \div 4) => e.page >= 4 * LastSlot + 4
  PROVE  IInv'
<1>1. /\ pc' = "idle" /\ ret' = code /\ job' = NoJob /\ page' = 0
      /\ mapped' = IF code = "ok" /\ Present(watched[1]) THEN Clean ELSE Unknown
      /\ UNCHANGED watched
  BY DEF EndOfSlots, Return, table
<1>2. CallOK'
  BY <1>1 DEF IInv, TypeOK, CallOK, JobThere, table
<1>3. FlashOK'
  BY <1>1 DEF IInv, TypeOK, FlashOK, Unlocking
<1>4. MappingHeld'
  <2> SUFFICES ASSUME code = "ok", Present(watched[1])
               PROVE  Mapping(watched[1], watched[2])' = Clean
    BY <1>1 DEF MappingHeld
  <2>1. {e \in matrix' : /\ e.page = PageOf(watched[1], watched[2])
                         /\ e.entry = EntryOf(watched[2])} = {}
    <3>1. PageOf(watched[1], watched[2]) \div 4 = watched[1]
          /\ PageOf(watched[1], watched[2]) \in 4..4 * LastSlot + 3
      BY WatchedTypes, Places
    <3> QED
      BY <3>1, SlotAssumption
  <2> QED
    BY <1>1, <2>1 DEF Mapping
<1>5. MatrixOK'
  BY <1>1, <1>4, SlotAssumption
     DEF IInv, TypeOK, MatrixOK, Clearing, Pages, Clean, Bytes
<1> QED
  BY <1>2, <1>3, <1>5, Parts, PTL

LEMMA ClearPageKeeps ==
  ASSUME IInv, ClearPage
  PROVE  IInv'
<1>1. PICK code \in {"ok", "failed"} :
        /\ code = "ok" => matrix' = Cleared(page)
        /\ code = "failed" => matrix' \in {matrix, Cleared(page)}
        /\ Present(page \div 4)
        /\ IF page = 4 * LastSlot + 3
             THEN EndOfSlots(Overall(code))
             ELSE /\ page' = page + 1 /\ ret' = Overall(code)
                  /\ UNCHANGED <<pc, job, mapped>>
  BY DEF ClearPage
<1>2. pc = "clear" /\ UNCHANGED <<table, flash>>
  BY DEF ClearPage
<1>3. /\ page \in 0..4 * LastSlot + 3 /\ LastSlot \in 1..7
      /\ matrix' \subseteq matrix
      /\ \A e \in matrix : e.page \in Nat
  BY <1>1, SlotAssumption DEF IInv, TypeOK, Pages, Cleared
<1>4. Overall(code) \in {"ok", "failed"}
      /\ (Overall(code) = "ok" => code = "ok" /\ ret = "ok")
  BY DEF IInv, TypeOK, Overall
<1>5. Overall(code) = "ok" =>
        \A e \in matrix' : Present(e.page \div 4) => e.page >= page + 1
  BY <1>1, <1>2, <1>3, <1>4 DEF IInv, Clearing, Cleared
<1>6. CASE page = 4 * LastSlot + 3
  <2>1. EndOfSlots(Overall(code))
    BY <1>1, <1>6
  <2>2. page + 1 = 4 * LastSlot + 4
    BY <1>3, <1>6
  <2> QED
    BY <1>2, <1>3, <1>4, <1>5, <2>1, <2>2, EndKeeps
<1>7. CASE page # 4 * LastSlot + 3
  <2>1. /\ page' = page + 1 /\ ret' = Overall(code)
        /\ UNCHANGED <<pc, job, mapped, product, watched, allowed>>
    BY <1>1, <1>2, <1>7 DEF table
  <2>2. page' \in Pages
    BY <1>3, <1>7, <2>1 DEF Pages
  <2>3. page' % 4 # 0 => page' \div 4 = page \div 4
    BY <1>3, <2>1
  <2>4. MatrixOK'
    BY <1>1, <1>2, <1>3, <1>5, <2>1, <2>2, <2>3
       DEF IInv, TypeOK, MatrixOK, MappingHeld, Clearing, Present
  <2>5. CallOK'
    BY <1>2, <1>4, <2>1 DEF IInv, TypeOK, CallOK, JobThere
  <2>6. FlashOK'
    BY <1>2, <2>1 DEF IInv, TypeOK, FlashOK, Unlocking
  <2> QED
    BY <2>4, <2>5, <2>6, Parts, PTL
<1> QED
  BY <1>6, <1>7

LEMMA SkipSlotKeeps ==
  ASSUME IInv, SkipSlot
  PROVE  IInv'
<1>1. /\ pc = "clear" /\ ~Present(page \div 4)
      /\ UNCHANGED <<table, matrix, flash>>
      /\ IF page = 4 * LastSlot
           THEN EndOfSlots(ret)
           ELSE page' = page + 4 /\ UNCHANGED <<pc, ret, job, mapped>>
  BY DEF SkipSlot
<1>2. /\ page \in 0..4 * LastSlot + 3 /\ LastSlot \in 1..7
      /\ page % 4 = 0
      /\ \A e \in matrix : e.page \in Nat
  BY <1>1, SlotAssumption DEF IInv, TypeOK, Pages, Clearing
<1>3. ret = "ok" =>
        \A e \in matrix : Present(e.page \div 4) => e.page >= page + 4
  <2> SUFFICES ASSUME ret = "ok", NEW e \in matrix, Present(e.page \div 4)
               PROVE  e.page >= page + 4
    OBVIOUS
  <2>1. e.page >= page /\ e.page \div 4 # page \div 4
    BY <1>1 DEF IInv, Clearing
  <2> QED
    BY <1>2, <2>1
<1>4. CASE page = 4 * LastSlot
  BY <1>1, <1>2, <1>3, <1>4, EndKeeps DEF IInv, TypeOK
<1>5. CASE page # 4 * LastSlot
  <2>1. /\ page' = page + 4
        /\ UNCHANGED <<pc, ret, job, mapped, product, watched, allowed>>
    BY <1>1, <1>5 DEF table
  <2>2. page' \in Pages /\ page' % 4 = 0
    BY <1>2, <1>5, <2>1 DEF Pages
  <2>3. MatrixOK'
    BY <1>1, <1>3, <2>1, <2>2
       DEF IInv, TypeOK, MatrixOK, MappingHeld, Clearing, Present
  <2>4. CallOK'
    BY <1>1, <2>1 DEF IInv, TypeOK, CallOK, JobThere
  <2>5. FlashOK'
    BY <1>1, <2>1 DEF IInv, TypeOK, FlashOK, Unlocking
  <2> QED
    BY <2>3, <2>4, <2>5, Parts, PTL
<1> QED
  BY <1>4, <1>5

-------------------------------------------------------------------------------
(* avx_flash_unlock.                                                       *)

\* The matrix knows nothing of the flash.
LEMMA MatrixApart ==
  ASSUME IInv, UNCHANGED <<table, matrix, mapped>>,
         pc' # "clear", pc' # "entry",
         UNCHANGED <<job, page, ret>>
           \/ \E code \in {"ok", "failed"} : Return(code),
         pc' \in {"idle", "command", "wait", "result", "status"}
  PROVE  MatrixOK' /\ CallOK'
<1>1. CallOK'
  BY DEF IInv, TypeOK, CallOK, JobThere, table, Return
<1>2. page' \in Pages
  BY SlotAssumption DEF IInv, TypeOK, Pages, Return
<1>3. MatrixOK'
  BY <1>2 DEF IInv, TypeOK, MatrixOK, MappingHeld, Mapping, Clearing, table
<1> QED
  BY <1>1, <1>3

\* The two writes: none of them is made while a verdict is pending.
LEMMA FlashWriteKeeps ==
  ASSUME IInv,
         (\E key \in BOOLEAN : FlashUnlock(key)) \/ WriteCommand
  PROVE  IInv'
<1>1. CASE \E key \in BOOLEAN : FlashUnlock(key)
  <2>1. PICK key \in BOOLEAN : FlashUnlock(key)
    BY <1>1
  <2>2. /\ pc' \in {"idle", "command"} /\ UNCHANGED <<table, matrix, mapped>>
        /\ UNCHANGED <<job, page, ret>> \/ Return("failed")
        /\ flash' \in {flash, [flash EXCEPT !.key = key]}
    BY <2>1 DEF FlashUnlock, FlashWrite, Return
  <2>3. FlashOK'
    BY <2>2 DEF IInv, TypeOK, FlashOK, Unlocking
  <2>4. MatrixOK' /\ CallOK'
    BY <2>2, MatrixApart
  <2> QED
    BY <2>3, <2>4, Parts, PTL
<1>2. CASE WriteCommand
  <2>1. /\ UNCHANGED <<table, matrix, mapped>>
        /\ UNCHANGED <<job, page, ret>> \/ Return("failed")
        /\ \/ pc' = "wait" /\ flash' = [flash EXCEPT !.fcr = TRUE]
           \/ pc' = "idle" /\ flash' \in {flash, [flash EXCEPT !.fcr = TRUE]}
    BY <1>2 DEF WriteCommand, FlashWrite, Return
  <2>2. FlashOK'
    BY <2>1 DEF IInv, TypeOK, FlashOK, Unlocking
  <2>3. MatrixOK' /\ CallOK'
    BY <2>1, MatrixApart
  <2> QED
    BY <2>2, <2>3, Parts, PTL
<1> QED
  BY <1>1, <1>2

LEMMA FlashReadKeeps ==
  ASSUME IInv, WaitCompletion \/ ReadResult \/ ReadStatus
  PROVE  IInv'
<1>1. CASE \E code \in {"ok", "failed"} : Return(code)
  <2>1. UNCHANGED <<table, matrix, flash, mapped>>
    BY DEF WaitCompletion, ReadResult, ReadStatus, FlashRead
  <2> QED
    BY <1>1, <2>1, ReturnKeeps
<1>2. CASE ~\E code \in {"ok", "failed"} : Return(code)
  <2>1. /\ UNCHANGED <<job, page, ret, table, matrix, flash, mapped>>
        /\ \/ pc = "wait" /\ pc' = IF flash.fcr THEN "wait" ELSE "result"
           \/ pc = "result" /\ pc' = "status" /\ flash.fcar
    BY <1>2 DEF WaitCompletion, ReadResult, ReadStatus, FlashRead
  <2>2. FlashOK'
    BY <2>1 DEF IInv, TypeOK, FlashOK, Unlocking
  <2>3. MatrixOK' /\ CallOK'
    BY <2>1, MatrixApart
  <2> QED
    BY <2>2, <2>3, Parts, PTL
<1> QED
  BY <1>1, <1>2

\* The flash carries out the command in it with the key it has by then.
LEMMA FlashExecutesKeeps ==
  ASSUME IInv, FlashExecutes
  PROVE  IInv'
<1>1. /\ UNCHANGED <<table, matrix, pc, job, page, ret, mapped>>
      /\ flash.fcr
  BY DEF FlashExecutes
<1>2. PICK done \in BOOLEAN :
        flash' = [flash EXCEPT !.fcr = FALSE, !.fcar = done,
                               !.locked = @ /\ ~(done /\ flash.key)]
  BY DEF FlashExecutes
<1>3. flash' = [locked |-> flash.locked /\ ~(done /\ flash.key),
                key |-> flash.key, fcr |-> FALSE, fcar |-> done]
  BY <1>2 DEF IInv, TypeOK
<1>4. flash' \in [locked : BOOLEAN, key : BOOLEAN, fcr : BOOLEAN, fcar : BOOLEAN]
  BY <1>3 DEF IInv, TypeOK
<1>5. flash'.fcar /\ flash'.key => ~flash'.locked
  BY <1>3
<1>6. pc \notin {"result", "status"}
  BY <1>1 DEF IInv, Unlocking
<1>7. FlashOK'
  BY <1>1, <1>4, <1>5, <1>6 DEF FlashOK, Unlocking
<1>8. MatrixOK' /\ CallOK'
  BY <1>1 DEF IInv, TypeOK, MatrixOK, MappingHeld, Mapping, Clearing, Present,
              CallOK, JobThere, table
<1> QED
  BY <1>7, <1>8, Parts, PTL

-------------------------------------------------------------------------------

\* The invariant that the results below rest on.
THEOREM Inductive == Spec => []IInv
<1>1. IInv /\ UNCHANGED vars => IInv'
  BY DEF vars, table, IInv, TypeOK, JobThere, MappingHeld, Mapping, Clearing,
         Present, Unlocking
<1>2. IInv /\ [Next]_vars => IInv'
  BY <1>1, MatrixSetKeeps, WriteEntryKeeps, MatrixClearKeeps, ClearPageKeeps,
     SkipSlotKeeps, FlashWriteKeeps, FlashReadKeeps, FlashExecutesKeeps
     DEF Next, Call, Step
<1> QED
  BY InitInv, <1>2, PTL DEF Spec

\* Clearing keeps to the pages of the slots (rackAuvitran.c:1060-1084), for any
\* number of them.
THEOREM Typing == Spec => []TypeOK
  BY Inductive, PTL DEF IInv

\* The matrix is a map from outputs to inputs, as the calls that returned 0
\* made it (rackAuvitran.c:338-427, 1038-1088), for any channels and cards.
THEOREM MatrixIsAMap == Spec => []MatrixAsSet
<1>1. IInv => MatrixAsSet
  BY DEF IInv, MappingHeld, MatrixAsSet
<1> QED
  BY Inductive, <1>1, PTL

\* What avx_flash_unlock reports is about its own command (avxSpi.c:948-968).
THEOREM VerdictIsOnUnlock == Spec => []VerdictOnUnlock
<1>1. IInv => VerdictOnUnlock
  BY DEF IInv, Unlocking, VerdictOnUnlock
<1> QED
  BY Inductive, <1>1, PTL

-------------------------------------------------------------------------------
(* What a call waits for.                                                  *)

\* The mailbox calls that a call can still make, if the flash is quick.
CallsLeft ==
  CASE pc = "clear" -> (4 * LastSlot + 4) - page
    [] pc \in {"entry", "status"} -> 1
    [] pc = "result"  -> 2
    [] pc = "wait"    -> 3
    [] pc = "command" -> 4
    [] OTHER          -> 0

\* Every mailbox call brings a call nearer to its return, but for the reads of
\* FCR while the flash has a command.
OnlyTheFlashIsWaitedFor ==
  [][Step => \/ CallsLeft' \in 0..CallsLeft - 1
             \/ pc = "wait" /\ pc' = "wait" /\ flash.fcr]_vars

\* A countdown from n.
LEMMA Counts ==
  ASSUME NEW n \in Nat, NEW p \in Nat, NEW q \in Nat, p < q, q < n
  PROVE  n - q \in 0..(n - p) - 1
  OBVIOUS

\* Clearing goes through the pages once, whichever slots are empty and whatever
\* fails (rackAuvitran.c:1062-1083), and nothing but the flash holds a call up
\* (avxSpi.c:994).
THEOREM NothingElseIsWaitedFor == Spec => OnlyTheFlashIsWaitedFor
<1> DEFINE Nearer == CallsLeft' \in 0..CallsLeft - 1
           Waits  == pc = "wait" /\ pc' = "wait" /\ flash.fcr
<1>1. IInv /\ IInv' /\ Step => Nearer \/ Waits
  <2> SUFFICES ASSUME IInv, IInv', Step PROVE Nearer \/ Waits
    OBVIOUS
  <2>1. CASE ClearPage \/ SkipSlot
    <3>1. LastSlot \in Nat /\ page \in Nat /\ page' \in Nat
          /\ page <= 4 * LastSlot + 3 /\ page' <= 4 * LastSlot + 3
      BY SlotAssumption DEF IInv, TypeOK, Pages
    <3>2. pc = "clear" /\ (pc' = "idle" \/ (pc' = "clear" /\ page' > page))
      BY <2>1, <3>1 DEF ClearPage, SkipSlot, EndOfSlots, Return
    <3>3. CallsLeft = (4 * LastSlot + 4) - page
      BY <3>2 DEF CallsLeft
    <3>4. CASE pc' = "idle"
      <4>1. CallsLeft' = 0
        BY <3>4 DEF CallsLeft
      <4> QED
        BY <3>1, <3>3, <4>1
    <3>5. CASE pc' = "clear" /\ page' > page
      <4>1. CallsLeft' = (4 * LastSlot + 4) - page'
        BY <3>5 DEF CallsLeft
      <4>2. 4 * LastSlot + 4 \in Nat
        BY <3>1
      <4>3. /\ page \in Nat /\ page' \in Nat
            /\ page < page' /\ page' < 4 * LastSlot + 4
        BY <3>1, <3>5
      <4> QED
        BY <3>3, <4>1, <4>2, <4>3, Counts
    <3> QED
      BY <3>2, <3>4, <3>5
  <2>2. CASE WriteEntry \/ WriteCommand \/ WaitCompletion \/ ReadResult \/ ReadStatus
    BY <2>2 DEF WriteEntry, WriteCommand, WaitCompletion, ReadResult, ReadStatus,
                FlashWrite, FlashRead, Return, CallsLeft
  <2> QED
    BY <2>1, <2>2 DEF Step
<1> QED
  BY Inductive, <1>1, PTL DEF Spec, OnlyTheFlashIsWaitedFor

=============================================================================
