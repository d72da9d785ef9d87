--------------------------- MODULE MatrixAndFlash ---------------------------
(***************************************************************************)
(* The calls that are several mailbox calls: setting and clearing mappings *)
(* of the audio matrix (src/auvitran/rackAuvitran.c) and unlocking a flash *)
(* memory (src/auvitran/avxSpi.c).  A step is one mailbox call together    *)
(* with the local code around it; it fails, or is one atomic operation on  *)
(* the registers it names, and a write that fails may have taken effect.   *)
(* Left out are mailbox calls that give up polling (avxSpi.c 801), and     *)
(* those that return 0 over a failed SPI transfer: block writes without    *)
(* effect (504), reads with bytes that were never sent (565).              *)
(*                                                                         *)
(* The matrix is kept as the set of its entries that are not clean.  Pages *)
(* are counted from the one after page_mxpr, four for each slot, with 16   *)
(* entries of two bytes each.  Operators marked "Faulty" are variants of   *)
(* the definition after them, used to show that the properties can fail.   *)
(***************************************************************************)
EXTENDS Integers

CONSTANTS
  LastSlot,     \* LAST_SLOT, the last slot for cards
  Cards,        \* product IDs
  ChannelsIn,   \* the input channels callers map
  ChannelsOut   \* the output channels they map them to

ASSUME SlotAssumption == LastSlot \in 1..7
ASSUME InAssumption   == ChannelsIn \subseteq 1..64
ASSUME OutAssumption  == ChannelsOut \subseteq 1..64
ASSUME CardAssumption == "none" \notin Cards

Empty     == "none"
CardSlots == 1..LastSlot
Pages     == 0..4 * LastSlot + 3
Outputs   == CardSlots \X ChannelsOut

VARIABLES
  product,   \* slots[].product_id, complete; slot 0 is never discovered
  allowed,   \* MXPR_CHG_BIT of REG_MXPR_ALLOW
  matrix,    \* the entries of the matrix that are not clean
  flash,     \* the registers of the flash: locked, key, fcr and fcar
  pc,        \* the mailbox call to make next, "idle" between calls
  job,       \* what rack_matrix_set is about to write
  page,      \* the local `page` of rack_matrix_clear
  ret,       \* `ret`, or `overall_ret`, of the call: "ok" or "failed"
  watched,   \* the output a caller keeps an eye on
  mapped     \* what calls that returned 0 made of it, if known

table == <<product, allowed, watched>>
vars  == <<table, matrix, flash, pc, job, page, ret, mapped>>

NoJob   == [slot |-> 0, channel |-> 0, from |-> 0, bytes |-> <<0, 0>>]
Clean   == <<0, 0>>
Unknown == <<999, 0>>

Init ==
  /\ product \in [CardSlots -> Cards \cup {Empty}]
  /\ allowed \in BOOLEAN
  /\ matrix = {}
  /\ flash = [locked |-> TRUE, key |-> FALSE, fcr |-> FALSE, fcar |-> FALSE]
  /\ pc = "idle"
  /\ job = NoJob
  /\ page = 0
  /\ ret = "ok"
  /\ watched \in Outputs
  /\ mapped = Unknown

Return(code) ==
  /\ pc' = "idle" /\ ret' = code
  /\ job' = NoJob /\ page' = 0

-------------------------------------------------------------------------------
(* rack_matrix_set.                                                        *)

\* Any slot with the product may be found, and any may be missed (find_slot).
Find(p) == {s \in CardSlots : product[s] = p}

\* `slot_in |= enable_nMute` sets bit 0 of the slot, not MATRIX_SLOT_ENABLE.
SlotByte(slot, enable) == IF enable /\ slot % 2 = 0 THEN slot + 1 ELSE slot

\* Faulty: pages counted as if channels started from 0.
PageFromZero(slot, channel) == 4 * slot + channel \div 16

PageOf(slot, channel) == 4 * slot + (channel - 1) \div 16

EntryOf(channel) == (channel - 1) % 16

\* The bytes the matrix holds for an output.
Mapping(slot, channel) ==
  LET here == {e \in matrix : /\ e.page = PageOf(slot, channel)
                              /\ e.entry = EntryOf(channel)}
  IN  IF here = {} THEN Clean ELSE (CHOOSE e \in here : TRUE).bytes

With(p, entry, bytes) ==
  {e \in matrix : e.page # p \/ e.entry # entry}
    \cup {[page |-> p, entry |-> entry, bytes |-> bytes]}

\* The looking up of the slots, and the read of the right to modify the matrix.
MatrixSet(in, channelIn, out, channelOut, enable) ==
  /\ pc = "idle"
  /\ \/ Return("failed")
     \/ /\ allowed
        /\ \E slotIn \in Find(in), slotOut \in Find(out) :
             job' = [slot |-> slotOut, channel |-> channelOut, from |-> slotIn,
                     bytes |-> <<channelIn - 1, SlotByte(slotIn, enable)>>]
        /\ pc' = "entry"
        /\ UNCHANGED <<page, ret>>
  /\ UNCHANGED <<table, matrix, flash, mapped>>

WriteEntry ==
  /\ pc = "entry"
  /\ LET new  == With(PageOf(job.slot, job.channel), EntryOf(job.channel),
                      job.bytes)
         seen == watched = <<job.slot, job.channel>>
     IN  \/ /\ matrix' = new
            /\ mapped' = IF seen THEN job.bytes ELSE mapped
            /\ Return("ok")
         \/ /\ matrix' \in {matrix, new}
            /\ mapped' = IF seen THEN Unknown ELSE mapped
            /\ Return("failed")
  /\ UNCHANGED <<table, flash>>

-------------------------------------------------------------------------------
(* rack_matrix_clear.                                                      *)

Present(slot) == slot \in CardSlots /\ product[slot] # Empty

\* The right to modify the matrix is read, then the pages of every slot are
\* cleared if the table has a card for it, from slot 0 on.
MatrixClear ==
  /\ pc = "idle"
  /\ \/ Return("failed") /\ UNCHANGED mapped
     \/ /\ allowed
        /\ pc' = "clear" /\ page' = 0 /\ ret' = "ok"
        /\ mapped' = Unknown
        /\ UNCHANGED job
  /\ UNCHANGED <<table, matrix, flash>>

\* Faulty: the result is that of the last page.
OverallLast(code) == code

\* An error is kept while the loop goes on.
Overall(code) == IF code = "ok" THEN ret ELSE code

Cleared(p) == {e \in matrix : e.page # p}

EndOfSlots(code) ==
  /\ Return(code)
  /\ mapped' = IF code = "ok" /\ Present(watched[1]) THEN Clean ELSE Unknown

ClearPage ==
  /\ pc = "clear"
  /\ \E code \in {"ok", "failed"} :
       /\ code = "ok" => matrix' = Cleared(page)
       /\ code = "failed" => matrix' \in {matrix, Cleared(page)}
       /\ Present(page \div 4)
       /\ IF page = 4 * LastSlot + 3
            THEN EndOfSlots(Overall(code))
            ELSE /\ page' = page + 1 /\ ret' = Overall(code)
                 /\ UNCHANGED <<pc, job, mapped>>
  /\ UNCHANGED <<table, flash>>

\* Faulty: the loop over the slots goes on past LAST_SLOT.
SkipSlotPast ==
  /\ pc = "clear"
  /\ ~Present(page \div 4)
  /\ IF page > 4 * LastSlot
       THEN EndOfSlots(ret)
       ELSE page' = page + 4 /\ UNCHANGED <<pc, ret, job, mapped>>
  /\ UNCHANGED <<table, matrix, flash>>

SkipSlot ==
  /\ pc = "clear"
  /\ ~Present(page \div 4)
  /\ IF page = 4 * LastSlot
       THEN EndOfSlots(ret)
       ELSE page' = page + 4 /\ UNCHANGED <<pc, ret, job, mapped>>
  /\ UNCHANGED <<table, matrix, flash>>

-------------------------------------------------------------------------------
(* avx_flash_unlock.  flash.fcr is a command in FCR that is not completed, *)
(* flash.fcar that FCAR names UNLOCK as the last command carried out, and  *)
(* flash.key that the key register holds the key of this flash.            *)

\* A write of the flash page: `next` is where the call goes when it succeeds.
FlashWrite(new, next) ==
  /\ \/ flash' = new /\ pc' = next /\ UNCHANGED <<job, page, ret>>
     \/ flash' \in {flash, new} /\ Return("failed")
  /\ UNCHANGED <<table, matrix, mapped>>

\* A read of the flash page, which fails, or sends the call on to `next`.
FlashRead(next) ==
  /\ \/ pc' = next /\ UNCHANGED <<job, page, ret>>
     \/ Return("failed")
  /\ UNCHANGED <<table, matrix, flash, mapped>>

FlashUnlock(key) ==
  pc = "idle" /\ FlashWrite([flash EXCEPT !.key = key], "command")

WriteCommand ==
  pc = "command" /\ FlashWrite([flash EXCEPT !.fcr = TRUE], "wait")

\* Faulty: the call waits for the command to start.
WaitInverted == pc = "wait" /\ FlashRead(IF flash.fcr THEN "result" ELSE "wait")

\* Faulty: FCR is read once.
WaitOnce == pc = "wait" /\ FlashRead("result")

\* avx_wait_flash_completion, one read: there is no limit on their number.
WaitCompletion ==
  pc = "wait" /\ FlashRead(IF flash.fcr THEN "wait" ELSE "result")

\* -EIO when the last command carried out is another one.
ReadResult ==
  /\ pc = "result"
  /\ IF flash.fcar THEN FlashRead("status")
     ELSE Return("failed") /\ UNCHANGED <<table, matrix, flash, mapped>>

\* A flash that is still locked is logged, and `ret` is 0 all the same.
ReadStatus ==
  /\ pc = "status"
  /\ \E code \in {"ok", "failed"} : Return(code)
  /\ UNCHANGED <<table, matrix, flash, mapped>>

\* The card carries out the command in FCR with the key it has, or rejects it.
FlashExecutes ==
  /\ flash.fcr
  /\ \E done \in BOOLEAN :
       flash' = [flash EXCEPT !.fcr = FALSE, !.fcar = done,
                              !.locked = @ /\ ~(done /\ flash.key)]
  /\ UNCHANGED <<table, matrix, pc, job, page, ret, mapped>>

-------------------------------------------------------------------------------

Call ==
  \/ \E in, out \in Cards, channelIn \in ChannelsIn, channelOut \in ChannelsOut,
        enable \in BOOLEAN : MatrixSet(in, channelIn, out, channelOut, enable)
  \/ MatrixClear
  \/ \E key \in BOOLEAN : FlashUnlock(key)

Step ==
  \/ WriteEntry \/ ClearPage \/ SkipSlot
  \/ WriteCommand \/ WaitCompletion \/ ReadResult \/ ReadStatus

Next == Call \/ Step \/ FlashExecutes

Spec == Init /\ [][Next]_vars

\* A call that was begun goes on; a poll of the flash that goes on sees that the
\* command is completed, and need not fail; the flash completes its commands.
FairSpec ==
  /\ Spec
  /\ WF_vars(Step /\ pc # "wait")
  /\ WF_vars(WaitCompletion /\ pc' = "result")
  /\ WF_vars(FlashExecutes)

-------------------------------------------------------------------------------
(* Properties.                                                             *)

Bytes == (0..63) \X (0..7)

\* Every page that is written or skipped is one of those of the slots
\* (rackAuvitran.c:1060-1084), and the other state is well formed.
TypeOK ==
  /\ product \in [CardSlots -> Cards \cup {Empty}]
  /\ allowed \in BOOLEAN
  /\ matrix \subseteq [page : Nat, entry : 0..15, bytes : Bytes]
  /\ flash \in [locked : BOOLEAN, key : BOOLEAN, fcr : BOOLEAN, fcar : BOOLEAN]
  /\ pc \in {"idle", "entry", "clear", "command", "wait", "result", "status"}
  /\ job \in [slot : CardSlots, channel : ChannelsOut, from : CardSlots,
             bytes : Bytes] \cup {NoJob}
  /\ page \in Pages
  /\ ret \in {"ok", "failed"}
  /\ watched \in Outputs
  /\ mapped \in Bytes \cup {Unknown}

\* The matrix holds for an output what the last call that returned 0 made of
\* it, whatever calls for other outputs succeeded or failed since: the cells of
\* two outputs never overlap (rackAuvitran.c:410-415), clearing reaches the
\* four pages of every card however many slots are empty (1062-1083), and it
\* returns 0 only when no page failed (1081).
MatrixAsSet ==
  pc = "idle" /\ mapped # Unknown => Mapping(watched[1], watched[2]) = mapped

\* avx_flash_unlock judges its own command and no earlier one: it looks at the
\* result when no command is running, and when it comes to the lock having
\* written the right key, the flash is unlocked, even after calls that failed
\* with their command still to be carried out (avxSpi.c:948-968).
VerdictOnUnlock ==
  /\ pc \in {"result", "status"} => ~flash.fcr
  /\ pc = "status" /\ flash.key => ~flash.locked

\* Every call returns, although the wait for the flash has no limit
\* (avxSpi.c:994) and clearing skips slots (rackAuvitran.c:1069), as long as
\* the flash completes what it began.
CallsReturn == pc # "idle" ~> pc = "idle"

\* "slot_in: Slot index for the input" (rackAuvitran.c:341): after a call that
\* returned 0, the entry names the slot of the input, below MATRIX_SLOT_ENABLE.
RoutesAsAsked ==
  [][pc = "entry" /\ pc' = "idle" /\ ret' = "ok"
       => \E e \in matrix' : /\ e.page = PageOf(job.slot, job.channel)
                             /\ e.entry = EntryOf(job.channel)
                             /\ e.bytes[2] % 128 = job.from]_vars

=============================================================================
