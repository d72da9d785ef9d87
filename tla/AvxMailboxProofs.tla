--------------------------- MODULE AvxMailboxProofs ---------------------------
(***************************************************************************)
(* Proofs about AvxMailbox, for every set of slots, cards, bits and calls. *)
(* IInv is the inductive invariant all of them rest on; the last part      *)
(* shows that AvxMailbox implements RemoteRegisters.                       *)
(***************************************************************************)
EXTENDS AvxMailbox, TLAPS

\* No call has given up on a command that the rack may still execute.
NoAbandon == "invalid" \notin Faults /\ cable = "steady"

\* The call sees each of its failures: only the single-byte write notices a
\* failed transfer, and nothing notices an unplugged rack for sure.
Trusted ==
  /\ cable = "steady"
  /\ op.kind = "wbyte" \/ {"spi", "invalid"} \cap Faults = {}

\* The call took effect, d being the value it hands back.
Effect(d) ==
  /\ Target(op) \in Present
  /\ op.kind \in Writes => cells[Target(op)] = op.data
  /\ op.kind \in Reads  => cells[Target(op)] = d
  /\ op.kind = "tas"    => cells[Target(op)] = d \cup op.data
  /\ op.kind = "tar"    => cells[Target(op)] = d \ op.data

Linked == "unplug" \notin Faults => cable = "steady"

HandshakeKept == NoAbandon => Handshake

\* A call in progress has handed back nothing and is where its kind can be.
InCall ==
  /\ pc # "idle" => op \in Ops /\ out = {}
  /\ pc \in {"page", "buf"} => op.kind = "wblock"
  /\ pc \in {"st1", "st2", "st3", "data"} => op.kind = "rblock"
  /\ pc = "ans" => op.kind # "rblock"

\* From the ECS write on, ECS names the register of the call.
Addressed ==
  Trusted /\ pc \in {"cmd"} \cup Waiting => ecs = EcsOf(op, ecs.page)

\* The block to write stands in page 2 until the rack takes it.
Buffered ==
  /\ Trusted /\ pc = "buf" => pageSel
  /\ Trusted /\ op.kind = "wblock"
       /\ (pc \in {"ecs", "cmd"} \/ (pc \in Polling /\ Pending)) => buf = op.data

\* The command in the bridge is the call's own, and gone before the answer is read.
Commanded ==
  /\ Trusted /\ pc \in Polling /\ Pending => cmd = CmdOf(op)
  /\ Trusted /\ pc \in Waiting \ Polling => ~Pending

\* An answer to this call means that it took effect.
Answered ==
  /\ Trusted /\ Applied => Effect(Seen)
  /\ Trusted /\ pc = "data" => answer.ok

\* A call that returned 0 took effect, and nothing is left to execute.
Returned ==
  Trusted /\ pc = "idle" /\ ret = 0 => Effect(out) /\ ~Pending /\ op \in Ops

IInv ==
  /\ TypeOK
  /\ Linked
  /\ HandshakeKept
  /\ InCall
  /\ Addressed
  /\ Buffered
  /\ Commanded
  /\ Answered
  /\ Returned

-------------------------------------------------------------------------------
(* Typing.                                                                 *)

LEMMA InitType == Init => TypeOK
  BY SlotsAssumption DEF Init, TypeOK, NoOp, Page0, Byte, Labels, Polling, Codes,
     EIO, EINVAL, ENODEV, ENOSYS, Errors

LEMMA ContentsType ==
  ASSUME NEW o \in Ops, NEW old \in Byte
  PROVE  /\ EcsOf(o, old) \in [slot : Slots, wp0 : BOOLEAN, page : Byte, mov : BOOLEAN]
         /\ CmdOf(o) \in [arg : Byte, code : Codes]
  <1>1. ArgOf(o) \in Byte
    BY DEF ArgOf, Ops, Byte, Blocks
  <1>2. CodeOf(o) \in Codes
    BY KindsAssumption DEF CodeOf, Ops, Codes, AllKinds, Writes, Reads
  <1>3. EcsOf(o, old) \in [slot : Slots, wp0 : BOOLEAN, page : Byte, mov : BOOLEAN]
    BY DEF EcsOf, Ops, Blocks
  <1> QED BY <1>1, <1>2, <1>3 DEF CmdOf

LEMMA NextType == TypeOK /\ InCall /\ [Next]_vars => TypeOK'
  <1> SUFFICES ASSUME TypeOK, InCall, [Next]_vars PROVE TypeOK'
    OBVIOUS
  <1> USE DEF TypeOK, Labels, Polling, Codes, Errors
  <1>1. ASSUME NEW o \in Ops, Call(o) PROVE TypeOK'
    BY <1>1 DEF Call, FirstStep, bridge, Byte
  <1>2. ASSUME NEW o \in Ops, Reject(o) PROVE TypeOK'
    BY <1>2 DEF Reject, bridge, Byte
  <1>3. CASE SelectPage
    BY <1>3 DEF SelectPage, WriteBurst, WriteTransfer, After, Abort, Return, Goto, bridge
  <1>4. CASE FillBuffer
    BY <1>4 DEF FillBuffer, WriteTransfer, After, Abort, Return, Goto, bridge, InCall, Ops
  <1>5. CASE WriteEcs
    BY <1>5, ContentsType DEF WriteEcs, WriteBurst, WriteTransfer, After, Abort, Return, Goto, bridge, InCall
  <1>6. CASE WriteCmd
    BY <1>6, ContentsType DEF WriteCmd, WriteBurst, WriteTransfer, After, Abort, Return, Goto, bridge, InCall
  <1>7. CASE PollSend
    BY <1>7 DEF PollSend, Goto, ReadStep, bridge
  <1>8. CASE PollFetch
    BY <1>8 DEF PollFetch, AfterPoll, Abort, Return, Goto, ReadStep, bridge
  <1>9. CASE PollRefetch
    BY <1>9 DEF PollRefetch, AfterPoll, Abort, Return, Goto, ReadStep, bridge
  <1>10. CASE ReadAnswer
    BY <1>10 DEF ReadAnswer, Judge, UnreadAnswer, Abort, Return, ReturnData, ReadStep, bridge, AllOnes, Byte
  <1>11. CASE StatusSend
    BY <1>11 DEF StatusSend, UnreadStatus, Return, Goto, ReadStep, bridge
  <1>12. CASE StatusFetch
    BY <1>12 DEF StatusFetch, UnreadStatus, AfterStatus, Return, Goto, ReadStep, bridge
  <1>13. CASE StatusRefetch
    BY <1>13 DEF StatusRefetch, UnreadStatus, AfterStatus, Return, Goto, ReadStep, bridge
  <1>14. CASE ReadBuffer
    BY <1>14 DEF ReadBuffer, Return, ReturnData, ReadStep, bridge, AllOnes, Byte
  <1>15. CASE Execute
    <2>1. cmd' \in [arg : Byte, code : Codes] /\ cmd.arg \in Byte
      BY <1>15 DEF Execute
    <2>2. CASE ecs.slot \notin Populated
      <3>1. Refuse
        BY <1>15, <2>2 DEF Execute
      <3>2. answer' \in [data : Byte, ok : BOOLEAN]
        BY <3>1 DEF Refuse
      <3> QED
        BY <1>15, <2>1, <3>1, <3>2 DEF Execute, Refuse, host
    <2>3. CASE ecs.slot \in Populated
      <3> DEFINE cell == <<ecs.slot, TargetPage>>
      <3>1. cell \in Present /\ cells[cell] \in Byte
        BY <2>3 DEF Present, TargetPage
      <3>2. Executed(cells[cell]) \in Byte
        BY <3>1, <2>1 DEF Executed, Byte
      <3>3. Perform(cell)
        BY <1>15, <2>3 DEF Execute
      <3>4. cells' \in [Present -> Byte] /\ buf' \in Byte
              /\ answer' \in [data : Byte, ok : BOOLEAN]
        BY <3>1, <3>2, <3>3 DEF Perform
      <3> QED
        BY <1>15, <2>1, <3>4 DEF Execute, host
    <2> QED
      BY <2>2, <2>3
  <1>16. CASE Replug
    BY <1>16 DEF Replug, host, bridge
  <1>17. CASE UNCHANGED vars
    BY <1>17 DEF vars
  <1> QED
    BY <1>1, <1>2, <1>3, <1>4, <1>5, <1>6, <1>7, <1>8, <1>9, <1>10, <1>11, <1>12,
       <1>13, <1>14, <1>15, <1>16, <1>17 DEF Next, HostStep

-------------------------------------------------------------------------------
(* The inductive invariant, one action at a time.                          *)

USE DEF conn

LEMMA InitIInv == Init => IInv
  BY InitType DEF Init, IInv, Linked, HandshakeKept, Handshake, NoAbandon, Pending, InCall, Addressed,
     Buffered, Commanded, Answered, Returned, Waiting, Polling, Applied, EINVAL

LEMMA CallIInv ==
  ASSUME IInv, TypeOK', NEW o \in Ops, Call(o)
  PROVE  IInv'
  <1> USE DEF Call, FirstStep, bridge
  <1>1. Linked' /\ HandshakeKept' /\ InCall'
    BY DEF IInv, Linked, HandshakeKept, Handshake, NoAbandon, Pending, InCall, Polling
  <1>2. Addressed' /\ Buffered' /\ Commanded' /\ Answered' /\ Returned'
    BY DEF Addressed, Buffered, Commanded, Answered, Returned, Applied, Waiting, Polling
  <1> QED BY <1>1, <1>2 DEF IInv

LEMMA RejectIInv ==
  ASSUME IInv, TypeOK', NEW o \in Ops, Reject(o)
  PROVE  IInv'
  <1> USE DEF Reject, bridge
  <1>1. Linked' /\ HandshakeKept' /\ InCall'
    BY DEF IInv, Linked, HandshakeKept, Handshake, NoAbandon, Pending, InCall, Polling
  <1>2. Addressed' /\ Buffered' /\ Commanded' /\ Answered' /\ Returned'
    BY DEF Addressed, Buffered, Commanded, Answered, Returned, Applied, Waiting, Polling,
       ENOSYS, EIO, EINVAL
  <1> QED BY <1>1, <1>2 DEF IInv

\* A step that leaves the call with a non-zero code and the bridge alone.
LEMMA FailIInv ==
  ASSUME IInv, TypeOK', pc # "idle", NoAbandon => pc \notin Polling \/ ~Pending,
         NEW r \in Errors, Return(r), UNCHANGED <<cable, cells, bridge>>
  PROVE  IInv'
  <1> USE DEF Return, bridge
  <1>1. Linked' /\ HandshakeKept' /\ InCall'
    BY DEF IInv, Linked, HandshakeKept, Handshake, NoAbandon, Pending, InCall, Polling
  <1>2. Addressed' /\ Buffered' /\ Commanded' /\ Answered' /\ Returned'
    BY DEF Addressed, Buffered, Commanded, Answered, Returned, Applied, Waiting, Polling,
       Errors, EIO, ENODEV, EINVAL, ENOSYS
  <1> QED BY <1>1, <1>2 DEF IInv

\* The outcomes of a failed step: the call returns the code, or -EIO, or, for a
\* failed transfer of a call that does not look, goes on.
LEMMA AfterCases ==
  ASSUME NEW r \in Errors, NEW next, After(r, next)
  PROVE  \/ \E code \in Errors : Return(code)
         \/ r = EIO /\ op.kind # "wbyte" /\ Goto(next)
  BY DEF After, Abort, Continues, Errors, EIO, ENODEV, EINVAL, ENOSYS

\* A failed transfer, or one to no rack, that the call does not notice.
LEMMA LostIInv ==
  ASSUME IInv, TypeOK', ~Trusted, UNCHANGED <<cable, cells, bridge>>,
         \/ pc = "page" /\ Goto("buf")
         \/ pc = "buf" /\ Goto("ecs")
         \/ pc = "ecs" /\ Goto("cmd")
         \/ pc = "cmd" /\ Goto("poll1")
  PROVE  IInv'
  <1> USE DEF Goto, bridge
  <1>1. Linked' /\ HandshakeKept' /\ InCall'
    BY DEF IInv, Linked, HandshakeKept, Handshake, NoAbandon, Pending, InCall, Polling
  <1>2. Addressed' /\ Buffered' /\ Commanded' /\ Answered' /\ Returned'
    BY DEF Addressed, Buffered, Commanded, Answered, Returned, Trusted
  <1> QED BY <1>1, <1>2 DEF IInv

LEMMA SelectPageIInv ==
  ASSUME IInv, TypeOK', SelectPage
  PROVE  IInv'
  <1> USE DEF SelectPage, WriteBurst, WriteTransfer, bridge
  <1>1. CASE \E code \in Errors : Return(code) /\ UNCHANGED <<cable, cells, bridge>>
    BY <1>1, FailIInv DEF Polling
  <1>2. CASE Goto("buf") /\ pageSel' = TRUE /\ UNCHANGED <<cable, cells, buf, ecs, cmd, answer>>
    <2> USE <1>2 DEF Goto
    <2>1. Linked' /\ HandshakeKept' /\ InCall'
      BY DEF IInv, Linked, HandshakeKept, Handshake, NoAbandon, Pending, InCall, Polling
    <2>2. Addressed' /\ Buffered' /\ Commanded' /\ Answered' /\ Returned'
      BY DEF IInv, InCall, Addressed, Buffered, Commanded, Answered, Returned, Applied, Waiting, Polling,
         Trusted
    <2> QED BY <2>1, <2>2 DEF IInv
  <1>3. CASE ~Trusted /\ Goto("buf") /\ UNCHANGED <<cable, cells, bridge>>
    BY <1>3, LostIInv
  <1> QED
    <2>1. CASE After(-ENOSYS, "buf") /\ UNCHANGED <<cable, cells, bridge>>
      BY <2>1, <1>1, AfterCases DEF Errors, EIO, ENOSYS
    <2>2. CASE "spi" \in Faults /\ After(EIO, "buf") /\ UNCHANGED <<cable, cells, bridge>>
      BY <2>2, <1>1, <1>3, AfterCases DEF Trusted, Errors
    <2>3. CASE ~conn /\ Goto("buf") /\ UNCHANGED <<cable, cells, bridge>>
      BY <2>3, <1>3 DEF Trusted, IInv, Linked
    <2> QED
      BY <2>1, <2>2, <2>3, <1>2

LEMMA FillBufferIInv ==
  ASSUME IInv, TypeOK', FillBuffer
  PROVE  IInv'
  <1> USE DEF FillBuffer, WriteTransfer, bridge
  <1>1. CASE \E code \in Errors : Return(code) /\ UNCHANGED <<cable, cells, bridge>>
    BY <1>1, FailIInv DEF Polling
  <1>2. CASE Goto("ecs") /\ buf' = (IF pageSel THEN op.data ELSE buf)
                         /\ UNCHANGED <<cable, cells, pageSel, ecs, cmd, answer>>
    <2> USE <1>2 DEF Goto
    <2>1. Linked' /\ HandshakeKept' /\ InCall'
      BY DEF IInv, Linked, HandshakeKept, Handshake, NoAbandon, Pending, InCall, Polling
    <2>2. Addressed' /\ Buffered' /\ Commanded' /\ Answered' /\ Returned'
      BY DEF IInv, InCall, Addressed, Buffered, Commanded, Answered, Returned, Applied, Waiting, Polling,
         Trusted
    <2> QED BY <2>1, <2>2 DEF IInv
  <1>3. CASE ~Trusted /\ Goto("ecs") /\ UNCHANGED <<cable, cells, bridge>>
    BY <1>3, LostIInv
  <1> QED
    <2>2. CASE "spi" \in Faults /\ After(EIO, "ecs") /\ UNCHANGED <<cable, cells, bridge>>
      BY <2>2, <1>1, <1>3, AfterCases DEF Trusted, Errors
    <2>3. CASE ~conn /\ Goto("ecs") /\ UNCHANGED <<cable, cells, bridge>>
      BY <2>3, <1>3 DEF Trusted, IInv, Linked
    <2> QED
      BY <2>2, <2>3, <1>2

\* Writing ECS again changes nothing.
LEMMA EcsStable ==
  ASSUME NEW o, NEW old
  PROVE  EcsOf(o, EcsOf(o, old).page) = EcsOf(o, old)
  BY DEF EcsOf

LEMMA CodesPending ==
  ASSUME NEW o \in Ops
  PROVE  CodeOf(o) # "none"
  BY KindsAssumption DEF CodeOf, Ops, AllKinds

LEMMA WriteEcsIInv ==
  ASSUME IInv, TypeOK', WriteEcs
  PROVE  IInv'
  <1> USE DEF WriteEcs, WriteBurst, WriteTransfer, bridge
  <1>1. CASE \E code \in Errors : Return(code) /\ UNCHANGED <<cable, cells, bridge>>
    BY <1>1, FailIInv DEF Polling
  <1>2. CASE Goto("cmd") /\ ecs' = EcsOf(op, ecs.page)
                         /\ UNCHANGED <<cable, cells, pageSel, buf, cmd, answer>>
    <2> USE <1>2 DEF Goto
    <2>0. ecs' = EcsOf(op, ecs'.page) /\ Trusted' = Trusted
      BY EcsStable DEF Trusted
    <2>1. Linked' /\ HandshakeKept' /\ InCall'
      BY DEF IInv, Linked, HandshakeKept, Handshake, NoAbandon, Pending, InCall, Polling
    <2>2. Addressed' /\ Buffered' /\ Commanded' /\ Answered' /\ Returned'
      BY <2>0 DEF IInv, InCall, Addressed, Buffered, Commanded, Answered, Returned, Applied, Waiting, Polling,
         Trusted
    <2> QED BY <2>1, <2>2 DEF IInv
  <1>3. CASE ~Trusted /\ Goto("cmd") /\ UNCHANGED <<cable, cells, bridge>>
    BY <1>3, LostIInv
  <1> QED
    <2>1. CASE After(-ENOSYS, "cmd") /\ UNCHANGED <<cable, cells, bridge>>
      BY <2>1, <1>1, AfterCases DEF Errors, EIO, ENOSYS
    <2>2. CASE "spi" \in Faults /\ After(EIO, "cmd") /\ UNCHANGED <<cable, cells, bridge>>
      BY <2>2, <1>1, <1>3, AfterCases DEF Trusted, Errors
    <2>3. CASE ~conn /\ Goto("cmd") /\ UNCHANGED <<cable, cells, bridge>>
      BY <2>3, <1>3 DEF Trusted, IInv, Linked
    <2> QED
      BY <2>1, <2>2, <2>3, <1>2

LEMMA WriteCmdIInv ==
  ASSUME IInv, TypeOK', WriteCmd
  PROVE  IInv'
  <1> USE DEF WriteCmd, WriteBurst, WriteTransfer, bridge
  <1>1. CASE \E code \in Errors : Return(code) /\ UNCHANGED <<cable, cells, bridge>>
    BY <1>1, FailIInv DEF Polling
  <1>2. CASE Goto("poll1") /\ cmd' = CmdOf(op)
                         /\ UNCHANGED <<cable, cells, pageSel, buf, ecs, answer>>
    <2> USE <1>2 DEF Goto
    <2>0. Pending'
      BY CodesPending DEF IInv, InCall, Pending, CmdOf
    <2>1. Linked' /\ HandshakeKept' /\ InCall'
      BY <2>0 DEF IInv, Linked, HandshakeKept, Handshake, NoAbandon, InCall, Polling
    <2>2. Addressed' /\ Buffered' /\ Commanded' /\ Answered' /\ Returned'
      BY <2>0 DEF IInv, InCall, Addressed, Buffered, Commanded, Answered, Returned, Applied, Waiting, Polling,
         Trusted
    <2> QED BY <2>1, <2>2 DEF IInv
  <1>3. CASE ~Trusted /\ Goto("poll1") /\ UNCHANGED <<cable, cells, bridge>>
    BY <1>3, LostIInv
  <1> QED
    <2>1. CASE After(-ENOSYS, "poll1") /\ UNCHANGED <<cable, cells, bridge>>
      BY <2>1, <1>1, AfterCases DEF Errors, EIO, ENOSYS
    <2>2. CASE "spi" \in Faults /\ After(EIO, "poll1") /\ UNCHANGED <<cable, cells, bridge>>
      BY <2>2, <1>1, <1>3, AfterCases DEF Trusted, Errors
    <2>3. CASE ~conn /\ Goto("poll1") /\ UNCHANGED <<cable, cells, bridge>>
      BY <2>3, <1>3 DEF Trusted, IInv, Linked
    <2> QED
      BY <2>1, <2>2, <2>3, <1>2

\* A read step that does not end the call.
LEMMA GotoIInv ==
  ASSUME IInv, TypeOK', UNCHANGED <<cable, cells, bridge>>, NEW next, Goto(next),
         \/ pc \in Polling /\ next \in Polling
         \/ pc \in Polling /\ ~Pending /\ next = IF op.kind = "rblock" THEN "st1" ELSE "ans"
         \/ pc \in {"st1", "st2", "st3"} /\ next \in {"st2", "st3"}
         \/ pc \in {"st1", "st2", "st3"} /\ next = "data" /\ (Trusted => answer.ok)
  PROVE  IInv'
  <1> USE DEF Goto, bridge
  <1>1. Linked' /\ HandshakeKept' /\ InCall'
    BY DEF IInv, Linked, HandshakeKept, Handshake, NoAbandon, Pending, InCall, Polling
  <1>2. Trusted' = Trusted /\ Pending' = Pending /\ Seen' = Seen /\ Effect(Seen)' = Effect(Seen)
    <2>1. pc \in Waiting /\ pc' \in Waiting
      BY DEF Polling, Waiting
    <2>2. Trusted' = Trusted /\ Pending' = Pending
      BY DEF Trusted, Pending
    <2>3. Seen' = Seen
      BY <2>1, <2>2 DEF Seen, Applied
    <2> QED BY <2>2, <2>3 DEF Effect
  <1>3. Addressed' /\ Buffered' /\ Commanded'
    BY <1>2 DEF IInv, Addressed, Buffered, Commanded, Waiting, Polling
  <1>4. Answered' /\ Returned'
    BY <1>2 DEF IInv, Answered, Returned, Applied, Waiting, Polling
  <1> QED BY <1>1, <1>3, <1>4 DEF IInv

\* The step that returns 0.
LEMMA SucceedIInv ==
  ASSUME IInv, TypeOK', UNCHANGED <<cable, cells, bridge, op>>,
         pc \in {"ans", "data"}, pc' = "idle", Trusted => Applied /\ out' = Seen
  PROVE  IInv'
  <1> USE DEF bridge
  <1>1. Linked' /\ HandshakeKept' /\ InCall'
    BY DEF IInv, Linked, HandshakeKept, Handshake, NoAbandon, Pending, InCall, Polling
  <1>2. Addressed' /\ Buffered' /\ Commanded' /\ Answered'
    BY DEF Addressed, Buffered, Commanded, Answered, Applied, Waiting, Polling
  <1>3. ASSUME Trusted' PROVE Effect(out)' /\ ~Pending' /\ (op \in Ops)'
    <2>1. Trusted
      BY <1>3 DEF Trusted
    <2>2. Effect(Seen) /\ ~Pending
      BY <2>1 DEF IInv, Answered, Applied
    <2>3. out' = Seen
      BY <2>1
    <2>4. Effect(out)'
      BY <2>2, <2>3 DEF Effect
    <2> QED BY <2>2, <2>4 DEF Pending, IInv, InCall
  <1> QED BY <1>1, <1>2, <1>3 DEF IInv, Returned

LEMMA PollIInv ==
  ASSUME IInv, TypeOK', PollSend \/ PollFetch \/ PollRefetch
  PROVE  IInv'
  <1> USE DEF ReadStep, Polling
  <1>1. UNCHANGED <<cable, cells, bridge>> /\ pc \in Polling
    BY DEF PollSend, PollFetch, PollRefetch
  <1>2. CASE \E next \in Polling : Goto(next)
    BY <1>1, <1>2, GotoIInv
  <1>3. CASE AfterPoll
    BY <1>1, <1>3, GotoIInv DEF AfterPoll
  <1>4. CASE ~NoAbandon /\ \E code \in {-ENODEV, -EINVAL, -EIO} : Return(code)
    BY <1>1, <1>4, FailIInv DEF Errors
  <1>5. ~conn => "unplug" \in Faults
    BY DEF IInv, Linked
  <1> QED
    BY <1>2, <1>3, <1>4, <1>5 DEF PollSend, PollFetch, PollRefetch, Abort, NoAbandon

LEMMA ReadAnswerIInv ==
  ASSUME IInv, TypeOK', ReadAnswer
  PROVE  IInv'
  <1> USE DEF ReadAnswer, ReadStep
  <1>1. UNCHANGED <<cable, cells, bridge>> /\ pc = "ans" /\ op.kind # "rblock" /\ out = {}
    BY DEF IInv, InCall
  <1>2. CASE \E code \in Errors : Return(code)
    BY <1>1, <1>2, FailIInv DEF Polling
  <1>3. CASE ~Trusted /\ (Return(0) \/ \E d \in Byte : ReturnData(d))
    BY <1>1, <1>3, SucceedIInv DEF Return, ReturnData
  <1>4. CASE Judge(answer)
    <2>1. CASE ~answer.ok \/ (op.kind = "wbyte" /\ answer.data # op.data)
      BY <2>1, <1>2, <1>4 DEF Judge, Errors
    <2>2. CASE answer.ok
      <3>1. Trusted => Applied
        BY <1>1, <2>2 DEF IInv, Commanded, Applied, Waiting, Polling
      <3>2. CASE op.kind \in Writes /\ Return(0)
        BY <1>1, <3>1, <3>2, SucceedIInv DEF Return, Seen
      <3>3. CASE op.kind \notin Writes /\ ReturnData(answer.data)
        BY <1>1, <3>1, <3>3, SucceedIInv DEF ReturnData, Seen
      <3> QED
        BY <1>2, <1>4, <2>2, <3>2, <3>3 DEF Judge, Errors
    <2> QED BY <2>1, <2>2
  <1>5. CASE "spi" \in Faults /\ UnreadAnswer
    BY <1>2, <1>3, <1>5 DEF UnreadAnswer, Abort, Trusted, Errors
  <1>6. CASE ~conn /\ Judge([data |-> AllOnes, ok |-> TRUE])
    <2>1. ~Trusted
      BY <1>6 DEF IInv, Linked, Trusted
    <2> QED
      BY <1>2, <1>3, <1>6, <2>1 DEF Judge, Errors, AllOnes, Byte
  <1>7. CASE Abort(-EINVAL)
    BY <1>2, <1>7 DEF Abort, Errors
  <1> QED
    BY <1>4, <1>5, <1>6, <1>7

LEMMA StatusIInv ==
  ASSUME IInv, TypeOK', StatusSend \/ StatusFetch \/ StatusRefetch
  PROVE  IInv'
  <1> USE DEF ReadStep, StatusSend, StatusFetch, StatusRefetch
  <1>1. UNCHANGED <<cable, cells, bridge>> /\ pc \in {"st1", "st2", "st3"} /\ op.kind = "rblock"
    BY DEF IInv, InCall
  <1>2. CASE \E code \in {-EIO, -ENODEV, -EINVAL} : Return(code)
    BY <1>1, <1>2, FailIInv DEF Polling, Errors
  <1>3. CASE \E next \in {"st2", "st3"} : Goto(next)
    BY <1>1, <1>3, GotoIInv
  <1>4. CASE Goto("data") /\ (Trusted => answer.ok)
    BY <1>1, <1>4, GotoIInv
  <1>5. ~conn => ~Trusted
    BY DEF IInv, Linked, Trusted
  <1>6. "spi" \in Faults => ~Trusted
    BY <1>1 DEF Trusted
  <1> QED
    BY <1>2, <1>3, <1>4, <1>5, <1>6 DEF UnreadStatus, AfterStatus

LEMMA ReadBufferIInv ==
  ASSUME IInv, TypeOK', ReadBuffer
  PROVE  IInv'
  <1> USE DEF ReadBuffer, ReadStep
  <1>1. UNCHANGED <<cable, cells, bridge>> /\ pc = "data" /\ op.kind = "rblock"
    BY DEF IInv, InCall
  <1>2. CASE \E code \in {EIO, -EINVAL} : Return(code)
    BY <1>1, <1>2, FailIInv DEF Polling, Errors
  <1>3. CASE ~conn /\ ReturnData(AllOnes)
    BY <1>1, <1>3, SucceedIInv DEF IInv, Linked, Trusted, ReturnData
  <1>4. CASE ReturnData(buf)
    <2>1. Trusted => Applied /\ buf = Seen
      BY <1>1 DEF IInv, Commanded, Answered, Applied, Seen, Waiting, Polling, Writes
    <2> QED
      BY <1>1, <1>4, <2>1, SucceedIInv DEF ReturnData
  <1> QED
    BY <1>2, <1>3, <1>4

\* A trusted command is executed as the call that wrote it asks: on the register
\* it names, with the new contents and the answer of RemoteRegisters.
LEMMA ExecuteTrusted ==
  ASSUME IInv, TypeOK', Execute, Trusted, pc \in Polling
  PROVE  /\ op \in Ops /\ ~Pending'
         /\ ecs.slot = op.slot
         /\ op.slot \in Populated =>
              /\ Target(op) \in Present
              /\ answer'.ok
              /\ cells' = [cells EXCEPT ![Target(op)] = Registers!NewValue(op, cells[Target(op)])]
              /\ op.kind = "rblock" => buf' = cells[Target(op)]
              /\ op.kind \in {"rbyte", "tas", "tar"} => answer'.data = cells[Target(op)]
         /\ op.slot \notin Populated => ~answer'.ok /\ UNCHANGED cells
  <1> DEFINE cell == <<ecs.slot, TargetPage>>
  <1>1. op \in Ops
    BY DEF IInv, InCall, Polling
  <1>2. cmd = CmdOf(op)
    BY DEF Execute, IInv, Commanded
  <1>3. ecs = EcsOf(op, ecs.page)
    BY DEF IInv, Addressed, Waiting
  <1>4. cmd.arg = ArgOf(op) /\ cmd.code = CodeOf(op)
    BY <1>2 DEF CmdOf
  <1>5. ecs.slot = op.slot /\ (ecs.mov <=> op.kind \in Blocks) /\ TargetPage = op.page
    <2>1. CASE op.kind = "rbyte"
      <3>1. ecs.slot = op.slot /\ ecs.wp0 = FALSE /\ ecs.mov = FALSE
        BY <1>3, <2>1 DEF EcsOf
      <3>2. ~(op.kind \in Blocks)
        BY <2>1 DEF Blocks
      <3>3. ArgOf(op) = op.page
        BY <2>1, <3>2 DEF ArgOf
      <3>4. TargetPage = op.page
        BY <1>4, <3>1, <3>3 DEF TargetPage
      <3> QED
        BY <3>1, <3>2, <3>4
    <2>2. CASE op.kind # "rbyte"
      <3>1. ecs.slot = op.slot /\ ecs.wp0 = TRUE /\ ecs.page = op.page
        BY <1>3, <2>2 DEF EcsOf
      <3>2. ecs.mov = EcsOf(op, ecs.page).mov
        BY <1>3
      <3>3. EcsOf(op, ecs.page).mov <=> op.kind \in Blocks
        <4>1. CASE op.kind \in Blocks
          BY <2>2, <4>1 DEF EcsOf
        <4>2. CASE op.kind \notin Blocks
          BY <2>2, <4>2 DEF EcsOf
        <4> QED BY <4>1, <4>2
      <3> QED
        BY <3>1, <3>2, <3>3 DEF TargetPage
    <2> QED BY <2>1, <2>2
  <1>6. ~Pending'
    BY DEF Execute, Pending
  <1>7. CASE op.slot \notin Populated
    <2>1. Refuse
      BY <1>5, <1>7 DEF Execute
    <2> QED BY <1>1, <1>5, <1>6, <1>7, <2>1 DEF Refuse
  <1>8. CASE op.slot \in Populated
    <2>1. cell = Target(op) /\ Target(op) \in Present
      BY <1>1, <1>5, <1>8 DEF Target, Present, Ops
    <2>2. Perform(Target(op))
      BY <1>5, <1>8, <2>1 DEF Execute
    <2>3. op.kind = "wblock" => buf = op.data
      BY DEF IInv, Buffered, Execute
    <2>4. ASSUME NEW old
          PROVE  Executed(old) = Registers!NewValue(op, old)
      BY <1>1, <1>4, <1>5, <2>3, KindsAssumption
         DEF Executed, Registers!NewValue, Registers!Writes, CodeOf, ArgOf, Ops, AllKinds,
             Writes, Reads, Blocks
    <2>5. cmd.code = "read" /\ ecs.mov <=> op.kind = "rblock"
      BY <1>1, <1>4, <1>5, KindsAssumption DEF CodeOf, Ops, AllKinds, Writes, Reads, Blocks
    <2>6. op.kind \in {"rbyte", "tas", "tar"} => cmd.code # "write"
      BY <1>4 DEF CodeOf, Writes, Reads
    <2> QED
      BY <1>1, <1>5, <1>6, <1>8, <2>1, <2>2, <2>4, <2>5, <2>6 DEF Perform
  <1> QED BY <1>7, <1>8

LEMMA ExecuteIInv ==
  ASSUME IInv, TypeOK', Execute
  PROVE  IInv'
  <1>1. UNCHANGED <<pc, op, ret, out, cable, pageSel, ecs>> /\ ~Pending' /\ Pending
    BY DEF Execute, host, Pending
  <1>2. Linked' /\ HandshakeKept' /\ InCall'
    BY <1>1 DEF IInv, Linked, HandshakeKept, Handshake, NoAbandon, InCall
  <1>3. Trusted' = Trusted
    BY <1>1 DEF Trusted
  <1>4. Addressed' /\ Commanded'
    BY <1>1, <1>3 DEF IInv, Addressed, Commanded
  <1>5. Buffered'
    <2>1. Trusted /\ op.kind = "wblock" => pc \in Polling
      BY <1>1 DEF IInv, HandshakeKept, Handshake, NoAbandon, Trusted
    <2> QED BY <1>1, <1>3, <2>1 DEF IInv, Buffered, Polling
  <1>6. ASSUME Trusted, pc \in Waiting PROVE pc \in Polling
    BY <1>1, <1>6 DEF IInv, Commanded, Waiting, Polling
  <1>7. Answered'
    <2>1. ASSUME Trusted, Applied' PROVE Effect(Seen)'
      <3>1. pc \in Polling /\ answer'.ok
        BY <1>1, <1>6, <2>1 DEF Applied
      <3>2. op \in Ops /\ op.slot \in Populated /\ Target(op) \in Present
              /\ cells' = [cells EXCEPT ![Target(op)] = Registers!NewValue(op, cells[Target(op)])]
              /\ (op.kind = "rblock" => buf' = cells[Target(op)])
              /\ (op.kind \in {"rbyte", "tas", "tar"} => answer'.data = cells[Target(op)])
        BY <2>1, <3>1, ExecuteTrusted
      <3>3. Target(op)' = Target(op)
        BY <1>1 DEF Target
      <3>4. cells'[Target(op)] = Registers!NewValue(op, cells[Target(op)])
        BY <3>2 DEF IInv, TypeOK
      <3>5. op.kind \in {"rblock", "rbyte", "tas", "tar"} => Seen' = cells[Target(op)]
        BY <1>1, <2>1, <3>2 DEF Seen, Writes
      <3>6. op.kind \in Kinds
        BY <3>2 DEF Ops
      <3> QED
        BY <1>1, <3>2, <3>3, <3>4, <3>5
           DEF Effect, Registers!NewValue, Registers!Writes, Writes, Reads
    <2>2. Trusted => pc # "data"
      BY <1>6 DEF Waiting, Polling
    <2> QED BY <1>1, <1>3, <2>1, <2>2 DEF Answered
  <1>8. Returned'
    BY <1>1, <1>3 DEF IInv, Returned
  <1> QED BY <1>2, <1>4, <1>5, <1>7, <1>8 DEF IInv

LEMMA ReplugIInv ==
  ASSUME IInv, TypeOK', Replug
  PROVE  IInv'
  <1> USE DEF Replug, host, bridge
  <1>1. ~Trusted'
    BY DEF Trusted
  <1>2. Linked' /\ HandshakeKept' /\ InCall'
    BY DEF IInv, Linked, HandshakeKept, Handshake, NoAbandon, InCall
  <1> QED
    BY <1>1, <1>2 DEF IInv, Addressed, Buffered, Commanded, Answered, Returned

LEMMA StutterIInv ==
  ASSUME IInv, UNCHANGED vars
  PROVE  IInv'
  <1> USE DEF vars
  <1>1. TypeOK' /\ Linked' /\ HandshakeKept' /\ InCall'
    BY DEF IInv, TypeOK, Linked, HandshakeKept, Handshake, NoAbandon, Pending, InCall
  <1>2. Trusted' = Trusted /\ Pending' = Pending /\ Applied' = Applied /\ Seen' = Seen
    BY DEF Trusted, Pending, Applied, Seen
  <1>3. Effect(Seen)' = Effect(Seen) /\ Effect(out)' = Effect(out)
    BY <1>2 DEF Effect, Target
  <1>4. Addressed' /\ Buffered' /\ Commanded' /\ Answered' /\ Returned'
    BY <1>2, <1>3 DEF IInv, Addressed, Buffered, Commanded, Answered, Returned
  <1> QED BY <1>1, <1>4 DEF IInv

LEMMA NextIInv == IInv /\ [Next]_vars => IInv'
  <1> SUFFICES ASSUME IInv, [Next]_vars PROVE IInv'
    OBVIOUS
  <1>1. TypeOK'
    BY NextType DEF IInv
  <1> QED
    BY <1>1, CallIInv, RejectIInv, SelectPageIInv, FillBufferIInv, WriteEcsIInv, WriteCmdIInv,
       PollIInv, ReadAnswerIInv, StatusIInv, ReadBufferIInv, ExecuteIInv, ReplugIInv,
       StutterIInv
       DEF Next, HostStep

-------------------------------------------------------------------------------
(* The theorems.                                                           *)

\* IInv holds in every reachable state.
THEOREM Inductive == Spec => []IInv
  BY InitIInv, NextIInv, PTL DEF Spec

\* Every variable stays within its type.
THEOREM Typing == Spec => []TypeOK
  <1>1. IInv => TypeOK
    BY DEF IInv
  <1> QED BY Inductive, <1>1, PTL

\* As long as the rack answers and has not been unplugged (avx_read_byte
\* 158-180), a command stands in the bridge only while its own call waits for
\* it, whatever transfers fail.
THEOREM OneCommandAtATime == Spec => [](NoAbandon => Handshake)
  <1>1. IInv => (NoAbandon => Handshake)
    BY DEF IInv, HandshakeKept
  <1> QED BY Inductive, <1>1, PTL

\* From the handshake, only a call that gives up polling leaves a command behind
\* (791-809): no other step breaks it, whatever transfers fail.  Of the calls
\* made over a command that was abandoned this says nothing.
THEOREM GivingUpAlone == Spec => CommandsWaitedFor
  <1> DEFINE Kept == Handshake => Handshake' \/ (pc \in Polling /\ pc' = "idle")
  <1>1. ASSUME IInv, [Next]_vars PROVE [Kept]_vars
    <2> SUFFICES ASSUME Handshake, Next PROVE Kept
      BY <1>1
    <2> USE DEF Handshake, Pending, Polling
    <2>1. ASSUME NEW o \in Ops, Call(o) \/ Reject(o) PROVE Kept
      BY <2>1 DEF Call, Reject, bridge
    <2>2. CASE SelectPage \/ FillBuffer \/ WriteEcs
      BY <2>2 DEF SelectPage, FillBuffer, WriteEcs, WriteBurst, WriteTransfer, bridge
    <2>3. CASE WriteCmd
      <3>1. CASE cmd' = cmd
        BY <2>3, <3>1 DEF WriteCmd
      <3>2. CASE cmd' = CmdOf(op) /\ Goto("poll1")
        BY <3>2 DEF Goto, CmdOf, ArgOf
      <3> QED
        BY <2>3, <3>1, <3>2 DEF WriteCmd, WriteBurst, WriteTransfer, bridge
    <2>4. CASE PollSend \/ PollFetch \/ PollRefetch
      <3>1. UNCHANGED cmd /\ pc \in Polling
        BY <2>4 DEF PollSend, PollFetch, PollRefetch, ReadStep, bridge
      <3>2. CASE \E next \in Polling : Goto(next)
        BY <3>1, <3>2 DEF Goto, CmdOf, ArgOf
      <3>3. CASE AfterPoll
        BY <3>1, <3>3 DEF AfterPoll, Goto, CmdOf, ArgOf
      <3>4. CASE \E code \in {-ENODEV, -EINVAL} : Abort(code)
        BY <3>1, <3>4 DEF Abort, Return
      <3> QED
        BY <2>4, <3>2, <3>3, <3>4 DEF PollSend, PollFetch, PollRefetch
    <2>5. CASE ReadAnswer \/ StatusSend \/ StatusFetch \/ StatusRefetch \/ ReadBuffer
      BY <2>5 DEF ReadAnswer, StatusSend, StatusFetch, StatusRefetch, ReadBuffer, ReadStep, bridge
    <2>6. CASE Execute
      BY <2>6 DEF Execute
    <2>7. CASE Replug
      BY <2>7 DEF Replug, host, bridge
    <2> QED
      BY <2>1, <2>2, <2>3, <2>4, <2>5, <2>6, <2>7 DEF Next, HostStep
  <1> QED BY Inductive, <1>1, PTL DEF Spec, CommandsWaitedFor

\* A single-byte write that returns 0 is in the register it names (408-467),
\* whatever transfers fail and whatever calls were given up before it, as long
\* as the rack has not been unplugged.
THEOREM ByteWriteIsSound == Spec => []ByteWriteLands
  <1>1. IInv => ByteWriteLands
    BY DEF IInv, Returned, ByteWriteLands, Succeeded, Trusted, Effect, Writes
  <1> QED BY Inductive, <1>1, PTL

\* When no transfer fails and the rack answers, every call that returns 0 did
\* what its function says (408-751): the datum or the block is in the register,
\* the value read is the register's, the bits of the mask are set or cleared.
THEOREM SuccessIsSound ==
  ASSUME {"spi", "invalid"} \cap Faults = {}
  PROVE  Spec => [](cable = "steady" =>
                      ByteWriteLands /\ BlockWriteLands /\ ReadsReturnCell /\ TogglesLand)
  <1>1. IInv /\ cable = "steady" /\ pc = "idle" /\ ret = 0 => Effect(out) /\ op \in Ops
    BY DEF IInv, Returned, Trusted
  <1>2. IInv /\ cable = "steady" => ByteWriteLands /\ BlockWriteLands /\ ReadsReturnCell /\ TogglesLand
    BY <1>1 DEF ByteWriteLands, BlockWriteLands, ReadsReturnCell, TogglesLand, Succeeded,
       Effect, Writes, Reads, Toggles
  <1> QED BY Inductive, <1>2, PTL

-------------------------------------------------------------------------------
(* What a call repeats.                                                    *)

\* The transfers a call can still make, if none is made again.
Ahead == [page  |-> 11, buf   |-> 10, ecs   |-> 9, cmd |-> 8,
          poll1 |-> 7,  poll2 |-> 6,  poll3 |-> 5,
          st1   |-> 4,  st2   |-> 3,  st3   |-> 2,
          data  |-> 1,  ans   |-> 1,  idle  |-> 0]

\* Every transfer brings the call nearer to its return, but for the polls, which
\* start again while the command stands, or for want of a valid read.
OnlyPollsRepeat ==
  [][HostStep =>
       \/ Ahead[pc'] < Ahead[pc]
       \/ pc \in Polling /\ pc' = "poll1" /\ (Pending \/ "spi" \in Faults \/ ~conn)]_vars

\* No call writes ECS, a command or the buffer twice, whatever fails: it is only
\* polls that are made again (796-806), so that a command is carried out once at
\* most, and each call returns if its polls come to an end.
THEOREM NothingElseIsRepeated == Spec => OnlyPollsRepeat
  <1> DEFINE Nearer == Ahead[pc'] < Ahead[pc]
             Again  == /\ pc \in Polling /\ pc' = "poll1"
                       /\ Pending \/ "spi" \in Faults \/ ~conn
  <1>1. ASSUME HostStep PROVE Nearer \/ Again
    <2>1. CASE SelectPage \/ FillBuffer \/ WriteEcs \/ WriteCmd
      BY <2>1 DEF SelectPage, FillBuffer, WriteEcs, WriteCmd, WriteBurst,
                  WriteTransfer, After, Goto, Abort, Return, Ahead
    <2>2. CASE PollSend \/ PollFetch \/ PollRefetch
      <3>1. pc \in Polling
        BY <2>2 DEF PollSend, PollFetch, PollRefetch, Polling
      <3>2. CASE pc' = "poll1"
        BY <2>2, <3>1, <3>2
           DEF PollSend, PollFetch, PollRefetch, AfterPoll, Goto, Abort, Return
      <3>3. CASE pc' # "poll1"
        BY <2>2, <3>3
           DEF PollSend, PollFetch, PollRefetch, AfterPoll, Goto, Abort, Return, Ahead
      <3> QED
        BY <3>2, <3>3
    <2>3. CASE ReadAnswer
      BY <2>3 DEF ReadAnswer, Judge, UnreadAnswer, Abort, Return, ReturnData, Ahead
    <2>4. CASE StatusSend \/ StatusFetch \/ StatusRefetch \/ ReadBuffer
      BY <2>4 DEF StatusSend, StatusFetch, StatusRefetch, ReadBuffer, UnreadStatus,
                  AfterStatus, Goto, Return, ReturnData, Ahead
    <2> QED
      BY <1>1, <2>1, <2>2, <2>3, <2>4 DEF HostStep
  <1> QED
    BY <1>1, PTL DEF Spec, OnlyPollsRepeat

-------------------------------------------------------------------------------
(* AvxMailbox implements RemoteRegisters, for every rack, as long as each  *)
(* call can see its failures: the rack stays plugged and answers, and the  *)
(* transfers either do not fail or belong to single-byte writes.           *)

ReliableLink ==
  /\ {"invalid", "unplug"} \cap Faults = {}
  /\ "spi" \notin Faults \/ Kinds \subseteq {"wbyte"}

\* What the steps below need to know of a state.
LEMMA ReliableState ==
  ASSUME ReliableLink, IInv
  PROVE  /\ conn
         /\ pc # "idle" => Trusted /\ op \in Ops
         /\ pc # "idle" /\ "spi" \in Faults => op.kind = "wbyte"
         /\ Pending => pc \in Polling
         /\ pc \notin Waiting => ~Applied
         /\ ~Applied => Seen = {}
         /\ Phase = "idle" <=> pc = "idle"
  <1>1. conn /\ (Pending => pc \in Polling)
    BY DEF ReliableLink, NoAbandon, IInv, Linked, HandshakeKept, Handshake, conn
  <1>2. pc # "idle" => Trusted /\ op \in Ops
    BY DEF ReliableLink, IInv, Linked, InCall, Trusted, Ops
  <1>3. pc # "idle" /\ "spi" \in Faults => op.kind = "wbyte"
    BY <1>2 DEF ReliableLink, Ops
  <1> QED BY <1>1, <1>2, <1>3 DEF Applied, Seen, Phase

\* A call that returns an error fails.
LEMMA ReturnFails ==
  ASSUME pc # "idle", NEW code \in Errors, Return(code), UNCHANGED cells
  PROVE  Registers!Fail
  BY DEF Return, Registers!Fail, Phase, Seen, Applied, Waiting, Polling

\* A call that returns 0 after the rack executed its command succeeds.
LEMMA ReturnSucceeds ==
  ASSUME pc # "idle", pc' = "idle", Applied, ret' = 0, out' = Seen, UNCHANGED <<op, cells>>
  PROVE  Registers!Succeed
  BY DEF Registers!Succeed, Phase, Seen, Applied, Waiting, Polling

\* A step to another transfer is not seen.
LEMMA GotoStutters ==
  ASSUME NEW next, Goto(next), UNCHANGED cells,
         \/ pc \in Waiting /\ next \in Waiting /\ UNCHANGED bridge
         \/ pc \notin Waiting \cup {"idle"} /\ next \notin Waiting \cup {"idle"}
         \/ pc = "cmd" /\ next = "poll1" /\ Pending'
  PROVE  UNCHANGED Registers!vars
  BY DEF Goto, bridge, Registers!vars, Phase, Seen, Applied, Pending, Waiting, Polling

LEMMA InitRefines == Init => Registers!Init
  BY DEF Init, Registers!Init, Phase, Seen, Applied, Waiting, Polling, Errors

LEMMA CallRefines ==
  ASSUME NEW o \in Ops, Call(o) \/ Reject(o)
  PROVE  Registers!Call(o) \/ Registers!Reject(o)
  <1>1. CASE Call(o)
    BY <1>1 DEF Call, FirstStep, Registers!Call, Phase, Seen, Applied, Waiting, Polling
  <1>2. CASE Reject(o)
    BY <1>2 DEF Reject, Registers!Reject, Phase, Seen, Applied, Waiting, Polling, Errors
  <1> QED BY <1>1, <1>2

\* A write transfer leaves the call where no command is pending, or fails it.
LEMMA WriteRefines ==
  ASSUME ReliableLink, IInv, SelectPage \/ FillBuffer \/ WriteEcs \/ WriteCmd
  PROVE  Registers!Fail \/ UNCHANGED Registers!vars
  <1> USE DEF WriteBurst, WriteTransfer
  <1>1. pc \in {"page", "buf", "ecs", "cmd"} /\ UNCHANGED cells
    BY DEF SelectPage, FillBuffer, WriteEcs, WriteCmd
  <1>2. op \in Ops /\ conn /\ ("spi" \in Faults => op.kind = "wbyte")
    BY <1>1, ReliableState
  <1>3. ASSUME NEW next, After(-ENOSYS, next) \/ ("spi" \in Faults /\ After(EIO, next))
        PROVE  Registers!Fail
    <2>1. \E code \in Errors : Return(code)
      BY <1>2, <1>3, AfterCases DEF Errors, EIO, ENOSYS
    <2> QED BY <1>1, <2>1, ReturnFails
  <1>4. ASSUME NEW next \in {"buf", "ecs", "cmd"}, Goto(next), pc # "cmd"
        PROVE  UNCHANGED Registers!vars
    BY <1>1, <1>4, GotoStutters DEF Waiting, Polling
  <1>5. CASE SelectPage
    <2>1. CASE Goto("buf")
      BY <1>4, <1>5, <2>1 DEF SelectPage
    <2> QED BY <1>3, <1>5, <2>1 DEF SelectPage
  <1>6. CASE FillBuffer
    <2>1. CASE Goto("ecs")
      BY <1>4, <1>6, <2>1 DEF FillBuffer
    <2> QED BY <1>3, <1>6, <2>1 DEF FillBuffer
  <1>7. CASE WriteEcs
    <2>1. CASE Goto("cmd")
      BY <1>4, <1>7, <2>1 DEF WriteEcs
    <2> QED BY <1>3, <1>7, <2>1 DEF WriteEcs
  <1>8. CASE WriteCmd
    <2>1. CASE cmd' = CmdOf(op) /\ Goto("poll1")
      <3>1. Pending'
        BY <1>2, <2>1, CodesPending DEF Pending, CmdOf
      <3> QED BY <1>1, <1>8, <2>1, <3>1, GotoStutters DEF WriteCmd
    <2> QED BY <1>2, <1>3, <1>8, <2>1 DEF WriteCmd
  <1> QED BY <1>5, <1>6, <1>7, <1>8

\* Reads leave the bridge alone: they end the call or are not seen.
LEMMA ReadRefines ==
  ASSUME ReliableLink, IInv,
         \/ PollSend \/ PollFetch \/ PollRefetch
         \/ ReadAnswer \/ StatusSend \/ StatusFetch \/ StatusRefetch \/ ReadBuffer
  PROVE  Registers!Fail \/ Registers!Succeed \/ UNCHANGED Registers!vars
  <1>1. pc \in Waiting /\ UNCHANGED cells /\ UNCHANGED bridge
    BY DEF PollSend, PollFetch, PollRefetch, ReadAnswer, StatusSend, StatusFetch,
       StatusRefetch, ReadBuffer, ReadStep, Waiting, Polling
  <1>2. Trusted /\ conn /\ {"invalid", "unplug"} \cap Faults = {}
        /\ ("spi" \in Faults => op.kind = "wbyte")
    BY <1>1, ReliableState DEF ReliableLink, Waiting, Polling
  <1>3. CASE \E next \in Waiting : Goto(next)
    BY <1>1, <1>3, GotoStutters
  <1>4. CASE \E code \in Errors : Return(code)
    BY <1>1, <1>4, ReturnFails DEF Waiting, Polling
  <1>5. CASE PollSend \/ PollFetch \/ PollRefetch
    BY <1>2, <1>3, <1>5 DEF PollSend, PollFetch, PollRefetch, AfterPoll, Waiting, Polling
  <1>6. CASE StatusSend \/ StatusFetch \/ StatusRefetch
    BY <1>2, <1>3, <1>4, <1>6 DEF StatusSend, StatusFetch, StatusRefetch, AfterStatus,
       UnreadStatus, IInv, InCall, Errors, Waiting, Polling
  <1>7. CASE ReadAnswer
    <2>1. pc = "ans" /\ op.kind # "rblock" /\ out = {} /\ ~Pending
      BY <1>2, <1>7 DEF ReadAnswer, IInv, InCall, Commanded, Waiting, Polling
    <2>2. CASE Judge(answer)
      <3>1. CASE ~answer.ok \/ (op.kind = "wbyte" /\ answer.data # op.data)
        BY <1>4, <2>2, <3>1 DEF Judge, Errors
      <3>2. CASE answer.ok /\ op.kind \in Writes /\ Return(0)
        <4>1. Applied /\ Seen = {}
          BY <1>1, <2>1, <3>2 DEF Applied, Seen
        <4> QED BY <1>1, <2>1, <3>2, <4>1, ReturnSucceeds DEF Return
      <3>3. CASE answer.ok /\ op.kind \notin Writes /\ ReturnData(answer.data)
        <4>1. Applied /\ Seen = answer.data
          BY <1>1, <2>1, <3>3 DEF Applied, Seen
        <4> QED BY <1>1, <2>1, <3>3, <4>1, ReturnSucceeds DEF ReturnData
      <3> QED BY <1>4, <2>2, <3>1, <3>2, <3>3 DEF Judge, Errors
    <2>3. CASE "spi" \in Faults /\ UnreadAnswer
      BY <1>2, <1>4, <2>3 DEF UnreadAnswer, Errors
    <2>4. CASE Abort(-EINVAL)
      BY <1>4, <2>4 DEF Abort, Errors
    <2> QED BY <1>2, <1>7, <2>2, <2>3, <2>4 DEF ReadAnswer
  <1>8. CASE ReadBuffer
    <2>1. pc = "data" /\ op.kind = "rblock" /\ ~Pending /\ answer.ok
      BY <1>2, <1>8 DEF ReadBuffer, IInv, InCall, Commanded, Answered, Waiting, Polling
    <2>2. Applied /\ Seen = buf
      BY <1>1, <2>1 DEF Applied, Seen, Writes
    <2>3. CASE ReturnData(buf)
      BY <1>1, <2>1, <2>2, <2>3, ReturnSucceeds DEF ReturnData
    <2>4. CASE \E code \in {EIO, -EINVAL} : Return(code)
      BY <1>4, <2>4 DEF Errors
    <2> QED BY <1>2, <1>8, <2>3, <2>4 DEF ReadBuffer
  <1> QED BY <1>5, <1>6, <1>7, <1>8

\* The execution of the command is the effect of the call; a slot without card
\* has none.
LEMMA ExecuteRefines ==
  ASSUME ReliableLink, IInv, TypeOK', Execute
  PROVE  Registers!Apply \/ UNCHANGED Registers!vars
  <1>1. pc \in Polling /\ Trusted /\ op \in Ops /\ ~Applied /\ Seen = {} /\ pc # "idle"
    BY ReliableState DEF Execute, Applied, Polling
  <1>2. UNCHANGED <<pc, op, ret, out>> /\ ~Pending'
    BY DEF Execute, host, Pending
  <1>3. Applied' <=> answer'.ok
    BY <1>1, <1>2 DEF Applied, Waiting
  <1>4. CASE op.slot \notin Populated
    <2>1. ~answer'.ok /\ UNCHANGED cells
      BY <1>1, <1>4, ExecuteTrusted
    <2>2. ~Applied' /\ Seen' = {}
      BY <1>3, <2>1 DEF Seen
    <2> QED BY <1>1, <1>2, <2>1, <2>2 DEF Registers!vars, Phase
  <1>5. CASE op.slot \in Populated
    <2>1. /\ Target(op) \in Present /\ answer'.ok
          /\ cells' = [cells EXCEPT ![Target(op)] = Registers!NewValue(op, cells[Target(op)])]
          /\ op.kind = "rblock" => buf' = cells[Target(op)]
          /\ op.kind \in {"rbyte", "tas", "tar"} => answer'.data = cells[Target(op)]
      BY <1>1, <1>5, ExecuteTrusted
    <2>2. Seen' = Registers!Result(op, cells[Target(op)])
      <3>1. op.kind \in AllKinds
        BY <1>1, KindsAssumption DEF Ops
      <3>2. CASE op.kind \in Writes
        BY <1>2, <3>2 DEF Seen, Registers!Result, Registers!Writes, Writes
      <3>3. CASE op.kind \notin Writes
        BY <1>2, <1>3, <2>1, <3>1, <3>3
           DEF Seen, Registers!Result, Registers!Writes, Writes, AllKinds
      <3> QED BY <3>2, <3>3
    <2>3. Phase = "active" /\ Phase' = "applied"
      BY <1>1, <1>2, <1>3, <2>1 DEF Phase
    <2> QED
      BY <1>2, <2>1, <2>2, <2>3 DEF Registers!Apply, Registers!Target, Target
  <1> QED BY <1>4, <1>5

LEMMA NextRefines ==
  ASSUME ReliableLink
  PROVE  IInv /\ IInv' /\ [Next]_vars => [Registers!Next]_(Registers!vars)
  <1> SUFFICES ASSUME IInv, IInv', [Next]_vars
               PROVE  Registers!Next \/ UNCHANGED Registers!vars
    OBVIOUS
  <1>1. ASSUME NEW o \in Ops, Call(o) \/ Reject(o) PROVE Registers!Next
    BY <1>1, CallRefines DEF Registers!Next
  <1>2. CASE HostStep
    BY <1>2, WriteRefines, ReadRefines DEF HostStep, Registers!Next
  <1>3. CASE Execute
    BY <1>3, ExecuteRefines DEF IInv, Registers!Next
  <1>4. ~Replug
    BY DEF ReliableLink, Replug
  <1>5. CASE UNCHANGED vars
    BY <1>5 DEF vars, Registers!vars, Phase, Seen, Applied, Pending
  <1> QED BY <1>1, <1>2, <1>3, <1>4, <1>5 DEF Next

\* Over a reliable link the mailbox calls of avxSpi.c are atomic operations on
\* the registers of the cards: the protocol implements RemoteRegisters.
THEOREM Refinement ==
  ASSUME ReliableLink
  PROVE  Spec => Atomic
  <1>1. Init => Registers!Init
    BY InitRefines
  <1>2. IInv /\ IInv' /\ [Next]_vars => [Registers!Next]_(Registers!vars)
    BY NextRefines
  <1> QED
    BY Inductive, <1>1, <1>2, PTL DEF Spec, Atomic, Registers!Spec
=============================================================================
