------------------------- MODULE AudioRunnerProofs -------------------------
(***************************************************************************)
(* The safety properties of AudioRunner for any number of loops and pauses *)
(* and any lag, by an inductive invariant: the two handles, once linked,   *)
(* are in the same state, and what the card captured and did not play, the *)
(* period in buf included, is at most what the pre-roll put in.            *)
(***************************************************************************)
EXTENDS AudioRunner, TLAPS

Playback == state["playback"]

\* What the set-up has done, if nothing ended the program.
Opened ==
  /\ pc \in Opening =>
       /\ \A h \in Handles : state[h] \in {"closed", "open", "prepared"}
       /\ avail = 0 /\ fill = 0 /\ ~fresh
  /\ pc \in Opening \ {"open_capture"} => state["capture"] # "closed"
  /\ pc \in {"setup_playback", "link"} => Playback # "closed"

\* Linked handles change state together.
Linked ==
  pc \in Playing \cup {"ended"} => state["capture"] = Playback

\* A drained device is prepared at once, unless that fails.
Drained ==
  \A h \in Handles : state[h] = "setup" => pc = "prepare" \/ "error" \in events

Held == IF fresh THEN 1 ELSE 0

\* Where the periods are, before any call failed or came back short.
InFlight ==
  /\ avail + fill + Held <= Periods
  /\ fresh => pc = "write" /\ "playback" \in ready
  /\ pc = "preroll2" => avail + fill < Periods
  /\ pc = "read" /\ "playback" \in ready /\ "capture" \notin ready
       => avail + fill < Periods
  /\ pc = "write" /\ "playback" \in ready /\ ~fresh => avail + fill < Periods

Balance ==
  events = {} /\ pc \in Playing =>
    /\ pc = "prepare" => Playback # "running"
    /\ pc = "preroll1" => Playback = "prepared"
    /\ pc = "read" /\ "capture" \in ready => "playback" \in ready
    /\ Playback = "prepared" => avail = 0 /\ fill = 0
    /\ Playback = "running" => InFlight

IInv ==
  /\ TypeOK
  /\ Opened /\ Linked /\ Drained
  /\ WorksConfigured
  /\ Balance

-------------------------------------------------------------------------------
(* What the calls do, in the terms the steps below need.                   *)

\* Linked handles go to one state.
LEMMA Entering ==
  ASSUME NEW h, NEW s
  PROVE  Enter(h, s) = [g \in Handles |-> s]
  BY DEF Enter, Group

\* The streams, and what the calls of the runner leave of them.
StreamOK ==
  /\ state \in [Handles -> States]
  /\ avail \in 0..Periods + MaxLag
  /\ fill \in -MaxLag..Periods
  /\ fresh \in BOOLEAN
  /\ events \subseteq {"error", "short", "resumed"}

LEMMA RecoverTypes ==
  ASSUME StreamOK, NEW s, NEW bad \in BOOLEAN, Recover(s, bad), UNCHANGED fresh
  PROVE  StreamOK'
<1> USE LagAssumption DEF StreamOK, States, Periods
<1>1. CASE Prepare("capture") /\ UNCHANGED events
  BY <1>1, Entering DEF Prepare, Group, Handles
<1>2. CASE /\ state' = Enter("capture", "running")
           /\ events' = events \cup {"resumed"}
           /\ UNCHANGED <<avail, fill>>
  BY <1>2, Entering
<1>3. CASE UNCHANGED <<stream, events>>
  BY <1>3 DEF stream
<1> QED
  BY <1>1, <1>2, <1>3 DEF Recover

LEMMA WritenTypes ==
  ASSUME StreamOK, NEW bad \in BOOLEAN, Writen(bad)
  PROVE  StreamOK'
<1>1. CASE /\ fill < Periods /\ fill' = fill + 1
           /\ state' = Enter("playback", "running")
           /\ fresh' = FALSE
           /\ UNCHANGED <<avail, events>>
  <2>1. state' \in [Handles -> States]
    BY <1>1, Entering DEF States
  <2>2. fill' \in -MaxLag..Periods
    BY <1>1, LagAssumption DEF StreamOK, Periods
  <2>3. fresh' \in BOOLEAN /\ UNCHANGED <<avail, events>>
    BY <1>1
  <2> QED
    BY <2>1, <2>2, <2>3 DEF StreamOK
<1>2. CASE Recover(state["playback"], bad) /\ UNCHANGED fresh
  BY <1>2, RecoverTypes
<1>3. CASE Breaks(bad)
  BY <1>3 DEF Breaks, stream, StreamOK
<1>4. CASE /\ fill' \in {fill, fill + 1} /\ fill' <= Periods
           /\ state' = Enter("playback", "running")
           /\ events' = events \cup {"short"}
           /\ UNCHANGED <<avail, fresh>>
  <2>1. state' \in [Handles -> States]
    BY <1>4, Entering DEF States
  <2>2. fill' \in -MaxLag..Periods
    BY <1>4, LagAssumption DEF StreamOK, Periods
  <2> QED
    BY <1>4, <2>1, <2>2 DEF StreamOK
<1> QED
  BY <1>1, <1>2, <1>3, <1>4 DEF Writen

LEMMA ReadnTypes ==
  ASSUME StreamOK, NEW bad \in BOOLEAN, Readn(bad)
  PROVE  StreamOK'
<1>1. CASE /\ avail >= 1 /\ avail' = avail - 1
           /\ fresh' = TRUE
           /\ UNCHANGED <<state, fill, events>>
  BY <1>1, LagAssumption DEF StreamOK, Periods
<1>2. CASE Recover(state["capture"], bad) /\ UNCHANGED fresh
  BY <1>2, RecoverTypes
<1>3. CASE Breaks(bad)
  BY <1>3 DEF Breaks, stream, StreamOK
<1>4. CASE /\ avail' \in {avail - 1, avail} /\ avail' >= 0
           /\ fresh' = TRUE
           /\ events' = events \cup {"short"}
           /\ UNCHANGED <<state, fill>>
  BY <1>4, LagAssumption DEF StreamOK, Periods
<1> QED
  BY <1>1, <1>2, <1>3, <1>4 DEF Readn

-------------------------------------------------------------------------------
(* Types.                                                                  *)

\* What else there is.
OthersOK ==
  /\ pc \in Opening \cup Playing \cup {"ended", "crashed"}
  /\ silence \in [Handles -> BOOLEAN]
  /\ ready \subseteq Handles
  /\ loops \in 0..Loops /\ pauses \in 0..Pauses
  /\ failed \in BOOLEAN

LEMMA Types == TypeOK <=> StreamOK /\ OthersOK
  BY DEF TypeOK, StreamOK, OthersOK

LEMMA InitTypes == Init => TypeOK
<1> SUFFICES ASSUME Init PROVE TypeOK
  OBVIOUS
<1>1. state \in [Handles -> States] /\ silence \in [Handles -> BOOLEAN]
  BY DEF Init, States
<1>2. avail \in 0..Periods + MaxLag /\ fill \in -MaxLag..Periods
  BY LagAssumption DEF Init, Periods
<1>3. fresh \in BOOLEAN /\ failed \in BOOLEAN
  BY DEF Init
<1>4. events \subseteq {"error", "short", "resumed"} /\ ready \subseteq Handles
  BY DEF Init
<1>5. loops \in 0..Loops /\ pauses \in 0..Pauses
  BY LoopsAssumption, PausesAssumption DEF Init
<1>6. pc \in Opening \cup Playing \cup {"ended", "crashed"}
  BY DEF Init, Opening
<1> QED
  BY <1>1, <1>2, <1>3, <1>4, <1>5, <1>6 DEF TypeOK

LEMMA OpenTypes == TypeOK /\ Open => TypeOK'
<1> SUFFICES ASSUME StreamOK, OthersOK, Open PROVE StreamOK' /\ OthersOK'
  BY Types, PTL
<1> USE DEF StreamOK, OthersOK, loop, stream, Opening, Playing, States, Handles
<1>1. ASSUME NEW h \in Handles, NEW here, NEW next \in Opening,
             OpenHandle(h, here, next)
      PROVE  StreamOK' /\ OthersOK'
  BY <1>1 DEF OpenHandle
<1>2. ASSUME NEW h \in Handles, NEW here, NEW next \in Opening,
             Configure(h, here, next)
      PROVE  StreamOK' /\ OthersOK'
  BY <1>2 DEF Configure
<1>3. CASE Link
  BY <1>3 DEF Link
<1> QED
  BY <1>1, <1>2, <1>3 DEF Open

LEMMA CardTypes == TypeOK /\ (Tick \/ Suspend) => TypeOK'
<1> SUFFICES ASSUME StreamOK, OthersOK, Tick \/ Suspend
             PROVE  StreamOK' /\ OthersOK'
  BY Types, PTL
<1>1. OthersOK'
  BY DEF Tick, Suspend, OthersOK, loop
<1>2. CASE Tick
  <2>1. CASE state' = Enter("playback", "xrun") /\ UNCHANGED <<avail, fill>>
    <3>1. state' \in [Handles -> States]
      BY <2>1, Entering DEF States
    <3>2. UNCHANGED <<avail, fill, fresh, events>>
      BY <2>1, <1>2 DEF Tick
    <3> QED
      BY <1>1, <3>1, <3>2 DEF StreamOK
  <2>2. CASE state' = Enter("capture", "xrun") /\ UNCHANGED <<avail, fill>>
    <3>1. state' \in [Handles -> States]
      BY <2>2, Entering DEF States
    <3>2. UNCHANGED <<avail, fill, fresh, events>>
      BY <2>2, <1>2 DEF Tick
    <3> QED
      BY <1>1, <3>1, <3>2 DEF StreamOK
  <2>3. CASE /\ fill > -MaxLag
             /\ fill' = IF Runs("playback") THEN fill - 1 ELSE fill
             /\ avail' = IF Runs("capture") /\ avail < Periods + MaxLag
                         THEN avail + 1 ELSE avail
             /\ UNCHANGED state
    <3>1. avail' \in 0..Periods + MaxLag /\ fill' \in -MaxLag..Periods
      BY <2>3, LagAssumption DEF StreamOK, Periods
    <3>2. UNCHANGED <<state, fresh, events>>
      BY <2>3, <1>2 DEF Tick
    <3> QED
      BY <1>1, <3>1, <3>2 DEF StreamOK
  <2> QED
    BY <1>1, <1>2, <2>1, <2>2, <2>3 DEF Tick
<1>3. CASE Suspend
  BY <1>1, <1>3, Entering DEF StreamOK, States, Suspend
<1> QED
  BY <1>1, <1>2, <1>3

LEMMA RunnerTypes ==
  ASSUME TypeOK, Start \/ Test \/ Select \/ Read \/ WriteBack \/ Pause
  PROVE  TypeOK'
<1> SUFFICES ASSUME StreamOK, OthersOK
             PROVE  StreamOK' /\ OthersOK'
  BY Types, PTL
<1> USE DEF loop
<1>1. CASE StartPrepare
  <2>1. OthersOK'
    BY <1>1 DEF StartPrepare, OthersOK, Playing
  <2>2. UNCHANGED fresh
    BY <1>1 DEF StartPrepare
  <2>3. CASE Prepare("playback") /\ UNCHANGED events
    <3>1. state' \in [Handles -> States]
      BY <2>3, Entering DEF Prepare, States
    <3>2. avail' = 0 /\ fill' = 0
      BY <2>3 DEF Prepare, Group, Handles
    <3> QED
      BY <2>1, <2>2, <2>3, <3>1, <3>2, LagAssumption DEF StreamOK, Periods
  <2>4. CASE events' = events \cup {"error"} /\ UNCHANGED stream
    BY <2>1, <2>2, <2>4 DEF StreamOK, stream
  <2> QED
    BY <1>1, <2>3, <2>4 DEF StartPrepare
<1>2. ASSUME NEW here, NEW next \in Playing, Preroll(here, next)
      PROVE  StreamOK' /\ OthersOK'
  BY <1>2, WritenTypes DEF Preroll, OthersOK
<1>3. CASE Test
  <2>1. StreamOK'
    BY <1>3 DEF Test, StreamOK, stream
  <2>2. loops' \in 0..Loops
    BY <1>3, LoopsAssumption DEF Test, Count, OthersOK
  <2> QED
    BY <1>3, <2>1, <2>2 DEF Test, OthersOK, Playing
<1>4. CASE Select
  <2>1. StreamOK'
    BY <1>4 DEF Select, StreamOK, stream
  <2> QED
    BY <1>4, <2>1 DEF Select, OthersOK, Playing
<1>5. CASE Read
  <2>1. StreamOK' /\ failed' \in BOOLEAN
    <3>1. CASE \E bad \in BOOLEAN : Readn(bad) /\ failed' = bad
      BY <3>1, ReadnTypes
    <3>2. CASE UNCHANGED <<stream, fresh, failed, events>>
      BY <3>2 DEF StreamOK, OthersOK, stream
    <3> QED
      BY <1>5, <3>1, <3>2 DEF Read
  <2> QED
    BY <1>5, <2>1 DEF Read, OthersOK, Playing
<1>6. CASE WriteBack
  <2>1. StreamOK' /\ failed' \in BOOLEAN
    <3>1. CASE \E bad \in BOOLEAN : Writen(bad) /\ failed' = bad
      BY <3>1, WritenTypes
    <3>2. CASE UNCHANGED <<stream, fresh, failed, events>>
      BY <3>2 DEF StreamOK, OthersOK, stream
    <3> QED
      BY <1>6, <3>1, <3>2 DEF WriteBack
  <2> QED
    BY <1>6, <2>1 DEF WriteBack, OthersOK, Playing
<1>7. CASE Pause
  <2>1. pauses' \in 0..Pauses
    BY <1>7, PausesAssumption DEF Pause, OthersOK
  <2>2. OthersOK'
    BY <1>7, <2>1 DEF Pause, OthersOK, Playing
  <2>3. state' \in [Handles -> States] /\ events' \subseteq {"error", "short", "resumed"}
    <3>1. CASE Drain
      BY <3>1, Entering DEF Drain, StreamOK, States
    <3>2. CASE UNCHANGED <<state, events>>
      BY <3>2 DEF StreamOK
    <3> QED
      BY <1>7, <3>1, <3>2 DEF Pause
  <2>4. StreamOK'
    BY <1>7, <2>3 DEF Pause, StreamOK
  <2> QED
    BY <2>2, <2>4
<1> QED
  BY <1>1, <1>2, <1>3, <1>4, <1>5, <1>6, <1>7 DEF Start, Playing

LEMMA TypesKept == TypeOK /\ [Next]_vars => TypeOK'
<1>1. TypeOK /\ UNCHANGED vars => TypeOK'
  BY DEF TypeOK, vars, stream, loop
<1> QED
  BY <1>1, OpenTypes, CardTypes, RunnerTypes DEF Next, Runner

-------------------------------------------------------------------------------
(* What comes of a call once the handles are linked.                       *)

Entered(s) == \A h \in Handles : state'[h] = s

\* Both handles are in one state, in which a call can find them.
Together ==
  /\ StreamOK
  /\ state["capture"] = Playback
  /\ \/ Playback \in {"prepared", "running", "xrun", "suspended"}
     \/ Playback = "setup" /\ "error" \in events

Recovered ==
  \/ /\ Playback \in {"xrun", "suspended"}
     /\ Entered("prepared")
     /\ avail' = 0 /\ fill' = 0 /\ UNCHANGED events
  \/ Entered("running") /\ "resumed" \in events'

Wrote ==
  /\ Playback \in {"prepared", "running"} /\ fill < Periods
  /\ Entered("running")
  /\ fill' = fill + 1 /\ fresh' = FALSE /\ UNCHANGED <<avail, events>>

WasRead ==
  /\ Playback = "running"
  /\ avail' = avail - 1 /\ fresh' = TRUE /\ UNCHANGED <<state, fill, events>>

\* A part of a period: what there is of it is not counted any more.
Short ==
  /\ Playback \in {"prepared", "running"}
  /\ Entered("running") /\ events' = events \cup {"short"}

Broke ==
  /\ "error" \in events' /\ events \subseteq events'
  /\ UNCHANGED <<state, avail, fill, fresh>>

LEMMA RecoverOutcome ==
  ASSUME Together, NEW bad \in BOOLEAN, Recover(Playback, bad), UNCHANGED fresh
  PROVE  \/ Recovered /\ ~bad
         \/ Broke /\ bad
<1>1. CanPrepare("capture") \/ Playback = "running"
  BY DEF CanPrepare, Group, Runs, Handles, Together, Playback
<1>2. CASE /\ Playback \in {"xrun", "suspended"}
           /\ Prepare("capture") /\ ~bad /\ UNCHANGED events
  BY <1>2, Entering DEF Prepare, Group, Handles, Recovered, Entered
<1>3. CASE /\ state' = Enter("capture", "running") /\ ~bad
           /\ events' = events \cup {"resumed"}
  BY <1>3, Entering DEF Recovered, Entered, Handles
<1>4. CASE Playback = "setup" /\ bad /\ UNCHANGED <<stream, events>>
  BY <1>4 DEF Together, Broke, stream
<1> QED
  BY <1>1, <1>2, <1>3, <1>4 DEF Recover, Together

LEMMA WritenOutcome ==
  ASSUME Together, NEW bad \in BOOLEAN, Writen(bad)
  PROVE  \/ (Wrote \/ Short) /\ ~bad
         \/ Recovered /\ UNCHANGED fresh /\ ~bad
         \/ Broke /\ bad
<1>1. CASE /\ Playback \in {"prepared", "running"} /\ fill < Periods
           /\ fill' = fill + 1
           /\ state' = Enter("playback", "running")
           /\ fresh' = FALSE /\ ~bad
           /\ UNCHANGED <<avail, events>>
  <2>1. Entered("running")
    BY <1>1, Entering DEF Entered
  <2> QED
    BY <1>1, <2>1 DEF Wrote
<1>2. CASE Recover(Playback, bad) /\ UNCHANGED fresh
  BY <1>2, RecoverOutcome
<1>3. CASE Breaks(bad)
  BY <1>3 DEF Breaks, Broke, stream
<1>4. CASE /\ Playback \in {"prepared", "running"}
           /\ state' = Enter("playback", "running") /\ ~bad
           /\ events' = events \cup {"short"}
  BY <1>4, Entering DEF Short, Entered
<1> QED
  BY <1>1, <1>2, <1>3, <1>4 DEF Writen, Playback

LEMMA ReadnOutcome ==
  ASSUME Together, NEW bad \in BOOLEAN, Readn(bad)
  PROVE  \/ WasRead \/ Short
         \/ Recovered /\ UNCHANGED fresh
         \/ Broke
<1>1. CASE /\ Runs("capture") /\ avail' = avail - 1
           /\ fresh' = TRUE
           /\ UNCHANGED <<state, fill, events>>
  BY <1>1 DEF WasRead, Runs, Together
<1>2. CASE Recover(Playback, bad) /\ UNCHANGED fresh
  BY <1>2, RecoverOutcome
<1>3. CASE Breaks(bad)
  BY <1>3 DEF Breaks, Broke, stream
<1>4. CASE /\ Runs("capture") /\ events' = events \cup {"short"}
           /\ UNCHANGED <<state, fill>>
  BY <1>4 DEF Short, Entered, Runs, Together, Handles, Playback
<1> QED
  BY <1>1, <1>2, <1>3, <1>4 DEF Readn, Together

-------------------------------------------------------------------------------
(* The invariant, one lemma for each part of a run.                        *)

Configured == Opened /\ Linked /\ Drained /\ WorksConfigured

\* A step that leaves the handles together leaves them configured.
LEMMA AfterEntering ==
  ASSUME TypeOK', pc' \in (Playing \ {"prepare"}) \cup {"ended"},
         NEW s \in {"prepared", "running", "xrun", "suspended"}, Entered(s)
  PROVE  Configured'
  BY DEF Configured, Opened, Linked, Drained, WorksConfigured, TypeOK,
         Playing, Opening, Entered, Handles, Playback

LEMMA AfterStaying ==
  ASSUME IInv, TypeOK', UNCHANGED state, events \subseteq events',
         pc \in Playing \ {"prepare"},
         pc' \in (Playing \ {"prepare"}) \cup {"ended"}
  PROVE  Configured'
  BY DEF IInv, Configured, Opened, Linked, Drained, WorksConfigured, TypeOK,
         Playing, Opening, Handles, Playback

LEMMA Gathered ==
  ASSUME IInv, pc \in Playing \ {"prepare"}
  PROVE  Together
<1>1. StreamOK
  BY Types DEF IInv
<1>2. /\ state["capture"] = Playback
      /\ \/ Playback \in {"prepared", "running", "xrun", "suspended"}
         \/ Playback = "setup" /\ "error" \in events
  BY DEF IInv, TypeOK, Linked, Drained, WorksConfigured, Playback, Playing,
         Handles, States
<1> QED
  BY <1>1, <1>2 DEF Together

LEMMA InitInv == Init => IInv
<1> SUFFICES ASSUME Init PROVE IInv
  OBVIOUS
<1>1. TypeOK
  BY InitTypes
<1>2. Opened
  BY DEF Init, Opened, Opening
<1>3. Linked /\ Drained /\ WorksConfigured /\ Balance
  BY DEF Init, Linked, Drained, WorksConfigured, Balance, Playing
<1> QED
  BY <1>1, <1>2, <1>3 DEF IInv

\* Until the link the handles are looked at one by one.
LEMMA OpenKeeps ==
  ASSUME IInv, TypeOK', Open
  PROVE  IInv'
<1> USE DEF IInv, TypeOK, Opened, Linked, Drained, WorksConfigured,
            Opening, Playing, Handles, Playback, stream
<1>1. ASSUME \/ OpenHandle("capture", "open_capture", "setup_capture")
             \/ OpenHandle("playback", "open_playback", "setup_playback")
      PROVE  IInv'
  <2>1. Configured'
    BY <1>1 DEF OpenHandle, Configured
  <2>2. Balance'
    BY <1>1 DEF OpenHandle, Balance
  <2> QED
    BY <2>1, <2>2 DEF Configured
<1>2. ASSUME \/ Configure("capture", "setup_capture", "open_playback")
             \/ Configure("playback", "setup_playback", "link")
      PROVE  IInv'
  <2>1. Configured'
    BY <1>2 DEF Configure, Configured
  <2>2. Balance'
    BY <1>2 DEF Configure, Balance
  <2> QED
    BY <2>1, <2>2 DEF Configured
<1>3. CASE Link
  <2>1. Configured'
    BY <1>3 DEF Link, Configured
  <2>2. Balance'
    BY <1>3 DEF Link, Balance
  <2> QED
    BY <2>1, <2>2 DEF Configured
<1> QED
  BY <1>1, <1>2, <1>3 DEF Open

\* The card: a tick moves a period from one buffer to the other.
LEMMA CardKeeps ==
  ASSUME IInv, TypeOK', Tick \/ Suspend
  PROVE  IInv'
<1>1. UNCHANGED <<pc, fresh, ready, events>>
  BY DEF Tick, Suspend
<1>2. PICK h \in Handles : Runs(h)
  BY DEF Tick, Suspend
<1>3. pc \notin Opening
  BY <1>2 DEF IInv, Opened, Runs
<1>4. \/ \E s \in {"xrun", "suspended"} : Entered(s)
      \/ /\ fill' = IF Runs("playback") THEN fill - 1 ELSE fill
         /\ avail' = IF Runs("capture") /\ avail < Periods + MaxLag
                     THEN avail + 1 ELSE avail
         /\ UNCHANGED state
  BY Entering DEF Tick, Suspend, Entered
<1>5. CASE \E s \in {"xrun", "suspended"} : Entered(s)
  <2>1. Configured'
    BY <1>1, <1>3, <1>5
       DEF IInv, Configured, Opened, Linked, Drained, WorksConfigured,
           TypeOK, Entered, Handles, Playback
  <2>2. Balance'
    <3>1. Playback' \in {"xrun", "suspended"}
      BY <1>5 DEF Entered, Handles, Playback
    <3>2. CASE pc = "preroll1" /\ events = {}
      BY <1>2, <3>2 DEF IInv, Balance, Linked, Playing, Handles, Runs, Playback
    <3>3. CASE ~(pc = "preroll1" /\ events = {})
      BY <1>1, <3>1, <3>3 DEF IInv, Balance
    <3> QED
      BY <3>2, <3>3
  <2> QED
    BY <2>1, <2>2 DEF IInv, Configured
<1>6. CASE /\ fill' = IF Runs("playback") THEN fill - 1 ELSE fill
           /\ avail' = IF Runs("capture") /\ avail < Periods + MaxLag
                       THEN avail + 1 ELSE avail
           /\ UNCHANGED state
  <2>1. Configured'
    BY <1>1, <1>3, <1>6
       DEF IInv, Configured, Opened, Linked, Drained, WorksConfigured,
           TypeOK, Playback
  <2>2. Balance'
    <3> SUFFICES ASSUME events = {}, pc \in Playing PROVE Balance'
      BY <1>1 DEF Balance
    <3>1. Playback = "running" /\ state["capture"] = "running"
      BY <1>2 DEF IInv, Linked, Handles, Runs, Playback
    <3>2. avail' + fill' <= avail + fill
      BY <1>6, <3>1, LagAssumption DEF Runs, IInv, TypeOK, Periods, Playback
    <3>3. InFlight' /\ Playback' = "running"
      BY <1>1, <1>6, <3>1, <3>2, LagAssumption
         DEF IInv, Balance, InFlight, Held, Playback, TypeOK, Periods
    <3> QED
      BY <1>1, <3>1, <3>3 DEF IInv, Balance
  <2> QED
    BY <2>1, <2>2 DEF IInv, Configured
<1> QED
  BY <1>4, <1>5, <1>6

\* The start, also after a pause.
LEMMA PrepareKeeps ==
  ASSUME IInv, TypeOK', StartPrepare
  PROVE  IInv'
<1>1. /\ pc = "prepare" /\ pc' = "preroll1"
      /\ state["capture"] = Playback
      /\ Playback \notin {"closed", "open"}
  BY DEF StartPrepare, IInv, Linked, WorksConfigured, Playing, Playback, Handles
<1>2. CASE Prepare("playback")
  <2>1. Entered("prepared") /\ avail' = 0 /\ fill' = 0
    BY <1>2, Entering DEF Prepare, Group, Handles, Entered
  <2>2. Configured'
    BY <1>1, <2>1, AfterEntering DEF Playing
  <2>3. Balance'
    BY <1>1, <2>1 DEF Balance, Entered, Handles, Playback
  <2> QED
    BY <2>2, <2>3 DEF IInv, Configured
<1>3. CASE events' = events \cup {"error"} /\ UNCHANGED stream
  <2>1. Configured'
    BY <1>1, <1>3 DEF IInv, Configured, Opened, Linked, Drained, TypeOK,
                      WorksConfigured, Playing, Opening, Playback, stream
  <2>2. Balance'
    BY <1>3 DEF Balance
  <2> QED
    BY <2>1, <2>2 DEF IInv, Configured
<1> QED
  BY <1>2, <1>3 DEF StartPrepare

\* What comes of a write or of a read leaves the device configured.
LEMMA OutcomeConfigured ==
  ASSUME IInv, TypeOK', pc \in Playing \ {"prepare"},
         pc' \in Playing \ {"prepare"},
         Wrote \/ WasRead \/ Short \/ Recovered \/ Broke
  PROVE  Configured'
<1>1. CASE Entered("running") \/ Entered("prepared")
  BY <1>1, AfterEntering
<1>2. CASE UNCHANGED state /\ events \subseteq events'
  BY <1>2, AfterStaying
<1> QED
  BY <1>1, <1>2 DEF Wrote, WasRead, Short, Recovered, Broke

\* From the balance to that after a write of the pre-roll.
LEMMA PrerollKeeps ==
  ASSUME IInv, TypeOK',
         \/ Preroll("preroll1", "preroll2")
         \/ Preroll("preroll2", "test")
  PROVE  IInv'
<1>1. /\ pc \in {"preroll1", "preroll2"}
      /\ pc' = IF pc = "preroll1" THEN "preroll2" ELSE "test"
  BY DEF Preroll
<1>2. Together
  BY <1>1, Gathered DEF Playing
<1>3. \/ Wrote \/ Short
      \/ Recovered /\ UNCHANGED fresh
      \/ Broke
  BY <1>2, WritenOutcome DEF Preroll
<1>4. Configured'
  BY <1>1, <1>3, OutcomeConfigured DEF Playing
<1>5. Balance'
  <2>1. CASE Wrote
    BY <1>1, <2>1
       DEF IInv, Balance, InFlight, Held, Wrote, Entered, Playback, Handles,
           TypeOK, Periods, Playing
  <2>2. CASE Recovered
    BY <1>1, <2>2 DEF Balance, Recovered, Entered, Playback, Handles
  <2>3. CASE Short \/ Broke
    BY <2>3 DEF Balance, Short, Broke
  <2> QED
    BY <1>3, <2>1, <2>2, <2>3
<1> QED
  BY <1>4, <1>5 DEF IInv, Configured

LEMMA ReadKeeps ==
  ASSUME IInv, TypeOK', Read
  PROVE  IInv'
<1>1. pc = "read" /\ pc' = "write" /\ UNCHANGED ready
  BY DEF Read
<1>2. Together
  BY <1>1, Gathered DEF Playing
<1>3. CASE "capture" \in ready
  <2>1. WasRead \/ Short \/ Recovered \/ Broke
    BY <1>2, <1>3, ReadnOutcome DEF Read
  <2>2. Configured'
    BY <1>1, <2>1, OutcomeConfigured DEF Playing
  <2>3. Balance'
    <3>1. CASE WasRead
      BY <1>1, <1>3, <3>1
         DEF IInv, Balance, InFlight, Held, WasRead, Playback, TypeOK,
             Periods, Playing
    <3>2. CASE Recovered
      BY <1>1, <3>2 DEF Balance, Recovered, Entered, Playback, Handles
    <3>3. CASE Short \/ Broke
      BY <3>3 DEF Balance, Short, Broke
    <3> QED
      BY <2>1, <3>1, <3>2, <3>3
  <2> QED
    BY <2>2, <2>3 DEF IInv, Configured
<1>4. CASE "capture" \notin ready
  <2>1. UNCHANGED <<state, avail, fill, fresh, events>>
    BY <1>4 DEF Read, stream
  <2>2. Configured'
    BY <1>1, <2>1, AfterStaying DEF Playing
  <2>3. Balance'
    BY <1>1, <1>4, <2>1
       DEF IInv, Balance, InFlight, Held, Playback, Playing
  <2> QED
    BY <2>2, <2>3 DEF IInv, Configured
<1> QED
  BY <1>3, <1>4

LEMMA WriteKeeps ==
  ASSUME IInv, TypeOK', WriteBack
  PROVE  IInv'
<1>1. pc = "write" /\ pc' = "pause" /\ ready' = {}
  BY DEF WriteBack
<1>2. Together
  BY <1>1, Gathered DEF Playing
<1>3. CASE "playback" \in ready
  <2>1. \/ Wrote \/ Short
        \/ Recovered /\ UNCHANGED fresh
        \/ Broke
    BY <1>2, <1>3, WritenOutcome DEF WriteBack
  <2>2. Configured'
    BY <1>1, <2>1, OutcomeConfigured DEF Playing
  <2>3. Balance'
    <3>1. CASE Wrote
      BY <1>1, <1>3, <3>1
         DEF IInv, Balance, InFlight, Held, Wrote, Entered, Playback, Handles,
             TypeOK, Periods, Playing
    <3>2. CASE Recovered
      BY <1>1, <3>2 DEF Balance, Recovered, Entered, Playback, Handles
    <3>3. CASE Short \/ Broke
      BY <3>3 DEF Balance, Short, Broke
    <3> QED
      BY <2>1, <3>1, <3>2, <3>3
  <2> QED
    BY <2>2, <2>3 DEF IInv, Configured
<1>4. CASE "playback" \notin ready
  <2>1. UNCHANGED <<state, avail, fill, fresh, events>>
    BY <1>4 DEF WriteBack, stream
  <2>2. Configured'
    BY <1>1, <2>1, AfterStaying DEF Playing
  <2>3. Balance'
    BY <1>1, <1>4, <2>1
       DEF IInv, Balance, InFlight, Held, Playback, Playing
  <2> QED
    BY <2>2, <2>3 DEF IInv, Configured
<1> QED
  BY <1>3, <1>4

\* Looking at the loops and at what is ready, and the pause.
LEMMA LoopKeeps ==
  ASSUME IInv, TypeOK', Test \/ Select \/ Pause
  PROVE  IInv'
<1>1. CASE Test
  <2>1. Configured'
    BY <1>1, AfterStaying DEF Test, stream, Playing
  <2>2. Balance'
    BY <1>1 DEF Test, stream, IInv, Balance, InFlight, Held, Playback, Playing
  <2> QED
    BY <2>1, <2>2 DEF IInv, Configured
<1>2. CASE Select
  <2>1. Configured'
    BY <1>2, AfterStaying DEF Select, stream, Playing
  <2>2. CASE /\ ready' = {h \in Handles : Ready(h)}
             /\ pc' = "read" /\ UNCHANGED events
    <3>1. Together
      BY <1>2, Gathered DEF Select, Playing
    <3>2. /\ "capture" \in ready' <=> Ready("capture")
          /\ "playback" \in ready' <=> Ready("playback")
      BY <2>2 DEF Handles
    <3>3. Balance'
      BY <1>2, <2>2, <3>1, <3>2
         DEF Select, stream, IInv, Balance, InFlight, Held, Playback, Playing,
             Ready, Runs, Together, TypeOK, Periods
    <3> QED
      BY <2>1, <3>3 DEF IInv, Configured
  <2>3. CASE events' = events \cup {"error"}
    BY <2>1, <2>3 DEF IInv, Configured, Balance
  <2> QED
    BY <1>2, <2>2, <2>3 DEF Select
<1>3. CASE Pause
  <2>1. CASE state' = Enter("playback", "setup") /\ pc' = "prepare"
    <3>1. Entered("setup")
      BY <2>1, Entering DEF Entered
    <3>2. Configured'
      BY <2>1, <3>1 DEF Configured, Opened, Linked, Drained, WorksConfigured,
                        Entered, Handles, Playback, Opening, Playing
    <3>3. Balance'
      BY <2>1, <3>1 DEF Balance, Entered, Handles, Playback
    <3> QED
      BY <3>2, <3>3 DEF IInv, Configured
  <2>2. CASE /\ pc' = "prepare"
             /\ events' = events \cup {"error"} /\ UNCHANGED state
    <3>1. Configured'
      BY <1>3, <2>2 DEF Pause, IInv, Configured, Opened, Linked, Drained,
                        WorksConfigured, Playback, Opening, Playing
    <3>2. Balance'
      BY <2>2 DEF Balance
    <3> QED
      BY <3>1, <3>2 DEF IInv, Configured
  <2>3. CASE pc' = "test" /\ UNCHANGED <<state, events>>
    <3>1. Configured'
      BY <1>3, <2>3, AfterStaying DEF Pause, Playing
    <3>2. Balance'
      BY <1>3, <2>3 DEF Pause, IInv, Balance, InFlight, Held, Playback, Playing
    <3> QED
      BY <3>1, <3>2 DEF IInv, Configured
  <2> QED
    BY <1>3, <2>1, <2>2, <2>3 DEF Pause, Drain
<1> QED
  BY <1>1, <1>2, <1>3

LEMMA StutterKeeps ==
  ASSUME IInv, UNCHANGED vars
  PROVE  IInv'
  BY DEF vars, stream, loop, IInv, TypeOK, Opened, Linked, Drained,
         WorksConfigured, Balance, InFlight, Held, Playback

\* The invariant that the results below rest on.
THEOREM Inductive == Spec => []IInv
<1>1. IInv /\ [Next]_vars => IInv'
  <2> SUFFICES ASSUME IInv, [Next]_vars PROVE IInv'
    OBVIOUS
  <2>1. TypeOK'
    BY TypesKept DEF IInv
  <2> QED
    BY <2>1, OpenKeeps, CardKeeps, PrepareKeeps, PrerollKeeps, ReadKeeps,
       WriteKeeps, LoopKeeps, StutterKeeps DEF Next, Runner, Start
<1> QED
  BY InitInv, <1>1, PTL DEF Spec

-------------------------------------------------------------------------------

\* No buffer ever holds more than its periods and the lag, and no countdown
\* wraps (alsa-device.c:515-525), for any number of loops and pauses.
THEOREM Typing == Spec => []TypeOK
  BY Inductive, PTL DEF IInv

\* The runner works on handles that both went through their set-up, although
\* the error of the first is lost (alsa-device.c:242-259).
THEOREM WorksOnConfiguredHandles == Spec => []WorksConfigured
  BY Inductive, PTL DEF IInv

\* Up to the first call that fails, comes back short or is resumed after a
\* suspend, each select that finds a captured period finds room for it: none is
\* overwritten (alsa-audio-runner-poll.c:93-105).
THEOREM NoPeriodIsLost == Spec => []NoPeriodLost
<1>1. IInv => NoPeriodLost
  BY DEF IInv, Linked, Balance, InFlight, NoPeriodLost, Playing, Playback, Runs
<1> QED
  BY Inductive, <1>1, PTL

\* A write recovers the device by way of the other handle, and neither an xrun
\* nor a suspend ends the loop (alsa-device.c:366).
THEOREM RunnerSurvivesXruns == Spec => XrunsSurvived
<1> DEFINE Survived ==
      pc = "write" /\ pc' = "pause" /\ "playback" \in ready
        => IF failed' THEN "error" \in events'
           ELSE state'["playback"] \in {"prepared", "running"}
<1>1. IInv /\ [Next]_vars => [Survived]_vars
  <2> SUFFICES ASSUME IInv, Next, pc = "write", pc' = "pause",
                      "playback" \in ready
               PROVE  Survived
    OBVIOUS
  <2>1. WriteBack
    BY DEF Next, Runner, Open, OpenHandle, Configure, Link, Start,
           StartPrepare, Preroll, Test, Select, Read, Pause, Tick, Suspend
  <2>2. Together
    BY Gathered DEF Playing
  <2>3. PICK bad \in BOOLEAN : Writen(bad) /\ failed' = bad
    BY <2>1 DEF WriteBack
  <2>4. CASE (Wrote \/ Short \/ Recovered) /\ ~bad
    BY <2>3, <2>4 DEF Wrote, Short, Recovered, Entered, Handles
  <2>5. CASE Broke /\ bad
    BY <2>3, <2>5 DEF Broke
  <2> QED
    BY <2>2, <2>3, <2>4, <2>5, WritenOutcome
<1> QED
  BY Inductive, <1>1, PTL DEF Spec, XrunsSurvived

-------------------------------------------------------------------------------
(* The contract of the runner.  Its device is closed until the link, then  *)
(* ready; the link opens it, an end of the program before that included.   *)

Before == pc \in Opening \cup {"crashed"}

LEMMA SeenBefore ==
  ASSUME Before
  PROVE  Device = "closed" /\ Thread = "none"
  BY DEF Before, Device, Thread, Opening, Playing

\* What main sees once the device is open, now and after a step.
LEMMA SeenPlaying ==
  ASSUME WorksConfigured, pc \in Playing \cup {"ended"}
  PROVE  /\ Device = "ready"
         /\ Thread = IF pc = "ended" THEN "ended" ELSE "running"
  BY DEF WorksConfigured, Device, Thread, Opening, Playing

LEMMA SeenNext ==
  ASSUME WorksConfigured', pc' \in Playing \cup {"ended"}
  PROVE  /\ Device' = "ready"
         /\ Thread' = IF pc' = "ended" THEN "ended" ELSE "running"
  BY DEF WorksConfigured, Device, Thread, Opening, Playing

\* The set-up and the link.
LEMMA OpeningKeepsContract ==
  ASSUME IInv, IInv', Open
  PROVE  [Contract!Next]_(Contract!vars)
<1>1. Before /\ UNCHANGED loops
  BY DEF Open, OpenHandle, Configure, Link, Before, Opening, loop
<1>2. CASE pc' \in Opening \cup {"crashed"}
  <2>1. Device' = "closed" /\ Thread' = "none"
    BY <1>2 DEF Device, Thread, Opening, Playing
  <2> QED
    BY <1>1, <2>1, SeenBefore DEF Contract!vars
<1>3. CASE Link /\ pc' = "prepare"
  <2>1. Device' = "ready" /\ Thread' = "running"
    BY <1>3, SeenNext DEF IInv, Playing
  <2>2. <<"ready", "ok">> \in Contract!Opened("audio")
    BY DEF Contract!Opened
  <2>3. Contract!Open
    BY <1>1, <2>1, <2>2, SeenBefore DEF Contract!Open
  <2> QED
    BY <2>3 DEF Contract!Next
<1> QED
  BY <1>2, <1>3 DEF Open, OpenHandle, Configure, Link, Opening

\* The only step that counts, and the only one that ends the runner.
LEMMA TestKeepsContract ==
  ASSUME IInv, IInv', Test
  PROVE  [Contract!Next]_(Contract!vars)
<1>1. Device = "ready" /\ Thread = "running" /\ Device' = "ready"
  BY SeenPlaying, SeenNext DEF IInv, Test, Playing
<1>2. loops \in Nat /\ loops <= Loops
  BY LoopsAssumption DEF IInv, TypeOK
<1>3. CASE loops > 0 /\ ~failed
  <2>1. Thread' = "running" /\ loops' = loops - 1
    BY <1>3 DEF Test, Count, Thread, Playing
  <2> QED
    BY <1>1, <1>3, <2>1 DEF Contract!Turn, Contract!Next
<1>4. CASE loops > 0 /\ failed
  <2>1. Thread' = "ended" /\ loops' = loops - 1
    BY <1>4 DEF Test, Count, Thread, Playing
  <2>2. loops' < Loops
    BY <1>2, <2>1, LoopsAssumption
  <2> QED
    BY <1>1, <1>4, <2>1, <2>2 DEF Contract!End, Contract!Next
<1>5. CASE loops = 0
  <2>1. Thread' = "ended" /\ loops' = loops
    BY <1>5 DEF Test, Thread, Playing
  <2> QED
    BY <1>1, <1>5, <2>1 DEF Contract!End, Contract!Next
<1> QED
  BY <1>2, <1>3, <1>4, <1>5

\* What neither opens nor counts is not seen by main.
LEMMA RestIsUnseen ==
  ASSUME IInv, IInv', UNCHANGED loops,
         \/ pc \in Playing /\ pc' \in Playing
         \/ pc' = pc /\ pc \in Playing \cup {"ended"}
         \/ pc' = pc /\ Before
  PROVE  UNCHANGED Contract!vars
<1>1. CASE Before /\ pc' = pc
  <2>1. Device' = "closed" /\ Thread' = "none"
    BY <1>1 DEF Before, Device, Thread, Opening, Playing
  <2> QED
    BY <1>1, <2>1, SeenBefore DEF Contract!vars
<1>2. CASE pc \in Playing \cup {"ended"}
  <2>1. pc' \in Playing \cup {"ended"} /\ (pc' = "ended" <=> pc = "ended")
    BY <1>2 DEF Playing, Before, Opening
  <2> QED
    BY <1>2, <2>1, SeenPlaying, SeenNext DEF IInv, Contract!vars
<1> QED
  BY <1>1, <1>2

\* Whatever the card does and whichever calls fail, the runner goes round its
\* loop at most nb_loops times over a device that is ready, and ends before that
\* only when a transfer failed (main.c 104-124, alsa-audio-runner-poll.c 71-125).
THEOREM RunnerKeepsContract == Spec => KeepsContract
<1>1. Init => Contract!Init
  BY DEF Init, Contract!Init, Device, Thread, Opening, Playing
<1>2. IInv /\ IInv' /\ [Next]_vars => [Contract!Next]_(Contract!vars)
  <2> SUFFICES ASSUME IInv, IInv', [Next]_vars
               PROVE  [Contract!Next]_(Contract!vars)
    OBVIOUS
  <2>1. CASE Start \/ Select \/ Read \/ WriteBack \/ Pause
    <3>1. pc \in Playing /\ pc' \in Playing /\ UNCHANGED loops
      BY <2>1 DEF Start, StartPrepare, Preroll, Select, Read, WriteBack, Pause,
                  loop, Playing
    <3> QED
      BY <3>1, RestIsUnseen
  <2>2. CASE Tick \/ Suspend \/ UNCHANGED vars
    <3>1. pc' = pc /\ UNCHANGED loops
      BY <2>2 DEF Tick, Suspend, vars, loop
    <3>2. Before \/ pc \in Playing \cup {"ended"}
      BY DEF IInv, TypeOK, Before
    <3> QED
      BY <3>1, <3>2, RestIsUnseen
  <2> QED
    BY <2>1, <2>2, OpeningKeepsContract, TestKeepsContract DEF Next, Runner
<1> QED
  BY Inductive, <1>1, <1>2, PTL DEF Spec, KeepsContract, Contract!Spec

-------------------------------------------------------------------------------
(* The runner runs out of calls.                                           *)

\* Where it is in the set-up, in a turn of the loop or in a pause.
Place == [open_capture   |-> 9, setup_capture  |-> 8, open_playback |-> 7,
          setup_playback |-> 6, link |-> 5,
          select |-> 8, read |-> 7, write |-> 6, pause |-> 5,
          prepare |-> 4, preroll1 |-> 3, preroll2 |-> 2, test |-> 1,
          ended |-> 0, crashed |-> 0]

\* The steps it can still make: eight for each turn, with its pause.
StepsLeft == 8 * loops + Place[pc]

\* Each step of the runner leaves fewer, and the card leaves them as they are.
StepsRunOut ==
  [][/\ Runner => StepsLeft' \in 0..StepsLeft - 1
     /\ Tick \/ Suspend => StepsLeft' = StepsLeft]_vars

\* Whatever fails, is recovered or paused, the runner makes at most eight steps
\* for each loop and nine more (alsa-audio-runner-poll.c:44-159): only a select
\* or a write that blocks could keep it from its end.
THEOREM RunnerRunsOut == Spec => StepsRunOut
<1>1. IInv /\ IInv' /\ Next =>
        /\ Runner => StepsLeft' \in 0..StepsLeft - 1
        /\ Tick \/ Suspend => StepsLeft' = StepsLeft
  <2> SUFFICES ASSUME IInv, IInv', Next
               PROVE  /\ Runner => StepsLeft' \in 0..StepsLeft - 1
                      /\ Tick \/ Suspend => StepsLeft' = StepsLeft
    OBVIOUS
  <2>1. loops \in Nat /\ loops' \in Nat
    BY LoopsAssumption DEF IInv, TypeOK
  <2>2. Place[pc] \in 0..9 /\ Place[pc'] \in 0..9
    BY DEF IInv, TypeOK, Place, Opening, Playing
  <2>3. ASSUME Open \/ Start \/ Select \/ Read \/ WriteBack \/ Pause
        PROVE  loops' = loops /\ Place[pc'] < Place[pc]
    BY <2>3 DEF Open, OpenHandle, Configure, Link, Start, StartPrepare, Preroll,
                Select, Read, WriteBack, Pause, loop, Place
  <2>4. ASSUME Test
        PROVE  \/ loops' = loops - 1 /\ Place[pc] = 1 /\ Place[pc'] <= 8
               \/ loops' = loops /\ Place[pc] = 1 /\ Place[pc'] = 0
    BY <2>4 DEF Test, Count, Place
  <2>5. ASSUME Tick \/ Suspend PROVE StepsLeft' = StepsLeft
    BY <2>5 DEF Tick, Suspend, StepsLeft, loop
  <2>6. ASSUME Runner PROVE StepsLeft' \in 0..StepsLeft - 1
    BY <2>1, <2>2, <2>3, <2>4, <2>6 DEF Runner, StepsLeft
  <2> QED
    BY <2>5, <2>6
<1> QED
  BY Inductive, <1>1, PTL DEF Spec, StepsRunOut

=============================================================================
