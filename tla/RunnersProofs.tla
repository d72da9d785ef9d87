---------------------------- MODULE RunnersProofs ----------------------------
(***************************************************************************)
(* What holds of the runners for every number of loops and every choice on *)
(* the command line.                                                       *)
(***************************************************************************)
EXTENDS Runners, TLAPS

\* A handle is valid exactly when pthread_create made a thread.
HandlesMatch == \A r \in Runner : thread[r] = "none" <=> handle[r] # "valid"

\* Only the end of the process kills threads.
NoneKilled == pc \in {"init", "join"} => \A r \in Runner : thread[r] # "killed"

\* The runners main has not come to yet.
Ahead == IF pc = "init" THEN {InitOrder[i] : i \in next..Len(InitOrder)} ELSE {}

InitInOrder ==
  /\ pc = "init" => next \in 1..Len(InitOrder)
  /\ \A r \in Ahead : thread[r] = "none"

\* The code main holds tells whether all runners so far were started.
RetTells ==
  pc # "crashed" =>
    IF ret = "ok" THEN \A r \in wanted \ Ahead : thread[r] # "none"
                  ELSE \E r \in wanted \ Ahead : thread[r] = "none"

\* The runners main has passed have ended.
JoinInOrder ==
  pc = "join" =>
    \A i \in 1..Len(JoinOrder) : i < next => thread[JoinOrder[i]] \in {"none", "ended"}

IInv ==
  /\ TypeOK
  /\ HandlesMatch
  /\ NoneKilled
  /\ InitInOrder
  /\ RetTells
  /\ JoinInOrder
  /\ ExitAfterRunners

\* The two orders, element by element.
LEMMA Orders ==
  /\ Len(InitOrder) = 5 /\ Len(JoinOrder) = 4
  /\ InitOrder[1] = "rack" /\ InitOrder[2] = "audio" /\ InitOrder[3] = "gpio"
  /\ InitOrder[4] = "uart" /\ InitOrder[5] = "stm32"
  /\ JoinOrder[1] = "audio" /\ JoinOrder[2] = "gpio"
  /\ JoinOrder[3] = "rack" /\ JoinOrder[4] = "stm32"
  BY DEF InitOrder, JoinOrder

\* Each runner is initialised once.
LEMMA InitOnce ==
  /\ \A i, j \in 1..5 : i # j => InitOrder[i] # InitOrder[j]
  /\ Runner = {InitOrder[i] : i \in 1..5}
  <1>1. \A i \in 1..5 : i = 1 \/ i = 2 \/ i = 3 \/ i = 4 \/ i = 5
    OBVIOUS
  <1> QED BY <1>1, Orders DEF Runner

LEMMA JoinedRunners ==
  Joined = {JoinOrder[i] : i \in 1..4} /\ Joined \subseteq Runner
  <1>1. \A i \in 1..4 : i = 1 \/ i = 2 \/ i = 3 \/ i = 4
    OBVIOUS
  <1> QED BY <1>1, Orders DEF Runner, Joined

LEMMA InitIInv == Init => IInv
  <1> SUFFICES ASSUME Init PROVE IInv
    OBVIOUS
  <1>1. TypeOK
    BY LoopsAssumption, Orders DEF Init, TypeOK
  <1>2. Ahead = Runner
    BY Orders, InitOnce DEF Init, Ahead
  <1> QED BY <1>1, <1>2, Orders
      DEF Init, IInv, HandlesMatch, NoneKilled, InitInOrder, RetTells, JoinInOrder,
          ExitAfterRunners

\* An initialisation moves one runner from Ahead to its place.
LEMMA InitRunnerKeeps == IInv /\ InitRunner => IInv'
  <1> SUFFICES ASSUME IInv, InitRunner PROVE IInv'
    OBVIOUS
  <1> DEFINE r == InitOrder[next]
  <1> USE Orders
  <1>1. next \in 1..5 /\ pc = "init" /\ r \in Runner
    BY InitOnce DEF IInv, InitInOrder, InitRunner
  <1>2. r \in Ahead /\ thread[r] = "none" /\ handle[r] # "valid"
    BY <1>1 DEF IInv, Ahead, InitInOrder, HandlesMatch
  <1>3. Ahead' = Ahead \ {r}
    <2>1. CASE next < 5
      BY <1>1, <2>1, InitOnce DEF InitRunner, Ahead
    <2>2. CASE next = 5
      BY <1>1, <2>2 DEF InitRunner, Ahead
    <2> QED BY <1>1, <2>1, <2>2
  <1>4. \/ /\ Due(r)
           /\ thread' = [thread EXCEPT ![r] = "running"]
           /\ handle' = [handle EXCEPT ![r] = "valid"]
           /\ ret' = "ok"
        \/ /\ Due(r)
           /\ \E h \in {"zero", "stale"} : handle' \in {handle, [handle EXCEPT ![r] = h]}
           /\ UNCHANGED thread
           /\ ret' = "failed"
        \/ ~Due(r) /\ UNCHANGED <<handle, thread, ret>>
    BY DEF InitRunner, Open, Create
  <1>5. device' \in [Runner -> {"closed", "half", "ready"}]
    <2>1. \A o \in Opened(r) : o[1] \in {"closed", "half", "ready"}
      BY DEF Opened
    <2> QED BY <2>1 DEF IInv, TypeOK, InitRunner, Open
  <1>6. TypeOK'
    BY <1>1, <1>4, <1>5 DEF IInv, TypeOK, InitRunner
  <1>7. HandlesMatch' /\ NoneKilled' /\ JoinInOrder' /\ ExitAfterRunners'
    BY <1>1, <1>2, <1>4 DEF IInv, TypeOK, HandlesMatch, NoneKilled, JoinInOrder,
       ExitAfterRunners, InitRunner
  <1>8. InitInOrder'
    BY <1>1, <1>3, <1>4, InitOnce DEF IInv, TypeOK, InitInOrder, InitRunner, Ahead
  <1>9. RetTells'
    BY <1>1, <1>2, <1>3, <1>4 DEF IInv, TypeOK, RetTells, InitRunner, Due
  <1> QED BY <1>6, <1>7, <1>8, <1>9 DEF IInv

LEMMA JoinKeeps == IInv /\ Join => IInv'
  <1> SUFFICES ASSUME IInv, Join PROVE IInv'
    OBVIOUS
  <1> USE Orders
  <1>1. next \in 1..4 /\ JoinOrder[next] \in Runner
    BY JoinedRunners DEF IInv, TypeOK, Join
  <1>2. thread[JoinOrder[next]] \in {"none", "ended"}
    BY <1>1 DEF IInv, HandlesMatch, Join, MayPass
  <1>3. JoinInOrder'
    BY <1>1, <1>2 DEF IInv, JoinInOrder, Join
  <1>4. TypeOK'
    BY <1>1 DEF IInv, TypeOK, Join
  <1>5. Ahead' = Ahead
    BY DEF Join, Ahead
  <1> QED BY <1>3, <1>4, <1>5 DEF IInv, HandlesMatch, NoneKilled, InitInOrder, RetTells,
             ExitAfterRunners, Join

\* The end of the process changes no thread that main waited for.
LEMMA EndKeeps == IInv /\ (AssertFails \/ JoinCrashes \/ Exit) => IInv'
  <1> SUFFICES ASSUME IInv, AssertFails \/ JoinCrashes \/ Exit PROVE IInv'
    OBVIOUS
  <1> USE Orders
  <1>1. thread' = Killed /\ pc' \in {"crashed", "exited"}
        /\ UNCHANGED <<wanted, next, ret, handle, device, left>>
    BY DEF AssertFails, JoinCrashes, Exit
  <1>2. \A r \in Runner : /\ thread'[r] \in {"none", "ended", "killed"}
                          /\ thread'[r] = "none" <=> thread[r] = "none"
                          /\ thread[r] = "ended" => thread'[r] = "ended"
    BY <1>1 DEF Killed, IInv, TypeOK
  <1>3. TypeOK'
    BY <1>1 DEF IInv, TypeOK, Killed
  <1>4. ExitAfterRunners'
    <2>1. CASE Exit
      <3>1. \A i \in 1..4 : thread[JoinOrder[i]] \in {"none", "ended"}
        BY <2>1 DEF Exit, IInv, TypeOK, JoinInOrder
      <3>2. \A r \in Joined : thread[r] \in {"none", "ended"}
        BY <3>1, JoinedRunners
      <3> QED BY <1>2, <3>2, JoinedRunners DEF ExitAfterRunners
    <2>2. CASE AssertFails \/ JoinCrashes
      BY <2>2 DEF AssertFails, JoinCrashes, ExitAfterRunners
    <2> QED BY <2>1, <2>2
  <1>5. wanted \subseteq Runner
    BY DEF IInv, TypeOK
  <1>6. RetTells'
    <2>1. CASE Exit
      BY <1>1, <1>2, <1>5, <2>1 DEF Exit, IInv, RetTells, Ahead
    <2>2. CASE AssertFails \/ JoinCrashes
      BY <2>2 DEF AssertFails, JoinCrashes, RetTells
    <2> QED BY <2>1, <2>2
  <1> QED BY <1>1, <1>2, <1>3, <1>4, <1>6
      DEF IInv, HandlesMatch, NoneKilled, InitInOrder, JoinInOrder, Ahead

LEMMA RunKeeps == IInv /\ (\E r \in Runner : Run(r)) => IInv'
  <1> SUFFICES ASSUME IInv, NEW r \in Runner, Run(r) PROVE IInv'
    OBVIOUS
  <1> USE Orders
  <1>1. UNCHANGED <<wanted, pc, next, ret, handle>> /\ thread[r] = "running"
    BY DEF Run, Iterate, Ends
  <1>2. thread' \in {thread, [thread EXCEPT ![r] = "ended"]}
    BY DEF Run, Iterate, Ends
  <1>3. TypeOK'
    <2>1. left' \in [Runner -> 0..Loops]
      BY LoopsAssumption DEF IInv, TypeOK, Run, Iterate, Ends
    <2>2. device' \in [Runner -> {"closed", "half", "ready"}]
      BY DEF IInv, TypeOK, Run, Iterate, Ends
    <2> QED BY <1>1, <1>2, <2>1, <2>2 DEF IInv, TypeOK
  <1>4. \A q \in Runner : /\ thread'[q] = "none" <=> thread[q] = "none"
                          /\ thread'[q] = "killed" => thread[q] = "killed"
                          /\ thread[q] = "ended" => thread'[q] = "ended"
    BY <1>1, <1>2 DEF IInv, TypeOK
  <1>5. wanted \subseteq Runner /\ Ahead' = Ahead /\ Ahead \subseteq Runner
    BY <1>1, InitOnce DEF IInv, TypeOK, InitInOrder, Ahead
  <1>6. JoinInOrder'
    <2>1. \A i \in 1..4 : JoinOrder[i] \in Runner
      BY JoinedRunners
    <2> QED BY <1>1, <1>2, <2>1 DEF IInv, TypeOK, JoinInOrder
  <1>7. ExitAfterRunners'
    BY <1>1, <1>2, JoinedRunners DEF IInv, TypeOK, ExitAfterRunners
  <1>8. HandlesMatch' /\ NoneKilled' /\ InitInOrder' /\ RetTells'
    BY <1>1, <1>4, <1>5 DEF IInv, HandlesMatch, NoneKilled, InitInOrder, RetTells
  <1> QED BY <1>3, <1>6, <1>7, <1>8 DEF IInv

LEMMA NextIInv == IInv /\ [Next]_vars => IInv'
  <1>1. IInv /\ UNCHANGED vars => IInv'
    BY DEF vars, IInv, TypeOK, HandlesMatch, NoneKilled, InitInOrder, Ahead, RetTells,
           JoinInOrder, ExitAfterRunners
  <1> QED BY <1>1, InitRunnerKeeps, JoinKeeps, EndKeeps, RunKeeps DEF Next

\* The strengthening of the results below.
THEOREM Inductive == Spec => []IInv
  BY InitIInv, NextIInv, PTL DEF Spec

\* Every variable stays within its type: in particular no loop counter goes
\* below 0 and main's indices stay within its lists.
THEOREM Typing == Spec => []TypeOK
  <1>1. IInv => TypeOK
    BY DEF IInv
  <1> QED BY Inductive, <1>1, PTL

\* main (124-142, 156) returns only after every runner it joins has ended.
THEOREM RunnersEndFirst == Spec => []ExitAfterRunners
  <1>1. IInv => ExitAfterRunners
    BY DEF IInv
  <1> QED BY Inductive, <1>1, PTL

\* The exit code of main (97-120, 156) is 0 exactly when every runner asked for
\* has been started.
THEOREM ExitCodeIsHonest == Spec => []ExitCodeTellsStart
  <1>1. IInv => ExitCodeTellsStart
    BY DEF IInv, TypeOK, RetTells, Ahead, ExitCodeTellsStart
  <1> QED BY Inductive, <1>1, PTL

-------------------------------------------------------------------------------
(* The devices of the runners.                                             *)

\* The runners that do not look at their device were only created over one that
\* had been opened, and the device is closed by nobody but its runner.
OpenWhileRunning ==
  \A r \in {"audio", "uart", "stm32"} : thread[r] = "running" => device[r] # "closed"

LEMMA InitRunnerOpens == IInv /\ OpenWhileRunning /\ InitRunner => OpenWhileRunning'
  <1> SUFFICES ASSUME IInv, OpenWhileRunning, InitRunner,
                      NEW q \in {"audio", "uart", "stm32"}, thread'[q] = "running"
               PROVE  device'[q] # "closed"
    BY DEF OpenWhileRunning
  <1> DEFINE r == InitOrder[next]
  <1> USE Orders
  <1>1. next \in 1..5 /\ r \in Runner /\ q \in Runner
    BY InitOnce DEF IInv, InitInOrder, InitRunner, Runner
  <1>2. thread \in [Runner -> {"none", "running", "ended", "killed"}]
        /\ device \in [Runner -> {"closed", "half", "ready"}]
    BY DEF IInv, TypeOK
  <1>3. CASE ~Due(r)
    BY <1>3 DEF InitRunner, OpenWhileRunning
  <1>4. CASE Open(r)
    <2>1. PICK o \in Opened(r) :
            /\ device' = [device EXCEPT ![r] = o[1]]
            /\ IF o[2] = "ok" THEN Create(r)
                              ELSE ret' = "failed" /\ UNCHANGED <<handle, thread>>
      BY <1>4 DEF Open
    <2>2. CASE q # r
      <3>1. thread'[q] = thread[q] /\ device'[q] = device[q]
        BY <1>1, <1>2, <2>1, <2>2 DEF Create
      <3> QED BY <3>1 DEF OpenWhileRunning
    <2>3. CASE q = r
      <3>1. thread[q] = "none"
        BY <1>1, <2>3 DEF IInv, InitInOrder, Ahead, InitRunner
      <3>2. o[2] = "ok"
        BY <2>1, <3>1
      <3>3. o[1] # "closed"
        BY <2>1, <2>3, <3>2 DEF Opened
      <3> QED BY <1>1, <1>2, <2>1, <2>3, <3>3
    <2> QED BY <2>2, <2>3
  <1> QED BY <1>3, <1>4 DEF InitRunner

LEMMA RunKeepsOpen ==
  ASSUME IInv, OpenWhileRunning, NEW r \in Runner, Run(r)
  PROVE  OpenWhileRunning'
  <1>1. \A q \in Runner : thread'[q] = "running" => thread[q] = "running" /\ device'[q] = device[q]
    BY DEF Run, Iterate, Ends, IInv, TypeOK
  <1> QED BY <1>1 DEF OpenWhileRunning, Runner

LEMMA NextOpenWhileRunning == IInv /\ OpenWhileRunning /\ [Next]_vars => OpenWhileRunning'
  <1> SUFFICES ASSUME IInv, OpenWhileRunning, [Next]_vars PROVE OpenWhileRunning'
    OBVIOUS
  <1>1. CASE AssertFails \/ JoinCrashes \/ Exit
    BY <1>1 DEF AssertFails, JoinCrashes, Exit, Killed, OpenWhileRunning, Runner
  <1>2. CASE Join
    BY <1>2 DEF Join, OpenWhileRunning
  <1>3. CASE UNCHANGED vars
    BY <1>3 DEF vars, OpenWhileRunning
  <1> QED BY <1>1, <1>2, <1>3, InitRunnerOpens, RunKeepsOpen DEF Next

-------------------------------------------------------------------------------
(* The contracts of the runners.                                           *)

\* The devices of the runners main has not come to yet are as they were.
ClosedAhead == \A r \in Ahead : device[r] = "closed"

LEMMA AheadShrinks ==
  ASSUME IInv, InitRunner
  PROVE  /\ InitOrder[next] \in Runner /\ InitOrder[next] \in Ahead
         /\ Ahead' = Ahead \ {InitOrder[next]}
  <1> USE Orders
  <1>1. next \in 1..5 /\ pc = "init" /\ InitOrder[next] \in Runner
    BY InitOnce DEF IInv, InitInOrder, InitRunner
  <1>2. CASE next < 5
    BY <1>1, <1>2, InitOnce DEF InitRunner, Ahead
  <1>3. CASE next = 5
    BY <1>1, <1>3 DEF InitRunner, Ahead
  <1> QED BY <1>1, <1>2, <1>3

LEMMA AheadRunners == IInv => Ahead \subseteq Runner
  BY InitOnce, Orders DEF IInv, InitInOrder, Ahead

LEMMA NextClosedAhead == IInv /\ ClosedAhead /\ [Next]_vars => ClosedAhead'
  <1> SUFFICES ASSUME IInv, ClosedAhead, [Next]_vars PROVE ClosedAhead'
    OBVIOUS
  <1>1. CASE InitRunner
    <2> DEFINE r == InitOrder[next]
    <2>1. device' = device \/ \E d : device' = [device EXCEPT ![r] = d]
      BY <1>1 DEF InitRunner, Open
    <2>2. device \in [Runner -> {"closed", "half", "ready"}]
      BY DEF IInv, TypeOK
    <2>3. \A q \in Ahead' : q \in Ahead /\ q \in Runner /\ q # r
      BY <1>1, AheadShrinks, AheadRunners
    <2> HIDE DEF r
    <2>4. \A q \in Ahead' : device'[q] = device[q]
      BY <2>1, <2>2, <2>3
    <2> QED BY <2>3, <2>4 DEF ClosedAhead
  <1>2. CASE AssertFails \/ JoinCrashes \/ Exit
    BY <1>2 DEF AssertFails, JoinCrashes, Exit, Ahead, ClosedAhead
  <1>3. CASE Join
    BY <1>3 DEF Join, Ahead, ClosedAhead
  <1>4. ASSUME NEW r \in Runner, Run(r) PROVE ClosedAhead'
    <2>1. Ahead' = Ahead /\ r \notin Ahead
      BY <1>4 DEF Run, Iterate, Ends, Ahead, IInv, InitInOrder
    <2>2. device' = device \/ device' = [device EXCEPT ![r] = "closed"]
      BY <1>4 DEF Run, Iterate, Ends
    <2>3. device \in [Runner -> {"closed", "half", "ready"}]
      BY DEF IInv, TypeOK
    <2> QED BY <2>1, <2>2, <2>3, AheadRunners DEF ClosedAhead
  <1>5. CASE UNCHANGED vars
    BY <1>5 DEF vars, Ahead, ClosedAhead
  <1> QED BY <1>1, <1>2, <1>3, <1>4, <1>5 DEF Next

\* What the end of the process does to a runner.
LEMMA KilledKeepsContract ==
  ASSUME IInv, AssertFails \/ JoinCrashes \/ Exit, NEW r \in Runner
  PROVE  [Contract(r)!Next]_(Contract(r)!vars)
  <1>1. /\ thread'[r] = IF thread[r] = "running" THEN "killed" ELSE thread[r]
        /\ UNCHANGED <<device, left>>
    BY DEF AssertFails, JoinCrashes, Exit, Killed
  <1> QED BY <1>1 DEF Contract!Next, Contract!Kill, Contract!vars

\* The opening of a device is that of its contract, and no other runner's.
LEMMA OpenKeepsContract ==
  ASSUME IInv, ClosedAhead, InitRunner, NEW r \in Runner
  PROVE  [Contract(r)!Next]_(Contract(r)!vars)
  <1> DEFINE q == InitOrder[next]
  <1>1. q \in Runner /\ q \in Ahead /\ UNCHANGED left
    BY AheadShrinks DEF InitRunner
  <1>2. device[q] = "closed" /\ thread[q] = "none"
    BY <1>1 DEF ClosedAhead, IInv, InitInOrder
  <1> HIDE DEF q
  <1>3. CASE UNCHANGED <<device, thread>>
    BY <1>1, <1>3 DEF Contract!vars
  <1>4. CASE Open(q)
    <2>1. PICK o \in Opened(q) :
            /\ device' = [device EXCEPT ![q] = o[1]]
            /\ thread' = thread \/ (o[2] = "ok" /\ thread' = [thread EXCEPT ![q] = "running"])
      BY <1>4 DEF Open, Create
    <2>2. CASE r # q
      <3>1. device'[r] = device[r] /\ thread'[r] = thread[r]
        BY <2>1, <2>2 DEF IInv, TypeOK
      <3> QED BY <1>1, <3>1 DEF Contract!vars
    <2>3. CASE r = q
      <3>1. /\ device'[r] = o[1]
            /\ thread'[r] \in IF o[2] = "ok" THEN {"none", "running"} ELSE {"none"}
        BY <1>1, <1>2, <2>1, <2>3 DEF IInv, TypeOK
      <3>2. Contract(r)!Opened(r) = Opened(r)
        BY DEF Contract!Opened, Opened
      <3>3. Contract(r)!Open
        BY <1>1, <1>2, <2>1, <2>3, <3>1, <3>2 DEF Contract!Open
      <3> QED BY <3>3 DEF Contract!Next
    <2> QED BY <2>2, <2>3
  <1> QED BY <1>3, <1>4 DEF InitRunner, q

\* An iteration, or the end, of a runner is one of its contract.
LEMMA RunKeepsContract ==
  ASSUME IInv, OpenWhileRunning, NEW q \in Runner, Run(q), NEW r \in Runner
  PROVE  [Contract(r)!Next]_(Contract(r)!vars)
  <1>1. CASE r # q
    <2>1. device'[r] = device[r] /\ thread'[r] = thread[r] /\ left'[r] = left[r]
      BY <1>1 DEF Run, Iterate, Ends, IInv, TypeOK
    <2> QED BY <2>1 DEF Contract!vars
  <1>2. CASE r = q /\ Iterate(q)
    <2>1. /\ thread[r] = "running" /\ r # "uart" /\ left[r] > 0
          /\ left'[r] = left[r] - 1
          /\ device'[r] = device[r] /\ thread'[r] = thread[r]
      BY <1>2 DEF Iterate, IInv, TypeOK
    <2>2. device[r] = "closed" => r = "rack"
      BY <1>2, <2>1 DEF Iterate, Refuses, OpenWhileRunning, Runner
    <2>3. Contract(r)!Turn
      BY <2>1, <2>2 DEF Contract!Turn
    <2> QED BY <2>3 DEF Contract!Next
  <1>3. CASE r = q /\ Ends(q)
    <2>1. /\ thread[r] = "running" /\ thread'[r] = "ended"
          /\ left'[r] = left[r]
          /\ device'[r] = IF r \in {"rack", "stm32"} THEN "closed" ELSE device[r]
      BY <1>3 DEF Ends, IInv, TypeOK
    <2>2. r # "uart"
          /\ \/ left'[r] = 0
             \/ r = "gpio" /\ device[r] = "closed"
             \/ r \in {"audio", "stm32"} /\ left'[r] < Loops
      BY <1>3, <2>1 DEF Ends, Refuses
    <2>3. Contract(r)!End
      BY <2>1, <2>2 DEF Contract!End
    <2> QED BY <2>3 DEF Contract!Next
  <1> QED BY <1>1, <1>2, <1>3 DEF Run

LEMMA StepKeepsContract ==
  ASSUME IInv, OpenWhileRunning, ClosedAhead, [Next]_vars, NEW r \in Runner
  PROVE  [Contract(r)!Next]_(Contract(r)!vars)
  <1>1. CASE Join \/ UNCHANGED vars
    BY <1>1 DEF Join, vars, Contract!vars
  <1> QED BY <1>1, KilledKeepsContract, OpenKeepsContract, RunKeepsContract DEF Next

LEMMA InitKeepsContract ==
  Init => /\ OpenWhileRunning /\ ClosedAhead
          /\ \A r \in Runner : Contract(r)!Init
  <1>1. Init => OpenWhileRunning /\ ClosedAhead
    BY InitOnce, Orders DEF Init, OpenWhileRunning, ClosedAhead, Ahead, Runner
  <1>2. Init => \A r \in Runner : Contract(r)!Init
    BY DEF Init, Contract!Init
  <1> QED BY <1>1, <1>2

\* All runners together keep their contracts, for any number of loops and
\* whatever is asked for on the command line (main.c 83-156).
THEOREM RunnersKeepContracts == Spec => Contracts
  <1>1. IInv /\ OpenWhileRunning /\ ClosedAhead /\ [Next]_vars
        => [\A r \in Runner : [Contract(r)!Next]_(Contract(r)!vars)]_vars
    BY StepKeepsContract
  <1> QED BY Inductive, NextOpenWhileRunning, NextClosedAhead, InitKeepsContract,
             <1>1, PTL
          DEF Spec, Contracts

\* ... and each of them all of it (main.c 83-156).
THEOREM EachKeepsItsContract ==
  ASSUME NEW r \in Runner
  PROVE  Spec => Contract(r)!Spec
  <1>1. Init => Contract(r)!Init /\ OpenWhileRunning /\ ClosedAhead
    BY InitKeepsContract
  <1>2. IInv /\ OpenWhileRunning /\ ClosedAhead /\ [Next]_vars
        => [Contract(r)!Next]_(Contract(r)!vars)
    BY StepKeepsContract
  <1> QED BY Inductive, NextOpenWhileRunning, NextClosedAhead, <1>1, <1>2, PTL
          DEF Spec, Contract!Spec

\* No runner that drives a device goes round its loop over a closed one.
WorksOnOpenDevice ==
  [][\A r \in Runner \ {"rack"} : left'[r] < left[r] => device[r] # "closed"]_vars

\* Whatever an initialisation lost of its result, no runner but the rack's goes
\* round its loop over a closed device (elite-gpiod-runner.c 19, main.c 97-120):
\* it follows from the contracts.
THEOREM RunnersHaveDevices == Spec => WorksOnOpenDevice
  <1>1. IInv /\ [\A r \in Runner : [Contract(r)!Next]_(Contract(r)!vars)]_vars
        => [\A r \in Runner \ {"rack"} : left'[r] < left[r] => device[r] # "closed"]_vars
    <2> SUFFICES ASSUME IInv, NEW r \in Runner \ {"rack"}, left'[r] < left[r],
                        [Contract(r)!Next]_(Contract(r)!vars)
                 PROVE  device[r] # "closed"
      BY DEF vars
    <2>1. left[r] \in Int
      BY LoopsAssumption DEF IInv, TypeOK
    <2>2. left'[r] # left[r]
      BY <2>1
    <2> QED BY <2>2 DEF Contract!Next, Contract!vars, Contract!Open, Contract!Turn,
                        Contract!End, Contract!Kill
  <1> QED BY Inductive, RunnersKeepContracts, <1>1, PTL
          DEF Contracts, WorksOnOpenDevice

-------------------------------------------------------------------------------
(* The program runs out of steps.                                          *)

\* What main, and a runner, still have before them.
MainLeft ==
  CASE pc = "init" -> 13 - next
    [] pc = "join" -> 7 - next
    [] OTHER       -> 0

RunnerLeft(r) ==
  left[r] + CASE thread[r] = "none"    -> 2
              [] thread[r] = "running" -> 1
              [] OTHER                 -> 0

\* Each step brings main or a runner nearer to its end, and none further away.
StepsRunOut ==
  [][/\ MainLeft' \in 0..MainLeft
     /\ \A r \in Runner : RunnerLeft(r)' \in 0..RunnerLeft(r)
     /\ \/ MainLeft' < MainLeft
        \/ \E r \in Runner : RunnerLeft(r)' < RunnerLeft(r)]_vars

LEMMA MainCounts ==
  ASSUME IInv, InitRunner \/ AssertFails \/ Join \/ JoinCrashes \/ Exit
  PROVE  MainLeft' \in 0..MainLeft - 1
  <1>1. CASE pc = "init"
    <2>1. next \in 1..5 /\ MainLeft = 13 - next
      BY <1>1, Orders DEF IInv, InitInOrder, MainLeft
    <2>2. CASE pc' = "init" /\ next' = next + 1 /\ next < 5
      <3>1. MainLeft' = 13 - (next + 1)
        BY <2>2 DEF MainLeft
      <3> QED BY <2>1, <2>2, <3>1
    <2>3. CASE pc' = "join" /\ next' = 1
      <3>1. MainLeft' = 6
        BY <2>3 DEF MainLeft
      <3> QED BY <2>1, <3>1
    <2>4. CASE pc' = "crashed"
      <3>1. MainLeft' = 0
        BY <2>4 DEF MainLeft
      <3> QED BY <2>1, <3>1
    <2> QED BY <1>1, <2>1, <2>2, <2>3, <2>4, Orders
            DEF InitRunner, AssertFails, Join, JoinCrashes, Exit
  <1>2. CASE pc = "join"
    <2>1. next \in 1..6
      BY Orders DEF IInv, TypeOK
    <2>2. MainLeft = 7 - next
      BY <1>2 DEF MainLeft
    <2>3. CASE pc' = "join" /\ next' = next + 1 /\ next <= 4
      <3>1. MainLeft' = 7 - (next + 1)
        BY <2>3 DEF MainLeft
      <3> QED BY <2>1, <2>2, <2>3, <3>1
    <2>4. CASE pc' \in {"exited", "crashed"}
      <3>1. MainLeft' = 0
        BY <2>4 DEF MainLeft
      <3> QED BY <2>1, <2>2, <3>1
    <2> QED BY <1>2, <2>3, <2>4, Orders
            DEF InitRunner, AssertFails, Join, JoinCrashes, Exit
  <1> QED BY <1>1, <1>2 DEF InitRunner, AssertFails, Join, JoinCrashes, Exit

\* Threads are created, and then end or are killed.
LEMMA MainTakesNoneAway ==
  ASSUME IInv, InitRunner \/ AssertFails \/ Join \/ JoinCrashes \/ Exit,
         NEW r \in Runner
  PROVE  RunnerLeft(r)' \in 0..RunnerLeft(r)
  <1>1. left[r] \in Nat /\ left' = left
    BY LoopsAssumption
       DEF IInv, TypeOK, InitRunner, AssertFails, Join, JoinCrashes, Exit
  <1>2. \/ thread'[r] = thread[r]
        \/ thread[r] = "none" /\ thread'[r] = "running"
        \/ thread[r] = "running" /\ thread'[r] = "killed"
    <2>1. CASE InitRunner
      <3>1. InitOrder[next] \in Runner /\ thread[InitOrder[next]] = "none"
        BY <2>1, AheadShrinks DEF IInv, InitInOrder
      <3>2. \/ thread' = thread
            \/ thread' = [thread EXCEPT ![InitOrder[next]] = "running"]
        BY <2>1 DEF InitRunner, Open, Create
      <3> QED BY <3>1, <3>2 DEF IInv, TypeOK
    <2>2. CASE AssertFails \/ JoinCrashes \/ Exit
      BY <2>2 DEF AssertFails, JoinCrashes, Exit, Killed
    <2>3. CASE Join
      BY <2>3 DEF Join
    <2> QED BY <2>1, <2>2, <2>3
  <1> QED BY <1>1, <1>2 DEF RunnerLeft

LEMMA RunnerCounts ==
  ASSUME IInv, NEW q \in Runner, Run(q)
  PROVE  /\ RunnerLeft(q)' \in 0..RunnerLeft(q) - 1
         /\ \A r \in Runner \ {q} : RunnerLeft(r)' = RunnerLeft(r)
         /\ MainLeft' = MainLeft
  <1>1. \A r \in Runner : left[r] \in Nat /\ left'[r] \in Nat
    <2>1. left \in [Runner -> 0..Loops] /\ left' \in [Runner -> 0..Loops]
      BY RunKeeps DEF IInv, TypeOK
    <2> QED BY <2>1, LoopsAssumption
  <1>2. \/ /\ thread' = thread /\ left'[q] = left[q] - 1
           /\ \A r \in Runner \ {q} : left'[r] = left[r]
        \/ /\ thread'[q] = "ended" /\ left' = left
           /\ \A r \in Runner \ {q} : thread'[r] = thread[r]
    BY DEF Run, Iterate, Ends, IInv, TypeOK
  <1>3. thread[q] = "running" /\ UNCHANGED <<pc, next>>
    BY DEF Run, Iterate, Ends
  <1>4. RunnerLeft(q)' \in 0..RunnerLeft(q) - 1
    BY <1>1, <1>2, <1>3 DEF RunnerLeft
  <1>5. \A r \in Runner \ {q} : RunnerLeft(r)' = RunnerLeft(r)
    BY <1>2 DEF RunnerLeft
  <1> QED BY <1>3, <1>4, <1>5 DEF MainLeft

LEMMA Counted ==
  IInv => /\ MainLeft \in Nat
          /\ \A r \in Runner : RunnerLeft(r) \in Nat
  <1> SUFFICES ASSUME IInv
               PROVE  /\ MainLeft \in Nat
                      /\ \A r \in Runner : RunnerLeft(r) \in Nat
    OBVIOUS
  <1>1. MainLeft \in Nat
    BY Orders DEF IInv, TypeOK, InitInOrder, MainLeft
  <1>2. \A r \in Runner : left[r] \in Nat
    BY LoopsAssumption DEF IInv, TypeOK
  <1> QED BY <1>1, <1>2 DEF RunnerLeft

\* Whatever fails and however main and the runners interleave, the program makes
\* a bounded number of steps (main.c 96-157): if main does not come to its end, a
\* runner it joins is waiting for its device.
THEOREM ProgramRunsOut == Spec => StepsRunOut
  <1>1. ASSUME IInv, Next
        PROVE  /\ MainLeft' \in 0..MainLeft
               /\ \A r \in Runner : RunnerLeft(r)' \in 0..RunnerLeft(r)
               /\ \/ MainLeft' < MainLeft
                  \/ \E r \in Runner : RunnerLeft(r)' < RunnerLeft(r)
    <2>1. MainLeft \in Nat /\ \A r \in Runner : RunnerLeft(r) \in Nat
      BY <1>1, Counted
    <2>2. CASE InitRunner \/ AssertFails \/ Join \/ JoinCrashes \/ Exit
      BY <1>1, <2>1, <2>2, MainCounts, MainTakesNoneAway
    <2>3. ASSUME NEW q \in Runner, Run(q)
          PROVE  /\ MainLeft' \in 0..MainLeft
                 /\ \A r \in Runner : RunnerLeft(r)' \in 0..RunnerLeft(r)
                 /\ \E r \in Runner : RunnerLeft(r)' < RunnerLeft(r)
      BY <1>1, <2>1, <2>3, RunnerCounts
    <2> QED BY <1>1, <2>2, <2>3 DEF Next
  <1> QED BY Inductive, <1>1, PTL DEF Spec, StepsRunOut
=============================================================================
