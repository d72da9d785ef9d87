--------------------------- MODULE RunnerContract ---------------------------
(***************************************************************************)
(* What main (src/main.c) relies on of a runner: its device is opened once *)
(* and comes out of that in one of a few states, whatever is reported; the *)
(* thread is created only when that is "ok"; it goes round its loop at     *)
(* most nb_loops times, and only the runner of the rack over a device that *)
(* is closed; it ends for a reason, once.  Runners, AudioRunner and        *)
(* EliteTdma implement it.                                                 *)
(***************************************************************************)
EXTENDS Integers, RunnerDevices

CONSTANTS
  self,     \* which runner
  Loops     \* nb_loops

VARIABLES
  device,   \* "closed", "half" (open, but not set up) or "ready"
  thread,   \* "none", "running", "ended" or "killed"
  left      \* iterations left to the runner

vars == <<device, thread, left>>

Init ==
  /\ device = "closed"
  /\ thread = "none"
  /\ left = Loops

Open ==
  /\ device = "closed" /\ thread = "none"
  /\ \E o \in Opened(self) :
       /\ device' = o[1]
       /\ thread' \in IF o[2] = "ok" THEN {"none", "running"} ELSE {"none"}
  /\ UNCHANGED left

Turn ==
  /\ thread = "running" /\ self # "uart"
  /\ device = "closed" => self = "rack"
  /\ left > 0
  /\ left' = left - 1
  /\ UNCHANGED <<device, thread>>

\* After its last iteration, for want of a device, or when a transfer failed;
\* the audio runner counts an iteration before it looks at that.
End ==
  /\ thread = "running" /\ self # "uart"
  /\ \/ left' = left
     \/ self = "audio" /\ device # "closed" /\ left > 0 /\ left' = left - 1
  /\ \/ left' = 0
     \/ self = "gpio" /\ device = "closed"
     \/ self \in {"audio", "stm32"} /\ left' < Loops
  /\ thread' = "ended"
  /\ device' = IF self \in {"rack", "stm32"} THEN "closed" ELSE device

\* The process ends.
Kill ==
  /\ thread = "running" /\ thread' = "killed"
  /\ UNCHANGED <<device, left>>

Next == Open \/ Turn \/ End \/ Kill

Spec == Init /\ [][Next]_vars
=============================================================================
