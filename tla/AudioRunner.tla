---------------------------- MODULE AudioRunner ----------------------------
(***************************************************************************)
(* The audio runner (src/audio/alsa-audio-runner-poll.c) and the two PCM   *)
(* handles of its device (src/audio/alsa-device.c): what is captured is    *)
(* played again, period by period.                                         *)
(*                                                                         *)
(* The sound card and its driver are external: a handle that runs captures *)
(* or plays a period at each tick, the two handles are linked, a write     *)
(* starts them.  The tick comes at any moment, also between select and the *)
(* calls after it.  Operators marked "Faulty" are variants of the          *)
(* definition after them, used to show that the properties can fail.       *)
(***************************************************************************)
EXTENDS Integers

CONSTANTS
  Loops,    \* nb_loops
  Pauses,   \* pauses, the pause/resume cycles asked for
  MaxLag    \* periods by which the runner is late at most: a bound

ASSUME LoopsAssumption  == Loops \in Nat
ASSUME PausesAssumption == Pauses \in Nat
ASSUME LagAssumption    == MaxLag \in Nat

Periods == 2                         \* AUDIO_TEST_PERIODS, of a buffer
Handles == {"capture", "playback"}

VARIABLES
  pc,       \* where main, opening the device, or the runner is
  state,    \* snd_pcm_state of each handle
  silence,  \* whether it has a stop threshold out of reach (USE_SILENCE)
  avail,    \* periods captured and not read
  fill,     \* periods written and not played; below 0, played as silence
  fresh,    \* buf holds a captured period that was not written yet
  ready,    \* read_fds and write_fds after select
  failed,   \* whether `ret` of the runner is negative
  loops,    \* nb_loops
  pauses,   \* settings->pauses
  events    \* what happened: a call failed otherwise than by an xrun or a
            \* suspend ("error"), a transfer came back with a part of its
            \* period ("short"), a suspend was resumed from ("resumed")

stream == <<state, avail, fill>>
loop   == <<loops, pauses>>
vars   == <<pc, silence, stream, fresh, ready, failed, loop, events>>

Init ==
  /\ pc = "open_capture"
  /\ state = [h \in Handles |-> "closed"]
  /\ silence = [h \in Handles |-> FALSE]
  /\ avail = 0 /\ fill = 0
  /\ fresh = FALSE
  /\ ready = {}
  /\ failed = FALSE
  /\ loops = Loops /\ pauses = Pauses
  /\ events = {}

-------------------------------------------------------------------------------
(* alsa_device_open.  A failed snd_pcm_open or snd_pcm_link ends the       *)
(* program by an assertion; other failures only skip what depends on them. *)

\* The result is put in `err`, in place of what the set-up of the capture left.
OpenHandle(h, here, next) ==
  /\ pc = here
  /\ \/ state' = [state EXCEPT ![h] = "open"] /\ pc' = next
     \/ pc' = "crashed" /\ UNCHANGED state
  /\ UNCHANGED <<silence, avail, fill, fresh, ready, failed, loop, events>>

\* alsa_device_hw_params and alsa_device_sw_params, each of which may fail.
Configure(h, here, next) ==
  /\ pc = here
  /\ pc' = next
  /\ \/ UNCHANGED <<state, silence>>
     \/ /\ state' = [state EXCEPT ![h] = "prepared"]
        /\ silence' \in {silence, [silence EXCEPT ![h] = TRUE]}
  /\ UNCHANGED <<avail, fill, fresh, ready, failed, loop, events>>

\* Faulty: the handles are not linked, and not looked at.
LinkNothing ==
  /\ pc = "link" /\ pc' = "prepare"
  /\ UNCHANGED <<silence, stream, fresh, ready, failed, loop, events>>

\* Only two handles that are configured can be linked.
Link ==
  /\ pc = "link"
  /\ \/ pc' = "prepare" /\ \A h \in Handles : state[h] # "open"
     \/ pc' = "crashed"
  /\ UNCHANGED <<silence, stream, fresh, ready, failed, loop, events>>

Open ==
  \/ OpenHandle("capture", "open_capture", "setup_capture")
  \/ Configure("capture", "setup_capture", "open_playback")
  \/ OpenHandle("playback", "open_playback", "setup_playback")
  \/ Configure("playback", "setup_playback", "link")
  \/ Link

-------------------------------------------------------------------------------
(* The sound card and its driver.                                          *)

\* Faulty: snd_pcm_link is left out, calls reach one handle only.
GroupOfOne(h) == {h}

\* The handles that preparing, starting and stopping `h` is applied to.
Group(h) == Handles

Enter(h, s) == [g \in Handles |-> IF g \in Group(h) THEN s ELSE state[g]]

Runs(h) == state[h] = "running"

\* The card has played and captured a period.  Without its stop threshold, a
\* handle that has nothing to play, or no room to capture, stops its group; with
\* it, what is captured beyond the lag is not counted.
Underrun == Runs("playback") /\ fill <= 0 /\ ~silence["playback"]
Overrun  == Runs("capture") /\ avail >= Periods /\ ~silence["capture"]

Tick ==
  /\ \E h \in Handles : Runs(h)
  /\ \/ /\ Underrun /\ state' = Enter("playback", "xrun")
        /\ UNCHANGED <<avail, fill>>
     \/ /\ Overrun /\ state' = Enter("capture", "xrun")
        /\ UNCHANGED <<avail, fill>>
     \/ /\ ~Underrun /\ ~Overrun
        /\ fill > -MaxLag
        /\ fill' = IF Runs("playback") THEN fill - 1 ELSE fill
        /\ avail' = IF Runs("capture") /\ avail < Periods + MaxLag
                    THEN avail + 1 ELSE avail
        /\ UNCHANGED state
  /\ UNCHANGED <<pc, silence, fresh, ready, failed, loop, events>>

\* The system is suspended and woken.
Suspend ==
  /\ \E h \in Handles : Runs(h) /\ state' = Enter(h, "suspended")
  /\ UNCHANGED <<pc, silence, avail, fill, fresh, ready, failed, loop, events>>

\* snd_pcm_prepare: refused while a handle of the group runs.
CanPrepare(h) == \A g \in Group(h) : ~Runs(g)

Prepare(h) ==
  /\ state' = Enter(h, "prepared")
  /\ avail' = IF "capture" \in Group(h) THEN 0 ELSE avail
  /\ fill' = IF "playback" \in Group(h) THEN 0 ELSE fill

\* snd_pcm_recover on the capture handle, after a call that found its handle
\* in state `s`: 0 when the group was prepared, or resumed after a suspend.
\* `bad` tells whether the result is negative, here and below.
Recover(s, bad) ==
  \/ /\ s \in {"xrun", "suspended"} /\ CanPrepare("capture")
     /\ Prepare("capture") /\ ~bad
     /\ UNCHANGED events
  \/ /\ s = "suspended"
     /\ state' = Enter("capture", "running") /\ ~bad
     /\ events' = events \cup {"resumed"}
     /\ UNCHANGED <<avail, fill>>
  \/ /\ s \notin {"suspended", "prepared", "running"}
     /\ ~(s = "xrun" /\ CanPrepare("capture")) /\ bad
     /\ UNCHANGED <<stream, events>>

-------------------------------------------------------------------------------
(* The runner.                                                             *)

\* A call fails for a reason of its own.
Breaks(bad) ==
  bad /\ events' = events \cup {"error"} /\ UNCHANGED <<stream, fresh>>

\* alsa_device_writen of one period, which blocks while the buffer is full.  A
\* short count is given to the caller as it is: the rest is not written, and
\* what cut the call short, an xrun or a suspend, comes as a step of its own.
Writen(bad) ==
  \/ /\ state["playback"] \in {"prepared", "running"} /\ fill < Periods
     /\ fill' = fill + 1
     /\ state' = Enter("playback", "running")
     /\ fresh' = FALSE /\ ~bad
     /\ UNCHANGED <<avail, events>>
  \/ /\ state["playback"] \in {"prepared", "running"}
     /\ fill' \in {fill, fill + 1} /\ fill' <= Periods
     /\ state' = Enter("playback", "running") /\ ~bad
     /\ events' = events \cup {"short"}
     /\ UNCHANGED <<avail, fresh>>
  \/ Recover(state["playback"], bad) /\ UNCHANGED fresh
  \/ Breaks(bad)

\* alsa_device_readn of one period, into buf; of a short count the rest of buf
\* keeps what it held.
Readn(bad) ==
  \/ /\ Runs("capture") /\ avail >= 1
     /\ avail' = avail - 1
     /\ fresh' = TRUE /\ ~bad
     /\ UNCHANGED <<state, fill, events>>
  \/ /\ Runs("capture")
     /\ avail' \in {avail - 1, avail} /\ avail' >= 0
     /\ fresh' = TRUE /\ ~bad
     /\ events' = events \cup {"short"}
     /\ UNCHANGED <<state, fill>>
  \/ Recover(state["capture"], bad) /\ UNCHANGED fresh
  \/ Breaks(bad)

\* alsa_device_startn: prepare, whatever comes of it, and two periods of what
\* buf holds.  The start at its end finds the handles running, or nothing to
\* play.
StartPrepare ==
  /\ pc = "prepare" /\ pc' = "preroll1"
  /\ \/ CanPrepare("playback") /\ Prepare("playback") /\ UNCHANGED events
     \/ events' = events \cup {"error"} /\ UNCHANGED stream
  /\ UNCHANGED <<silence, fresh, ready, failed, loop>>

Preroll(here, next) ==
  /\ pc = here /\ pc' = next
  /\ \E bad \in BOOLEAN : Writen(bad)
  /\ UNCHANGED <<silence, ready, failed, loop>>

\* Faulty: nb_loops is counted down in the condition and in the body.
CountTwice == loops - 2

\* Faulty: nb_loops is not counted down.
CountStuck == loops

Count == loops - 1

Test ==
  /\ pc = "test"
  /\ IF loops > 0
       THEN loops' = Count /\ pc' = IF failed THEN "ended" ELSE "select"
       ELSE pc' = "ended" /\ UNCHANGED loops
  /\ UNCHANGED <<silence, stream, fresh, ready, failed, pauses, events>>

\* Faulty: playback is woken when its whole buffer is free (avail_min).
ReadyLate(h) ==
  \/ state[h] \notin {"prepared", "running"}
  \/ h = "capture" /\ Runs(h) /\ avail >= 1
  \/ h = "playback" /\ Periods - fill >= Periods

\* What select returns for a handle: a period to read or room for one, or an
\* error, which makes it readable and writable.
Ready(h) ==
  \/ state[h] \notin {"prepared", "running"}
  \/ h = "capture" /\ Runs(h) /\ avail >= 1
  \/ h = "playback" /\ Periods - fill >= 1

Select ==
  /\ pc = "select"
  /\ \/ /\ \E h \in Handles : Ready(h)
        /\ ready' = {h \in Handles : Ready(h)}
        /\ pc' = "read"
        /\ UNCHANGED <<failed, events>>
     \/ /\ failed' = TRUE /\ events' = events \cup {"error"}
        /\ pc' = "pause"
        /\ UNCHANGED ready
  /\ UNCHANGED <<silence, stream, fresh, loop>>

Read ==
  /\ pc = "read" /\ pc' = "write"
  /\ IF "capture" \in ready
       THEN \E bad \in BOOLEAN : Readn(bad) /\ failed' = bad
       ELSE UNCHANGED <<stream, fresh, failed, events>>
  /\ UNCHANGED <<silence, ready, loop>>

\* Its result replaces that of the read.
WriteBack ==
  /\ pc = "write" /\ pc' = "pause"
  /\ IF "playback" \in ready
       THEN \E bad \in BOOLEAN : Writen(bad) /\ failed' = bad
       ELSE UNCHANGED <<stream, fresh, failed, events>>
  /\ ready' = {}
  /\ UNCHANGED <<silence, loop>>

\* alsa_device_pause: a drain of the playback, which stops the group, or fails
\* and leaves it as it is.  The way back is that of the start.
Drain ==
  \/ /\ state["playback"] # "suspended"
     /\ state' = Enter("playback", "setup")
     /\ UNCHANGED events
  \/ events' = events \cup {"error"} /\ UNCHANGED state

\* A pause and its resume, in the fifth last of each 256 loops.
Pause ==
  /\ pc = "pause"
  /\ IF pauses > 0 /\ loops % 256 = 4
       THEN Drain /\ pauses' = pauses - 1 /\ pc' = "prepare"
       ELSE pc' = "test" /\ UNCHANGED <<state, pauses, events>>
  /\ UNCHANGED <<silence, avail, fill, fresh, ready, failed, loops>>

Start ==
  \/ StartPrepare
  \/ Preroll("preroll1", "preroll2")
  \/ Preroll("preroll2", "test")

Runner == Open \/ Start \/ Test \/ Select \/ Read \/ WriteBack \/ Pause

Next == Runner \/ Tick \/ Suspend

Spec == Init /\ [][Next]_vars

\* The runner waits: select for a handle that is ready, or a write for room.
\* A read is only made of a period that is there.
Blocked ==
  \/ pc = "select" /\ \A h \in Handles : ~Ready(h)
  \/ /\ \/ pc \in {"preroll1", "preroll2"}
        \/ pc = "write" /\ "playback" \in ready
     /\ state["playback"] \in {"prepared", "running"} /\ fill >= Periods

\* The thread is scheduled where it does not wait, and the clock of the card
\* goes on: no wait is ended by a call that just happens to fail.
FairSpec == Spec /\ WF_vars(~Blocked /\ Runner) /\ WF_vars(Tick)

-------------------------------------------------------------------------------
(* Properties.                                                             *)

Opening == {"open_capture", "setup_capture", "open_playback",
            "setup_playback", "link"}
Playing == {"prepare", "preroll1", "preroll2",
            "test", "select", "read", "write", "pause"}
States  == {"closed", "open", "setup", "prepared",
            "running", "xrun", "suspended"}

\* The lag apart, the buffers never hold more than their periods
\* (alsa-device.c:515-525, two periods of pre-roll), and the countdowns never
\* wrap.
TypeOK ==
  /\ pc \in Opening \cup Playing \cup {"ended", "crashed"}
  /\ fresh \in BOOLEAN /\ failed \in BOOLEAN
  /\ events \subseteq {"error", "short", "resumed"}
  /\ state \in [Handles -> States]
  /\ silence \in [Handles -> BOOLEAN]
  /\ avail \in 0..Periods + MaxLag
  /\ fill \in -MaxLag..Periods
  /\ ready \subseteq Handles
  /\ loops \in 0..Loops /\ pauses \in 0..Pauses

\* The error of the capture set-up is overwritten by the opening of the playback
\* (alsa-device.c:242): the link, which needs both configured, is what keeps a
\* runner from working on a handle that is not (alsa-device.c:259).
WorksConfigured ==
  pc \in Playing \cup {"ended"} =>
    \A h \in Handles : state[h] \notin {"closed", "open"}

\* A captured period is overwritten only after it was given to the playback,
\* whatever xruns and restarts came in between: each select that finds a period
\* to read finds room for it too (alsa-audio-runner-poll.c:93-105).  Not so once
\* a call failed, came back short (alsa-device.c 326-329, 369-372) or was resumed
\* after a suspend: what such a write leaves is not written again.
NoPeriodLost ==
  pc = "read" /\ "capture" \in ready /\ Runs("capture") /\ events = {}
    => ~fresh

\* A failed write recovers the capture handle (alsa-device.c:366), and with it
\* the playback: after a write in the loop the playback can be written again,
\* and neither an xrun nor a suspend makes the result one that ends the loop.
XrunsSurvived ==
  [][pc = "write" /\ pc' = "pause" /\ "playback" \in ready
       => IF failed' THEN "error" \in events'
          ELSE state'["playback"] \in {"prepared", "running"}]_vars

\* The runner never waits for ever, in select or in a write that blocks, so
\* that main can join it (main.c:123).
RunnerEnds == <>(pc \in {"ended", "crashed"})

\* What main sees of the runner: its device and its thread.
Device == IF pc \in Opening \cup {"crashed"} THEN "closed"
          ELSE IF \E h \in Handles : state[h] \in {"closed", "open"}
               THEN "half" ELSE "ready"

Thread == IF pc \in Playing THEN "running"
          ELSE IF pc = "ended" THEN "ended" ELSE "none"

Contract == INSTANCE RunnerContract WITH
  self <- "audio", device <- Device, thread <- Thread, left <- loops

\* The runner is the one main counts on (main.c 104-124): whatever the card does
\* and whichever call fails, it goes round its loop at most nb_loops times, and
\* before that only ends when a transfer failed.
KeepsContract == Contract!Spec
=============================================================================
