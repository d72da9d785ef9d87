--------------------------- MODULE RemoteRegisters ---------------------------
(***************************************************************************)
(* What a caller of the mailbox functions of avxSpi.c is promised: a call  *)
(* that returns 0 has taken effect on the addressed register exactly once, *)
(* at one instant between its start and its return, and the value it hands *)
(* back is the one the register had at that instant.  A call that returns  *)
(* an error took effect once or not at all.                                *)
(*                                                                         *)
(* AvxMailbox is the detailed specification that implements this one.      *)
(***************************************************************************)
EXTENDS Integers

CONSTANTS Present,  \* the registers <<slot, page>> that a card of the rack holds
          Data,     \* contents of a register, as sets of bits
          Requests, \* records [kind, slot, page, data]
          Errors    \* the codes a failed call returns

VARIABLES cells,    \* contents of the present registers
          req,      \* the last request
          phase,    \* "idle", "active" (no effect yet) or "applied"
          seen,     \* the value an applied request hands back
          ret,      \* the code the last call returned
          out       \* the value the last call returned

vars == <<cells, req, phase, seen, ret, out>>

Writes == {"wbyte", "wblock"}

Target(r) == <<r.slot, r.page>>

\* The contents of the addressed register once request r is applied.
NewValue(r, old) ==
  CASE r.kind \in Writes -> r.data
    [] r.kind = "tas"    -> old \cup r.data
    [] r.kind = "tar"    -> old \ r.data
    [] OTHER             -> old

\* What request r hands back: a write nothing, the others the old contents.
Result(r, old) == IF r.kind \in Writes THEN {} ELSE old

Init ==
  /\ cells \in [Present -> Data]
  /\ phase = "idle"
  /\ seen = {}
  /\ ret \in Errors
  /\ out = {}

Call(r) ==
  /\ phase = "idle"
  /\ req' = r
  /\ phase' = "active"
  /\ ret' = 0
  /\ out' = {}
  /\ UNCHANGED <<cells, seen>>

Reject(r) ==
  /\ phase = "idle"
  /\ req' = r
  /\ ret' \in Errors
  /\ out' = {}
  /\ UNCHANGED <<cells, phase, seen>>

Apply ==
  /\ phase = "active"
  /\ Target(req) \in Present
  /\ cells' = [cells EXCEPT ![Target(req)] = NewValue(req, @)]
  /\ seen' = Result(req, cells[Target(req)])
  /\ phase' = "applied"
  /\ UNCHANGED <<req, ret, out>>

Succeed ==
  /\ phase = "applied"
  /\ phase' = "idle"
  /\ ret' = 0
  /\ out' = seen
  /\ seen' = {}
  /\ UNCHANGED <<cells, req>>

Fail ==
  /\ phase # "idle"
  /\ phase' = "idle"
  /\ ret' \in Errors
  /\ seen' = {}
  /\ UNCHANGED <<cells, req, out>>

Next ==
  \/ \E r \in Requests : Call(r) \/ Reject(r)
  \/ Apply
  \/ Succeed
  \/ Fail

Spec == Init /\ [][Next]_vars
=============================================================================
