--------------------------- MODULE CommandWindow ---------------------------
(***************************************************************************)
(* What the UCI core promises to the layers around it, with no mailbox, no *)
(* timer and no packets: commands go to the UWB controller one at a time.  *)
(* A command is transmitted only when the window is open, is re-sent a     *)
(* bounded number of times while its answer is missing, and the window     *)
(* opens again once the command is resolved (answered, given up, or        *)
(* flushed).  The controller may also park a data message: it says that it *)
(* has no credit, and the window stays shut until credit comes back.       *)
(*                                                                         *)
(* UciCore implements this specification (UciCore!Abstract).               *)
(***************************************************************************)
EXTENDS Naturals

CONSTANTS Command,    \* what can be transmitted
          NoCmd,      \* before the first transmission
          MaxRetry    \* UCI_CMD_MAX_RETRY_COUNT

VARIABLES phase,      \* "ready" | "awaiting" | "stalled"
          cmd,        \* the command transmitted last
          tries       \* re-transmissions of cmd so far

vars == <<phase, cmd, tries>>

TypeOK ==
    /\ phase \in {"ready", "awaiting", "stalled"}
    /\ cmd \in Command \cup {NoCmd}
    /\ tries \in 0 .. MaxRetry + 1

Init == phase = "ready" /\ cmd = NoCmd /\ tries = 0

(* A command whose answer is awaited. *)
Transmit(c) ==
    /\ phase = "ready"
    /\ phase' = "awaiting"
    /\ cmd' = c
    /\ tries' = 0

(* A segment that the controller does not answer. *)
TransmitSegment(c) ==
    /\ phase = "ready"
    /\ cmd' = c
    /\ UNCHANGED <<phase, tries>>

(* The code compares with <=, so the count ends at MaxRetry + 1. *)
Retransmit ==
    /\ phase = "awaiting"
    /\ tries <= MaxRetry
    /\ tries' = tries + 1
    /\ UNCHANGED <<phase, cmd>>

Resolve ==
    /\ phase \in {"awaiting", "stalled"}
    /\ phase' = "ready"
    /\ tries' = 0
    /\ UNCHANGED cmd

Stall ==
    /\ phase = "awaiting"
    /\ phase' = "stalled"
    /\ tries' = 0
    /\ UNCHANGED cmd

Next ==
    \/ \E c \in Command : Transmit(c) \/ TransmitSegment(c)
    \/ Retransmit
    \/ Resolve
    \/ Stall

Spec == Init /\ [][Next]_vars
=============================================================================
