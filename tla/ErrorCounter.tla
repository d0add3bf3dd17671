---------------------------- MODULE ErrorCounter ---------------------------
(***************************************************************************)
(* The code add_prologue and add_epilogue (src/bpf-translate.cxx) wrap     *)
(* around every kernel probe, executed concurrently by the probe hits of   *)
(* several CPUs.  The internal map (build_internal_globals) is one         *)
(* BPF_MAP_TYPE_HASH shared by all CPUs, with keys EXIT and ERRORS.        *)
(*                                                                         *)
(* A CPU runs one probe hit at a time (BPF programs do not nest on a CPU). *)
(* One map access (lookup plus load, or update) is one step; what the      *)
(* probe body does is abstracted to its outcome: nothing, error() (which   *)
(* sets error_status through register_error and terminates), or exit()    *)
(* (which sets EXIT).                                                      *)
(***************************************************************************)
EXTENDS Naturals, TLC

CONSTANTS
  CPUs,        \* CPUs that hit the probe
  MaxErrors,   \* the MAXERRORS -D constraint (0 if absent)
  MaxHits      \* bound on probe hits, over all CPUs

ASSUME MaxErrors \in Nat /\ MaxHits \in Nat

VARIABLES
  exitFlag,    \* internal map, key EXIT
  errors,      \* internal map, key ERRORS
  pc,          \* per CPU: "idle", "body", "epilogue", "update"
  errStatus,   \* per CPU: the error_status register
  count,       \* per CPU: the error_count register loaded by the epilogue
  hits,        \* probe hits so far
  nerr,        \* ghost: hits whose body registered an error
  hard         \* ghost: STP_ERROR (hard error) messages sent

vars == <<exitFlag, errors, pc, errStatus, count, hits, nerr, hard>>

\* The loader creates both keys with value 0 before any probe runs.
Init ==
  /\ exitFlag = 0 /\ errors = 0
  /\ pc = [c \in CPUs |-> "idle"]
  /\ errStatus = [c \in CPUs |-> 0] /\ count = [c \in CPUs |-> 0]
  /\ hits = 0 /\ nerr = 0 /\ hard = 0

\* add_prologue: clear error_status; if EXIT is 1 or ERRORS exceeds the
\* limit, jump to the exit block (whose epilogue sees error_status 0 and
\* returns), otherwise run the body.
Prologue(c) ==
  /\ pc[c] = "idle" /\ hits < MaxHits
  /\ hits' = hits + 1
  /\ errStatus' = [errStatus EXCEPT ![c] = 0]
  /\ pc' = [pc EXCEPT ![c] = IF exitFlag = 1 \/ errors > MaxErrors THEN "idle" ELSE "body"]
  /\ UNCHANGED <<exitFlag, errors, count, nerr, hard>>

\* The body runs to the exit block normally, after register_error, or
\* after exit() has stored 1 under EXIT.
Body(c) ==
  /\ pc[c] = "body"
  /\ \/ UNCHANGED <<errStatus, nerr, exitFlag>>
     \/ /\ errStatus' = [errStatus EXCEPT ![c] = 1]
        /\ nerr' = nerr + 1
        /\ UNCHANGED exitFlag
     \/ /\ exitFlag' = 1
        /\ UNCHANGED <<errStatus, nerr>>
  /\ pc' = [pc EXCEPT ![c] = "epilogue"]
  /\ UNCHANGED <<errors, count, hits, hard>>

\* add_epilogue, first part: if error_status is 0, exit; otherwise send
\* STP_PRINT_ERROR_MSG, look up ERRORS and load it into error_count.
EpilogueLoad(c) ==
  /\ pc[c] = "epilogue"
  /\ IF errStatus[c] = 0
       THEN pc' = [pc EXCEPT ![c] = "idle"] /\ UNCHANGED count
       ELSE /\ count' = [count EXCEPT ![c] = errors]
            /\ pc' = [pc EXCEPT ![c] = "update"]
  /\ UNCHANGED <<exitFlag, errors, errStatus, hits, nerr, hard>>

\* add_epilogue, second part: store error_count + 1 under ERRORS with
\* map_update_elem; if it exceeds the limit, send STP_ERROR.
EpilogueStore(c) ==
  /\ pc[c] = "update"
  /\ errors' = count[c] + 1
  /\ hard' = IF count[c] + 1 <= MaxErrors THEN hard ELSE hard + 1
  /\ pc' = [pc EXCEPT ![c] = "idle"]
  /\ UNCHANGED <<exitFlag, errStatus, count, hits, nerr>>

Done == /\ hits = MaxHits /\ \A c \in CPUs : pc[c] = "idle"
        /\ UNCHANGED vars

Next ==
  \/ \E c \in CPUs : Prologue(c) \/ Body(c) \/ EpilogueLoad(c) \/ EpilogueStore(c)
  \/ Done

Spec == Init /\ [][Next]_vars

Quiescent == \A c \in CPUs : pc[c] = "idle"

-----------------------------------------------------------------------------
(* Properties *)

\* Spec 4 (prologue/epilogue): the epilogue increments the global error
\* counter, and a hard error is sent once it exceeds the ceiling.  When no
\* hit is in flight and more than MAXERRORS errors were registered, a hard
\* error has been sent.
HardErrorWhenExceeded == Quiescent /\ nerr > MaxErrors => hard > 0

=============================================================================
