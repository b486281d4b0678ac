---------------------------- MODULE ReplayFilter ----------------------------
(***************************************************************************)
(* What check_replay (src/common.h) promises, with no window of bits: it    *)
(* "returns 0 if new, -1 if duplicate/too old".  The only state is the set  *)
(* of sequence numbers accepted since the session was keyed, and the last   *)
(* return code.                                                            *)
(***************************************************************************)
EXTENDS Integers

CONSTANTS
    Seqs,        \* the sequence numbers packets may carry
    WindowSize   \* how far behind the newest one a number may still be

VARIABLES
    accepted,    \* numbers accepted since session_init
    rc           \* what the last call returned: 0 or -1

vars == <<accepted, rc>>

Init ==
    /\ accepted = {}
    /\ rc = 0

Duplicate(seq) == seq \in accepted

TooOld(seq) == \E newer \in accepted : newer >= seq + WindowSize

Accept(seq) ==
    /\ ~Duplicate(seq)
    /\ ~TooOld(seq)
    /\ accepted' = accepted \cup {seq}
    /\ rc' = 0

Reject(seq) ==
    /\ Duplicate(seq) \/ TooOld(seq)
    /\ rc' = -1
    /\ UNCHANGED accepted

\* A new session key restarts the numbering.
Rekey ==
    /\ accepted' = {}
    /\ UNCHANGED rc

Next ==
    \/ \E seq \in Seqs : Accept(seq) \/ Reject(seq)
    \/ Rekey

Spec == Init /\ [][Next]_vars
=============================================================================
