---------------------------- MODULE ReplayWindow ----------------------------
(***************************************************************************)
(* check_replay of src/common.h: the sliding bit window that decides       *)
(* whether a sequence number is new.  A uint64_t word is the set of its     *)
(* bits that are 1; window[0] is the least significant word, and bit k of   *)
(* the whole window stands for the number highest - k.                      *)
(***************************************************************************)
EXTENDS Integers

CONSTANTS
    Words,   \* REPLAY_WINDOW_WORDS, 32 in the source
    Bits,    \* width of a word, 64 in the source
    Seqs     \* the sequence numbers packets may carry

ASSUME WordsAssumption == Words \in Nat \ {0}
ASSUME BitsAssumption  == Bits \in Nat \ {0}
ASSUME SeqsAssumption  == Seqs \subseteq Nat

VARIABLES
    highest,   \* recv_seq_highest
    window,    \* recv_seq_window
    accepted,  \* history: numbers accepted since session_init
    rc         \* the last return code

vars == <<highest, window, accepted, rc>>

Index      == 0 .. Words - 1
BitIndex   == 0 .. Bits - 1
WindowSize == Words * Bits
Zeros      == [i \in Index |-> {}]

TypeOK ==
    /\ highest \in Nat
    /\ window \in [Index -> SUBSET BitIndex]
    /\ accepted \in SUBSET Seqs
    /\ rc \in {0, -1}
-----------------------------------------------------------------------------
\* Mutants: a shift that keeps the bits pushed out of a 64-bit word; a slide that
\* forgets the bits carried from the word below; a reset that leaves the highest
\* number, or the window, of the previous key.
ShiftLeftWide(w, k) == {b + k : b \in w}

SlideNoCarry(win, diff) ==
    LET wn == diff \div Bits
        bn == diff % Bits
        Word(i) == IF i >= 0 THEN win[i] ELSE {}
    IN  [i \in Index |-> {b \in BitIndex : b - bn \in Word(i - wn)}]

ResetKeepsHighest ==
    /\ window' = Zeros
    /\ accepted' = {}
    /\ UNCHANGED <<highest, rc>>

ResetKeepsWindow ==
    /\ highest' = 0
    /\ accepted' = {}
    /\ UNCHANGED <<window, rc>>
-----------------------------------------------------------------------------
\* w << k and w >> k: a bit shifted past either end of the word is lost.
ShiftLeft(w, k)  == {b \in BitIndex : b - k \in w}
ShiftRight(w, k) == {b \in BitIndex : b + k \in w}

\* The loop over the words.  It runs from the last word down and reads words at
\* or below the one it writes, so every word it reads still has its old value.
Slide(win, diff) ==
    LET wn == diff \div Bits
        bn == diff % Bits
        Word(i) == IF i >= 0 THEN win[i] ELSE {}
    IN  [i \in Index |->
            IF bn > 0
              THEN ShiftLeft(Word(i - wn), bn)
                     \cup ShiftRight(Word(i - wn - 1), Bits - bn)
              ELSE Word(i - wn)]

Advance(win, diff) ==
    IF diff >= WindowSize THEN Zeros ELSE Slide(win, diff)

IsSet(win, diff) == (diff % Bits) \in win[diff \div Bits]

SetBit(win, diff) == [win EXCEPT ![diff \div Bits] = @ \cup {diff % Bits}]
-----------------------------------------------------------------------------
Init ==
    /\ highest = 0
    /\ window = Zeros
    /\ accepted = {}
    /\ rc = 0

\* A number beyond the highest one slides the window up to it.
Newer(seq) ==
    /\ seq > highest
    /\ window' = SetBit(Advance(window, seq - highest), 0)
    /\ highest' = seq
    /\ accepted' = accepted \cup {seq}
    /\ rc' = 0

\* A number at or below the highest one that has left the window.
Expired(seq) ==
    /\ seq <= highest
    /\ highest - seq >= WindowSize
    /\ rc' = -1
    /\ UNCHANGED <<highest, window, accepted>>

\* A number in the window: its bit tells a late packet from a replayed one.
Within(seq) ==
    /\ seq <= highest
    /\ highest - seq < WindowSize
    /\ IF IsSet(window, highest - seq)
         THEN /\ rc' = -1
              /\ UNCHANGED <<window, accepted>>
         ELSE /\ window' = SetBit(window, highest - seq)
              /\ accepted' = accepted \cup {seq}
              /\ rc' = 0
    /\ UNCHANGED highest

CheckReplay(seq) == Newer(seq) \/ Expired(seq) \/ Within(seq)

\* session_init zeroes the window together with the key it belongs to.
Reset ==
    /\ highest' = 0
    /\ window' = Zeros
    /\ accepted' = {}
    /\ UNCHANGED rc

Next ==
    \/ \E seq \in Seqs : CheckReplay(seq)
    \/ Reset

Spec == Init /\ [][Next]_vars
-----------------------------------------------------------------------------
(***************************************************************************)
(* Properties.                                                             *)
(***************************************************************************)

\* The window is exactly the part of the history it covers: bit b of word i is
\* set if and only if the number i * Bits + b below highest was accepted.  The
\* shift by whole words and the carry between words keep this.
WindowMatchesHistory ==
    \A i \in Index, b \in BitIndex :
        b \in window[i] <=> highest - (i * Bits + b) \in accepted

\* highest is the largest number accepted, or still 0 before the first one.
HighestIsNewest ==
    /\ \A s \in accepted : s <= highest
    /\ accepted = {} => highest = 0
    /\ accepted # {} => highest \in accepted

\* check_replay implements its promise: accept what is new, reject what is a
\* duplicate or too old, whatever the order of the packets.
Filter == INSTANCE ReplayFilter
    WITH Seqs <- Seqs, WindowSize <- WindowSize, accepted <- accepted, rc <- rc

ImplementsFilter == Filter!Spec
=============================================================================
