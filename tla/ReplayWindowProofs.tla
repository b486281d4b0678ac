------------------------- MODULE ReplayWindowProofs -------------------------
(***************************************************************************)
(* Proofs about ReplayWindow, for every number of words and every width of  *)
(* a word.  The inductive invariant says that the window of bits is exactly *)
(* the recent part of the history of accepted numbers; with it, every call  *)
(* of check_replay is a step of ReplayFilter.                               *)
(***************************************************************************)
EXTENDS ReplayWindow, TLAPS

USE DEF Index, BitIndex, WindowSize

\* The inductive invariant.
IInv == TypeOK /\ HighestIsNewest /\ WindowMatchesHistory
-----------------------------------------------------------------------------
(***************************************************************************)
(* Positions in the window: a distance d from the highest number is bit     *)
(* d % Bits of word d \div Bits, and no other bit.                          *)
(***************************************************************************)

\* Splitting a distance into a word and a bit loses nothing.
LEMMA Split ==
    ASSUME NEW d \in Nat
    PROVE  /\ d \div Bits \in Nat
           /\ d % Bits \in BitIndex
           /\ d = (d \div Bits) * Bits + (d % Bits)
BY BitsAssumption, Z3

\* Multiplication by the width of a word is monotonic.
LEMMA MulMono ==
    ASSUME NEW i \in Int, NEW j \in Int, i <= j
    PROVE  i * Bits <= j * Bits
BY BitsAssumption, Z3

\* A position names one bit of one word.
LEMMA Unique ==
    ASSUME NEW i \in Int, NEW j \in Int, NEW b \in BitIndex, NEW c \in BitIndex,
           i * Bits + b = j * Bits + c
    PROVE  i = j /\ b = c
<1>1. ~(i < j)
  <2> SUFFICES ASSUME i < j PROVE FALSE
    OBVIOUS
  <2>1. (i + 1) * Bits <= j * Bits
    BY MulMono, i + 1 <= j, i + 1 \in Int
  <2>2. (i + 1) * Bits = i * Bits + Bits
    BY BitsAssumption, Z3
  <2> QED
    BY <2>1, <2>2, BitsAssumption, i * Bits \in Int, j * Bits \in Int
<1>2. ~(j < i)
  <2> SUFFICES ASSUME j < i PROVE FALSE
    OBVIOUS
  <2>1. (j + 1) * Bits <= i * Bits
    BY MulMono, j + 1 <= i, j + 1 \in Int
  <2>2. (j + 1) * Bits = j * Bits + Bits
    BY BitsAssumption, Z3
  <2> QED
    BY <2>1, <2>2, BitsAssumption, i * Bits \in Int, j * Bits \in Int
<1> QED
  BY <1>1, <1>2, BitsAssumption, i * Bits \in Int

\* Every bit of every word is less than WindowSize behind the highest number.
LEMMA InWindow ==
    ASSUME NEW i \in Index, NEW b \in BitIndex
    PROVE  i * Bits + b \in 0 .. WindowSize - 1
<1>1. 0 * Bits <= i * Bits
  BY MulMono, WordsAssumption
<1>2. (i + 1) * Bits <= Words * Bits
  BY MulMono, WordsAssumption, i + 1 <= Words, i + 1 \in Int
<1>3. (i + 1) * Bits = i * Bits + Bits
  BY BitsAssumption, WordsAssumption, Z3
<1> QED
  BY <1>1, <1>2, <1>3, BitsAssumption, WordsAssumption, i * Bits \in Int, Words * Bits \in Int

\* A distance within the window falls in one of its words.
LEMMA WordOf ==
    ASSUME NEW d \in Nat, d < WindowSize
    PROVE  d \div Bits \in Index
<1>1. /\ d \div Bits \in Nat
      /\ d = (d \div Bits) * Bits + (d % Bits)
      /\ d % Bits \in BitIndex
  BY Split
<1>2. ~(Words <= d \div Bits)
  <2> SUFFICES ASSUME Words <= d \div Bits PROVE FALSE
    OBVIOUS
  <2>1. Words * Bits <= (d \div Bits) * Bits
    BY MulMono, <1>1, WordsAssumption
  <2> QED
    BY <1>1, <2>1, BitsAssumption, WordsAssumption, Words * Bits \in Int, (d \div Bits) * Bits \in Int
<1> QED
  BY <1>1, <1>2, WordsAssumption
-----------------------------------------------------------------------------
(***************************************************************************)
(* What the loop over the words and the two bit operations compute.         *)
(***************************************************************************)

\* After a shift by diff, bit b of word i is the bit diff positions below it.
LEMMA SlideMovesBits ==
    ASSUME NEW win \in [Index -> SUBSET BitIndex], NEW diff \in Nat,
           NEW i \in Index, NEW b \in BitIndex
    PROVE  b \in Slide(win, diff)[i]
             <=> \E j \in Index, c \in BitIndex :
                    c \in win[j] /\ j * Bits + c + diff = i * Bits + b
<1> DEFINE wn == diff \div Bits
           bn == diff % Bits
           Word(k) == IF k >= 0 THEN win[k] ELSE {}
<1>1. wn \in Nat /\ bn \in BitIndex /\ diff = wn * Bits + bn
  BY Split
<1>2. Slide(win, diff)[i] =
        IF bn > 0 THEN ShiftLeft(Word(i - wn), bn)
                         \cup ShiftRight(Word(i - wn - 1), Bits - bn)
                  ELSE Word(i - wn)
  BY DEF Slide
<1> HIDE DEF wn, bn
<1>3. ASSUME NEW j \in Index, NEW c \in BitIndex
      PROVE  j * Bits + c + diff = (j + wn) * Bits + (c + bn)
  BY <1>1, BitsAssumption, Z3
<1>4. ASSUME NEW j \in Index, NEW c \in BitIndex,
             j * Bits + c + diff = i * Bits + b
      PROVE  \/ c + bn < Bits  /\ j = i - wn /\ c = b - bn
             \/ c + bn >= Bits /\ j = i - wn - 1 /\ c = b + (Bits - bn)
  <2>1. CASE c + bn < Bits
    <3>1. c + bn \in BitIndex /\ j + wn \in Int /\ i \in Int
      BY <1>1, <2>1, BitsAssumption, WordsAssumption
    <3>2. j + wn = i /\ c + bn = b
      BY <3>1, <1>3, <1>4, Unique
    <3> QED
      BY <2>1, <3>2, <1>1, BitsAssumption, WordsAssumption
  <2>2. CASE c + bn >= Bits
    <3>1. c + bn - Bits \in BitIndex /\ j + wn + 1 \in Int /\ i \in Int
      BY <1>1, <2>2, BitsAssumption, WordsAssumption
    <3>2. (j + wn) * Bits + (c + bn) = (j + wn + 1) * Bits + (c + bn - Bits)
      BY <1>1, BitsAssumption, WordsAssumption, Z3
    <3>3. j + wn + 1 = i /\ c + bn - Bits = b
      BY <3>1, <3>2, <1>3, <1>4, Unique
    <3> QED
      BY <2>2, <3>3, <1>1, BitsAssumption, WordsAssumption
  <2> QED
    BY <2>1, <2>2, <1>1, BitsAssumption
<1>5. ASSUME b \in Slide(win, diff)[i]
      PROVE  \E j \in Index, c \in BitIndex :
                c \in win[j] /\ j * Bits + c + diff = i * Bits + b
  <2>1. \E j \in Index, c \in BitIndex :
            /\ c \in win[j]
            /\ \/ j = i - wn /\ c = b - bn
               \/ j = i - wn - 1 /\ c = b + (Bits - bn)
    <3>1. CASE b - bn \in Word(i - wn)
      <4>1. i - wn \in Index /\ b - bn \in win[i - wn]
        BY <1>1, <3>1, WordsAssumption
      <4> QED
        BY <4>1
    <3>2. CASE b + (Bits - bn) \in Word(i - wn - 1)
      <4>1. i - wn - 1 \in Index /\ b + (Bits - bn) \in win[i - wn - 1]
        BY <1>1, <3>2, WordsAssumption
      <4> QED
        BY <4>1
    <3>3. bn > 0 \/ (bn = 0 /\ b - bn = b)
      BY <1>1, BitsAssumption
    <3> QED
      BY <1>2, <1>5, <3>1, <3>2, <3>3 DEF ShiftLeft, ShiftRight
  <2>2. PICK j \in Index, c \in BitIndex :
            /\ c \in win[j]
            /\ \/ j = i - wn /\ c = b - bn
               \/ j = i - wn - 1 /\ c = b + (Bits - bn)
    BY <2>1
  <2>3. j * Bits + c + diff = i * Bits + b
    <3>1. CASE j = i - wn /\ c = b - bn
      BY <3>1, <1>3, <1>1, BitsAssumption, WordsAssumption
    <3>2. CASE j = i - wn - 1 /\ c = b + (Bits - bn)
      <4>1. (j + wn) * Bits + (c + bn) = (i - 1) * Bits + (b + Bits)
        BY <3>2, <1>1, BitsAssumption, WordsAssumption
      <4>2. (i - 1) * Bits + (b + Bits) = i * Bits + b
        BY BitsAssumption, WordsAssumption, Z3
      <4> QED
        BY <4>1, <4>2, <1>3
    <3> QED
      BY <2>2, <3>1, <3>2
  <2> QED
    BY <2>2, <2>3
<1>6. ASSUME NEW j \in Index, NEW c \in BitIndex,
             c \in win[j], j * Bits + c + diff = i * Bits + b
      PROVE  b \in Slide(win, diff)[i]
  <2>1. CASE c + bn < Bits /\ j = i - wn /\ c = b - bn
    <3>1. Word(i - wn) = win[j] /\ (bn > 0 \/ bn = 0)
      BY <1>1, <2>1, BitsAssumption, WordsAssumption
    <3>2. CASE bn > 0
      BY <1>2, <1>6, <2>1, <3>1, <3>2 DEF ShiftLeft
    <3>3. CASE bn = 0
      BY <1>2, <1>6, <2>1, <3>1, <3>3
    <3> QED
      BY <3>1, <3>2, <3>3
  <2>2. CASE c + bn >= Bits /\ j = i - wn - 1 /\ c = b + (Bits - bn)
    <3>1. Word(i - wn - 1) = win[j] /\ bn > 0
      BY <1>1, <2>2, BitsAssumption, WordsAssumption
    <3> QED
      BY <1>2, <1>6, <2>2, <3>1 DEF ShiftRight
  <2> QED
    BY <1>4, <1>6, <2>1, <2>2
<1> QED
  BY <1>5, <1>6

\* A shifted window is still a window.
LEMMA AdvanceType ==
    ASSUME NEW win \in [Index -> SUBSET BitIndex], NEW diff \in Nat
    PROVE  Advance(win, diff) \in [Index -> SUBSET BitIndex]
<1>1. Zeros \in [Index -> SUBSET BitIndex]
  BY DEF Zeros
<1>2. diff \div Bits \in Nat
  BY Split
<1>3. ASSUME NEW i \in Index
      PROVE  Slide(win, diff)[i] \in SUBSET BitIndex
  BY <1>2, BitsAssumption, WordsAssumption DEF Slide, ShiftLeft, ShiftRight
<1>4. Slide(win, diff) \in [Index -> SUBSET BitIndex]
  BY <1>3 DEF Slide
<1> QED
  BY <1>1, <1>4 DEF Advance

\* Setting the bit of a distance sets that bit and no other.
LEMMA SetBitSets ==
    ASSUME NEW win \in [Index -> SUBSET BitIndex], NEW d \in Nat, d < WindowSize
    PROVE  /\ SetBit(win, d) \in [Index -> SUBSET BitIndex]
           /\ \A i \in Index, b \in BitIndex :
                 b \in SetBit(win, d)[i] <=> b \in win[i] \/ i * Bits + b = d
<1>1. /\ d \div Bits \in Index
      /\ d % Bits \in BitIndex
      /\ d = (d \div Bits) * Bits + (d % Bits)
  BY Split, WordOf
<1>2. ASSUME NEW i \in Index, NEW b \in BitIndex, i * Bits + b = d
      PROVE  i = d \div Bits /\ b = d % Bits
  BY <1>1, <1>2, Unique, WordsAssumption
<1> QED
  BY <1>1, <1>2 DEF SetBit
-----------------------------------------------------------------------------
(***************************************************************************)
(* The inductive invariant, one lemma for each branch of check_replay.      *)
(***************************************************************************)

LEMMA WindowNotEmpty == WindowSize \in Nat /\ 0 < WindowSize
BY InWindow, WordsAssumption, BitsAssumption, Words * Bits \in Int, 0 \in Index, 0 \in BitIndex

\* The branch for a number beyond the highest one.
LEMMA NewerInv ==
    ASSUME IInv, NEW seq \in Seqs, Newer(seq)
    PROVE  IInv'
<1> DEFINE diff == seq - highest
           win  == Advance(window, diff)
<1> USE DEF IInv
<1>1. seq \in Nat /\ diff \in Nat /\ highest \in Nat /\ 0 < diff
  BY SeqsAssumption DEF Newer, TypeOK
<1>2. win \in [Index -> SUBSET BitIndex]
  BY <1>1, AdvanceType DEF TypeOK
<1>3. ASSUME NEW i \in Index, NEW b \in BitIndex
      PROVE  b \in win[i] <=> seq - (i * Bits + b) \in accepted
  <2>1. i * Bits + b \in Nat /\ i * Bits + b < WindowSize
    BY InWindow, WindowNotEmpty
  <2>2. CASE diff >= WindowSize
    <3>1. seq - (i * Bits + b) > highest
      BY <1>1, <2>1, <2>2, WindowNotEmpty
    <3>2. seq - (i * Bits + b) \notin accepted
      <4>1. \A s \in accepted : s <= highest
        BY DEF HighestIsNewest
      <4>2. i * Bits + b \in Int /\ ~(seq - (i * Bits + b) <= highest)
        BY <3>1, <2>1, <1>1
      <4> QED
        BY <4>1, <4>2
    <3>3. win[i] = {}
      BY <2>2 DEF Advance, Zeros
    <3> QED
      BY <3>2, <3>3
  <2>3. CASE ~(diff >= WindowSize)
    <3>1. b \in win[i]
            <=> \E j \in Index, c \in BitIndex :
                   c \in window[j] /\ j * Bits + c + diff = i * Bits + b
      <4>1. win = Slide(window, diff)
        BY <2>3 DEF Advance
      <4>2. window \in [Index -> SUBSET BitIndex]
        BY DEF TypeOK
      <4> HIDE DEF win, diff
      <4> QED
        BY <1>1, <4>1, <4>2, SlideMovesBits
    <3>2. ASSUME NEW j \in Index, NEW c \in BitIndex,
                 c \in window[j], j * Bits + c + diff = i * Bits + b
          PROVE  seq - (i * Bits + b) \in accepted
      <4>1. j * Bits + c \in Nat
        BY InWindow
      <4>2. highest - (j * Bits + c) = seq - (i * Bits + b)
        BY <3>2, <4>1, <1>1, <2>1
      <4> QED
        BY <3>2, <4>2 DEF WindowMatchesHistory
    <3>3. ASSUME seq - (i * Bits + b) \in accepted
          PROVE  \E j \in Index, c \in BitIndex :
                    c \in window[j] /\ j * Bits + c + diff = i * Bits + b
      <4> DEFINE d == highest - (seq - (i * Bits + b))
      <4>1. seq - (i * Bits + b) <= highest
        BY <3>3 DEF HighestIsNewest
      <4>2. d \in Nat /\ d < WindowSize /\ d + diff = i * Bits + b
        BY <4>1, <1>1, <2>1, WindowNotEmpty
      <4>3. /\ d \div Bits \in Index
            /\ d % Bits \in BitIndex
            /\ d = (d \div Bits) * Bits + (d % Bits)
        BY <4>2, Split, WordOf
      <4>4. highest - d = seq - (i * Bits + b)
        BY <1>1, <2>1
      <4> HIDE DEF d
      <4>5. d % Bits \in window[d \div Bits]
        BY <3>3, <4>3, <4>4 DEF WindowMatchesHistory
      <4> QED
        BY <4>2, <4>3, <4>5
    <3> QED
      BY <3>1, <3>2, <3>3
  <2> QED
    BY <2>2, <2>3
<1>4. /\ window' \in [Index -> SUBSET BitIndex]
      /\ \A i \in Index, b \in BitIndex :
            b \in window'[i] <=> b \in win[i] \/ i * Bits + b = 0
  <2> HIDE DEF win
  <2>1. window' = SetBit(win, 0)
    BY DEF Newer, win
  <2> QED
    BY <1>2, <2>1, SetBitSets, WindowNotEmpty
<1> HIDE DEF win
<1>5. TypeOK'
  BY <1>1, <1>4 DEF TypeOK, Newer
<1>6. HighestIsNewest'
  BY <1>1, SeqsAssumption DEF HighestIsNewest, TypeOK, Newer
<1>7. WindowMatchesHistory'
  <2> SUFFICES ASSUME NEW i \in Index, NEW b \in BitIndex
               PROVE  b \in window'[i] <=> seq - (i * Bits + b) \in accepted \cup {seq}
    BY DEF WindowMatchesHistory, Newer
  <2>1. i * Bits + b \in Nat
    BY InWindow
  <2>2. seq - (i * Bits + b) = seq <=> i * Bits + b = 0
    BY <1>1, <2>1
  <2> QED
    BY <1>3, <1>4, <2>2
<1> QED
  BY <1>5, <1>6, <1>7

\* The branch for a number in the window.
LEMMA WithinInv ==
    ASSUME IInv, NEW seq \in Seqs, Within(seq)
    PROVE  IInv'
<1> DEFINE d == highest - seq
<1> USE DEF IInv
<1>1. seq \in Nat /\ highest \in Nat /\ d \in Nat /\ d < WindowSize /\ highest - d = seq
  BY SeqsAssumption DEF Within, TypeOK
<1>2. CASE IsSet(window, d)
  BY <1>2 DEF Within, TypeOK, HighestIsNewest, WindowMatchesHistory
<1>3. CASE ~IsSet(window, d)
  <2>1. /\ window' = SetBit(window, d)
        /\ accepted' = accepted \cup {seq}
        /\ rc' = 0
        /\ highest' = highest
    BY <1>3 DEF Within
  <2>2. accepted # {} \/ highest = seq
    BY <1>1 DEF HighestIsNewest
  <2> HIDE DEF d
  <2>3. /\ window' \in [Index -> SUBSET BitIndex]
        /\ \A i \in Index, b \in BitIndex :
              b \in window'[i] <=> b \in window[i] \/ i * Bits + b = d
    BY <1>1, <2>1, SetBitSets DEF TypeOK
  <2>4. TypeOK'
    BY <2>1, <2>3 DEF TypeOK
  <2>5. HighestIsNewest'
    BY <1>1, <2>1, <2>2 DEF HighestIsNewest, Within
  <2>6. WindowMatchesHistory'
    <3> SUFFICES ASSUME NEW i \in Index, NEW b \in BitIndex
                 PROVE  b \in window'[i] <=> highest - (i * Bits + b) \in accepted \cup {seq}
      BY <2>1 DEF WindowMatchesHistory
    <3>1. i * Bits + b \in Nat
      BY InWindow
    <3>2. highest - (i * Bits + b) = seq <=> i * Bits + b = d
      BY <1>1, <3>1
    <3> QED
      BY <2>3, <3>2 DEF WindowMatchesHistory
  <2> QED
    BY <2>4, <2>5, <2>6
<1> QED
  BY <1>2, <1>3

\* A zeroed window matches an empty history.
LEMMA ZerosInv ==
    ASSUME NEW i \in Index, NEW b \in BitIndex
    PROVE  b \notin Zeros[i] /\ Zeros \in [Index -> SUBSET BitIndex]
BY DEF Zeros

LEMMA InitInv == Init => IInv
BY ZerosInv DEF Init, IInv, TypeOK, HighestIsNewest, WindowMatchesHistory, Zeros

LEMMA NextInv == IInv /\ [Next]_vars => IInv'
<1> SUFFICES ASSUME IInv, [Next]_vars PROVE IInv'
  OBVIOUS
<1>1. ASSUME NEW seq \in Seqs, Expired(seq) PROVE IInv'
  BY <1>1 DEF Expired, IInv, TypeOK, HighestIsNewest, WindowMatchesHistory
<1>2. CASE Reset
  BY <1>2, ZerosInv DEF Reset, IInv, TypeOK, HighestIsNewest, WindowMatchesHistory, Zeros
<1>3. CASE UNCHANGED vars
  BY <1>3 DEF vars, IInv, TypeOK, HighestIsNewest, WindowMatchesHistory
<1> QED
  BY <1>1, <1>2, <1>3, NewerInv, WithinInv DEF Next, CheckReplay
-----------------------------------------------------------------------------
\* check_replay keeps recv_seq_highest, the window of bits and its return code
\* well-typed, for every number and width of words.
THEOREM TypeCorrect == Spec => []TypeOK
BY InitInv, NextInv, PTL DEF Spec, IInv

\* The window of bits records exactly the accepted numbers it covers, whatever
\* the order in which numbers arrive at check_replay.
THEOREM WindowCorrect == Spec => []WindowMatchesHistory
BY InitInv, NextInv, PTL DEF Spec, IInv

\* recv_seq_highest is the newest number accepted under the current key, for every
\* sequence of calls of check_replay.
THEOREM HighestCorrect == Spec => []HighestIsNewest
BY InitInv, NextInv, PTL DEF Spec, IInv

\* Every call of check_replay is a step of the filter it promises to be: it
\* returns 0 exactly for a number that is neither a duplicate nor too old.
LEMMA NextSimulates == IInv /\ [Next]_vars => [Filter!Next]_(Filter!vars)
<1> SUFFICES ASSUME IInv, Next PROVE Filter!Next \/ UNCHANGED Filter!vars
  BY DEF vars, Filter!vars
<1> USE DEF IInv
<1>1. ASSUME NEW seq \in Seqs, Newer(seq) PROVE Filter!Accept(seq)
  <2>1. \A s \in accepted : s <= highest /\ s \in Nat
    BY SeqsAssumption DEF HighestIsNewest, TypeOK
  <2>2. seq \in Nat /\ highest \in Nat /\ seq > highest
    BY <1>1, SeqsAssumption DEF Newer, TypeOK
  <2>3. seq \notin accepted
    BY <2>1, <2>2
  <2>4. ASSUME NEW newer \in accepted PROVE ~(newer >= seq + WindowSize)
    BY <2>1, <2>2, WindowNotEmpty
  <2> QED
    BY <1>1, <2>3, <2>4
       DEF Newer, Filter!Accept, Filter!Duplicate, Filter!TooOld
<1>2. ASSUME NEW seq \in Seqs, Expired(seq) PROVE Filter!Reject(seq)
  <2>1. seq \in Nat /\ highest \in Nat /\ highest >= seq + WindowSize
    BY <1>2, SeqsAssumption, WindowNotEmpty DEF Expired, TypeOK
  <2>2. highest \in accepted
    BY <2>1, WindowNotEmpty DEF HighestIsNewest
  <2> QED
    BY <1>2, <2>1, <2>2 DEF Expired, Filter!Reject, Filter!TooOld
<1>3. ASSUME NEW seq \in Seqs, Within(seq) PROVE Filter!Accept(seq) \/ Filter!Reject(seq)
  <2> DEFINE d == highest - seq
  <2>1. seq \in Nat /\ highest \in Nat /\ d \in Nat /\ d < WindowSize /\ highest - d = seq
    BY <1>3, SeqsAssumption DEF Within, TypeOK
  <2>2. IsSet(window, d) <=> seq \in accepted
    <3>1. /\ d \div Bits \in Index
          /\ d % Bits \in BitIndex
          /\ d = (d \div Bits) * Bits + (d % Bits)
      BY <2>1, Split, WordOf
    <3> QED
      BY <2>1, <3>1 DEF IsSet, WindowMatchesHistory
  <2>3. ASSUME NEW newer \in accepted PROVE ~(newer >= seq + WindowSize)
    <3>1. newer <= highest /\ newer \in Nat
      BY SeqsAssumption DEF HighestIsNewest, TypeOK
    <3> QED
      BY <3>1, <2>1, WindowNotEmpty
  <2> QED
    BY <1>3, <2>2, <2>3
       DEF Within, Filter!Accept, Filter!Reject, Filter!Duplicate, Filter!TooOld
<1>4. CASE Reset
  BY <1>4 DEF Reset, Filter!Next, Filter!Rekey
<1> QED
  BY <1>1, <1>2, <1>3, <1>4 DEF Next, CheckReplay, Filter!Next

\* check_replay implements its promise (ReplayFilter), for every number and
\* width of words and every sequence of packets and rekeys.
THEOREM WindowImplementsFilter == Spec => ImplementsFilter
<1>1. Init => Filter!Init
  BY DEF Init, Filter!Init
<1> QED
  BY <1>1, InitInv, NextInv, NextSimulates, PTL DEF Spec, ImplementsFilter, Filter!Spec
=============================================================================
