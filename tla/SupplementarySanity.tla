------------------------ MODULE SupplementarySanity ------------------------
(***************************************************************************)
(* The supplementary-sanity auditor (go/consensus/cometbft/apps/          *)
(* supplementarysanity/supplementarysanity.go).  Its EndBlock splits the  *)
(* chain into intervals of Interval blocks and, on entering an interval,  *)
(* draws a random height of the rest of the interval at which it runs the *)
(* state checks.  Its interval and check height are local, not consensus  *)
(* state: a node restart creates the application anew (New) while the     *)
(* chain's height carries on.  The checks themselves are one step; what   *)
(* they inspect is outside this source.                                   *)
(***************************************************************************)
EXTENDS Naturals

CONSTANTS
    Interval,       \* the interval given to New
    MaxHeight       \* bound on the block height

ASSUME Interval \in Nat \ {0}

VARIABLES
    height,             \* height of the last block whose EndBlock ran
    currentInterval,    \* app.currentInterval
    checkHeight,        \* app.checkHeight
    checked             \* history: intervals in which the checks ran

vars == <<height, currentInterval, checkHeight, checked>>

\* rand.Int63n(interval - minimum) + minimum, minimum = height % interval.
\* Mutant: the offset may also be the interval itself.
OffsetsPastEnd(h) == (h % Interval)..Interval

\* Mutant: the offset ignores the part of the interval already passed.
OffsetsFromStart(h) == 0..(Interval - 1)

Offsets(h) == (h % Interval)..(Interval - 1)

\* endBlockImpl at height h: skip height 1, enter a new interval when h
\* falls in another one than the current, run the checks at checkHeight.
EndBlock ==
    /\ height < MaxHeight
    /\ LET h == height + 1
           newInterval == h \div Interval
       IN  /\ height' = h
           /\ IF h = 1
              THEN UNCHANGED <<currentInterval, checkHeight, checked>>
              ELSE \E offset \in IF newInterval # currentInterval THEN Offsets(h) ELSE {0} :
                     LET chk == IF newInterval # currentInterval
                                THEN newInterval * Interval + offset
                                ELSE checkHeight
                     IN  /\ currentInterval' = newInterval
                         /\ checkHeight' = chk
                         /\ checked' = IF h = chk THEN checked \cup {newInterval} ELSE checked

\* The node restarts: New gives an application with zero interval state.
Restart ==
    /\ height < MaxHeight
    /\ currentInterval' = 0 /\ checkHeight' = 0
    /\ UNCHANGED <<height, checked>>

\* The chain stops at the model's height bound.
Done == height = MaxHeight /\ UNCHANGED vars

Init ==
    /\ height = 0
    /\ currentInterval = 0 /\ checkHeight = 0
    /\ checked = {}

Next == EndBlock \/ Restart \/ Done

Spec == Init /\ [][Next]_vars

-----------------------------------------------------------------------------
\* The check height always lies in the current interval (or is the zero of
\* a fresh application).
TypeOK ==
    /\ height \in 0..MaxHeight
    /\ currentInterval \in 0..(MaxHeight \div Interval)
    /\ checkHeight \in {0} \cup (currentInterval * Interval)..((currentInterval + 1) * Interval - 1)
    /\ checked \subseteq 0..(MaxHeight \div Interval)

\* Every interval that starts after height 1 and that the chain has left
\* behind had a block at which the checks ran, restarts notwithstanding.
EveryIntervalChecked ==
    \A k \in 0..(MaxHeight \div Interval) :
        (k * Interval >= 2 /\ (k + 1) * Interval - 1 <= height) => k \in checked
=============================================================================
