------------------------------- MODULE KbView -------------------------------
(***************************************************************************)
(* What the views promise their readers (`rlp kb why`): the history of the *)
(* entities is that of a prefix of the append-only ledger, without gaps,   *)
(* and the prefix only grows, except when the machine loses power before   *)
(* the views reached the disk.                                             *)
(***************************************************************************)
EXTENDS Integers, Sequences, KbEvents

VARIABLES
    ledger,   \* the events accepted, in the order of their ids
    covered,  \* the length of the prefix the history stands for
    history   \* the <<entity, event id>> pairs shown

HistoryOf(n) == UNION {EntitiesOf(ledger[i]) \X {i} : i \in 1 .. n}

Init == ledger = <<>> /\ covered = 0 /\ history = {}

Append1 ==
    /\ Len(ledger') = Len(ledger) + 1
    /\ \A i \in 1 .. Len(ledger) : ledger'[i] = ledger[i]
    /\ UNCHANGED <<covered, history>>

CatchUp ==
    /\ covered' \in covered .. Len(ledger)
    /\ history' = HistoryOf(covered')
    /\ UNCHANGED ledger

Lose ==
    /\ covered' \in 0 .. covered
    /\ history' = HistoryOf(covered')
    /\ UNCHANGED ledger

Next == Append1 \/ CatchUp \/ Lose

Spec == Init /\ [][Next]_<<ledger, covered, history>>
=============================================================================
