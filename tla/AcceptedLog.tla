------------------------------ MODULE AcceptedLog ------------------------------
(***************************************************************************)
(* What a translation thread promises whoever resumes, forks or reports    *)
(* from it: a log with one accepted answer per item, in item order, that   *)
(* grows at its end and is cut back only to where the first failing answer *)
(* stands.  Runs, attempts, crashes and rewinds are invisible here.        *)
(***************************************************************************)
EXTENDS Naturals, Sequences

CONSTANTS N, Answers

VARIABLE log

Entries == [answer : Answers, failing : BOOLEAN]

Init == log = << >>

\* The next item's answer is accepted.
Accept ==
    /\ Len(log) < N
    /\ \E e \in Entries :
          /\ e.answer.item = Len(log) + 1
          /\ log' = Append(log, e)

\* The first failing answer is given up, and everything built on it.
Rewind ==
    \E k \in 1..Len(log) :
        /\ log[k].failing
        /\ \A j \in 1..(k - 1) : ~log[j].failing
        /\ log' = SubSeq(log, 1, k - 1)

Next == Accept \/ Rewind

Spec == Init /\ [][Next]_log
=============================================================================
