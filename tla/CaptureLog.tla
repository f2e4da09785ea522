---------------------------- MODULE CaptureLog ----------------------------
(***************************************************************************)
(* What the queues and workers behind the detectors promise together: a    *)
(* capture that was accepted waits in line, may be lost while it waits,    *)
(* and otherwise is saved once, in its turn.                               *)
(***************************************************************************)
EXTENDS Naturals, SequencesExt

CONSTANT Jobs

VARIABLES
    waiting,    \* accepted captures in order
    log         \* saved captures in order

Init == waiting = <<>> /\ log = <<>>

Accept(j) ==
    /\ j \notin ToSet(waiting) \cup ToSet(log)
    /\ waiting' = Append(waiting, j)
    /\ UNCHANGED log

Lose ==
    /\ \E i \in DOMAIN waiting : waiting' = RemoveAt(waiting, i)
    /\ UNCHANGED log

Commit ==
    /\ waiting # <<>>
    /\ waiting' = Tail(waiting)
    /\ log' = Append(log, Head(waiting))

Next == (\E j \in Jobs : Accept(j)) \/ Lose \/ Commit

Spec == Init /\ [][Next]_<<waiting, log>>
===========================================================================
