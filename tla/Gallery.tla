----------------------------- MODULE Gallery -----------------------------
(***************************************************************************)
(* What a store of faces promises that keeps them in a database and in an  *)
(* index with a copy on disk: each comes into sight once, as a whole, and  *)
(* goes for good when a request that named it goes through, together with  *)
(* all the others it named.  Only a start may change that: it shows what   *)
(* was kept last, or nothing when it cannot read it.                       *)
(***************************************************************************)
EXTENDS Integers

CONSTANTS
    Items,      \* what is put into the store
    Removers    \* requests that take out of it

VARIABLES
    coming,     \* items that may still appear
    shown,      \* items that are found
    kept,       \* items a start would find
    asked,      \* items each request has named and not yet removed
    starts      \* how often the store was started again

vars == <<coming, shown, kept, asked, starts>>

Init ==
    /\ coming = Items
    /\ shown = {} /\ kept = {}
    /\ asked = [r \in Removers |-> {}]
    /\ starts = 0

Appear(i) ==
    /\ i \in coming
    /\ coming' = coming \ {i}
    /\ shown' = shown \cup {i}
    /\ UNCHANGED <<kept, asked, starts>>

\* The item was refused, failed on its way, or came under an id still in use.
Fail(i) ==
    /\ i \in coming
    /\ coming' = coming \ {i}
    /\ UNCHANGED <<shown, kept, asked, starts>>

\* The row of an item is there before its vector: one that is named too early
\* does not appear any more.
Ask(r, named) ==
    /\ asked[r] = {}
    /\ asked' = [asked EXCEPT ![r] = named]
    /\ coming' = coming \ named
    /\ UNCHANGED <<shown, kept, starts>>

Remove(r) ==
    /\ shown' = shown \ asked[r]
    /\ kept' = kept \ asked[r]
    /\ asked' = [asked EXCEPT ![r] = {}]
    /\ UNCHANGED <<coming, starts>>

Withdraw(r) ==
    /\ asked' = [asked EXCEPT ![r] = {}]
    /\ UNCHANGED <<coming, shown, kept, starts>>

Keep ==
    /\ kept' = shown
    /\ UNCHANGED <<coming, shown, asked, starts>>

\* A stop or a crash and the start that follows; a stop keeps what is shown.
Start ==
    /\ starts' = starts + 1
    /\ coming' \subseteq coming
    /\ kept' \in {kept, shown}
    /\ shown' \in {kept', {}}
    /\ asked' = [r \in Removers |-> {}]

Next ==
    \/ \E i \in Items : Appear(i) \/ Fail(i)
    \/ \E r \in Removers : Remove(r) \/ Withdraw(r)
    \/ \E r \in Removers, named \in SUBSET Items : Ask(r, named)
    \/ Keep
    \/ Start

Spec == Init /\ [][Next]_vars
==========================================================================
