---------------------------- MODULE RuntimeSettings ----------------------------
(***************************************************************************)
(* The options the dashboard can change (RuntimeSettings): a dictionary in *)
(* memory and its copy in settings.json, written through a temporary file  *)
(* under one lock.  Several requests may save at once, a write may fail at *)
(* any step, and the process may end between any two.                      *)
(***************************************************************************)
EXTENDS Naturals

CONSTANTS
    Backends,   \* the accepted values of inference_backend
    Editors,    \* requests that save a value
    Absent,     \* no such file, or no such key
    Torn,       \* a file that is not JSON
    Nobody      \* the lock is free

ASSUME SettingsAssumption ==
    /\ Absent \notin Backends /\ Torn \notin Backends /\ Absent # Torn
    /\ Nobody \notin Editors

VARIABLES
    memory,     \* _data["inference_backend"]
    file,       \* settings.json
    tmp,        \* settings.tmp
    holder,     \* who holds _lock
    pc, want,   \* of each request: where it is, the value it saves
    acked,      \* history: the value of the last save that ended well
    behind      \* history: the last save failed, or the start did not read
                \* the file, and no save has ended well since

settings == <<memory, file, tmp, holder, pc, want, acked, behind>>

Steps == {"idle", "asked", "opening", "dumping", "renaming"}

SettingsType ==
    /\ memory \in Backends \cup {Absent}
    /\ file \in Backends \cup {Absent, Torn}
    /\ tmp \in Backends \cup {Absent, Torn}
    /\ holder \in Editors \cup {Nobody}
    /\ pc \in [Editors -> Steps]
    /\ want \in [Editors -> Backends \cup {Absent}]
    /\ acked \in Backends \cup {Absent}
    /\ behind \in BOOLEAN
    /\ \A e \in Editors : holder = e <=> pc[e] \in {"opening", "dumping", "renaming"}

SettingsInit ==
    /\ memory = Absent /\ file = Absent /\ tmp = Absent
    /\ holder = Nobody
    /\ pc = [e \in Editors |-> "idle"]
    /\ want = [e \in Editors |-> Absent]
    /\ acked = Absent /\ behind = FALSE

---------------------------------------------------------------------------
(* set() *)

\* The value is one of the accepted ones; any other is answered with 422.
Ask(e, value) ==
    /\ pc[e] = "idle"
    /\ pc' = [pc EXCEPT ![e] = "asked"]
    /\ want' = [want EXCEPT ![e] = value]
    /\ UNCHANGED <<memory, file, tmp, holder, acked, behind>>

AssignUnlocked(e) ==
    /\ pc[e] = "asked"
    /\ holder' = e
    /\ memory' = want[e]
    /\ pc' = [pc EXCEPT ![e] = "opening"]
    /\ UNCHANGED <<file, tmp, want, acked, behind>>

\* Under the lock the dictionary changes first.
Assign(e) ==
    /\ pc[e] = "asked" /\ holder = Nobody
    /\ holder' = e
    /\ memory' = want[e]
    /\ pc' = [pc EXCEPT ![e] = "opening"]
    /\ UNCHANGED <<file, tmp, want, acked, behind>>

OpenInPlace(e) ==
    /\ pc[e] = "opening"
    /\ file' = Torn
    /\ pc' = [pc EXCEPT ![e] = "dumping"]
    /\ UNCHANGED <<memory, tmp, holder, want, acked, behind>>

\* write_text empties the file it opens, then writes the whole dictionary.
OpenTmp(e) ==
    /\ pc[e] = "opening"
    /\ tmp' = Torn
    /\ pc' = [pc EXCEPT ![e] = "dumping"]
    /\ UNCHANGED <<memory, file, holder, want, acked, behind>>

Dump(e) ==
    /\ pc[e] = "dumping"
    /\ tmp' = memory
    /\ pc' = [pc EXCEPT ![e] = "renaming"]
    /\ UNCHANGED <<memory, file, holder, want, acked, behind>>

\* replace() is atomic; leaving the block frees the lock.
Rename(e) ==
    /\ pc[e] = "renaming"
    /\ file' = tmp /\ tmp' = Absent
    /\ holder' = Nobody
    /\ acked' = want[e] /\ behind' = FALSE
    /\ pc' = [pc EXCEPT ![e] = "idle"]
    /\ want' = [want EXCEPT ![e] = Absent]
    /\ UNCHANGED memory

\* An OSError at any of the three calls frees the lock and is answered with
\* 500; the dictionary keeps the new value.
WriteFails(e) ==
    /\ pc[e] \in {"opening", "dumping", "renaming"}
    /\ holder' = Nobody /\ behind' = TRUE
    /\ pc' = [pc EXCEPT ![e] = "idle"]
    /\ want' = [want EXCEPT ![e] = Absent]
    /\ UNCHANGED <<memory, file, tmp, acked>>

Edit(e) ==
    \/ \E value \in Backends : Ask(e, value)
    \/ Assign(e) \/ OpenTmp(e) \/ Dump(e) \/ Rename(e) \/ WriteFails(e)

---------------------------------------------------------------------------
(* __init__ and the end of the process *)

\* A file that is missing or is not JSON leaves the dictionary empty.
Reading == IF file \in Backends THEN file ELSE Absent

\* So does a file that is there and cannot be read this time: OSError.
Load ==
    /\ \/ memory' = Reading /\ behind' = FALSE
       \/ file # Absent /\ memory' = Absent /\ behind' = TRUE
    /\ UNCHANGED <<file, tmp, holder, pc, want, acked>>

\* What the process held is gone, the files stay as they are.
Forget ==
    /\ memory' = Absent
    /\ holder' = Nobody
    /\ pc' = [e \in Editors |-> "idle"]
    /\ want' = [e \in Editors |-> Absent]
    /\ behind' = FALSE
    /\ UNCHANGED <<file, tmp, acked>>
=============================================================================
