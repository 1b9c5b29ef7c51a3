----------------------------- MODULE CatalogCell -----------------------------
(***************************************************************************)
(* What the project catalog promises its callers: one value that changes   *)
(* in a single step, a write that returned Ok is the value, and a write    *)
(* that failed or was cut short either happened or did not.  Nothing is    *)
(* promised once a file was damaged behind the program's back.             *)
(* CatalogFile implements it with four files.                              *)
(***************************************************************************)
CONSTANTS Catalogs, None

VARIABLES
    value,     \* the catalog a reader obtains, None before the first write
    writing,   \* the catalog being written, None between writes
    acked,     \* the last catalog whose write was reported to succeed
    damaged    \* a file was damaged

cellVars == <<value, writing, acked, damaged>>

Init == value = None /\ writing = None /\ acked = None /\ damaged = FALSE

Start(v) == writing = None /\ writing' = v /\ UNCHANGED <<value, acked, damaged>>

Commit == writing # None /\ value' = writing /\ UNCHANGED <<writing, acked, damaged>>

\* The write has happened, and the caller is told so.
Succeed ==
    /\ writing # None /\ value = writing
    /\ acked' = writing /\ writing' = None
    /\ UNCHANGED <<value, damaged>>

\* The caller is told of an error, or nobody is left to be told.
Abandon == writing # None /\ writing' = None /\ UNCHANGED <<value, acked, damaged>>

\* From the damage on, any step is allowed.
Harm == damaged' = TRUE

Next == (\E v \in Catalogs : Start(v)) \/ Commit \/ Succeed \/ Abandon \/ Harm

Spec == Init /\ [][Next]_cellVars
=============================================================================
