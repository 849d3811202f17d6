----------------------------- MODULE BoundedLog -----------------------------
(***************************************************************************)
(* What the callers of a growing log in bounded memory rely on, although   *)
(* raft_log.h says nothing of bounded memory: entries are found by their   *)
(* index, an entry that is found never changes, and the newest Kept ones   *)
(* are always found, since those are the ones still to be sent, committed  *)
(* and applied.                                                            *)
(***************************************************************************)
EXTENDS Naturals

CONSTANTS Data, Kept            \* the newest Kept entries are kept

VARIABLES
    last,                       \* the index of the last entry
    at                          \* the entries that can be found, by index

boundedVars == <<last, at>>

found == DOMAIN at

BoundedInit == last = 0 /\ at = << >>

BoundedAppend ==
    /\ last' = last + 1
    /\ last' \in found' /\ at'[last'] \in Data
    /\ found' \subseteq found \cup {last'}
    /\ \A i \in found : last' < i + Kept => i \in found'
    /\ \A i \in found' \ {last'} : at'[i] = at[i]

BoundedSpec == BoundedInit /\ [][BoundedAppend]_boundedVars

=============================================================================
