----------------------------- MODULE AgreedLog -----------------------------
(***************************************************************************)
(* What a Raft cluster promises to the state machines it feeds: there is   *)
(* one sequence of chosen entries, it only grows at its end, and what a    *)
(* node may hand to its state machine is a prefix of it that only grows.   *)
(***************************************************************************)
EXTENDS Naturals, Sequences

CONSTANT Node

VARIABLES
    chosen,         \* the entries agreed upon
    known           \* [n] the entries node n may hand to its state machine

agreedVars == <<chosen, known>>

AgreedInit ==
    /\ chosen = <<>>
    /\ known = [n \in Node |-> <<>>]

Extends(longer, s) == Len(s) < Len(longer) /\ SubSeq(longer, 1, Len(s)) = s

\* Node n decides on further entries.
Choose(n) ==
    /\ Extends(chosen', chosen)
    /\ known' = [known EXCEPT ![n] = chosen']

\* Node n hears of entries decided upon earlier.
Learn(n) ==
    /\ \E i \in 1 .. Len(chosen) : known' = [known EXCEPT ![n] = SubSeq(chosen, 1, i)]
    /\ Extends(known'[n], known[n])
    /\ UNCHANGED chosen

AgreedNext == \E n \in Node : Choose(n) \/ Learn(n)

AgreedSpec == AgreedInit /\ [][AgreedNext]_agreedVars

=============================================================================
