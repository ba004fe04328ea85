---------------------------- MODULE ScoringLedger ----------------------------
(***************************************************************************)
(* What scoring promises of one trial, with API workers, manager, attempts *)
(* and containers hidden: a ledger with one entry per idempotency key,     *)
(* decided in the order of the entries, each of them once and for good.    *)
(* Results adds rows of many trials by the same two steps.                 *)
(***************************************************************************)
EXTENDS Naturals, Sequences

CONSTANTS Key, Scorer, Verdict
VARIABLE ledger

Entry == [key: Key, scorer: Scorer, outcome: {"open", "error"} \cup Verdict]
Open(i) == ledger[i].outcome = "open"

Init == ledger = <<>>

\* A key is accepted once, whoever asks with it again.
Accept(key, scorer) ==
    /\ \A i \in DOMAIN ledger : ledger[i].key # key
    /\ ledger' = Append(ledger, [key |-> key, scorer |-> scorer, outcome |-> "open"])

\* The oldest open entry is the next to be decided.
Decide(i, outcome) ==
    /\ Open(i)
    /\ \A j \in DOMAIN ledger : Open(j) => i <= j
    /\ ledger' = [ledger EXCEPT ![i].outcome = outcome]

Next ==
    \/ \E key \in Key, scorer \in Scorer : Accept(key, scorer)
    \/ \E i \in DOMAIN ledger, outcome \in {"error"} \cup Verdict : Decide(i, outcome)

Spec == Init /\ [][Next]_ledger
==============================================================================
