---------------------------- MODULE BudgetedPass ----------------------------
(***************************************************************************)
(* What a preload pass promises, without how: it walks a ranked list from  *)
(* the top, gives every target one verdict, spends at most its limit,      *)
(* charges a target in one go or not at all, and the first target that     *)
(* does not fit ends it.  A pass that dies leaves no record.               *)
(***************************************************************************)
EXTENDS Naturals, Sequences

VARIABLES
    running,   \* a pass is under way
    size,      \* the number of ranked targets
    limit,     \* its byte budget
    spent,     \* the bytes charged
    ledger     \* the verdicts, in rank order

vars == <<running, size, limit, spent, ledger>>

Init == running = FALSE /\ size = 0 /\ limit = 0 /\ spent = 0 /\ ledger = <<>>

Begin ==
    /\ ~running /\ running'
    /\ size' \in Nat /\ limit' \in Nat
    /\ spent' = 0 /\ ledger' = <<>>

Judge(verdict) ==
    /\ running /\ Len(ledger) < size
    /\ ledger' = Append(ledger, verdict)
    /\ UNCHANGED <<size, limit>>

\* Nothing to do, or nothing that can be done.
PassOver ==
    \E verdict \in {"skipped", "missing"} : Judge(verdict) /\ UNCHANGED <<running, spent>>

Charge ==
    /\ Judge("preloaded")
    /\ spent' >= spent /\ spent' <= limit
    /\ UNCHANGED running

\* The target that does not fit is the last one considered.
Overflow == Judge("dropped") /\ running' = FALSE /\ UNCHANGED spent

\* The list is done, or the pass was asked to stop.
Stop == running /\ running' = FALSE /\ UNCHANGED <<size, limit, spent, ledger>>

Die ==
    /\ running /\ running' = FALSE
    /\ size' = 0 /\ limit' = 0 /\ spent' = 0 /\ ledger' = <<>>

Next == Begin \/ PassOver \/ Charge \/ Overflow \/ Stop \/ Die

Spec == Init /\ [][Next]_vars
=============================================================================
