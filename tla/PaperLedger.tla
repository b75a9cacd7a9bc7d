---------------------------- MODULE PaperLedger ----------------------------
(***************************************************************************)
(* What paper trading promises its books, whatever requests, gates,        *)
(* sessions and sweeps produce them: a position is entered once and        *)
(* settled once, money moves only with those two steps and only on the     *)
(* account that owns the position, it never goes below zero, and a signal  *)
(* pays for at most one of those steps.                                    *)
(***************************************************************************)
EXTENDS Integers

CONSTANTS Accounts, Positions, Signals, None, GrossPnls, Commission

VARIABLES
  holding,    \* position -> "none", "open" or "closed"
  owner,      \* position -> the account that entered it
  cash,       \* account -> balance
  spent       \* the signals that have been executed

vars == <<holding, owner, cash, spent>>

NotBelowZero(x) == IF x < 0 THEN 0 ELSE x

Init ==
  /\ holding = [p \in Positions |-> "none"]
  /\ owner = [p \in Positions |-> None]
  /\ cash \in [Accounts -> Nat]
  /\ spent = {}

Spend(g) == IF g = None THEN spent' = spent
                        ELSE g \notin spent /\ spent' = spent \cup {g}

Enter(p, a, g) ==
  /\ holding[p] = "none"
  /\ holding' = [holding EXCEPT ![p] = "open"]
  /\ owner' = [owner EXCEPT ![p] = a]
  /\ cash' = [cash EXCEPT ![a] = NotBelowZero(@ - Commission)]
  /\ Spend(g)

Settle(p, g) ==
  /\ holding[p] = "open"
  /\ holding' = [holding EXCEPT ![p] = "closed"]
  /\ \E gross \in GrossPnls :
       cash' = [cash EXCEPT ![owner[p]] = NotBelowZero(@ + gross - Commission)]
  /\ Spend(g)
  /\ UNCHANGED owner

Next == \E p \in Positions, g \in Signals \cup {None} :
          \/ Settle(p, g)
          \/ \E a \in Accounts : Enter(p, a, g)

Spec == Init /\ [][Next]_vars
=============================================================================
