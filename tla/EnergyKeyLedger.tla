---------------------------- MODULE EnergyKeyLedger ----------------------------
(***************************************************************************)
(* What the store and the statistics import together promise of the        *)
(* consumption of a meter ("preserves a continuous `sum`", "revise         *)
(* existing rows rather than creating duplicates", README): a book of      *)
(* accounts, one per imported stream.  A day may be booked and corrected   *)
(* while it is open; it closes with time and its amount then stays for     *)
(* good.  Publishing states, for every open day, the sum of all that was   *)
(* booked up to it.  The store may lose an account, and from then on       *)
(* nothing is promised of it.                                              *)
(***************************************************************************)
EXTENDS Integers

CONSTANTS Account, Day, Val, NoRow

VARIABLES
  balance,   \* balance[a][d]: what is booked for day d of account a, 0 if nothing is
  rows,      \* rows[a][d]: the sum last published for day d, by addend
  horizon,   \* days before it are closed
  lost       \* the accounts that were lost

vars == <<balance, rows, horizon, lost>>

Kept == Account \ lost
SumUpTo(a, d) == [e \in Day |-> IF e <= d THEN balance[a][e] ELSE 0]

Init ==
  /\ balance = [a \in Account |-> [d \in Day |-> 0]]
  /\ rows = [a \in Account |-> [d \in Day |-> NoRow]]
  /\ horizon \in Int
  /\ lost = {}

Close ==
  /\ horizon' >= horizon
  /\ UNCHANGED <<balance, rows, lost>>

\* New and corrected amounts of open days, all accounts at once.
Book ==
  /\ lost \subseteq lost'
  /\ \A a \in Kept \ lost', d \in Day :
       balance'[a][d] = balance[a][d] \/ (d >= horizon /\ balance'[a][d] \in Val)
  /\ UNCHANGED <<rows, horizon>>

\* Every open day with an amount gets its sum; other rows stay, or are stated anew.
Publish ==
  /\ \A a \in Kept, d \in Day :
       \/ rows'[a][d] = SumUpTo(a, d)
       \/ rows'[a][d] = rows[a][d] /\ (d < horizon \/ balance[a][d] = 0)
  /\ UNCHANGED <<balance, horizon, lost>>

Next == Close \/ Book \/ Publish

Spec == Init /\ [][Next]_vars

=============================================================================
