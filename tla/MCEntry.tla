------------------------------- MODULE MCEntry -------------------------------
(***************************************************************************)
(* EnergyKeyEntry for an account with two streams that is added, removed  *)
(* and added again, and one that is only logged in to.                     *)
(***************************************************************************)
EXTENDS EnergyKeyEntry, TLC

CONSTANTS home, cabin, heat, volume, water, e1, e2, f1, f2

TwoEntries == {e1, e2}
TwoForms == {f1, f2}
AddedAccounts == {home}
TwoAccounts == {home, cabin}
AccountStreams == (home :> {heat, volume}) @@ (cabin :> {water})

\* Entries and forms are interchangeable; so are the streams of an account.
Symmetry == Permutations(TwoEntries) \cup Permutations(TwoForms) \cup Permutations({heat, volume})
=============================================================================
