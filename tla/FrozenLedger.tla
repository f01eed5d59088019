---------------------------- MODULE FrozenLedger ----------------------------
(***************************************************************************)
(* What the forward ledger of edge promises, whoever runs it and how often *)
(* it dies: a forecast is written once, and an outcome belongs to a        *)
(* forecast and is written until it is final, never after.                 *)
(***************************************************************************)
CONSTANTS
  Names,      \* symbols: one forecast each, of one experiment and session
  Records,    \* the separate outcomes of a forecast
  Rows,       \* contents of a forecast
  Outcomes,   \* what a record may say
  Final,      \* the outcomes that stand for good
  None        \* no row

VARIABLES
  forecast,   \* [Names -> Rows \cup {None}]
  outcome     \* [Names -> [Records -> Outcomes \cup {None}]]

Init ==
  /\ forecast = [n \in Names |-> None]
  /\ outcome = [n \in Names |-> [rec \in Records |-> None]]

Record(n) ==
  /\ forecast[n] = None
  /\ \E row \in Rows : forecast' = [forecast EXCEPT ![n] = row]
  /\ UNCHANGED outcome

Settle(n, rec) ==
  /\ forecast[n] # None
  /\ outcome[n][rec] \notin Final
  /\ \E o \in Outcomes : outcome' = [outcome EXCEPT ![n][rec] = o]
  /\ UNCHANGED forecast

Next == \E n \in Names : Record(n) \/ \E rec \in Records : Settle(n, rec)

Spec == Init /\ [][Next]_<<forecast, outcome>>
=============================================================================
