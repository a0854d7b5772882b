----------------------------- MODULE RunLedger -----------------------------
(***************************************************************************)
(* What the AUTO SYNC pipeline promises about the runs of an integration   *)
(* account, without queues, locks or workers: a run is opened only when no *)
(* run of the account is open, it stays open until it is closed, and a     *)
(* closed run is never opened a second time.                               *)
(***************************************************************************)
CONSTANTS Accounts,  \* integration accounts
          Runs       \* identifiers of synchronisation runs

VARIABLES open,      \* open[a]: the runs of account a that have not ended
          closed     \* the runs that have ended

ledger == <<open, closed>>

Init ==
    /\ open = [a \in Accounts |-> {}]
    /\ closed = {}

Open(a, r) ==
    /\ open[a] = {}
    /\ r \notin closed
    /\ \A b \in Accounts : r \notin open[b]
    /\ open' = [open EXCEPT ![a] = {r}]
    /\ UNCHANGED closed

Close(a, r) ==
    /\ r \in open[a]
    /\ open' = [open EXCEPT ![a] = @ \ {r}]
    /\ closed' = closed \union {r}

Next == \E a \in Accounts, r \in Runs : Open(a, r) \/ Close(a, r)

Spec == Init /\ [][Next]_ledger
=============================================================================
