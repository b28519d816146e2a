---------------------------- MODULE AnswerLedger ----------------------------
(***************************************************************************)
(* What a results file promises over the sessions that write it: a case    *)
(* that is done stays done as long as sessions keep what is there, and a   *)
(* session changes one case at a time.                                     *)
(***************************************************************************)
CONSTANT Cases

VARIABLES
  ledger,  \* of each case
  keeps    \* does the session keep what is there?

Open == [c \in Cases |-> "open"]

Init == ledger = Open /\ keeps \in BOOLEAN

Begin == keeps' \in BOOLEAN /\ UNCHANGED ledger

Renew == ~ keeps /\ ledger' = Open /\ UNCHANGED keeps

Record(c) ==
  /\ ledger[c] # "done"
  /\ \E outcome \in {"failed", "done"} : ledger' = [ledger EXCEPT ![c] = outcome]
  /\ UNCHANGED keeps

Next == Begin \/ Renew \/ \E c \in Cases : Record(c)

Spec == Init /\ [][Next]_<<ledger, keeps>>

=============================================================================
