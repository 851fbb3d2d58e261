----------------------------- MODULE JobLedger ------------------------------
(***************************************************************************)
(* What the submission queue promises for one job: it is accepted once,    *)
(* and then it is submitted or dead-lettered, never the one after the      *)
(* other and never neither of them and gone.  Of a job that was submitted  *)
(* without the worker being told, which a lost answer or a cancelled call  *)
(* brings about, nothing more is promised: it may be submitted again or    *)
(* dead-lettered as well.                                                  *)
(***************************************************************************)
EXTENDS Naturals

CONSTANT Job

VARIABLE ledger

LedgerType == ledger \in [Job -> {"none", "accepted", "submitted", "dead", "unanswered"}]

LedgerInit == ledger = [j \in Job |-> "none"]

Accept(j) == ledger[j] = "none" /\ ledger' = [ledger EXCEPT ![j] = "accepted"]

Submitted(j) == ledger[j] = "accepted" /\ ledger' = [ledger EXCEPT ![j] = "submitted"]

DeadLettered(j) == ledger[j] = "accepted" /\ ledger' = [ledger EXCEPT ![j] = "dead"]

Unanswered(j) == ledger[j] = "accepted" /\ ledger' = [ledger EXCEPT ![j] = "unanswered"]

LedgerNext == \E j \in Job : Accept(j) \/ Submitted(j) \/ DeadLettered(j) \/ Unanswered(j)

LedgerSpec == LedgerInit /\ [][LedgerNext]_ledger
=============================================================================
