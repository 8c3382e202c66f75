------------------------------ MODULE JobLedger ------------------------------
(***************************************************************************)
(* What the job store promises of the durable record of each request: a    *)
(* request is written down before it runs, its handler is called at most   *)
(* once in the life of the Home, across every restart, and an outcome that *)
(* has been written down is final.                                         *)
(***************************************************************************)
EXTENDS Naturals

CONSTANT Request

VARIABLES ledger,  \* the durable status of each request
          calls    \* how many times the handler of each request was called

lvars == <<ledger, calls>>

Init ==
  /\ ledger \in [Request -> {"absent", "damaged"}]
  /\ calls = [r \in Request |-> 0]

Accept(r) ==
  /\ ledger[r] = "absent"
  /\ ledger' = [ledger EXCEPT ![r] = "queued"]
  /\ UNCHANGED calls

Call(r) ==
  /\ ledger[r] = "queued" /\ calls[r] = 0
  /\ ledger' = [ledger EXCEPT ![r] = "running"]
  /\ calls' = [calls EXCEPT ![r] = 1]

\* Only a handler that was called can have succeeded.
Settle(r, outcome) ==
  /\ ledger[r] \in {"queued", "running"}
  /\ outcome = "succeeded" => ledger[r] = "running"
  /\ ledger' = [ledger EXCEPT ![r] = outcome]
  /\ UNCHANGED calls

\* A restart settles every interrupted request it can write.
Interrupt ==
  /\ ledger' \in [Request -> {"absent", "damaged", "queued", "running",
                              "succeeded", "failed", "cancelled"}]
  /\ \A r \in Request : \/ ledger'[r] = ledger[r]
                        \/ ledger[r] \in {"queued", "running"} /\ ledger'[r] = "failed"
  /\ UNCHANGED calls

Next ==
  \/ \E r \in Request :
       \/ Accept(r) \/ Call(r)
       \/ \E outcome \in {"succeeded", "failed", "cancelled"} : Settle(r, outcome)
  \/ Interrupt

Spec == Init /\ [][Next]_lvars
=============================================================================
