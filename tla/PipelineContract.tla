--------------------------- MODULE PipelineContract ---------------------------
(***************************************************************************)
(* What the operational pipeline promises, without leases, attempts,       *)
(* workers or clocks: an accepted job is settled once, as succeeded or     *)
(* dead; a decision is written once, by the job that succeeds with it, and *)
(* brings one projection event into being; an event is settled once, and   *)
(* published only if its eligible facts are in the analytical store.       *)
(***************************************************************************)
CONSTANTS Jobs, Decisions, DecisionsOf, Eligible, None

VARIABLES
    outcome,    \* of each job: "none", "open", "succeeded" or "dead"
    decidedBy,  \* the job that wrote a decision, or None
    delivery,   \* of each decision's event: "none", "open", "published" or "dead"
    facts       \* decisions the analytical store holds

promise == <<outcome, decidedBy, delivery, facts>>

Init ==
    /\ outcome = [j \in Jobs |-> "none"]
    /\ decidedBy = [d \in Decisions |-> None]
    /\ delivery = [d \in Decisions |-> "none"]
    /\ facts = {}

Accept(j) ==
    /\ outcome[j] = "none"
    /\ outcome' = [outcome EXCEPT ![j] = "open"]
    /\ UNCHANGED <<decidedBy, delivery, facts>>

(* Two jobs may reach the same decision; the first one has written it. *)
Succeed(j, d) ==
    /\ outcome[j] = "open"
    /\ \A other \in Decisions : decidedBy[other] # j
    /\ outcome' = [outcome EXCEPT ![j] = "succeeded"]
    /\ decidedBy' = [decidedBy EXCEPT ![d] = IF @ = None THEN j ELSE @]
    /\ delivery' = [delivery EXCEPT ![d] = IF @ = "none" THEN "open" ELSE @]
    /\ UNCHANGED facts

GiveUpJobs(S) ==
    /\ \A j \in S : outcome[j] = "open"
    /\ outcome' = [j \in Jobs |-> IF j \in S THEN "dead" ELSE outcome[j]]
    /\ UNCHANGED <<decidedBy, delivery, facts>>

(* A projector that has lost its lease may still insert. *)
Insert(d) ==
    /\ d \in Eligible
    /\ delivery[d] # "none"
    /\ facts' = facts \cup {d}
    /\ UNCHANGED <<outcome, decidedBy, delivery>>

Publish(d) ==
    /\ delivery[d] = "open"
    /\ d \in Eligible => d \in facts
    /\ delivery' = [delivery EXCEPT ![d] = "published"]
    /\ UNCHANGED <<outcome, decidedBy, facts>>

GiveUpEvents(S) ==
    /\ \A d \in S : delivery[d] = "open"
    /\ delivery' = [d \in Decisions |-> IF d \in S THEN "dead" ELSE delivery[d]]
    /\ UNCHANGED <<outcome, decidedBy, facts>>

Next ==
    \/ \E j \in Jobs : Accept(j) \/ \E d \in DecisionsOf[j] : Succeed(j, d)
    \/ \E S \in SUBSET Jobs : GiveUpJobs(S)
    \/ \E d \in Decisions : Insert(d) \/ Publish(d)
    \/ \E S \in SUBSET Decisions : GiveUpEvents(S)

Spec == Init /\ [][Next]_promise
=============================================================================
