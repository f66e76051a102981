-------------------------- MODULE SerialCollection --------------------------
(***************************************************************************)
(* What the write gate promises ("a writer holding it runs to completion,  *)
(* with no other writer interleaving", write_gate.py): requests take effect *)
(* on the collection one at a time, each at one instant, deciding from the *)
(* very state it changes.  WriteGate implements this module.               *)
(***************************************************************************)
EXTENDS CollectionJobs

CONSTANTS Requests, Kinds

VARIABLES
    db,       \* the committed collection
    job,      \* what each request asks for, None before it arrives
    answer    \* "none", "done", "refused" or "failed"

vars == <<db, job, answer>>

Init ==
    /\ db \in {s \in [retailers : {0, 1},
                      orders : [Ids -> OrderStates \cup {None}],
                      kits : [Ids -> KitStates \cup {None}]] : Reachable(s)}
    /\ job = [r \in Requests |-> None]
    /\ answer = [r \in Requests |-> "none"]

Arrive(r) ==
    /\ job[r] = None
    /\ \E j \in JobsOf(Kinds) : job' = [job EXCEPT ![r] = j]
    /\ UNCHANGED <<db, answer>>

Pending(r) == job[r] # None /\ answer[r] = "none"

Serve(r) ==
    /\ Pending(r)
    /\ Allowed(job[r], db)
    /\ db' = Outcome(job[r], db)
    /\ answer' = [answer EXCEPT ![r] = "done"]
    /\ UNCHANGED job

\* An import may also be refused for not being what its preview showed.
Refuse(r) ==
    /\ Pending(r)
    /\ ~Allowed(job[r], db) \/ job[r].kind \in ImportKinds
    /\ answer' = [answer EXCEPT ![r] = "refused"]
    /\ UNCHANGED <<db, job>>

Fail(r) ==
    /\ Pending(r)
    /\ answer' = [answer EXCEPT ![r] = "failed"]
    /\ UNCHANGED <<db, job>>

Next == \E r \in Requests : Arrive(r) \/ Serve(r) \/ Refuse(r) \/ Fail(r)

Spec == Init /\ [][Next]_vars

=============================================================================
