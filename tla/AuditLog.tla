------------------------------ MODULE AuditLog ------------------------------
(***************************************************************************)
(* The audit log's two writers that no request waits for: the recorder of  *)
(* requests the Host/Origin guard refuses, bounded by a refusal budget per *)
(* window (backend/app/auth/budget.py, services/audit.py, ingress.py), and *)
(* the daily retention pass (services/audit.py, main.py).                  *)
(*                                                                         *)
(* The budget lives in the process and is changed between two awaits; the  *)
(* row is written later in a transaction of its own, which may fail, while *)
(* other refusals are being recorded.  The names differ from the           *)
(* pipeline's, which a run explores beside this module.                    *)
(***************************************************************************)
EXTENDS Integers, FiniteSets, Functions

CONSTANTS
    Addresses,
    Recorders,     \* refusals being recorded at once
    PerAddress,    \* REFUSALS_PER_ADDRESS
    PerWindow,     \* REFUSALS_PER_WINDOW
    MaxRefused     \* bound: refusals in all

ASSUME AuditLogAssumption ==
    /\ IsFiniteSet(Addresses) /\ IsFiniteSet(Recorders)
    /\ PerAddress \in Nat \ {0}
    /\ PerWindow \in Nat \ {0}
    /\ MaxRefused \in Nat

Counts == 0..MaxRefused

VARIABLES
    process,     \* the API's: "up", told to stop and "stopping", or "down"
    elapsed,     \* the window has run its time
    byAddress,   \* rows each address was granted in this window
    suppressed,  \* refusals this window has left unrecorded
    pending,     \* counts of windows gone by, not handed to a writer yet
    recording,   \* what each recorder is about to write
    table,       \* refusal rows, and the refusals told of in summary rows
    granted,     \* history: rows of either kind handed to writers in this window
    refused,     \* history: requests refused
    lost,        \* history: refusals whose row or count died with a write or a process
    retention,   \* the retention task: "off", in a "pass", or "asleep"
    aged         \* rows older than AUDIT_RETENTION_DAYS are in the table

budget == <<elapsed, byAddress, suppressed, pending>>
auditVars == <<process, budget, recording, table, granted, refused, lost, retention, aged>>

\* A recorder that waits for the database, with the count it is to write too.
Nobody == [busy |-> FALSE, summary |-> 0]

AuditTypeOK ==
    /\ process \in {"up", "stopping", "down"}
    /\ elapsed \in BOOLEAN /\ aged \in BOOLEAN
    /\ byAddress \in [Addresses -> 0..PerAddress]
    /\ suppressed \in Counts /\ pending \in Counts
    /\ recording \in [Recorders -> [busy : BOOLEAN, summary : Counts]]
    /\ table \in [rows : Counts, told : Counts]
    /\ granted \in Nat
    /\ refused \in Counts /\ lost \in Counts
    /\ retention \in {"off", "pass", "asleep"}

-----------------------------------------------------------------------------
(* Refusals.                                                               *)

Total(granting) == SumFunctionOnSet(granting, Addresses)

\* Mutant of Rolled: the window's count is reset before it is carried over.
RolledAfterReset(old, new) == old

\* What is to be told once a window ends with new refusals unrecorded.
Rolled(old, new) == old + new

\* The guard refuses a request from a; the budget grants it a row, and hands its
\* writer what the windows before left to tell, or counts it.
RefuseIngress(a, w) ==
    LET granting == IF elapsed THEN [b \in Addresses |-> 0] ELSE byAddress
        telling == IF elapsed THEN Rolled(pending, suppressed) ELSE pending
        counted == IF elapsed THEN 0 ELSE suppressed
        writers == IF elapsed THEN 0 ELSE granted
    IN  /\ process = "up"
        /\ refused < MaxRefused
        /\ refused' = refused + 1
        /\ elapsed' = FALSE
        /\ IF Total(granting) >= PerWindow \/ granting[a] >= PerAddress
           THEN /\ suppressed' = counted + 1
                /\ pending' = telling
                /\ byAddress' = granting
                /\ granted' = writers
                /\ UNCHANGED recording
           ELSE /\ ~recording[w].busy
                /\ byAddress' = [granting EXCEPT ![a] = @ + 1]
                /\ recording' = [recording EXCEPT ![w] = [busy |-> TRUE, summary |-> telling]]
                /\ granted' = writers + (IF telling > 0 THEN 2 ELSE 1)
                /\ pending' = 0
                /\ suppressed' = counted
        /\ UNCHANGED <<process, table, lost, retention, aged>>

\* The window's sixty seconds are over; the next refusal will notice.
WindowElapses ==
    /\ process = "up"
    /\ ~elapsed
    /\ elapsed' = TRUE
    /\ UNCHANGED <<process, byAddress, suppressed, pending, recording, table, granted,
                   refused, lost, retention, aged>>

\* The refusal's row and the summary commit together.
RowsWritten(w) ==
    /\ recording[w].busy
    /\ table' = [rows |-> table.rows + 1, told |-> table.told + recording[w].summary]
    /\ recording' = [recording EXCEPT ![w] = Nobody]
    /\ UNCHANGED <<process, budget, granted, refused, lost, retention, aged>>

\* The write fails; the guard logs that and answers its refusal all the same.
WriteFails(w) ==
    /\ recording[w].busy
    /\ lost' = lost + 1 + recording[w].summary
    /\ recording' = [recording EXCEPT ![w] = Nobody]
    /\ UNCHANGED <<process, budget, table, granted, refused, retention, aged>>

\* What each recorder has in hand: a refusal, and the refusals it is to tell of.
Held(writers) == [w \in Recorders |-> IF writers[w].busy THEN 1 + writers[w].summary ELSE 0]

InFlight == SumFunctionOnSet(Held(recording), Recorders)

-----------------------------------------------------------------------------
(* Retention.                                                              *)

\* The days go by.
RowsAge ==
    /\ ~aged
    /\ aged' = TRUE
    /\ UNCHANGED <<process, budget, recording, table, granted, refused, lost, retention>>

\* prune_events: under the write gate, the rows past the cutoff go and a row that
\* says so comes, in one transaction.
PassSucceeds ==
    /\ process = "up"
    /\ retention = "pass"
    /\ aged' = FALSE
    /\ retention' = "asleep"
    /\ UNCHANGED <<process, budget, recording, table, granted, refused, lost>>

\* Mutant of AfterFailure: the exception ends the task.
AfterFailureEnds == "off"

\* Where the loop is after a pass that failed.
AfterFailure == "asleep"

PassFails ==
    /\ process = "up"
    /\ retention = "pass"
    /\ retention' = AfterFailure
    /\ UNCHANGED <<process, budget, recording, table, granted, refused, lost, aged>>

\* The interval is over.
Wakes ==
    /\ process = "up"
    /\ retention = "asleep"
    /\ retention' = "pass"
    /\ UNCHANGED <<process, budget, recording, table, granted, refused, lost, aged>>

-----------------------------------------------------------------------------
(* The process.                                                            *)

\* The lifespan begins: a budget of its own, and a pass at once.
StartsUp ==
    /\ process = "down"
    /\ process' = "up"
    /\ retention' = "pass"
    /\ elapsed' = FALSE
    /\ byAddress' = [a \in Addresses |-> 0]
    /\ suppressed' = 0 /\ pending' = 0 /\ granted' = 0
    /\ UNCHANGED <<recording, table, refused, lost, aged>>

\* The lifespan ends: the task is cancelled and waited for.
ShutdownBegins ==
    /\ process = "up"
    /\ process' = "stopping"
    /\ UNCHANGED <<budget, recording, table, granted, refused, lost, retention, aged>>

\* The cancellation arrives at whichever await the loop is at, and is raised again.
LoopCancelled ==
    /\ process = "stopping"
    /\ retention # "off"
    /\ retention' = "off"
    /\ UNCHANGED <<process, budget, recording, table, granted, refused, lost, aged>>

\* What the process held is gone.
Dies ==
    /\ process' = "down"
    /\ retention' = "off"
    /\ lost' = lost + suppressed + pending + InFlight
    /\ suppressed' = 0 /\ pending' = 0
    /\ recording' = [w \in Recorders |-> Nobody]
    /\ UNCHANGED <<elapsed, byAddress, table, granted, refused, aged>>

ShutdownEnds == process = "stopping" /\ retention = "off" /\ Dies

Crashes == process # "down" /\ Dies

AuditInit ==
    /\ process = "up"
    /\ elapsed = FALSE
    /\ byAddress = [a \in Addresses |-> 0]
    /\ suppressed = 0 /\ pending = 0
    /\ recording = [w \in Recorders |-> Nobody]
    /\ table = [rows |-> 0, told |-> 0]
    /\ granted = 0 /\ refused = 0 /\ lost = 0
    /\ retention = "pass"
    /\ aged = FALSE

AuditNext ==
    \/ \E a \in Addresses, w \in Recorders : RefuseIngress(a, w)
    \/ \E w \in Recorders : RowsWritten(w) \/ WriteFails(w)
    \/ WindowElapses \/ RowsAge
    \/ PassSucceeds \/ PassFails \/ Wakes
    \/ StartsUp \/ ShutdownBegins \/ LoopCancelled \/ ShutdownEnds \/ Crashes

\* The interval ends, a cancellation arrives, and a database that keeps answering
\* lets a pass through sooner or later.
AuditFairness ==
    /\ WF_auditVars(Wakes)
    /\ WF_auditVars(LoopCancelled)
    /\ WF_auditVars(ShutdownEnds)
    /\ SF_auditVars(PassSucceeds)

AuditSpec == AuditInit /\ [][AuditNext]_auditVars /\ AuditFairness

-----------------------------------------------------------------------------
(* Properties.                                                             *)

\* "Every refusal past either bound is counted": a refusal is a row, or in a
\* count that was written, is being written or will be, and is missing from the
\* log only when its own write failed or its process ended (services/audit.py).
\* "A flood costs the database at most the bound plus one row per minute"
\* (auth/budget.py).
RefusalsAccounted ==
    /\ AuditTypeOK
    /\ refused = table.rows + table.told + suppressed + pending + InFlight + lost
    /\ granted <= PerWindow + 1

\* "A failed pass is logged and the next is still scheduled": while the process
\* stays up, rows past their days go.  A stop is not taken for a failed pass, and
\* ends (retention_loop and the lifespan).
RetentionGoesOn ==
    /\ <>[](process = "up") => (aged ~> ~aged)
    /\ process = "stopping" ~> process # "stopping"

\* The retention loop lives as long as its process: no failed pass ends it, and it is
\* gone when the process is.
LoopLivesWithItsProcess ==
    /\ process = "up" => retention \in {"pass", "asleep"}
    /\ process = "down" => retention = "off"

=============================================================================
