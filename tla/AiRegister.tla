------------------------------ MODULE AiRegister ------------------------------
(***************************************************************************)
(* Registering a transaction from a file (AiRegisterService): createJob    *)
(* saves a row and starts processJob without waiting for it, in the memory *)
(* of the process.  The transaction itself and its category are those of   *)
(* the modules Transactions and Categories.                                *)
(*                                                                         *)
(* The account of the extracted data is a name (extractAccount), and       *)
(* create looks for the id of an account with it: PostgreSQL refuses the   *)
(* comparison.  What processJob does after create is never reached.        *)
(***************************************************************************)
EXTENDS FiniteSets

CONSTANT Jobs  \* ids of jobs

VARIABLES
    status,   \* status[j]: the column of the row, "none" when there is no row
    amount,   \* amount[j]: whether the file's name or the text has an amount
    worker,   \* worker[j]: the next step of processJob, "none" when it does not run
    trouble,  \* history: jobs of which a statement has failed
    stopped   \* history: jobs that were running when the process ended

vars == <<status, amount, worker, trouble, stopped>>

\* "completed" is never reached.
Status == {"none", "queued", "processing", "failed"}

Init ==
    /\ status = [j \in Jobs |-> "none"]
    /\ amount = [j \in Jobs |-> FALSE]
    /\ worker = [j \in Jobs |-> "none"]
    /\ trouble = {}
    /\ stopped = {}

createJob(j, found) ==
    /\ status[j] = "none"
    /\ status' = [status EXCEPT ![j] = "queued"]
    /\ amount' = [amount EXCEPT ![j] = found]
    /\ worker' = [worker EXCEPT ![j] = "find"]
    /\ UNCHANGED <<trouble, stopped>>

Goes(j, from, to) == worker[j] = from /\ worker' = [worker EXCEPT ![j] = to]

Find(j) == Goes(j, "find", "start") /\ UNCHANGED <<status, amount, trouble, stopped>>

\* What comes after the extraction, which throws when there is no amount.
extractTransactionDataMutant(j) == IF amount[j] THEN "category" ELSE "none"
extractTransactionData(j) == IF amount[j] THEN "category" ELSE "catch"

Start(j) ==
    /\ Goes(j, "start", extractTransactionData(j))
    /\ status' = [status EXCEPT ![j] = "processing"]
    /\ UNCHANGED <<amount, trouble, stopped>>

findOrCreateCategory(j) ==
    /\ Goes(j, "category", "create")
    /\ UNCHANGED <<status, amount, trouble, stopped>>

\* assertUserAccounts fails: the name of an account is not an id.
CreateTransaction(j) ==
    /\ Goes(j, "create", "catch")
    /\ UNCHANGED <<status, amount, trouble, stopped>>

CatchMutant(j) == Goes(j, "catch", "none") /\ UNCHANGED <<status, amount, trouble, stopped>>
CatchErrorMutant(j) ==
    /\ Goes(j, "catch", "none")
    /\ status' = [status EXCEPT ![j] = "error"]
    /\ UNCHANGED <<amount, trouble, stopped>>

Catch(j) ==
    /\ Goes(j, "catch", "none")
    /\ status' = [status EXCEPT ![j] = "failed"]
    /\ UNCHANGED <<amount, trouble, stopped>>

\* Statements inside the try are caught.
Guarded == {"start", "category", "create"}

StatementFails(j) ==
    /\ worker[j] \in Guarded
    /\ worker' = [worker EXCEPT ![j] = "catch"]
    /\ trouble' = trouble \union {j}
    /\ UNCHANGED <<status, amount, stopped>>

\* The process ends: its jobs are not taken up again.
End ==
    /\ stopped' = stopped \union {j \in Jobs : worker[j] # "none"}
    /\ worker' = [j \in Jobs |-> "none"]
    /\ UNCHANGED <<status, amount>>

Running == \E j \in Jobs : worker[j] # "none"

Stop == Running /\ End /\ UNCHANGED trouble

\* A rejection of processJob that nobody handles ends the process.
Rejected(j) ==
    /\ worker[j] # "none" /\ worker[j] \notin Guarded
    /\ trouble' = trouble \union {j}
    /\ End

Step(j) == Find(j) \/ Start(j) \/ findOrCreateCategory(j) \/ CreateTransaction(j) \/ Catch(j)

Next ==
    \/ \E j \in Jobs, found \in BOOLEAN : createJob(j, found)
    \/ \E j \in Jobs : Step(j) \/ StatementFails(j) \/ Rejected(j)
    \/ Stop

Spec == Init /\ [][Next]_vars

\* The event loop goes on with every job.
Fairness == \A j \in Jobs : WF_vars(Step(j))

(***************************************************************************)
(* Properties.                                                             *)
(***************************************************************************)
\* A job with a row runs in the process, has ended, or was running when the process ended.
TypeOK ==
    /\ status \in [Jobs -> Status]
    /\ worker \in [Jobs -> {"none", "find", "catch"} \union Guarded]
    /\ trouble \union stopped \subseteq Jobs

\* Only the end of the process leaves a job queued or processing with nobody to do it.
OnlyStopsLeaveJobs ==
    \A j \in Jobs : status[j] \in {"queued", "processing"} => worker[j] # "none" \/ j \in stopped

\* A job that is never cut off ends.
JobsEnd == \A j \in Jobs : status[j] = "queued" ~> status[j] = "failed" \/ j \in stopped

\* ai-register.service.ts:103-107: a job whose data could be extracted ends completed.
AmountIsRegistered == \A j \in Jobs : status[j] = "failed" => ~amount[j] \/ j \in trouble
=============================================================================
