----------------------------- MODULE MCProgress -----------------------------
(* Instances for TLC of the two components in which something must end: the *)
(* requests of PaymentPlanner, and the jobs of AiRegister.  They share no    *)
(* variable: a behaviour is one of the first or one of the second.           *)
EXTENDS PaymentPlanner, TLC

CONSTANT Jobs  \* of AiRegister

VARIABLES part, status, amount, worker, trouble, stopped

jobs == <<status, amount, worker, trouble, stopped>>

Registers == INSTANCE AiRegister

ProgressInit ==
    /\ part \in {"planner", "registers"}
    /\ Init
    /\ Registers!Init

ProgressNext ==
    \/ part = "planner" /\ Next /\ UNCHANGED <<part, jobs>>
    \/ part = "registers" /\ Registers!Next /\ UNCHANGED <<part, vars>>

ProgressVars == <<part, vars, jobs>>

\* Statements end, and the event loop goes on with every job.
ProgressSpec ==
    /\ ProgressInit /\ [][ProgressNext]_ProgressVars
    /\ Fairness
    /\ Registers!Fairness

\* AiRegister: with every variable of its type, only the end of the process leaves a
\* job that nobody does (l.67).
OnlyStopsLeaveJobs == Registers!TypeOK /\ Registers!OnlyStopsLeaveJobs

\* AiRegister: a job that is never cut off ends.
JobsEnd == Registers!JobsEnd

\* AiRegister, ai-register.service.ts:103-107: what could be read from the file is registered.
AmountIsRegistered == Registers!AmountIsRegistered
=============================================================================
