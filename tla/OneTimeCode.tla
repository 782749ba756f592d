----------------------------- MODULE OneTimeCode -----------------------------
(***************************************************************************)
(* What a code that is sent by email promises, whatever requests are in    *)
(* flight: it can be guessed a limited number of times for each time it    *)
(* was sent, it is good for one use, after a guess, and only while it is   *)
(* open, and once closed it is not sent, opened or used again.             *)
(* PasswordReset and TwoFactor both implement it: the first in one         *)
(* database transaction, the second without any.                           *)
(***************************************************************************)
EXTENDS Naturals

CONSTANTS
    Codes,        \* identities of codes
    MaxAttempts,  \* guesses for each time a code is sent
    MaxSends      \* how often a code may be sent

VARIABLES
    state,  \* state[i]: "new", "open" or "closed"
    sent,   \* sent[i]: how often code i was sent
    tried,  \* tried[i]: how many guesses were compared with it
    used    \* used[i]: how many requests it let through

code == <<state, sent, tried, used>>

Init ==
    /\ state = [i \in Codes |-> "new"]
    /\ sent = [i \in Codes |-> 0]
    /\ tried = [i \in Codes |-> 0]
    /\ used = [i \in Codes |-> 0]

Closing(S) == [i \in Codes |-> IF i \in S THEN "closed" ELSE state[i]]

\* A new code, or an open one again.
Send(i) ==
    /\ \/ state[i] = "new"
       \/ state[i] = "open" /\ sent[i] < MaxSends
    /\ state' = [state EXCEPT ![i] = "open"]
    /\ sent' = [sent EXCEPT ![i] = @ + 1]
    /\ UNCHANGED <<tried, used>>

\* A guess is compared, also with a code that was closed after the request read it.
Guess(i) ==
    /\ state[i] # "new"
    /\ tried[i] < MaxAttempts * sent[i]
    /\ tried' = [tried EXCEPT ![i] = @ + 1]
    /\ UNCHANGED <<state, sent, used>>

\* One request is let through; other codes may be closed with the one it used.
Use(i, S) ==
    /\ i \in S
    /\ \A j \in S : state[j] = "open"
    /\ tried[i] > 0
    /\ state' = Closing(S)
    /\ used' = [used EXCEPT ![i] = @ + 1]
    /\ UNCHANGED <<sent, tried>>

\* Codes are replaced, withdrawn or exhausted.
Close(S) ==
    /\ \A j \in S : state[j] = "open"
    /\ state' = Closing(S)
    /\ UNCHANGED <<sent, tried, used>>

Next ==
    \/ \E i \in Codes : Send(i)
    \/ \E i \in Codes : Guess(i)
    \/ \E S \in SUBSET Codes : \E i \in S : Use(i, S)
    \/ \E S \in SUBSET Codes : Close(S)

Spec == Init /\ [][Next]_code
=============================================================================
