----------------------------- MODULE DebtLedger -----------------------------
(***************************************************************************)
(* What the payment planner promises about one debt, whatever requests are *)
(* in flight: a debt is opened with an amount, every abono (payment) takes *)
(* its own amount off what is owed and is kept, never more than is owed,   *)
(* and a deleted debt is closed for good.  PaymentPlanner implements it.   *)
(***************************************************************************)
EXTENDS Naturals

CONSTANTS
    Debts,      \* identities of debts
    MaxTotal,   \* bound: the largest amount a debt is opened with
    MaxPayments \* bound: abonos are numbered 1..MaxPayments

VARIABLES
    state,  \* state[d]: "new", "live" or "removed"
    owed,   \* owed[d]: what is left to pay of a live debt, 0 otherwise
    abonos  \* abonos[d]: the payments of a live debt

ledger == <<state, owed, abonos>>

Amount == 1 .. MaxTotal

Abono == [id : 1 .. MaxPayments, amount : Amount]

Init ==
    /\ state = [d \in Debts |-> "new"]
    /\ owed = [d \in Debts |-> 0]
    /\ abonos = [d \in Debts |-> {}]

Open(d, n) ==
    /\ state[d] = "new"
    /\ state' = [state EXCEPT ![d] = "live"]
    /\ owed' = [owed EXCEPT ![d] = n]
    /\ UNCHANGED abonos

\* One abono: the amount owed and the list of payments move together, and the
\* payment is a new one for this debt.
Pay(d, p) ==
    /\ state[d] = "live"
    /\ p.amount <= owed[d]
    /\ \A q \in abonos[d] : q.id # p.id
    /\ owed' = [owed EXCEPT ![d] = @ - p.amount]
    /\ abonos' = [abonos EXCEPT ![d] = @ \union {p}]
    /\ UNCHANGED state

Close(d) ==
    /\ state[d] = "live"
    /\ state' = [state EXCEPT ![d] = "removed"]
    /\ owed' = [owed EXCEPT ![d] = 0]
    /\ abonos' = [abonos EXCEPT ![d] = {}]

Next ==
    \E d \in Debts :
        \/ \E n \in Amount : Open(d, n)
        \/ \E p \in Abono : Pay(d, p)
        \/ Close(d)

Spec == Init /\ [][Next]_ledger
=============================================================================
