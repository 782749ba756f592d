----------------------------- MODULE MCTwoFactor ----------------------------
(* Instances of TwoFactor for TLC. *)
EXTENDS TwoFactor, FiniteSets, TLC

Symmetry == Permutations(Requests) \union Permutations(Emails)

-----------------------------------------------------------------------------
(* Many requests over one challenge, or two requests over many challenges.   *)

InFlight == {r \in Requests : req[r].at # "idle"}

\* The races of one code: every request, every send, but one challenge of a
\* login or of turning 2FA on.
OneChallenge == nextRow <= 2 /\ \A r \in Requests : req[r].payload = NoEmail

\* The races of several challenges: every purpose, two requests at a time, one
\* send and one guess for each code, and no code so old that it has expired.
TwoRequests ==
    /\ Cardinality(InFlight) <= 2
    /\ \A i \in ChallengeId :
          rows[i].sends = 1 /\ rows[i].attempts <= 1 /\ rows[i].age # "expired"

ScopedNext == Next /\ (OneChallenge' \/ TwoRequests')

ScopedSpec == Init /\ [][ScopedNext]_vars
=============================================================================
