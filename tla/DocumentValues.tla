---------------------------- MODULE DocumentValues ----------------------------
(* What the rows of documents and the keys of the bucket may hold.  It is   *)
(* a module of its own so that TLC evaluates its assumption when Documents  *)
(* is an instance.                                                          *)
EXTENDS Naturals, FiniteSets

CONSTANTS
    Transactions,  \* ids of the user's transactions
    OwnKeys,       \* keys under users/<userId>/
    OtherKeys,     \* keys under users/<another id>/
    OldKeys,       \* keys without that prefix
    DocumentIds,   \* ids of documents; bound: the rows there are at a time
    MaxFiles       \* bound: files, or documents to delete, of one request

ASSUME DocumentConstants ==
    /\ OwnKeys \intersect (OtherKeys \union OldKeys) = {}
    /\ OtherKeys \intersect OldKeys = {}
    /\ Transactions # {}
    /\ DocumentIds # {} /\ IsFiniteSet(DocumentIds)
    /\ MaxFiles \in Nat
=============================================================================
