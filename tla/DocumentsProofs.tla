---------------------------- MODULE DocumentsProofs ----------------------------
(***************************************************************************)
(* Proofs about Documents, for any sets of transactions, keys and requests *)
(* and any number of files and documents.                                  *)
(***************************************************************************)
EXTENDS Documents, FiniteSetTheorems, TLAPS

(***************************************************************************)
(* The inductive invariant.                                                *)
(***************************************************************************)
Known(k) == <<"key", k>> \in excused

Removing(a) == a.at \in {"references", "delete", "rows"}

\* What a request holds, given the call it does next.
HoldingOK(a) ==
  /\ a.adds \subseteq used
  /\ IsFiniteSet(a.found)
  /\ \A d \in a.found : d.key \in linked
  /\ a.at = "row" => a.whole
  /\ a.at = "put" => a.files > 0
  /\ a.at = "head" => a.todo \subseteq a.adds
  /\ a.at = "references" => a.todo \subseteq a.found
  /\ a.at \in {"delete", "rows"} => a.todo = {}
  /\ a.at = "find" => a.doomed = {}
  /\ Removing(a) => \A k \in a.doomed : ~ Foreign(k) /\ \E d \in a.found : d.key = k

\* What a request counted of the rows of a key is still so, unless another request
\* works on the key: the object it will delete has no other row than its own, and
\* the object it will leave has one.
CountsHold(r) ==
  Removing(act[r]) =>
    \A d \in act[r].found : ~ Known(d.key) =>
      /\ d \in documents
      /\ d.key \in act[r].doomed =>
            \A e \in documents : e.key = d.key => e \in act[r].found
      /\ d.key \notin act[r].doomed /\ ~ Foreign(d.key)
           /\ (\A e \in act[r].todo : e.key # d.key) =>
            \E e \in documents \ act[r].found : e.key = d.key
      /\ act[r].at = "rows" /\ d.key \in act[r].doomed => d.key \notin objects

\* A file that a request looked up, or uploaded, is there.
FilesSeen(r) ==
  \A k \in act[r].adds :
    \/ act[r].at \in {"put", "save"}
    \/ act[r].at = "head" /\ k \notin act[r].todo
    => k \in objects \/ Known(k)

\* A file that a request is about to link is not yet in its transaction.
NotYetLinked(r) ==
  act[r].at \in {"head", "put", "save"} =>
    \A k \in act[r].adds, d \in DocumentsOf(act[r].refId) :
      d.key = k => <<"links", act[r].refId>> \in excused

\* A transaction that is removed has no documents but those that were read.
RemovalsKnown(r) ==
  \A t \in Transactions : <<"removal", t>> \notin excused =>
    /\ AddsTo(r, t) => t \in transactions
    /\ RemovesAll(r, t) /\ Removing(act[r]) => DocumentsOf(t) \subseteq act[r].found
    /\ RemovesAll(r, t) /\ act[r].at = "row" => DocumentsOf(t) = {}

RequestOK(r) ==
  /\ HoldingOK(act[r])
  /\ CountsHold(r)
  /\ FilesSeen(r)
  /\ NotYetLinked(r)
  /\ RemovalsKnown(r)

\* Keys come from randomUUID, and ids from PostgreSQL.
RowsOK ==
  /\ IsFiniteSet(documents)
  /\ \A d, e \in documents : d.id = e.id => d = e
  /\ \A d \in documents : d.key \in linked
  /\ linked \intersect OwnKeys \subseteq used

\* Every row has its object, or its object is being deleted before it.
FilesExist ==
  \A d \in documents :
    \/ Foreign(d.key)
    \/ d.key \in objects
    \/ Known(d.key)
    \/ \E r \in Requests : act[r].at = "rows" /\ d.key \in act[r].doomed

IInv ==
  /\ TypeOK
  /\ \A r \in Requests : RequestOK(r)
  /\ RowsOK
  /\ Races \subseteq excused
  /\ FilesExist
  /\ UnlinkedFilesAreDeleted
  /\ DocumentsHaveTransaction
  /\ LinkedOnce

(***************************************************************************)
(* Basic facts.                                                            *)
(***************************************************************************)
LEMMA IdleHolds ==
  /\ Idle \in Holding
  /\ Idle.at = "idle" /\ Idle.adds = {} /\ Idle.found = {} /\ Idle.doomed = {}
  /\ Idle.ids = {} /\ Idle.todo = {} /\ ~ Idle.whole
  /\ HoldingOK(Idle)
  <1>1. (CHOOSE t \in Transactions : TRUE) \in Transactions
    BY DocumentConstants
  <1>2. Idle \in Holding
    BY <1>1, DocumentConstants DEF Idle, Holding
  <1> QED BY <1>2, FS_EmptySet DEF Idle, HoldingOK, Removing

LEMMA ForeignIsNotOwn == \A k \in OwnKeys : ~ Foreign(k)
  BY DocumentConstants DEF Foreign

\* How many rows a key has.
LEMMA ReferencesCount ==
  ASSUME IsFiniteSet(documents), NEW k
  PROVE  /\ References(k) \in Nat
         /\ References(k) > 0 <=> \E d \in documents : d.key = k
         /\ References(k) <= 1 =>
              \A d, e \in documents : d.key = k /\ e.key = k => d = e
         /\ References(k) > 1 =>
              \A d \in documents : \E e \in documents \ {d} : e.key = k
  <1> DEFINE S == {d \in documents : d.key = k}
  <1>1. IsFiniteSet(S)
    BY FS_Subset
  <1>2. Cardinality(S) \in Nat /\ (Cardinality(S) = 0 <=> S = {})
    BY <1>1, FS_CardinalityType, FS_EmptySet
  <1>3. Cardinality(S) = 1 <=> \E d : S = {d}
    BY <1>1, FS_Singleton
  <1>4. References(k) = Cardinality(S)
    BY DEF References
  <1>5. Cardinality(S) > 0 <=> \E d \in documents : d.key = k
    BY <1>2
  <1>6. Cardinality(S) <= 1 => \A d, e \in documents : d.key = k /\ e.key = k => d = e
    <2> SUFFICES ASSUME Cardinality(S) <= 1, NEW d \in S, NEW e \in S PROVE d = e
      OBVIOUS
    <2> QED BY <1>2, <1>3
  <1>7. Cardinality(S) > 1 => \A d \in documents : \E e \in documents \ {d} : e.key = k
    <2> SUFFICES ASSUME Cardinality(S) > 1, NEW d \in documents,
                        \A e \in documents \ {d} : e.key # k
                 PROVE  FALSE
      OBVIOUS
    <2>1. S = {} \/ S = {d}
      OBVIOUS
    <2> QED BY <1>2, <1>3, <2>1
  <1> QED BY <1>2, <1>4, <1>5, <1>6, <1>7

\* Without a race on its key, a request removes one row of it.
LEMMA OneRowOfAKey ==
  ASSUME IInv, NEW r \in Requests, Removing(act[r]),
         NEW d \in act[r].found, NEW e \in act[r].found, d.key = e.key, ~ Known(d.key)
  PROVE  d = e
  <1> DEFINE S == {x \in act[r].found : x.key = d.key}
  <1>1. IsFiniteSet(S)
    BY FS_Subset DEF IInv, RequestOK, HoldingOK
  <1>2. d.key \in Removes(r) /\ d.key \in Keys
    BY DEF Removes, Removing, IInv, TypeOK, Holding, Document
  <1>3. ~ RacedKey(d.key)
    BY <1>2 DEF IInv, Races, Known
  <1>4. ~ (Cardinality(S) > 1)
    BY <1>2, <1>3 DEF RacedKey
  <1>5. Cardinality(S) \in Nat /\ (Cardinality(S) = 0 <=> S = {})
    BY <1>1, FS_CardinalityType, FS_EmptySet
  <1>6. Cardinality(S) = 1 <=> \E x : S = {x}
    BY <1>1, FS_Singleton
  <1>7. d \in S /\ e \in S
    OBVIOUS
  <1> QED BY <1>4, <1>5, <1>6, <1>7

(***************************************************************************)
(* What a step does to the stores, whoever takes it.                       *)
(***************************************************************************)
\* The rows, objects and transactions that go, go by the request that read them.
StepEffects ==
  /\ used \subseteq used' /\ linked \subseteq linked'
  /\ \/ UNCHANGED <<documents, linked>>
     \/ \E q \in Requests : SaveDocuments(q)
     \/ \E q \in Requests : RemoveRows(q)
  /\ \A k \in objects \ objects' : \E q \in Requests :
        /\ act[q].at = "delete" /\ k \in act[q].doomed
        /\ act'[q].at = "rows" /\ act'[q].doomed = act[q].doomed
  /\ \A t \in transactions \ transactions' : \E q \in Requests :
        act[q].at = "row" /\ act[q].refId = t
  /\ \A q \in Requests : act[q].at = "rows" =>
        act'[q] = act[q] \/ Failed(q) \/ RemoveRows(q)
  /\ \A q \in Requests : act[q].at # "rows" => ~ RemoveRows(q)

LEMMA StepHasEffects ==
  ASSUME IInv, Step
  PROVE  StepEffects
  <1> USE DEF StepEffects, IInv, TypeOK
  <1>1. CASE \E k \in OwnKeys : SignUrl(k) \/ Put(k)
    BY <1>1 DEF SignUrl, Put, RemoveRows
  <1>2. CASE \E r \in Requests, t \in Transactions : Edit(r, t) \/ Remove(r, t) \/ Upload(r, t)
    BY <1>2 DEF Edit, Remove, Upload, Continue, stores, RemoveRows
  <1>3. CASE \E r \in Requests : \/ OpenAgain(r)
                                 \/ FindDocuments(r)
                                 \/ CountReferences(r)
                                 \/ CheckAlreadyLinked(r)
                                 \/ HeadObject(r)
    BY <1>3 DEF OpenAgain, FindDocuments, CountReferences, CheckAlreadyLinked, HeadObject,
                Continue, stores, RemoveRows
  <1>4. ASSUME NEW r \in Requests, DeleteObjects(r) PROVE StepEffects
    <2>1. /\ UNCHANGED <<urls, used, transactions, documents, linked>>
          /\ act[r].at = "delete" /\ objects \ objects' \subseteq act[r].doomed
          /\ act' = [act EXCEPT ![r] = [act[r] EXCEPT !.at = "rows"]]
      BY <1>4 DEF DeleteObjects, Continue
    <2>2. act'[r].at = "rows" /\ act'[r].doomed = act[r].doomed
      BY <2>1 DEF Holding
    <2> QED BY <2>1, <2>2 DEF RemoveRows
  <1>5. ASSUME NEW r \in Requests, RemoveRows(r) PROVE StepEffects
    BY <1>5 DEF RemoveRows, Continue
  <1>6. ASSUME NEW r \in Requests, RemoveTransaction(r) PROVE StepEffects
    BY <1>6 DEF RemoveTransaction, Continue, RemoveRows
  <1>7. ASSUME NEW r \in Requests, PutObject(r) PROVE StepEffects
    BY <1>7 DEF PutObject, Continue, RemoveRows
  <1>8. ASSUME NEW r \in Requests, SaveDocuments(r) PROVE StepEffects
    BY <1>8 DEF SaveDocuments, RemoveRows
  <1>9. ASSUME NEW r \in Requests, Fail(r) PROVE StepEffects
    <2>1. act' = [act EXCEPT ![r] = Idle] /\ UNCHANGED stores /\ UNCHANGED linked
      BY <1>9 DEF Fail, Continue
    <2>2. Failed(r)
      BY <2>1 DEF Failed
    <2> QED BY <2>1, <2>2 DEF stores, RemoveRows
  <1> QED BY <1>1, <1>2, <1>3, <1>4, <1>5, <1>6, <1>7, <1>8, <1>9 DEF Step

\* The rows that a request inserts.
LEMMA SavedRows ==
  ASSUME IInv, NEW q \in Requests, SaveDocuments(q)
  PROVE  /\ act[q].at = "save" /\ act'[q].at = "idle"
         /\ UNCHANGED <<objects, urls, used, transactions>>
         /\ linked' = linked \union act[q].adds
         /\ documents \subseteq documents'
         /\ IsFiniteSet(documents')
         /\ documents' \subseteq Document
         /\ \A d, e \in documents' : d.id = e.id => d = e
         /\ \A d \in documents' \ documents :
               d.key \in act[q].adds /\ d.refId = act[q].refId
         /\ \A d, e \in documents' \ documents : d.key = e.key => d = e
         /\ \A k \in act[q].adds : \E d \in documents' : d.key = k
  <1> DEFINE a == act[q]
  <1>1. PICK number \in [a.adds -> FreshIds] :
           /\ \A k, l \in a.adds : number[k] = number[l] => k = l
           /\ documents' = documents \union
                {[id |-> number[k], key |-> k, refId |-> a.refId] : k \in a.adds}
    BY DEF SaveDocuments
  <1>2. /\ a.at = "save" /\ act'[q].at = "idle"
        /\ UNCHANGED <<objects, urls, used, transactions>>
        /\ linked' = linked \union a.adds
    BY IdleHolds DEF SaveDocuments, IInv, TypeOK
  <1>3. a.adds \subseteq Keys /\ a.refId \in Transactions
    BY DEF IInv, TypeOK, Holding
  <1>4. FreshIds \subseteq DocumentIds \ {d.id : d \in documents}
    BY DEF FreshIds
  <1> DEFINE row(k) == [id |-> number[k], key |-> k, refId |-> a.refId]
             added == {row(k) : k \in a.adds}
  <1>5. \A k \in a.adds : /\ row(k) \in Document
                          /\ row(k).id = number[k] /\ row(k).key = k /\ row(k).refId = a.refId
                          /\ number[k] \in DocumentIds
                          /\ \A d \in documents : d.id # number[k]
    BY <1>1, <1>3, <1>4 DEF Document
  <1>6. documents' = documents \union added
    BY <1>1
  <1> HIDE DEF a, row
  <1>7. documents' \subseteq Document
    BY <1>5, <1>6 DEF IInv, TypeOK
  <1>8. \A d \in added : d.key \in a.adds /\ d.refId = a.refId /\ d = row(d.key)
    BY <1>5
  <1>9. \A d, e \in documents' : d.id = e.id => d = e
    <2> SUFFICES ASSUME NEW d \in documents', NEW e \in documents', d.id = e.id PROVE d = e
      OBVIOUS
    <2>1. CASE d \in documents /\ e \in documents
      BY <2>1 DEF IInv, RowsOK
    <2>2. CASE d \in added /\ e \in added
      BY <1>1, <1>5, <2>2
    <2>3. CASE (d \in added /\ e \in documents) \/ (e \in added /\ d \in documents)
      BY <1>5, <2>3
    <2> QED BY <1>6, <2>1, <2>2, <2>3
  <1>10. IsFiniteSet(documents')
    <2> DEFINE f == [d \in documents' |-> d.id]
    <2>1. f \in [documents' -> DocumentIds]
      BY <1>7 DEF Document
    <2>2. \A d, e \in documents' : f[d] = f[e] => d = e
      BY <1>9
    <2> HIDE DEF f
    <2>3. f \in Injection(documents', DocumentIds)
      BY <2>1, <2>2 DEF Injection, IsInjective
    <2> QED BY <2>3, FS_Injection, DocumentConstants
  <1>11. \A d \in documents' \ documents : d \in added
    BY <1>6
  <1>12. \A d, e \in added : d.key = e.key => d = e
    BY <1>8
  <1>13. \A k \in a.adds : row(k) \in documents' /\ row(k).key = k
    BY <1>5, <1>6
  <1>14. \A k \in a.adds : \E d \in documents' : d.key = k
    BY <1>13
  <1> HIDE DEF added
  <1>15. \A d \in documents' \ documents : d.key \in a.adds /\ d.refId = a.refId
    BY <1>8, <1>11
  <1>16. \A d, e \in documents' \ documents : d.key = e.key => d = e
    BY <1>11, <1>12
  <1>17. documents \subseteq documents'
    BY <1>6
  <1> QED BY <1>2, <1>7, <1>9, <1>10, <1>14, <1>15, <1>16, <1>17 DEF a

LEMMA ExcusesStay ==
  ASSUME Next
  PROVE  /\ excused \subseteq excused' /\ (Races \subseteq excused)'
         /\ \A k \in Broken : Known(k)'
         /\ \A k : Known(k) => Known(k)'
  BY DEF Next, Known

\* An object whose key was in a row does not come back unnoticed.
LEMMA ComesBack ==
  ASSUME Next, NEW k \in linked, k \notin objects, k \in objects'
  PROVE  Known(k)'
  BY ExcusesStay DEF Broken

\* A key of which one request removes rows while another one removes or links it.
LEMMA KeyRace ==
  ASSUME IInv, NEW r \in Requests, NEW q \in Requests, r # q, NEW k,
         k \in Removes(r), k \in Removes(q) \union Links(q)
  PROVE  Known(k)
  <1>1. k \in Keys
    BY DEF IInv, TypeOK, Holding, Document, Removes
  <1> QED BY <1>1 DEF IInv, Races, RacedKey, Known

(***************************************************************************)
(* What other requests do leaves what a request knows.                     *)
(***************************************************************************)
LEMMA OthersKeepCounts ==
  ASSUME IInv, Next, NEW s \in Requests, act'[s] = act[s]
  PROVE  CountsHold(s)'
  <1> SUFFICES ASSUME Removing(act[s]), NEW d \in act[s].found, ~ Known(d.key)'
               PROVE  /\ d \in documents'
                      /\ d.key \in act[s].doomed =>
                            \A e \in documents' : e.key = d.key => e \in act[s].found
                      /\ d.key \notin act[s].doomed /\ ~ Foreign(d.key)
                           /\ (\A e \in act[s].todo : e.key # d.key) =>
                            \E e \in documents' \ act[s].found : e.key = d.key
                      /\ act[s].at = "rows" /\ d.key \in act[s].doomed => d.key \notin objects'
    BY DEF CountsHold, Removing, Known
  <1>1. ~ Known(d.key)
    BY ExcusesStay
  <1>2. /\ d \in documents
        /\ d.key \in act[s].doomed =>
              \A e \in documents : e.key = d.key => e \in act[s].found
        /\ d.key \notin act[s].doomed /\ ~ Foreign(d.key)
             /\ (\A e \in act[s].todo : e.key # d.key) =>
              \E e \in documents \ act[s].found : e.key = d.key
        /\ act[s].at = "rows" /\ d.key \in act[s].doomed => d.key \notin objects
    BY <1>1 DEF IInv, RequestOK, CountsHold
  <1>3. d.key \in Removes(s)
    BY DEF Removes, Removing
  <1>4. StepEffects
    BY StepHasEffects DEF Next
  <1>5. \A e : e.key = d.key => (e \in documents <=> e \in documents')
    <2>1. CASE UNCHANGED documents
      BY <2>1
    <2>2. ASSUME NEW q \in Requests, SaveDocuments(q)
          PROVE  \A e : e.key = d.key => (e \in documents <=> e \in documents')
      <3>1. q # s
        BY <2>2, SavedRows DEF Removing
      <3>2. d.key \notin act[q].adds
        BY <1>1, <1>3, <2>2, <3>1, KeyRace, SavedRows DEF Links
      <3> QED BY <2>2, <3>2, SavedRows
    <2>3. ASSUME NEW q \in Requests, RemoveRows(q)
          PROVE  \A e : e.key = d.key => (e \in documents <=> e \in documents')
      <3>1. act[q].at = "rows" /\ documents' = documents \ act[q].found
        BY <2>3 DEF RemoveRows
      <3>2. q # s
        <4>1. act'[q].at # "rows"
          BY <2>3, IdleHolds DEF RemoveRows, Continue, IInv, TypeOK, Idle
        <4> QED BY <3>1, <4>1
      <3>3. \A e \in act[q].found : e.key # d.key
        BY <1>1, <1>3, <3>1, <3>2, KeyRace DEF Removes
      <3> QED BY <3>1, <3>3
    <2> QED BY <1>4, <2>1, <2>2, <2>3 DEF StepEffects
  <1>6. d.key \notin objects => d.key \notin objects'
    <2>1. d.key \in linked
      BY <1>2 DEF IInv, RowsOK
    <2> QED BY <2>1, ComesBack
  <1> QED BY <1>2, <1>5, <1>6

LEMMA OthersKeepFiles ==
  ASSUME IInv, Next, NEW s \in Requests, act'[s] = act[s]
  PROVE  FilesSeen(s)'
  <1> SUFFICES ASSUME NEW k \in act[s].adds,
                      \/ act[s].at \in {"put", "save"}
                      \/ act[s].at = "head" /\ k \notin act[s].todo,
                      k \notin objects', ~ Known(k)'
               PROVE  FALSE
    BY DEF FilesSeen
  <1>1. ~ Known(k) /\ k \in objects
    BY ExcusesStay DEF IInv, RequestOK, FilesSeen
  <1>2. PICK q \in Requests : act[q].at = "delete" /\ k \in act[q].doomed
    BY <1>1, StepHasEffects DEF StepEffects, Next
  <1>3. k \in Removes(q)
    BY <1>2 DEF IInv, RequestOK, HoldingOK, Removing, Removes
  <1>4. q # s /\ k \in Links(s)
    BY <1>2 DEF Links
  <1> QED BY <1>1, <1>3, <1>4, KeyRace

LEMMA OthersKeepNotYetLinked ==
  ASSUME IInv, Next, NEW s \in Requests, act'[s] = act[s]
  PROVE  NotYetLinked(s)'
  <1> DEFINE t == act[s].refId
  <1> SUFFICES ASSUME act[s].at \in {"head", "put", "save"},
                      NEW k \in act[s].adds, NEW d \in documents',
                      d.refId = t, d.key = k
               PROVE  <<"links", t>> \in excused'
    BY DEF NotYetLinked, DocumentsOf
  <1>1. CASE d \in documents
    BY <1>1, ExcusesStay DEF IInv, RequestOK, NotYetLinked, DocumentsOf
  <1>2. CASE d \notin documents
    <2>1. PICK q \in Requests : SaveDocuments(q)
      BY <1>2, StepHasEffects DEF StepEffects, Next, RemoveRows
    <2>2. act[q].at = "save" /\ q # s /\ k \in act[q].adds /\ act[q].refId = t
      BY <1>2, <2>1, SavedRows
    <2>3. k \in Links(q) \intersect Links(s)
      BY <2>2 DEF Links
    <2>4. RacedLinks(t) /\ t \in Transactions
      BY <2>2, <2>3 DEF RacedLinks, IInv, TypeOK, Holding
    <2> QED BY <2>4, ExcusesStay DEF IInv, Races
  <1> QED BY <1>1, <1>2

LEMMA OthersKeepRemovals ==
  ASSUME IInv, Next, NEW s \in Requests, act'[s] = act[s]
  PROVE  RemovalsKnown(s)'
  <1> SUFFICES ASSUME NEW t \in Transactions, <<"removal", t>> \notin excused'
               PROVE  /\ AddsTo(s, t) => t \in transactions'
                      /\ RemovesAll(s, t) /\ Removing(act[s]) =>
                            {d \in documents' : d.refId = t} \subseteq act[s].found
                      /\ RemovesAll(s, t) /\ act[s].at = "row" =>
                            {d \in documents' : d.refId = t} = {}
    BY DEF RemovalsKnown, DocumentsOf, AddsTo, RemovesAll, Removing
  <1>1. <<"removal", t>> \notin excused
    BY ExcusesStay
  <1>2. /\ AddsTo(s, t) => t \in transactions
        /\ RemovesAll(s, t) /\ Removing(act[s]) => DocumentsOf(t) \subseteq act[s].found
        /\ RemovesAll(s, t) /\ act[s].at = "row" => DocumentsOf(t) = {}
    BY <1>1 DEF IInv, RequestOK, RemovalsKnown
  <1>3. ~ RacedRemoval(t)
    BY <1>1 DEF IInv, Races
  <1>4. ASSUME AddsTo(s, t) PROVE t \in transactions'
    <2>1. ASSUME t \notin transactions' PROVE FALSE
      <3>1. PICK q \in Requests : act[q].at = "row" /\ act[q].refId = t
        BY <1>2, <1>4, <2>1, StepHasEffects DEF StepEffects, Next
      <3>2. RemovesAll(q, t)
        BY <3>1 DEF RemovesAll, IInv, RequestOK, HoldingOK
      <3> QED BY <1>3, <1>4, <3>2 DEF RacedRemoval
    <2> QED BY <2>1
  <1>5. ASSUME RemovesAll(s, t)
        PROVE  {d \in documents' : d.refId = t} \subseteq DocumentsOf(t)
    <2> SUFFICES ASSUME NEW d \in documents', d.refId = t, d \notin documents PROVE FALSE
      BY DEF DocumentsOf
    <2>1. PICK q \in Requests : SaveDocuments(q)
      BY StepHasEffects DEF StepEffects, Next, RemoveRows
    <2>2. AddsTo(q, t)
      BY <2>1, SavedRows DEF AddsTo
    <2> QED BY <1>3, <1>5, <2>2 DEF RacedRemoval
  <1> QED BY <1>2, <1>4, <1>5

LEMMA OthersKeep ==
  ASSUME IInv, Next, NEW s \in Requests, act'[s] = act[s]
  PROVE  RequestOK(s)'
  <1>1. HoldingOK(act[s])'
    BY StepHasEffects DEF Next, StepEffects, IInv, RequestOK, HoldingOK, Removing
  <1> QED BY <1>1, OthersKeepCounts, OthersKeepFiles, OthersKeepNotYetLinked, OthersKeepRemovals
          DEF RequestOK

(***************************************************************************)
(* What holds of the stores.                                               *)
(***************************************************************************)
LEMMA NextKeepsRows ==
  ASSUME IInv, Next
  PROVE  RowsOK'
  <1>1. StepEffects
    BY StepHasEffects DEF Next
  <1>2. CASE UNCHANGED <<documents, linked>>
    BY <1>1, <1>2 DEF IInv, RowsOK, StepEffects
  <1>3. ASSUME NEW q \in Requests, SaveDocuments(q) PROVE RowsOK'
    <2>1. act[q].adds \subseteq used
      BY DEF IInv, RequestOK, HoldingOK
    <2> QED BY <1>3, <2>1, SavedRows DEF IInv, RowsOK
  <1>4. ASSUME NEW q \in Requests, RemoveRows(q) PROVE RowsOK'
    <2>1. documents' \subseteq documents /\ UNCHANGED <<linked, used>>
      BY <1>4 DEF RemoveRows, Continue
    <2>2. IsFiniteSet(documents')
      BY <2>1, FS_Subset DEF IInv, RowsOK
    <2> QED BY <2>1, <2>2 DEF IInv, RowsOK
  <1> QED BY <1>1, <1>2, <1>3, <1>4 DEF StepEffects

LEMMA NextKeepsFiles ==
  ASSUME IInv, Next
  PROVE  FilesExist'
  <1> SUFFICES ASSUME NEW d \in documents', ~ Foreign(d.key), d.key \notin objects',
                      ~ Known(d.key)',
                      \A r \in Requests : ~ (act'[r].at = "rows" /\ d.key \in act'[r].doomed)
               PROVE  FALSE
    BY DEF FilesExist, Foreign
  <1>1. StepEffects /\ ~ Known(d.key)
    BY StepHasEffects, ExcusesStay DEF Next
  <1>2. d.key \notin objects
    BY <1>1 DEF StepEffects
  <1>3. CASE d \in documents
    <2>1. PICK r \in Requests : act[r].at = "rows" /\ d.key \in act[r].doomed
      BY <1>1, <1>2, <1>3 DEF IInv, FilesExist
    <2>2. CASE Failed(r)
      <3>1. d.key \in Broken
        <4>1. r \in {q \in Requests : act[q].at = "rows" /\ Failed(q)}
          BY <2>1, <2>2
        <4> HIDE DEF Failed
        <4> QED BY <2>1, <4>1 DEF Broken
      <3> QED BY <3>1, ExcusesStay
    <2>3. CASE RemoveRows(r)
      <3>1. documents' = documents \ act[r].found
        BY <2>3 DEF RemoveRows
      <3>2. PICK e \in act[r].found : e.key = d.key
        BY <2>1 DEF IInv, RequestOK, HoldingOK, Removing
      <3>3. d \in act[r].found
        BY <1>1, <1>3, <2>1, <3>2 DEF IInv, RequestOK, CountsHold, Removing
      <3> QED BY <3>1, <3>3
    <2> QED BY <1>1, <2>1, <2>2, <2>3 DEF StepEffects
  <1>4. CASE d \notin documents
    <2>1. PICK q \in Requests : SaveDocuments(q)
      BY <1>1, <1>4 DEF StepEffects, RemoveRows
    <2>2. act[q].at = "save" /\ d.key \in act[q].adds
      BY <1>4, <2>1, SavedRows
    <2> QED BY <1>1, <1>2, <2>2 DEF IInv, RequestOK, FilesSeen
  <1> QED BY <1>3, <1>4

LEMMA NextKeepsUnlinked ==
  ASSUME IInv, Next
  PROVE  UnlinkedFilesAreDeleted'
  <1> SUFFICES ASSUME NEW k \in linked' \ OtherKeys, k \in objects', ~ Known(k)'
               PROVE  (References(k) > 0)'
    BY DEF UnlinkedFilesAreDeleted, Known
  <1>1. StepEffects /\ ~ Known(k)
    BY StepHasEffects, ExcusesStay DEF Next
  <1>2. IsFiniteSet(documents')
    BY NextKeepsRows DEF RowsOK
  <1>3. (\E d \in documents' : d.key = k) => (References(k) > 0)'
    <2> DEFINE S == {d \in documents' : d.key = k}
    <2>1. IsFiniteSet(S)
      BY <1>2, FS_Subset
    <2>2. Cardinality(S) \in Nat /\ (Cardinality(S) = 0 <=> S = {})
      BY <2>1, FS_CardinalityType, FS_EmptySet
    <2> QED BY <2>2 DEF References
  <1>4. CASE k \in linked
    <2>1. k \in objects
      BY <1>4, ComesBack
    <2>2. PICK d \in documents : d.key = k
      BY <1>1, <1>4, <2>1, ReferencesCount DEF IInv, UnlinkedFilesAreDeleted, Known, RowsOK
    <2>3. ASSUME NEW q \in Requests, RemoveRows(q) PROVE \E e \in documents' : e.key = k
      <3>1. act[q].at = "rows" /\ documents' = documents \ act[q].found
        BY <2>3 DEF RemoveRows
      <3>2. CASE d \in act[q].found
        <4>1. k \notin act[q].doomed
          BY <1>1, <2>1, <2>2, <3>1, <3>2 DEF IInv, RequestOK, CountsHold, Removing
        <4>2. act[q].todo = {} /\ ~ Foreign(k)
          BY <3>1 DEF IInv, RequestOK, HoldingOK, Foreign
        <4>3. \E e \in documents \ act[q].found : e.key = k
          BY <1>1, <2>2, <3>1, <3>2, <4>1, <4>2 DEF IInv, RequestOK, CountsHold, Removing
        <4> QED BY <3>1, <4>3
      <3>3. CASE d \notin act[q].found
        BY <2>2, <3>1, <3>3
      <3> QED BY <3>2, <3>3
    <2>4. \E e \in documents' : e.key = k
      BY <1>1, <2>2, <2>3, SavedRows DEF StepEffects
    <2> QED BY <1>3, <2>4
  <1>5. CASE k \notin linked
    <2>1. PICK q \in Requests : SaveDocuments(q)
      BY <1>1, <1>5 DEF StepEffects, RemoveRows, Continue
    <2>2. k \in act[q].adds
      BY <1>5, <2>1, SavedRows
    <2> QED BY <1>3, <2>1, <2>2, SavedRows
  <1> QED BY <1>4, <1>5

LEMMA NextKeepsTransactions ==
  ASSUME IInv, Next
  PROVE  DocumentsHaveTransaction'
  <1> SUFFICES ASSUME NEW d \in documents', d.refId \notin transactions',
                      <<"removal", d.refId>> \notin excused'
               PROVE  FALSE
    BY DEF DocumentsHaveTransaction
  <1>1. StepEffects /\ <<"removal", d.refId>> \notin excused
    BY StepHasEffects, ExcusesStay DEF Next
  <1>2. CASE d \in documents
    <2>1. d.refId \in transactions /\ d.refId \in Transactions
      BY <1>1, <1>2 DEF IInv, DocumentsHaveTransaction, TypeOK
    <2>2. PICK q \in Requests : act[q].at = "row" /\ act[q].refId = d.refId
      BY <1>1, <2>1 DEF StepEffects
    <2>3. RemovesAll(q, d.refId)
      BY <2>2 DEF RemovesAll, IInv, RequestOK, HoldingOK
    <2> QED BY <1>1, <1>2, <2>1, <2>2, <2>3 DEF IInv, RequestOK, RemovalsKnown, DocumentsOf
  <1>3. CASE d \notin documents
    <2>1. PICK q \in Requests : SaveDocuments(q)
      BY <1>1, <1>3 DEF StepEffects, RemoveRows
    <2>2. act[q].at = "save" /\ d.refId = act[q].refId /\ UNCHANGED transactions
      BY <1>3, <2>1, SavedRows
    <2>3. d.refId \in Transactions /\ AddsTo(q, d.refId)
      BY <2>2 DEF AddsTo, IInv, TypeOK, Holding
    <2> QED BY <1>1, <2>2, <2>3 DEF IInv, RequestOK, RemovalsKnown
  <1> QED BY <1>2, <1>3

LEMMA NextKeepsLinkedOnce ==
  ASSUME IInv, Next
  PROVE  LinkedOnce'
  <1> SUFFICES ASSUME NEW d \in documents', NEW e \in documents',
                      d.refId = e.refId, d.key = e.key, d.id # e.id
               PROVE  <<"links", d.refId>> \in excused'
    BY DEF LinkedOnce
  <1>1. StepEffects
    BY StepHasEffects DEF Next
  <1>2. CASE d \in documents /\ e \in documents
    BY <1>2, ExcusesStay DEF IInv, LinkedOnce
  <1>3. CASE ~ (d \in documents /\ e \in documents)
    <2>1. PICK q \in Requests : SaveDocuments(q)
      BY <1>1, <1>3 DEF StepEffects, RemoveRows
    <2>2. act[q].at = "save" /\ ~ (d \notin documents /\ e \notin documents)
      BY <2>1, SavedRows
    <2>3. ASSUME NEW old \in documents, NEW new \in documents' \ documents,
                 old.refId = new.refId, old.key = new.key
          PROVE  <<"links", old.refId>> \in excused
      <3>1. new.key \in act[q].adds /\ new.refId = act[q].refId
        BY <2>1, SavedRows
      <3> QED BY <2>2, <2>3, <3>1 DEF IInv, RequestOK, NotYetLinked, DocumentsOf
    <2> QED BY <1>3, <2>2, <2>3, ExcusesStay
  <1> QED BY <1>2, <1>3

(***************************************************************************)
(* What the request that takes the step holds after it.                    *)
(***************************************************************************)
\* A request that has looked at nothing yet.
LEMMA StartsOK ==
  ASSUME NEW r \in Requests,
         act'[r].at \in {"idle", "open", "find", "already", "put"},
         act'[r].adds \subseteq used', act'[r].found = {}, act'[r].doomed = {},
         act'[r].at = "put" => act'[r].adds = {} /\ act'[r].files > 0,
         act'[r].at \in {"already", "put"} => act'[r].refId \in transactions'
  PROVE  RequestOK(r)'
  <1>1. HoldingOK(act[r])'
    BY FS_EmptySet DEF HoldingOK, Removing
  <1>2. CountsHold(r)' /\ FilesSeen(r)' /\ NotYetLinked(r)'
    BY DEF CountsHold, FilesSeen, NotYetLinked, Removing
  <1>3. RemovalsKnown(r)'
    BY DEF RemovalsKnown, AddsTo, RemovesAll, Removing
  <1> QED BY <1>1, <1>2, <1>3 DEF RequestOK

LEMMA EndsOK ==
  ASSUME NEW r \in Requests, act'[r] = Idle
  PROVE  RequestOK(r)'
  <1>1. act'[r].at = "idle" /\ act'[r].adds = {} /\ act'[r].found = {} /\ act'[r].doomed = {}
    BY IdleHolds
  <1> QED BY <1>1, StartsOK

LEMMA OpenedHolds ==
  ASSUME NEW t \in Transactions, NEW ids \in SUBSET DocumentIds, NEW adds \in SUBSET Keys
  PROVE  /\ Opened(t, ids, adds) \in Holding
         /\ Opened(t, ids, adds).at \in {"find", "already"}
         /\ Opened(t, ids, adds).refId = t
         /\ Opened(t, ids, adds).adds = adds
         /\ Opened(t, ids, adds).found = {}
         /\ Opened(t, ids, adds).doomed = {}
  BY IdleHolds DEF Opened, Holding

\* The calls that only start or end a request.
LEMMA EditKeeps ==
  ASSUME IInv, NEW r \in Requests, NEW t \in Transactions, Edit(r, t)
  PROVE  RequestOK(r)' /\ act' \in [Requests -> Holding]
  <1>1. PICK ids \in SUBSET {d.id : d \in DocumentsOf(t)} :
           \E adds \in SUBSET {k \in used \union OtherKeys : IsUserKey(k)} :
              act' = [act EXCEPT ![r] = Opened(t, ids, adds)]
    BY DEF Edit, Continue
  <1>2. PICK adds \in SUBSET {k \in used \union OtherKeys : IsUserKey(k)} :
           act' = [act EXCEPT ![r] = Opened(t, ids, adds)]
    BY <1>1
  <1>3. ids \in SUBSET DocumentIds
    BY DEF DocumentsOf, IInv, TypeOK, Document
  <1>4. adds \subseteq used /\ adds \in SUBSET Keys
    BY DocumentConstants DEF IsUserKey, Keys
  <1>5. act'[r] = Opened(t, ids, adds)
    BY <1>2 DEF IInv, TypeOK
  <1>6. UNCHANGED <<used, transactions>> /\ t \in transactions
    BY DEF Edit, stores
  <1>7. act' \in [Requests -> Holding]
    BY <1>2, <1>3, <1>4, OpenedHolds DEF IInv, TypeOK
  <1>8. /\ act'[r].at \in {"find", "already"} /\ act'[r].refId = t
        /\ act'[r].adds = adds /\ act'[r].found = {} /\ act'[r].doomed = {}
    <2> DEFINE h == Opened(t, ids, adds)
    <2>1. /\ h.at \in {"find", "already"} /\ h.refId = t /\ h.adds = adds
          /\ h.found = {} /\ h.doomed = {}
      BY <1>3, <1>4, OpenedHolds
    <2> HIDE DEF h
    <2>2. act'[r] = h
      BY <1>5 DEF h
    <2> QED BY <2>1, <2>2
  <1> QED BY <1>4, <1>6, <1>7, <1>8, StartsOK

LEMMA RemoveKeeps ==
  ASSUME IInv, NEW r \in Requests, NEW t \in Transactions, Remove(r, t)
  PROVE  RequestOK(r)' /\ act' \in [Requests -> Holding]
  <1> DEFINE h == [Idle EXCEPT !.at = "find", !.refId = t, !.whole = TRUE]
  <1>1. h \in Holding /\ h.at = "find" /\ h.adds = {} /\ h.found = {} /\ h.doomed = {}
    BY IdleHolds DEF Holding
  <1>2. act' = [act EXCEPT ![r] = h]
    BY DEF Remove, Continue
  <1> HIDE DEF h
  <1>3. act'[r] = h /\ act' \in [Requests -> Holding]
    BY <1>1, <1>2 DEF IInv, TypeOK
  <1> QED BY <1>1, <1>3, StartsOK

LEMMA UploadKeeps ==
  ASSUME IInv, NEW r \in Requests, NEW t \in Transactions, Upload(r, t)
  PROVE  RequestOK(r)' /\ act' \in [Requests -> Holding]
  <1>1. PICK n \in 1 .. MaxFiles :
           act' = [act EXCEPT ![r] = [Idle EXCEPT !.at = "put", !.refId = t, !.files = n]]
    BY DEF Upload, Continue
  <1> DEFINE h == [Idle EXCEPT !.at = "put", !.refId = t, !.files = n]
  <1>2. /\ h \in Holding /\ h.at = "put" /\ h.adds = {} /\ h.found = {} /\ h.doomed = {}
        /\ h.files > 0 /\ h.refId = t
    <2>1. n \in 0 .. MaxFiles /\ n > 0
      BY DocumentConstants
    <2>2. h \in Holding
      BY <2>1, IdleHolds DEF Holding
    <2>3. h.at = "put" /\ h.files = n /\ h.refId = t
      BY IdleHolds DEF Holding
    <2>4. h.adds = {} /\ h.found = {} /\ h.doomed = {}
      BY IdleHolds DEF Holding
    <2> QED BY <2>1, <2>2, <2>3, <2>4
  <1>3. act' = [act EXCEPT ![r] = h]
    BY <1>1
  <1> HIDE DEF h
  <1>4. act'[r] = h /\ act' \in [Requests -> Holding]
    BY <1>2, <1>3 DEF IInv, TypeOK
  <1>5. t \in transactions'
    BY DEF Upload, stores
  <1> QED BY <1>2, <1>4, <1>5, StartsOK

LEMMA OpenAgainKeeps ==
  ASSUME IInv, NEW r \in Requests, OpenAgain(r)
  PROVE  RequestOK(r)' /\ act' \in [Requests -> Holding]
  <1> DEFINE a == act[r]
             h == IF a.refId \in transactions THEN Opened(a.refId, {}, a.adds) ELSE Idle
  <1>1. act' = [act EXCEPT ![r] = h] /\ UNCHANGED <<used, transactions>>
    BY DEF OpenAgain, Continue, stores
  <1>2. a.refId \in Transactions /\ a.adds \in SUBSET Keys /\ a.adds \subseteq used
    BY DEF IInv, TypeOK, Holding, RequestOK, HoldingOK
  <1>3. h \in Holding
    BY <1>2, IdleHolds, OpenedHolds
  <1>4. act'[r] = h /\ act' \in [Requests -> Holding]
    BY <1>1, <1>3 DEF IInv, TypeOK
  <1>5. CASE a.refId \in transactions
    <2> DEFINE o == Opened(a.refId, {}, a.adds)
    <2>1. h = o
      BY <1>5
    <2>2. o.at = "already" /\ o.refId = a.refId /\ o.adds = a.adds
      BY IdleHolds DEF Opened, Holding
    <2>3. o.found = {} /\ o.doomed = {}
      BY IdleHolds DEF Opened, Holding
    <2> HIDE DEF h, o
    <2> QED BY <1>1, <1>2, <1>4, <1>5, <2>1, <2>2, <2>3, StartsOK
  <1>6. CASE a.refId \notin transactions
    BY <1>4, <1>6, EndsOK
  <1> QED BY <1>4, <1>5, <1>6

LEMMA IdleAfter ==
  ASSUME IInv, NEW r \in Requests, act' = [act EXCEPT ![r] = Idle]
  PROVE  RequestOK(r)' /\ act' \in [Requests -> Holding]
  <1>1. act'[r] = Idle /\ act' \in [Requests -> Holding]
    BY IdleHolds DEF IInv, TypeOK
  <1> QED BY <1>1, EndsOK

(***************************************************************************)
(* The calls that remove documents.                                        *)
(***************************************************************************)
LEMMA FindDocumentsKeeps ==
  ASSUME IInv, NEW r \in Requests, FindDocuments(r)
  PROVE  RequestOK(r)' /\ act' \in [Requests -> Holding]
  <1> DEFINE a == act[r]
             found == IF a.whole THEN DocumentsOf(a.refId)
                      ELSE Rows(a.ids) \intersect DocumentsOf(a.refId)
             toRow == [a EXCEPT !.at = "row"]
             toCount == [a EXCEPT !.at = "references", !.found = found, !.todo = found]
  <1>1. /\ a.at = "find" /\ UNCHANGED <<objects, used, transactions, documents, linked>>
        /\ \/ a.whole /\ found = {} /\ act' = [act EXCEPT ![r] = toRow]
           \/ act' = [act EXCEPT ![r] = Idle]
           \/ act' = [act EXCEPT ![r] = toCount]
    BY DEF FindDocuments, Continue, stores
  <1>2. a \in Holding /\ HoldingOK(a)
    BY DEF IInv, TypeOK, RequestOK
  <1>3. found \subseteq documents /\ found \subseteq Document /\ IsFiniteSet(found)
    <2>1. found \subseteq documents
      BY DEF Rows, DocumentsOf
    <2> QED BY <2>1, FS_Subset DEF IInv, TypeOK, RowsOK
  <1>4. a.whole => found = DocumentsOf(a.refId)
    OBVIOUS
  <1> HIDE DEF found
  <1>5. CASE act' = [act EXCEPT ![r] = Idle]
    BY <1>5, IdleAfter
  <1>6. CASE a.whole /\ found = {} /\ act' = [act EXCEPT ![r] = toRow]
    <2>1. /\ toRow \in Holding /\ toRow.at = "row" /\ toRow.whole /\ toRow.adds = a.adds
          /\ toRow.found = a.found /\ toRow.refId = a.refId
      BY <1>2, <1>6 DEF Holding
    <2>2. act'[r] = toRow /\ act' \in [Requests -> Holding]
      BY <1>6, <2>1 DEF IInv, TypeOK
    <2> HIDE DEF toRow
    <2>3. HoldingOK(act[r])'
      BY <1>1, <1>2, <2>1, <2>2 DEF HoldingOK, Removing
    <2>4. CountsHold(r)' /\ FilesSeen(r)' /\ NotYetLinked(r)'
      BY <2>1, <2>2 DEF CountsHold, FilesSeen, NotYetLinked, Removing
    <2>5. RemovalsKnown(r)'
      BY <1>1, <1>4, <1>6, <2>1, <2>2
         DEF RemovalsKnown, AddsTo, RemovesAll, Removing, DocumentsOf
    <2> QED BY <2>2, <2>3, <2>4, <2>5 DEF RequestOK
  <1>7. CASE act' = [act EXCEPT ![r] = toCount]
    <2>1. /\ toCount \in Holding /\ toCount.at = "references" /\ toCount.adds = a.adds
          /\ toCount.found = found /\ toCount.todo = found /\ toCount.refId = a.refId
          /\ toCount.whole = a.whole /\ toCount.doomed = a.doomed
      BY <1>2, <1>3 DEF Holding
    <2>2. act'[r] = toCount /\ act' \in [Requests -> Holding]
      BY <1>7, <2>1 DEF IInv, TypeOK
    <2> HIDE DEF toCount
    <2>3. a.doomed = {}
      BY <1>1, <1>2 DEF HoldingOK
    <2>4. HoldingOK(act[r])'
      BY <1>1, <1>2, <1>3, <2>1, <2>2, <2>3 DEF HoldingOK, Removing, IInv, RowsOK
    <2>5. CountsHold(r)'
      BY <1>1, <1>3, <2>1, <2>2, <2>3 DEF CountsHold, Removing
    <2>6. FilesSeen(r)' /\ NotYetLinked(r)'
      BY <2>1, <2>2 DEF FilesSeen, NotYetLinked
    <2>7. RemovalsKnown(r)'
      BY <1>1, <1>4, <2>1, <2>2 DEF RemovalsKnown, AddsTo, RemovesAll, Removing, DocumentsOf
    <2> QED BY <2>2, <2>4, <2>5, <2>6, <2>7 DEF RequestOK
  <1> QED BY <1>1, <1>5, <1>6, <1>7

LEMMA CountReferencesKeeps ==
  ASSUME IInv, Next, NEW r \in Requests, CountReferences(r)
  PROVE  RequestOK(r)' /\ act' \in [Requests -> Holding]
  <1> DEFINE a == act[r]
  <1>1. PICK d \in a.todo :
          act' = [act EXCEPT ![r] =
            [a EXCEPT !.todo = @ \ {d},
                      !.doomed = IF DeletesObject(d.key) THEN @ \union {d.key} ELSE @,
                      !.at = IF a.todo = {d} THEN "delete" ELSE @]]
    BY DEF CountReferences, Continue
  <1> DEFINE h == [a EXCEPT !.todo = @ \ {d},
                      !.doomed = IF DeletesObject(d.key) THEN @ \union {d.key} ELSE @,
                      !.at = IF a.todo = {d} THEN "delete" ELSE @]
  <1>2. a.at = "references" /\ UNCHANGED <<objects, used, transactions, documents, linked>>
    BY DEF CountReferences, Continue, stores
  <1>3. a \in Holding /\ HoldingOK(a) /\ CountsHold(r) /\ RemovalsKnown(r)
    BY DEF IInv, TypeOK, RequestOK
  <1>4. d \in a.found /\ d.key \in Keys /\ d.key \in linked /\ Removing(a)
    BY <1>2, <1>3 DEF HoldingOK, Holding, Document, Removing
  <1>5. /\ h.todo = a.todo \ {d}
        /\ h.doomed = IF DeletesObject(d.key) THEN a.doomed \union {d.key} ELSE a.doomed
        /\ h.at = IF a.todo = {d} THEN "delete" ELSE "references"
        /\ h.refId = a.refId /\ h.whole = a.whole /\ h.adds = a.adds /\ h.found = a.found
    BY <1>2, <1>3 DEF Holding
  <1>6. h \in Holding
    <2>1. a.todo \ {d} \in SUBSET (Document \union Keys)
      BY <1>3 DEF Holding
    <2>2. (IF DeletesObject(d.key) THEN a.doomed \union {d.key} ELSE a.doomed) \in SUBSET Keys
      BY <1>3, <1>4 DEF Holding
    <2> HIDE DEF a
    <2> QED BY <1>2, <1>3, <2>1, <2>2 DEF Holding, a
  <1>7. act' = [act EXCEPT ![r] = h]
    BY <1>1
  <1> HIDE DEF h
  <1>8. act'[r] = h /\ act' \in [Requests -> Holding]
    BY <1>6, <1>7 DEF IInv, TypeOK
  <1>9. HoldingOK(act[r])'
    BY <1>2, <1>3, <1>4, <1>5, <1>8 DEF HoldingOK, Removing, DeletesObject
  <1>10. CountsHold(r)'
    <2> SUFFICES ASSUME NEW e \in a.found, ~ Known(e.key)'
                 PROVE  /\ e \in documents
                        /\ e.key \in h.doomed =>
                              \A x \in documents : x.key = e.key => x \in a.found
                        /\ e.key \notin h.doomed /\ ~ Foreign(e.key)
                             /\ (\A x \in h.todo : x.key # e.key) =>
                              \E x \in documents \ a.found : x.key = e.key
      BY <1>2, <1>5, <1>8 DEF CountsHold, Known
    <2>1. ~ Known(e.key)
      BY ExcusesStay
    <2>2. /\ e \in documents
          /\ e.key \in a.doomed =>
                \A x \in documents : x.key = e.key => x \in a.found
          /\ e.key \notin a.doomed /\ ~ Foreign(e.key)
               /\ (\A x \in a.todo : x.key # e.key) =>
                \E x \in documents \ a.found : x.key = e.key
      BY <1>3, <1>4, <2>1 DEF CountsHold
    <2>3. CASE e.key # d.key
      BY <1>5, <2>2, <2>3
    <2>4. CASE e.key = d.key
      <3>1. d = e
        BY <1>4, <2>1, <2>4, OneRowOfAKey
      <3>2. IsFiniteSet(documents)
        BY DEF IInv, RowsOK
      <3>3. CASE DeletesObject(d.key)
        BY <1>5, <2>2, <2>4, <3>1, <3>2, <3>3, ReferencesCount DEF DeletesObject
      <3>4. CASE ~ DeletesObject(d.key) /\ ~ Foreign(d.key)
        <4>1. References(d.key) > 1
          BY <3>2, <3>4, ReferencesCount DEF DeletesObject
        <4>2. PICK x \in documents \ {e} : x.key = e.key
          BY <2>2, <2>4, <3>2, <4>1, ReferencesCount
        <4>3. x \notin a.found
          BY <1>4, <2>1, <4>2, OneRowOfAKey
        <4> QED BY <1>5, <2>2, <3>4, <4>2, <4>3
      <3>5. CASE ~ DeletesObject(d.key) /\ Foreign(d.key)
        BY <1>5, <2>2, <2>4, <3>5
      <3> QED BY <3>3, <3>4, <3>5
    <2> QED BY <2>3, <2>4
  <1>11. FilesSeen(r)' /\ NotYetLinked(r)'
    BY <1>5, <1>8 DEF FilesSeen, NotYetLinked
  <1>12. RemovalsKnown(r)'
    <2> SUFFICES ASSUME NEW t \in Transactions, <<"removal", t>> \notin excused',
                        a.refId = t, a.whole
                 PROVE  DocumentsOf(t) \subseteq a.found
      BY <1>2, <1>5, <1>8 DEF RemovalsKnown, AddsTo, RemovesAll, Removing, DocumentsOf
    <2> QED BY <1>2, <1>3, <1>4, ExcusesStay DEF RemovalsKnown, RemovesAll
  <1> QED BY <1>8, <1>9, <1>10, <1>11, <1>12 DEF RequestOK

LEMMA DeleteObjectsKeeps ==
  ASSUME IInv, Next, NEW r \in Requests, DeleteObjects(r)
  PROVE  RequestOK(r)' /\ act' \in [Requests -> Holding]
  <1> DEFINE a == act[r]
             h == [a EXCEPT !.at = "rows"]
  <1>1. /\ a.at = "delete" /\ act' = [act EXCEPT ![r] = h]
        /\ UNCHANGED <<used, transactions, documents, linked>>
    BY DEF DeleteObjects, Continue
  <1>2. a \in Holding /\ HoldingOK(a) /\ CountsHold(r) /\ RemovalsKnown(r) /\ Removing(a)
    BY <1>1 DEF IInv, TypeOK, RequestOK, Removing
  <1>3. /\ h \in Holding /\ h.at = "rows" /\ h.refId = a.refId /\ h.whole = a.whole
        /\ h.adds = a.adds /\ h.found = a.found /\ h.todo = a.todo /\ h.doomed = a.doomed
    BY <1>2 DEF Holding
  <1> HIDE DEF h
  <1>4. act'[r] = h /\ act' \in [Requests -> Holding]
    BY <1>1, <1>3 DEF IInv, TypeOK
  <1>5. HoldingOK(act[r])'
    BY <1>1, <1>2, <1>3, <1>4 DEF HoldingOK, Removing
  <1>6. ASSUME NEW k \in a.doomed, k \in objects' PROVE Known(k)'
    <2>1. r \in {q \in Requests : act[q].at = "delete" /\ act'[q].at = "rows"}
      BY <1>1, <1>3, <1>4
    <2>2. k \in Broken
      BY <1>6, <2>1 DEF Broken
    <2> QED BY <2>2, ExcusesStay
  <1>7. CountsHold(r)'
    <2> SUFFICES ASSUME NEW e \in a.found, ~ Known(e.key)'
                 PROVE  /\ e \in documents
                        /\ e.key \in a.doomed =>
                              \A x \in documents : x.key = e.key => x \in a.found
                        /\ e.key \notin a.doomed /\ ~ Foreign(e.key)
                             /\ (\A x \in a.todo : x.key # e.key) =>
                              \E x \in documents \ a.found : x.key = e.key
                        /\ e.key \in a.doomed => e.key \notin objects'
      BY <1>1, <1>3, <1>4 DEF CountsHold, Known
    <2>1. ~ Known(e.key)
      BY ExcusesStay
    <2> QED BY <1>2, <1>6, <2>1 DEF CountsHold
  <1>8. FilesSeen(r)' /\ NotYetLinked(r)'
    BY <1>3, <1>4 DEF FilesSeen, NotYetLinked
  <1>9. RemovalsKnown(r)'
    <2> SUFFICES ASSUME NEW t \in Transactions, <<"removal", t>> \notin excused',
                        a.refId = t, a.whole
                 PROVE  DocumentsOf(t) \subseteq a.found
      BY <1>1, <1>3, <1>4 DEF RemovalsKnown, AddsTo, RemovesAll, Removing, DocumentsOf
    <2> QED BY <1>1, <1>2, ExcusesStay DEF RemovalsKnown, RemovesAll
  <1> QED BY <1>4, <1>5, <1>7, <1>8, <1>9 DEF RequestOK

LEMMA RemoveRowsKeeps ==
  ASSUME IInv, Next, NEW r \in Requests, RemoveRows(r)
  PROVE  RequestOK(r)' /\ act' \in [Requests -> Holding]
  <1> DEFINE a == act[r]
             toRow == [Idle EXCEPT !.at = "row", !.refId = a.refId, !.whole = TRUE]
             toOpen == [Idle EXCEPT !.at = "open", !.refId = a.refId, !.adds = a.adds]
  <1>1. /\ a.at = "rows" /\ documents' = documents \ a.found
        /\ UNCHANGED <<objects, used, transactions, linked>>
        /\ \/ a.whole /\ act' = [act EXCEPT ![r] = toRow]
           \/ act' = [act EXCEPT ![r] = toOpen]
           \/ act' = [act EXCEPT ![r] = Idle]
    BY DEF RemoveRows, Continue
  <1>2. a \in Holding /\ HoldingOK(a) /\ RemovalsKnown(r) /\ Removing(a)
    BY <1>1 DEF IInv, TypeOK, RequestOK, Removing
  <1>3. a.refId \in Transactions /\ a.adds \subseteq Keys /\ a.adds \subseteq used
    BY <1>2 DEF Holding, HoldingOK
  <1>4. CASE act' = [act EXCEPT ![r] = Idle]
    BY <1>4, IdleAfter
  <1>5. CASE act' = [act EXCEPT ![r] = toOpen]
    <2>1. /\ toOpen \in Holding /\ toOpen.at = "open" /\ toOpen.adds = a.adds
          /\ toOpen.found = {} /\ toOpen.doomed = {}
      BY <1>3, IdleHolds DEF Holding
    <2> HIDE DEF toOpen
    <2>2. act'[r] = toOpen /\ act' \in [Requests -> Holding]
      BY <1>5, <2>1 DEF IInv, TypeOK
    <2> QED BY <1>1, <1>3, <2>1, <2>2, StartsOK
  <1>6. CASE a.whole /\ act' = [act EXCEPT ![r] = toRow]
    <2>1. /\ toRow \in Holding /\ toRow.at = "row" /\ toRow.whole /\ toRow.refId = a.refId
          /\ toRow.adds = {} /\ toRow.found = {}
      BY <1>3, IdleHolds DEF Holding
    <2> HIDE DEF toRow
    <2>2. act'[r] = toRow /\ act' \in [Requests -> Holding]
      BY <1>6, <2>1 DEF IInv, TypeOK
    <2>3. HoldingOK(act[r])'
      BY <2>1, <2>2, FS_EmptySet DEF HoldingOK, Removing
    <2>4. CountsHold(r)' /\ FilesSeen(r)' /\ NotYetLinked(r)'
      BY <2>1, <2>2 DEF CountsHold, FilesSeen, NotYetLinked, Removing
    <2>5. RemovalsKnown(r)'
      <3> SUFFICES ASSUME NEW t \in Transactions, <<"removal", t>> \notin excused', a.refId = t
                   PROVE  {d \in documents' : d.refId = t} = {}
        BY <2>1, <2>2 DEF RemovalsKnown, AddsTo, RemovesAll, Removing, DocumentsOf
      <3>1. DocumentsOf(t) \subseteq a.found
        BY <1>1, <1>2, <1>6, ExcusesStay DEF RemovalsKnown, RemovesAll
      <3> QED BY <1>1, <3>1 DEF DocumentsOf
    <2> QED BY <2>2, <2>3, <2>4, <2>5 DEF RequestOK
  <1> QED BY <1>1, <1>4, <1>5, <1>6

(***************************************************************************)
(* The calls that add documents.                                           *)
(***************************************************************************)
LEMMA CheckAlreadyLinkedKeeps ==
  ASSUME IInv, Next, NEW r \in Requests, CheckAlreadyLinked(r)
  PROVE  RequestOK(r)' /\ act' \in [Requests -> Holding]
  <1> DEFINE a == act[r]
             h == [a EXCEPT !.at = "head", !.todo = a.adds]
  <1>1. /\ a.at = "already"
        /\ UNCHANGED <<objects, used, transactions, documents, linked>>
        /\ \/ act' = [act EXCEPT ![r] = Idle]
           \/ ~ AlreadyLinked(a.refId, a.adds) /\ act' = [act EXCEPT ![r] = h]
    BY DEF CheckAlreadyLinked, Continue, stores
  <1>2. a \in Holding /\ HoldingOK(a) /\ RemovalsKnown(r)
    BY DEF IInv, TypeOK, RequestOK
  <1>3. CASE act' = [act EXCEPT ![r] = Idle]
    BY <1>3, IdleAfter
  <1>4. CASE ~ AlreadyLinked(a.refId, a.adds) /\ act' = [act EXCEPT ![r] = h]
    <2>1. /\ h \in Holding /\ h.at = "head" /\ h.refId = a.refId /\ h.whole = a.whole
          /\ h.adds = a.adds /\ h.found = a.found /\ h.todo = a.adds
      BY <1>2 DEF Holding
    <2> HIDE DEF h
    <2>2. act'[r] = h /\ act' \in [Requests -> Holding]
      BY <1>4, <2>1 DEF IInv, TypeOK
    <2>3. HoldingOK(act[r])'
      BY <1>1, <1>2, <2>1, <2>2 DEF HoldingOK, Removing
    <2>4. CountsHold(r)' /\ FilesSeen(r)'
      BY <2>1, <2>2 DEF CountsHold, FilesSeen, Removing
    <2>5. NotYetLinked(r)'
      BY <1>1, <1>4, <2>1, <2>2 DEF NotYetLinked, AlreadyLinked, DocumentsOf
    <2>6. RemovalsKnown(r)'
      <3> SUFFICES ASSUME NEW t \in Transactions, <<"removal", t>> \notin excused', a.refId = t
                   PROVE  t \in transactions
        BY <1>1, <2>1, <2>2 DEF RemovalsKnown, AddsTo, RemovesAll, Removing
      <3> QED BY <1>1, <1>2, ExcusesStay DEF RemovalsKnown, AddsTo
    <2> QED BY <2>2, <2>3, <2>4, <2>5, <2>6 DEF RequestOK
  <1> QED BY <1>1, <1>3, <1>4

LEMMA HeadObjectKeeps ==
  ASSUME IInv, Next, NEW r \in Requests, HeadObject(r)
  PROVE  RequestOK(r)' /\ act' \in [Requests -> Holding]
  <1> DEFINE a == act[r]
  <1>1. PICK k \in a.todo :
          act' = [act EXCEPT ![r] =
            IF ~ Stored(k) THEN Idle
            ELSE [a EXCEPT !.todo = @ \ {k}, !.at = IF a.todo = {k} THEN "save" ELSE @]]
    BY DEF HeadObject, Continue
  <1> DEFINE h == [a EXCEPT !.todo = @ \ {k}, !.at = IF a.todo = {k} THEN "save" ELSE @]
  <1>2. /\ a.at = "head"
        /\ UNCHANGED <<objects, used, transactions, documents, linked>>
        /\ \/ act' = [act EXCEPT ![r] = Idle]
           \/ k \in objects /\ act' = [act EXCEPT ![r] = h]
    BY <1>1 DEF HeadObject, Continue, stores, Stored
  <1>3. a \in Holding /\ HoldingOK(a) /\ FilesSeen(r) /\ NotYetLinked(r) /\ RemovalsKnown(r)
    BY DEF IInv, TypeOK, RequestOK
  <1>4. CASE act' = [act EXCEPT ![r] = Idle]
    BY <1>4, IdleAfter
  <1>5. CASE k \in objects /\ act' = [act EXCEPT ![r] = h]
    <2>1. /\ h.at = IF a.todo = {k} THEN "save" ELSE "head"
          /\ h.todo = a.todo \ {k}
          /\ h.refId = a.refId /\ h.whole = a.whole /\ h.adds = a.adds /\ h.found = a.found
      BY <1>2, <1>3 DEF Holding
    <2>2. h \in Holding
      <3>1. a.todo \ {k} \in SUBSET (Document \union Keys)
        BY <1>3 DEF Holding
      <3> QED BY <1>2, <1>3, <3>1 DEF Holding
    <2> HIDE DEF h
    <2>3. act'[r] = h /\ act' \in [Requests -> Holding]
      BY <1>5, <2>2 DEF IInv, TypeOK
    <2>4. HoldingOK(act[r])'
      BY <1>2, <1>3, <2>1, <2>3 DEF HoldingOK, Removing
    <2>5. CountsHold(r)'
      BY <2>1, <2>3 DEF CountsHold, Removing
    <2>6. FilesSeen(r)'
      <3> SUFFICES ASSUME NEW l \in a.adds, h.at = "save" \/ l \notin h.todo, l \notin objects
                   PROVE  Known(l)'
        BY <1>2, <2>1, <2>3 DEF FilesSeen, Known
      <3>1. l \notin a.todo
        BY <1>5, <2>1
      <3> QED BY <1>2, <1>3, <3>1, ExcusesStay DEF FilesSeen
    <2>7. NotYetLinked(r)'
      <3> SUFFICES ASSUME NEW l \in a.adds, NEW d \in DocumentsOf(a.refId), d.key = l
                   PROVE  <<"links", a.refId>> \in excused'
        BY <1>2, <2>1, <2>3 DEF NotYetLinked, DocumentsOf
      <3> QED BY <1>2, <1>3, ExcusesStay DEF NotYetLinked
    <2>8. RemovalsKnown(r)'
      <3> SUFFICES ASSUME NEW t \in Transactions, <<"removal", t>> \notin excused', a.refId = t
                   PROVE  t \in transactions
        BY <1>2, <2>1, <2>3 DEF RemovalsKnown, AddsTo, RemovesAll, Removing
      <3> QED BY <1>2, <1>3, ExcusesStay DEF RemovalsKnown, AddsTo
    <2> QED BY <2>3, <2>4, <2>5, <2>6, <2>7, <2>8 DEF RequestOK
  <1> QED BY <1>2, <1>4, <1>5

LEMMA PutObjectKeeps ==
  ASSUME IInv, Next, NEW r \in Requests, PutObject(r)
  PROVE  RequestOK(r)' /\ act' \in [Requests -> Holding]
  <1> DEFINE a == act[r]
  <1>1. PICK k \in OwnKeys \ used :
          /\ used' = used \union {k} /\ objects' = objects \union {k}
          /\ act' = [act EXCEPT ![r] =
               [a EXCEPT !.files = @ - 1, !.adds = @ \union {k},
                         !.at = IF a.files = 1 THEN "save" ELSE @]]
    BY DEF PutObject, Continue
  <1> DEFINE h == [a EXCEPT !.files = @ - 1, !.adds = @ \union {k},
                            !.at = IF a.files = 1 THEN "save" ELSE @]
  <1>2. a.at = "put" /\ UNCHANGED <<transactions, documents, linked>>
    BY DEF PutObject, Continue
  <1>3. a \in Holding /\ HoldingOK(a) /\ FilesSeen(r) /\ NotYetLinked(r) /\ RemovalsKnown(r)
    BY DEF IInv, TypeOK, RequestOK
  <1>4. a.files \in 0 .. MaxFiles /\ a.files > 0 /\ MaxFiles \in Nat
    BY <1>2, <1>3, DocumentConstants DEF Holding, HoldingOK
  <1>5. /\ h.at = IF a.files = 1 THEN "save" ELSE "put"
        /\ h.files = a.files - 1 /\ h.adds = a.adds \union {k}
        /\ h.refId = a.refId /\ h.whole = a.whole /\ h.found = a.found
    BY <1>2, <1>3 DEF Holding
  <1>6. h \in Holding
    <2>1. a.files - 1 \in 0 .. MaxFiles
      BY <1>4
    <2>2. a.adds \union {k} \in SUBSET Keys
      BY <1>3 DEF Holding, Keys
    <2> QED BY <1>2, <1>3, <2>1, <2>2 DEF Holding
  <1>7. act' = [act EXCEPT ![r] = h]
    BY <1>1
  <1> HIDE DEF h
  <1>8. act'[r] = h /\ act' \in [Requests -> Holding]
    BY <1>6, <1>7 DEF IInv, TypeOK
  <1>9. h.at = "put" => h.files > 0
    BY <1>4, <1>5
  <1>10. HoldingOK(act[r])'
    BY <1>1, <1>2, <1>3, <1>5, <1>8, <1>9 DEF HoldingOK, Removing
  <1>11. CountsHold(r)'
    BY <1>5, <1>8 DEF CountsHold, Removing
  <1>12. FilesSeen(r)'
    <2> SUFFICES ASSUME NEW l \in a.adds \union {k}, l \notin objects'
                 PROVE  Known(l)'
      BY <1>5, <1>8 DEF FilesSeen, Known
    <2>1. l \in a.adds /\ l \notin objects
      BY <1>1
    <2> QED BY <1>2, <1>3, <2>1, ExcusesStay DEF FilesSeen
  <1>13. NotYetLinked(r)'
    <2> SUFFICES ASSUME NEW l \in a.adds \union {k}, NEW d \in DocumentsOf(a.refId), d.key = l
                 PROVE  <<"links", a.refId>> \in excused'
      BY <1>2, <1>5, <1>8 DEF NotYetLinked, DocumentsOf
    <2>1. l # k
      BY <1>1 DEF DocumentsOf, IInv, RowsOK
    <2> QED BY <1>2, <1>3, <2>1, ExcusesStay DEF NotYetLinked
  <1>14. RemovalsKnown(r)'
    <2> SUFFICES ASSUME NEW t \in Transactions, <<"removal", t>> \notin excused', a.refId = t
                 PROVE  t \in transactions
      BY <1>2, <1>5, <1>8 DEF RemovalsKnown, AddsTo, RemovesAll, Removing
    <2> QED BY <1>2, <1>3, ExcusesStay DEF RemovalsKnown, AddsTo
  <1> QED BY <1>8, <1>10, <1>11, <1>12, <1>13, <1>14 DEF RequestOK

(***************************************************************************)
(* Every step keeps the invariant.                                         *)
(***************************************************************************)
\* A step is of one request at most.
Moves(r) ==
  /\ \A s \in Requests \ {r} : act'[s] = act[s]
  /\ RequestOK(r)' /\ act' \in [Requests -> Holding]

LEMMA OneRequestMoves ==
  ASSUME IInv, Next
  PROVE  UNCHANGED act \/ \E r \in Requests : Moves(r)
  <1>1. CASE \E k \in OwnKeys : SignUrl(k) \/ Put(k)
    BY <1>1 DEF SignUrl, Put
  <1>2. ASSUME NEW r \in Requests, NEW holding, act' = [act EXCEPT ![r] = holding]
        PROVE  \A s \in Requests \ {r} : act'[s] = act[s]
    BY <1>2 DEF IInv, TypeOK
  <1>3. ASSUME NEW r \in Requests, NEW t \in Transactions, Edit(r, t) PROVE Moves(r)
    <2>1. \E holding : act' = [act EXCEPT ![r] = holding]
      BY <1>3 DEF Edit, Continue
    <2> QED BY <1>2, <1>3, <2>1, EditKeeps DEF Moves
  <1>4. ASSUME NEW r \in Requests, NEW t \in Transactions, Remove(r, t) PROVE Moves(r)
    <2>1. \E holding : act' = [act EXCEPT ![r] = holding]
      BY <1>4 DEF Remove, Continue
    <2> QED BY <1>2, <1>4, <2>1, RemoveKeeps DEF Moves
  <1>5. ASSUME NEW r \in Requests, NEW t \in Transactions, Upload(r, t) PROVE Moves(r)
    <2>1. \E holding : act' = [act EXCEPT ![r] = holding]
      BY <1>5 DEF Upload, Continue
    <2> QED BY <1>2, <1>5, <2>1, UploadKeeps DEF Moves
  <1>6. ASSUME NEW r \in Requests, OpenAgain(r) PROVE Moves(r)
    <2>1. \E holding : act' = [act EXCEPT ![r] = holding]
      BY <1>6 DEF OpenAgain, Continue
    <2> QED BY <1>2, <1>6, <2>1, OpenAgainKeeps DEF Moves
  <1>7. ASSUME NEW r \in Requests, FindDocuments(r) PROVE Moves(r)
    <2>1. \E holding : act' = [act EXCEPT ![r] = holding]
      BY <1>7 DEF FindDocuments, Continue
    <2> QED BY <1>2, <1>7, <2>1, FindDocumentsKeeps DEF Moves
  <1>8. ASSUME NEW r \in Requests, CountReferences(r) PROVE Moves(r)
    <2>1. \E holding : act' = [act EXCEPT ![r] = holding]
      BY <1>8 DEF CountReferences, Continue
    <2> QED BY <1>2, <1>8, <2>1, CountReferencesKeeps DEF Moves
  <1>9. ASSUME NEW r \in Requests, DeleteObjects(r) PROVE Moves(r)
    <2>1. \E holding : act' = [act EXCEPT ![r] = holding]
      BY <1>9 DEF DeleteObjects, Continue
    <2> QED BY <1>2, <1>9, <2>1, DeleteObjectsKeeps DEF Moves
  <1>10. ASSUME NEW r \in Requests, RemoveRows(r) PROVE Moves(r)
    <2>1. \E holding : act' = [act EXCEPT ![r] = holding]
      BY <1>10 DEF RemoveRows, Continue
    <2> QED BY <1>2, <1>10, <2>1, RemoveRowsKeeps DEF Moves
  <1>11. ASSUME NEW r \in Requests, RemoveTransaction(r) \/ SaveDocuments(r) \/ Fail(r)
         PROVE  Moves(r)
    <2>1. act' = [act EXCEPT ![r] = Idle]
      BY <1>11 DEF RemoveTransaction, SaveDocuments, Fail, Continue
    <2> QED BY <1>2, <2>1, IdleAfter DEF Moves
  <1>12. ASSUME NEW r \in Requests, CheckAlreadyLinked(r) PROVE Moves(r)
    <2>1. \E holding : act' = [act EXCEPT ![r] = holding]
      BY <1>12 DEF CheckAlreadyLinked, Continue
    <2> QED BY <1>2, <1>12, <2>1, CheckAlreadyLinkedKeeps DEF Moves
  <1>13. ASSUME NEW r \in Requests, HeadObject(r) PROVE Moves(r)
    <2>1. \E holding : act' = [act EXCEPT ![r] = holding]
      BY <1>13 DEF HeadObject, Continue
    <2> QED BY <1>2, <1>13, <2>1, HeadObjectKeeps DEF Moves
  <1>14. ASSUME NEW r \in Requests, PutObject(r) PROVE Moves(r)
    <2>1. \E holding : act' = [act EXCEPT ![r] = holding]
      BY <1>14 DEF PutObject, Continue
    <2> QED BY <1>2, <1>14, <2>1, PutObjectKeeps DEF Moves
  <1> QED BY <1>1, <1>3, <1>4, <1>5, <1>6, <1>7, <1>8, <1>9, <1>10, <1>11, <1>12, <1>13, <1>14
          DEF Next, Step

LEMMA NextKeepsRequests ==
  ASSUME IInv, Next
  PROVE  act' \in [Requests -> Holding] /\ \A s \in Requests : RequestOK(s)'
  <1>1. CASE UNCHANGED act
    <2>1. act' \in [Requests -> Holding]
      BY <1>1 DEF IInv, TypeOK
    <2>2. \A s \in Requests : act'[s] = act[s]
      BY <1>1
    <2> QED BY <2>1, <2>2, OthersKeep
  <1>2. CASE \E r \in Requests : Moves(r)
    <2>1. PICK r \in Requests : Moves(r)
      BY <1>2
    <2>2. \A s \in Requests : s # r => RequestOK(s)'
      BY <2>1, OthersKeep DEF Moves
    <2> QED BY <2>1, <2>2 DEF Moves
  <1> QED BY <1>1, <1>2, OneRequestMoves

\* What excuses is a key or a transaction.
LEMMA ExcusesTyped ==
  ASSUME TypeOK
  PROVE  /\ Races \subseteq ({"key"} \X Keys) \union ({"links", "removal"} \X Transactions)
         /\ Broken \subseteq Keys
  <1>1. Races \subseteq ({"key"} \X Keys) \union ({"links", "removal"} \X Transactions)
    BY DEF Races
  <1>2. \A r \in Requests : act[r].doomed \subseteq Keys
    BY DEF TypeOK, Holding
  <1>3. linked \subseteq Keys
    BY DEF TypeOK
  <1> QED BY <1>1, <1>2, <1>3 DEF Broken

LEMMA NextKeepsTypes ==
  ASSUME IInv, Next
  PROVE  TypeOK'
  <1>1. act' \in [Requests -> Holding]
    BY NextKeepsRequests
  <1> DEFINE Stored1 == /\ objects' \subseteq Keys /\ used' \subseteq OwnKeys
                        /\ urls' \subseteq used' /\ transactions' \subseteq Transactions
                        /\ linked' \subseteq Keys /\ documents' \subseteq Document
  <1>2. Stored1
    <2> USE DEF IInv, TypeOK
    <2>1. CASE \E k \in OwnKeys : SignUrl(k) \/ Put(k)
      BY <2>1 DEF SignUrl, Put, Keys
    <2>2. CASE \E r \in Requests, t \in Transactions : Edit(r, t) \/ Remove(r, t) \/ Upload(r, t)
      BY <2>2 DEF Edit, Remove, Upload, Continue, stores
    <2>3. CASE \E r \in Requests : \/ OpenAgain(r)
                                   \/ FindDocuments(r)
                                   \/ CountReferences(r)
                                   \/ CheckAlreadyLinked(r)
                                   \/ HeadObject(r)
                                   \/ Fail(r)
      BY <2>3 DEF OpenAgain, FindDocuments, CountReferences, CheckAlreadyLinked, HeadObject, Fail,
                  Continue, stores
    <2>4. CASE \E r \in Requests : \/ DeleteObjects(r)
                                   \/ RemoveRows(r)
                                   \/ RemoveTransaction(r)
                                   \/ PutObject(r)
      BY <2>4 DEF DeleteObjects, RemoveRows, RemoveTransaction, PutObject, Continue, Keys
    <2>5. ASSUME NEW r \in Requests, SaveDocuments(r) PROVE Stored1
      <3>1. act[r].adds \subseteq Keys
        BY DEF Holding
      <3> QED BY <2>5, <3>1, SavedRows
    <2> QED BY <2>1, <2>2, <2>3, <2>4, <2>5 DEF Next, Step
  <1> DEFINE Excuses == ({"key"} \X Keys) \union ({"links", "removal"} \X Transactions)
  <1>3. Races' \subseteq Excuses
    <2>1. \A k \in Keys : <<"key", k>> \in Excuses
      OBVIOUS
    <2>2. \A t \in Transactions : <<"links", t>> \in Excuses /\ <<"removal", t>> \in Excuses
      OBVIOUS
    <2> QED BY <2>1, <2>2 DEF Races
  <1>4. Broken \subseteq Keys /\ excused \subseteq Excuses
    BY ExcusesTyped DEF IInv, TypeOK
  <1>5. excused' \subseteq Excuses
    BY <1>3, <1>4 DEF Next
  <1> QED BY <1>1, <1>2, <1>5 DEF TypeOK

LEMMA NextKeepsIInv ==
  ASSUME IInv, [Next]_vars
  PROVE  IInv'
  <1>1. CASE Next
    BY <1>1, NextKeepsTypes, NextKeepsRequests, NextKeepsRows, NextKeepsFiles, NextKeepsUnlinked,
       NextKeepsTransactions, NextKeepsLinkedOnce, ExcusesStay
       DEF IInv
  <1>2. CASE UNCHANGED vars
    <2> USE <1>2 DEF vars, stores, histories
    <2>1. TypeOK'
      BY DEF IInv, TypeOK
    <2>2. ASSUME NEW r \in Requests PROVE RequestOK(r)'
      <3>1. HoldingOK(act[r])' /\ CountsHold(r)' /\ FilesSeen(r)'
        BY DEF IInv, RequestOK, HoldingOK, CountsHold, FilesSeen, Removing, Known
      <3>2. NotYetLinked(r)' /\ RemovalsKnown(r)'
        BY DEF IInv, RequestOK, NotYetLinked, RemovalsKnown, AddsTo, RemovesAll, Removing,
               DocumentsOf
      <3> QED BY <3>1, <3>2 DEF RequestOK
    <2>3. RowsOK' /\ FilesExist'
      BY DEF IInv, RowsOK, FilesExist, Known
    <2>4. Races' \subseteq excused'
      BY DEF IInv, Races, RacedKey, RacedLinks, RacedRemoval, Removes, Links, AddsTo, RemovesAll
    <2>5. UnlinkedFilesAreDeleted' /\ DocumentsHaveTransaction' /\ LinkedOnce'
      BY DEF IInv, UnlinkedFilesAreDeleted, References, DocumentsHaveTransaction, LinkedOnce
    <2> QED BY <2>1, <2>2, <2>3, <2>4, <2>5 DEF IInv
  <1> QED BY <1>1, <1>2

LEMMA InitIInv == Init => IInv
  <1> SUFFICES ASSUME NEW old, InitWith(old),
                      old = {} \/ \E d \in Document : ~ IsUserKey(d.key) /\ old = {d}
               PROVE  IInv
    BY DEF Init
  <1>1. old \subseteq Document /\ \A d, e \in old : d = e
    OBVIOUS
  <1>2. \A d \in old : d.key \in OtherKeys \union OldKeys
    BY DEF Document, Keys, IsUserKey
  <1>3. IsFiniteSet(old)
    BY FS_EmptySet, FS_Singleton
  <1>4. \A r \in Requests : act[r] = Idle
    BY DEF InitWith
  <1>5. /\ Idle.at = "idle" /\ Idle.adds = {} /\ Idle.found = {} /\ Idle.doomed = {}
        /\ ~ Idle.whole /\ Idle \in Holding
    BY IdleHolds
  <1>6. TypeOK
    BY <1>1, <1>2, <1>5 DEF InitWith, TypeOK, Keys
  <1>7. ASSUME NEW r \in Requests PROVE RequestOK(r)
    <2>1. HoldingOK(act[r])
      BY <1>4, <1>5, FS_EmptySet DEF HoldingOK, Removing
    <2>2. CountsHold(r) /\ FilesSeen(r) /\ NotYetLinked(r) /\ RemovalsKnown(r)
      BY <1>4, <1>5 DEF CountsHold, FilesSeen, NotYetLinked, RemovalsKnown, AddsTo, RemovesAll,
                        Removing
    <2> QED BY <2>1, <2>2 DEF RequestOK
  <1>8. RowsOK
    <2>1. linked \intersect OwnKeys = {}
      BY <1>2, DocumentConstants DEF InitWith
    <2> QED BY <1>1, <1>3, <2>1 DEF RowsOK, InitWith
  <1>9. Races = {}
    <2>1. \A r \in Requests : Removes(r) = {} /\ Links(r) = {}
      BY <1>4, <1>5 DEF Removes, Links
    <2>2. \A k : ~ RacedKey(k)
      BY <2>1 DEF RacedKey
    <2>3. \A t : ~ RacedLinks(t)
      BY <2>1 DEF RacedLinks
    <2>4. \A t : ~ RacedRemoval(t)
      BY <1>4, <1>5 DEF RacedRemoval, AddsTo
    <2> QED BY <2>2, <2>3, <2>4 DEF Races
  <1>10. FilesExist /\ DocumentsHaveTransaction /\ LinkedOnce
    BY <1>1 DEF FilesExist, DocumentsHaveTransaction, LinkedOnce, InitWith, Document
  <1>11. UnlinkedFilesAreDeleted
    <2> SUFFICES ASSUME NEW k \in linked PROVE References(k) > 0
      BY DEF UnlinkedFilesAreDeleted
    <2>1. \E d \in documents : d.key = k
      BY DEF InitWith
    <2> QED BY <1>8, <2>1, ReferencesCount DEF RowsOK
  <1> QED BY <1>6, <1>7, <1>8, <1>9, <1>10, <1>11 DEF IInv

(***************************************************************************)
(* Theorems.                                                               *)
(***************************************************************************)
\* What is known of each request, of the rows and of the bucket holds at every
\* step of uploads, links and removals, for any number of them at once.
THEOREM DocumentsInvariant == Spec => []IInv
  BY InitIInv, NextKeepsIInv, PTL DEF Spec

\* deleteDocumentObjects: however many requests link, upload and remove files, a
\* file that is listed is in the bucket and one without a row is not, outside of
\* what the history excuses.
THEOREM DocumentsStoresAgree == Spec => []StoresAgree
  <1>1. ASSUME IInv PROVE StoresAgree
    <2>1. ListedFilesExist
      <3> SUFFICES ASSUME NEW t \in transactions, NEW k \in Listing(t)
                   PROVE  /\ ~ Foreign(k)
                          /\ \/ k \in objects
                             \/ <<"key", k>> \in excused
                             \/ \E r \in Requests : act[r].at = "rows" /\ k \in act[r].doomed
        BY DEF ListedFilesExist
      <3>1. PICK d \in documents : ~ Foreign(d.key) /\ d.key = k
        BY DEF Listing, DocumentsOf
      <3> QED BY <1>1, <3>1 DEF IInv, FilesExist, Known
    <2> QED BY <1>1, <2>1 DEF StoresAgree, IInv
  <1> QED BY <1>1, DocumentsInvariant, PTL

\* linkDocuments and remove: a document is of a transaction that exists and is in
\* it once, unless a removal or another link of the same file overlapped.
THEOREM DocumentsLinksAreSound == Spec => []LinksAreSound
  <1>1. IInv => LinksAreSound
    BY DEF IInv, LinksAreSound
  <1> QED BY <1>1, DocumentsInvariant, PTL

\* isForeignUserKey: no step removes an object of another user, although rows from
\* before the keys were checked may name one.
THEOREM DocumentsOtherUsersFilesStay == Spec => OtherUsersFilesStay
  <1>1. ASSUME IInv, [Next]_vars PROVE [OtherKeys \intersect objects \subseteq objects']_vars
    <2>1. CASE Next
      <3> SUFFICES ASSUME NEW k \in OtherKeys \intersect objects, k \notin objects' PROVE FALSE
        OBVIOUS
      <3>1. PICK q \in Requests : act[q].at = "delete" /\ k \in act[q].doomed
        BY <1>1, <2>1, StepHasEffects DEF StepEffects, Next
      <3>2. ~ Foreign(k)
        BY <1>1, <3>1 DEF IInv, RequestOK, HoldingOK, Removing
      <3> QED BY <3>2 DEF Foreign
    <2> QED BY <1>1, <2>1
  <1> QED BY <1>1, DocumentsInvariant, PTL DEF Spec, OtherUsersFilesStay

-----------------------------------------------------------------------------
(* One request at a time: the history excuses only requests that overlap, and, of   *)
(* the bucket, a deletion that is cut short or undone.                              *)

\* While a request is between two calls, no other one goes on; clients may upload.
OneAtATime ==
  [][\A r \in Requests : act[r].at # "idle" /\ act' # act => act'[r] # act[r]]_vars

\* S3 deletes what it is told to, no request ends between the objects and the rows, and
\* no URL is used again when its file was removed.
DeletionsComplete == [][Broken = {}]_vars

\* A request removes one row of a key.
FoundOnce(r) ==
  Removing(act[r]) => \A d, e \in act[r].found : d.key = e.key => d = e

OnlyOne ==
  /\ \A r, q \in Requests : act[r].at # "idle" /\ act[q].at # "idle" => r = q
  /\ \A r \in Requests : FoundOnce(r)
  /\ excused \subseteq {"key"} \X Keys

NothingIsExcused == excused = {}

\* Only the read of the documents gives a request rows to remove.
LEMMA FoundBefore ==
  ASSUME IInv, Next, NEW r \in Requests, Removing(act[r])'
  PROVE  \/ Removing(act[r]) /\ act'[r].found = act[r].found
         \/ act'[r].found \subseteq DocumentsOf(act[r].refId)
  <1> USE DEF Removing
  <1>1. act[r] \in Holding /\ act'[r].at \in {"references", "delete", "rows"}
    BY DEF IInv, TypeOK
  <1>2. CASE act'[r] = act[r]
    BY <1>2
  <1>3. ASSUME NEW s \in Requests, \E h : act' = [act EXCEPT ![s] = h],
               act'[s].at \notin {"references", "delete", "rows"}
        PROVE  act'[r] = act[r]
    BY <1>1, <1>3 DEF IInv, TypeOK
  <1>4. ASSUME NEW s \in Requests, s # r, NEW h, act' = [act EXCEPT ![s] = h]
        PROVE  act'[r] = act[r]
    BY <1>4 DEF IInv, TypeOK
  <1>5. CASE \E k \in OwnKeys : SignUrl(k) \/ Put(k)
    BY <1>2, <1>5 DEF SignUrl, Put
  <1>6. ASSUME NEW s \in Requests, NEW t \in Transactions,
               Edit(s, t) \/ Remove(s, t) \/ Upload(s, t)
        PROVE  act'[r] = act[r]
    <2>1. \E h : act' = [act EXCEPT ![s] = h]
      BY <1>6 DEF Edit, Remove, Upload, Continue
    <2>2. act'[s].at \in {"find", "already", "put"}
      <3>1. act \in [Requests -> Holding]
        BY DEF IInv, TypeOK
      <3>2. CASE Edit(s, t)
        <4>1. PICK ids, adds : act' = [act EXCEPT ![s] = Opened(t, ids, adds)]
          BY <3>2 DEF Edit, Continue
        <4>2. Opened(t, ids, adds).at \in {"find", "already"}
          BY DEF Opened, Idle
        <4> QED BY <3>1, <4>1, <4>2
      <3>3. CASE Remove(s, t)
        BY <3>1, <3>3 DEF Remove, Continue, Idle
      <3>4. CASE Upload(s, t)
        BY <3>1, <3>4 DEF Upload, Continue, Idle
      <3> QED BY <1>6, <3>2, <3>3, <3>4
    <2> QED BY <1>3, <2>1, <2>2
  <1>7. ASSUME NEW s \in Requests, \/ OpenAgain(s) \/ CheckAlreadyLinked(s) \/ HeadObject(s)
                                   \/ PutObject(s) \/ SaveDocuments(s) \/ Fail(s)
                                   \/ RemoveTransaction(s) \/ RemoveRows(s)
        PROVE  act'[r] = act[r]
    <2>1. act[s] \in Holding /\ act \in [Requests -> Holding]
      BY DEF IInv, TypeOK
    <2>2. \E h : act' = [act EXCEPT ![s] = h]
      BY <1>7 DEF OpenAgain, CheckAlreadyLinked, HeadObject, PutObject, SaveDocuments, Fail,
                  RemoveTransaction, RemoveRows, Continue
    <2>3. act'[s].at \in {"idle", "already", "find", "head", "put", "save", "row", "open"}
      <3>1. CASE SaveDocuments(s) \/ Fail(s) \/ RemoveTransaction(s)
        <4>1. act' = [act EXCEPT ![s] = Idle]
          BY <3>1 DEF SaveDocuments, Fail, RemoveTransaction, Continue
        <4> QED BY <2>1, <4>1, IdleHolds
      <3>2. CASE CheckAlreadyLinked(s)
        BY <2>1, <3>2 DEF CheckAlreadyLinked, Continue, Holding, Idle
      <3>3. CASE HeadObject(s)
        <4>1. PICK k \in act[s].todo :
                 act' = [act EXCEPT ![s] = IF ~ Stored(k) THEN Idle
                           ELSE [act[s] EXCEPT !.todo = @ \ {k},
                                               !.at = IF act[s].todo = {k} THEN "save" ELSE @]]
          BY <3>3 DEF HeadObject, Continue
        <4>2. act[s].at = "head" /\ Idle.at = "idle"
          BY <3>3, IdleHolds DEF HeadObject
        <4>3. CASE ~ Stored(k)
          BY <2>1, <4>1, <4>2, <4>3
        <4>4. CASE Stored(k)
          BY <2>1, <4>1, <4>2, <4>4 DEF Holding
        <4> QED BY <4>3, <4>4
      <3>4. CASE PutObject(s)
        BY <2>1, <3>4 DEF PutObject, Continue, Holding
      <3>5. CASE RemoveRows(s)
        BY <2>1, <3>5 DEF RemoveRows, Continue, Idle
      <3>6. CASE OpenAgain(s)
        <4> DEFINE again == Opened(act[s].refId, {}, act[s].adds)
        <4>1. act' = [act EXCEPT ![s] = again] \/ act' = [act EXCEPT ![s] = Idle]
          BY <3>6 DEF OpenAgain, Continue
        <4>2. again.at = "already"
          BY DEF Opened, Idle
        <4> HIDE DEF again
        <4> QED BY <2>1, <4>1, <4>2, IdleHolds
      <3> QED BY <1>7, <3>1, <3>2, <3>3, <3>4, <3>5, <3>6
    <2> QED BY <1>3, <2>2, <2>3
  <1>8. ASSUME NEW s \in Requests, CountReferences(s) \/ DeleteObjects(s)
        PROVE  act'[r] = act[r] \/ (Removing(act[r]) /\ act'[r].found = act[r].found)
    <2>1. PICK h : act' = [act EXCEPT ![s] = h] /\ h.found = act[s].found
      <3>1. act[s] \in Holding
        BY DEF IInv, TypeOK
      <3> QED BY <1>8, <3>1 DEF CountReferences, DeleteObjects, Continue, Holding
    <2>2. act[s].at \in {"references", "delete"}
      BY <1>8 DEF CountReferences, DeleteObjects
    <2>3. s = r => act'[r] = h
      BY <2>1 DEF IInv, TypeOK
    <2> QED BY <1>4, <2>1, <2>2, <2>3
  <1>9. ASSUME NEW s \in Requests, FindDocuments(s)
        PROVE  act'[r] = act[r] \/ act'[r].found \subseteq DocumentsOf(act[r].refId)
    <2> DEFINE a == act[s]
               found == IF a.whole THEN DocumentsOf(a.refId)
                        ELSE Rows(a.ids) \intersect DocumentsOf(a.refId)
               toRow == [a EXCEPT !.at = "row"]
               toCount == [a EXCEPT !.at = "references", !.found = found, !.todo = found]
    <2>1. \/ act' = [act EXCEPT ![s] = toRow]
          \/ act' = [act EXCEPT ![s] = Idle]
          \/ act' = [act EXCEPT ![s] = toCount]
      BY <1>9 DEF FindDocuments, Continue
    <2>2. a \in Holding /\ found \subseteq DocumentsOf(a.refId)
      BY DEF IInv, TypeOK
    <2> HIDE DEF found
    <2>3. toRow.at = "row" /\ toCount.found = found
      BY <2>2 DEF Holding
    <2> HIDE DEF toRow, toCount
    <2>4. CASE act' = [act EXCEPT ![s] = toRow] \/ act' = [act EXCEPT ![s] = Idle]
      <3>1. act'[s].at \in {"row", "idle"}
        BY <2>3, <2>4, IdleHolds DEF IInv, TypeOK
      <3> QED BY <1>3, <2>4, <3>1
    <2>5. CASE act' = [act EXCEPT ![s] = toCount]
      <3>1. s = r => act'[r] = toCount
        BY <2>5 DEF IInv, TypeOK
      <3> QED BY <1>4, <2>2, <2>3, <2>5, <3>1
    <2> QED BY <2>1, <2>4, <2>5
  <1> QED BY <1>2, <1>5, <1>6, <1>7, <1>8, <1>9 DEF Next, Step

\* One request by itself works on nothing twice.
LEMMA NobodyRaces ==
  ASSUME \A r, q \in Requests : act'[r].at # "idle" /\ act'[q].at # "idle" => r = q,
         \A r \in Requests : FoundOnce(r)'
  PROVE  Races' = {}
  <1>1. \A k : ~ RacedKey(k)'
    <2> SUFFICES ASSUME NEW k, RacedKey(k)' PROVE FALSE
      OBVIOUS
    <2>1. PICK r \in Requests :
             k \in Removes(r)' /\ Cardinality({d \in act'[r].found : d.key = k}) > 1
      BY DEF RacedKey, Removes, Links
    <2> DEFINE S == {d \in act'[r].found : d.key = k}
    <2>2. \A d, e \in S : d = e
      BY <2>1 DEF FoundOnce, Removes, Removing
    <2>3. S = {} \/ \E d : S = {d}
      BY <2>2
    <2>4. Cardinality(S) = 0 \/ Cardinality(S) = 1
      BY <2>3, FS_EmptySet, FS_Singleton
    <2> QED BY <2>1, <2>4
  <1>2. \A t : ~ RacedLinks(t)'
    BY DEF RacedLinks, Links
  <1>3. \A t : ~ RacedRemoval(t)'
    BY DEF RacedRemoval, AddsTo, RemovesAll
  <1> QED BY <1>1, <1>2, <1>3 DEF Races

LEMMA OnlyOneStays ==
  ASSUME IInv, OnlyOne, [Next]_vars,
         [\A r \in Requests : act[r].at # "idle" /\ act' # act => act'[r] # act[r]]_vars
  PROVE  OnlyOne'
  <1>1. CASE UNCHANGED vars
    <2>1. UNCHANGED <<act, excused>>
      BY <1>1 DEF vars, histories
    <2> QED BY <2>1 DEF OnlyOne, FoundOnce, Removing
  <1>2. CASE Next /\ ~ UNCHANGED vars
    <2>1. \A r \in Requests : act[r].at # "idle" /\ act' # act => act'[r] # act[r]
      BY <1>2
    <2>2. \A r, q \in Requests : r # q => act'[r] = act[r] \/ act'[q] = act[q]
      BY <1>2, OneRequestMoves DEF Moves
    <2>3. \A r, q \in Requests : act'[r].at # "idle" /\ act'[q].at # "idle" => r = q
      BY <2>1, <2>2 DEF OnlyOne
    <2>4. \A t : <<"links", t>> \notin excused
      BY DEF OnlyOne
    <2>5. \A d, e \in documents : d.refId = e.refId /\ d.key = e.key => d = e
      BY <2>4 DEF IInv, LinkedOnce, RowsOK
    <2>6. ASSUME NEW r \in Requests PROVE FoundOnce(r)'
      <3> SUFFICES ASSUME Removing(act[r])', NEW d \in act'[r].found, NEW e \in act'[r].found,
                          d.key = e.key
                   PROVE  d = e
        BY DEF FoundOnce
      <3>1. CASE Removing(act[r]) /\ act'[r].found = act[r].found
        BY <3>1 DEF OnlyOne, FoundOnce
      <3>2. CASE act'[r].found \subseteq DocumentsOf(act[r].refId)
        BY <2>5, <3>2 DEF DocumentsOf
      <3> QED BY <1>2, <3>1, <3>2, FoundBefore
    <2>7. Races' = {}
      BY <2>3, <2>6, NobodyRaces
    <2>8. excused' \subseteq {"key"} \X Keys
      <3>1. Broken \subseteq Keys
        BY ExcusesTyped DEF IInv
      <3> QED BY <1>2, <2>7, <3>1 DEF Next, OnlyOne
    <2> QED BY <2>3, <2>6, <2>8 DEF OnlyOne
  <1> QED BY <1>1, <1>2

LEMMA OnlyOneAtFirst == Init => OnlyOne /\ NothingIsExcused
  BY IdleHolds DEF Init, InitWith, OnlyOne, FoundOnce, Removing, NothingIsExcused

\* A document is of a transaction that exists, and in it once.
DocumentsAreOfOne ==
  \A d \in documents :
    /\ d.refId \in transactions
    /\ \A e \in documents : d.refId = e.refId /\ d.key = e.key => d = e

\* linkDocuments, "El archivo ya está adjunto a esta transacción", and remove: requests
\* that do not overlap put a file in a transaction once and leave no document of a
\* transaction that is gone, also when they are cut short at any call.
THEOREM DocumentsAloneAreSound == Spec /\ OneAtATime => []DocumentsAreOfOne
  <1>1. ASSUME IInv, OnlyOne PROVE DocumentsAreOfOne
    <2>1. \A t : <<"links", t>> \notin excused /\ <<"removal", t>> \notin excused
      BY <1>1 DEF OnlyOne
    <2> QED
      BY <1>1, <2>1 DEF IInv, DocumentsHaveTransaction, LinkedOnce, RowsOK, DocumentsAreOfOne
  <1> QED
    BY <1>1, OnlyOneAtFirst, OnlyOneStays, DocumentsInvariant, PTL DEF Spec, OneAtATime

\* The excuses left are those of Broken.
LEMMA NothingBecomesExcused ==
  ASSUME IInv, OnlyOne, NothingIsExcused, [Next]_vars, [Broken = {}]_vars, OnlyOne'
  PROVE  NothingIsExcused'
  <1>1. CASE UNCHANGED vars
    BY <1>1 DEF vars, histories, NothingIsExcused
  <1>2. CASE Next /\ Broken = {}
    <2>1. excused' = Races' \union ({"key"} \X {})
      BY <1>2 DEF Next, NothingIsExcused
    <2>2. Races' = {}
      BY NobodyRaces DEF OnlyOne
    <2> QED BY <2>1, <2>2 DEF NothingIsExcused
  <1> QED BY <1>1, <1>2

\* Every row but those of other users' files has its file, and every file that ever had a
\* row has one, while no deletion is between the two.
FilesAreRows ==
  /\ \A d \in documents :
        \/ Foreign(d.key) \/ d.key \in objects
        \/ \E r \in Requests : act[r].at = "rows" /\ d.key \in act[r].doomed
  /\ \A k \in linked \ OtherKeys : k \in objects => \E d \in documents : d.key = k

\* deleteDocumentObjects and deleteFiles: of requests that do not overlap, only a deletion
\* that is cut short or undone parts the bucket from the rows.
THEOREM DocumentsAloneAgree == Spec /\ OneAtATime /\ DeletionsComplete => []FilesAreRows
  <1>1. ASSUME IInv, NothingIsExcused PROVE FilesAreRows
    <2>1. \A k : ~ Known(k)
      BY <1>1 DEF NothingIsExcused, Known
    <2>2. \A k \in linked \ OtherKeys : k \in objects => References(k) > 0
      BY <1>1 DEF IInv, UnlinkedFilesAreDeleted, NothingIsExcused
    <2>3. \A k : References(k) > 0 => \E d \in documents : d.key = k
      BY <1>1, ReferencesCount DEF IInv, RowsOK
    <2> QED BY <1>1, <2>1, <2>2, <2>3 DEF IInv, FilesExist, FilesAreRows
  <1> QED
    BY <1>1, OnlyOneAtFirst, OnlyOneStays, NothingBecomesExcused, DocumentsInvariant, PTL
    DEF Spec, OneAtATime, DeletionsComplete

=============================================================================
