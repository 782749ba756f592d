------------------------------- MODULE Documents -------------------------------
(***************************************************************************)
(* The files of a transaction: TransactionsService (uploads, links and     *)
(* removals), S3Service and the keys of s3-keys.ts.                        *)
(*                                                                         *)
(* A file is an object of the bucket and a row of documents that holds its *)
(* key.  The two stores share no transaction: a request counts the rows of *)
(* a key, then deletes the object, then deletes the rows, and others run   *)
(* between any two of those calls.  One user acts; OtherKeys are keys of   *)
(* another user that rows from before the keys were checked may hold, and  *)
(* OldKeys those from before keys had a user's prefix.                     *)
(***************************************************************************)
EXTENDS DocumentValues

CONSTANT Requests  \* HTTP requests that may be in flight at the same time

VARIABLES
    objects,       \* keys the bucket holds
    urls,          \* keys with a signed PUT URL
    used,          \* keys randomUUID has given out
    transactions,  \* ids of the rows of transactions
    documents,     \* rows of documents
    act,           \* act[r]: what request r holds between two calls
    linked,        \* history: keys that were ever in a row
    excused        \* history: keys and transactions that two requests worked on
                   \* at once, and keys whose deletion was cut short or undone

stores == <<objects, urls, used, transactions, documents>>
histories == <<linked, excused>>
vars == <<stores, act, histories>>

Keys == OwnKeys \union OtherKeys \union OldKeys
Document == [id : DocumentIds, key : Keys, refId : Transactions]

\* The call that a request does next.  "find" reads the documents to remove,
\* "references" counts the rows of each key, "delete" is deleteFiles, "rows"
\* and "row" remove the documents and the transaction; "open" is the second
\* findOne of an update, "already" counts the links that exist, "head" asks the
\* bucket for each file; "put" uploads; "save" inserts the rows.
Holding ==
    [at : {"idle", "open", "find", "references", "delete", "rows", "row",
           "already", "head", "put", "save"},
     refId : Transactions,
     whole : BOOLEAN,              \* the transaction itself is being removed
     ids : SUBSET DocumentIds,      \* documentsToDelete
     adds : SUBSET Keys,           \* filesToAdd, or the keys uploaded so far
     files : 0 .. MaxFiles,        \* files still to upload
     found : SUBSET Document,      \* the documents read
     todo : SUBSET (Document \union Keys),
     doomed : SUBSET Keys]         \* the objects deleteFiles will delete

Idle == [at |-> "idle", refId |-> CHOOSE t \in Transactions : TRUE,
         whole |-> FALSE, ids |-> {}, adds |-> {}, files |-> 0,
         found |-> {}, todo |-> {}, doomed |-> {}]

\* isUserKey: linked files must be under the user's prefix.
IsUserKey(k) == k \in OwnKeys

\* The table may hold rows from before keys were checked.
InitWith(old) ==
    /\ documents = old
    /\ objects = OtherKeys \union {d.key : d \in old}
    /\ linked = {d.key : d \in old}
    /\ urls = {}
    /\ used = {}
    /\ transactions = Transactions
    /\ act = [r \in Requests |-> Idle]
    /\ excused = {}

\* Bound: one such row.
Init ==
    \/ InitWith({})
    \/ \E d \in Document : ~ IsUserKey(d.key) /\ InitWith({d})

-----------------------------------------------------------------------------
(* Operators *)

\* Keys of another user are neither deleted nor signed.
ForeignMutant(k) == FALSE
Foreign(k) == k \in OtherKeys

Rows(ids) == {d \in documents : d.id \in ids}
DocumentsOf(t) == {d \in documents : d.refId = t}
References(k) == Cardinality({d \in documents : d.key = k})
\* Mutants: the row that is being removed is not counted as one, or the last
\* document of a shared file is not seen as the last.
DeletesObjectMutant(k) == ~ Foreign(k) /\ References(k) <= 2
DeletesObjectLateMutant(k) == ~ Foreign(k) /\ References(k) < 1
DeletesObject(k) == ~ Foreign(k) /\ References(k) <= 1
AlreadyLinkedMutant(t, keys) == FALSE
AlreadyLinked(t, keys) == \E d \in DocumentsOf(t) : d.key \in keys

\* Ids that no row and no request has.
FreshIds ==
    DocumentIds \ ({d.id : d \in documents}
                    \union UNION {act[r].ids \union {d.id : d \in act[r].found} : r \in Requests})

\* getObjectInfo is not null.
Stored(k) == k \in objects

\* The keys for which the listing of t has a download URL.
Listing(t) == {d.key : d \in {x \in DocumentsOf(t) : ~ Foreign(x.key)}}

\* The keys r removes rows of, and those it is about to link.
Removes(r) ==
    IF act[r].at \in {"references", "delete", "rows"}
    THEN {d.key : d \in act[r].found} ELSE {}
Links(r) == IF act[r].at \in {"already", "head", "put", "save"} THEN act[r].adds ELSE {}
AddsTo(r, t) == act[r].refId = t /\ act[r].at \in {"already", "head", "put", "save"}
RemovesAll(r, t) ==
    /\ act[r].refId = t
    /\ act[r].whole
    /\ act[r].at \in {"find", "references", "delete", "rows", "row"}

Failed(r) == act'[r] = Idle /\ UNCHANGED stores

\* What two requests, or one request twice, are working on at once.
RacedKey(k) ==
    \/ \E r, q \in Requests :
          r # q /\ k \in Removes(r) /\ k \in Removes(q) \union Links(q)
    \/ \E r \in Requests :
          /\ k \in Removes(r)
          /\ Cardinality({d \in act[r].found : d.key = k}) > 1
RacedLinks(t) ==
    \E r, q \in Requests :
        /\ r # q
        /\ act[r].refId = t /\ act[q].refId = t
        /\ Links(r) \intersect Links(q) # {}
RacedRemoval(t) == \E r, q \in Requests : AddsTo(r, t) /\ RemovesAll(q, t)

Races ==
    ({"key"} \X {k \in Keys : RacedKey(k)})
    \union ({"links"} \X {t \in Transactions : RacedLinks(t)})
    \union ({"removal"} \X {t \in Transactions : RacedRemoval(t)})

\* Keys that S3 kept in a deletion, that came back through their URL, or whose
\* removal ended between the object and the row.
Broken ==
    {k \in linked : k \notin objects /\ k \in objects'}
    \union (UNION {act[r].doomed \intersect objects' :
                     r \in {q \in Requests : act[q].at = "delete" /\ act'[q].at = "rows"}})
    \union (UNION {act[r].doomed :
                     r \in {q \in Requests : act[q].at = "rows" /\ Failed(q)}})

-----------------------------------------------------------------------------
(* S3: signed uploads *)

\* Mutant: the key is the name of the file, which may be taken.
SignUrlMutant(k) ==
    /\ k \in OwnKeys \ used
    /\ urls' = urls \union {k}
    /\ UNCHANGED <<objects, used, transactions, documents, act, linked>>

\* createUserUploadUrl: the key is new.
SignUrl(k) ==
    /\ k \in OwnKeys \ used
    /\ used' = used \union {k}
    /\ urls' = urls \union {k}
    /\ UNCHANGED <<objects, transactions, documents, act, linked>>

\* The client may use its URL until it expires: more than once, and after the
\* file was removed.
Put(k) ==
    /\ k \in urls \ objects
    /\ objects' = objects \union {k}
    /\ UNCHANGED <<urls, used, transactions, documents, act, linked>>

-----------------------------------------------------------------------------
(* Requests *)

Continue(r, holding) ==
    /\ act' = [act EXCEPT ![r] = holding]
    /\ UNCHANGED linked

\* What follows findOne: documents to read, or files to link.
Opened(t, ids, adds) ==
    [Idle EXCEPT !.refId = t, !.ids = ids, !.adds = adds,
                 !.at = IF ids # {} THEN "find" ELSE "already"]

\* update, removeDocument and removeDocuments, and the confirmation of uploads:
\* documents to delete, files to add, or both.  A transaction that is not found,
\* and a file that is not under the user's prefix, end the request.
Edit(r, t) ==
    /\ act[r].at = "idle"
    /\ t \in transactions
    /\ \E ids \in SUBSET {d.id : d \in DocumentsOf(t)},
          adds \in SUBSET {k \in used \union OtherKeys : IsUserKey(k)} :
          /\ ids \union adds # {}
          /\ Cardinality(ids) <= MaxFiles
          /\ Cardinality(adds) <= MaxFiles
          /\ Continue(r, Opened(t, ids, adds))
    /\ UNCHANGED stores

\* update goes on with the files to add, and looks for the transaction again.
OpenAgain(r) ==
    LET a == act[r] IN
    /\ a.at = "open"
    /\ Continue(r, IF a.refId \in transactions THEN Opened(a.refId, {}, a.adds) ELSE Idle)
    /\ UNCHANGED stores

Remove(r, t) ==
    /\ act[r].at = "idle"
    /\ t \in transactions
    /\ Continue(r, [Idle EXCEPT !.at = "find", !.refId = t, !.whole = TRUE])
    /\ UNCHANGED stores

Upload(r, t) ==
    /\ act[r].at = "idle"
    /\ t \in transactions
    /\ \E n \in 1 .. MaxFiles :
          Continue(r, [Idle EXCEPT !.at = "put", !.refId = t, !.files = n])
    /\ UNCHANGED stores

-----------------------------------------------------------------------------
(* Removing documents *)

\* Mutant: remove goes on to the row of the transaction without its documents.
FindDocumentsMutant(r) ==
    /\ act[r].at = "find"
    /\ Continue(r, IF act[r].whole THEN [act[r] EXCEPT !.at = "row"] ELSE Idle)
    /\ UNCHANGED stores

\* All of the documents asked for must be documents of the transaction.
FindDocuments(r) ==
    LET a == act[r]
        found == IF a.whole THEN DocumentsOf(a.refId)
                 ELSE Rows(a.ids) \intersect DocumentsOf(a.refId) IN
    /\ a.at = "find"
    /\ Continue(r,
         CASE a.whole /\ found = {} -> [a EXCEPT !.at = "row"]
           [] ~ a.whole /\ {d.id : d \in found} # a.ids -> Idle
           [] OTHER -> [a EXCEPT !.at = "references", !.found = found, !.todo = found])
    /\ UNCHANGED stores

\* deleteDocumentObjects counts the rows of one key after the other.
CountReferences(r) ==
    LET a == act[r] IN
    /\ a.at = "references"
    /\ \E d \in a.todo :
          Continue(r,
            [a EXCEPT !.todo = @ \ {d},
                      !.doomed = IF DeletesObject(d.key) THEN @ \union {d.key} ELSE @,
                      !.at = IF a.todo = {d} THEN "delete" ELSE @])
    /\ UNCHANGED stores

\* deleteFiles: one call, whose answer (the keys that S3 kept) is not read.
DeleteObjects(r) ==
    LET a == act[r] IN
    /\ a.at = "delete"
    /\ \E kept \in SUBSET a.doomed :
          objects' = objects \ (a.doomed \ kept)
    /\ Continue(r, [a EXCEPT !.at = "rows"])
    /\ UNCHANGED <<urls, used, transactions, documents>>

\* repository.remove(documents); update goes on with the files to add.
RemoveRows(r) ==
    LET a == act[r] IN
    /\ a.at = "rows"
    /\ documents' = documents \ a.found
    /\ Continue(r,
         CASE a.whole -> [Idle EXCEPT !.at = "row", !.refId = a.refId, !.whole = TRUE]
           [] ~ a.whole /\ a.adds # {} ->
                [Idle EXCEPT !.at = "open", !.refId = a.refId, !.adds = a.adds]
           [] OTHER -> Idle)
    /\ UNCHANGED <<objects, urls, used, transactions>>

RemoveTransaction(r) ==
    /\ act[r].at = "row"
    /\ transactions' = transactions \ {act[r].refId}
    /\ Continue(r, Idle)
    /\ UNCHANGED <<objects, urls, used, documents>>

-----------------------------------------------------------------------------
(* Adding documents *)

CheckAlreadyLinked(r) ==
    LET a == act[r] IN
    /\ a.at = "already"
    /\ Continue(r, IF AlreadyLinked(a.refId, a.adds) THEN Idle
                   ELSE [a EXCEPT !.at = "head", !.todo = a.adds])
    /\ UNCHANGED stores

\* The files are looked up together; one that is missing ends the request.
HeadObject(r) ==
    LET a == act[r] IN
    /\ a.at = "head"
    /\ \E k \in a.todo :
          Continue(r, IF ~ Stored(k) THEN Idle
                      ELSE [a EXCEPT !.todo = @ \ {k},
                                     !.at = IF a.todo = {k} THEN "save" ELSE @])
    /\ UNCHANGED stores

\* uploadTransactionFiles: a new key for each file, one after the other.
PutObject(r) ==
    LET a == act[r] IN
    /\ a.at = "put"
    /\ \E k \in OwnKeys \ used :
          /\ used' = used \union {k}
          /\ objects' = objects \union {k}
          /\ Continue(r, [a EXCEPT !.files = @ - 1, !.adds = @ \union {k},
                                   !.at = IF a.files = 1 THEN "save" ELSE @])
    /\ UNCHANGED <<urls, transactions, documents>>

\* One INSERT for all of the rows.
SaveDocuments(r) ==
    LET a == act[r] IN
    /\ a.at = "save"
    /\ \E number \in [a.adds -> FreshIds] :
          /\ \A k, l \in a.adds : number[k] = number[l] => k = l
          /\ documents' = documents \union
                {[id |-> number[k], key |-> k, refId |-> a.refId] : k \in a.adds}
    /\ linked' = linked \union a.adds
    /\ act' = [act EXCEPT ![r] = Idle]
    /\ UNCHANGED <<objects, urls, used, transactions>>

\* S3 or the database answers with an error, or the process stops.
Fail(r) ==
    /\ act[r].at # "idle"
    /\ Continue(r, Idle)
    /\ UNCHANGED stores

-----------------------------------------------------------------------------
Step ==
    \/ \E k \in OwnKeys : SignUrl(k) \/ Put(k)
    \/ \E r \in Requests, t \in Transactions : Edit(r, t) \/ Remove(r, t) \/ Upload(r, t)
    \/ \E r \in Requests :
          \/ OpenAgain(r)
          \/ FindDocuments(r)
          \/ CountReferences(r)
          \/ DeleteObjects(r)
          \/ RemoveRows(r)
          \/ RemoveTransaction(r)
          \/ CheckAlreadyLinked(r)
          \/ HeadObject(r)
          \/ PutObject(r)
          \/ SaveDocuments(r)
          \/ Fail(r)

Next ==
    /\ Step
    /\ excused' = excused \union Races' \union ({"key"} \X Broken)

Spec == Init /\ [][Next]_vars

-----------------------------------------------------------------------------
(* Properties *)

\* Every variable has its type.
TypeOK ==
    /\ objects \subseteq Keys
    /\ used \subseteq OwnKeys
    /\ urls \subseteq used
    /\ transactions \subseteq Transactions
    /\ documents \subseteq Document
    /\ act \in [Requests -> Holding]
    /\ linked \subseteq Keys
    /\ excused \subseteq ({"key"} \X Keys) \union ({"links", "removal"} \X Transactions)

\* deleteDocumentObjects, "nunca uno que siga siendo soporte de otro documento":
\* every URL a listing has opens a file of the user, also when several documents
\* share it and some were removed.  The exceptions are a removal that is between
\* its object and its row, one that was cut short there, and requests that
\* linked and removed the same key at once.
ListedFilesExist ==
    \A t \in transactions : \A k \in Listing(t) :
        /\ ~ Foreign(k)
        /\ \/ k \in objects
           \/ <<"key", k>> \in excused
           \/ \E r \in Requests : act[r].at = "rows" /\ k \in act[r].doomed

\* A file whose last document was removed is gone from the bucket, unless the
\* removals of its documents overlapped, S3 kept it, or its URL was used again.
UnlinkedFilesAreDeleted ==
    \A k \in linked \ OtherKeys :
        k \in objects =>
            \/ References(k) > 0
            \/ <<"key", k>> \in excused

\* remove takes the documents with the transaction: one is left behind only if
\* it was being added meanwhile.
DocumentsHaveTransaction ==
    \A d \in documents : d.refId \in transactions \/ <<"removal", d.refId>> \in excused

\* "El archivo ya está adjunto a esta transacción": a file is in a transaction
\* once, unless two requests added files to that transaction at once.
LinkedOnce ==
    \A d, e \in documents :
        d.refId = e.refId /\ d.key = e.key /\ d.id # e.id =>
            <<"links", d.refId>> \in excused

\* The bucket and the rows agree: no row without its file, no file without its row.
StoresAgree == ListedFilesExist /\ UnlinkedFilesAreDeleted

\* Documents are of a transaction that exists, and of each transaction once.
LinksAreSound == TypeOK /\ DocumentsHaveTransaction /\ LinkedOnce

\* No request deletes a file of another user, whatever its documents hold.
OtherUsersFilesStay == [][OtherKeys \intersect objects \subseteq objects']_vars

=============================================================================
