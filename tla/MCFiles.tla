------------------------------- MODULE MCFiles -------------------------------
(* Instances for TLC of what MCUser puts together and, beside them, of      *)
(* Documents.  They share no variable: a behaviour is one of one of them.   *)
EXTENDS MCUser, DocumentValues

VARIABLES
    objects, urls, used, registered, documents, filing, linked, excused  \* of Documents

filed == <<objects, urls, used, registered, documents, filing, linked, excused>>

\* Documents, with its theorems, which UserProofs cites.
Files == INSTANCE DocumentsProofs WITH act <- filing, transactions <- registered

\* While there is a row from before the keys were checked, one request at a time: no
\* other one links or removes its object.
Alone ==
    \/ \A d \in documents : Files!IsUserKey(d.key)
    \/ \A r, q \in Requests : r = q \/ Files!Idle \in {filing[r], filing[q]}

FilesInit ==
    \/ UserInit /\ Files!InitWith({})
    \/ /\ part = "documents"
       /\ Init /\ ~ enabled
       /\ Moves!InitWith([x \in Ids |-> Moves!NoRow])
       /\ Tables!Init
       /\ Files!Init

FilesNext ==
    \/ UserNext /\ UNCHANGED filed
    \/ part = "documents" /\ Files!Next /\ Alone' /\ UNCHANGED <<part, vars, moved, migrated>>

FilesSpec == FilesInit /\ [][FilesNext]_<<part, vars, moved, migrated, filed>>

\* In the cfg, Accounts and DocumentIds are the same values: no instance has both.
Symmetry ==
    Permutations(Requests) \union Permutations(Accounts) \union Permutations(Transactions)

\* Documents: a listed document has its object in the bucket, and the object of a key
\* that has lost its last document is deleted, unless two requests worked on the key at
\* once or a deletion was cut short or undone (transactions.service.ts:525).
StoresAgree == part = "documents" => Files!StoresAgree

\* Documents: a document is of a transaction that exists, and a file is in it once,
\* unless a removal or another link of the file overlapped.
LinksAreSound == part = "documents" => Files!LinksAreSound

\* Documents: an object of another user stays, whatever keys old rows hold.
OtherUsersFilesStay == Files!OtherUsersFilesStay
=============================================================================
