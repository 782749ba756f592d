------------------------------ MODULE Categories ------------------------------
(***************************************************************************)
(* The user's categories, in groups of two levels: CategoriesService, the  *)
(* categories TransactionsService creates by itself, and the foreign key   *)
(* of the group.  The transactions of a category are no variable: they     *)
(* come and go at any time, so that the query that counts them may find    *)
(* some or none, and so may the foreign key that removal meets.            *)
(*                                                                         *)
(* Every check is a query before the write, and the write of an update is  *)
(* save(entity): it writes the columns in which the entity that was read   *)
(* differs from the row, and inserts the entity when the row is gone.      *)
(***************************************************************************)
EXTENDS Naturals, FiniteSets

CONSTANTS
    Ids,       \* ids of categories
    None,      \* null: no group, or no id yet
    Names,     \* names, without regard to case
    Types,     \* ingreso and egreso
    Requests,  \* HTTP requests that may be in flight at the same time
    MaxFields  \* bound: fields an update changes

ASSUME CategoryConstants == None \notin Ids \union Names \union Types

VARIABLES
    categories,  \* categories[c]: the row of c
    act,         \* act[r]: what request r holds between two statements
    late,        \* history: requests whose reads another one has made old
    excused      \* history: rules that are broken for a reason that is known

vars == <<categories, act, late, excused>>

Row == [name : Names, type : Types, parentId : Ids \union {None}]
NoRow == [name |-> None, type |-> None, parentId |-> None]

\* The statement that a request does next.  An update counts its "children",
\* reads its "parent", looks for the "name" and does its "save"; creation goes
\* over "parent" and "name" to "insert"; a removal counts the transactions
\* ("used") and the subcategories ("kids") and does its "delete"; "budget" is
\* the save of updateBudget.
Holding ==
    [at : {"idle", "children", "parent", "name", "save", "insert", "used", "kids",
           "delete", "budget"},
     id : Ids \union {None},
     entity : Row \union {NoRow},
     checksName : BOOLEAN,   \* the name, the type or the group is another
     release : BOOLEAN]      \* releaseChildren; then, whether there are any

Idle == [at |-> "idle", id |-> None, entity |-> NoRow, checksName |-> FALSE,
         release |-> FALSE]

Init ==
    /\ categories = [c \in Ids |-> NoRow]
    /\ act = [r \in Requests |-> Idle]
    /\ late = {}
    /\ excused = {}

-----------------------------------------------------------------------------
(* Operators *)

Exists(c) == categories[c] # NoRow
Children(p) == {c \in Ids : categories[c].parentId = p}

\* assertValidParent: the group exists, is no subcategory, and has the type.
ValidParentMutant(p, type) == Exists(p) /\ categories[p].type = type
ValidParent(p, type) ==
    Exists(p) /\ categories[p].parentId = None /\ categories[p].type = type

\* Mutant: main categories are compared with the subcategories only.
UniqueNameMutant(row, excluded) ==
    row.parentId = None \/ ~ \E c \in Ids \ {excluded} : categories[c] = row

\* assertUniqueName: no other category of that name and type at that level.
UniqueName(row, excluded) ==
    ~ \E c \in Ids \ {excluded} : categories[c] = row

\* findOrCreateCategory looks at every level.
Found(name, type) ==
    \E c \in Ids : categories[c].name = name /\ categories[c].type = type

\* Mutant: no foreign key.
ParentKeyMutant(row) == TRUE

\* The foreign key of parentId, for a row that is written.
ParentKey(row) == row.parentId # None => Exists(row.parentId)

\* Mutant: the subcategories keep their type.
WithTypeMutant(rows, p, type) == rows

\* A main category gives its type to its subcategories.
WithType(rows, p, type) ==
    [c \in Ids |-> IF rows[c].parentId = p THEN [rows[c] EXCEPT !.type = type] ELSE rows[c]]

\* save(entity), and the foreign key that may refuse it.
Saved(c, entity) ==
    IF ParentKey(entity) THEN [categories EXCEPT ![c] = entity] ELSE categories

\* Where the checks of an entity go on: the group is checked, and then the name.
AfterName(a) == [a EXCEPT !.at = IF a.id = None THEN "insert" ELSE "save", !.checksName = FALSE]
AfterParent(a) == IF a.checksName THEN [a EXCEPT !.at = "name"] ELSE AfterName(a)

Continue(r, holding) ==
    /\ act' = [act EXCEPT ![r] = holding]
    /\ UNCHANGED categories

-----------------------------------------------------------------------------
(* create, and findOrCreateCategory *)

Create(r) ==
    /\ act[r].at = "idle"
    /\ \E row \in Row :
          Continue(r, [Idle EXCEPT !.entity = row, !.checksName = TRUE,
                         !.at = IF row.parentId = None THEN "name" ELSE "parent"])

\* The main category of a transaction that names none.
FindOrCreate(r) ==
    /\ act[r].at = "idle"
    /\ \E name \in Names, type \in Types :
          /\ ~ Found(name, type)
          /\ Continue(r, [Idle EXCEPT !.at = "insert",
                            !.entity = [name |-> name, type |-> type, parentId |-> None]])

\* The row gets an id that nobody has.
Insert(r, c) ==
    /\ act[r].at = "insert"
    /\ ~ Exists(c)
    /\ \A q \in Requests : act[q].id # c /\ act[q].entity.parentId # c
    /\ categories' = Saved(c, act[r].entity)
    /\ act' = [act EXCEPT ![r] = Idle]

-----------------------------------------------------------------------------
(* update and updateBudget *)

\* What the request does not give is taken from the row that was read.
Update(r, c) ==
    /\ act[r].at = "idle"
    /\ Exists(c)
    /\ \E row \in Row :
          /\ row.parentId # c
          /\ Cardinality({f \in DOMAIN row : row[f] # categories[c][f]}) <= MaxFields
          /\ LET a == [Idle EXCEPT !.id = c, !.entity = row,
                                   !.checksName = row # categories[c]] IN
             Continue(r, IF row.parentId = None THEN AfterParent(a)
                         ELSE [a EXCEPT !.at = "children"])

\* countChildren: a group cannot become a subcategory.
CountChildren(r) ==
    LET a == act[r] IN
    /\ a.at = "children"
    /\ Continue(r, IF Children(a.id) = {} THEN [a EXCEPT !.at = "parent"] ELSE Idle)

CheckParent(r) ==
    LET a == act[r] IN
    /\ a.at = "parent"
    /\ Continue(r, IF ValidParent(a.entity.parentId, a.entity.type)
                   THEN AfterParent(a) ELSE Idle)

CheckName(r) ==
    LET a == act[r] IN
    /\ a.at = "name"
    /\ Continue(r, IF UniqueName(a.entity, a.id) THEN AfterName(a) ELSE Idle)

\* One database transaction: save, and the type of the subcategories.
Save(r) ==
    LET a == act[r]
        rows == Saved(a.id, a.entity) IN
    /\ a.at = "save"
    /\ categories' = IF ParentKey(a.entity) /\ a.entity.parentId = None
                     THEN WithType(rows, a.id, a.entity.type) ELSE rows
    /\ act' = [act EXCEPT ![r] = Idle]

UpdateBudget(r, c) ==
    /\ act[r].at = "idle"
    /\ Exists(c)
    /\ Continue(r, [Idle EXCEPT !.at = "budget", !.id = c, !.entity = categories[c]])

SaveBudget(r) ==
    /\ act[r].at = "budget"
    /\ categories' = Saved(act[r].id, act[r].entity)
    /\ act' = [act EXCEPT ![r] = Idle]

-----------------------------------------------------------------------------
(* remove *)

Remove(r, c) ==
    /\ act[r].at = "idle"
    /\ Exists(c)
    /\ \E release \in BOOLEAN :
          Continue(r, [Idle EXCEPT !.at = "used", !.id = c, !.release = release])

CountTransactions(r) ==
    LET a == act[r] IN
    /\ a.at = "used"
    /\ \E used \in BOOLEAN : Continue(r, IF used THEN Idle ELSE [a EXCEPT !.at = "kids"])

\* A group goes only with releaseChildren.
CountReleased(r) ==
    LET a == act[r]
        children == Children(a.id) # {} IN
    /\ a.at = "kids"
    /\ Continue(r, IF children /\ ~ a.release THEN Idle
                   ELSE [a EXCEPT !.at = "delete", !.release = children])

\* One database transaction: the subcategories that were counted become main
\* categories and the row goes; a foreign key undoes both.
Delete(r) ==
    LET a == act[r]
        rows == [c \in Ids |-> IF a.release /\ categories[c].parentId = a.id
                               THEN [categories[c] EXCEPT !.parentId = None]
                               ELSE categories[c]] IN
    /\ a.at = "delete"
    /\ \E used \in BOOLEAN :
          categories' = IF used \/ \E c \in Ids : rows[c].parentId = a.id THEN categories
                        ELSE [rows EXCEPT ![a.id] = NoRow]
    /\ act' = [act EXCEPT ![r] = Idle]

-----------------------------------------------------------------------------
Step ==
    \E r \in Requests :
          \/ Create(r)
          \/ FindOrCreate(r)
          \/ CountChildren(r)
          \/ CheckParent(r)
          \/ CheckName(r)
          \/ Save(r)
          \/ SaveBudget(r)
          \/ CountTransactions(r)
          \/ CountReleased(r)
          \/ Delete(r)
          \/ \E c \in Ids : Insert(r, c) \/ Update(r, c) \/ UpdateBudget(r, c) \/ Remove(r, c)

\* What the rules of groups and of their names refuse.
Deep(c) == \E p \in Ids : categories[c].parentId = p /\ categories[p].parentId # None
Mixed(c) ==
    \E p \in Ids : categories[c].parentId = p /\ categories[c].type # categories[p].type
Repeated(c) == Exists(c) /\ \E d \in Ids \ {c} : categories[d] = categories[c]

Rules == {"levels", "types", "names"}
Broken(rule) ==
    \E c \in Ids : \/ rule = "levels" /\ Deep(c)
                   \/ rule = "types" /\ Mixed(c)
                   \/ rule = "names" /\ Repeated(c)

\* What a request looks at: its category, the group it goes to, the subcategories
\* its category has, and whoever has its name.
LooksAt(a, c, row) ==
    \/ c \in {a.id, a.entity.parentId}
    \/ row.parentId # None /\ row.parentId = a.id
    \/ row.name # None /\ row.name = a.entity.name

\* A request is late when another one wrote something that it looks at.  A rule
\* is excused while it is broken, if a late request broke it, or if it follows
\* from another one that is; a repeated name, also if the removal of a group
\* made a main category of its subcategory.
Observe ==
    LET writers == {r \in Requests : categories' # categories /\ act[r].at # act'[r].at}
        released == \E c \in Ids : categories[c].parentId # None
                        /\ categories'[c].parentId = None /\ \E r \in writers : act[r].at = "delete"
        changed == {c \in Ids : categories'[c] # categories[c]} IN
    /\ late' = {r \in Requests : /\ act'[r].at # "idle"
                                 /\ \/ r \in late
                                    \/ /\ r \notin writers
                                       /\ \E c \in changed : \/ LooksAt(act[r], c, categories[c])
                                                             \/ LooksAt(act[r], c, categories'[c])}
    /\ excused' = {rule \in Rules : /\ Broken(rule)'
                                    /\ \/ rule \in excused
                                       \/ writers \intersect late # {}
                                       \/ excused \ {"names"} # {}
                                       \/ rule = "names" /\ released}

Next == Step /\ Observe

Spec == Init /\ [][Next]_vars

-----------------------------------------------------------------------------
(* Properties *)

\* Every variable has its type.
TypeOK ==
    /\ categories \in [Ids -> Row \union {NoRow}]
    /\ act \in [Requests -> Holding]
    /\ late \subseteq Requests
    /\ excused \subseteq Rules

\* The group of every subcategory exists, also when something is put in a group
\* while it is being removed, or is saved from a copy read before.
GroupsExist == \A c \in Ids : categories[c].parentId # None => Exists(categories[c].parentId)

\* "grupos de dos niveles": a group is in no group, unless a request wrote after
\* another one had changed what it had looked at.
TwoLevels == "levels" \notin excused => \A c \in Ids : ~ Deep(c)

\* "para que el grupo nunca mezcle ingresos y gastos": a subcategory has the type
\* of its group through every change of either, with the same exception.
GroupsDoNotMix == "types" \notin excused => \A c \in Ids : ~ Mixed(c)

\* The groups are two levels of one type each.
GroupsAreSound == TypeOK /\ GroupsExist /\ TwoLevels /\ GroupsDoNotMix

\* "Sin nombres repetidos al mismo nivel (mismo grupo y tipo)", with the same
\* exception and that of a subcategory whose group was removed.
NamesAreUnique == "names" \notin excused => \A c \in Ids : ~ Repeated(c)

=============================================================================
