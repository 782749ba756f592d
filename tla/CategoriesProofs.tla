--------------------------- MODULE CategoriesProofs ---------------------------
(***************************************************************************)
(* Proofs about Categories, for any sets of categories, names, types and   *)
(* requests.                                                               *)
(***************************************************************************)
EXTENDS Categories, TLAPS

(***************************************************************************)
(* The inductive invariant.                                                *)
(***************************************************************************)
\* What a request holds, given the statement it does next.
HoldingOK(a) ==
  /\ a.at \in {"children", "parent", "name", "save", "insert", "budget"} => a.entity \in Row
  /\ a.at \in {"children", "save", "used", "kids", "delete", "budget"} => a.id \in Ids
  /\ a.at = "insert" => a.id = None
  /\ a.at \in {"save", "insert"} => ~ a.checksName
  /\ a.at \in {"children", "parent"} => a.entity.parentId # None
  /\ a.at \in {"children", "parent", "name", "save"} /\ a.id # None => a.entity.parentId # a.id
  /\ a.at = "parent" /\ a.id = None => a.checksName

\* What a request has read is still so, unless another one wrote something of it.
ParentHolds(a) ==
  a.at \in {"name", "save", "insert"} /\ a.entity.parentId # None =>
    ValidParent(a.entity.parentId, a.entity.type)

ChildrenHold(a) ==
  a.at \in {"parent", "name", "save"} /\ a.id # None /\ a.entity.parentId # None =>
    Children(a.id) = {}

NameHolds(a) ==
  a.at \in {"children", "parent", "save", "insert"} /\ ~ a.checksName =>
    \/ UniqueName(a.entity, a.id)
    \/ a.id \in Ids /\ categories[a.id] = a.entity

BudgetHolds(a) == a.at = "budget" => categories[a.id] = a.entity

ReadsHold(a) == ParentHolds(a) /\ ChildrenHold(a) /\ NameHolds(a) /\ BudgetHolds(a)

IInv ==
  /\ TypeOK
  /\ \A r \in Requests : HoldingOK(act[r])
  /\ \A r \in Requests \ late : ReadsHold(act[r])
  /\ GroupsExist
  /\ TwoLevels
  /\ GroupsDoNotMix
  /\ NamesAreUnique

(***************************************************************************)
(* Basic facts.                                                            *)
(***************************************************************************)
LEMMA IdleHolds ==
  /\ Idle \in Holding /\ Idle.at = "idle" /\ Idle.id = None /\ Idle.entity = NoRow
  /\ ~ Idle.checksName /\ ~ Idle.release
  BY DEF Idle, Holding

LEMMA IdleIsOK == HoldingOK(Idle) /\ ReadsHold(Idle)
  BY IdleHolds DEF HoldingOK, ReadsHold, ParentHolds, ChildrenHold, NameHolds, BudgetHolds

\* No row is the absent one.
LEMMA RowsExist ==
  /\ NoRow \notin Row
  /\ NoRow.parentId = None /\ NoRow.name = None
  BY CategoryConstants DEF Row, NoRow

\* A row that is a subcategory, or has a name, exists.
LEMMA ChildrenExist ==
  ASSUME TypeOK, NEW c \in Ids
  PROVE  /\ categories[c].parentId # None => Exists(c)
         /\ Exists(c) <=> categories[c] \in Row
         /\ categories[c].parentId \in Ids \union {None}
  BY RowsExist DEF TypeOK, Exists, Row, NoRow

\* The holdings that go on after the group or the name was checked.
LEMMA AfterHolds ==
  ASSUME NEW a \in Holding
  PROVE  /\ AfterName(a) \in Holding
         /\ AfterName(a).at = IF a.id = None THEN "insert" ELSE "save"
         /\ ~ AfterName(a).checksName
         /\ AfterName(a).id = a.id /\ AfterName(a).entity = a.entity
         /\ AfterParent(a) \in Holding
         /\ AfterParent(a).id = a.id /\ AfterParent(a).entity = a.entity
         /\ a.checksName => AfterParent(a).at = "name" /\ AfterParent(a).checksName
         /\ ~ a.checksName => AfterParent(a) = AfterName(a)
  <1>1. /\ AfterName(a) \in Holding
        /\ AfterName(a).at = IF a.id = None THEN "insert" ELSE "save"
        /\ AfterName(a).checksName = FALSE
        /\ AfterName(a).id = a.id /\ AfterName(a).entity = a.entity
    BY DEF AfterName, Holding
  <1> DEFINE h == [a EXCEPT !.at = "name"]
  <1>2. /\ h \in Holding /\ h.at = "name" /\ h.checksName = a.checksName
        /\ h.id = a.id /\ h.entity = a.entity
    BY DEF Holding
  <1> HIDE DEF h
  <1>3. AfterParent(a) = IF a.checksName THEN h ELSE AfterName(a)
    BY DEF AfterParent, h
  <1> QED BY <1>1, <1>2, <1>3

(***************************************************************************)
(* What a step does to the histories.                                      *)
(***************************************************************************)
\* The rules hold of the rows, but for repeated names.
Clean == \A c \in Ids : ~ Deep(c) /\ ~ Mixed(c)
Unrepeated == \A c \in Ids : ~ Repeated(c)

LEMMA NothingWritten ==
  ASSUME IInv, Observe, UNCHANGED categories
  PROVE  (TwoLevels /\ GroupsDoNotMix /\ NamesAreUnique)'
  <1>1. \A rule \in Rules : Broken(rule)' <=> Broken(rule)
    BY DEF Broken, Deep, Mixed, Repeated, Exists
  <1>2. \A rule \in Rules : Broken(rule)' /\ rule \in excused => rule \in excused'
    BY DEF Observe
  <1> QED BY <1>1, <1>2 DEF IInv, TwoLevels, GroupsDoNotMix, NamesAreUnique, Broken, Rules,
                            Deep, Mixed, Repeated, Exists

\* It is enough that a request whose reads hold keeps the rules where they hold.
LEMMA WriteKeepsRules ==
  ASSUME IInv, Observe, NEW r \in Requests, act[r].at # act'[r].at,
         r \notin late /\ Clean => Clean',
         /\ r \notin late /\ Clean /\ Unrepeated
         /\ ~ (act[r].at = "delete" /\ \E c \in Ids :
                 categories[c].parentId # None /\ categories'[c].parentId = None)
         => Unrepeated'
  PROVE  (TwoLevels /\ GroupsDoNotMix /\ NamesAreUnique)'
  <1>1. CASE UNCHANGED categories
    BY <1>1, NothingWritten
  <1>2. CASE categories' # categories
    <2> DEFINE writers == {q \in Requests : categories' # categories /\ act[q].at # act'[q].at}
               released == \E c \in Ids : categories[c].parentId # None
                        /\ categories'[c].parentId = None /\ \E q \in writers : act[q].at = "delete"
    <2>1. r \in writers
      BY <1>2
    <2>2. excused' = {rule \in Rules : /\ Broken(rule)'
                                       /\ \/ rule \in excused
                                          \/ writers \intersect late # {}
                                          \/ excused \ {"names"} # {}
                                          \/ rule = "names" /\ released}
      BY DEF Observe
    <2>3. (act[r].at = "delete" /\ \E c \in Ids :
             categories[c].parentId # None /\ categories'[c].parentId = None) => released
      BY <2>1
    <2> HIDE DEF writers, released
    <2>4. ASSUME NEW rule \in {"levels", "types"}, Broken(rule)', rule \notin excused'
          PROVE  FALSE
      <3>1. r \notin late /\ excused \subseteq {"names"}
        BY <2>1, <2>2, <2>4 DEF Rules
      <3>2. Clean
        BY <3>1 DEF IInv, TwoLevels, GroupsDoNotMix, Clean
      <3>3. Clean'
        BY <3>1, <3>2
      <3> QED BY <2>4, <3>3 DEF Clean, Broken
    <2>5. ASSUME Broken("names")', "names" \notin excused' PROVE FALSE
      <3>1. r \notin late /\ excused \subseteq {} /\ ~ released
        BY <2>1, <2>2, <2>5 DEF Rules, IInv, TypeOK
      <3>2. Clean /\ Unrepeated
        BY <3>1 DEF IInv, TwoLevels, GroupsDoNotMix, NamesAreUnique, Clean, Unrepeated
      <3>3. Unrepeated'
        BY <2>3, <3>1, <3>2
      <3> QED BY <2>5, <3>3 DEF Unrepeated, Broken
    <2>6. \A c \in Ids : /\ Deep(c)' => Broken("levels")'
                         /\ Mixed(c)' => Broken("types")'
                         /\ Repeated(c)' => Broken("names")'
      BY DEF Broken
    <2>7. TwoLevels' /\ GroupsDoNotMix'
      BY <2>4, <2>6 DEF TwoLevels, GroupsDoNotMix
    <2>8. NamesAreUnique'
      BY <2>5, <2>6 DEF NamesAreUnique
    <2> QED BY <2>7, <2>8
  <1> QED BY <1>1, <1>2

\* A request that is not late after a step of another one has nothing to read again.
LEMMA OthersKeepReads ==
  ASSUME IInv, Observe, NEW s \in Requests, act'[s] = act[s], s \notin late',
         categories' \in [Ids -> Row \union {NoRow}]
  PROVE  ReadsHold(act[s])'
  <1> DEFINE a == act[s]
  <1>1. CASE a.at = "idle"
    BY <1>1 DEF ReadsHold, ParentHolds, ChildrenHold, NameHolds, BudgetHolds
  <1>2. CASE a.at # "idle"
    <2>1. s \notin late
      BY <1>2 DEF Observe
    <2>2. \A c \in Ids : categories'[c] # categories[c] =>
             ~ LooksAt(a, c, categories[c]) /\ ~ LooksAt(a, c, categories'[c])
      BY <1>2 DEF Observe
    <2>3. ReadsHold(a)
      BY <2>1 DEF IInv
    <2>4. \A c \in Ids : c \in {a.id, a.entity.parentId} => categories'[c] = categories[c]
      BY <2>2 DEF LooksAt
    <2>5. ParentHolds(a)'
      <3> SUFFICES ASSUME a.at \in {"name", "save", "insert"}, a.entity.parentId # None
                   PROVE  ValidParent(a.entity.parentId, a.entity.type)'
        BY DEF ParentHolds
      <3>1. a.entity.parentId \in Ids
        BY DEF IInv, HoldingOK, Row
      <3> QED BY <2>3, <2>4, <3>1 DEF ReadsHold, ParentHolds, ValidParent, Exists
    <2>6. ChildrenHold(a)'
      <3> SUFFICES ASSUME a.at \in {"parent", "name", "save"}, a.id # None,
                          a.entity.parentId # None,
                          NEW c \in Ids, categories'[c].parentId = a.id
                   PROVE  FALSE
        BY DEF ChildrenHold, Children
      <3>1. categories'[c] = categories[c]
        BY <2>2 DEF LooksAt
      <3> QED BY <2>3, <3>1 DEF ReadsHold, ChildrenHold, Children
    <2>7. NameHolds(a)'
      <3> SUFFICES ASSUME a.at \in {"children", "parent", "save", "insert"}, ~ a.checksName
                   PROVE  (UniqueName(a.entity, a.id) \/ (a.id \in Ids /\ categories[a.id] = a.entity))'
        BY DEF NameHolds
      <3>1. CASE a.id \in Ids /\ categories[a.id] = a.entity
        BY <2>4, <3>1
      <3>2. CASE UniqueName(a.entity, a.id)
        <4> SUFFICES ASSUME NEW c \in Ids \ {a.id}, categories'[c] = a.entity PROVE FALSE
          BY DEF UniqueName
        <4>1. a.entity \in Row /\ a.entity.name # None
          BY CategoryConstants DEF IInv, HoldingOK, Row
        <4>2. categories'[c] = categories[c]
          BY <2>2, <4>1 DEF LooksAt
        <4> QED BY <3>2, <4>2 DEF UniqueName
      <3> QED BY <2>3, <3>1, <3>2 DEF ReadsHold, NameHolds
    <2>8. BudgetHolds(a)'
      BY <2>3, <2>4 DEF ReadsHold, BudgetHolds, IInv, HoldingOK
    <2> QED BY <2>5, <2>6, <2>7, <2>8 DEF ReadsHold
  <1> QED BY <1>1, <1>2

(***************************************************************************)
(* The statements that read.                                               *)
(***************************************************************************)
\* What the request that takes the step holds after it.
Goes(r, h) ==
  /\ act' = [act EXCEPT ![r] = h]
  /\ h \in Holding
  /\ HoldingOK(h)
  /\ r \notin late => ReadsHold(h)

LEMMA EndGoes ==
  ASSUME NEW r \in Requests, act' = [act EXCEPT ![r] = Idle]
  PROVE  \E h : Goes(r, h)
  BY IdleHolds, IdleIsOK DEF Goes

LEMMA CreateGoes ==
  ASSUME IInv, NEW r \in Requests, Create(r)
  PROVE  \E h : Goes(r, h)
  <1>1. PICK row \in Row :
          act' = [act EXCEPT ![r] = [Idle EXCEPT !.entity = row, !.checksName = TRUE,
                         !.at = IF row.parentId = None THEN "name" ELSE "parent"]]
    BY DEF Create, Continue
  <1> DEFINE h == [Idle EXCEPT !.entity = row, !.checksName = TRUE,
                         !.at = IF row.parentId = None THEN "name" ELSE "parent"]
  <1>2. /\ h \in Holding /\ h.entity = row /\ h.checksName /\ h.id = None
        /\ h.at = IF row.parentId = None THEN "name" ELSE "parent"
    BY IdleHolds DEF Holding
  <1>3. act' = [act EXCEPT ![r] = h]
    BY <1>1
  <1> HIDE DEF h
  <1>4. HoldingOK(h)
    BY <1>2 DEF HoldingOK
  <1>5. ReadsHold(h)
    BY <1>2 DEF ReadsHold, ParentHolds, ChildrenHold, NameHolds, BudgetHolds
  <1> QED BY <1>2, <1>3, <1>4, <1>5 DEF Goes

LEMMA FindOrCreateGoes ==
  ASSUME IInv, NEW r \in Requests, FindOrCreate(r)
  PROVE  \E h : Goes(r, h)
  <1>1. PICK name \in Names : \E type \in Types :
          /\ ~ Found(name, type)
          /\ act' = [act EXCEPT ![r] = [Idle EXCEPT !.at = "insert",
                       !.entity = [name |-> name, type |-> type, parentId |-> None]]]
    BY DEF FindOrCreate, Continue
  <1>2. PICK type \in Types :
          /\ ~ Found(name, type)
          /\ act' = [act EXCEPT ![r] = [Idle EXCEPT !.at = "insert",
                       !.entity = [name |-> name, type |-> type, parentId |-> None]]]
    BY <1>1
  <1> DEFINE row == [name |-> name, type |-> type, parentId |-> None]
             h == [Idle EXCEPT !.at = "insert", !.entity = row]
  <1>3. row \in Row /\ row.name = name /\ row.type = type /\ row.parentId = None
    BY DEF Row
  <1>4. act' = [act EXCEPT ![r] = h]
    BY <1>2
  <1>5. UniqueName(row, None)
    BY <1>2, <1>3 DEF UniqueName, Found
  <1> HIDE DEF row
  <1>6. /\ h \in Holding /\ h.entity = row /\ ~ h.checksName /\ h.id = None /\ h.at = "insert"
    BY <1>3, IdleHolds DEF Holding
  <1> HIDE DEF h
  <1>7. HoldingOK(h)
    BY <1>3, <1>6 DEF HoldingOK
  <1>8. ReadsHold(h)
    BY <1>3, <1>5, <1>6 DEF ReadsHold, ParentHolds, ChildrenHold, NameHolds, BudgetHolds
  <1> QED BY <1>4, <1>6, <1>7, <1>8 DEF Goes

LEMMA UpdateGoes ==
  ASSUME IInv, NEW r \in Requests, NEW c \in Ids, Update(r, c)
  PROVE  \E h : Goes(r, h)
  <1>1. PICK row \in Row :
          /\ row.parentId # c
          /\ LET a == [Idle EXCEPT !.id = c, !.entity = row,
                                   !.checksName = row # categories[c]] IN
             act' = [act EXCEPT ![r] = IF row.parentId = None THEN AfterParent(a)
                                       ELSE [a EXCEPT !.at = "children"]]
    BY DEF Update, Continue
  <1> DEFINE a == [Idle EXCEPT !.id = c, !.entity = row, !.checksName = row # categories[c]]
             h == IF row.parentId = None THEN AfterParent(a) ELSE [a EXCEPT !.at = "children"]
  <1>2. act' = [act EXCEPT ![r] = h]
    BY <1>1
  <1>3. /\ a \in Holding /\ a.id = c /\ a.entity = row /\ a.checksName = (row # categories[c])
    BY IdleHolds DEF Holding
  <1> HIDE DEF a
  <1>4. c # None
    BY CategoryConstants
  <1>5. CASE row.parentId # None
    <2>1. /\ h \in Holding /\ h.at = "children" /\ h.id = c /\ h.entity = row
          /\ h.checksName = (row # categories[c])
      BY <1>3, <1>5 DEF Holding
    <2> HIDE DEF h
    <2>2. HoldingOK(h)
      BY <1>1, <1>5, <2>1 DEF HoldingOK
    <2>3. ReadsHold(h)
      BY <2>1 DEF ReadsHold, ParentHolds, ChildrenHold, NameHolds, BudgetHolds
    <2> QED BY <1>2, <2>2, <2>3, <2>1 DEF Goes
  <1>6. CASE row.parentId = None
    <2>1. h = AfterParent(a)
      BY <1>6
    <2>2. /\ h \in Holding /\ h.id = c /\ h.entity = row
          /\ a.checksName => h.at = "name" /\ h.checksName
          /\ ~ a.checksName => h.at = "save" /\ ~ h.checksName
      <3>1. AfterName(a).at = "save"
        BY <1>3, <1>4, AfterHolds
      <3>2. AfterParent(a) \in Holding /\ AfterParent(a).id = c /\ AfterParent(a).entity = row
        BY <1>3, AfterHolds
      <3>3. ~ a.checksName => AfterParent(a) = AfterName(a) /\ ~ AfterName(a).checksName
        BY <1>3, AfterHolds
      <3>4. a.checksName => AfterParent(a).at = "name" /\ AfterParent(a).checksName
        BY <1>3, AfterHolds
      <3> HIDE DEF h
      <3> QED BY <2>1, <3>1, <3>2, <3>3, <3>4
    <2> HIDE DEF h
    <2>3. HoldingOK(h)
      BY <1>1, <1>4, <1>6, <2>2 DEF HoldingOK
    <2>4. ReadsHold(h)
      BY <1>3, <1>6, <2>2 DEF ReadsHold, ParentHolds, ChildrenHold, NameHolds, BudgetHolds
    <2> QED BY <1>2, <2>2, <2>3, <2>4 DEF Goes
  <1> QED BY <1>5, <1>6

LEMMA CountChildrenGoes ==
  ASSUME IInv, NEW r \in Requests, CountChildren(r)
  PROVE  \E h : Goes(r, h)
  <1> DEFINE a == act[r]
             h == [a EXCEPT !.at = "parent"]
  <1>1. /\ a.at = "children"
        /\ \/ act' = [act EXCEPT ![r] = Idle]
           \/ Children(a.id) = {} /\ act' = [act EXCEPT ![r] = h]
    BY DEF CountChildren, Continue
  <1>2. a \in Holding /\ HoldingOK(a) /\ (r \notin late => ReadsHold(a))
    BY DEF IInv, TypeOK
  <1>3. CASE Children(a.id) = {} /\ act' = [act EXCEPT ![r] = h]
    <2>1. /\ h \in Holding /\ h.at = "parent" /\ h.id = a.id /\ h.entity = a.entity
          /\ h.checksName = a.checksName
      BY <1>2 DEF Holding
    <2> HIDE DEF h
    <2>2. HoldingOK(h)
      BY <1>1, <1>2, <2>1, CategoryConstants DEF HoldingOK
    <2>3. r \notin late => ReadsHold(h)
      BY <1>1, <1>2, <1>3, <2>1 DEF ReadsHold, ParentHolds, ChildrenHold, NameHolds, BudgetHolds
    <2> QED BY <1>3, <2>1, <2>2, <2>3 DEF Goes
  <1> QED BY <1>1, <1>3, EndGoes

LEMMA CheckParentGoes ==
  ASSUME IInv, NEW r \in Requests, CheckParent(r)
  PROVE  \E h : Goes(r, h)
  <1> DEFINE a == act[r]
             h == AfterParent(a)
  <1>1. /\ a.at = "parent"
        /\ \/ act' = [act EXCEPT ![r] = Idle]
           \/ ValidParent(a.entity.parentId, a.entity.type) /\ act' = [act EXCEPT ![r] = h]
    BY DEF CheckParent, Continue
  <1>2. a \in Holding /\ HoldingOK(a) /\ (r \notin late => ReadsHold(a))
    BY DEF IInv, TypeOK
  <1>3. a.id \in Ids \union {None} /\ (~ a.checksName => a.id # None)
    BY <1>1, <1>2 DEF Holding, HoldingOK
  <1>4. CASE ValidParent(a.entity.parentId, a.entity.type) /\ act' = [act EXCEPT ![r] = h]
    <2>1. /\ h \in Holding /\ h.id = a.id /\ h.entity = a.entity
          /\ a.checksName => h.at = "name" /\ h.checksName
          /\ ~ a.checksName => h.at = "save" /\ ~ h.checksName
      BY <1>2, <1>3, AfterHolds
    <2> HIDE DEF h
    <2>2. HoldingOK(h)
      BY <1>1, <1>2, <1>3, <2>1 DEF HoldingOK
    <2>3. r \notin late => ReadsHold(h)
      BY <1>1, <1>2, <1>4, <2>1 DEF ReadsHold, ParentHolds, ChildrenHold, NameHolds, BudgetHolds
    <2> QED BY <1>4, <2>1, <2>2, <2>3 DEF Goes
  <1> QED BY <1>1, <1>4, EndGoes

LEMMA CheckNameGoes ==
  ASSUME IInv, NEW r \in Requests, CheckName(r)
  PROVE  \E h : Goes(r, h)
  <1> DEFINE a == act[r]
             h == AfterName(a)
  <1>1. /\ a.at = "name"
        /\ \/ act' = [act EXCEPT ![r] = Idle]
           \/ UniqueName(a.entity, a.id) /\ act' = [act EXCEPT ![r] = h]
    BY DEF CheckName, Continue
  <1>2. a \in Holding /\ HoldingOK(a) /\ (r \notin late => ReadsHold(a))
    BY DEF IInv, TypeOK
  <1>3. a.id \in Ids \union {None}
    BY <1>2 DEF Holding
  <1>4. CASE UniqueName(a.entity, a.id) /\ act' = [act EXCEPT ![r] = h]
    <2>1. /\ h \in Holding /\ h.id = a.id /\ h.entity = a.entity /\ ~ h.checksName
          /\ h.at = IF a.id = None THEN "insert" ELSE "save"
      BY <1>2, AfterHolds
    <2> HIDE DEF h
    <2>2. HoldingOK(h)
      BY <1>1, <1>2, <1>3, <2>1 DEF HoldingOK
    <2>3. r \notin late => ReadsHold(h)
      BY <1>1, <1>2, <1>4, <2>1 DEF ReadsHold, ParentHolds, ChildrenHold, NameHolds, BudgetHolds
    <2> QED BY <1>4, <2>1, <2>2, <2>3 DEF Goes
  <1> QED BY <1>1, <1>4, EndGoes

LEMMA UpdateBudgetGoes ==
  ASSUME IInv, NEW r \in Requests, NEW c \in Ids, UpdateBudget(r, c)
  PROVE  \E h : Goes(r, h)
  <1> DEFINE h == [Idle EXCEPT !.at = "budget", !.id = c, !.entity = categories[c]]
  <1>1. act' = [act EXCEPT ![r] = h] /\ Exists(c)
    BY DEF UpdateBudget, Continue
  <1>2. categories[c] \in Row
    BY <1>1, ChildrenExist DEF IInv
  <1>3. h \in Holding /\ h.at = "budget" /\ h.id = c /\ h.entity = categories[c]
    BY <1>2, IdleHolds DEF Holding
  <1> HIDE DEF h
  <1>4. HoldingOK(h)
    BY <1>2, <1>3 DEF HoldingOK
  <1>5. ReadsHold(h)
    BY <1>3 DEF ReadsHold, ParentHolds, ChildrenHold, NameHolds, BudgetHolds
  <1> QED BY <1>1, <1>3, <1>4, <1>5 DEF Goes

\* A removal relies on nothing it has read.
LEMMA RemovalGoes ==
  ASSUME IInv, NEW r \in Requests, NEW h \in Holding, h.at \in {"used", "kids", "delete"},
         h.id \in Ids, act' = [act EXCEPT ![r] = h]
  PROVE  Goes(r, h)
  BY DEF Goes, HoldingOK, ReadsHold, ParentHolds, ChildrenHold, NameHolds, BudgetHolds

LEMMA RemovingGoes ==
  ASSUME IInv, NEW r \in Requests,
         (\E c \in Ids : Remove(r, c)) \/ CountTransactions(r) \/ CountReleased(r)
  PROVE  \E h : Goes(r, h)
  <1> DEFINE a == act[r]
  <1>1. a \in Holding /\ HoldingOK(a)
    BY DEF IInv, TypeOK
  <1>2. ASSUME NEW c \in Ids, Remove(r, c) PROVE \E h : Goes(r, h)
    <2>1. PICK release \in BOOLEAN :
            act' = [act EXCEPT ![r] = [Idle EXCEPT !.at = "used", !.id = c, !.release = release]]
      BY <1>2 DEF Remove, Continue
    <2> DEFINE h == [Idle EXCEPT !.at = "used", !.id = c, !.release = release]
    <2>2. h \in Holding /\ h.at = "used" /\ h.id = c
      BY IdleHolds DEF Holding
    <2>3. act' = [act EXCEPT ![r] = h]
      BY <2>1
    <2> HIDE DEF h
    <2> QED BY <2>2, <2>3, RemovalGoes
  <1>3. CASE CountTransactions(r)
    <2> DEFINE h == [a EXCEPT !.at = "kids"]
    <2>1. a.at = "used" /\ (act' = [act EXCEPT ![r] = Idle] \/ act' = [act EXCEPT ![r] = h])
      BY <1>3 DEF CountTransactions, Continue
    <2>2. h \in Holding /\ h.at = "kids" /\ h.id \in Ids
      BY <1>1, <2>1 DEF Holding, HoldingOK
    <2> HIDE DEF h
    <2> QED BY <2>1, <2>2, RemovalGoes, EndGoes
  <1>4. CASE CountReleased(r)
    <2> DEFINE children == Children(a.id) # {}
               h == [a EXCEPT !.at = "delete", !.release = children]
    <2>1. a.at = "kids" /\ (act' = [act EXCEPT ![r] = Idle] \/ act' = [act EXCEPT ![r] = h])
      BY <1>4 DEF CountReleased, Continue
    <2>2. children \in BOOLEAN
      OBVIOUS
    <2> HIDE DEF children
    <2>3. h \in Holding /\ h.at = "delete" /\ h.id \in Ids
      BY <1>1, <2>1, <2>2 DEF Holding, HoldingOK
    <2> HIDE DEF h
    <2> QED BY <2>1, <2>3, RemovalGoes, EndGoes
  <1> QED BY <1>2, <1>3, <1>4

(***************************************************************************)
(* The statements that write.                                              *)
(***************************************************************************)
\* What a write does: the types, the foreign key, and the rules.
Writes(r) ==
  /\ categories' \in [Ids -> Row \union {NoRow}]
  /\ GroupsExist'
  /\ r \notin late /\ Clean => Clean'
  /\ r \notin late /\ Clean /\ Unrepeated
     /\ ~ (act[r].at = "delete" /\ \E c \in Ids :
             categories[c].parentId # None /\ categories'[c].parentId = None)
     => Unrepeated'

LEMMA InsertWrites ==
  ASSUME IInv, NEW r \in Requests, NEW c \in Ids, Insert(r, c)
  PROVE  Writes(r)
  <1> DEFINE a == act[r]
             e == a.entity
  <1>1. /\ a.at = "insert" /\ ~ Exists(c) /\ e.parentId # c
        /\ categories' = Saved(c, e)
    BY DEF Insert
  <1>2. e \in Row /\ a.id = None /\ ~ a.checksName /\ e.parentId \in Ids \union {None}
    BY <1>1 DEF IInv, HoldingOK, Row
  <1>3. \A d \in Ids : categories[d].parentId # c
    BY <1>1, CategoryConstants DEF IInv, GroupsExist
  <1>4. CASE categories' = categories
    BY <1>4 DEF Writes, IInv, TypeOK, GroupsExist, Clean, Unrepeated, Deep, Mixed, Repeated, Exists
  <1>5. CASE ParentKey(e) /\ categories' = [categories EXCEPT ![c] = e]
    <2>1. /\ categories'[c] = e
          /\ \A d \in Ids \ {c} : categories'[d] = categories[d]
          /\ categories' \in [Ids -> Row \union {NoRow}]
      BY <1>2, <1>5 DEF IInv, TypeOK
    <2>2. GroupsExist'
      BY <1>1, <1>2, <1>3, <1>5, <2>1 DEF IInv, GroupsExist, ParentKey, Exists
    <2>3. ASSUME r \notin late, Clean PROVE Clean'
      <3>1. e.parentId # None => ValidParent(e.parentId, e.type)
        BY <1>1, <2>3 DEF IInv, ReadsHold, ParentHolds
      <3>2. ASSUME NEW d \in Ids, NEW p \in Ids, categories'[d].parentId = p
            PROVE  categories'[p].parentId = None /\ categories'[d].type = categories'[p].type
        <4>1. CASE d = c
          <5>1. p # c /\ ValidParent(p, e.type)
            BY <1>1, <2>1, <3>1, <3>2, <4>1, CategoryConstants
          <5> QED BY <2>1, <3>2, <4>1, <5>1 DEF ValidParent
        <4>2. CASE d # c
          <5>1. p # c /\ categories[d].parentId = p
            BY <1>3, <2>1, <3>2, <4>2
          <5> QED BY <2>1, <2>3, <4>2, <5>1 DEF Clean, Deep, Mixed
        <4> QED BY <4>1, <4>2
      <3> QED BY <3>2 DEF Clean, Deep, Mixed
    <2>4. ASSUME r \notin late, Unrepeated PROVE Unrepeated'
      <3>1. UniqueName(e, None)
        BY <1>1, <1>2, <2>4, CategoryConstants DEF IInv, ReadsHold, NameHolds
      <3> QED BY <2>1, <2>4, <3>1, CategoryConstants DEF Unrepeated, Repeated, UniqueName, Exists
    <2> QED BY <2>1, <2>2, <2>3, <2>4 DEF Writes
  <1> QED BY <1>1, <1>4, <1>5 DEF Saved

LEMMA SaveWrites ==
  ASSUME IInv, NEW r \in Requests, Save(r)
  PROVE  Writes(r)
  <1> DEFINE a == act[r]
             e == a.entity
             c == a.id
  <1>1. /\ a.at = "save"
        /\ categories' = IF ParentKey(e) /\ e.parentId = None
                         THEN WithType(Saved(c, e), c, e.type) ELSE Saved(c, e)
    BY DEF Save
  <1>2. /\ e \in Row /\ c \in Ids /\ ~ a.checksName /\ e.parentId # c
        /\ e.parentId \in Ids \union {None} /\ e.type \in Types
    BY <1>1, CategoryConstants DEF IInv, HoldingOK, Row
  <1>3. r \notin late =>
          /\ e.parentId # None => ValidParent(e.parentId, e.type) /\ Children(c) = {}
          /\ UniqueName(e, c) \/ categories[c] = e
    BY <1>1, <1>2, CategoryConstants DEF IInv, ReadsHold, ParentHolds, ChildrenHold, NameHolds
  <1> HIDE DEF a
  <1>4. CASE ~ ParentKey(e)
    <2>1. categories' = categories
      BY <1>1, <1>4 DEF Saved
    <2> QED BY <2>1 DEF Writes, IInv, TypeOK, GroupsExist, Clean, Unrepeated, Deep, Mixed, Repeated,
                        Exists
  <1>5. CASE ParentKey(e) /\ e.parentId # None
    <2>1. /\ categories'[c] = e
          /\ \A d \in Ids \ {c} : categories'[d] = categories[d]
          /\ categories' \in [Ids -> Row \union {NoRow}]
      BY <1>1, <1>2, <1>5 DEF Saved, IInv, TypeOK
    <2>2. e # NoRow
      BY <1>2, RowsExist
    <2>3. GroupsExist'
      <3> SUFFICES ASSUME NEW d \in Ids, categories'[d].parentId # None
                   PROVE  categories'[categories'[d].parentId] # NoRow
        BY DEF GroupsExist, Exists
      <3>1. CASE d = c
        BY <1>2, <1>5, <2>1, <2>2, <3>1 DEF ParentKey, Exists
      <3>2. CASE d # c
        <4>1. categories[d].parentId \in Ids /\ categories[categories[d].parentId] # NoRow
          BY <2>1, <3>2, ChildrenExist DEF IInv, GroupsExist, Exists
        <4> QED BY <2>1, <2>2, <3>2, <4>1
      <3> QED BY <3>1, <3>2
    <2>4. ASSUME r \notin late, Clean PROVE Clean'
      BY <1>2, <1>3, <1>5, <2>1, <2>4 DEF Clean, Deep, Mixed, ValidParent, Children
    <2>5. ASSUME r \notin late, Unrepeated PROVE Unrepeated'
      <3>1. CASE UniqueName(e, c)
        BY <1>2, <2>1, <2>5, <3>1 DEF Unrepeated, Repeated, UniqueName, Exists
      <3>2. CASE categories[c] = e
        <4>1. \A d \in Ids : categories'[d] = categories[d]
          BY <2>1, <3>2
        <4> QED BY <2>5, <4>1 DEF Unrepeated, Repeated, Exists
      <3> QED BY <1>3, <2>5, <3>1, <3>2
    <2> QED BY <2>1, <2>3, <2>4, <2>5 DEF Writes
  <1>6. CASE e.parentId = None
    <2>1. categories' = WithType([categories EXCEPT ![c] = e], c, e.type)
      BY <1>1, <1>6 DEF Saved, ParentKey
    <2> DEFINE typed(d) == [categories[d] EXCEPT !.type = e.type]
    <2>2. /\ categories'[c] = e
          /\ \A d \in Ids \ {c} : /\ categories[d].parentId # c => categories'[d] = categories[d]
                                  /\ categories[d].parentId = c => categories'[d] = typed(d)
      BY <1>2, <1>6, <2>1 DEF WithType, IInv, TypeOK
    <2>3. \A d \in Ids : categories[d].parentId = c =>
             /\ categories[d] \in Row /\ typed(d) \in Row
             /\ typed(d).parentId = c /\ typed(d).type = e.type
             /\ typed(d).name = categories[d].name
      <3> SUFFICES ASSUME NEW d \in Ids, categories[d].parentId = c
                   PROVE  /\ categories[d] \in Row /\ typed(d) \in Row
                          /\ typed(d).parentId = c /\ typed(d).type = e.type
                          /\ typed(d).name = categories[d].name
        OBVIOUS
      <3>1. categories[d] \in Row
        BY <1>2, ChildrenExist, CategoryConstants DEF IInv
      <3> QED BY <1>2, <3>1 DEF Row
    <2> HIDE DEF typed
    <2>4. categories' \in [Ids -> Row \union {NoRow}]
      <3>1. \A d \in Ids : categories'[d] \in Row \union {NoRow}
        BY <1>2, <2>2, <2>3 DEF IInv, TypeOK
      <3>2. categories' = [d \in Ids |-> categories'[d]]
        BY <2>1 DEF WithType
      <3> QED BY <3>1, <3>2
    <2>5. e # NoRow /\ \A d \in Ids : typed(d) \in Row => typed(d) # NoRow
      BY <1>2, RowsExist
    <2>6. \A d \in Ids : d # c => categories'[d].parentId = categories[d].parentId
      BY <2>2, <2>3
    <2>7. GroupsExist'
      <3> SUFFICES ASSUME NEW d \in Ids, categories'[d].parentId # None
                   PROVE  categories'[categories'[d].parentId] # NoRow
        BY DEF GroupsExist, Exists
      <3>1. d # c /\ categories'[d].parentId = categories[d].parentId
        BY <1>6, <2>2, <2>6
      <3>2. categories[d].parentId \in Ids /\ categories[categories[d].parentId] # NoRow
        BY <3>1, ChildrenExist DEF IInv, GroupsExist, Exists
      <3> QED BY <2>2, <2>3, <2>5, <3>1, <3>2
    <2>8. ASSUME r \notin late, Clean PROVE Clean'
      <3>1. ASSUME NEW d \in Ids, NEW p \in Ids, categories'[d].parentId = p
            PROVE  categories'[p].parentId = None /\ categories'[d].type = categories'[p].type
        <4>1. d # c /\ categories[d].parentId = p
          BY <1>2, <1>6, <2>2, <2>6, <3>1, CategoryConstants
        <4>2. categories[p].parentId = None /\ categories[d].type = categories[p].type
          BY <2>8, <4>1 DEF Clean, Deep, Mixed
        <4>3. CASE p = c
          BY <1>6, <2>2, <2>3, <4>1, <4>3
        <4>4. CASE p # c
          <5>1. categories[p].parentId # c
            BY <1>2, <4>2, CategoryConstants
          <5> QED BY <2>2, <4>1, <4>2, <4>4, <5>1
        <4> QED BY <4>3, <4>4
      <3> QED BY <3>1 DEF Clean, Deep, Mixed
    <2>9. ASSUME r \notin late, Clean, Unrepeated PROVE Unrepeated'
      <3> SUFFICES ASSUME NEW d \in Ids, NEW f \in Ids, d # f, categories'[d] = categories'[f],
                          categories'[d] # NoRow
                   PROVE  FALSE
        BY DEF Unrepeated, Repeated, Exists
      <3>1. \A g \in Ids \ {c} : categories'[g] # e
        <4> SUFFICES ASSUME NEW g \in Ids \ {c}, categories'[g] = e PROVE FALSE
          OBVIOUS
        <4>1. categories[g].parentId # c /\ categories[g] = e
          BY <1>2, <1>6, <2>2, <2>6, CategoryConstants
        <4>2. ~ UniqueName(e, c)
          BY <4>1 DEF UniqueName
        <4>3. categories[c] = e
          BY <1>3, <2>9, <4>2
        <4> QED BY <1>2, <2>5, <2>9, <4>1, <4>3 DEF Unrepeated, Repeated, Exists
      <3>2. d # c /\ f # c
        BY <2>2, <3>1
      <3>3. categories[d].parentId = categories[f].parentId
        BY <2>6, <3>2
      <3>4. CASE categories[d].parentId # c
        BY <2>2, <2>9, <3>2, <3>3, <3>4 DEF Unrepeated, Repeated, Exists
      <3>5. CASE categories[d].parentId = c
        <4>1. categories[d] \in Row /\ categories[f] \in Row
          BY <2>3, <3>3, <3>5
        <4>2. categories[d].type = categories[c].type /\ categories[f].type = categories[c].type
          BY <1>2, <2>9, <3>3, <3>5 DEF Clean, Mixed
        <4>3. categories[d].name = categories[f].name
          BY <2>2, <2>3, <3>2, <3>3, <3>5
        <4>4. categories[d] = categories[f]
          BY <3>3, <4>1, <4>2, <4>3 DEF Row
        <4> QED BY <2>9, <4>1, <4>4, RowsExist DEF Unrepeated, Repeated, Exists
      <3> QED BY <3>4, <3>5
    <2> QED BY <2>4, <2>7, <2>8, <2>9 DEF Writes
  <1> QED BY <1>4, <1>5, <1>6

LEMMA SaveBudgetWrites ==
  ASSUME IInv, NEW r \in Requests, SaveBudget(r)
  PROVE  Writes(r)
  <1> DEFINE a == act[r]
  <1>1. a.at = "budget" /\ categories' = Saved(a.id, a.entity)
    BY DEF SaveBudget
  <1>2. a.entity \in Row /\ a.id \in Ids
    BY <1>1 DEF IInv, HoldingOK
  <1>3. a.entity # NoRow /\ a.entity.parentId \in Ids \union {None}
    BY <1>2, RowsExist DEF Row
  <1>4. CASE categories' = categories
    BY <1>4 DEF Writes, IInv, TypeOK, GroupsExist, Clean, Unrepeated, Deep, Mixed, Repeated, Exists
  <1>5. CASE ParentKey(a.entity) /\ categories' = [categories EXCEPT ![a.id] = a.entity]
    <2>1. /\ categories'[a.id] = a.entity
          /\ \A d \in Ids \ {a.id} : categories'[d] = categories[d]
          /\ categories' \in [Ids -> Row \union {NoRow}]
      BY <1>2, <1>5 DEF IInv, TypeOK
    <2>2. GroupsExist'
      BY <1>2, <1>3, <1>5, <2>1 DEF IInv, GroupsExist, ParentKey, Exists
    <2>3. r \notin late => \A d \in Ids : categories'[d] = categories[d]
      BY <1>1, <2>1 DEF IInv, ReadsHold, BudgetHolds
    <2> QED BY <2>1, <2>2, <2>3 DEF Writes, Clean, Unrepeated, Deep, Mixed, Repeated, Exists
  <1> QED BY <1>1, <1>4, <1>5 DEF Saved

LEMMA DeleteWrites ==
  ASSUME IInv, NEW r \in Requests, Delete(r)
  PROVE  Writes(r)
  <1> DEFINE a == act[r]
             rows == [c \in Ids |-> IF a.release /\ categories[c].parentId = a.id
                                    THEN [categories[c] EXCEPT !.parentId = None]
                                    ELSE categories[c]]
  <1>1. /\ a.at = "delete"
        /\ \/ categories' = categories
           \/ /\ \A c \in Ids : rows[c].parentId # a.id
              /\ categories' = [rows EXCEPT ![a.id] = NoRow]
    BY DEF Delete
  <1>2. a.id \in Ids
    BY <1>1 DEF IInv, HoldingOK
  <1>3. CASE categories' = categories
    BY <1>3 DEF Writes, IInv, TypeOK, GroupsExist, Clean, Unrepeated, Deep, Mixed, Repeated, Exists
  <1>4. CASE /\ \A c \in Ids : rows[c].parentId # a.id
             /\ categories' = [rows EXCEPT ![a.id] = NoRow]
    <2> DEFINE freed(d) == [categories[d] EXCEPT !.parentId = None]
    <2>1. /\ categories'[a.id] = NoRow
          /\ \A d \in Ids \ {a.id} :
                \/ categories'[d] = categories[d] /\ categories[d].parentId # a.id
                \/ categories'[d] = freed(d) /\ categories[d].parentId = a.id
      BY <1>2, <1>4
    <2>2. \A d \in Ids : categories[d].parentId = a.id =>
             /\ freed(d) \in Row /\ freed(d).parentId = None /\ freed(d).type = categories[d].type
      <3> SUFFICES ASSUME NEW d \in Ids, categories[d].parentId = a.id
                   PROVE  /\ freed(d) \in Row /\ freed(d).parentId = None
                          /\ freed(d).type = categories[d].type
        OBVIOUS
      <3>1. categories[d] \in Row
        BY <1>2, ChildrenExist, CategoryConstants DEF IInv
      <3> QED BY <3>1 DEF Row
    <2>3. categories' = [d \in Ids |-> categories'[d]]
      BY <1>4
    <2> HIDE DEF rows, freed
    <2>4. categories' \in [Ids -> Row \union {NoRow}]
      <3>1. \A d \in Ids : categories'[d] \in Row \union {NoRow}
        BY <2>1, <2>2 DEF IInv, TypeOK
      <3> QED BY <2>3, <3>1
    <2>5. ASSUME NEW d \in Ids, NEW p \in Ids, categories'[d].parentId = p
          PROVE  /\ categories[d].parentId = p /\ p # a.id /\ d # a.id
                 /\ categories'[d] = categories[d]
      BY <2>1, <2>2, <2>5, RowsExist, CategoryConstants
    <2>6. \A p \in Ids : p # a.id => /\ categories'[p].type = categories[p].type
                                     /\ Exists(p) => categories'[p] # NoRow
                                     /\ categories[p].parentId = None =>
                                           categories'[p].parentId = None
      BY <2>1, <2>2, RowsExist DEF Exists
    <2>7. GroupsExist'
      <3> SUFFICES ASSUME NEW d \in Ids, categories'[d].parentId # None
                   PROVE  categories'[categories'[d].parentId] # NoRow
        BY DEF GroupsExist, Exists
      <3>1. categories'[d].parentId \in Ids
        BY <2>4, RowsExist DEF Row
      <3>2. categories[d].parentId = categories'[d].parentId /\ categories'[d].parentId # a.id
        BY <2>5, <3>1
      <3> QED BY <2>6, <3>1, <3>2 DEF IInv, GroupsExist, Exists
    <2>8. ASSUME Clean PROVE Clean'
      BY <2>5, <2>6, <2>8, CategoryConstants DEF Clean, Deep, Mixed
    <2>9. ASSUME Unrepeated,
                 ~ \E c \in Ids : categories[c].parentId # None /\ categories'[c].parentId = None
          PROVE  Unrepeated'
      <3>1. \A d \in Ids \ {a.id} : categories'[d] = categories[d]
        BY <1>2, <2>1, <2>2, <2>9, CategoryConstants
      <3> QED BY <2>1, <2>9, <3>1 DEF Unrepeated, Repeated, Exists
    <2> QED BY <1>1, <2>4, <2>7, <2>8, <2>9 DEF Writes
  <1> QED BY <1>1, <1>3, <1>4

(***************************************************************************)
(* Every step keeps the invariant.                                         *)
(***************************************************************************)
LEMMA StepOfOne ==
  ASSUME IInv, Step
  PROVE  \E r \in Requests : \E h : Goes(r, h) /\
            \/ UNCHANGED categories
            \/ Writes(r) /\ h = Idle /\ act[r].at # "idle"
  <1> USE DEF Continue
  <1>1. PICK r \in Requests :
          \/ Create(r)
          \/ FindOrCreate(r)
          \/ CountChildren(r)
          \/ CheckParent(r)
          \/ CheckName(r)
          \/ Save(r)
          \/ SaveBudget(r)
          \/ CountTransactions(r)
          \/ CountReleased(r)
          \/ Delete(r)
          \/ \E c \in Ids : Insert(r, c) \/ Update(r, c) \/ UpdateBudget(r, c) \/ Remove(r, c)
    BY DEF Step
  <1>2. CASE Create(r) \/ FindOrCreate(r) \/ CountChildren(r) \/ CheckParent(r) \/ CheckName(r)
    <2>1. UNCHANGED categories
      BY <1>2 DEF Create, FindOrCreate, CountChildren, CheckParent, CheckName
    <2>2. \E h : Goes(r, h)
      BY <1>2, CreateGoes, FindOrCreateGoes, CountChildrenGoes, CheckParentGoes, CheckNameGoes
    <2> QED BY <2>1, <2>2
  <1>3. CASE \E c \in Ids : Update(r, c) \/ UpdateBudget(r, c)
    <2>1. UNCHANGED categories
      BY <1>3 DEF Update, UpdateBudget
    <2>2. \E h : Goes(r, h)
      BY <1>3, UpdateGoes, UpdateBudgetGoes
    <2> QED BY <2>1, <2>2
  <1>4. CASE (\E c \in Ids : Remove(r, c)) \/ CountTransactions(r) \/ CountReleased(r)
    <2>1. UNCHANGED categories
      BY <1>4 DEF Remove, CountTransactions, CountReleased
    <2>2. \E h : Goes(r, h)
      BY <1>4, RemovingGoes
    <2> QED BY <2>1, <2>2
  <1>5. CASE Save(r) \/ SaveBudget(r) \/ Delete(r) \/ \E c \in Ids : Insert(r, c)
    <2>1. Writes(r)
      BY <1>5, SaveWrites, SaveBudgetWrites, DeleteWrites, InsertWrites
    <2>2. act' = [act EXCEPT ![r] = Idle] /\ act[r].at # "idle"
      BY <1>5 DEF Save, SaveBudget, Delete, Insert
    <2>3. Goes(r, Idle)
      BY <2>2, IdleHolds, IdleIsOK DEF Goes
    <2> QED BY <2>1, <2>2, <2>3
  <1> QED BY <1>1, <1>2, <1>3, <1>4, <1>5

LEMMA NextKeepsIInv ==
  ASSUME IInv, [Next]_vars
  PROVE  IInv'
  <1>1. CASE Next
    <2>1. PICK r \in Requests : \E h : Goes(r, h) /\
             \/ UNCHANGED categories
             \/ Writes(r) /\ h = Idle /\ act[r].at # "idle"
      BY <1>1, StepOfOne DEF Next
    <2>2. PICK h : Goes(r, h) /\
             \/ UNCHANGED categories
             \/ Writes(r) /\ h = Idle /\ act[r].at # "idle"
      BY <2>1
    <2>3. /\ act'[r] = h /\ act' \in [Requests -> Holding]
          /\ \A s \in Requests \ {r} : act'[s] = act[s]
      BY <2>2 DEF Goes, IInv, TypeOK
    <2>4. Observe
      BY <1>1 DEF Next
    <2>5. categories' \in [Ids -> Row \union {NoRow}] /\ GroupsExist'
      BY <2>2 DEF Writes, IInv, TypeOK, GroupsExist, Exists
    <2>6. TypeOK'
      BY <2>3, <2>4, <2>5 DEF Observe, TypeOK
    <2>7. \A s \in Requests : HoldingOK(act[s])'
      BY <2>2, <2>3 DEF Goes, IInv, HoldingOK
    <2>8. ASSUME NEW s \in Requests, s \notin late' PROVE ReadsHold(act[s])'
      <3>1. CASE s # r
        BY <2>3, <2>4, <2>5, <2>8, <3>1, OthersKeepReads
      <3>2. CASE s = r /\ h.at = "idle"
        BY <2>3, <3>2 DEF ReadsHold, ParentHolds, ChildrenHold, NameHolds, BudgetHolds
      <3>3. CASE s = r /\ h.at # "idle"
        <4>1. UNCHANGED categories
          BY <2>2, <3>3, IdleHolds
        <4>2. r \notin late
          BY <2>3, <2>4, <2>8, <3>3 DEF Observe
        <4>3. ReadsHold(h)
          BY <2>2, <4>2 DEF Goes
        <4> QED BY <2>3, <3>3, <4>1, <4>3
                DEF ReadsHold, ParentHolds, ChildrenHold, NameHolds, BudgetHolds, ValidParent,
                    Children, UniqueName, Exists
      <3> QED BY <3>1, <3>2, <3>3
    <2>9. (TwoLevels /\ GroupsDoNotMix /\ NamesAreUnique)'
      <3>1. CASE UNCHANGED categories
        BY <2>4, <3>1, NothingWritten
      <3>2. CASE Writes(r) /\ h = Idle /\ act[r].at # "idle"
        <4>1. act[r].at # act'[r].at
          BY <2>3, <3>2, IdleHolds
        <4> QED BY <2>4, <3>2, <4>1, WriteKeepsRules DEF Writes
      <3> QED BY <2>2, <3>1, <3>2
    <2> QED BY <2>5, <2>6, <2>7, <2>8, <2>9 DEF IInv
  <1>2. CASE UNCHANGED vars
    BY <1>2 DEF vars, IInv, TypeOK, HoldingOK, ReadsHold, ParentHolds, ChildrenHold, NameHolds,
                BudgetHolds, ValidParent, Children, UniqueName, Exists, GroupsExist, TwoLevels,
                GroupsDoNotMix, NamesAreUnique, Deep, Mixed, Repeated
  <1> QED BY <1>1, <1>2

LEMMA InitIInv == Init => IInv
  <1> SUFFICES ASSUME Init PROVE IInv
    OBVIOUS
  <1>1. (\A c \in Ids : categories[c] = NoRow) /\ \A r \in Requests : act[r] = Idle
    BY DEF Init
  <1>2. TypeOK
    BY IdleHolds DEF Init, TypeOK
  <1>3. \A r \in Requests : HoldingOK(act[r]) /\ ReadsHold(act[r])
    BY <1>1, IdleIsOK
  <1>4. GroupsExist /\ TwoLevels /\ GroupsDoNotMix /\ NamesAreUnique
    BY <1>1, RowsExist, CategoryConstants
       DEF GroupsExist, TwoLevels, GroupsDoNotMix, NamesAreUnique, Deep, Mixed, Repeated, Exists
  <1> QED BY <1>2, <1>3, <1>4 DEF IInv

(***************************************************************************)
(* Theorems.                                                               *)
(***************************************************************************)
\* What a request has read is still so at its write, unless another one wrote
\* something that it looks at.
THEOREM CategoriesInvariant == Spec => []IInv
  BY InitIInv, NextKeepsIInv, PTL DEF Spec

\* assertValidParent and the transaction of update: the group of a subcategory
\* exists, whatever requests overlap; and as long as no late request writes,
\* groups have two levels and one type.
THEOREM CategoriesGroupsAreSound == Spec => []GroupsAreSound
  <1>1. IInv => GroupsAreSound
    BY DEF IInv, GroupsAreSound
  <1> QED BY <1>1, CategoriesInvariant, PTL

\* assertUniqueName: two categories of the same level and type do not share their
\* name, with the same exception and that of the categories a removal releases.
THEOREM CategoriesNamesAreUnique == Spec => []NamesAreUnique
  <1>1. IInv => NamesAreUnique
    BY DEF IInv
  <1> QED BY <1>1, CategoriesInvariant, PTL

-----------------------------------------------------------------------------
(* One request at a time: the history excuses only what requests do that overlap,   *)
(* and the names of the subcategories that a removal makes main categories.         *)

\* While a request is between two statements, only it goes on.
OneAtATime == [][\A r \in Requests : act[r].at # "idle" => act'[r] # act[r]]_vars

\* No removal makes main categories of subcategories.
NothingReleased == [][\A r \in Requests : Delete(r) => ~ act[r].release]_vars

OnlyOne ==
  /\ \A r, q \in Requests : act[r].at # "idle" /\ act[q].at # "idle" => r = q
  /\ late = {}
  /\ excused \subseteq {"names"}

LEMMA OnlyOneStays ==
  ASSUME IInv, OnlyOne, [Next]_vars,
         [\A r \in Requests : act[r].at # "idle" => act'[r] # act[r]]_vars
  PROVE  OnlyOne'
  <1>1. CASE UNCHANGED vars
    BY <1>1 DEF vars, OnlyOne
  <1>2. CASE Next /\ ~ UNCHANGED vars
    <2>1. Observe /\ \A q \in Requests : act[q].at # "idle" => act'[q] # act[q]
      BY <1>2 DEF Next
    <2>2. PICK r \in Requests : \E h : Goes(r, h) /\
             \/ UNCHANGED categories
             \/ Writes(r) /\ h = Idle /\ act[r].at # "idle"
      BY <1>2, StepOfOne DEF Next
    <2>3. /\ \A q \in Requests \ {r} : act'[q] = act[q]
          /\ UNCHANGED categories \/ act'[r].at = "idle"
      BY <2>2, IdleHolds DEF Goes, IInv, TypeOK
    <2>4. \A q \in Requests \ {r} : act'[q].at = "idle"
      BY <2>1, <2>3
    <2>5. late' = {}
      <3> SUFFICES ASSUME NEW q \in late' PROVE FALSE
        OBVIOUS
      <3>1. q \in Requests /\ act'[q].at # "idle" /\ \E c \in Ids : categories'[c] # categories[c]
        BY <2>1 DEF Observe, OnlyOne
      <3> QED BY <2>3, <2>4, <3>1
    <2>6. excused' \subseteq {"names"}
      BY <2>1 DEF Observe, OnlyOne
    <2> QED BY <2>4, <2>5, <2>6 DEF OnlyOne
  <1> QED BY <1>1, <1>2

NothingIsExcused == excused = {}

LEMMA OnlyOneAtFirst == Init => OnlyOne /\ NothingIsExcused
  BY IdleHolds DEF Init, OnlyOne, NothingIsExcused

\* assertValidParent, countChildren and the transaction of update: each request by itself
\* keeps the groups two levels of one type, whatever it changes; only a request that
\* overlaps another one can break them.
THEOREM CategoriesAloneAreSound ==
  Spec /\ OneAtATime => [](\A c \in Ids : ~ Deep(c) /\ ~ Mixed(c))
  <1>1. IInv /\ OnlyOne => \A c \in Ids : ~ Deep(c) /\ ~ Mixed(c)
    BY DEF IInv, OnlyOne, TwoLevels, GroupsDoNotMix
  <1> QED
    BY <1>1, OnlyOneAtFirst, OnlyOneStays, CategoriesInvariant, PTL DEF Spec, OneAtATime

\* Only a removal moves a request on from "delete".
LEMMA ReleasersDelete ==
  ASSUME IInv, Step, NEW r \in Requests, act[r].at = "delete", act'[r].at # act[r].at
  PROVE  Delete(r)
  <1>1. PICK s \in Requests :
          \/ Create(s)
          \/ FindOrCreate(s)
          \/ CountChildren(s)
          \/ CheckParent(s)
          \/ CheckName(s)
          \/ Save(s)
          \/ SaveBudget(s)
          \/ CountTransactions(s)
          \/ CountReleased(s)
          \/ Delete(s)
          \/ \E c \in Ids : Insert(s, c) \/ Update(s, c) \/ UpdateBudget(s, c) \/ Remove(s, c)
    BY DEF Step
  <1>2. \E h : act' = [act EXCEPT ![s] = h]
    BY <1>1
    DEF Create, FindOrCreate, CountChildren, CheckParent, CheckName, Save, SaveBudget,
        CountTransactions, CountReleased, Delete, Insert, Update, UpdateBudget, Remove, Continue
  <1>3. s = r
    BY <1>2 DEF IInv, TypeOK
  <1> QED
    BY <1>1, <1>3
    DEF Create, FindOrCreate, CountChildren, CheckParent, CheckName, Save, SaveBudget,
        CountTransactions, CountReleased, Insert, Update, UpdateBudget, Remove

LEMMA NothingBecomesExcused ==
  ASSUME IInv, OnlyOne, NothingIsExcused, [Next]_vars,
         [\A r \in Requests : Delete(r) => ~ act[r].release]_vars
  PROVE  NothingIsExcused'
  <1> USE DEF NothingIsExcused
  <1>1. CASE UNCHANGED vars
    BY <1>1 DEF vars
  <1>2. CASE Next /\ ~ UNCHANGED vars
    <2>1. Observe /\ \A r \in Requests : Delete(r) => ~ act[r].release
      BY <1>2 DEF Next
    <2> SUFFICES ASSUME NEW rule \in excused' PROVE FALSE
      OBVIOUS
    <2>2. /\ rule = "names" /\ Broken(rule)'
          /\ \E c \in Ids : /\ categories[c].parentId # None
                            /\ categories'[c].parentId = None
          /\ \E r \in Requests : /\ act[r].at = "delete" /\ act'[r].at # act[r].at
                                 /\ categories' # categories
      BY <2>1 DEF Observe, OnlyOne
    <2>3. PICK r \in Requests : Delete(r)
      BY <1>2, <2>2, ReleasersDelete DEF Next
    <2>4. \E used \in BOOLEAN :
             categories' = IF used \/ \E c \in Ids : categories[c].parentId = act[r].id
                           THEN categories ELSE [categories EXCEPT ![act[r].id] = NoRow]
      <3>1. ~ act[r].release
        BY <2>1, <2>3
      <3>2. [c \in Ids |-> IF act[r].release /\ categories[c].parentId = act[r].id
                           THEN [categories[c] EXCEPT !.parentId = None]
                           ELSE categories[c]] = categories
        BY <3>1 DEF IInv, TypeOK
      <3> QED BY <2>3, <3>2 DEF Delete
    <2>5. categories' = categories \/ categories' = [categories EXCEPT ![act[r].id] = NoRow]
      BY <2>4
    <2>6. PICK c \in Ids, d \in Ids :
             c # d /\ categories'[c] # NoRow /\ categories'[d] = categories'[c]
      BY <2>2 DEF Broken, Repeated, Exists
    <2>7. categories[c] # NoRow /\ categories[d] = categories[c]
      BY <2>5, <2>6 DEF IInv, TypeOK
    <2> QED BY <2>6, <2>7 DEF IInv, NamesAreUnique, Repeated, Exists
  <1> QED BY <1>1, <1>2

\* Alone, what may repeat is the name of a subcategory that a removal released: creating,
\* renaming and moving a category by itself never does (assertUniqueName).
THEOREM CategoriesAloneAreUnique ==
  Spec /\ OneAtATime /\ NothingReleased => [](\A c \in Ids : ~ Repeated(c))
  <1>1. IInv /\ NothingIsExcused => \A c \in Ids : ~ Repeated(c)
    BY DEF IInv, NamesAreUnique, NothingIsExcused
  <1> QED
    BY <1>1, OnlyOneAtFirst, OnlyOneStays, NothingBecomesExcused, CategoriesInvariant, PTL
    DEF Spec, OneAtATime, NothingReleased

=============================================================================
