------------------------------ MODULE QmlLists ------------------------------
(***************************************************************************)
(* List properties that QML reads and writes (qpyqmllistproperty.cpp,       *)
(* qpyqml_listdata.cpp, qpyqmllistpropertywrapper.cpp).  The getter of the  *)
(* property makes the list data, a child of the object that has the         *)
(* property; QML calls its functions with a Python list or with functions   *)
(* of Python behind it.                                                     *)
(***************************************************************************)
EXTENDS Integers, Sequences

CONSTANTS
    MaxListRefs,    \* bound: references that Python or C++ itself has to the owner
    MaxDatas,       \* bound: calls of the getter
    MaxElements     \* bound: length of the list

VARIABLES
    style,          \* "list" or "functions"
    elements,       \* what Python has: objects of the type, others, and None
    ownerRefs,      \* the reference count of the owner
    outside,        \* those references that are not the list data's
    datas,          \* list data of the owner
    ownerThere,     \* the C++ owner has not been destroyed
    sawAt,          \* a function has been called for an element
    seen            \* the last answer to QML

listVars == <<style, elements, ownerRefs, outside, datas, ownerThere, sawAt, seen>>

\* A QObject of the type of the list, one that is not, another object and None.
Items == {"right", "wrong", "int", "None"}
QmlObjects == {"right", "wrong"}

\* An answer is reported if there was an error; raised says that there is an
\* exception to report.
Answer(of, value, raised, reported) ==
    [of |-> of, value |-> value, raised |-> raised, reported |-> reported, idx |-> 0]
Nobody == Answer("none", 0, FALSE, FALSE)

QmlListInit ==
    /\ style \in {"list", "functions"}
    /\ elements = << >> /\ datas = 0 /\ ownerThere = TRUE /\ sawAt = FALSE /\ seen = Nobody
    /\ ownerRefs = 1 /\ outside = 1

InUse == ownerThere /\ ownerRefs > 0
CanAsk == InUse /\ datas > 0

\* A fault: the list data borrows its owner, as the getter does.
OwnerRefsUnheld == ownerRefs

\* ListData::ListData() takes a reference to the owner.
OwnerRefs == ownerRefs + 1

\* QQmlListProperty_call()
GetListProperty ==
    /\ InUse /\ datas < MaxDatas
    /\ datas' = datas + 1 /\ ownerRefs' = OwnerRefs /\ seen' = Nobody
    /\ UNCHANGED <<style, elements, outside, ownerThere, sawAt>>

\* Other references come and go; the C++ owner lives on without any.
OutsideRef ==
    /\ InUse /\ seen' = Nobody
    /\ \/ outside < MaxListRefs /\ outside' = outside + 1 /\ ownerRefs' = ownerRefs + 1
       \/ outside > 0 /\ outside' = outside - 1 /\ ownerRefs' = ownerRefs - 1
    /\ UNCHANGED <<style, elements, datas, ownerThere, sawAt>>

\* The C++ owner is destroyed with its children: ListData::~ListData().
OwnerDestroyed ==
    /\ InUse
    /\ ownerThere' = FALSE /\ datas' = 0 /\ ownerRefs' = ownerRefs - datas /\ seen' = Nobody
    /\ UNCHANGED <<style, elements, outside, sawAt>>

\* Python changes its list.
PythonAppends(x) ==
    /\ InUse /\ Len(elements) < MaxElements
    /\ elements' = Append(elements, x) /\ seen' = Nobody
    /\ UNCHANGED <<style, ownerRefs, outside, datas, ownerThere, sawAt>>

\* list_append(): the type is checked first.  A function may raise, or append
\* and return something other than None.
ListAppend(x, call) ==
    LET checked == x = "right"
        done == checked /\ (style = "list" \/ call # "raises")
        ok == done /\ (style = "list" \/ call = "returns")
    IN  /\ CanAsk /\ Len(elements) < MaxElements
        /\ elements' = IF done THEN Append(elements, x) ELSE elements
        /\ seen' = Answer("append", 0, ~ ok, ~ ok)
        /\ UNCHANGED <<style, ownerRefs, outside, datas, ownerThere, sawAt>>

\* list_count()
ListCount(call) ==
    LET ok == style = "list" \/ call = "returns"
    IN  /\ CanAsk
        /\ seen' = Answer("count", IF ok THEN Len(elements) ELSE 0, ~ ok, ~ ok)
        /\ UNCHANGED <<style, elements, ownerRefs, outside, datas, ownerThere, sawAt>>

\* The format "Ni" gives a reference to the owner away.
RefsAfterAt == IF style = "functions" THEN ownerRefs - 1 ELSE ownerRefs

\* list_at(): the C++ object or null.  What is converted may be None, which is
\* null without an exception.
Element(idx) == IF idx < Len(elements) THEN elements[idx + 1] ELSE "raises"

ListAt(idx, call) ==
    LET got == IF style = "list" \/ call = "returns" THEN Element(idx)
               ELSE IF call = "odd" THEN "int" ELSE "raises"
    IN  /\ CanAsk
        /\ seen' = [Answer("at", IF got \in QmlObjects THEN got ELSE "null", got \in {"int", "raises"},
                           got \notin QmlObjects) EXCEPT !.idx = idx]
        /\ ownerRefs' = RefsAfterAt
        /\ sawAt' = (sawAt \/ style = "functions")
        /\ UNCHANGED <<style, elements, outside, datas, ownerThere>>

\* list_clear()
ListClear(call) ==
    LET done == style = "list" \/ call # "raises"
        ok == style = "list" \/ call = "returns"
    IN  /\ CanAsk
        /\ elements' = IF done THEN << >> ELSE elements
        /\ seen' = Answer("clear", 0, ~ ok, ~ ok)
        /\ UNCHANGED <<style, ownerRefs, outside, datas, ownerThere, sawAt>>

QmlListNext ==
    \/ GetListProperty \/ OutsideRef \/ OwnerDestroyed
    \/ \E x \in Items : PythonAppends(x)
    \/ \E call \in {"returns", "odd", "raises"} :
         \/ \E x \in QmlObjects : ListAppend(x, call)
         \/ ListCount(call) \/ ListClear(call)
         \/ \E idx \in 0..MaxElements : ListAt(idx, call)

-----------------------------------------------------------------------------
(* Properties.                                                             *)

\* What QML is told of the list without an error is so: its length, the element
\* at a place, and that a change has been made.
QmlSeesList ==
    ~ seen.reported =>
      /\ seen.of = "count" => seen.value = Len(elements)
      /\ seen.of = "at" => seen.idx < Len(elements) /\ elements[seen.idx + 1] = seen.value
      /\ seen.of = "clear" => elements = << >>

\* The owner has a reference from each list data and no less, as long as no
\* function has been asked for an element.
RefsBalance == ~ sawAt => ownerRefs = outside + datas

QmlListsRight == QmlSeesList /\ RefsBalance

\* The list data's own reference to the owner ("Py_XINCREF(py_obj)",
\* qpyqml_listdata.cpp 35) lasts until the list data goes (50).
OwnerKept == ownerRefs >= datas

\* What is reported has been raised.
ReportsExceptions == seen.reported => seen.raised

-----------------------------------------------------------------------------
(* For the proofs in QmlProofs.                                            *)

QmlListSpec == QmlListInit /\ [][QmlListNext]_listVars

\* The references are counted as they come and go, and only functions can
\* give one of the owner's away.
QmlListTypeOK ==
    /\ style \in {"list", "functions"}
    /\ elements \in Seq(Items)
    /\ ownerRefs \in Int /\ outside \in Nat /\ datas \in Nat
    /\ ownerThere \in BOOLEAN /\ sawAt \in BOOLEAN
    /\ sawAt => style = "functions"

\* A list property that has a Python list behind it keeps its owner.
ListsKeepOwner == style = "list" => OwnerKept
=============================================================================
