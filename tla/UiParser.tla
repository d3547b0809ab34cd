------------------------------ MODULE UiParser ------------------------------
(***************************************************************************)
(* The user interface parser of pyuic6 and loadUi() (uic/uiparser.py).     *)
(*                                                                         *)
(* A .ui file is a tree of elements.  Each element has a handler, which    *)
(* creates an object, calls the handlers of the elements inside and then   *)
(* tells the new object's parent about it.  The handlers keep what they    *)
(* share in the parser: a stack of the widgets and layouts being created,  *)
(* counters, and lists of what can only be done when everything exists.    *)
(*                                                                         *)
(* The file is read as it is written by Qt Designer: an element is begun,  *)
(* what is inside follows, and it is ended.  Objects are numbered in the   *)
(* order of creation; object 1 is the top-level widget.  What Qt makes of  *)
(* the calls (places, items, selected pages) is kept with them.            *)
(***************************************************************************)
EXTENDS Naturals, FiniteSets, SequencesExt, Dictionaries

CONSTANTS
    TopClasses,   \* classes of the top-level widget
    Classes,      \* classes of the other widgets
    LayoutClasses,
    Names,        \* names that are given to objects in the file
    NoName,
    Groups,       \* names of button groups
    MaxElements,  \* bound: elements of the file
    Features      \* what the file has beside widgets and layouts

Containers == {"QDockWidget", "QMdiArea", "QScrollArea", "QStackedWidget",
               "QToolBox", "QTabWidget", "QWizard"}
ItemViews == {"QListWidget", "QTreeWidget", "QTableWidget"}
\* They are nowhere to be put.
Placeless == {"QAction", "QActionGroup", "QButtonGroup"}

\* Layouts, widgets and other objects have classes of their own.
ASSUME ClassesAssumption ==
    /\ LayoutClasses \cap (Classes \cup TopClasses \cup Containers \cup ItemViews
                           \cup {"QWidget", "QMainWindow", "QComboBox"}) = {}
    /\ (LayoutClasses \cup Classes \cup TopClasses) \cap (Placeless \cup {"QSpacerItem"}) = {}

VARIABLES
    obj,       \* the objects created so far
    stack,     \* WidgetStack: the widgets and layouts that are being created
    topwidget, \* WidgetStack.topwidget, 0 if None
    suffixes,  \* name_suffixes
    attrs,     \* the attributes of the top-level widget
    item,      \* the items of item views
    itemNr, itemstack, sorting, columns,  \* item_nr and so on
    sorted,    \* the item views whose sorting is enabled
    headers,   \* for each column element its view, its place, and where it was set
    actions, buddies, delayed, group,     \* group is currentActionGroup
    bgroups,   \* button_groups
    added,     \* the actions that widgets get, by their place in actions
    shown,     \* the page each container shows: its currentIndex
    elements,  \* elements read so far
    phase      \* "tree", "done" or "failed"

uiVars == <<obj, stack, topwidget, suffixes, attrs, item, itemNr, itemstack, sorting,
            columns, sorted, headers, actions, buddies, delayed, group, bgroups,
            added, shown, elements, phase>>

shared == <<itemNr, itemstack, sorting, columns>>
later == <<actions, buddies, delayed>>

-----------------------------------------------------------------------------
(* Classes.                                                                *)

Paged == {"QToolBox", "QTabWidget", "QStackedWidget"}

IsLayout(o) == obj[o].class \in LayoutClasses
IsWidget(o) == obj[o].class \in Classes \cup TopClasses

\* How a widget is told about one that was created in it, "" if it is not.
\* Only QMainWindow looks at the class of the other.
PlaceIn(class, child) ==
    CASE class = "QToolBox" -> "addItem"
      [] class = "QTabWidget" -> "addTab"
      [] class = "QWizard" -> "addPage"
      [] class = "QStackedWidget" -> "addWidget"
      [] class \in {"QDockWidget", "QScrollArea"} -> "setWidget"
      [] class = "QMainWindow" ->
           (CASE child = "QWidget" -> "setCentralWidget"
              [] child = "QToolBar" -> "addToolBar"
              [] child = "QMenuBar" -> "setMenuBar"
              [] child = "QStatusBar" -> "setStatusBar"
              [] child = "QDockWidget" -> "addDockWidget"
              [] OTHER -> "")
      [] OTHER -> ""

-----------------------------------------------------------------------------
(* Names.  A name is a sequence of parts: a suffix is appended to it, and  *)
(* a name in the file that looks like one with a suffix has two parts.     *)

UniqueName(name) ==
    IF name \in DOMAIN suffixes
      THEN [name |-> Append(name, suffixes[name] + 1),
            suffixes |-> [suffixes EXCEPT ![name] = @ + 1]]
      ELSE [name |-> name, suffixes |-> Given(suffixes, name, 0)]

NameOf(class, name) == IF name = NoName THEN <<class>> ELSE name

\* inside is the element around that of the object, sorts whether the file
\* enables the sorting of an item view.
Object(class, parent, name, inside, sorts) ==
    [class |-> class, parent |-> parent, name |-> name, places |-> << >>,
     inside |-> inside, sorts |-> sorts]

\* The common part of creating an object that is an attribute of the
\* top-level widget: its number is the length of obj'.
SetupObject(class, parent, name, inside, sorts) ==
    LET unique == UniqueName(NameOf(class, name))
    IN  /\ obj' = Append(obj, Object(class, parent, unique.name, inside, sorts))
        /\ suffixes' = unique.suffixes
        /\ attrs' = Given(attrs, unique.name, Len(obj) + 1)

-----------------------------------------------------------------------------
(* The stack.                                                              *)

Peek == Last(stack)
TopIsLayout == IsLayout(Peek)

\* A fault: the top-most widget stays the one that was popped.
AfterPopSame(s) == topwidget

\* topwidget once the stack is s: the widget nearest to its top.
AfterPop(s) ==
    LET last == SelectLastInSeq(s, IsWidget)
    IN  IF last = 0 THEN 0 ELSE s[last]

-----------------------------------------------------------------------------
(* Init: the top-level widget is being handled (_handle_widget()).         *)

UiInit ==
    /\ \E class \in TopClasses :
         obj = <<Object(class, 0, <<"top">>, 0, FALSE)>>
    /\ stack = <<1>> /\ topwidget = 1
    /\ suffixes = << >> /\ attrs = << >>
    /\ item = << >> /\ itemNr = 0 /\ itemstack = << >> /\ sorting = "None" /\ columns = 0
    /\ sorted = {} /\ headers = {}
    /\ actions = << >> /\ buddies = << >> /\ delayed = << >> /\ group = 0
    /\ bgroups = << >> /\ added = << >> /\ shown = << >>
    /\ elements = 0 /\ phase = "tree"

\* Another element may begin here.
Element ==
    /\ phase = "tree" /\ elements < MaxElements
    /\ elements' = elements + 1
    /\ UNCHANGED <<phase, added>>

InWidgetOrLayout == itemstack = << >> /\ group = 0

\* Designer puts layouts into plain widgets only, pages into containers, and
\* into a main window what that has a place for.
MayHold(o, class) ==
    LET c == obj[o].class
    IN  \/ c = "QWidget"
        \/ IsLayout(o) /\ class \notin {"QToolBar", "QMenuBar", "QStatusBar", "QDockWidget"}
        \/ c \in Containers /\ class = "QWidget"
        \/ /\ c = "QMainWindow" /\ PlaceIn(c, class) # ""
           /\ \A i \in DOMAIN obj : obj[i].class = class => obj[i].parent # o

-----------------------------------------------------------------------------
(* Widgets.                                                                *)

\* The parent is ignored if it is a container.
NewParent == IF obj[topwidget].class \in Containers THEN 0 ELSE topwidget

\* Properties that are kept for later: the page a container shows, and the
\* widget that a label is the buddy of (its name).
Delay(o, property) ==
    /\ delayed' = IF property[1] = "currentIndex"
                    THEN Append(delayed, [widget |-> o, value |-> property[2]])
                    ELSE delayed
    /\ buddies' = IF property[1] = "buddy"
                    THEN Append(buddies, [widget |-> o, name |-> property[2]])
                    ELSE buddies

NoProperty == <<"none", 0>>
PropertiesOf(class) ==
    {NoProperty}
    \cup (IF class \in Paged /\ "current" \in Features
            THEN {<<"currentIndex", 1>>} ELSE {})
    \cup (IF class = "QLabel" THEN {<<"buddy", n>> : n \in Names} ELSE {})

ColumnsReset == 0

\* The element begins: the widget is created and pushed.
CreateWidget(class, name, property, sortingEnabled) ==
    /\ Element /\ InWidgetOrLayout /\ MayHold(Peek, class)
    /\ SetupObject(class, NewParent, name, Peek, sortingEnabled)
    /\ Delay(Len(obj) + 1, property)
    /\ stack' = Append(stack, Len(obj) + 1)
    /\ topwidget' = Len(obj) + 1
    /\ columns' = ColumnsReset /\ itemNr' = 0 /\ itemstack' = << >> /\ sorting' = "None"
    /\ sorted' = IF sortingEnabled THEN sorted \cup {Len(obj) + 1} ELSE sorted
    /\ UNCHANGED <<item, headers, actions, group, bgroups, shown>>

\* The object of a button group is made for its first button; a group that
\* was not declared is made up.  Its name is not made unique.
ButtonGroup(button, name, objs) ==
    IF name = NoName
      THEN /\ obj' = objs
           /\ UNCHANGED <<bgroups, attrs>>
    ELSE IF name \in DOMAIN bgroups
      THEN /\ obj' = objs
           /\ bgroups' = [bgroups EXCEPT ![name].buttons = @ \cup {button}]
           /\ UNCHANGED attrs
    ELSE /\ obj' = Append(objs, Object("QButtonGroup", 1, name, 1, FALSE))
         /\ bgroups' = Given(bgroups, name, [object |-> Len(obj) + 1, buttons |-> {button}])
         /\ attrs' = Given(attrs, name, Len(obj) + 1)

\* The places a widget gets when its element ends: in the layout at the top of
\* the stack, and in the top-most widget.
Places(w, s, top) ==
    (IF IsLayout(Last(s)) THEN <<[in |-> Last(s), how |-> "layout"]>> ELSE << >>)
    \o (IF PlaceIn(obj[top].class, obj[w].class) # ""
          THEN <<[in |-> top, how |-> PlaceIn(obj[top].class, obj[w].class)]>>
          ELSE << >>)

RestoreSorting(w) ==
    /\ sorted' = IF sorting = "on" THEN sorted \cup {w} ELSE sorted
    /\ sorting' = "None"

\* The element ends: the widget is popped and given to its parent.
EndWidget(bgroup) ==
    LET w == Peek
        s == Front(stack)
    IN  /\ phase = "tree" /\ InWidgetOrLayout /\ Len(stack) > 1 /\ ~ TopIsLayout
        /\ bgroup # NoName => obj[w].class = "QPushButton"
        /\ stack' = s /\ topwidget' = AfterPop(s)
        /\ ButtonGroup(w, bgroup, [obj EXCEPT ![w].places = Places(w, s, AfterPop(s))])
        /\ RestoreSorting(w)
        /\ UNCHANGED <<suffixes, item, itemNr, itemstack, columns, headers, later,
                       group, added, shown, elements, phase>>

-----------------------------------------------------------------------------
(* Layouts and spacers.                                                    *)

\* A layout in a layout has no parent until it is added to it.
CreateLayout(class, name) ==
    /\ Element /\ InWidgetOrLayout
    /\ obj[Peek].class \in {"QWidget"} \cup LayoutClasses
    /\ \A i \in DOMAIN obj : IsLayout(i) /\ ~ TopIsLayout => obj[i].parent # Peek
    /\ SetupObject(class, IF TopIsLayout THEN 0 ELSE topwidget, name, Peek, FALSE)
    /\ stack' = Append(stack, Len(obj) + 1)
    /\ UNCHANGED <<topwidget, item, shared, sorted, headers, later, group, bgroups, shown>>

EndLayout ==
    LET s == Front(stack)
    IN  /\ phase = "tree" /\ TopIsLayout
        /\ stack' = s
        /\ obj' = IF IsLayout(Last(s))
                    THEN [obj EXCEPT ![Peek].places = <<[in |-> Last(s), how |-> "layout"]>>]
                    ELSE obj
        /\ UNCHANGED <<topwidget, suffixes, attrs, item, shared, sorted, headers, later,
                       group, bgroups, added, shown, elements, phase>>

\* A spacer has a unique name but is not an attribute.
CreateSpacer ==
    LET unique == UniqueName(<<"spacerItem">>)
    IN  /\ "spacer" \in Features /\ Element /\ InWidgetOrLayout /\ TopIsLayout
        /\ obj' = Append(obj, [Object("QSpacerItem", 0, unique.name, Peek, FALSE)
                                 EXCEPT !.places = <<[in |-> Peek, how |-> "layout"]>>])
        /\ suffixes' = unique.suffixes
        /\ UNCHANGED <<stack, topwidget, attrs, item, shared, sorted, headers, later,
                       group, bgroups, shown>>

-----------------------------------------------------------------------------
(* Items.  text is the number of the item whose text it was given.         *)

NewItem(view, parent, text) == [view |-> view, parent |-> parent, text |-> text]

\* The items inside a view or inside another item.
ItemsIn(items, view, parent) ==
    {i \in DOMAIN items : items[i].view = view /\ items[i].parent = parent}

\* The one of them that has n others before it (item(), topLevelItem(), child()).
NthItem(items, view, parent, n) ==
    CHOOSE i \in ItemsIn(items, view, parent) :
      Cardinality({j \in ItemsIn(items, view, parent) : j < i}) = n

DisableSorting(first) ==
    IF first THEN /\ sorting' = IF topwidget \in sorted THEN "on" ELSE "off"
                  /\ sorted' = sorted \ {topwidget}
    ELSE UNCHANGED <<sorting, sorted>>

\* An item of a combo box gets its text by its number, one of a list or a
\* table before it is added.
AddItem ==
    LET w == topwidget
        new == Len(item) + 1
        with == Append(item, NewItem(w, 0, IF obj[w].class = "QComboBox" THEN 0 ELSE new))
    IN  /\ Element /\ InWidgetOrLayout /\ Peek = w
        /\ obj[w].class \in {"QComboBox", "QListWidget", "QTableWidget"}
        /\ DisableSorting(itemNr = 0 /\ obj[w].class # "QComboBox")
        /\ item' = IF obj[w].class = "QComboBox"
                     THEN [with EXCEPT ![NthItem(with, w, 0, itemNr)].text = new]
                     ELSE with
        /\ itemNr' = itemNr + 1
        /\ UNCHANGED <<obj, stack, topwidget, suffixes, attrs, itemstack, columns, headers,
                       later, group, bgroups, shown>>

\* A fault: the way to an item begins with its own number.
ItemAtOwn(items, w, path) == NthItem(items, w, 0, Last(path)[2])

\* The item that is found by way of the tree (topLevelItem(), child()).
ItemAt(items, w, path) ==
    LET found[n \in 0..Len(path)] ==
          IF n = 0 THEN 0 ELSE NthItem(items, w, found[n - 1], path[n][2])
    IN  found[Len(path)]

\* The items inside a tree item are numbered from 0 and its own number is kept
\* on itemstack.
BeginTreeItem ==
    LET w == topwidget
        parent == IF itemstack = << >> THEN 0 ELSE Last(itemstack)[1]
        new == Len(item) + 1
        with == Append(item, NewItem(w, parent, 0))
        path == Append(itemstack, <<new, itemNr>>)
    IN  /\ Element /\ group = 0 /\ Peek = w /\ obj[w].class = "QTreeWidget"
        /\ DisableSorting(itemNr = 0 /\ itemstack = << >>)
        /\ item' = [with EXCEPT ![ItemAt(with, w, path)].text = new]
        /\ itemstack' = path
        /\ itemNr' = 0
        /\ UNCHANGED <<obj, stack, topwidget, suffixes, attrs, columns, headers, later,
                       group, bgroups, shown>>

EndTreeItem ==
    /\ phase = "tree" /\ itemstack # << >>
    /\ itemNr' = Last(itemstack)[2] + 1
    /\ itemstack' = Front(itemstack)
    /\ UNCHANGED <<obj, stack, topwidget, suffixes, attrs, item, sorting, columns, sorted,
                   headers, later, group, bgroups, added, shown, elements, phase>>

\* The headers that a view has so far.
HeadersOf(view) == {h \in headers : h.view = view}

\* A header is set at column_counter.  A table does not count a column that
\* has no properties.
AddHeader(empty) ==
    LET w == topwidget
        nth == Cardinality(HeadersOf(w))
    IN  /\ "header" \in Features /\ Element /\ InWidgetOrLayout /\ Peek = w
        /\ obj[w].class \in {"QTreeWidget", "QTableWidget"}
        /\ empty => obj[w].class = "QTableWidget" /\ "emptyColumn" \in Features
        /\ headers' = headers \cup {[view |-> w, column |-> nth,
                                     at |-> IF empty THEN nth ELSE columns]}
        /\ columns' = IF empty THEN columns ELSE columns + 1
        /\ UNCHANGED <<obj, stack, topwidget, suffixes, attrs, item, itemNr, itemstack,
                       sorting, sorted, later, group, bgroups, shown>>

-----------------------------------------------------------------------------
(* Actions.                                                                *)

CreateAction(name) ==
    /\ "action" \in Features /\ Element /\ itemstack = << >> /\ stack = <<1>>
    /\ LET parent == IF group # 0 THEN group ELSE 1
       IN  SetupObject("QAction", parent, name, parent, FALSE)
    /\ UNCHANGED <<stack, topwidget, item, shared, sorted, headers, later, group, bgroups,
                   shown>>

BeginActionGroup ==
    /\ "actionGroup" \in Features /\ Element /\ InWidgetOrLayout /\ stack = <<1>>
    /\ SetupObject("QActionGroup", 1, NoName, 1, FALSE)
    /\ group' = Len(obj) + 1
    /\ UNCHANGED <<stack, topwidget, item, shared, sorted, headers, later, bgroups, shown>>

EndActionGroup ==
    /\ group # 0
    /\ group' = 0
    /\ UNCHANGED <<obj, stack, topwidget, suffixes, attrs, item, shared, sorted, headers,
                   later, bgroups, added, shown, elements, phase>>

AddAction(name) ==
    /\ "action" \in Features /\ Element /\ InWidgetOrLayout /\ Peek = topwidget
    /\ actions' = Append(actions, [widget |-> topwidget, name |-> name])
    /\ UNCHANGED <<obj, stack, topwidget, suffixes, attrs, item, shared, sorted, headers,
                   buddies, delayed, group, bgroups, shown>>

-----------------------------------------------------------------------------
(* The end of the tree: what was put off is done.                          *)

\* The actions that widgets get, by their place in the file; groups of actions
\* are not added.
Addable(a) == a.name = <<"separator">> \/ obj[attrs[a.name]].class # "QActionGroup"
ActionsAdded ==
    [i \in {j \in DOMAIN actions : Addable(actions[j])} |->
       [widget |-> actions[i].widget,
        action |-> IF actions[i].name = <<"separator">> THEN 0 ELSE attrs[actions[i].name]]]

Pages(o) == {p \in DOMAIN obj : \E i \in DOMAIN obj[p].places : obj[p].places[i].in = o}

\* A page that does not exist cannot be shown.
Shown(o, index) == IF index < Cardinality(Pages(o)) THEN index ELSE 0

\* The element of the top-level widget ends.  The name of an action that does
\* not exist is an error, the name of a buddy that does not exist is ignored.
HandleWidget ==
    /\ phase = "tree" /\ stack = <<1>> /\ InWidgetOrLayout
    /\ stack' = << >> /\ topwidget' = AfterPop(<< >>)
    /\ LET missing == {i \in DOMAIN actions : /\ actions[i].name # <<"separator">>
                                              /\ actions[i].name \notin DOMAIN attrs}
       IN  \/ /\ missing # {}
              /\ phase' = "failed"
              /\ UNCHANGED <<added, buddies, shown>>
           \/ /\ missing = {}
              /\ phase' = "done"
              /\ added' = ActionsAdded
              /\ buddies' = [i \in DOMAIN buddies |->
                               IF buddies[i].name \in DOMAIN attrs
                                 THEN [buddies[i] EXCEPT !.name = attrs[@]]
                                 ELSE buddies[i]]
              /\ shown' = [o \in {delayed[i].widget : i \in DOMAIN delayed} |->
                             Shown(o, delayed[CHOOSE i \in DOMAIN delayed :
                                                        delayed[i].widget = o].value)]
    /\ UNCHANGED <<obj, suffixes, attrs, item, shared, sorted, headers, actions, delayed,
                   group, bgroups, elements>>

UiNext ==
    \/ \E class \in Classes, name \in Names \cup {NoName} :
         \E property \in PropertiesOf(class),
            sortingEnabled \in {FALSE} \cup (IF class \in ItemViews THEN BOOLEAN ELSE {}) :
           CreateWidget(class, name, property, sortingEnabled)
    \/ \E bgroup \in Groups \cup {NoName} : EndWidget(bgroup)
    \/ \E class \in LayoutClasses : CreateLayout(class, NoName)
    \/ EndLayout
    \/ CreateSpacer
    \/ AddItem
    \/ BeginTreeItem
    \/ EndTreeItem
    \/ \E empty \in BOOLEAN : AddHeader(empty)
    \/ \E name \in Names : CreateAction(name)
    \/ BeginActionGroup
    \/ EndActionGroup
    \/ \E name \in Names \cup {<<"separator">>} : AddAction(name)
    \/ HandleWidget

UiSpec == UiInit /\ [][UiNext]_uiVars

-----------------------------------------------------------------------------
(* Properties.                                                             *)

\* The items of a view that are inside of another one, or of none.
ItemsOf(view, parent) == ItemsIn(item, view, parent)
OpenItem == IF itemstack = << >> THEN 0 ELSE Last(itemstack)[1]

\* What is read belongs to the innermost widget whose element is open, and its
\* counter to the item that is open in it, however deep the elements were that
\* were begun and ended before (lines 103-131, 252-257, 592-641).
CurrentWidget ==
    phase = "tree" =>
      /\ \E i \in DOMAIN stack :
           /\ topwidget = stack[i] /\ IsWidget(stack[i])
           /\ \A j \in DOMAIN stack : j > i => ~ IsWidget(stack[j])
      /\ Peek = topwidget /\ obj[Peek].class \in ItemViews \cup {"QComboBox"} =>
           itemNr = Cardinality(ItemsOf(topwidget, OpenItem))

\* An object r is put into what it is inside of, c, as can be, or is its child.
IsPlaced(r, c) ==
    LET how == IF r.class \in Placeless THEN ""
               ELSE IF c.class \in LayoutClasses THEN "layout" ELSE PlaceIn(c.class, r.class)
    IN  IF how # ""
          THEN /\ r.places = <<[in |-> r.inside, how |-> how]>>
               /\ c.class \in Containers => r.parent = 0
          ELSE r.places = << >> /\ r.parent = r.inside

\* Every widget, layout and action is a child of what it is inside of, or is
\* put into it, but not both unless it is in a main window, and is put there
\* once (lines 261-268, 332-397, 510-524, 787-796).
Placed ==
    \A o \in DOMAIN obj \ Range(stack) :
      obj[o].inside # 0 => IsPlaced(obj[o], obj[obj[o].inside])

\* The text of an item is set on that item: the one with its number in a combo
\* box, or the one found by way of the tree (lines 569-619).
ItemTexts == \A i \in DOMAIN item : item[i].text = i

\* A view is not sorted while its items are made, or they would move away from
\* their numbers, and is sorted again afterwards if the file says so (lines
\* 328-330, 546-550, 595-597).
SortingKept ==
    phase = "tree" =>
      \A o \in DOMAIN obj : obj[o].class \in ItemViews =>
        IF o \in Range(stack) THEN ItemsOf(o, 0) # {} => o \notin sorted
                              ELSE o \in sorted <=> obj[o].sorts

\* Each column has its own header (lines 716-772).
HeadersAligned == \A h \in headers : h.at = h.column

\* Widgets have the actions that the file says, wherever in the file these are
\* defined; the only error is one that does not exist (lines 643, 848-858).
ActionsResolved ==
    /\ phase = "failed" => \E i \in DOMAIN actions : /\ actions[i].name # <<"separator">>
                                                     /\ \A o \in DOMAIN obj : obj[o].name # actions[i].name
    /\ \A i \in DOMAIN added :
         /\ i \in DOMAIN actions /\ added[i].widget = actions[i].widget
         /\ IF actions[i].name = <<"separator">> THEN added[i].action = 0
            ELSE obj[added[i].action].name = actions[i].name
    /\ phase = "done" =>
         \A i \in DOMAIN actions \ DOMAIN added :
           \E o \in DOMAIN obj : obj[o].name = actions[i].name /\ obj[o].class = "QActionGroup"

\* A container shows the page that the file says, if it has it, although its
\* properties come before its pages (lines 443-449, 860-866).
CurrentShown ==
    phase = "done" =>
      \A i \in DOMAIN delayed :
        delayed[i].value < Cardinality(Pages(delayed[i].widget)) =>
          shown[delayed[i].widget] = delayed[i].value

\* "Create a unique name from a string." (line 188)
NamesUnique ==
    \A i, j \in DOMAIN obj : obj[i].name = obj[j].name => i = j

\* The objects, their names, places, actions and pages are those of the file,
\* in whatever order its elements are nested and refer to each other.
TreeAsWritten == CurrentWidget /\ Placed /\ NamesUnique /\ ActionsResolved /\ CurrentShown

\* The texts of items, trees and headers are those of the file, and sorting does
\* not move items while they are made.
ItemsAsWritten == ItemTexts /\ SortingKept /\ HeadersAligned

-----------------------------------------------------------------------------
(* The inductive invariant of ToolsProofs.                                 *)

\* What objects are called in the file, or by default.
GivenNames ==
    Names \cup {<<class>> : class \in Classes \cup LayoutClasses \cup {"QAction", "QActionGroup"}}

\* No name in the file has a suffix, and those that are not made unique, of the
\* top-level widget and of groups of buttons, are given to nothing else.
NamesApart ==
    /\ \A name \in GivenNames \cup Groups : name = <<name[1]>>
    /\ Groups \cap (GivenNames \cup {<<"top">>, <<"spacerItem">>}) = {}
    /\ <<"top">> \notin GivenNames /\ <<"spacerItem">> \notin Names

IsObject(r) ==
    r = [class |-> r.class, parent |-> r.parent, name |-> r.name, places |-> r.places,
         inside |-> r.inside, sorts |-> r.sorts]

AreObjects(objs) == objs \in Seq(Range(objs)) /\ \A o \in 1..Len(objs) : IsObject(objs[o])

ItemRecords == [view : Nat, parent : Nat, text : Nat]

UiTypeOK ==
    /\ AreObjects(obj)
    /\ stack \in Seq(Nat)
    /\ item \in Seq(ItemRecords)
    /\ itemNr \in Nat /\ itemstack \in Seq(Nat \X Nat)
    /\ actions \in Seq([widget : Nat, name : Names \cup {<<"separator">>}])
    /\ delayed \in Seq([widget : Nat, value : Nat])
    /\ group \in Nat
    /\ phase \in {"tree", "done", "failed"}

\* An object r fits into what it is inside of, c, which is its parent unless it
\* is a container or either is a layout.
Fits(r, c) ==
    LET child == r.parent = r.inside
    IN  \/ /\ r.class \in Classes \cup TopClasses
           /\ \/ c.class = "QWidget" /\ child
              \/ c.class \in LayoutClasses
              \/ c.class \in Containers /\ r.class = "QWidget" /\ r.parent = 0
              \/ c.class = "QMainWindow" /\ child /\ PlaceIn(c.class, r.class) # ""
        \/ r.class \in LayoutClasses /\ c.class \in LayoutClasses
        \/ r.class \in LayoutClasses /\ c.class = "QWidget" /\ child
        \/ r.class = "QSpacerItem" /\ c.class \in LayoutClasses
        \/ r.class \in Placeless /\ child

Enclosed(o) == obj[o].inside \in 1..(o - 1) /\ Fits(obj[o], obj[obj[o].inside])

\* Each widget or layout whose element is open is inside of the one before it,
\* and each has a nearest widget.
Nearest(i, n) ==
    i \in 1..n /\ IsWidget(stack[i]) /\ \A j \in (i + 1)..n : ~ IsWidget(stack[j])
OpenRight(i) ==
    /\ stack[i] \in 1..Len(obj) /\ obj[stack[i]].places = << >>
    /\ IsWidget(stack[i]) \/ IsLayout(stack[i])
    /\ i # 1 => obj[stack[i]].inside = stack[i - 1]
    /\ \A j \in 1..(i - 1) : stack[j] < stack[i]
    /\ \E j \in 1..i : Nearest(j, i)

ObjectsEnclosed ==
    /\ Len(obj) >= 1 /\ obj[1].class \in TopClasses /\ obj[1].inside = 0
    /\ \A o \in 2..Len(obj) : Enclosed(o)

StackRight ==
    /\ phase = "tree" <=> stack # << >>
    /\ ObjectsEnclosed
    /\ stack # << >> => stack[1] = 1
    /\ \A i \in 1..Len(stack) : OpenRight(i)

\* The items inside of each open one are counted.
Within(i) == IF i = 1 THEN 0 ELSE itemstack[i - 1][1]
ItemsCounted ==
    /\ \A i \in 1..Len(item) : item[i].view \in 1..Len(obj) /\ item[i].parent < i
    /\ \A i \in 1..Len(itemstack) :
         /\ itemstack[i][1] \in 1..Len(item)
         /\ \A j \in 1..(i - 1) : itemstack[j][1] < itemstack[i][1]
    /\ itemstack # << >> =>
         phase = "tree" /\ Peek = topwidget /\ obj[Peek].class = "QTreeWidget"
    /\ \A i \in 1..Len(itemstack) :
         Cardinality(ItemsOf(topwidget, Within(i))) = itemstack[i][2] + 1

\* A name that was made unique is one that was asked for, or has one of the
\* suffixes that have been used up.
Suffixed(name) ==
    \E base \in DOMAIN suffixes :
      name = base \/ \E k \in 1..suffixes[base] : name = Append(base, k)

NamesKept ==
    /\ NamesUnique
    /\ DOMAIN suffixes \subseteq GivenNames \cup {<<"spacerItem">>}
    /\ suffixes \in [DOMAIN suffixes -> Nat]
    /\ DOMAIN bgroups \subseteq Groups
    /\ obj[1].name = <<"top">>
    /\ \A o \in 2..Len(obj) :
         /\ Suffixed(obj[o].name) \/ obj[o].name \in DOMAIN bgroups
         /\ obj[o].class = "QSpacerItem" => obj[o].name \notin Names

\* Every object but spacers can be found by its name.
AttributesKept ==
    /\ \A o \in 2..Len(obj) : obj[o].class # "QSpacerItem" =>
         obj[o].name \in DOMAIN attrs /\ attrs[obj[o].name] = o
    /\ \A name \in DOMAIN attrs : attrs[name] \in 1..Len(obj) /\ obj[attrs[name]].name = name

\* What is put off is put off once for each widget, until the tree has been read.
PutOff ==
    /\ \A i \in 1..Len(delayed) : delayed[i].widget \in 1..Len(obj)
    /\ \A i, j \in 1..Len(delayed) : delayed[i].widget = delayed[j].widget => i = j
    /\ group # 0 => phase = "tree" /\ group \in 1..Len(obj)
    /\ phase # "done" => DOMAIN added = {}

UiIInv ==
    /\ UiTypeOK /\ StackRight /\ ItemsCounted /\ NamesKept /\ AttributesKept /\ PutOff
    /\ TreeAsWritten

\* An item that is open is the last one inside of what it is in.
OpenItemsLast ==
    \A i \in 1..Len(itemstack) :
      /\ itemstack[i][1] \in ItemsOf(topwidget, Within(i))
      /\ \A j \in ItemsOf(topwidget, Within(i)) : j <= itemstack[i][1]

\* A view that has ended is sorted if the file says so.  The one that is open is
\* not, from its first item on, and whether it was is kept in sorting.
ViewSorted(o) == o \in sorted <=> obj[o].sorts
SortingRemembered ==
    /\ sorted \subseteq 1..Len(obj)
    /\ phase = "tree" =>
         /\ \A o \in 1..Len(obj) :
              obj[o].class \in ItemViews /\ o # topwidget => ViewSorted(o)
         /\ IF obj[topwidget].class \notin ItemViews THEN sorting = "None"
            ELSE IF ItemsOf(topwidget, 0) = {} THEN sorting = "None" /\ ViewSorted(topwidget)
            ELSE topwidget \notin sorted /\ (sorting = "on" <=> obj[topwidget].sorts)

\* The headers of the view that is open are counted.
HeadersCounted ==
    /\ IsFiniteSet(headers)
    /\ \A h \in headers : h.view \in 1..Len(obj)
    /\ phase = "tree" /\ obj[topwidget].class \in {"QTreeWidget", "QTableWidget"} =>
         /\ columns = Cardinality(HeadersOf(topwidget))
         /\ \A h \in HeadersOf(topwidget) : h.column \in Nat /\ h.column < columns

ItemsIInv ==
    /\ UiIInv /\ OpenItemsLast /\ SortingRemembered /\ HeadersCounted
    /\ ItemTexts /\ HeadersAligned
=============================================================================
