----------------------------- MODULE UiCompiler -----------------------------
(***************************************************************************)
(* The code that pyuic6 generates (uic/Compiler/).  The parser makes the   *)
(* same calls as when it loads an interface, but of proxies: a call of a   *)
(* proxy writes a statement.  What must be translated goes to the method   *)
(* retranslateUi(), which setupUi() calls before it sets delayed           *)
(* properties, and an application whenever the language has changed.       *)
(*                                                                         *)
(* The file is handled first.  The statements of setupUi() are executed as *)
(* they are written, those of retranslateUi() are kept and executed later, *)
(* one in a step.                                                          *)
(***************************************************************************)
EXTENDS Naturals, FiniteSets, SequencesExt, Dictionaries

CONSTANTS
    IconSets,     \* descriptions of icons by file
    Themes,       \* names of themed icons
    MaxCalls,     \* bound: calls of the parser
    MaxLanguages, \* bound: calls of retranslateUi()
    TipFeature    \* whether items of trees have tool tips

VARIABLES
    attributes,   \* attributes of the generated class
    locals,       \* the local variables of setupUi(), a word and a number, and their values
    cache,        \* IconCache._cache
    icon,         \* for each widget the icon of the file and the one it has
    calls,        \* of the parser
    view,         \* the list or tree whose items are being created
    toSort,       \* the views that the file sorts
    file,         \* [<<object, what>> -> "plain" or "translated"], the texts of the file
    again,        \* i18n_strings, the statements of retranslateUi()
    ends,         \* the statements that setupUi() has yet to end with
    at,           \* the next statement of retranslateUi(), 0 when it is not called
    got,          \* its local variables: items
    saved,        \* and __sortingEnabled
    failed,       \* it has used a local variable that it does not have
    language,     \* number of its calls
    shows,        \* [<<object, what>> -> the text that is shown]
    rows,         \* [view -> its items in their order]
    sorters,      \* views that sort their items
    delayedSet    \* the delayed properties are set

writeVars == <<attributes, locals, cache, icon, calls, view, toSort, file, again>>
runVars == <<ends, at, got, saved, failed, language, sorters, delayedSet>>
genVars == <<writeVars, runVars, shows, rows>>

Texts == {"plain", "translated"}
NoView == "none"
NoText == << >>

\* Nothing has been written and setupUi() begins.
GenInit ==
    /\ attributes = {} /\ locals = << >> /\ cache = << >> /\ icon = << >> /\ calls = 0
    /\ view = NoView /\ toSort = {} /\ file = << >> /\ again = << >>
    /\ ends = << >> /\ at = 0 /\ got = << >> /\ saved = "unbound" /\ failed = FALSE
    /\ language = 0 /\ shows = << >> /\ rows = << >> /\ sorters = {} /\ delayedSet = FALSE

\* Another call of the parser while the tree of widgets is handled.
Writing == ends = << >> /\ language = 0
GenCall ==
    /\ Writing /\ calls < MaxCalls
    /\ calls' = calls + 1
    /\ UNCHANGED runVars

-----------------------------------------------------------------------------
(* Proxies.                                                                *)

\* A call of a member with a text is written at once, or put off if the text is
\* translated: by says how retranslateUi() gets at the object.
Later(by, key, string) ==
    IF string = "translated" THEN <<[do |-> "text", by |-> by, key |-> key]>> ELSE << >>
WrittenNow(key, string) == IF string = "translated" THEN NoText ELSE <<key, 0>>

SetText(by, key, string) ==
    /\ file' = Given(file, key, string)
    /\ shows' = Given(shows, key, WrittenNow(key, string))
    /\ again' = again \o Later(by, key, string)

\* A widget is an attribute.
NewWidget(w, string) ==
    /\ GenCall /\ view = NoView /\ w \notin attributes
    /\ attributes' = attributes \cup {w}
    /\ SetText(<<"object", <<w, 0>>>>, <<<<w, 0>>, "text">>, string)
    /\ UNCHANGED <<locals, cache, icon, view, toSort, rows>>

\* addTab() or addItem() of a page: one with a translated title is added with
\* an empty one, which retranslateUi() replaces.
NewPage(page, title) ==
    /\ GenCall /\ view = NoView /\ page \notin attributes
    /\ attributes' = attributes \cup {page}
    /\ SetText(<<"object", <<page, 0>>>>, <<<<page, 0>>, "title">>, title)
    /\ UNCHANGED <<locals, cache, icon, view, toSort, rows>>

-----------------------------------------------------------------------------
(* Views.  setSortingEnabled(), isSortingEnabled() and item() are always put *)
(* off to retranslateUi().                                                  *)

Sort(v, value) == [do |-> "sort", view |-> v, value |-> value]

NewView(v, sorts) ==
    /\ GenCall /\ view = NoView /\ v \notin attributes
    /\ attributes' = attributes \cup {v}
    /\ view' = v /\ rows' = Given(rows, v, << >>)
    /\ toSort' = IF sorts THEN toSort \cup {v} ELSE toSort
    /\ again' = IF sorts THEN Append(again, Sort(v, "on")) ELSE again
    /\ UNCHANGED <<locals, cache, icon, file, shows>>

\* Before the first item.
SortingSaved ==
    IF rows[view] = << >> THEN <<[do |-> "save", view |-> view], Sort(view, "off")>> ELSE << >>

ItemNow == <<view, Len(rows[view]) + 1>>

ItemCreated ==
    /\ GenCall
    /\ rows' = [rows EXCEPT ![view] = Append(@, ItemNow)]
    /\ UNCHANGED <<attributes, cache, icon, view, toSort>>

\* A fault: retranslateUi() gets the first item only.
BindItemFirst(strings) ==
    IF rows[view] = << >> /\ "translated" \in strings
    THEN <<[do |-> "item", view |-> view, row |-> Len(rows[view]) + 1]>> ELSE << >>

\* The items of lists and tables are local variables; retranslateUi() gets one
\* again from the widget, by its row, if it has anything to translate.
BindItem(strings) ==
    IF "translated" \in strings
    THEN <<[do |-> "item", view |-> view, row |-> Len(rows[view]) + 1]>> ELSE << >>

TextAndTip(string, tip) ==
    LET text == <<ItemNow, "text">>
    IN  IF tip = "none"
        THEN file' = Given(file, text, string) /\ shows' = Given(shows, text, WrittenNow(text, string))
        ELSE /\ file' = Given(Given(file, text, string), <<ItemNow, "tip">>, tip)
             /\ shows' = Given(Given(shows, text, WrittenNow(text, string)),
                               <<ItemNow, "tip">>, WrittenNow(<<ItemNow, "tip">>, tip))

NewItemOf(string, tip) ==
    /\ view = "list" /\ ItemCreated
    /\ locals' = Given(locals, <<"item", 0>>, ItemNow)
    /\ TextAndTip(string, tip)
    /\ again' = again \o SortingSaved \o BindItem({string, tip})
                  \o Later(<<"local", "item">>, <<ItemNow, "text">>, string)
                  \o Later(<<"local", "item">>, <<ItemNow, "tip">>, tip)

\* The text of an item of a tree is set by way of the tree, which is an
\* attribute, its tips by its local variable.
NewTreeItem(string, tip) ==
    /\ view = "tree" /\ ItemCreated
    /\ tip = "none" \/ TipFeature
    /\ locals' = Given(locals, <<"item_", 0>>, ItemNow)
    /\ TextAndTip(string, tip)
    /\ again' = again \o SortingSaved
                  \o Later(<<"row", ItemNow>>, <<ItemNow, "text">>, string)
                  \o Later(<<"local", "item_0">>, <<ItemNow, "tip">>, tip)

\* A view that has items sorts them again if it did.
EndView ==
    /\ Writing /\ view # NoView
    /\ view' = NoView
    /\ again' = IF rows[view] = << >> THEN again ELSE Append(again, Sort(view, "saved"))
    /\ UNCHANGED <<attributes, locals, cache, icon, calls, toSort, file, runVars, shows, rows>>

-----------------------------------------------------------------------------
(* Icons.                                                                  *)

\* Follow uic's naming convention: icon, icon1, icon2.
IconName(n) == <<"icon", n>>

IconIndex(iset) == SelectInSeq(cache, LAMBDA entry : entry.iset = iset)

\* A themed icon is made again and again, in a variable that is always called
\* icon; another icon is made once, in a variable of its own.
GetIcon(iset) ==
    IF iset \in Themes
      THEN [name |-> IconName(0), locals |-> Given(locals, IconName(0), iset), cache |-> cache]
    ELSE IF IconIndex(iset) # 0
      THEN [name |-> cache[IconIndex(iset)].name, locals |-> locals, cache |-> cache]
    ELSE LET name == IconName(Len(cache))
         IN  [name |-> name, locals |-> Given(locals, name, iset),
              cache |-> Append(cache, [iset |-> iset, name |-> name])]

\* The statement that sets the icon of a widget has the value its variable has
\* then.
SetIcon(w, iset) ==
    LET icons == GetIcon(iset)
    IN  /\ GenCall /\ w \in attributes
        /\ locals' = icons.locals
        /\ cache' = icons.cache
        /\ icon' = Given(icon, w, [is |-> iset, set |-> icons.locals[icons.name]])
        /\ UNCHANGED <<attributes, view, toSort, file, again, shows, rows>>

-----------------------------------------------------------------------------
(* The end of the file, and what is executed then.                         *)

\* A fault: the delayed properties come first.
DelayedFirst == <<"delayed", "retranslateUi">>

SetDelayedProps == <<"retranslateUi", "delayed">>

Finish ==
    /\ Writing /\ view = NoView
    /\ ends' = SetDelayedProps
    /\ UNCHANGED <<writeVars, at, got, saved, failed, language, sorters, delayedSet, shows, rows>>

\* setupUi() comes to its end; afterwards an application calls retranslateUi().
CallRetranslateUi ==
    /\ at = 0 /\ ~ failed /\ language < MaxLanguages
    /\ IF ends = << >> THEN language > 0 /\ UNCHANGED ends
                       ELSE Head(ends) = "retranslateUi" /\ ends' = Tail(ends)
    /\ at' = 1 /\ got' = << >> /\ saved' = "unbound" /\ language' = language + 1
    /\ UNCHANGED <<writeVars, failed, sorters, delayedSet, shows, rows>>

ExecuteDelayed ==
    /\ at = 0 /\ ~ failed
    /\ ends # << >> /\ Head(ends) = "delayed" /\ ends' = Tail(ends)
    /\ delayedSet' = TRUE
    /\ UNCHANGED <<writeVars, at, got, saved, failed, language, sorters, shows, rows>>

RetranslateUiReturns ==
    /\ at > Len(again)
    /\ at' = 0
    /\ UNCHANGED <<writeVars, ends, got, saved, failed, language, sorters, delayedSet, shows, rows>>

Executes(do) == at \in DOMAIN again /\ again[at].do = do /\ at' = at + 1

\* The object that a statement gets at.
ObjectOf(by) ==
    CASE by[1] = "object" -> by[2]
      [] by[1] = "row" -> rows[by[2][1]][by[2][2]]
      [] by[1] = "local" -> got[by[2]]

Bound(by) == by[1] = "local" => by[2] \in DOMAIN got

ExecuteText ==
    /\ Executes("text") /\ Bound(again[at].by)
    /\ shows' = Given(shows, <<ObjectOf(again[at].by), again[at].key[2]>>, <<again[at].key, language>>)
    /\ UNCHANGED <<writeVars, ends, got, saved, failed, language, sorters, delayedSet, rows>>

\* A NameError.
ExecuteUnbound ==
    /\ at \in DOMAIN again /\ again[at].do = "text" /\ ~ Bound(again[at].by)
    /\ failed' = TRUE /\ at' = 0
    /\ UNCHANGED <<writeVars, ends, got, saved, language, sorters, delayedSet, shows, rows>>

ExecuteItem ==
    /\ Executes("item")
    /\ got' = Given(got, "item", rows[again[at].view][again[at].row])
    /\ UNCHANGED <<writeVars, ends, saved, failed, language, sorters, delayedSet, shows, rows>>

ExecuteSave ==
    /\ Executes("save")
    /\ saved' = IF again[at].view \in sorters THEN "on" ELSE "off"
    /\ UNCHANGED <<writeVars, ends, got, failed, language, sorters, delayedSet, shows, rows>>

\* A view that sorts its items has them in an order that is Qt's: any.
ExecuteSort ==
    /\ Executes("sort")
    /\ LET v == again[at].view
           value == IF again[at].value = "saved" THEN saved ELSE again[at].value
       IN  IF value = "on"
           THEN /\ sorters' = sorters \cup {v}
                /\ \E order \in Bijection(DOMAIN rows[v], DOMAIN rows[v]) :
                     rows' = [rows EXCEPT ![v] = [i \in DOMAIN rows[v] |-> rows[v][order[i]]]]
           ELSE sorters' = sorters \ {v} /\ UNCHANGED rows
    /\ UNCHANGED <<writeVars, ends, got, saved, failed, language, delayedSet, shows>>

Execute == ExecuteText \/ ExecuteUnbound \/ ExecuteItem \/ ExecuteSave \/ ExecuteSort

GenNext ==
    \/ \E w \in {"w1", "w2"} :
         \/ \E string \in Texts : NewWidget(w, string)
         \/ \E iset \in IconSets \cup Themes : SetIcon(w, iset)
    \/ \E v \in {"list", "tree"}, sorts \in BOOLEAN : NewView(v, sorts)
    \/ \E string, tip \in Texts : NewItemOf(string, tip)
    \/ \E string \in Texts, tip \in {"none"} \cup Texts : NewTreeItem(string, tip)
    \/ EndView
    \/ \E title \in Texts : NewPage("page", title)
    \/ Finish
    \/ CallRetranslateUi \/ Execute \/ RetranslateUiReturns \/ ExecuteDelayed

GenSpec == GenInit /\ [][GenNext]_genVars

-----------------------------------------------------------------------------
(* Properties.                                                             *)

\* The text of the file, in the language of the last call of retranslateUi().
Translated(key) == <<key, IF file[key] = "translated" THEN language ELSE 0>>
IsTranslated == at = 0 /\ language > 0 /\ ~ failed

\* retranslateUi() uses attributes of the class and what it has looked up
\* itself: the local variables of setupUi() are gone (uiparser.py 600-632 and
\* 666-672, qtproxies.py 117-135).
RetranslateBound == ~ failed

\* However often retranslateUi() is called, every text that is translated is then
\* that of the file in the language of the call, and where the file has it, and no
\* other text has changed, but for the items of views that are sorted (qtproxies.py
\* 117-135, 350-358, 381-389, 430-450; uiparser.py 546-550, 666-672).
Retranslated ==
    IsTranslated =>
      \A key \in DOMAIN file : key[1][1] \notin toSort => shows[key] = Translated(key)

\* The items of a sorted view of which all texts are translated have these texts,
\* a text and a tip that belong together on one item.
SortedRetranslated ==
    IsTranslated =>
      \A v \in toSort :
        LET items == Range(rows[v])
            keys == {key \in DOMAIN file : key[1] \in items}
        IN  (\A key \in keys : file[key] = "translated") =>
              \E of \in Bijection(items, items) :
                \A key \in keys :
                  shows[<<of[key[1]], key[2]>>] = Translated(key)

\* So have the items of any view.
AnyViewRetranslated == IsTranslated => \A key \in DOMAIN file : shows[key] = Translated(key)

\* "Return an icon described by the given iconset tag." (icon_cache.py 45)
IconDescribed == \A w \in DOMAIN icon : icon[w].set = icon[w].is

\* A page is shown, or a row selected, after the texts are there, as changing
\* the text of an item may change the selection (compiler.py 76-79).
TextsBeforeDelayed ==
    delayedSet => \A key \in DOMAIN file : key[1][1] \notin toSort => shows[key] # NoText

\* The generated code can be called again to translate the user interface: it
\* uses what is still there, and each text, icon and page is as in the file, but
\* for views that are sorted and have texts that are not translated.
CodeRetranslates ==
    RetranslateBound /\ Retranslated /\ SortedRetranslated /\ IconDescribed /\ TextsBeforeDelayed

-----------------------------------------------------------------------------
(* For the proofs in ToolsProofs.                                          *)

Objects == {"w1", "w2", "page", "list", "tree"}
Keys == (Objects \X Nat) \X {"text", "tip", "title"}
Ways == ({"object", "row"} \X (Objects \X Nat)) \cup ({"local"} \X {"item", "item_0"})
Statement ==
    [do : {"text"}, by : Ways, key : Keys]
    \cup [do : {"item"}, view : Objects, row : Nat]
    \cup [do : {"save"}, view : Objects]
    \cup [do : {"sort"}, view : Objects, value : {"on", "off", "saved"}]

GenTypeOK ==
    /\ again \in Seq(Statement)
    /\ file \in [DOMAIN file -> Texts] /\ DOMAIN file \subseteq Keys
    /\ DOMAIN file \subseteq DOMAIN shows
    /\ attributes \subseteq Objects /\ DOMAIN rows \subseteq attributes /\ toSort \subseteq DOMAIN rows
    /\ \A v \in DOMAIN rows : rows[v] \in Seq({v} \X Nat)
    /\ view # NoView => view \in DOMAIN rows
    /\ at \in Nat /\ language \in Nat

\* What has a text is there, and the items of a view that is not sorted are in
\* the order of the file.
KeysKept ==
    \A key \in DOMAIN file :
      /\ key[1][1] \in attributes
      /\ key[1][1] \in DOMAIN rows => key[1][2] \in DOMAIN rows[key[1][1]]

RowsKept == \A v \in DOMAIN rows \ toSort : \A n \in DOMAIN rows[v] : rows[v][n] = <<v, n>>

\* The last statement of a kind before the i-th.
LastBefore(s, i, j, do) ==
    j \in 1..(i - 1) /\ s[j].do = do /\ \A k \in (j + 1)..(i - 1) : s[k].do # do
ItemBefore(s, i, item) ==
    \E j \in 1..(i - 1) : LastBefore(s, i, j, "item") /\ s[j].view = item[1] /\ s[j].row = item[2]
SavedBefore(s, i, v) == \E j \in 1..(i - 1) : LastBefore(s, i, j, "save") /\ s[j].view = v

\* A text is put off if it is translated, and the statement gets at its object.
TextRight(s, i, texts, items) ==
    s[i].do = "text" =>
      LET key == s[i].key
          by == s[i].by
      IN  /\ key \in DOMAIN texts /\ texts[key] = "translated"
          /\ \/ by = <<"object", key[1]>>
             \/ /\ by = <<"row", key[1]>> /\ key[1][1] \in DOMAIN items
                /\ key[1][2] \in DOMAIN items[key[1][1]]
             \/ by = <<"local", "item">> /\ ItemBefore(s, i, key[1])

ItemRight(s, i, items) ==
    s[i].do = "item" => s[i].view \in DOMAIN items /\ s[i].row \in DOMAIN items[s[i].view]

\* Only sorted views are sorted: what is restored was saved for the same view.
SortRight(s, i, views) ==
    s[i].do = "sort" => /\ s[i].value = "on" => s[i].view \in views
                        /\ s[i].value = "saved" => SavedBefore(s, i, s[i].view)

StatementsRight(s, texts, items, views) ==
    \A i \in DOMAIN s : TextRight(s, i, texts, items) /\ ItemRight(s, i, items) /\ SortRight(s, i, views)

StatementsKept == StatementsRight(again, file, rows, toSort)

IsPutOff(s, key) == \E i \in DOMAIN s : s[i].do = "text" /\ s[i].key = key

AllPutOff == \A key \in DOMAIN file : file[key] = "translated" => IsPutOff(again, key)

ViewSaved ==
    Writing /\ view # NoView /\ rows[view] # << >> => SavedBefore(again, Len(again) + 1, view)

\* Where the execution is.
PhaseKept ==
    /\ at > 0 => language > 0
    /\ ends \in {<< >>, SetDelayedProps, <<"delayed">>}
    /\ ends = SetDelayedProps => language = 0
    /\ ends = <<"delayed">> => language > 0
    /\ delayedSet => language > 1 \/ (language = 1 /\ at = 0)
    /\ ~ failed

\* The local variables of retranslateUi().
SortersKept ==
    /\ sorters \subseteq toSort
    /\ \A j \in 1..(at - 1) : LastBefore(again, at, j, "save") /\ saved = "on" => again[j].view \in toSort
GotKept ==
    \A j \in 1..(at - 1) : LastBefore(again, at, j, "item") =>
      /\ "item" \in DOMAIN got /\ got["item"] \in {again[j].view} \X Nat
      /\ again[j].view \notin toSort => got["item"] = <<again[j].view, again[j].row>>

\* What is shown, of what no sorted view has.
TextKept(key) ==
    /\ file[key] = "plain" => shows[key] = <<key, 0>>
    /\ language > 1 \/ (language = 1 /\ at = 0) => shows[key] # NoText
    /\ file[key] = "translated" =>
         /\ at = 0 /\ language > 0 => shows[key] = <<key, language>>
         /\ \A i \in 1..(at - 1) : i \in DOMAIN again /\ again[i].do = "text" /\ again[i].key = key =>
              shows[key] = <<key, language>>
TextsKept == \A key \in DOMAIN file : key[1][1] \notin toSort => TextKept(key)

GenIInv ==
    /\ GenTypeOK /\ KeysKept /\ RowsKept
    /\ StatementsKept /\ AllPutOff /\ ViewSaved
    /\ PhaseKept /\ SortersKept /\ GotKept /\ TextsKept

\* Each icon of the cache has a variable of its own, which still has its value.
IconsKept ==
    /\ cache \in Seq([iset : IconSets, name : {"icon"} \X Nat])
    /\ \A i \in 1..Len(cache) :
         /\ cache[i].name = IconName(i - 1)
         /\ cache[i].name \in DOMAIN locals
         /\ locals[cache[i].name] = cache[i].iset
=============================================================================
