---------------------------- MODULE UiProperties ----------------------------
(***************************************************************************)
(* What the elements of a .ui file mean: positions in layouts, margins and *)
(* spacing, and the values and handlers of properties (uic/properties.py,  *)
(* uic/ui_file.py and parts of uic/uiparser.py).                           *)
(*                                                                         *)
(* What is optional in the file is None if it is missing.  A property is   *)
(* [name, tag, value, stdset].                                             *)
(***************************************************************************)
EXTENDS Integers, FiniteSets, SequencesExt

CONSTANT None

VARIABLES
    given,   \* an element as it is given in a file; what says of which kind
    made     \* what the parser makes of it

propVars == <<given, made>>

Or(value, default) == IF value = None THEN default ELSE value

-----------------------------------------------------------------------------
(* The file (ui_file.py) and the order its parts are handled in (parse()). *)

\* The order is important: the widget relies on all custom widgets, and the
\* connections on all widgets.
FileOrder(tags) ==
    SelectSeq(<<"layoutdefault", "buttongroups", "customwidgets", "widget", "connections",
                "tabstops">>, LAMBDA tag : tag \in Range(tags))

\* The last element of each kind counts.  The name of the class may come from
\* the widget.
ReadFile(file) ==
    LET last(tag) == SelectLastInSeq(file.elements, LAMBDA el : el.tag = tag)
        part(tag) == IF last(tag) = 0 THEN None ELSE file.elements[last(tag)].value
        class == IF part("class") # None THEN part("class") ELSE part("widget")
    IN  IF file.root # "ui" \/ file.version # "4.0" \/ class = None
          THEN [error |-> "UIFileException", class |-> None, order |-> << >>]
          ELSE [error |-> "", class |-> class,
                order |-> FileOrder([i \in DOMAIN file.elements |-> file.elements[i].tag])]

\* "foo/bar/baz.h" is foo.bar.baz; a path is a sequence of parts.
Header2Module(path) ==
    IF ".." \in Range(path) THEN <<"error">>
    ELSE SelectSeq(path, LAMBDA part : part \notin {"", "."})

\* The pairs that setTabOrder() is called with.
TabOrder(stops) == [i \in 1..(Len(stops) - 1) |-> <<stops[i], stops[i + 1]>>]

\* A signal is connected by its name, or by its name and the types of its
\* arguments.  The loader renames a slot that is a keyword of Python.
Connection(signal, slot, loading) ==
    [index |-> IF signal.args = << >> THEN "none"
               ELSE IF Len(signal.args) = 1 THEN "type" ELSE "tuple",
     slot |-> IF loading /\ slot = "raise" THEN "raise_" ELSE slot]

-----------------------------------------------------------------------------
(* Layouts.                                                                *)

\* The arguments for the layout: of a box, of a grid or of a form.
LayoutPosition(el) ==
    LET alignment == IF el.alignment = None THEN << >> ELSE <<el.alignment>>
    IN  IF el.row = None \/ el.column = None
          THEN IF el.alignment = None THEN << >> ELSE <<0>> \o alignment
          ELSE <<el.row, el.column, Or(el.rowspan, 1), Or(el.colspan, 1)>> \o alignment

FormLayoutRole(lp) ==
    IF lp[4] > 1 THEN "Spanning" ELSE IF lp[2] = 1 THEN "Field" ELSE "Label"

Sides == {"left", "top", "right", "bottom"}

\* The margins of a new layout; a negative one is left to the style.
Margins(el, topIsLayout, topIsLayoutWidget, default) ==
    LET margin == Or(el.margin, IF topIsLayout THEN -1 ELSE default)
        side(s) == Or(el[s], margin)
    IN  [s \in Sides |-> IF topIsLayoutWidget /\ side(s) < 0 THEN 0 ELSE side(s)]

\* What is injected for pyuicMargins() to set, none if the style has them all.
MarginsSet(margins) ==
    IF \A s \in Sides : margins[s] < 0 THEN << >>
    ELSE <<<<"setContentsMargins", margins["left"], margins["top"], margins["right"],
             margins["bottom"]>>>>

\* What pyuicSpacing() sets.
SpacingSet(horiz, vert) ==
    IF horiz = vert THEN <<<<"setSpacing", horiz>>>>
    ELSE (IF horiz >= 0 THEN <<<<"setHorizontalSpacing", horiz>>>> ELSE << >>)
         \o (IF vert >= 0 THEN <<<<"setVerticalSpacing", vert>>>> ELSE << >>)

Spacing(el, default) ==
    LET spacing == Or(el.spacing, default)
        horiz == Or(el.horizontal, spacing)
        vert == Or(el.vertical, spacing)
    IN  IF horiz >= 0 \/ vert >= 0 THEN SpacingSet(horiz, vert) ELSE << >>

\* The stretches and minimum sizes of rows and columns that are not 0.
SetArray(values) ==
    LET positive == SelectSeq([i \in DOMAIN values |-> <<i - 1, values[i]>>],
                              LAMBDA call : call[2] > 0)
    IN  positive

\* The attributes of the header of a view, in the order they are looked for.
HeaderView(attributes) ==
    SelectSeq(<<"Visible", "CascadingSectionResizes", "DefaultSectionSize",
                "HighlightSections", "MinimumSectionSize", "ShowSortIndicator",
                "StretchLastSection">>, LAMBDA a : a \in attributes)

\* The arguments of a spacer: its size if it has one, and its policies.
SpacerArgs(el) ==
    LET size == IF el.width = None \/ el.height = None THEN << >>
                ELSE <<el.width, el.height>>
        type == Or(el.sizeType, "Expanding")
    IN  size \o (IF el.orientation = "Horizontal" THEN <<type, "Minimum">>
                                                    ELSE <<"Minimum", type>>)

-----------------------------------------------------------------------------
(* Values.                                                                 *)

\* The name of an enum member: one without a scope is in Qt, and the map has
\* the scoped name of one that has lost its enum.
PyEnumMember(parts, enumMap) ==
    LET full == IF Len(parts) = 1 THEN <<"Qt">> \o parts ELSE parts
    IN  IF full \in DOMAIN enumMap THEN enumMap[full] ELSE full

\* A string is translated unless the file says otherwise.
StringValue(prop) ==
    IF prop.text = None THEN "empty" ELSE IF prop.notr = "true" THEN "plain" ELSE "translated"

\* An opaque colour has three components.
ColorValue(rgb, alpha) == IF alpha = 255 THEN rgb ELSE Append(rgb, alpha)

\* The file has hour, minute, second, year, month and day.
DateTimeValue(ints) ==
    [date |-> SubSeq(ints, Len(ints) - 2, Len(ints)), time |-> SubSeq(ints, 1, Len(ints) - 3)]

\* Two numbers and two names, or four numbers in old files.
SizePolicyValue(values, hsizetype, vsizetype) ==
    IF Len(values) = 2
      THEN [types |-> <<hsizetype, vsizetype>>, stretch |-> values]
      ELSE [types |-> SubSeq(values, 1, 2), stretch |-> SubSeq(values, 3, 4)]

\* A fault: a colour without a role has the number of those before it.
PaletteRolesAfter(colors) ==
    [i \in DOMAIN colors |->
       IF colors[i].tag = "color" THEN Cardinality({j \in 1..i : colors[j].tag = "color"})
       ELSE colors[i].role]

\* The role of each colour of a palette: its position, or the one it names.
PaletteRoles(colors) ==
    [i \in DOMAIN colors |-> IF colors[i].tag = "color" THEN i - 1 ELSE colors[i].role]

\* A brush is a gradient or a colour in a style.  A gradient has its geometry,
\* what is common to all of them if it is there, and stops.
BrushValue(brush) ==
    IF brush.style \notin {"LinearGradientPattern", "ConicalGradientPattern",
                           "RadialGradientPattern"}
      THEN <<"color", brush.style>>
    ELSE IF \/ brush.type \notin {"LinearGradient", "ConicalGradient", "RadialGradient"}
            \/ \E stop \in Range(brush.stops) : stop # "gradientstop"
      THEN <<"UnsupportedPropertyError">>
    ELSE <<"gradient", brush.type, SelectSeq(<<"spread", "coordinatemode">>,
                                             LAMBDA a : a \in brush.attributes),
           Len(brush.stops)>>

FontAttributes == <<"Family", "PointSize", "Bold", "Italic", "Underline", "Weight",
                    "StrikeOut", "Kerning", "StyleStrategy">>

\* The attributes of a font that are set: those in the file.
FontValue(attributes) == SelectSeq(FontAttributes, LAMBDA a : a \in attributes)

-----------------------------------------------------------------------------
(* Properties of objects.                                                  *)

Delayed == {"currentIndex", "currentRow"}
ViaSetProperty == {"showDropIndicator", "intValue", "value"}
Ignored == {"objectName", "margin", "leftMargin", "topMargin", "rightMargin",
            "bottomMargin", "spacing", "horizontalSpacing", "verticalSpacing"}

ConvertedTags == {"set", "enum", "number", "UInt", "uInt", "longLong", "uLongLong", "double",
                  "bool", "stringlist", "string", "char", "cstring", "color", "point",
                  "pointf", "rect", "rectf", "size", "sizef", "pixmap", "iconset", "url",
                  "locale", "date", "datetime", "time", "gradient", "palette", "brush",
                  "sizepolicy", "font", "cursor", "cursorShape"}

\* The call that sets a property, <<"none">> if there is nothing to set, or an
\* error.  widget is [class, toplevel].
SetProperty(widget, p) ==
    LET converted(call) == IF p.tag \notin ConvertedTags THEN <<"UnsupportedPropertyError">>
                           ELSE IF p.value = None THEN <<"none">> ELSE call
        setProperty == converted(IF p.tag = "cursorShape" THEN <<"viewport.setProperty", p.name>>
                                                          ELSE <<"setProperty", p.name>>)
    IN  CASE p.stdset = 0 \/ p.name \in ViaSetProperty -> setProperty
          [] p.name \in Delayed -> converted(<<"delayed", p.name>>)
          [] p.name \in Ignored -> <<"none">>
          [] p.name = "tabSpacing" -> converted(<<"delayed", "layout.spacing">>)
          [] p.name = "buddy" -> IF p.value = None THEN <<"none">> ELSE <<"delayed", "buddy">>
          [] p.name = "geometry" -> IF widget.toplevel THEN <<"resize">> ELSE <<"set", "geometry">>
          [] p.name = "orientation" -> IF widget.class = "QFrame" THEN <<"set", "frameShape">>
                                       ELSE <<"set", "orientation">>
          [] p.name = "isWrapping" -> <<"set", "wrapping">>
          [] OTHER -> converted(<<"set", p.name>>)

\* Lines are sunken unless the frame shadow is explicitly set.
Sunken(class, props) ==
    class = "Line" /\ \A i \in DOMAIN props : props[i].name # "frameShadow"

\* The calls in the order of the file.  The first property that is not supported
\* ends them, and the parse.
SetProperties(widget, class, props) ==
    LET calls == [i \in DOMAIN props |-> SetProperty(widget, props[i])]
        bad == SelectInSeq(calls, LAMBDA call : call = <<"UnsupportedPropertyError">>)
        reached == SelectSeq(IF bad = 0 THEN calls ELSE SubSeq(calls, 1, bad - 1),
                             LAMBDA call : call # <<"none">>)
    IN  [error |-> IF bad = 0 THEN "" ELSE "UnsupportedPropertyError",
         calls |-> IF bad = 0 /\ Sunken(class, props) THEN Append(reached, <<"set", "sunken">>)
                   ELSE reached]

-----------------------------------------------------------------------------
(* The elements that are tried.                                            *)

Optional(S) == S \cup {None}

LayoutElements ==
    [what : {"layout"}, margin : Optional({0, 9}), left : Optional({0, 5}),
     top : Optional({5}), right : {None}, bottom : {None}, topIsLayout : BOOLEAN,
     topIsLayoutWidget : BOOLEAN, default : {-1, 11}]
SpacingElements ==
    [what : {"spacing"}, spacing : Optional({0, 6}), horizontal : Optional({0, 3}),
     vertical : Optional({3}), default : {-1, 4}]
PaletteElements ==
    [what : {"palette"}, colors : SeqOf([tag : {"color", "colorrole"}, role : 0..2], 3)]
PropertyElements ==
    [name : {"frameShadow", "currentIndex", "value", "margin", "text", "buddy", "tabSpacing"},
     tag : {"number", "unknown"}, value : Optional({1}), stdset : {0, 1}]
WidgetElements ==
    [what : {"widget"}, class : {"Line", "QLabel"}, props : SeqOf(PropertyElements, 2)]
FileElements ==
    [what : {"file"}, root : {"ui"}, version : {"3.0", "4.0"},
     elements : SeqOf([tag : {"class", "widget", "customwidgets", "connections", "tabstops"},
                       value : Optional({"Form"})], 3)]

PositionElements ==
    [what : {"position"}, row : Optional({1}), column : Optional({0, 1}),
     rowspan : Optional({2}), colspan : Optional({1, 2}), alignment : Optional({"AlignTop"})]
SpacerElements ==
    [what : {"spacer"}, width : Optional({20}), height : Optional({40}),
     sizeType : Optional({"Fixed"}), orientation : {"Horizontal", "Vertical"}]
BrushElements ==
    [what : {"brush"}, style : {"SolidPattern", "LinearGradientPattern"},
     type : {"LinearGradient", "Other"}, attributes : SUBSET {"spread", "coordinatemode"},
     stops : SeqOf({"gradientstop", "other"}, 2)]
SignalElements ==
    [what : {"connection"}, args : SeqOf({"int", "bool"}, 2), slot : {"raise", "close"},
     loading : BOOLEAN]
\* One of each other kind and form.
OtherElements == <<
    [what |-> "header", attributes |-> {"Visible", "StretchLastSection"}],
    [what |-> "array", values |-> <<0, 2>>],
    [what |-> "enum", parts |-> <<"AlignTop">>],
    [what |-> "enum", parts |-> <<"QFrame", "Sunken">>],
    [what |-> "string", text |-> None, notr |-> None],
    [what |-> "string", text |-> "x", notr |-> "true"],
    [what |-> "string", text |-> "x", notr |-> None],
    [what |-> "color", rgb |-> <<1, 2, 3>>, alpha |-> 255],
    [what |-> "color", rgb |-> <<1, 2, 3>>, alpha |-> 128],
    [what |-> "datetime", ints |-> <<12, 30, 59, 2024, 2, 29>>],
    [what |-> "sizepolicy", values |-> <<1, 2>>],
    [what |-> "sizepolicy", values |-> <<5, 7, 1, 2>>],
    [what |-> "font", attributes |-> {"Bold", "Family"}],
    [what |-> "path", parts |-> <<".", "foo", "", "bar">>],
    [what |-> "path", parts |-> <<"..", "bar">>],
    [what |-> "tabstops", names |-> <<"a", "b", "c">>]>>

EnumMap == <<"Qt", "AlignTop">> :> <<"Qt", "AlignmentFlag", "AlignTop">>

Unhandled == [done |-> FALSE]

PropInit ==
    /\ made = Unhandled
    /\ \/ given \in LayoutElements
       \/ given \in SpacingElements
       \/ given \in PaletteElements
       \/ given \in WidgetElements
       \/ given \in FileElements
       \/ given \in PositionElements
       \/ given \in SpacerElements
       \/ given \in BrushElements
       \/ given \in SignalElements
       \/ \E i \in DOMAIN OtherElements : given = OtherElements[i]

Handled(el) ==
    CASE el.what = "layout" ->
           MarginsSet(Margins(el, el.topIsLayout, el.topIsLayoutWidget, el.default))
      [] el.what = "spacing" -> Spacing(el, el.default)
      [] el.what = "palette" -> PaletteRoles(el.colors)
      [] el.what = "widget" ->
           SetProperties([class |-> "QFrame", toplevel |-> FALSE], el.class, el.props)
      [] el.what = "file" -> ReadFile(el)
      [] el.what = "position" ->
           LET lp == LayoutPosition(el)
           IN  IF Len(lp) < 4 THEN <<lp>> ELSE <<lp, FormLayoutRole(lp)>>
      [] el.what = "spacer" -> SpacerArgs(el)
      [] el.what = "brush" -> BrushValue(el)
      [] el.what = "connection" -> Connection(el, el.slot, el.loading)
      [] el.what = "header" -> HeaderView(el.attributes)
      [] el.what = "array" -> SetArray(el.values)
      [] el.what = "enum" -> PyEnumMember(el.parts, EnumMap)
      [] el.what = "string" -> <<StringValue(el)>>
      [] el.what = "color" -> ColorValue(el.rgb, el.alpha)
      [] el.what = "datetime" -> DateTimeValue(el.ints)
      [] el.what = "sizepolicy" -> SizePolicyValue(el.values, "Fixed", "Preferred")
      [] el.what = "font" -> FontValue(el.attributes)
      [] el.what = "path" -> Header2Module(el.parts)
      [] el.what = "tabstops" -> TabOrder(el.names)

Handle ==
    /\ ~made.done
    /\ made' = [done |-> TRUE, value |-> Handled(given)]
    /\ UNCHANGED given

-----------------------------------------------------------------------------
(* Properties.                                                             *)

\* "in order of preference, separate margins, the same margin in all
\* directions, and the default margin" (uiparser.py 459-463), the last only for
\* a layout that is not in another one; and what is set is what was selected.
MarginsPreferred ==
    given.what = "layout" /\ made.done =>
      LET m == Margins(given, given.topIsLayout, given.topIsLayoutWidget, given.default)
          set == made.value
      IN  /\ \A s \in Sides :
               LET default == IF given.topIsLayout THEN -1 ELSE given.default
                   chosen == SelectSeq(<<given[s], given.margin, default>>,
                                       LAMBDA v : v # None)[1]
               IN  m[s] = chosen \/ (given.topIsLayoutWidget /\ chosen < 0 /\ m[s] = 0)
          /\ set = << >> => \A s \in Sides : m[s] = -1
          /\ given.topIsLayoutWidget => set # << >>

\* What a layout's spacing is after some calls, -1 that of the style.
AfterSpacing(calls) ==
    [horizontal |-> FoldLeft(LAMBDA v, c : IF c[1] = "setVerticalSpacing" THEN v ELSE c[2],
                             -1, calls),
     vertical |-> FoldLeft(LAMBDA v, c : IF c[1] = "setHorizontalSpacing" THEN v ELSE c[2],
                           -1, calls)]

\* A layout has the spacing the file gives for each direction, or for both, or
\* the default (uiparser.py 484-502, properties.py 531-545).
SpacingApplied ==
    given.what = "spacing" /\ made.done =>
      AfterSpacing(made.value) =
        [horizontal |-> Or(given.horizontal, Or(given.spacing, given.default)),
         vertical |-> Or(given.vertical, Or(given.spacing, given.default))]

\* In a palette a colour has the role it names, or else that of its position,
\* which counts every colour before it (properties.py 299-311).
PaletteByPosition ==
    given.what = "palette" /\ made.done =>
      LET colors == given.colors
          roles == made.value
      IN  \A i \in DOMAIN colors :
            /\ colors[i].tag = "colorrole" => roles[i] = colors[i].role
            /\ colors[i].tag = "color" =>
                 \A j \in 1..(i - 1) : colors[j].tag = "color" => roles[i] - roles[j] = i - j

\* Each property is set once or not at all, up to the first that is not supported,
\* which is an error: what Designer leaves to the parser (margins, spacing) is not
\* set here, what needs the whole tree is set later and not before, a property of
\* the user is set by its name, and a line is sunken only if its shadow is not
\* given (properties.py 382-386, 409-498).
PropertiesSetOnce ==
    given.what = "widget" /\ made.done =>
      LET props == given.props
          calls == made.value.calls
          converted(i) == \/ props[i].stdset = 0
                          \/ props[i].name \notin {"margin", "buddy"}
          wrong == {i \in DOMAIN props : props[i].tag = "unknown" /\ converted(i)}
          times(call) == Cardinality({i \in DOMAIN calls : calls[i] = call})
          wanted(name) == Cardinality({i \in DOMAIN props : /\ props[i].name = name
                                                           /\ props[i].stdset = 1
                                                           /\ props[i].value # None
                                                           /\ \A j \in wrong : i < j})
      IN  /\ made.value.error = "" <=> wrong = {}
          /\ times(<<"set", "sunken">>) = 0 <=>
               \/ given.class # "Line" \/ wrong # {}
               \/ \E i \in DOMAIN props : props[i].name = "frameShadow"
          /\ \A name \in {"currentIndex", "value", "margin", "buddy"} :
               times(<<"set", name>>) = 0
          /\ \A name \in {"frameShadow", "text"} : times(<<"set", name>>) = wanted(name)
          /\ times(<<"delayed", "currentIndex">>) = wanted("currentIndex")
          /\ times(<<"delayed", "buddy">>) = wanted("buddy")

\* Whatever the order of its parts, the custom widgets of a file are known
\* before its widgets are made, and these are there before they are connected
\* (uiparser.py 1003-1018); only a file that cannot be named is an error.
PartsInOrder ==
    given.what = "file" /\ made.done =>
      LET els == given.elements
          file == made.value
          at(tag) == SelectInSeq(file.order, LAMBDA t : t = tag)
          before(a, b) == at(a) # 0 /\ at(b) # 0 => at(a) < at(b)
      IN  /\ file.error = "" => /\ file.class # None
                                /\ before("customwidgets", "widget")
                                /\ before("widget", "connections")
                                /\ before("widget", "tabstops")
                                /\ Range(file.order) = {el.tag : el \in Range(els)} \ {"class"}
          /\ file.error # "" /\ given.version = "4.0" =>
               \A i \in DOMAIN els :
                 els[i].tag \in {"class", "widget"} /\ els[i].value # None =>
                   \E j \in (i + 1)..Len(els) : els[j].tag = els[i].tag

\* Margins, spacing, palettes, properties and the parts of a file are what the
\* file says, whatever is missing in it and in whatever order it is.
ValuesAsWritten ==
    MarginsPreferred /\ SpacingApplied /\ PaletteByPosition /\ PropertiesSetOnce /\ PartsInOrder
=============================================================================
