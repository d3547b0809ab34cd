-------------------------- MODULE TranslationFile --------------------------
(***************************************************************************)
(* The life of a .ts file: developers edit the source files, pylupdate6    *)
(* brings the .ts file up to date with them and a translator fills it in   *)
(* with Linguist (lupdate/translation_file.py).                            *)
(*                                                                         *)
(* The .ts file is a list of message elements for each context.  comment   *)
(* stands for all that _find_message() compares beside the source text:    *)
(* the comment, the extra comments and the extra fields.  An update reads  *)
(* everything before it writes anything and nobody edits a file while it   *)
(* runs, so it is a single step.                                           *)
(***************************************************************************)
EXTENDS Naturals, FiniteSets, SequencesExt

CONSTANTS
    Contexts,   \* the names of the contexts, in the order they are sorted
    Sources,    \* source texts
    Comments,
    Emptied,    \* those with an extra field, or extra comment, that has no value
    Messages,   \* the messages that developers write
    Texts,      \* translations
    NoText,     \* an empty <translation>
    Files,      \* the source files in the order they are read
    MaxLines,   \* bound: messages of a source file
    MaxElements \* bound: elements of a context in the .ts file

ASSUME MessagesAssumption ==
    Messages \subseteq [context : Range(Contexts), source : Sources,
                        comment : Comments]
ASSUME EmptiedAssumption == Emptied \subseteq Comments
ASSUME NoTextAssumption == NoText \notin Texts
ASSUME BoundAssumption == MaxLines \in Nat /\ MaxElements \in Nat

VARIABLES
    code,   \* the messages of each source file; a line is a position in it
    disk,   \* the message elements of each context in the .ts file
    fresh   \* nothing was edited since the last update

vars == <<code, disk, fresh>>

Name == Range(Contexts)
Location == Range(Files) \X (1..MaxLines)
Element == [source : Sources, comment : Comments, text : Texts \cup {NoText},
            type : {"finished", "unfinished", "vanished"},
            locations : Seq(Location)]

\* A message whose elements are found again when they have been written.
Known(m) == m.comment \notin Emptied

\* No context has two elements for one message that is known, or an element that
\* is left unfinished for ever: without a text and yet finished or vanished.
TypeOK ==
    /\ code \in [Range(Files) -> BoundedSeq(Messages, MaxLines)]
    /\ disk \in [Name -> Seq(Element)]
    /\ fresh \in BOOLEAN
    /\ \A c \in Name :
         /\ \A i, j \in DOMAIN disk[c] :
              /\ Known(disk[c][i])
              /\ disk[c][i].source = disk[c][j].source
              /\ disk[c][i].comment = disk[c][j].comment
              => i = j
         /\ \A i \in DOMAIN disk[c] :
              disk[c][i].type # "unfinished" => disk[c][i].text # NoText

Init ==
    /\ code = [f \in Range(Files) |-> << >>]
    /\ disk = [c \in Name |-> << >>]
    /\ fresh = FALSE

-----------------------------------------------------------------------------
(* Reading the .ts file.                                                   *)

\* The translation a new message starts with: the last one in the file for
\* its source text, whatever its context or comment.
Existing(ts, source) ==
    LET all == FlattenSeq([i \in DOMAIN Contexts |-> ts[Contexts[i]]])
        translated == SelectSeq(all, LAMBDA el :
                                       el.source = source /\ el.text # NoText)
    IN  IF translated = << >> THEN NoText ELSE Last(translated).text

-----------------------------------------------------------------------------
(* Updating from a source file.  An update has the elements of the .ts     *)
(* file that were not found in the sources yet (old) and the others (new). *)

IsFor(el, m) == el.source = m.source /\ el.comment = m.comment

\* The place of the element for a message, 0 if there is none.
FindMessage(m, els) == SelectInSeq(els, LAMBDA el : IsFor(el, m))

\* What was read from a .ts file has None for an empty value, which no message has.
FindRead(m, els) == IF Known(m) THEN FindMessage(m, els) ELSE 0

\* A fault: a new message that gets an existing translation is finished.
MakeElementDone(m, text) ==
    [source |-> m.source, comment |-> m.comment, text |-> text,
     type |-> IF text = NoText THEN "unfinished" ELSE "finished",
     locations |-> << >>]

MakeElement(m, text) ==
    [source |-> m.source, comment |-> m.comment, text |-> text,
     type |-> "unfinished", locations |-> << >>]

\* A fault: the element keeps the locations of the last update.
MovedAsIs(el) == el

\* An element that is found in the sources loses its old locations.
Moved(el) == [el EXCEPT !.locations = << >>]

\* A message that was obsolete is restored.
Revived(el) ==
    [el EXCEPT !.type = IF @ # "vanished" THEN @
                        ELSE IF el.text # NoText THEN "finished"
                        ELSE "unfinished"]

Located(el, loc) == [el EXCEPT !.locations = <<loc>> \o @]

UpdateMessage(update, m, loc, text) ==
    LET c == m.context
        i == FindRead(m, update.old[c])
        j == FindMessage(m, update.new[c])
    IN  IF i # 0
          THEN [old |-> [update.old EXCEPT ![c] = RemoveAt(@, i)],
                new |-> [update.new EXCEPT ![c] =
                           Append(@, Located(Revived(Moved(update.old[c][i])), loc))]]
        ELSE IF j # 0
          THEN [update EXCEPT !.new[c][j] = Located(Revived(@), loc)]
        ELSE [update EXCEPT !.new[c] =
                Append(@, Located(MakeElement(m, text), loc))]

UpdateFile(update, f, ts) ==
    FoldLeftDomain(LAMBDA upd, line :
                     LET m == code[f][line]
                     IN  UpdateMessage(upd, m, <<f, line>>, Existing(ts, m.source)),
                   update, code[f])

-----------------------------------------------------------------------------
(* Writing the .ts file.                                                   *)

\* A fault: what is not in the sources is always discarded.
ObsoleteNone(els, noObsolete) == << >>

\* What becomes of the elements that were not found in the sources.
Obsolete(els, noObsolete) ==
    IF noObsolete THEN << >>
    ELSE LET translated == SelectSeq(els, LAMBDA el : el.text # NoText)
         IN  [i \in DOMAIN translated |->
                [translated[i] EXCEPT !.type = "vanished", !.locations = << >>]]

Updated(ts, noObsolete) ==
    LET start == [old |-> ts, new |-> [c \in Name |-> << >>]]
        update == FoldLeft(LAMBDA upd, f : UpdateFile(upd, f, ts), start, Files)
    IN  [c \in Name |-> update.new[c] \o Obsolete(update.old[c], noObsolete)]

-----------------------------------------------------------------------------
(* The developer adds a message to the end of a source file or removes one,*)
(* which moves the ones below it.                                          *)
AddMessage(f, m) ==
    /\ Len(code[f]) < MaxLines
    /\ code' = [code EXCEPT ![f] = Append(@, m)]
    /\ fresh' = FALSE
    /\ UNCHANGED disk

RemoveMessage(f, line) ==
    /\ code' = [code EXCEPT ![f] = RemoveAt(@, line)]
    /\ fresh' = FALSE
    /\ UNCHANGED disk

\* The translator enters a translation, and may mark it finished.  (Linguist
\* does not let obsolete messages be edited.)
Translate(c, i, text, type) ==
    /\ disk[c][i].type # "vanished"
    /\ disk' = [disk EXCEPT ![c][i].text = text, ![c][i].type = type]
    /\ fresh' = FALSE
    /\ UNCHANGED code

\* A run of pylupdate6, with or without --no-obsolete.
Lupdate(noObsolete) ==
    /\ disk' = Updated(disk, noObsolete)
    /\ \A c \in Name : Len(disk'[c]) <= MaxElements
    /\ fresh' = TRUE
    /\ UNCHANGED code

Edit ==
    \/ \E f \in Range(Files) : \/ \E m \in Messages : AddMessage(f, m)
                               \/ \E line \in DOMAIN code[f] : RemoveMessage(f, line)
    \/ \E c \in Name : \E i \in DOMAIN disk[c], text \in Texts,
                          type \in {"finished", "unfinished"} :
         Translate(c, i, text, type)

Next == Edit \/ \E noObsolete \in BOOLEAN : Lupdate(noObsolete)

Spec == Init /\ [][Next]_vars

-----------------------------------------------------------------------------
(* Properties.                                                             *)

Elements(ts, c) == Range(ts[c])

\* The places in the sources where a context has the message of el.
Places(c, el) ==
    {<<f, line>> \in Location :
       /\ line \in DOMAIN code[f]
       /\ code[f][line].context = c
       /\ IsFor(el, code[f][line])}

\* After an update the .ts file has the messages of the sources, each that is
\* known with all the places where it occurs and none of the places where it used
\* to be, and beside them only obsolete ones that are marked so (lines 123-166,
\* 173-197).
InSync ==
    fresh =>
      /\ \A c \in Name : \A el \in Elements(disk, c) :
           Known(el) =>
             /\ el.type = "vanished" <=> Places(c, el) = {}
             /\ Range(el.locations) = Places(c, el)
             /\ Len(el.locations) = Cardinality(Range(el.locations))
      /\ \A f \in Range(Files) : \A m \in Range(code[f]) :
           \E el \in Elements(disk, m.context) : IsFor(el, m) /\ el.type # "vanished"

\* An update with nothing to do changes nothing of the messages that are known:
\* neither their order nor a text or its state, so a .ts file under version
\* control is left alone (it "was unchanged", line 404).
Idempotent ==
    fresh => \A c \in Name : SelectSeq(Updated(disk, FALSE)[c], Known) = SelectSeq(disk[c], Known)

\* So does a file with any messages.
AnyIdempotent == fresh => Updated(disk, FALSE) = disk

\* No update without --no-obsolete loses or alters a translation (lines
\* 180-193).  If its message is known, one that is in use stays as finished as it
\* is, one that is not is kept as vanished, and one that is in use again is not
\* vanished any more (149-157): whether it had been finished is lost.
TranslationKept ==
    [][fresh' =>
         \/ \A c \in Name : \A el \in Elements(disk, c) :
              el.text # NoText =>
                \E kept \in Elements(disk', c) :
                  /\ IsFor(kept, el)
                  /\ kept.text = el.text
                  /\ Known(el) =>
                       CASE Places(c, el) = {} -> kept.type = "vanished"
                         [] el.type = "vanished" -> kept.type # "vanished"
                         [] OTHER -> kept.type = el.type
         \/ disk' # Updated(disk, FALSE)]_vars

\* What an update adds is for the translator to look at, even if it starts
\* with a translation of the same text elsewhere (lines 332-339).
NewIsUnfinished ==
    [][fresh' =>
         \A c \in Name : \A el \in Elements(disk', c) :
           (\A was \in Elements(disk, c) : ~ IsFor(el, was)) =>
             el.type = "unfinished"]_vars

\* An update loses no text of the translator and passes off none that it adds as
\* done.
TranslatorServed == TranslationKept /\ NewIsUnfinished

\* The .ts file has one element for each message that is known, is in step with
\* the sources, and stays as it is if there is nothing to do.
Consistent == TypeOK /\ InSync /\ Idempotent
=============================================================================
