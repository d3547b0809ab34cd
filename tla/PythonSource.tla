---------------------------- MODULE PythonSource ----------------------------
(***************************************************************************)
(* What pylupdate6 finds in a Python source file: the calls of tr(),       *)
(* translate() and the NOOP functions, and the comments for translators    *)
(* (lupdate/python_source.py).                                             *)
(*                                                                         *)
(* The visitor of the syntax tree goes through the file in the order of    *)
(* its lines; then the file is read again as tokens.  A class is known by  *)
(* the names of the classes around it and its own.  A string is its text;  *)
(* NoneNode is the literal None and OtherNode any other expression.        *)
(***************************************************************************)
EXTENDS Integers, SequencesExt

CONSTANTS
    ClassNames,
    CallLines,      \* the calls of a line, [function, method, args, keywords]; each has the
                    \* next one as an argument
    NoneNode, OtherNode,
    MaxSourceLines, \* bound: lines of the file
    MaxNested       \* bound: classes in each other

VARIABLES
    text,       \* the lines: [calls, within, comment, open]
    stack,      \* Visitor._context_stack; class is the name of the class itself
    contexts,   \* SourceFile.contexts
    scanned     \* the tokens have been read

scanVars == <<text, stack, contexts, scanned>>

ScanInit ==
    /\ text = << >> /\ stack = << >> /\ contexts = << >>
    /\ scanned = FALSE

NoComments == [extras |-> << >>, id |-> 0]

-----------------------------------------------------------------------------
(* The arguments of a call; << >> if they cannot be used.                  *)

GetStr(node, allowNone) ==
    CASE node = NoneNode -> IF allowNone THEN <<"">> ELSE << >>
      [] node = OtherNode -> << >>
      [] OTHER -> <<node>>

\* keywords is a function from the names to the nodes.
Disambiguation(args, keywords) ==
    IF Len(args) > 1 THEN GetStr(args[2], TRUE)
    ELSE IF "disambiguation" \in DOMAIN keywords THEN GetStr(keywords["disambiguation"], TRUE)
    ELSE <<"">>

\* The name n is looked for among nodes, none of which is equal to it.
Numerus(args, keywords) == Len(args) > 2

ParseWithoutContext(args, keywords) ==
    IF args = << >> \/ Len(args) > 3 \/ GetStr(args[1], FALSE) = << >>
         \/ Disambiguation(args, keywords) = << >>
      THEN << >>
      ELSE <<[source |-> args[1], disambiguation |-> Disambiguation(args, keywords)[1],
              numerus |-> Numerus(args, keywords)]>>

ParseNoop(args, keywords) ==
    IF Len(args) # 1 \/ DOMAIN keywords # {} \/ GetStr(args[1], FALSE) = << >> THEN << >>
    ELSE <<[source |-> args[1], disambiguation |-> "", numerus |-> FALSE]>>

Parse(call, args) ==
    IF call.function \in {"tr", "translate"} THEN ParseWithoutContext(args, call.keywords)
    ELSE ParseNoop(args, call.keywords)

-----------------------------------------------------------------------------
(* The visitor.  file is [stack, contexts].                                *)

AddTo(context, message) == [context EXCEPT !.messages = Append(@, message)]

\* _get_current_context().
Current(s) == Len(s)

\* tr() and QT_TR_NOOP() need a class.
InClass(file, message) ==
    IF file.stack = << >> THEN file
    ELSE [file EXCEPT !.stack[Current(file.stack)] = AddTo(@, message)]

\* translate() and QT_TRANSLATE_NOOP() name a context, which is created even if
\* there is no message for it.
InContext(file, name, messages) ==
    LET at == SelectInSeq(file.contexts, LAMBDA c : c.name = name)
        new == [name |-> name, messages |-> messages]
    IN  IF at = 0 THEN [file EXCEPT !.contexts = Append(@, new)]
        ELSE [file EXCEPT !.contexts[at].messages = @ \o messages]

\* tr() and translate() may be methods, the NOOP functions may not.
Translates(call) == call.method => call.function \in {"tr", "translate"}

VisitCall(file, call, line) ==
    LET named == call.function \in {"translate", "QT_TRANSLATE_NOOP"}
        args == IF named /\ call.args # << >> THEN Tail(call.args) ELSE call.args
        parsed == Parse(call, args)
        messages == IF parsed[1].source = "" THEN << >>
                    ELSE <<[source |-> parsed[1].source, numerus |-> parsed[1].numerus,
                            disambiguation |-> parsed[1].disambiguation, line |-> line,
                            comments |-> NoComments]>>
        usable == /\ Translates(call) /\ parsed # << >>
                  /\ named => call.args # << >> /\ GetStr(call.args[1], FALSE) # << >>
    IN  IF ~ usable THEN file
        ELSE IF named THEN InContext(file, <<call.args[1]>>, messages)
        ELSE IF messages = << >> THEN file
        ELSE InClass(file, messages[1])

\* A line of code or of a comment.  An open line goes on in the next one, which has no calls.
VisitLine(calls, comment, open) ==
    LET line == Len(text) + 1
        written == [calls |-> calls, within |-> [i \in DOMAIN stack |-> stack[i].class],
                    comment |-> comment, open |-> open, code |-> calls # << >>]
        file == FoldLeft(LAMBDA f, call : VisitCall(f, call, line),
                         [stack |-> stack, contexts |-> contexts], calls)
    IN  /\ ~ scanned /\ line + (IF open THEN 1 ELSE 0) <= MaxSourceLines
        /\ open => calls # << >>
        /\ text' = Append(text, written)
                   \o IF open THEN <<[written EXCEPT !.calls = << >>, !.open = FALSE]>> ELSE << >>
        /\ stack' = file.stack /\ contexts' = file.contexts
        /\ UNCHANGED scanned

\* visit_ClassDef().
VisitClass(name) ==
    LET outer == IF stack = << >> THEN << >> ELSE Last(stack).name
    IN  /\ ~ scanned /\ Len(stack) < MaxNested /\ Len(text) < MaxSourceLines
        /\ stack' = Append(stack, [class |-> name, name |-> Append(outer, name), messages |-> << >>])
        /\ text' = Append(text, [calls |-> << >>, within |-> << >>, comment |-> "none", open |-> FALSE,
                                 code |-> TRUE])
        /\ UNCHANGED <<contexts, scanned>>

EndClass ==
    /\ stack # << >>
    /\ stack' = Front(stack)
    /\ contexts' = IF Last(stack).messages = << >> THEN contexts
                   ELSE Append(contexts, [name |-> Last(stack).name, messages |-> Last(stack).messages])
    /\ UNCHANGED <<text, scanned>>

-----------------------------------------------------------------------------
(* The tokens.                                                             *)

Tokens ==
    FlattenSeq([n \in DOMAIN text |->
      LET t == text[n]
          token(is) == <<[is |-> is, line |-> n]>>
      IN  (IF t.code THEN token("code") ELSE << >>)
          \o (IF t.comment = "none" THEN << >> ELSE token(t.comment))
          \o (IF t.code /\ ~ t.open THEN token("code") ELSE token("NL"))])

\* The first message of the line, in the first context that has one.
Commented(cs, line, comments) ==
    LET on(c) == SelectInSeq(c.messages, LAMBDA m : m.line = line)
        at == SelectInSeq(cs, LAMBDA c : on(c) # 0)
    IN  IF at = 0 THEN cs ELSE [cs EXCEPT ![at].messages[on(cs[at])].comments = comments]

\* A fault: comments wait for a line with a message.
Waiting(s, found) == IF found = s.contexts THEN s.current ELSE NoComments

\* Comments are for the next line with code, whatever it is.
Taken(s, found) == NoComments

ReadToken(s, token) ==
    CASE token.is = "extra" -> [s EXCEPT !.current.extras = Append(@, token.line)]
      [] token.is = "id" -> [s EXCEPT !.current.id = token.line]
      [] token.is \in {"plain", "NL"} \/ (token.is = "code" /\ s.current = NoComments) -> s
      [] OTHER -> LET found == Commented(s.contexts, token.line, s.current)
                  IN  [contexts |-> found, current |-> Taken(s, found)]

ReadTokens ==
    /\ stack = << >> /\ ~ scanned
    /\ contexts' = FoldLeft(ReadToken, [contexts |-> contexts, current |-> NoComments], Tokens).contexts
    /\ scanned' = TRUE
    /\ UNCHANGED <<text, stack>>

ScanNext ==
    \/ \E calls \in CallLines, comment \in {"none", "extra"}, open \in BOOLEAN :
         VisitLine(calls, comment, open)
    \/ \E comment \in {"none", "plain", "extra", "id"} : VisitLine(<< >>, comment, FALSE)
    \/ \E name \in ClassNames : VisitClass(name)
    \/ EndClass \/ ReadTokens

-----------------------------------------------------------------------------
(* Properties.                                                             *)

\* What a call that is written in a line says, by the signatures of the
\* functions: << >> or its context, source and disambiguation.
Says(call, within) ==
    LET named == call.function \in {"translate", "QT_TRANSLATE_NOOP"}
        first == IF named THEN 2 ELSE 1
        n == Len(call.args)
        said(i) == IF i <= n THEN call.args[i]
                   ELSE IF "disambiguation" \in DOMAIN call.keywords THEN call.keywords["disambiguation"]
                   ELSE ""
        texts == \A i \in 1..first : i <= n /\ call.args[i] \notin {NoneNode, OtherNode}
        usable == IF call.function \in {"tr", "translate"}
                    THEN n <= first + 2 /\ said(first + 1) # OtherNode
                    ELSE n = first /\ DOMAIN call.keywords = {}
        function == call.method => call.function \notin {"QT_TR_NOOP", "QT_TRANSLATE_NOOP"}
    IN  IF texts /\ usable /\ function /\ (named \/ within # << >>) /\ call.args[first] # ""
          THEN <<[context |-> IF named THEN <<call.args[1]>> ELSE within, source |-> call.args[first],
                  disambiguation |-> IF said(first + 1) = NoneNode THEN "" ELSE said(first + 1)]>>
          ELSE << >>

Found == UNION {{[context |-> contexts[i].name, at |-> <<i, j>>, message |-> contexts[i].messages[j]] :
                   j \in DOMAIN contexts[i].messages} : i \in DOMAIN contexts}

\* Each call that can be used gives one message of the class around it, with the
\* names of the classes around that one, or of the context that it names; no
\* other does, whatever is in it and around it (189-232).
MessagesFound ==
    stack = << >> =>
      LET said == FlattenSeq([n \in DOMAIN text |->
                    FlattenSeq([k \in DOMAIN text[n].calls |->
                      LET s == Says(text[n].calls[k], text[n].within)
                      IN  IF s = << >> THEN << >> ELSE <<<<n, s[1]>>>>])])
          found == {<<f.message.line, [context |-> f.context, source |-> f.message.source,
                                       disambiguation |-> f.message.disambiguation]>> : f \in Found}
      IN  found = Range(said) /\ Cardinality(Found) = Len(said)

\* A comment reaches a message of the line that it is on or of the next line
\* with code, never of a later one, and none of these is lost if the line has a
\* message, but for those that are replaced by others at the end of the line
\* (115-158).
CommentsNear ==
    scanned =>
      LET lineHas(n) == {f \in Found : f.message.line = n}
          marks == {"extra", "id"}
          near(from, n) == from = n \/ (from < n /\ \A k \in from..(n - 1) : ~ text[k].code)
          got(f) == Range(f.message.comments.extras) \cup ({f.message.comments.id} \ {0})
      IN  /\ \A f \in Found, from \in DOMAIN text :
               from \in got(f) => text[from].comment \in marks /\ near(from, f.message.line)
          /\ \A n \in DOMAIN text : lineHas(n) # {} =>
               LET own == {n} \cap {k \in DOMAIN text : text[k].comment \in marks /\ ~ text[k].open}
                   above == {k \in 1..(n - 1) : near(k, n) /\ text[k].comment = "extra"}
                   wanted == IF own # {} THEN own ELSE above
               IN  \E f \in lineHas(n) : wanted \subseteq got(f)

\* What is found in a file is what is written in it, with its comments.
SourceRead == MessagesFound /\ CommentsNear

\* "Parse arguments for a message source and optional disambiguation and n"
\* (python_source.py 310-312): n makes a message one with plural forms.
NumerusKnown ==
    stack = << >> =>
      \A n \in DOMAIN text : \A k \in DOMAIN text[n].calls :
        LET call == text[n].calls[k]
            s == Says(call, text[n].within)
        IN  s # << >> /\ "n" \in DOMAIN call.keywords =>
              \E f \in Found : f.message.line = n /\ f.context = s[1].context
                               /\ f.message.source = s[1].source /\ f.message.numerus
=============================================================================
