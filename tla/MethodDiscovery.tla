--------------------------- MODULE MethodDiscovery ---------------------------
(***************************************************************************)
(* tbf/utils.py: find_nondet_methods, which decides for which methods the  *)
(* harness and the generators get a stub.  The program, preprocessed by    *)
(* gcc -E, goes line by line through _rewrite_cproblems, which removes     *)
(* what pycparser cannot parse.  From the AST the undefined methods are    *)
(* collected; if parsing fails, or with --svcomp-nondets, the program text *)
(* is searched for calls of __VERIFIER_nondet methods instead.             *)
(*                                                                         *)
(* A line is a sequence of tokens: whole declarations ("items"), pieces of *)
(* __attribute__((...)), and the asm and struct lines that get a special   *)
(* treatment and fill a line.  The preprocessor has removed all comments,  *)
(* so in_cxx_comment is left out.  Plain replacements of GCC's keywords    *)
(* are left out, too.                                                      *)
(***************************************************************************)
EXTENDS Integers, Sequences, SequencesExt, Functions, FiniteSets

CONSTANTS
    Names,         \* the method names of the program
    NondetNames,   \* those that begin with __VERIFIER_nondet_
    IMPLICIT_FUNCTIONS,
    ErrorName,     \* __VERIFIER_error
    Lines,         \* the lines that are considered
    MaxLines       \* bound on the length of the program

ASSUME NamesAssumption ==
    /\ NondetNames \subseteq Names
    /\ IMPLICIT_FUNCTIONS \subseteq Names \ NondetNames
    /\ ErrorName \in Names \ (NondetNames \cup IMPLICIT_FUNCTIONS)
    /\ MaxLines \in Nat

\* Items: "prototype" f(void); "callback" f(void (*)(void)); "definition" f() {...};
\* "pointer" (*f)(void); "typedef" f(void); "call" is main() { f(); }.
ItemKinds == {"prototype", "callback", "definition", "pointer", "typedef", "call"}
\* "simple" is an attribute without parentheses inside; "open" and "close" are
\* __attribute__(( and )) of another one.
Marks == {"simple", "open", "close", "asm", "asm_open", "asm_close", "struct_open", "member",
          "struct_close"}

NoName == "-"
Tokens == [kind : ItemKinds, name : Names] \cup [kind : Marks, name : {NoName}]
Mark(kind)    == [kind |-> kind, name |-> NoName]

Items         == [kind : ItemKinds, name : Names]
IsItem(token) == token.kind \in ItemKinds

\* The marks that fill a line.
FullLines == {"asm", "asm_open", "asm_close", "struct_open", "member", "struct_close"}

\* A call or a definition with no declaration before it in its line.
IsAtLineStart(line, i) ==
    line[i].kind \in {"call", "definition"} =>
        \A j \in 1..(i - 1) : line[j].kind \notin {"prototype", "callback", "pointer", "typedef"}

\* No declaration stands before a call or a definition in its line.
ASSUME LinesAssumption ==
    \A line \in Lines :
        /\ line \in Seq(Tokens)
        /\ \A i \in DOMAIN line :
            /\ line[i].kind \in FullLines => Len(line) = 1
            /\ IsAtLineStart(line, i)

VARIABLES
    svcomp_only,       \* --svcomp-nondets
    excludes,          \* error_method_exclude
    length,            \* lines that were read
    context,           \* what the next line of the program is inside of
    in_attribute,
    need_struct_body,
    skip_asm,
    prepared_content,
    methods,           \* the names of the result, once there is one
    done,
    items,             \* history: the items of the program
    ambiguous,         \* history: a line was ambiguous
    long               \* history: a line both began and ended in an attribute

scanner == <<in_attribute, need_struct_body, skip_asm, prepared_content>>
vars == <<svcomp_only, excludes, length, context, scanner, methods, done, items, ambiguous, long>>

Contexts == {"code", "attribute", "asm", "struct"}

\* Every variable stays in its domain.  A line of an asm statement never gets through.
TypeOK ==
    /\ svcomp_only \in BOOLEAN
    /\ excludes \in {{}, {ErrorName}}
    /\ length \in 0..MaxLines
    /\ context \in Contexts
    /\ in_attribute \in BOOLEAN /\ need_struct_body \in BOOLEAN /\ skip_asm \in BOOLEAN
    /\ prepared_content \in Seq(Tokens)
    /\ \A i \in DOMAIN prepared_content :
        prepared_content[i].kind \notin {"simple", "asm", "asm_open", "asm_close"}
    /\ methods \in Seq(Names)
    /\ done \in BOOLEAN
    /\ items \in Seq(Items)
    /\ ambiguous \in BOOLEAN /\ long \in BOOLEAN

Init ==
    /\ svcomp_only \in BOOLEAN
    /\ excludes \in {{}, {ErrorName}}
    /\ length = 0
    /\ context = "code"
    /\ in_attribute = FALSE /\ need_struct_body = FALSE /\ skip_asm = FALSE
    /\ prepared_content = <<>>
    /\ methods = <<>>
    /\ done = FALSE
    /\ items = <<>>
    /\ ambiguous = FALSE /\ long = FALSE

-----------------------------------------------------------------------------
(* C programs *)

\* The tokens that can stand in a context, and the one a token leads to.
Allowed(c) ==
    CASE c = "code"      -> ItemKinds \cup {"simple", "open", "asm", "asm_open", "struct_open"}
      [] c = "attribute" -> {"close"}
      [] c = "asm"       -> {"asm_close"}
      [] c = "struct"    -> {"member", "struct_close"}

After(token) ==
    CASE token.kind = "open"                       -> "attribute"
      [] token.kind = "asm_open"                   -> "asm"
      [] token.kind \in {"struct_open", "member"} -> "struct"
      [] OTHER                                     -> "code"

\* What the first n tokens of a line lead to from a context.
ContextAfter(c, line, n) == IF n = 0 THEN c ELSE After(line[n])

IsProgramLine(c, line) ==
    \A i \in DOMAIN line : line[i].kind \in Allowed(ContextAfter(c, line, i - 1))

\* Two closing parentheses end this token or are inside of it.
HasParens(token) == token.kind \in {"close", "callback"}

\* The part of a sequence that is in a set.
Only(seq, S) ==
    LET from[n \in 0..Len(seq)] ==
            IF n = 0 THEN <<>>
            ELSE IF seq[n] \in S THEN Append(from[n - 1], seq[n]) ELSE from[n - 1]
    IN from[Len(seq)]

WithoutSimple(line) == Only(line, {token \in Tokens : token.kind # "simple"})

\* An item after an attribute, with two closing parentheses after or in it: no regular
\* expression can tell that they do not end the attribute.
Ambiguous(line) ==
    LET rest == WithoutSimple(line)
    IN \E i, j \in DOMAIN rest :
        /\ i <= j
        /\ IsItem(rest[i])
        /\ HasParens(rest[j])
        /\ \E h \in 1..(i - 1) : rest[h].kind \in {"open", "close"}

-----------------------------------------------------------------------------
(* _rewrite_cproblems *)

Without(line, from, to) == SubSeq(line, 1, from - 1) \o SubSeq(line, to + 1, Len(line))

\* The last place where the regular expression .*\)\) can end, or 0.
LastParens(line) ==
    LET at == {i \in DOMAIN line : HasParens(line[i])}
    IN CHOOSE j \in at \cup {0} : \A i \in at : i <= j

\* The first __attribute__((, or a place after the line.
FirstOpen(line) ==
    LET at == {i \in DOMAIN line : line[i].kind = "open"}
    IN CHOOSE j \in at \cup {Len(line) + 1} : \A i \in at : j <= i

\* The two substitutions that remove whole attributes.
WithoutAttributes(line) ==
    LET rest == WithoutSimple(line)
    IN IF FirstOpen(rest) < LastParens(rest)
       THEN Without(rest, FirstOpen(rest), LastParens(rest)) ELSE rest

OpensAttribute(rest) == FirstOpen(rest) <= Len(rest)

\* Mutant of AfterAttribute: the line an attribute begins on is dropped.
AfterAttributeDrop(rest) ==
    CASE OpensAttribute(rest) -> <<>>
      [] ~OpensAttribute(rest) /\ in_attribute -> Without(rest, 1, LastParens(rest))
      [] OTHER -> rest

\* The beginning of an attribute that goes on in the next line, or the end of one that
\* began in the line before, is cut off.
AfterAttribute(rest) ==
    CASE OpensAttribute(rest) -> SubSeq(rest, 1, FirstOpen(rest) - 1)
      [] ~OpensAttribute(rest) /\ in_attribute -> Without(rest, 1, LastParens(rest))
      [] OTHER -> rest

\* Mutant of WithDummy: no member is put in.
NoDummy(rest) == rest

\* A struct without members gets one.
WithDummy(rest) ==
    IF need_struct_body /\ rest = <<Mark("struct_close")>>
    THEN <<Mark("member")>> \o rest ELSE rest

NeedsBody(rest) ==
    IF need_struct_body THEN rest = <<>> ELSE rest = <<Mark("struct_open")>>

OpensAsm(line) == line # <<>> /\ Head(line).kind = "asm_open"

\* Mutant of ClosesAsm: a skipped line that is no end ends the skipping.
ClosesAsmAnywhere(line) == skip_asm

\* The line ends with a parenthesis and a semicolon.
ClosesAsm(line) ==
    /\ skip_asm
    /\ line # <<>>
    /\ Last(line).kind \in {"asm", "asm_close", "prototype", "callback", "pointer", "typedef"}

SkipsAsm(line) == OpensAsm(line) \/ (skip_asm /\ ~ClosesAsm(line))

WithoutAsm(line) ==
    IF SkipsAsm(line) \/ ClosesAsm(line) \/ line = <<Mark("asm")>> THEN <<>> ELSE line

Rewrite(line) ==
    LET rest == AfterAttribute(WithoutAttributes(line))
        body == WithDummy(rest)
    IN /\ in_attribute' = OpensAttribute(WithoutAttributes(line))
       /\ need_struct_body' = NeedsBody(rest)
       /\ skip_asm' = SkipsAsm(body)
       /\ prepared_content' = prepared_content \o WithoutAsm(body)

\* The next line of a program that goes through the loop.
ReadLine(line) ==
    /\ ~done
    /\ length < MaxLines
    /\ IsProgramLine(context, line)
    /\ length' = length + 1
    /\ context' = ContextAfter(context, line, Len(line))
    /\ items' = items \o Only(line, Items)
    /\ ambiguous' = (ambiguous \/ Ambiguous(line))
    /\ long' = (long \/ (context = "attribute" /\ context' = "attribute"))
    /\ Rewrite(line)
    /\ UNCHANGED <<svcomp_only, excludes, methods, done>>

-----------------------------------------------------------------------------
(* find_nondet_methods *)

\* pycparser fails on pieces of an attribute and on a struct without members.
ParseError ==
    \/ \E i \in DOMAIN prepared_content : prepared_content[i].kind \in {"open", "close"}
    \/ \E i \in DOMAIN prepared_content :
        /\ i + 1 \in DOMAIN prepared_content
        /\ prepared_content[i].kind = "struct_open"
        /\ prepared_content[i + 1].kind = "struct_close"

\* The nodes of pycparser's AST on the way from an item down to its name.
Nodes(kind) ==
    CASE kind \in {"prototype", "callback"} -> <<"Decl", "FuncDecl", "TypeDecl">>
      [] kind = "definition"                -> <<"FuncDef", "Decl", "FuncDecl", "TypeDecl">>
      [] kind = "pointer"                   -> <<"Decl", "PtrDecl", "FuncDecl", "TypeDecl">>
      [] kind = "typedef"                   -> <<"Typedef", "FuncDecl", "TypeDecl">>

\* Mutant of IsFuncDecl: the collector follows pointers and typedefs.
IsAnyFuncDecl(token) == IsItem(token) /\ token.kind # "call"

\* FuncDeclCollector gets to a FuncDecl without passing a PtrDecl or a Typedef.
IsFuncDecl(token) ==
    /\ IsItem(token) /\ token.kind # "call"
    /\ LET nodes == Nodes(token.kind)
       IN \E i \in DOMAIN nodes : /\ nodes[i] = "FuncDecl"
                                  /\ \A j \in 1..i : nodes[j] \notin {"PtrDecl", "Typedef"}

\* FuncDefCollector
IsFuncDef(token) == token.kind = "definition"

get_names(tokens) == [i \in DOMAIN tokens |-> tokens[i].name]

FuncDecls == {token \in Items : IsFuncDecl(token)}
FuncDefs  == {token \in Items : IsFuncDef(token)}

\* The names of a sequence, each once, in the order of their first occurrence.
FirstOnly(names) ==
    LET from[n \in 0..Len(names)] ==
            IF n = 0 THEN <<>>
            ELSE LET before == from[n - 1]
                 IN IF names[n] \in ToSet(before) THEN before ELSE Append(before, names[n])
    IN from[Len(names)]

_definitions ==
    ToSet(get_names(Only(prepared_content, FuncDefs))) \cup IMPLICIT_FUNCTIONS \cup excludes

_find_undefined_methods ==
    FirstOnly(Only(get_names(Only(prepared_content, FuncDecls)), Names \ _definitions))

\* The text has the name with an empty pair of parentheses: in calls and definitions.
\* (No prototype stands before them in the line, or the match would begin with it.)
IsNondetMatch(token) ==
    token.kind \in {"call", "definition"} /\ token.name \in NondetNames

NondetMatches == {token \in Items : IsNondetMatch(token)}

_find_nondet_methods ==
    SetToSeq(ToSet(get_names(Only(items, NondetMatches))) \ excludes)
    \o (IF ErrorName \in excludes THEN <<>> ELSE <<ErrorName>>)

\* Mutant of find_nondet_methods: a program that cannot be parsed has no methods.
find_nothing_unparsed ==
    CASE svcomp_only -> _find_nondet_methods
      [] ~svcomp_only /\ ParseError -> <<>>
      [] OTHER -> _find_undefined_methods

find_nondet_methods ==
    IF svcomp_only \/ ParseError THEN _find_nondet_methods ELSE _find_undefined_methods

\* The end of the program.
Discover ==
    /\ ~done
    /\ context = "code"
    /\ done' = TRUE
    /\ methods' = find_nondet_methods
    /\ UNCHANGED <<svcomp_only, excludes, length, context, scanner, items, ambiguous, long>>

Next == (\E line \in Lines : ReadLine(line)) \/ Discover

Spec == Init /\ [][Next]_vars

-----------------------------------------------------------------------------
(* Properties *)

\* Whatever the scanner removes, across however many lines, it keeps every declaration, in
\* order, unless a line is ambiguous (_rewrite_cproblems, greedy regular expressions).
DeclarationsAreKept ==
    ~ambiguous => Only(prepared_content, Items) = items

\* The program is parsed, and no stub is guessed from its text, if no attribute is spread
\* over more than two lines and no line ends one attribute and begins another.
RewrittenCanBeParsed ==
    (context = "code" /\ ~long) => ~ParseError

\* A parsed program gets a stub for every method it declares and does not define, once
\* however often it is declared, and none for anything else nor for the error method, which
\* the harness defines: a second definition would not compile, a missing one not link.
\* Programs with an ambiguous line, from which the scanner may have removed declarations,
\* are left out (_find_undefined_methods).
StubsAreTheUndefined ==
    /\ IsInjective(methods) /\ ToSet(methods) \cap excludes = {}
    /\ (done /\ ~svcomp_only /\ ~ParseError /\ ~ambiguous) =>
        ToSet(methods) =
            {items[i].name : i \in {j \in DOMAIN items :
                                        items[j].kind \in {"prototype", "callback"}}}
            \ ({items[i].name : i \in {j \in DOMAIN items : items[j].kind = "definition"}}
               \cup IMPLICIT_FUNCTIONS \cup excludes)

\* Also if parsing fails, a nondeterministic method that is declared, called and not
\* defined has a stub.
CalledHaveStubs ==
    (done /\ ~ambiguous) =>
        \A n \in NondetNames :
            (/\ [kind |-> "call", name |-> n] \in ToSet(items)
             /\ [kind |-> "prototype", name |-> n] \in ToSet(items)
             /\ [kind |-> "definition", name |-> n] \notin ToSet(items)) => n \in ToSet(methods)
-----------------------------------------------------------------------------
(* The inductive invariant *)

\* The flags tell what the next line is inside of; in_attribute does not after a line that
\* both began and ended in an attribute.
ScannerFollows ==
    /\ skip_asm <=> context = "asm"
    /\ in_attribute => context = "attribute"
    /\ (context = "attribute" /\ ~long) => in_attribute
    /\ need_struct_body => context = "struct"
    /\ need_struct_body <=> /\ prepared_content # <<>>
                            /\ Last(prepared_content).kind = "struct_open"

\* Nothing of an attribute is left over.
AttributesAreRemoved ==
    ~long => \A i \in DOMAIN prepared_content : prepared_content[i].kind \notin {"open", "close"}

\* No struct ends where it begins.
StructsHaveMembers ==
    \A i \in 1..(Len(prepared_content) - 1) :
        prepared_content[i].kind = "struct_open" => prepared_content[i + 1].kind # "struct_close"

\* Nothing that pycparser cannot parse gets through, as the flags always tell of the next
\* line what it is inside of; so no declaration is lost, and the stubs are the right ones.
DiscoveryInv ==
    /\ TypeOK
    /\ ScannerFollows
    /\ AttributesAreRemoved
    /\ StructsHaveMembers
    /\ DeclarationsAreKept
    /\ StubsAreTheUndefined
    /\ CalledHaveStubs
=============================================================================
