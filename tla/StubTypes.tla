------------------------------ MODULE StubTypes ------------------------------
(***************************************************************************)
(* The types of the stubs.  For a function that the program declares and   *)
(* does not define, TBF writes a definition, and for that it needs the     *)
(* types of the declaration as text.  utils._prettify asks                 *)
(* ast_visitor.get_type for the text of every type, with a {} where the    *)
(* name of a parameter has to go, and utils.get_method_head puts them      *)
(* together and gives the parameters their names.                          *)
(*                                                                         *)
(* C writes a type around the name of what it declares, which get_type     *)
(* does for a few shapes only.  The stub goes into the file that holds the *)
(* declaration, so a head of another type does not compile.                *)
(*                                                                         *)
(* A type is a tree: a base type, a pointer, an array or a function.  A    *)
(* text is a sequence of tokens.  Volatile pointers to functions, sizes of *)
(* arrays, `restrict` and nameless structs are left out.                   *)
(***************************************************************************)
EXTENDS SequencesExt, FiniteSetsExt, Naturals

CONSTANT Declarations   \* the declared functions

VARIABLES decl,         \* the declaration at hand
          texts,        \* texts of the return type and the parameters so far
          head,         \* the head of the stub so far
          phase         \* "prettify", "head", "done" or "raised"

vars == <<decl, texts, head, phase>>

Base(name, quals) == [kind |-> "base", name |-> name, quals |-> quals]
Pointer(t, quals) == [kind |-> "pointer", to |-> t, quals |-> quals]
Array(t) == [kind |-> "array", of |-> t]
Function(t, params) == [kind |-> "function", ret |-> t, params |-> params]

Named(t) == [kind |-> "Decl", type |-> t]          \* a parameter with a name
Unnamed(t) == [kind |-> "Typename", type |-> t]    \* and one without
Ellipsis == [kind |-> "EllipsisParam"]

Names == {"int", "void"}
Quals == {"const", "volatile"}
Invalid == <<"Invalid">>

-----------------------------------------------------------------------------
(* The text of a type *)

\* What stands between the elements of a list of parameters.
Separated(list) ==
  FoldLeft(LAMBDA text, s : IF text = <<>> THEN s ELSE text \o <<",">> \o s,
           <<>>, list)

\* The qualifiers of the declaration's specifiers, which the parser notes at
\* the base type and at the Decl or Typename around it.
RECURSIVE Specifiers(_)
Specifiers(t) ==
  CASE t.kind = "base" -> t.quals
    [] t.kind = "pointer" -> Specifiers(t.to)
    [] t.kind = "array" -> Specifiers(t.of)
    [] t.kind = "function" -> Specifiers(t.ret)

\* Mutant of Qualified: the qualifiers go before the text whatever they are.
QualifiedInFront(text, quals) == SetToSeq(quals) \o text

\* The end of get_type: `const` goes behind the text, `volatile` before it.
Qualified(text, quals) ==
  LET behind == IF "const" \in quals THEN Append(text, "const") ELSE text
  IN  IF "volatile" \in quals THEN <<"volatile">> \o behind ELSE behind

\* ast_visitor.get_type.  A parameter of function type has no text: its node
\* has no declname, and get_type raises.
RECURSIVE get_type(_)
get_type(node) ==
  CASE node.kind = "base" -> Qualified(<<node.name>>, node.quals)
    [] node.kind = "EllipsisParam" -> <<"...">>
    [] node.kind = "Decl" ->
         Qualified(get_type(node.type), Specifiers(node.type) \ {"const"})
    [] node.kind = "Typename" ->
         Qualified(get_type(node.type), Specifiers(node.type))
    [] node.kind = "array" -> get_type(node.of) \o <<"{}", "[]">>
    [] node.kind = "function" -> Invalid
    [] node.kind = "pointer" /\ node.to.kind # "function" ->
         Qualified(Append(get_type(node.to), "*"), node.quals)
    [] node.kind = "pointer" /\ node.to.kind = "function" ->
         Qualified(get_type(node.to.ret) \o <<"(", "*", "{}", ")", "(">>
                     \o Separated([i \in DOMAIN node.to.params |->
                                     get_type(node.to.params[i])])
                     \o <<")">>,
                   node.quals)

\* get_name of a function: the walk to its name knows no arrays.
RECURSIVE HasName(_)
HasName(t) ==
  CASE t.kind = "base" -> TRUE
    [] t.kind = "pointer" -> HasName(t.to)
    [] t.kind = "array" -> FALSE
    [] t.kind = "function" -> HasName(t.ret)

\* _prettify: the return type first, then one parameter after the other.
NodeToPrettify ==
  IF texts = <<>> THEN decl.ret ELSE decl.params[Len(texts)]

Raises(node) == "Invalid" \in Range(get_type(node))

Prettify ==
  /\ phase = "prettify"
  /\ Len(texts) <= Len(decl.params)
  /\ IF HasName(decl.ret) /\ ~Raises(NodeToPrettify)
     THEN texts' = Append(texts, get_type(NodeToPrettify)) /\ phase' = phase
     ELSE phase' = "raised" /\ UNCHANGED texts
  /\ UNCHANGED <<decl, head>>

-----------------------------------------------------------------------------
(* The head of the stub *)

StartHead ==
  /\ phase = "prettify"
  /\ Len(texts) > Len(decl.params)
  /\ head' = texts[1] \o <<"name", "(">>
  /\ texts' = Tail(texts)
  /\ phase' = "head"
  /\ UNCHANGED decl

\* The comma of ', '.join.
WithParam(param) ==
  head \o (IF Last(head) = "(" /\ head[Len(head) - 1] = "name"
           THEN param ELSE <<",">> \o param)

Places(text) == Cardinality({i \in DOMAIN text : text[i] = "{}"})

Filled(text) ==
  [i \in DOMAIN text |-> IF text[i] = "{}" THEN "name" ELSE text[i]]

\* The body of the loop.  The format has one argument: a text with two places
\* raises an IndexError.
HeadParam ==
  /\ phase = "head"
  /\ texts # <<>>
  /\ LET pt == texts[1] IN
     IF "..." \in Range(pt)
     THEN head' = WithParam(<<"...">>) /\ phase' = phase
     ELSE IF pt = <<"void">>
     THEN UNCHANGED <<head, phase>>
     ELSE IF Places(pt) > 1
     THEN phase' = "raised" /\ UNCHANGED head
     ELSE /\ head' = WithParam(Filled(IF Places(pt) = 0
                                      THEN Append(pt, "{}") ELSE pt))
          /\ phase' = phase
  /\ texts' = Tail(texts)
  /\ UNCHANGED decl

\* Mutant of EndHead: the head is closed with parameters still to be written.
EndHeadEarly ==
  /\ phase = "head"
  /\ head' = Append(head, ")")
  /\ phase' = "done"
  /\ UNCHANGED <<decl, texts>>

EndHead ==
  /\ phase = "head"
  /\ texts = <<>>
  /\ head' = Append(head, ")")
  /\ phase' = "done"
  /\ UNCHANGED <<decl, texts>>

Init ==
  /\ decl \in Declarations
  /\ texts = <<>>
  /\ head = <<>>
  /\ phase = "prettify"

Next == Prettify \/ StartHead \/ HeadParam \/ EndHead

Spec == Init /\ [][Next]_vars

-----------------------------------------------------------------------------
(* What a text says in C: the reference get_type is compared with.  The    *)
(* text of a declaration is read from the outside to the name.             *)

\* Where the parenthesis is opened that the last token of s closes.
Opening(s) ==
  LET Depth(i) == Cardinality({j \in i..Len(s) : s[j] = ")"})
                    - Cardinality({j \in i..Len(s) : s[j] = "("})
  IN  Max({i \in DOMAIN s : s[i] = "(" /\ Depth(i) = 0})

\* The pieces of s between commas that no parenthesis encloses.
Pieces(s) ==
  LET Depth(i) == Cardinality({j \in 1..i : s[j] = "("})
                    - Cardinality({j \in 1..i : s[j] = ")"})
      cuts == {i \in DOMAIN s : s[i] = "," /\ Depth(i) = 0}
                \union {0, Len(s) + 1}
      cut == SetToSortSeq(cuts, <)
  IN  IF s = <<>> THEN <<>>
      ELSE [k \in 1..(Len(cut) - 1) |-> SubSeq(s, cut[k] + 1, cut[k + 1] - 1)]

RECURSIVE Denoted(_), Declared(_, _)

\* The type that declarator s declares when its specifiers say t.
Declared(s, t) ==
  CASE s \in {<<>>, <<"name">>} -> t
    [] s # <<>> /\ Head(s) = "*" ->
         LET rest == Tail(s)
             n == Min({i \in 0..Len(rest) :
                         i = Len(rest) \/ rest[i + 1] \notin Quals})
         IN  Declared(SubSeq(rest, n + 1, Len(rest)),
                      Pointer(t, Range(SubSeq(rest, 1, n))))
    [] Len(s) > 1 /\ Head(s) # "*" /\ Last(s) = "[]" ->
         Declared(Front(s), Array(t))
    [] Len(s) > 1 /\ Head(s) # "*" /\ Last(s) = ")" ->
         LET o == Opening(s) IN
         IF o = 1 THEN Declared(SubSeq(s, 2, Len(s) - 1), t)
         ELSE LET pieces == Pieces(SubSeq(s, o + 1, Len(s) - 1))
              IN  Declared(SubSeq(s, 1, o - 1),
                    Function(t, [k \in DOMAIN pieces |-> Denoted(pieces[k])]))
    [] OTHER -> [kind |-> "none"]

\* The parameter or function that text s declares.
Denoted(s) ==
  LET n == Min({i \in 0..Len(s) :
                  i = Len(s) \/ s[i + 1] \notin Quals \union Names})
      specifiers == Range(SubSeq(s, 1, n))
  IN  IF s = <<"...">> THEN Ellipsis
      ELSE IF Cardinality(specifiers \intersect Names) # 1
      THEN Named([kind |-> "none"])
      ELSE Named(Declared(SubSeq(s, n + 1, Len(s)),
             Base(CHOOSE x \in specifiers : x \in Names,
                  specifiers \intersect Quals)))

\* Two functions have the same type in C if they are equal up to the
\* qualifiers of the parameters themselves, the names of parameters, and
\* (void) for no parameter; a parameter of array or function type is a pointer.
RECURSIVE Canonical(_)
Canonical(t) ==
  CASE t.kind = "pointer" -> Pointer(Canonical(t.to), t.quals)
    [] t.kind = "array" -> Array(Canonical(t.of))
    [] t.kind = "function" ->
         LET Adjusted(p) ==
               IF p.kind = "EllipsisParam" THEN p
               ELSE LET u == Canonical(p.type) IN
                    CASE u.kind \in {"base", "pointer"} ->
                           [u EXCEPT !.quals = {}]
                      [] u.kind = "array" -> Pointer(u.of, {})
                      [] u.kind = "function" -> Pointer(u, {})
                      [] OTHER -> u
             params == [i \in DOMAIN t.params |-> Adjusted(t.params[i])]
         IN  Function(Canonical(t.ret),
                      IF params = <<Base("void", {})>> THEN <<>> ELSE params)
    [] OTHER -> t

-----------------------------------------------------------------------------
(* The types get_type can write *)

\* `volatile` is written before the whole text, which is the place for a base
\* type and makes a volatile pointer a pointer to volatile.
RECURSIVE IsPlain(_)
IsPlain(t) ==
  \/ t.kind = "base"
  \/ t.kind = "pointer" /\ "volatile" \notin t.quals /\ IsPlain(t.to)

\* As a parameter a volatile pointer to what is volatile anyway is as good.
IsPlainParameter(p) ==
  \/ p = Ellipsis
  \/ IsPlain(p.type)
  \/ /\ p.type.kind = "pointer" /\ IsPlain(p.type.to)
     /\ "volatile" \in Specifiers(p.type)

\* An array of plain elements or a pointer to a function of plain types.  If it
\* has no name, a `const` of its specifiers ends up behind the declarator, and
\* an ellipsis among its parameters hides all the rest of it.
IsWritable(p) ==
  \/ IsPlainParameter(p)
  \/ /\ p.kind = "Typename" => "const" \notin Specifiers(p.type)
     /\ \/ p.type.kind = "array" /\ IsPlain(p.type.of)
        \/ /\ p.type.kind = "pointer" /\ p.type.to.kind = "function"
           /\ p.type.quals = {} /\ IsPlain(p.type.to.ret)
           /\ \A q \in Range(p.type.to.params) :
                q # Ellipsis /\ IsPlainParameter(q)

StubIsPossible == IsPlain(decl.ret) /\ \A p \in Range(decl.params) : IsWritable(p)

\* The texts and the head are made of tokens and grow with the phases; nothing
\* is left to be written when the head is done.
TypeOK ==
  /\ decl \in Declarations
  /\ phase \in {"prettify", "head", "done", "raised"}
  /\ Len(texts) <= Len(decl.params) + 1
  /\ phase = "prettify" => head = <<>>
  /\ phase = "done" => texts = <<>> /\ Last(head) = ")"

\* The stub of a declared function has the type of the declaration, so that the
\* file with both compiles, for exactly the declarations of StubIsPossible.
\* For every other one TBF raises or writes a head that C reads otherwise or
\* not at all: get_type composes texts from the outside where C nests them
\* around the name.
StubHasDeclaredType ==
  phase \in {"done", "raised"} =>
    (StubIsPossible <=>
       phase = "done" /\ Canonical(Denoted(head).type) = Canonical(decl))

=============================================================================
