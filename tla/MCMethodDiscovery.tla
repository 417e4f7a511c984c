-------------------------- MODULE MCMethodDiscovery --------------------------
(* Constants of MethodDiscovery for TLC. *)
EXTENDS MethodDiscovery

Item(kind, name) == [kind |-> kind, name |-> name]

\* Two declarations of the nondeterministic method that is called, one with a parameter
\* list that ends in two parentheses, and what else the program may say of it.
CodeTokens ==
    {Item("prototype", "nondet"), Item("callback", "nondet"), Mark("simple"), Mark("open"),
     Mark("close")}

\* Lines with up to three tokens of code, a call behind the end of an attribute, and lines
\* that other items or marks fill.
MCLines ==
    UNION {[1..n -> CodeTokens] : n \in 0..3}
    \cup {<<Item(kind, "nondet")>> : kind \in {"definition", "call", "pointer"}}
    \cup {<<Mark("close"), Item("call", "nondet")>>, <<Item("prototype", "other")>>,
          <<Item("typedef", "other")>>, <<Item("prototype", "printf")>>,
          <<Item("prototype", "error")>>}
    \cup {<<Mark(kind)>> : kind \in {"asm", "asm_open", "asm_close", "struct_open", "member",
                                     "struct_close"}}
=============================================================================
