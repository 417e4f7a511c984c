---------------------------- MODULE MCStubTypes ----------------------------
(* Base types with every set of qualifiers, pointers to pointers, arrays,   *)
(* arrays of arrays, pointers to arrays, functions, and pointers to         *)
(* functions with up to two parameters of every one of these kinds.         *)
EXTENDS StubTypes

PointersTo(S) == {Pointer(t, q) : t \in S, q \in SUBSET Quals}

Bases == {Base("int", q) : q \in SUBSET Quals}
Void == Base("void", {})
Simple == Bases \union PointersTo(Bases \union {Void})
Callbacks ==
  {Pointer(Function(r, p), q) :
     r \in {Void, Base("int", {"const"}), Pointer(Base("int", {}), {})},
     p \in {<<>>, <<Unnamed(Void)>>,
            <<Named(Base("int", {})), Ellipsis>>}
           \union {<<Unnamed(t), Named(u)>> :
                     t \in {Base("int", {"const"}), Array(Base("int", {}))},
                     u \in {Pointer(Base("int", {}), {"volatile"}),
                            Pointer(Base("int", {"const"}), {}),
                            Pointer(Function(Void, <<>>), {})}},
     q \in {{}, {"const"}}}
Types ==
  Simple
    \union PointersTo(PointersTo({Base("int", {}), Base("int", {"volatile"})}))
    \union {Array(t) : t \in Simple \union {Array(Base("int", {}))}}
    \union {Pointer(Array(t), {}) : t \in Bases}
    \union {Function(Void, <<Unnamed(Base("int", {}))>>)}
    \union Callbacks
    \union {Array(Pointer(Function(Void, <<>>), {}))}
    \union {Pointer(Pointer(Function(Void, <<>>), {}), {})}

Parameters == {Named(t) : t \in Types} \union {Unnamed(t) : t \in Types}

MCDeclarations ==
  {Function(r, p) :
     r \in {Void, Base("int", {"const"}), Pointer(Base("int", {"volatile"}), {}),
            Pointer(Function(Void, <<Unnamed(Base("int", {}))>>), {}),
            Pointer(Array(Base("int", {})), {})},
     p \in {<<>>, <<Unnamed(Void)>>}
           \union {<<q>> : q \in Parameters}
           \union {<<Named(Base("int", {})), q, Ellipsis>> : q \in Parameters}}
=============================================================================
