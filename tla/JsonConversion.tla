--------------------------- MODULE JsonConversion ---------------------------
(***************************************************************************)
(* JSON values as Python sees them: json_to_pyobj and pyobj_to_json of the *)
(* data channel binding, and the type caster over them.                    *)
(*                                                                         *)
(* A value is a pair of its type and its content; the content of a list or *)
(* array is a sequence of values, that of a dict or object a function from *)
(* keys.  Of numbers only "huge" matters, an integer beyond Int64.         *)
(***************************************************************************)
EXTENDS Naturals, Sequences

Null == <<"null", "">>
EmptyKey == "\"\""

RECURSIVE json_to_pyobj(_)
json_to_pyobj(j) ==
    CASE j[1] = "null"   -> <<"None", "">>
      [] j[1] = "uint"   -> <<"int", j[2]>>
      [] j[1] = "real"   -> <<"float", j[2]>>
      [] j[1] = "string" -> <<"str", j[2]>>
      [] j[1] = "array"  -> <<"list", [i \in DOMAIN j[2] |-> json_to_pyobj(j[2][i])]>>
      [] j[1] = "object" -> <<"dict", [k \in DOMAIN j[2] |-> json_to_pyobj(j[2][k])]>>
      [] OTHER -> j  \* bool, int

\* isinstance: Python's bool is a subclass of its int.
IsInstance(p, type) == p[1] = type \/ (type = "int" /\ p[1] = "bool")
CastInt(p) == <<"int", IF p[2] = "true" THEN "1" ELSE IF p[2] = "false" THEN "0" ELSE p[2]>>

Exception == <<"raises", "">>

\* Mutant: the test for int comes before the one for bool.
RECURSIVE pyobj_to_json_intfirst(_)
pyobj_to_json_intfirst(p) ==
    LET Inner(c) == [x \in DOMAIN c |-> pyobj_to_json_intfirst(c[x])]
        Compound(type) ==
          IF \E x \in DOMAIN p[2] : Inner(p[2])[x] = Exception THEN Exception
          ELSE <<type, Inner(p[2])>>
    IN CASE IsInstance(p, "int")   -> IF p[2] = "huge" THEN Exception ELSE CastInt(p)
         [] IsInstance(p, "bool")  -> p
         [] IsInstance(p, "float") -> <<"real", p[2]>>
         [] IsInstance(p, "str")   -> <<"string", p[2]>>
         [] IsInstance(p, "list")  -> Compound("array")
         [] IsInstance(p, "dict")  -> Compound("object")
         [] OTHER -> Null

\* An int is cast to Int64, which raises beyond it; types not listed, as a
\* tuple, become null.
RECURSIVE pyobj_to_json(_)
pyobj_to_json(p) ==
    LET Inner(c) == [x \in DOMAIN c |-> pyobj_to_json(c[x])]
        Compound(type) ==
          IF \E x \in DOMAIN p[2] : Inner(p[2])[x] = Exception THEN Exception
          ELSE <<type, Inner(p[2])>>
    IN CASE IsInstance(p, "bool")  -> p
         [] IsInstance(p, "int")   -> IF p[2] = "huge" THEN Exception ELSE CastInt(p)
         [] IsInstance(p, "float") -> <<"real", p[2]>>
         [] IsInstance(p, "str")   -> <<"string", p[2]>>
         [] IsInstance(p, "list")  -> Compound("array")
         [] IsInstance(p, "dict")  -> Compound("object")
         [] OTHER -> Null

\* The type caster always gives a dict: the elements of an array all have the
\* empty name, so that the last stays; a scalar has no elements.
Cast(j) ==
    CASE j[1] = "object" -> json_to_pyobj(j)
      [] j[1] = "array" /\ j[2] # <<>> ->
           <<"dict", [k \in {EmptyKey} |-> json_to_pyobj(j[2][Len(j[2])])]>>
      [] OTHER -> <<"dict", <<>>>>

\* The type caster takes a dict only.
Load(p) == IF IsInstance(p, "dict") THEN pyobj_to_json(p) ELSE Exception
=============================================================================
