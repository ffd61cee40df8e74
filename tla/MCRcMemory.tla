----------------------------- MODULE MCRcMemory -----------------------------
(* Instances of RcMemory: a byte of two bits each way, four bytes of memory. *)
EXTENDS RcMemory, Bitwise, TLC

MCAnd(a, b) == a & b
MCXor(a, b) == a ^^ b

M(type, addr, size) == [type |-> type, addr |-> addr, size |-> size]
K(n) == [type |-> "Const", addr |-> 0, size |-> "32", num |-> n]
Plain(flag, o) == [flag |-> flag, left |-> o, oper |-> "None", right |-> K(1)]
Scaled(flag, o, oper, p) == [flag |-> flag, left |-> o, oper |-> oper, right |-> p]
Cond(sources, left, oper, right) == [sources |-> sources, left |-> left, oper |-> oper, right |-> right]

MCContents ==
    { (0 :> 0) @@ (1 :> 0), (0 :> 1) @@ (1 :> 0), (0 :> 2) @@ (1 :> 0), (0 :> 3) @@ (1 :> 1),
      (0 :> 1) @@ (1 :> 2), (0 :> 2) @@ (1 :> 3) }

Terms == {M("Address", 0, "8"), M("Address", 0, "32BE"), M("Delta", 0, "8"), M("Delta", 1, "HIGH"),
          M("BCD", 0, "8"), M("Inverted", 1, "LOW"), K(3)}
Links == {Plain(f, o) : f \in {"AddSource", "SubSource"}, o \in Terms}
           \cup {Scaled("AddSource", M("Delta", 0, "8"), "Mult", K(2)),
                 Scaled("SubSource", M("Address", 1, "8"), "Div", M("Address", 0, "LOW")),
                 Scaled("SubSource", M("BCD", 0, "8"), "And", M("Delta", 1, "8")),
                 Plain("AddAddress", M("Address", 0, "LOW")),
                 Scaled("AddAddress", M("Address", 1, "8"), "Xor", M("Inverted", 0, "LOW"))}
Leaves == {M("Address", 1, "8"), M("Delta", 0, "8"), K(0)}

SumConditions ==
    {Cond(s, l, "=", K(1)) :
        s \in {<<a>> : a \in Links} \cup {<<a, b>> : a \in Links, b \in Links}, l \in Leaves}

Operands == {M(t, 0, s) : t \in {"Address", "Delta", "Inverted"}, s \in {"8", "LOW", "BIT0", "BITCOUNT"}}
              \cup {M("Address", 1, "8"), M("Delta", 1, "8"), K(1)}
ComparedConditions ==
    {Cond(<<>>, a, oper, b) : a \in Operands, b \in Operands, oper \in {"=", "!=", "<", "<=", ">", ">="}}

PriorConditions ==
    {Cond(s, M("Prior", 0, size), "=", K(1)) :
        size \in {"8", "LOW", "HIGH", "BIT0", "32", "32BE"},
        s \in {<<>>, <<Plain("AddAddress", M("Address", 0, "LOW"))>>}}

MCConditions == SumConditions \cup ComparedConditions \cup PriorConditions
=============================================================================
