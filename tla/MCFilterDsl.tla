---------------------------- MODULE MCFilterDsl ----------------------------
(* FilterDsl for TLC.                                                       *)
EXTENDS FilterDsl

MCAlphabet == <<"!", "*", "-", "?", "[", "\\", "]", "a", "b">>
MCTexts == UNION {[1 .. n -> {"a", "b", "]"}] : n \in 0 .. 3} \cup [1 .. 1 -> AnyChar]

Name(n) == [kind |-> n, name |-> n, num |-> 0, str |-> NoStr]
ParamNamed(n) == [kind |-> "param", name |-> n, num |-> 0, str |-> NoStr]
MCOperands ==
    {[kind |-> "num", name |-> "", num |-> 1, str |-> NoStr],
     [kind |-> "str", name |-> "", num |-> 0, str |-> <<"a">>],
     [kind |-> "str", name |-> "", num |-> 0, str |-> <<"*", "b">>],
     Name("func"), Name("ret"), Name("caller"),
     ParamNamed("fd"), ParamNamed("flags"), ParamNamed("path"), ParamNamed("nobody")}

IntParam(n, v) == [name |-> n, num |-> v, str |-> NoStr]
TextParam(n, s) == [name |-> n, num |-> 0, str |-> s]
MCCalls ==
    {[params |-> {IntParam("fd", fd), IntParam("flags", 1), TextParam("path", s)},
      func |-> <<"a">>, ret |-> ret, caller |-> caller]
       : fd \in {0, 1}, s \in {<<"a">>, <<"a", "b">>}, ret \in {-1, 1},
         caller \in {NoStr, <<"a">>}}

\* Arrays that hold any expression of the bound but a chain of three, and
\* arrays that do not.
Options == {[nodes |-> 5, bytes |-> 6], [nodes |-> 3, bytes |-> 3]}
Scaled == {[nodes |-> 3, bytes |-> 6]}
=============================================================================
