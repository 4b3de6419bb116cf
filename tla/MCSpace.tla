---- MODULE MCSpace ----
EXTENDS Propagation

MCEnumSeq == <<"a", "b", "c">>
MCOpposite == [v \in {"a", "b", "c"} |-> CASE v = "a" -> "b" [] v = "b" -> "a" [] OTHER -> v]
MCArity == [c \in {"flag", "num", "rel"} |-> IF c = "rel" THEN 2 ELSE 1]
MCUniverse == <<1, 2, 4>>

In(c, vs) == [choice |-> c, vars |-> vs]
v(i) == Forall(i)
Con(n, ins, cs) == [nvars |-> n, inputs |-> ins, conds |-> cs]
NoCounter == [kind |-> "Add", amount |-> 1, chosen |-> FALSE, incr |-> {"a"}, base |-> 0, vis |-> "NoMax", limit |-> 1]
Sys(choices, n, cons) ==
  [choices |-> choices, cons |-> cons, objs |-> n, cnt |-> NoCounter, trigger |-> {}, exhaustive |-> TRUE]

\* rel is an order: transitive; "c" means unordered.
Transitive == Con(3, <<In("rel", <<v(1), v(2)>>), In("rel", <<v(2), v(3)>>), In("rel", <<v(1), v(3)>>)>>,
                  <<IsEnum(1, {"a"}, TRUE), IsEnum(2, {"a"}, TRUE), IsEnum(3, {"a"}, FALSE)>>)
Merged == Con(3, <<In("rel", <<v(1), v(2)>>), In("rel", <<v(1), v(3)>>), In("rel", <<v(2), v(3)>>)>>,
              <<IsEnum(1, {"c"}, TRUE), CmpInput(2, "Eq", 3)>>)
FlagRel == Con(2, <<In("flag", <<v(1)>>), In("flag", <<v(2)>>), In("rel", <<v(1), v(2)>>)>>,
               <<CmpInput(1, "Eq", 2), IsEnum(3, {"a", "b"}, FALSE)>>)
FlagFlag == Con(2, <<In("flag", <<v(1)>>), In("rel", <<v(1), v(2)>>)>>,
                <<IsEnum(1, {"a"}, TRUE), IsEnum(2, {"b"}, TRUE)>>)
NumCmp == Con(2, <<In("num", <<v(1)>>), In("num", <<v(2)>>), In("rel", <<v(1), v(2)>>)>>,
              <<CmpInput(1, "Leq", 2), IsEnum(3, {"a"}, TRUE)>>)
NumCode == Con(1, <<In("num", <<v(1)>>), In("flag", <<v(1)>>)>>,
               <<CmpCode(1, "Lt", 4), IsEnum(2, {"b"}, FALSE), Code(FALSE, FALSE)>>)

Plain == {Sys({"rel"}, 3, <<Transitive, Merged>>),
          Sys({"flag", "rel"}, 2, <<FlagRel, FlagFlag>>),
          Sys({"num", "rel"}, 2, <<NumCmp>>), Sys({"flag", "num"}, 2, <<NumCode>>)}

Counter(kind, amount, vis, limit) ==
  [kind |-> kind, amount |-> amount, chosen |-> amount = 0, incr |-> {"a"}, base |-> IF kind = "Add" THEN 0 ELSE 1,
   vis |-> vis, limit |-> limit]
Counted(c, cons, trig, n) ==
  [choices |-> {"flag", "cnt"} \cup (IF c.chosen THEN {"num"} ELSE {}),
   cons |-> cons, objs |-> n, cnt |-> c, trigger |-> trig, exhaustive |-> FALSE]
CounterSystems ==
  {Counted(Counter(k, a, vis, l), cons, {}, 2) :
     k \in {"Add", "Mul"}, a \in {2, 0}, vis \in {"Full", "NoMax"}, l \in {2, 4, 6},
     cons \in {<<>>, <<NumCode>>}}
CounterSystemsOk == {s \in CounterSystems : s.cons # <<>> => s.cnt.chosen}
Lowering ==
  {Counted(Counter(k, a, vis, 4), <<>>, {"b"}, 2) :
     k \in {"Add", "Mul"}, a \in {2, 0}, vis \in {"Full", "HiddenMax", "NoMax"}}

MCSystems == Plain \cup CounterSystemsOk \cup Lowering
====
