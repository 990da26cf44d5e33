--------------------------- MODULE MCGraphExecution ---------------------------
(* Instances of GraphExecution for TLC. *)
EXTENDS GraphExecution

\* Graphs without control flow: 0 is a weight, 1 an input, 2 to 4 are nodes of
\* one or two inputs, the same twice perhaps, each with a promise or not.
Lists(n) == {<<i>> : i \in 1..(n - 1)} \cup {<<i, j>> : i, j \in {k \in 0..(n - 1) : k < 2 \/ n > 2}}
Ordered(n) == {l \in Lists(n) : Len(l) = 2 => l[1] <= l[2] /\ l[2] > 0}

Plain(inputs, where, outputs, fed) ==
  LET value[n \in 0..4] ==
        IF n \in {0, 1, fed} THEN n + 1
        ELSE IF n \in where THEN value[inputs[n][1]]
        ELSE IF Len(inputs[n]) = 1 THEN value[inputs[n][1]] + 1
        ELSE value[inputs[n][1]] + value[inputs[n][2]]
  IN [nodes |-> <<3, 1, 4, 0, 2>>,
      op |-> [n \in 0..4 |-> CASE n < 2 -> "Placeholder" [] n \in where -> "Where"
                               [] Len(inputs[n]) = 1 -> "inc" [] OTHER -> "add"],
      inputs |-> [n \in 0..4 |-> IF n < 2 THEN <<>>
                                 ELSE [k \in 1..Len(inputs[n]) |-> <<inputs[n][k], 0>>]],
      weights |-> {0}, feeds |-> {1, fed}, outputs |-> outputs, frame |-> <<>>,
      value |-> [n \in {0, 1, fed} |-> n + 1],
      answer |-> [n \in outputs |-> value[n]]]

MCPlain ==
  {Plain([n \in 2..4 |-> <<i2, i3, i4>>[n - 1]], where, outputs, fed) :
     i2 \in Ordered(2), i3 \in Ordered(3), i4 \in Ordered(4),
     where \in SUBSET {2, 3}, outputs \in {{4}, {2, 4}, {3, 4}}, fed \in 1..3}

\* y = x + 1 if p, else the dynamic op of x; the answer adds x.
Conditional(p) ==
  [nodes |-> <<"x", "p", "switch", "then", "else", "merge", "sum">>,
   op |-> ("x" :> "Placeholder") @@ ("p" :> "Placeholder") @@ ("switch" :> "Switch") @@
          ("then" :> "inc") @@ ("else" :> "Where") @@ ("merge" :> "Merge") @@ ("sum" :> "add"),
   inputs |-> ("x" :> <<>>) @@ ("p" :> <<>>) @@ ("switch" :> << <<"x", 0>>, <<"p", 0>> >>) @@
              ("then" :> << <<"switch", 1>> >>) @@ ("else" :> << <<"switch", 0>> >>) @@
              ("merge" :> << <<"then", 0>>, <<"else", 0>> >>) @@
              ("sum" :> << <<"merge", 0>>, <<"x", 0>> >>),
   weights |-> {}, feeds |-> {"x", "p"}, outputs |-> {"sum"}, frame |-> <<>>,
   value |-> ("x" :> 5) @@ ("p" :> p), answer |-> ("sum" :> IF p = 1 THEN 11 ELSE 10)]

\* for (i = 0, x = 3; i < limit; i++) x += i, with the limit a constant of the loop.
Loop(limit) ==
  [nodes |-> <<"i0", "x0", "n", "i", "x", "limit", "imerge", "xmerge", "less", "cond",
               "iswitch", "xswitch", "inext", "iinc", "xadd", "xnext", "iexit", "xexit">>,
   op |-> ("i0" :> "Placeholder") @@ ("x0" :> "Placeholder") @@ ("n" :> "Placeholder") @@
          ("i" :> "Enter") @@ ("x" :> "Enter") @@ ("limit" :> "EnterConst") @@
          ("imerge" :> "Merge") @@ ("xmerge" :> "Merge") @@ ("less" :> "less") @@
          ("cond" :> "LoopCond") @@ ("iswitch" :> "Switch") @@ ("xswitch" :> "Switch") @@
          ("iinc" :> "inc") @@ ("xadd" :> "add") @@ ("inext" :> "NextIteration") @@
          ("xnext" :> "NextIteration") @@ ("iexit" :> "Exit") @@ ("xexit" :> "Exit"),
   inputs |-> ("i0" :> <<>>) @@ ("x0" :> <<>>) @@ ("n" :> <<>>) @@
              ("i" :> << <<"i0", 0>> >>) @@ ("x" :> << <<"x0", 0>> >>) @@
              ("limit" :> << <<"n", 0>> >>) @@
              ("imerge" :> << <<"i", 0>>, <<"inext", 0>> >>) @@
              ("xmerge" :> << <<"x", 0>>, <<"xnext", 0>> >>) @@
              ("less" :> << <<"imerge", 0>>, <<"limit", 0>> >>) @@
              ("cond" :> << <<"less", 0>> >>) @@
              ("iswitch" :> << <<"imerge", 0>>, <<"cond", 0>> >>) @@
              ("xswitch" :> << <<"xmerge", 0>>, <<"cond", 0>> >>) @@
              ("iinc" :> << <<"iswitch", 1>> >>) @@
              ("xadd" :> << <<"xswitch", 1>>, <<"iswitch", 1>> >>) @@
              ("inext" :> << <<"iinc", 0>> >>) @@ ("xnext" :> << <<"xadd", 0>> >>) @@
              ("iexit" :> << <<"iswitch", 0>> >>) @@ ("xexit" :> << <<"xswitch", 0>> >>),
   weights |-> {"n"}, feeds |-> {"i0", "x0"}, outputs |-> {"iexit", "xexit"},
   frame |-> [e \in {"i", "x", "limit"} |-> "loop"],
   value |-> ("i0" :> 0) @@ ("x0" :> 3) @@ ("n" :> limit),
   answer |-> ("iexit" :> limit) @@ ("xexit" :> 3 + (limit * (limit - 1)) \div 2)]

\* The same with a loop in it: for (j = i; j < bound; j++); x += j.  The bound is
\* a constant of the inner loop, the result of the node given.
Nested(limit, bound, answer) ==
  LET outer == Loop(limit) IN
  [outer EXCEPT
     !.nodes = @ \o <<"j", "jlimit", "jmerge", "jless", "jcond", "jswitch", "jinc", "jnext", "jexit">>,
     !.op = @ @@ ("j" :> "Enter") @@ ("jlimit" :> "EnterConst") @@ ("jmerge" :> "Merge") @@
            ("jless" :> "less") @@ ("jcond" :> "LoopCond") @@ ("jswitch" :> "Switch") @@
            ("jinc" :> "inc") @@ ("jnext" :> "NextIteration") @@ ("jexit" :> "Exit"),
     !.inputs = ("xadd" :> << <<"xswitch", 1>>, <<"jexit", 0>> >>) @@ @ @@
                ("j" :> << <<"iswitch", 1>> >>) @@ ("jlimit" :> << <<bound, 0>> >>) @@
                ("jmerge" :> << <<"j", 0>>, <<"jnext", 0>> >>) @@
                ("jless" :> << <<"jmerge", 0>>, <<"jlimit", 0>> >>) @@
                ("jcond" :> << <<"jless", 0>> >>) @@
                ("jswitch" :> << <<"jmerge", 0>>, <<"jcond", 0>> >>) @@
                ("jinc" :> << <<"jswitch", 1>> >>) @@ ("jnext" :> << <<"jinc", 0>> >>) @@
                ("jexit" :> << <<"jswitch", 0>> >>),
     !.frame = @ @@ [e \in {"j", "jlimit"} |-> "inner"],
     !.answer = ("xexit" :> answer) @@ @]

MCGraphs ==
  MCPlain \cup {Conditional(0), Conditional(1), Loop(0), Loop(2),
              Nested(1, "limit", 4), Nested(2, "iinc", 6)}

\* The bound of the inner loop is a constant of the outer one too.
MCInvariant == {Nested(2, "limit", 7)}

\* The condition of the loop is asked for, to inspect it.
MCInspected == {[Loop(1) EXCEPT !.outputs = {"less"}, !.answer = ("less" :> 0)]}

\* Where the nodes of the two loops are.
Layout(g) ==
  LET inner == {"jmerge", "jless", "jcond", "jswitch", "jinc", "jnext", "jexit"}
      outside == {"i0", "x0", "n", "i", "x", "limit"}
      iterated == (inner \cup {"iinc", "xadd", "inext", "xnext", "j"}) \cap Nodes(g)
      loops == g.frame # <<>>
  IN [nest |-> [n \in Nodes(g) |->
                  IF ~loops \/ n \in outside THEN <<>> ELSE IF n \in inner THEN <<"loop", "inner">> ELSE <<"loop">>],
      cond |-> ("loop" :> "cond") @@ ("inner" :> "jcond"),
      body |-> IF loops THEN (iterated \X {1}) \cup ({"jinc", "jnext"} \cap Nodes(g)) \X {2} ELSE {}]

\* Only where a constant of a loop becomes one of a loop within it, a node in a loop
\* may be run before the loop is entered.
ASSUME LayoutAssumption ==
  \A g \in MCGraphs : Guarded(g, Layout(g)) /\ (LaidOut(g, Layout(g)) \/ g = Nested(1, "limit", 4))
\* All the outputs are outside the loops, but for the one that is inspected.
ASSUME OutsideAssumption ==
  /\ \A g \in MCGraphs : Outside(g, Layout(g))
  /\ \A g \in MCInspected : LaidOut(g, Layout(g)) /\ ~Outside(g, Layout(g))
ASSUME InvariantAssumption ==
  \A g \in MCInvariant \cup {Nested(1, "limit", 4)} : ~LaidOut(g, Layout(g))
=============================================================================
